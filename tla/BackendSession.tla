--------------------------- MODULE BackendSession ---------------------------
(***************************************************************************)
(* The control connection of the TypeScript backend SDK                    *)
(* (packages/backend/src/index.ts): connect() and close() of the           *)
(* application, the attempts that exchange the enrollment credential, open *)
(* a socket and shake hands, the heartbeat interval, the reconnect timers, *)
(* and the access token kept between attempts.  establish() is            *)
(* asynchronous and nothing stops two of its calls from overlapping, so    *)
(* every call is an attempt of its own with its own socket; every await    *)
(* of the code is a point where the other actions may run.                 *)
(*                                                                         *)
(* The gateway is the environment: it rotates the one access secret of the *)
(* enrollment at every exchange, gives the backend's identity to the       *)
(* newest handshake and closes the previous holder with the code           *)
(* GATEWAY_CLOSE_BACKEND_REPLACED.  A secret is "good" while it is the one *)
(* the gateway accepts and "bad" from the next rotation on, which is all   *)
(* the code can tell of it.                                                *)
(***************************************************************************)
EXTENDS Naturals, FiniteSets

CONSTANTS
    Slots,        \* attempts that may overlap
    NoSlot,
    Exchanging,   \* a zgb_ credential with exchangeEnrollment on
    MaxConnects,  \* connect() calls of the application
    MaxFaults     \* failures, refusals and takeovers of the environment

ConstantsOK ==
    /\ NoSlot \notin Slots /\ IsFiniteSet(Slots)
    /\ MaxConnects \in Nat /\ MaxFaults \in Nat

VARIABLES
    closing,   \* whether the application ever calls close()
    closed,    \* GatewayBackend.closed
    state,     \* GatewayBackend.state
    failure,   \* GatewayBackend.failure: none, of an attempt, or REPLACED
    token,     \* GatewayBackend.accessToken
    current,   \* GatewayBackend.socket: the attempt whose socket it is
    beating,   \* GatewayBackend.heartbeatTimer is set
    beats,     \* heartbeat intervals that run
    timers,    \* reconnect timers that run
    attempts,  \* the calls of establish() and their sockets
    owner,     \* the attempt that holds the identity at the gateway
    rejected,  \* the last connect() was rejected
    calls,     \* connect() calls so far
    faults     \* environment failures so far

vars == <<closing, closed, state, failure, token, current, beating, beats, timers,
          attempts, owner, rejected, calls, faults>>

Secrets == {"none", "good", "bad", "enrollment"}

Attempt ==
    [phase : {"free", "credential", "exchange", "granted", "open", "hello",
              "live", "over"},
     origin : {"none", "connect", "timer"}, cached : BOOLEAN, secret : Secrets,
     link : {"none", "connecting", "open", "closing"},
     answer : {"none", "ready", "unauthorized", "refused"}, replaced : BOOLEAN]

Free == [phase |-> "free", origin |-> "none", cached |-> FALSE,
         secret |-> "none", link |-> "none", answer |-> "none",
         replaced |-> FALSE]

(* Every variable has its type. *)
BackendTypeOK ==
    /\ closing \in BOOLEAN
    /\ closed \in BOOLEAN
    /\ state \in {"idle", "connecting", "connected", "closed"}
    /\ failure \in {"none", "attempt", "replaced"}
    /\ token \in Secrets \ {"enrollment"}
    /\ current \in Slots \cup {NoSlot}
    /\ beating \in BOOLEAN
    /\ beats \in 0..MaxConnects
    /\ timers \in 0..MaxConnects
    /\ attempts \in [Slots -> Attempt]
    /\ owner \in Slots \cup {NoSlot}
    /\ rejected \in BOOLEAN
    /\ calls \in 0..MaxConnects
    /\ faults \in 0..MaxFaults

Init ==
    /\ closing \in BOOLEAN
    /\ closed = FALSE
    /\ state = "idle"
    /\ failure = "none"
    /\ token = "none"
    /\ current = NoSlot
    /\ beating = FALSE
    /\ beats = 0
    /\ timers = 0
    /\ attempts = [s \in Slots |-> Free]
    /\ owner = NoSlot
    /\ rejected = FALSE
    /\ calls = 0
    /\ faults = 0

-----------------------------------------------------------------------------
(* Helpers. *)

Running(s) ==
    attempts[s].phase \in {"credential", "exchange", "granted", "open", "hello"}

Fault == faults < MaxFaults /\ faults' = faults + 1
NoFault == UNCHANGED faults

(* A rotation at the gateway: every secret handed out before is refused. *)
Spoiled(secret) == IF secret = "good" THEN "bad" ELSE secret
SpoiledAttempts == [s \in Slots |-> [attempts[s] EXCEPT !.secret = Spoiled(@)]]

(* The gateway closes the holder of the identity that lost it; what a      *)
(* holder already given up on the client's side does no longer matters.    *)
WithoutHolder(as, keep) ==
    [s \in Slots |->
        IF s = owner /\ s # keep
        THEN IF as[s].phase = "over" THEN Free
             ELSE [as[s] EXCEPT !.replaced = TRUE]
        ELSE as[s]]

(* establish(): the credential is resolved first, from the cache or by a   *)
(* new exchange.                                                           *)
Begin(s, origin) ==
    /\ attempts[s].phase = "free"
    /\ state' = "connecting"
    /\ attempts' = [attempts EXCEPT ![s] =
           [Free EXCEPT
              !.phase = IF Exchanging /\ token = "none" THEN "exchange"
                        ELSE "credential",
              !.origin = origin,
              !.cached = Exchanging /\ token # "none",
              !.secret = IF Exchanging THEN token ELSE "enrollment"]]

(* The socket of a failed attempt is closed; the gateway may still have to *)
(* notice.                                                                 *)
Dropped(s) ==
    IF owner = s THEN [Free EXCEPT !.phase = "over"] ELSE Free

(* Mutant: a failed attempt is not tried again. *)
RescheduledNever(origin) == timers

(* Retrying a lost connection: only background attempts schedule the next. *)
Rescheduled(origin) == IF origin = "timer" THEN timers + 1 ELSE timers

(* attempt() gives its socket up, and the failure is recorded by connect() *)
(* or by the reconnect timer's handler, which also schedules the next try. *)
Fail(s) ==
    /\ attempts' = [attempts EXCEPT ![s] = Dropped(s)]
    /\ current' = IF current = s THEN NoSlot ELSE current
    /\ failure' = IF closed THEN failure ELSE "attempt"
    /\ timers' = Rescheduled(attempts[s].origin)
    /\ rejected' = (rejected \/ attempts[s].origin = "connect")
    /\ UNCHANGED <<closing, closed, state, token, beating, beats, owner, calls>>

-----------------------------------------------------------------------------
(* The application. *)

(* connect(), when the application has no connection and none under way.   *)
Connect(s) ==
    /\ calls < MaxConnects
    /\ state \in {"idle", "closed"} \/ rejected
    /\ Begin(s, "connect")
    /\ closed' = FALSE
    /\ failure' = "none"
    /\ rejected' = FALSE
    /\ calls' = calls + 1
    /\ UNCHANGED <<closing, token, current, beating, beats, timers, owner, faults>>

(* close(): the heartbeat stops and the current socket is closed; attempts *)
(* and timers under way are not cancelled.                                 *)
Close ==
    /\ closing
    /\ state # "idle"
    /\ ~closed
    /\ closed' = TRUE
    /\ state' = "closed"
    /\ beats' = IF beating THEN beats - 1 ELSE beats
    /\ beating' = FALSE
    /\ attempts' = IF current = NoSlot THEN attempts
                   ELSE [attempts EXCEPT ![current].link = "closing"]
    /\ current' = NoSlot
    /\ UNCHANGED <<closing, failure, token, timers, owner, rejected, calls, faults>>

-----------------------------------------------------------------------------
(* An attempt. *)

OpenSocket(s) ==
    /\ attempts' = [attempts EXCEPT ![s].phase = "open", ![s].link = "connecting"]
    /\ current' = s

(* The cached or configured credential is used as it is. *)
UseCredential(s) ==
    /\ attempts[s].phase = "credential"
    /\ OpenSocket(s)
    /\ UNCHANGED <<closing, closed, state, failure, token, beating, beats, timers, owner,
                   rejected, calls, faults>>

(* POST /api/backend/token reaches the gateway, which rotates the secret. *)
GatewayExchanges(s) ==
    /\ attempts[s].phase = "exchange"
    /\ attempts' = [SpoiledAttempts EXCEPT ![s].phase = "granted",
                                           ![s].secret = "good"]
    /\ token' = Spoiled(token)
    /\ UNCHANGED <<closing, closed, state, failure, current, beating, beats, timers,
                   owner, rejected, calls, faults>>

(* The answer arrives: the token is kept and the socket created. *)
TokenArrives(s) ==
    /\ attempts[s].phase = "granted"
    /\ token' = attempts[s].secret
    /\ OpenSocket(s)
    /\ UNCHANGED <<closing, closed, state, failure, beating, beats, timers, owner,
                   rejected, calls, faults>>

(* The exchange fails, before or after the gateway served it. *)
ExchangeFails(s) ==
    /\ attempts[s].phase \in {"exchange", "granted"}
    /\ Fault
    /\ Fail(s)

(* The socket opens and the hello is sent. *)
SocketOpens(s) ==
    /\ attempts[s].phase = "open"
    /\ attempts[s].link = "connecting"
    /\ attempts' = [attempts EXCEPT ![s].phase = "hello", ![s].link = "open"]
    /\ UNCHANGED <<closing, closed, state, failure, token, current, beating, beats,
                   timers, owner, rejected, calls, faults>>

(* The gateway handles the hello: the newest connection gets the identity, *)
(* whatever the client has done with its socket since.                     *)
GatewayAccepts(s) ==
    /\ attempts[s].phase = "hello"
    /\ attempts[s].answer = "none"
    /\ attempts[s].secret # "bad"
    /\ attempts' = [WithoutHolder(attempts, s) EXCEPT ![s].answer = "ready"]
    /\ owner' = s
    /\ UNCHANGED <<closing, closed, state, failure, token, current, beating, beats,
                   timers, rejected, calls, faults>>

GatewayRefuses(s) ==
    /\ attempts[s].phase = "hello"
    /\ attempts[s].answer = "none"
    /\ \/ /\ attempts[s].secret = "bad"
          /\ attempts' = [attempts EXCEPT ![s].answer = "unauthorized"]
          /\ NoFault
       \/ /\ Fault
          /\ attempts' = [attempts EXCEPT ![s].answer = "refused"]
    /\ UNCHANGED <<closing, closed, state, failure, token, current, beating, beats,
                   timers, owner, rejected, calls>>

(* peer_ready: the rest of handshake().  The listeners are attached, the   *)
(* heartbeat interval starts and replaces the handle of the previous one,  *)
(* and the state is set whatever close() has done since the attempt began. *)
PeerReady(s) ==
    /\ attempts[s].phase = "hello"
    /\ attempts[s].answer = "ready"
    /\ attempts[s].link = "open"
    /\ attempts' = [attempts EXCEPT ![s].phase = "live"]
    /\ beats' = beats + 1
    /\ beating' = TRUE
    /\ failure' = "none"
    /\ state' = "connected"
    /\ UNCHANGED <<closing, closed, token, current, timers, owner, rejected, calls, faults>>

(* gateway_error UNAUTHORIZED of a cached token: it is dropped and the     *)
(* attempt starts over with a fresh exchange.                              *)
CachedTokenRefused(s) ==
    /\ attempts[s].phase = "hello"
    /\ attempts[s].answer = "unauthorized"
    /\ attempts[s].link = "open"
    /\ attempts[s].cached
    /\ token' = "none"
    /\ current' = IF current = s THEN NoSlot ELSE current
    /\ attempts' = [attempts EXCEPT ![s] =
           [Free EXCEPT !.phase = "exchange", !.origin = attempts[s].origin]]
    /\ UNCHANGED <<closing, closed, state, failure, beating, beats, timers, owner,
                   rejected, calls, faults>>

(* Any other gateway_error. *)
HelloRefused(s) ==
    /\ attempts[s].phase = "hello"
    /\ attempts[s].link = "open"
    /\ \/ attempts[s].answer = "refused"
       \/ attempts[s].answer = "unauthorized" /\ ~attempts[s].cached
    /\ NoFault
    /\ Fail(s)

(* The socket fails or closes before peer_ready, or the ten seconds of the *)
(* handshake run out.                                                      *)
HandshakeFails(s) ==
    /\ attempts[s].phase \in {"open", "hello"}
    /\ \/ attempts[s].link = "closing" /\ NoFault
       \/ attempts[s].link # "closing" /\ Fault
       \/ attempts[s].replaced /\ NoFault
    /\ Fail(s)

-----------------------------------------------------------------------------
(* A live connection. *)

WasReplaced(s) == attempts[s].replaced /\ ~closed

(* handleClose(): a socket that is no longer the current one is ignored,   *)
(* a replaced backend stands down, a dropped one reconnects.               *)
HandleClose(s, replaced) ==
    IF current # s
    THEN UNCHANGED <<state, failure, current, beating, beats, timers>>
    ELSE /\ current' = NoSlot
         /\ beats' = IF beating THEN beats - 1 ELSE beats
         /\ beating' = FALSE
         /\ IF replaced
            THEN state' = "closed" /\ failure' = "replaced" /\ UNCHANGED timers
            ELSE /\ UNCHANGED failure
                 /\ IF closed
                    THEN state' = "closed" /\ UNCHANGED timers
                    ELSE state' = "connecting" /\ timers' = timers + 1

(* The close event of a live socket: closed by the gateway because it was  *)
(* replaced, closed by close(), or lost.                                   *)
SocketCloses(s) ==
    /\ attempts[s].phase = "live"
    /\ \/ attempts[s].replaced /\ NoFault /\ HandleClose(s, WasReplaced(s))
       \/ attempts[s].link = "closing" /\ NoFault /\ HandleClose(s, FALSE)
       \/ Fault /\ HandleClose(s, FALSE)
    /\ attempts' = [attempts EXCEPT ![s] = Free]
    /\ owner' = IF owner = s THEN NoSlot ELSE owner
    /\ UNCHANGED <<closing, closed, token, rejected, calls>>

(* Mutant: a timer that fires does not ask whether the backend is closed. *)
TimerFiresLate(s) ==
    /\ timers > 0
    /\ timers' = timers - 1
    /\ Begin(s, "timer")
    /\ UNCHANGED <<closing, closed, failure, token, current, beating, beats, owner,
                   rejected, calls, faults>>

(* scheduleReconnect()'s timer. *)
TimerFires(s) ==
    /\ timers > 0
    /\ timers' = timers - 1
    /\ IF closed THEN UNCHANGED <<state, attempts>> ELSE Begin(s, "timer")
    /\ UNCHANGED <<closing, closed, failure, token, current, beating, beats, owner,
                   rejected, calls, faults>>

-----------------------------------------------------------------------------
(* The environment. *)

(* The cached token comes within a minute of its expiry: the next attempt  *)
(* exchanges again, as if none were held.                                  *)
TokenAges ==
    /\ token # "none"
    /\ token' = "none"
    /\ UNCHANGED <<closing, closed, state, failure, current, beating, beats, timers,
                   attempts, owner, rejected, calls, faults>>

(* Another process with the same credential registers, with a token of     *)
(* its own exchange or not.                                                *)
OtherTakesOver(rotates) ==
    /\ Fault
    /\ attempts' = WithoutHolder(IF rotates THEN SpoiledAttempts ELSE attempts,
                                 NoSlot)
    /\ token' = IF rotates THEN Spoiled(token) ELSE token
    /\ owner' = NoSlot
    /\ UNCHANGED <<closing, closed, state, failure, current, beating, beats, timers,
                   rejected, calls>>

(* The gateway sees the socket of a failed attempt close. *)
GatewaySeesClose(s) ==
    /\ attempts[s].phase = "over"
    /\ attempts' = [attempts EXCEPT ![s] = Free]
    /\ owner' = IF owner = s THEN NoSlot ELSE owner
    /\ UNCHANGED <<closing, closed, state, failure, token, current, beating, beats,
                   timers, rejected, calls, faults>>

Progress(s) ==
    \/ UseCredential(s) \/ GatewayExchanges(s) \/ TokenArrives(s)
    \/ SocketOpens(s) \/ GatewayAccepts(s) \/ GatewayRefuses(s)
    \/ PeerReady(s) \/ CachedTokenRefused(s) \/ HelloRefused(s)
    \/ HandshakeFails(s)

Next ==
    \/ Close
    \/ TokenAges
    \/ \E rotates \in BOOLEAN : OtherTakesOver(rotates)
    \/ \E s \in Slots :
          \/ Connect(s) \/ Progress(s) \/ ExchangeFails(s)
          \/ SocketCloses(s) \/ TimerFires(s) \/ GatewaySeesClose(s)

Spec == Init /\ [][Next]_vars

(* Timers fire, and requests and handshakes are answered or fail. *)
Fairness ==
    /\ WF_vars(\E s \in Slots : TimerFires(s))
    /\ \A s \in Slots : WF_vars(Progress(s)) /\ WF_vars(GatewaySeesClose(s))

FairSpec == Spec /\ Fairness

-----------------------------------------------------------------------------
(* Properties. *)

(* One thread of attempts: an attempt under way, a reconnect timer and a   *)
(* live current connection exclude each other, and the heartbeat runs      *)
(* exactly while a connection is live.  An application that never calls    *)
(* close() is assumed: nothing cancels a reconnect timer.                  *)
OneLineage ==
    ~closing =>
        /\ Cardinality({s \in Slots : Running(s)}) + timers
             + Cardinality({s \in Slots : attempts[s].phase = "live"
                                          /\ current = s}) <= 1
        /\ beats = (IF beating THEN 1 ELSE 0)

(* A failed attempt leaves no half-open socket behind: an open socket is   *)
(* the current one or belongs to an attempt under way.                     *)
NoHalfOpenSocket ==
    ~closing => \A s \in Slots :
        attempts[s].link \in {"connecting", "open"} => Running(s) \/ current = s

(* While the state is connecting something is under way, unless connect()  *)
(* was rejected and the application has to call it again.                  *)
ConnectingIsTrying ==
    state = "connecting" /\ ~rejected =>
        timers > 0 \/ \E s \in Slots : Running(s)

(* What holds between two callbacks of the backend SDK. *)
BackendInv ==
    BackendTypeOK /\ OneLineage /\ NoHalfOpenSocket /\ ConnectingIsTrying

(* A replaced backend stands down: only connect() takes it out of closed,  *)
(* unless close() was called before it.                                    *)
ReplacedStandsDown ==
    [][~closing /\ state = "closed" /\ failure = "replaced" /\ state' # "closed"
         => calls' # calls]_vars

(* The same for every application.  The code breaks it: a timer from       *)
(* before close() still fires after the next connect(), and of the two     *)
(* threads of attempts one replaces the other and is replaced in turn.     *)
ReplacedAlwaysStandsDown ==
    [][state = "closed" /\ failure = "replaced" /\ state' # "closed"
         => calls' # calls]_vars

(* After close() the last failure is what it was.  The code breaks it: an  *)
(* attempt that close() overtook still records how it failed.              *)
FailureKeptByClose == [][closed /\ closed' => failure' = failure]_vars

(* After close() no new attempt begins: reconnect timers that still fire   *)
(* do nothing.                                                             *)
NoAttemptAfterClose ==
    [][closed /\ closed' =>
         \A s \in Slots : attempts[s].phase = "free" => attempts'[s].phase = "free"]_vars

(* A backend that was told to stand down, by the gateway or by its         *)
(* application, stays down until it is connected again.                    *)
StaysDown == ReplacedStandsDown /\ NoAttemptAfterClose

(* A dropped backend comes back by itself, if nobody calls close(). *)
Recovers ==
    timers > 0 /\ ~closing ~> state \in {"connected", "closed"}

=============================================================================
