--------------------------- MODULE ClientSession ---------------------------
(***************************************************************************)
(* The control connection of the client SDK                                *)
(* (packages/client/src/index.ts): connect(), close(), establish(), the    *)
(* reconnect timers and handleClose().  It differs from the backend SDK's  *)
(* where it matters: a failed attempt keeps its socket, a socket has no    *)
(* close listener before peer_ready, and a close event is not asked which  *)
(* socket it is of.  A slot is one call of establish() with its socket.    *)
(***************************************************************************)
EXTENDS Naturals, FiniteSets

CONSTANTS
    Slots,        \* sockets that may exist at the same time
    NoSlot,
    MaxConnects,  \* connect() calls that begin an attempt
    MaxFaults     \* errors, refusals and drops

ConstantsOK ==
    /\ NoSlot \notin Slots /\ IsFiniteSet(Slots)
    /\ MaxConnects \in Nat /\ MaxFaults \in Nat

VARIABLES
    closing,     \* whether the application ever calls close()
    slow,        \* whether peer_ready may take longer than the ten seconds
    userClosed,  \* GatewayClient.userClosed
    state,       \* GatewayClient.state
    socket,      \* GatewayClient.socket: the slot whose socket it is
    sockets,     \* the calls of establish() and their sockets
    timers,      \* reconnect timers that run
    channels,    \* GatewayClient.channels, by the connection they came over
    rejected,    \* the last connect() was rejected
    connects,    \* connect() calls so far
    faults       \* failures so far

settings == <<closing, slow>>

vars == <<settings, userClosed, state, socket, sockets, timers, channels, rejected,
          connects, faults>>

Socket == [phase : {"free", "opening", "hello", "live", "failed"},
           origin : {"none", "connect", "timer"},
           link : {"none", "open", "closing", "lost"},
           answer : {"none", "ready", "refused"}]

Free == [phase |-> "free", origin |-> "none", link |-> "none",
         answer |-> "none"]

(* Every variable has its type, and channels belong to sockets that exist. *)
ClientTypeOK ==
    /\ closing \in BOOLEAN /\ slow \in BOOLEAN
    /\ userClosed \in BOOLEAN
    /\ state \in {"idle", "connecting", "connected", "closed"}
    /\ socket \in Slots \cup {NoSlot}
    /\ sockets \in [Slots -> Socket]
    /\ timers \in 0..MaxFaults + MaxConnects
    /\ channels \in SUBSET {s \in Slots : sockets[s].phase = "live"}
    /\ rejected \in BOOLEAN
    /\ connects \in 0..MaxConnects
    /\ faults \in 0..MaxFaults

Init ==
    /\ closing \in BOOLEAN /\ slow \in BOOLEAN
    /\ userClosed = FALSE
    /\ state = "idle"
    /\ socket = NoSlot
    /\ sockets = [s \in Slots |-> Free]
    /\ timers = 0
    /\ channels = {}
    /\ rejected = FALSE
    /\ connects = 0
    /\ faults = 0

-----------------------------------------------------------------------------
(* Helpers. *)

Running(s) == sockets[s].phase \in {"opening", "hello"}

Fault == faults < MaxFaults /\ faults' = faults + 1

(* establish(): a new socket becomes the client's at once. *)
Establish(s, origin) ==
    /\ sockets[s].phase = "free"
    /\ state' = "connecting"
    /\ socket' = s
    /\ sockets' = [sockets EXCEPT ![s] =
           [Free EXCEPT !.phase = "opening", !.origin = origin]]

(* A failed attempt of a timer schedules the next. *)
Rescheduled(s) == IF sockets[s].origin = "timer" THEN timers + 1 ELSE timers

(* The attempt is rejected; its socket stays as it is. *)
Rejected(s, link) ==
    /\ sockets' = [sockets EXCEPT ![s] =
           IF link = "open"
           THEN [@ EXCEPT !.phase = "failed", !.link = link] ELSE Free]
    /\ timers' = Rescheduled(s)
    /\ rejected' = (rejected \/ sockets[s].origin = "connect")
    /\ UNCHANGED <<settings, userClosed, state, socket, channels, connects>>

-----------------------------------------------------------------------------
(* The application. *)

(* Mutant: connect() begins again while an attempt is under way. *)
ConnectAgain(s) ==
    /\ connects < MaxConnects
    /\ state # "connected"
    /\ Establish(s, "connect")
    /\ userClosed' = FALSE
    /\ rejected' = FALSE
    /\ connects' = connects + 1
    /\ UNCHANGED <<settings, timers, channels, faults>>

(* connect(): a client that is connected or connecting is left alone. *)
Connect(s) ==
    /\ connects < MaxConnects
    /\ state \in {"idle", "closed"}
    /\ Establish(s, "connect")
    /\ userClosed' = FALSE
    /\ rejected' = FALSE
    /\ connects' = connects + 1
    /\ UNCHANGED <<settings, timers, channels, faults>>

(* close(): the channels and the current socket are closed. *)
Close ==
    /\ closing
    /\ state # "idle"
    /\ ~userClosed
    /\ userClosed' = TRUE
    /\ state' = "closed"
    /\ channels' = {}
    /\ sockets' = IF socket = NoSlot THEN sockets
                  ELSE IF sockets[socket].phase \in {"failed", "free"}
                  THEN [sockets EXCEPT ![socket] = Free]
                  ELSE [sockets EXCEPT ![socket].link = "closing"]
    /\ socket' = NoSlot
    /\ UNCHANGED <<settings, timers, rejected, connects, faults>>

(* openChannel() over the connection that the client holds. *)
OpenChannel ==
    /\ state = "connected"
    /\ socket # NoSlot
    /\ sockets[socket].phase = "live"
    /\ channels' = channels \cup {socket}
    /\ UNCHANGED <<settings, userClosed, state, socket, sockets, timers, rejected,
                   connects, faults>>

-----------------------------------------------------------------------------
(* An attempt. *)

SocketOpens(s) ==
    /\ sockets[s].phase = "opening"
    /\ sockets[s].link = "none"
    /\ sockets' = [sockets EXCEPT ![s].phase = "hello", ![s].link = "open"]
    /\ UNCHANGED <<settings, userClosed, state, socket, timers, channels, rejected,
                   connects, faults>>

(* The error event of a socket that does not open. *)
SocketFails(s) ==
    /\ sockets[s].phase = "opening"
    /\ \/ sockets[s].link = "closing" /\ UNCHANGED faults
       \/ Fault
    /\ Rejected(s, "none")

(* The gateway answers the hello, also on a socket given up or closing. *)
GatewayAnswers(s) ==
    /\ sockets[s].phase \in {"hello", "failed"}
    /\ sockets[s].link = "open"
    /\ sockets[s].answer = "none"
    /\ \/ /\ sockets' = [sockets EXCEPT ![s].answer = "ready"]
          /\ UNCHANGED faults
       \/ /\ sockets' = [sockets EXCEPT ![s].answer = "refused"]
          /\ Fault
    /\ UNCHANGED <<settings, userClosed, state, socket, timers, channels, rejected, connects>>

(* peer_ready: the listeners are attached and the client is connected. *)
PeerReady(s) ==
    /\ sockets[s].phase = "hello"
    /\ sockets[s].answer = "ready"
    /\ sockets[s].link \in {"open", "closing"}
    /\ sockets' = [sockets EXCEPT ![s].phase = "live"]
    /\ state' = "connected"
    /\ UNCHANGED <<settings, userClosed, socket, timers, channels, rejected, connects, faults>>

(* gateway_error: the gateway closes the connection after it. *)
HelloRefused(s) ==
    /\ sockets[s].phase = "hello"
    /\ sockets[s].answer = "refused"
    /\ UNCHANGED faults
    /\ Rejected(s, "none")

(* The socket closes during the handshake, which nobody listens for. *)
LostUnnoticed(s) ==
    /\ sockets[s].phase = "hello"
    /\ \/ sockets[s].link = "closing" /\ UNCHANGED faults
       \/ sockets[s].link = "open" /\ Fault
    /\ sockets' = [sockets EXCEPT ![s].link = "lost"]
    /\ UNCHANGED <<settings, userClosed, state, socket, timers, channels, rejected, connects>>

(* Ten seconds without an answer. *)
HandshakeTimeout(s) ==
    /\ sockets[s].phase = "hello"
    /\ sockets[s].link = "lost" \/ slow
    /\ UNCHANGED faults
    /\ Rejected(s, sockets[s].link)

-----------------------------------------------------------------------------
(* A live connection. *)

(* handleClose() reconnects unless the application closed the client. *)
HandleClose ==
    IF userClosed
    THEN state' = "closed" /\ UNCHANGED timers
    ELSE IF state \in {"connected", "connecting"}
    THEN state' = "connecting" /\ timers' = timers + 1
    ELSE UNCHANGED <<state, timers>>

(* The close event of any socket that has been live: the client's socket   *)
(* and all of its channels go.                                             *)
SocketCloses(s) ==
    /\ sockets[s].phase = "live"
    /\ \/ sockets[s].link = "closing" /\ UNCHANGED faults
       \/ Fault
    /\ sockets' = [sockets EXCEPT ![s] = Free]
    /\ socket' = NoSlot
    /\ channels' = {}
    /\ HandleClose
    /\ UNCHANGED <<settings, userClosed, rejected, connects>>

(* scheduleReconnect()'s timer. *)
TimerFires(s) ==
    /\ timers > 0
    /\ timers' = timers - 1
    /\ IF userClosed THEN UNCHANGED <<state, socket, sockets>>
       ELSE Establish(s, "timer")
    /\ UNCHANGED <<settings, userClosed, channels, rejected, connects, faults>>

(* A socket that an attempt gave up goes in the end. *)
FailedCloses(s) ==
    /\ sockets[s].phase = "failed"
    /\ \/ sockets[s].answer = "refused" /\ UNCHANGED faults
       \/ Fault
    /\ sockets' = [sockets EXCEPT ![s] = Free]
    /\ UNCHANGED <<settings, userClosed, state, socket, timers, channels, rejected, connects>>

Progress(s) ==
    \/ SocketOpens(s) \/ GatewayAnswers(s) \/ PeerReady(s) \/ HelloRefused(s)
    \/ HandshakeTimeout(s)
    \/ sockets[s].link = "closing"
          /\ (SocketFails(s) \/ LostUnnoticed(s) \/ SocketCloses(s))

Next ==
    \/ Close
    \/ OpenChannel
    \/ \E s \in Slots :
          \/ Connect(s) \/ SocketOpens(s) \/ SocketFails(s) \/ GatewayAnswers(s)
          \/ PeerReady(s) \/ HelloRefused(s) \/ LostUnnoticed(s)
          \/ HandshakeTimeout(s) \/ SocketCloses(s) \/ TimerFires(s)
          \/ FailedCloses(s)

Spec == Init /\ [][Next]_vars

(* Sockets open or fail, hellos are answered, timers fire. *)
Fairness ==
    /\ WF_vars(\E s \in Slots : TimerFires(s))
    /\ \A s \in Slots : WF_vars(Progress(s))

FairSpec == Spec /\ Fairness

-----------------------------------------------------------------------------
(* Properties. *)

(* One control connection, if the gateway answers in time and the          *)
(* application never calls close().  Both conditions are needed: a failed  *)
(* attempt keeps its socket, and a close event is not asked whose it is.   *)
Undisturbed == ~closing /\ ~slow

(* One thread: an attempt under way, a reconnect timer and a live          *)
(* connection exclude each other.                                          *)
OneThread ==
    Undisturbed =>
        Cardinality({s \in Slots : Running(s) \/ sockets[s].phase = "live"})
          + timers <= 1

(* The client holds at most one session at the gateway. *)
OneSession ==
    Undisturbed =>
        Cardinality({s \in Slots : sockets[s].link = "open"
                                   /\ sockets[s].answer = "ready"}) <= 1

(* A connected client has the live socket its operations are sent on. *)
ConnectedHasSocket ==
    Undisturbed /\ state = "connected" =>
        socket # NoSlot /\ sockets[socket].phase = "live"

(* While the state is connecting something is under way, unless the last   *)
(* connect() was rejected.                                                 *)
ConnectingIsTrying ==
    state = "connecting" /\ ~rejected =>
        timers > 0 \/ \E s \in Slots : Running(s)

(* What holds between two callbacks of the client SDK. *)
ClientInv ==
    /\ ClientTypeOK
    /\ OneThread /\ OneSession /\ ConnectedHasSocket /\ ConnectingIsTrying

(* Channels die with their own connection, or by close(). *)
ChannelsDieWithTheirs ==
    [][Undisturbed =>
        \A s \in channels \ channels' : userClosed' \/ sockets'[s].phase # "live"]_vars

(* A reconnect is scheduled only when the client's own connection or       *)
(* attempt is lost.                                                        *)
ReconnectsAfterLoss ==
    [][Undisturbed /\ timers' > timers =>
         socket # NoSlot /\ sockets'[socket].phase \in {"free", "failed"}]_vars

(* Both as the comments of the code promise them, of every application.    *)
(* The code breaks both: the close event of the socket of an earlier       *)
(* connection is handled as if it were the current one's.                  *)
ChannelsAlwaysDieWithTheirs ==
    [][\A s \in channels \ channels' : userClosed' \/ sockets'[s].phase # "live"]_vars

ReconnectsOnlyAfterLoss ==
    [][timers' > timers =>
         socket # NoSlot /\ sockets'[socket].phase \in {"free", "failed"}]_vars

(* After close() no new attempt begins. *)
NoAttemptAfterClose ==
    [][userClosed /\ userClosed' =>
         \A s \in Slots : sockets[s].phase = "free" => sockets'[s].phase = "free"]_vars

(* What no callback of the client does. *)
ClientSteps == ChannelsDieWithTheirs /\ ReconnectsAfterLoss /\ NoAttemptAfterClose

(* After the close() of the only connect() the client ends up closed,      *)
(* whatever was under way.                                                 *)
CloseEnds == userClosed /\ connects = 1 ~> state = "closed" \/ connects > 1

(* A dropped client comes back by itself. *)
ClientRecovers ==
    Undisturbed /\ timers > 0 ~> state \in {"connected", "closed"}

(* The client always ends up where its application wants it. *)
ClientSettles == CloseEnds /\ ClientRecovers

=============================================================================
