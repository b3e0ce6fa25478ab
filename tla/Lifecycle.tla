------------------------------ MODULE Lifecycle ------------------------------
(***************************************************************************)
(* The sockets of the gateway's HTTP server and its shutdown: the routing  *)
(* of upgrades, the limit of control connections per address, the timer of *)
(* connections that have not said hello, and httpServer.close(), which     *)
(* waits for the control plane and for the HTTP server and frees what both *)
(* use.  What a hello does to leases and the registry is in Gateway.       *)
(***************************************************************************)
EXTENDS Naturals, Sequences, FiniteSets, FiniteSetsExt

CONSTANTS
    Sockets,    \* the TCP connections that exist at a time
    Ips,        \* the addresses they come from
    MaxPerIp,   \* MAX_WS_CONNECTIONS_PER_IP
    MaxCalls    \* bound: how many times close() is called

ConstantsOK == MaxPerIp \in Nat \ {0} /\ MaxCalls \in Nat /\ IsFiniteSet(Sockets)

NoSocket ==
    [at |-> "none", ip |-> "none", admitted |-> FALSE, timer |-> FALSE,
     session |-> FALSE]

VARIABLES
    vitest,      \* isVitestProcess(): a test runs the gateway
    socket,      \* of each connection: where it is ("http", "data", a control
                 \* connection "open" or "closing", another that is "dying"), its
                 \* address, whether it is counted, authTimeout, peerSessionId
    perIp,       \* wsConnectionsPerIp
    peers,       \* state.peers: the connections with a registered peer
    listening,   \* the HTTP server accepts connections
    cleanedUp,   \* the intervals are stopped, the storage is closed
    calls,       \* of each close(): the closers it waits for, whether the 50 ms
                 \* timer of a test is pending, how often it called back
    lateUse      \* history: the storage was used after it was closed

vars == <<vitest, socket, perIp, peers, listening, cleanedUp, calls, lateUse>>

Control == {"open", "closing"}

LifecycleTypeOK ==
    /\ vitest \in BOOLEAN /\ listening \in BOOLEAN
    /\ cleanedUp \in BOOLEAN /\ lateUse \in BOOLEAN
    /\ socket \in [Sockets -> [at : Control \cup {"none", "http", "data", "dying"},
                               ip : Ips \cup {"none"}, admitted : BOOLEAN,
                               timer : BOOLEAN, session : BOOLEAN]]
    /\ perIp \in [Ips -> 0..MaxPerIp] /\ peers \subseteq Sockets
    /\ calls \in Seq([waits : SUBSET {"wss", "http"}, timer : BOOLEAN, told : 0..2])

Init ==
    /\ vitest \in BOOLEAN
    /\ socket = [c \in Sockets |-> NoSocket]
    /\ perIp = [ip \in Ips |-> 0] /\ peers = {}
    /\ listening = TRUE /\ cleanedUp = FALSE /\ calls = <<>> /\ lateUse = FALSE

UseStorage == lateUse' = (lateUse \/ cleanedUp)

Put(c, s) == socket' = [socket EXCEPT ![c] = s]

-----------------------------------------------------------------------------
(* Connections.                                                            *)

Accept(c, ip) ==
    /\ listening /\ socket[c] = NoSocket
    /\ Put(c, [NoSocket EXCEPT !.at = "http", !.ip = ip])
    /\ UNCHANGED <<vitest, perIp, peers, listening, cleanedUp, calls, lateUse>>

\* A request of the HTTP API.
Serve(c) ==
    /\ socket[c].at = "http" /\ UseStorage
    /\ UNCHANGED <<vitest, socket, perIp, peers, listening, cleanedUp, calls>>

\* An upgrade to anything but /ws: to the data plane, or nowhere.
UpgradeElsewhere(c) ==
    /\ socket[c].at = "http"
    /\ \E at \in {"data", "dying"} : Put(c, [socket[c] EXCEPT !.at = at])
    /\ UNCHANGED <<vitest, perIp, peers, listening, cleanedUp, calls, lateUse>>

\* wss 'connection': one connection too many is closed and never counted.
Admit(c) ==
    LET ip == socket[c].ip IN
    /\ socket[c].at = "http"
    /\ IF perIp[ip] >= MaxPerIp
       THEN Put(c, [socket[c] EXCEPT !.at = "closing"]) /\ UNCHANGED perIp
       ELSE /\ Put(c, [socket[c] EXCEPT !.at = "open", !.admitted = TRUE,
                                        !.timer = TRUE])
            /\ perIp' = [perIp EXCEPT ![ip] = @ + 1]
    /\ UNCHANGED <<vitest, peers, listening, cleanedUp, calls, lateUse>>

\* ws.close().
Closing(s) == [s EXCEPT !.at = "closing"]

\* A first message that is no valid peer_hello, or no JSON.  Frames that were
\* received are handled even if the connection is closing or was destroyed.
BadHello(c) ==
    /\ socket[c].at \in Control /\ socket[c].admitted /\ ~socket[c].session
    /\ Put(c, Closing(socket[c]))
    /\ UNCHANGED <<vitest, perIp, peers, listening, cleanedUp, calls, lateUse>>

\* handlePeerHello: it registers a peer, or refuses and closes.  It reads the
\* storage first, and a closed storage throws.
Accepted(c) ==
    /\ ~cleanedUp
    /\ Put(c, [socket[c] EXCEPT !.timer = FALSE, !.session = TRUE])
    /\ peers' = peers \cup {c}

Refuse(c) ==
    Put(c, Closing([socket[c] EXCEPT !.timer = FALSE])) /\ UNCHANGED peers

\* A valid peer_hello stops the timer, accepted or not.
Hello(c) ==
    /\ socket[c].at \in Control /\ socket[c].admitted /\ ~socket[c].session
    /\ UseStorage
    /\ Accepted(c) \/ Refuse(c)
    /\ UNCHANGED <<vitest, perIp, listening, cleanedUp, calls>>

\* authTimeout.
AuthTimeout(c) ==
    /\ socket[c].timer
    /\ Put(c, Closing([socket[c] EXCEPT !.timer = FALSE]))
    /\ UNCHANGED <<vitest, perIp, peers, listening, cleanedUp, calls, lateUse>>

GivenBack(c) ==
    IF socket[c].admitted
    THEN perIp' = [perIp EXCEPT ![socket[c].ip] = IF @ <= 1 THEN 0 ELSE @ - 1]
    ELSE UNCHANGED perIp

\* The socket is gone.  The 'close' handler of a counted connection gives its
\* place back and disconnects its peer, if it is still registered; that writes
\* when its backend was last seen.
Gone(c) ==
    /\ socket[c] # NoSocket
    /\ Put(c, NoSocket) /\ GivenBack(c)
    /\ peers' = peers \ {c}
    /\ IF c \in peers THEN UseStorage ELSE UNCHANGED lateUse
    /\ UNCHANGED <<vitest, listening, cleanedUp, calls>>

\* An interval of the server finds a lease that expired or a silent peer.
Tick ==
    /\ ~cleanedUp /\ UseStorage
    /\ UNCHANGED <<vitest, socket, perIp, peers, listening, cleanedUp, calls>>

-----------------------------------------------------------------------------
(* Shutdown.                                                               *)

\* cleanupServerResources: stops the intervals, forgets the peers, closes the
\* storage; the second time it does nothing.
Cleanup == cleanedUp' = TRUE /\ peers' = {}

\* finishClose of every call that waits for nothing any more.
Finish(call) ==
    IF call.waits = {} /\ call.told = 0 THEN [call EXCEPT !.told = 1] ELSE call

\* httpServer.close(): destroys every connection, then waits for both closers.
Destroyed(s) ==
    [s EXCEPT !.at = CASE @ \in Control -> "closing" [] @ = "none" -> "none"
                       [] OTHER -> "dying"]

Close ==
    /\ Len(calls) < MaxCalls
    /\ listening' = FALSE
    /\ socket' = [c \in Sockets |-> Destroyed(socket[c])]
    /\ calls' = Append(calls, [waits |-> {"wss", "http"}, timer |-> vitest, told |-> 0])
    /\ UNCHANGED <<vitest, perIp, peers, cleanedUp, lateUse>>

Done(closer) ==
    calls' = [k \in DOMAIN calls |-> Finish([calls[k] EXCEPT !.waits = @ \ {closer}])]

\* Mutant: the resources go at once, the callers learn of it in time.
WssClosedAtOnce ==
    /\ \E k \in DOMAIN calls : "wss" \in calls[k].waits
    /\ Cleanup /\ Done("wss")
    /\ UNCHANGED <<vitest, socket, perIp, listening, lateUse>>

\* The control plane is closed once its last connection is gone: the resources
\* go first ('close' of wss), then the callers learn of it.
WssClosed ==
    /\ \E k \in DOMAIN calls : "wss" \in calls[k].waits
    /\ \A c \in Sockets : socket[c].at \notin Control
    /\ Cleanup /\ Done("wss")
    /\ UNCHANGED <<vitest, socket, perIp, listening, lateUse>>

\* The HTTP server is closed once its last connection is gone.
HttpClosed ==
    /\ \E k \in DOMAIN calls : "http" \in calls[k].waits
    /\ \A c \in Sockets : socket[c] = NoSocket
    /\ Done("http")
    /\ UNCHANGED <<vitest, socket, perIp, peers, listening, cleanedUp, lateUse>>

\* In a test, close() waits for 50 ms at most.
TestTimer ==
    \E k \in DOMAIN calls :
        /\ calls[k].timer
        /\ calls' = [calls EXCEPT ![k] = Finish([@ EXCEPT !.waits = {}, !.timer = FALSE])]
        /\ IF calls[k].told = 0 THEN Cleanup ELSE UNCHANGED <<cleanedUp, peers>>
        /\ UNCHANGED <<vitest, socket, perIp, listening, lateUse>>

-----------------------------------------------------------------------------
Next ==
    \/ \E c \in Sockets :
          \/ \E ip \in Ips : Accept(c, ip)
          \/ Serve(c) \/ UpgradeElsewhere(c) \/ Admit(c) \/ BadHello(c)
          \/ Hello(c) \/ AuthTimeout(c) \/ Gone(c)
    \/ Tick \/ Close \/ WssClosed \/ HttpClosed \/ TestTimer

\* Timers fire, 'close' events come; ws destroys a connection whose close is
\* not answered.
Fairness ==
    /\ \A c \in Sockets :
          /\ WF_vars(AuthTimeout(c))
          /\ WF_vars(socket[c].at \in {"closing", "dying"} /\ Gone(c))
    /\ WF_vars(WssClosed) /\ WF_vars(HttpClosed)

Spec == Init /\ [][Next]_vars /\ Fairness

-----------------------------------------------------------------------------
(* Properties.                                                             *)

\* The number kept for an address is that of its connections in being, so the
\* limit neither leaks places nor gives one away twice (a refused connection
\* never took one).
PlacesExact ==
    \A ip \in Ips :
        perIp[ip] = Quantify(Sockets, LAMBDA c : socket[c].admitted /\ socket[c].ip = ip)

\* A connection that stays open without a peer is watched: refusing a hello
\* after its timer was stopped closes it.
StrangersWatched ==
    \A c \in Sockets :
        (socket[c].at = "open" /\ ~socket[c].session) => socket[c].timer

\* Outside of a test, whatever comes in while the connections are destroyed
\* (a frame that was buffered, the disconnect of a backend, an expired lease)
\* finds the storage open.
StorageOutlivesUse == lateUse => vitest

\* close() calls back once; by then nothing is left of the server, except in a
\* test, where it may be too early for the sockets but not for the resources.
CalledBackLast ==
    \A k \in DOMAIN calls :
        calls[k].told > 0 =>
            /\ calls[k].told = 1 /\ cleanedUp /\ peers = {}
            /\ vitest \/ \A c \in Sockets : socket[c] = NoSocket

\* What holds between two events.
LifecycleInv ==
    /\ LifecycleTypeOK /\ PlacesExact /\ StrangersWatched /\ StorageOutlivesUse
    /\ CalledBackLast

\* Every close() calls back, whatever connections there are and however often
\* it is called, and leaves nothing running.
ShutdownEnds ==
    \A k \in 1..MaxCalls :
        (Len(calls) >= k) ~> (Len(calls) >= k /\ calls[k].told = 1 /\ cleanedUp)

\* A connection that does not get a peer in time does not keep its place.
StrangersLeave ==
    \A c \in Sockets :
        (socket[c].admitted /\ ~socket[c].session)
            ~> (socket[c].session \/ ~socket[c].admitted)

=============================================================================
