--------------------------- MODULE ClientChannels ---------------------------
(***************************************************************************)
(* What the client SDK keeps over its control connection                   *)
(* (packages/client/src/index.ts): the registry with waitForBackend(), and *)
(* the channels that openChannel() dials, against the gateway's side of    *)
(* both.  One connection at a time: sockets that overlap are the subject   *)
(* of ClientSession, the operation queue of ControlOps, the frames of a    *)
(* channel of ServeChannel.                                                *)
(*                                                                         *)
(* There is one backend, online or not, and one channel at a time.  The    *)
(* gateway may notice the loss of a connection after the client is back.   *)
(***************************************************************************)
EXTENDS Naturals, Sequences

CONSTANTS
    MaxChanges,   \* bound: times the backend comes or goes
    MaxOpens,     \* bound: channels
    MaxFaults,    \* bound: connections lost and dials failed
    MaxConnects,  \* bound: calls of connect()
    SameTick      \* a socket may emit two frames before a promise continues

ASSUME BoundsAssumption ==
    {MaxChanges, MaxOpens, MaxFaults, MaxConnects} \subseteq Nat /\ SameTick \in BOOLEAN

VARIABLES
    online, changes,     \* the backend; times it changed
    connects, faults, opens,
    state, userClosed,   \* of GatewayClient
    phase,               \* the connection: "none", "hello", "answered", "routed"
    alive,               \* its socket is open at both ends
    wire,                \* frames on the way to the client
    member,              \* the gateway has its session, welcomed
    lingering,           \* the gateway still has the session of the one before
    retry,               \* the reconnect timer runs
    byTimer,             \* the attempt was made by the timer
    answer,              \* the registry of the peer_ready being handled
    view,                \* registryItems has the backend
    waiter,              \* waitForBackend: "none", "waiting", "found", "rejected"
    subscribed,          \* its registry handler is installed
    chan,                \* openChannel: "none", "asked", "dialling", "open",
                         \* "failed", "closed"
    known,               \* channels has it
    data,                \* its data socket: "none", "connecting", "open",
                         \* "closing" by the client, "cut" by the gateway
    remote,              \* the gateway's channel: "none", "requested", "pending",
                         \* "attached", "gone"
    mine                 \* the channel was opened over the present connection

bounds == <<online, changes, connects, faults, opens>>
linkVars == <<phase, alive, wire, member, lingering, retry, byTimer, answer>>
waitVars == <<view, waiter, subscribed>>
chanVars == <<chan, known, data, remote, mine>>
vars == <<bounds, state, userClosed, linkVars, waitVars, chanVars>>

Init ==
    /\ online \in BOOLEAN /\ changes = 0 /\ connects = 0 /\ faults = 0 /\ opens = 0
    /\ state = "idle" /\ userClosed = FALSE
    /\ phase = "none" /\ alive = FALSE /\ wire = <<>> /\ member = FALSE
    /\ lingering = FALSE /\ retry = FALSE /\ byTimer = FALSE /\ answer = FALSE
    /\ view = FALSE /\ waiter = "none" /\ subscribed = FALSE
    /\ chan = "none" /\ known = FALSE /\ data = "none" /\ remote = "none"
    /\ mine = FALSE

Fault == faults < MaxFaults /\ faults' = faults + 1
\* A frame of the gateway, to a session it has whose socket is open.
Sent(frame) == IF member /\ alive THEN Append(wire, frame) ELSE wire

(***************************************************************************)
(* The connection                                                          *)
(***************************************************************************)
Establish(timer) ==
    /\ phase = "none"
    /\ phase' = "hello" /\ alive' = TRUE /\ state' = "connecting" /\ byTimer' = timer
    /\ UNCHANGED <<wire, member, lingering, answer, waitVars, chanVars>>

Connect ==
    /\ state \in {"idle", "closed"} /\ ~retry
    /\ connects < MaxConnects /\ connects' = connects + 1
    /\ userClosed' = FALSE /\ Establish(FALSE)
    /\ UNCHANGED <<online, changes, faults, opens, retry>>

TimerFires ==
    /\ retry /\ retry' = FALSE
    /\ IF userClosed
       THEN UNCHANGED <<state, phase, alive, wire, member, lingering, byTimer,
                        answer, waitVars, chanVars>>
       ELSE Establish(TRUE)
    /\ UNCHANGED <<bounds, userClosed>>

\* The gateway accepts the hello: peer_ready carries the registry.
Welcome ==
    /\ phase = "hello" /\ alive /\ ~member
    /\ member' = TRUE /\ wire' = <<[type |-> "ready", up |-> online]>>
    /\ UNCHANGED <<bounds, state, userClosed, phase, alive, lingering, retry,
                   byTimer, answer, waitVars, chanVars>>

BackendChanges ==
    /\ changes < MaxChanges /\ changes' = changes + 1
    /\ online' = ~online
    /\ wire' = Sent([type |-> "snapshot", up |-> online'])
    /\ UNCHANGED <<connects, faults, opens, state, userClosed, phase, alive, member,
                   lingering, retry, byTimer, answer, waitVars, chanVars>>

\* The socket is lost; some of the frames under way arrive first.
Lost ==
    /\ alive /\ Fault /\ alive' = FALSE
    /\ \E n \in 0..Len(wire) : wire' = SubSeq(wire, 1, n)
    /\ UNCHANGED <<online, changes, connects, opens, state, userClosed, phase, member,
                   lingering, retry, byTimer, answer, waitVars, chanVars>>

\* teardownChannel, and what is left of the data socket.
Torn ==
    /\ remote' = (IF remote \in {"pending", "attached"} THEN "gone" ELSE remote)
    /\ data' = (IF data = "open" THEN "cut" ELSE data)

SessionGone(own) ==
    /\ IF own THEN member /\ ~alive /\ member' = FALSE /\ UNCHANGED lingering
       ELSE lingering /\ lingering' = FALSE /\ UNCHANGED member
    /\ UNCHANGED <<bounds, state, userClosed, phase, alive, wire, retry, byTimer,
                   answer, waitVars, chan, known, mine>>

\* Mutant: the session goes alone, as when its lease expires.
SessionGoesAlone == \E own \in BOOLEAN : SessionGone(own) /\ UNCHANGED <<remote, data>>

\* The gateway notices the loss of a session and tears down its channels.
GatewayNotices ==
    \E own \in BOOLEAN :
        SessionGone(own) /\ IF mine = own THEN Torn ELSE UNCHANGED <<remote, data>>

\* Every handler is told: a waiter that finds its backend unsubscribes.
Told(up) ==
    /\ view' = up
    /\ subscribed' = (subscribed /\ ~up)
    /\ waiter' = (IF subscribed /\ up THEN "found" ELSE waiter)

\* establish() continues after peer_ready; nobody asks whether it was closed.
Resume ==
    /\ phase = "answered" /\ phase' = "routed"
    /\ state' = "connected" /\ Told(answer) /\ answer' = FALSE
    /\ UNCHANGED <<bounds, userClosed, alive, wire, member, lingering, retry, byTimer,
                   chanVars>>

\* The map and its channels, closed one by one.
DropChannels ==
    /\ known' = FALSE
    /\ data' = (IF known /\ data = "open" THEN "closing" ELSE data)

\* The close event: after peer_ready handleClose() runs; before it, the ten
\* seconds of the hello end the attempt, which only the timer's tries again.
CloseEvent ==
    /\ phase \in {"hello", "routed"} /\ ~alive /\ wire = <<>> /\ ~lingering
    /\ phase' = "none" /\ lingering' = member /\ member' = FALSE
    /\ IF phase = "routed"
       THEN /\ state' = (IF userClosed THEN "closed" ELSE "connecting")
            /\ retry' = ~userClosed
            /\ DropChannels /\ mine' = FALSE
            /\ chan' = (IF chan = "asked" THEN "failed" ELSE chan)
            /\ UNCHANGED remote
       ELSE /\ retry' = byTimer
            /\ UNCHANGED <<state, chanVars>>
    /\ UNCHANGED <<bounds, userClosed, alive, wire, byTimer, answer, waitVars>>

Close ==
    /\ ~userClosed /\ state # "idle"
    /\ userClosed' = TRUE /\ state' = "closed" /\ alive' = FALSE
    /\ DropChannels
    /\ UNCHANGED <<bounds, phase, wire, member, lingering, retry, byTimer, answer,
                   waitVars, chan, remote, mine>>

(***************************************************************************)
(* waitForBackend()                                                        *)
(***************************************************************************)
\* Mutant: a waiter looks only at the registry there is, and subscribes to none.
WaitOnce ==
    /\ waiter \in {"none", "found"} /\ waiter' = (IF view THEN "found" ELSE "waiting")
    /\ waiter' # waiter
    /\ UNCHANGED <<bounds, state, userClosed, linkVars, view, subscribed, chanVars>>

Wait ==
    /\ waiter \in {"none", "found"}
    /\ waiter' = (IF view THEN "found" ELSE "waiting")
    /\ subscribed' = ~view
    /\ waiter' # waiter
    /\ UNCHANGED <<bounds, state, userClosed, linkVars, view, chanVars>>

\* The timeout, or the signal.
GiveUp ==
    /\ waiter = "waiting" /\ waiter' = "rejected" /\ subscribed' = FALSE
    /\ UNCHANGED <<bounds, state, userClosed, linkVars, view, chanVars>>

(***************************************************************************)
(* openChannel() and the gateway's side of it                              *)
(***************************************************************************)
Open ==
    /\ state = "connected" /\ ~userClosed /\ alive
    /\ chan \in {"none", "failed", "closed"} /\ remote \in {"none", "gone"}
    /\ opens < MaxOpens /\ opens' = opens + 1
    /\ chan' = "asked" /\ remote' = "requested" /\ mine' = TRUE
    /\ UNCHANGED <<online, changes, connects, faults, state, userClosed, linkVars,
                   waitVars, known, data>>

\* channel_ready, or an error; a request on a lost connection is lost too.
GatewayOpens ==
    /\ remote = "requested"
    /\ remote' = (IF mine /\ member /\ online THEN "pending" ELSE "gone")
    /\ wire' = (IF mine
                THEN Sent([type |-> IF online THEN "channel_ready" ELSE "error",
                           channel |-> opens])
                ELSE wire)
    /\ UNCHANGED <<bounds, state, userClosed, phase, alive, member, lingering, retry,
                   byTimer, answer, waitVars, chan, known, data, mine>>

\* The gateway takes the data socket, while the channel is there.
Attach ==
    /\ data = "connecting" /\ remote = "pending"
    /\ data' = "open" /\ remote' = "attached"
    /\ UNCHANGED <<bounds, state, userClosed, linkVars, waitVars, chan, known, mine>>

\* teardownChannel: the backend goes or refuses, the pairing times out, or one
\* end closes its data socket.
GatewayEnds ==
    /\ remote \in {"pending", "attached"} /\ Torn
    /\ wire' = (IF mine THEN Sent([type |-> "channel_closed", channel |-> opens])
                ELSE wire)
    /\ UNCHANGED <<bounds, state, userClosed, phase, alive, member, lingering, retry,
                   byTimer, answer, waitVars, chan, known, mine>>

\* dialChannel() ends: the channel is listed, whatever happened meanwhile.
DialOpens ==
    /\ chan = "dialling" /\ data \in {"open", "cut"}
    /\ chan' = "open" /\ known' = TRUE
    /\ UNCHANGED <<bounds, state, userClosed, linkVars, waitVars, data, remote, mine>>

DialFails ==
    /\ chan = "dialling" /\ data = "connecting"
    /\ \/ remote = "gone" /\ UNCHANGED faults
       \/ Fault
    /\ chan' = "failed" /\ data' = "none"
    /\ UNCHANGED <<online, changes, connects, opens, state, userClosed, linkVars,
                   waitVars, known, remote, mine>>

CloseChannel ==
    /\ chan = "open" /\ data = "open" /\ data' = "closing"
    /\ UNCHANGED <<bounds, state, userClosed, linkVars, waitVars, chan, known, remote,
                   mine>>

\* Mutant: openChannel() does not listen for the end of its channel.
DataClosedUnheard ==
    /\ chan = "open" /\ (data = "cut" \/ (data = "closing" /\ remote = "gone"))
    /\ chan' = "closed" /\ data' = "none"
    /\ UNCHANGED <<bounds, state, userClosed, linkVars, waitVars, known, remote, mine>>

\* The close event of the data socket: the channel is taken off the map.
DataClosed ==
    /\ chan = "open" /\ (data = "cut" \/ (data = "closing" /\ remote = "gone"))
    /\ chan' = "closed" /\ data' = "none" /\ known' = FALSE
    /\ UNCHANGED <<bounds, state, userClosed, linkVars, waitVars, remote, mine>>

(***************************************************************************)
(* A frame arrives: the handler of the handshake, then routeMessage()      *)
(***************************************************************************)
Routed(frame) ==
    \/ /\ frame.type = "snapshot" /\ Told(frame.up)
       /\ UNCHANGED chanVars
    \/ /\ frame.type = "channel_ready"
       /\ IF chan = "asked" /\ frame.channel = opens
          THEN chan' = "dialling" /\ data' = "connecting"
          ELSE UNCHANGED <<chan, data>>
       /\ UNCHANGED <<known, remote, mine, waitVars>>
    \/ /\ frame.type = "error"
       /\ chan' = (IF chan = "asked" THEN "failed" ELSE chan)
       /\ UNCHANGED <<known, data, remote, mine, waitVars>>
    \/ /\ frame.type = "channel_closed"
       /\ IF frame.channel = opens THEN DropChannels ELSE UNCHANGED <<known, data>>
       /\ UNCHANGED <<chan, remote, mine, waitVars>>

Deliver ==
    /\ wire # <<>> /\ wire' = Tail(wire)
    /\ LET frame == Head(wire) IN
       \/ /\ phase = "hello" /\ frame.type = "ready"
          /\ phase' = "answered" /\ answer' = frame.up
          /\ UNCHANGED <<waitVars, chanVars>>
       \/ /\ phase = "answered" /\ SameTick    \* no listener yet: it is lost
          /\ UNCHANGED <<phase, answer, waitVars, chanVars>>
       \/ /\ phase = "routed" /\ Routed(frame)
          /\ UNCHANGED <<phase, answer>>
    /\ UNCHANGED <<bounds, state, userClosed, alive, member, lingering, retry, byTimer>>

Next ==
    \/ Connect \/ TimerFires \/ Welcome \/ BackendChanges \/ Lost \/ GatewayNotices
    \/ Resume \/ CloseEvent \/ Close \/ Wait \/ GiveUp \/ Open \/ GatewayOpens
    \/ Attach \/ GatewayEnds \/ DialOpens \/ DialFails \/ CloseChannel \/ DataClosed
    \/ Deliver

\* Frames, events and timers come; the gateway sees what the network tells it.
Fairness ==
    /\ WF_vars(TimerFires) /\ WF_vars(Welcome) /\ WF_vars(GatewayNotices)
    /\ WF_vars(Resume) /\ WF_vars(CloseEvent) /\ WF_vars(Deliver)
    /\ WF_vars(GatewayOpens) /\ WF_vars(Attach) /\ WF_vars(DialOpens)
    /\ WF_vars(remote = "gone" /\ DialFails) /\ WF_vars(DataClosed)
    /\ WF_vars(data = "closing" /\ GatewayEnds)

Spec == Init /\ [][Next]_vars /\ Fairness

(***************************************************************************)
(* Properties                                                              *)
(***************************************************************************)
ChannelsTypeOK ==
    /\ {online, userClosed, alive, member, lingering, retry, byTimer, answer, view,
        subscribed, known, mine} \subseteq BOOLEAN
    /\ state \in {"idle", "connecting", "connected", "closed"}
    /\ phase \in {"none", "hello", "answered", "routed"}
    /\ waiter \in {"none", "waiting", "found", "rejected"}
    /\ chan \in {"none", "asked", "dialling", "open", "failed", "closed"}
    /\ data \in {"none", "connecting", "open", "closing", "cut"}
    /\ remote \in {"none", "requested", "pending", "attached", "gone"}

\* Once the frames of a connection are handled, the registry of the client is
\* the gateway's, whatever came and went during the handshake or an outage.
QuietViewIsTrue ==
    (phase = "routed" /\ alive /\ wire = <<>>) => view = online

\* A waiter listens exactly while its promise is open.
WaitersListen == subscribed <=> waiter = "waiting"

\* The map lists open channels only, and an open one that it does not list is
\* on its way out: a dial that ends after the connection was lost is listed.
ChannelsAccounted ==
    /\ known => chan = "open"
    /\ chan = "open" /\ ~known => data # "open"

ClientChannelsInv ==
    ChannelsTypeOK /\ QuietViewIsTrue /\ WaitersListen /\ ChannelsAccounted

\* "waitForBackend resolves once it is online", also across reconnects: the wait
\* ends while the backend is online, unless the client is closed or its first
\* connect() failed.
WaiterServed ==
    waiter = "waiting" /\ online
        ~> \/ waiter # "waiting" \/ ~online
           \/ userClosed \/ (phase = "none" /\ ~retry)

\* A channel whose connection is lost, or which the gateway ended, ends for the
\* application too: also one that was being dialled.
ChannelsEnd ==
    chan \in {"asked", "dialling", "open"} /\ (~mine \/ remote = "gone")
        ~> chan \in {"failed", "closed"}
=============================================================================
