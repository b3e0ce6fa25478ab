----------------------------- MODULE ControlOps -----------------------------
(***************************************************************************)
(* The control operations of the client SDK (packages/client/src/index.ts) *)
(* on one control connection after another: openChannel, subscribeTopic    *)
(* and the function it returns, and the recovery of the subscriptions      *)
(* after a reconnect.  The protocol has no correlation ids: operations run *)
(* one at a time through opQueue, and a reply settles whichever operation  *)
(* is pending and expects its type.                                        *)
(*                                                                         *)
(* An operation is its position in `ops`, which is the order of opQueue.   *)
(* The topics are those of one backend, with a retained payload each; the  *)
(* handler a subscribeTopic call registers is named by its operation.      *)
(***************************************************************************)
EXTENDS Naturals, Sequences, FiniteSets

CONSTANTS
    Topics,
    MaxOps,          \* operations of the application and of the recovery
    MaxConnections,  \* control connections, the first included
    MaxRestarts,     \* restarts of the gateway
    Overlap,         \* a topic may be left while another call subscribes to it
    SameTick         \* messages of one read are handled before continuations

ASSUME BoundsAssumption ==
    /\ MaxOps \in Nat
    /\ MaxConnections \in Nat \ {0}
    /\ MaxRestarts \in Nat

VARIABLES
    slow,        \* whether an answer may take longer than the ten seconds
    ops,         \* the operations, in the order of opQueue
    pending,     \* pendingOp: an operation, or 0
    handlers,    \* topicHandlers: of every topic, the registered handlers
    loops,       \* the calls of resubscribeTopics(), one for each connection
    connection,  \* number of the latest connection
    connected,   \* state is 'connected' and socket is set
    requests,    \* on their way to the gateway
    replies,     \* on their way to the client
    subscribed,  \* the gateway's subscriptions of this session
    online,      \* the backend is registered at the gateway
    seen,        \* handlers that have been given the retained payload
    restarts

vars == <<slow, ops, pending, handlers, loops, connection, connected, requests,
          replies, subscribed, online, seen, restarts>>

Ids == 1..MaxOps

Op == [kind : {"open", "subscribe", "unsubscribe"}, topic : Topics,
       by : {"application", "recovery"}, answer : 0..MaxOps,
       phase : {"queued", "pending", "resolved", "done", "rejected"}]

Message == [type : {"channel_ready", "topic_subscribed", "topic_unsubscribed",
                    "gateway_error", "topic_message"},
            op : Ids, topic : Topics]

Idle == [active |-> FALSE, visited |-> {}, op |-> 0]

(* Every variable has its type, and pendingOp is an operation that waits   *)
(* for its reply.                                                          *)
ControlTypeOK ==
    /\ slow \in BOOLEAN
    /\ ops \in Seq(Op) /\ Len(ops) <= MaxOps
    /\ pending \in 0..Len(ops)
    /\ pending # 0 => ops[pending].phase = "pending"
    /\ handlers \in [Topics -> SUBSET Ids]
    /\ loops \in [1..MaxConnections ->
                     [active : BOOLEAN, visited : SUBSET Topics, op : 0..MaxOps]]
    /\ connection \in 1..MaxConnections
    /\ connected \in BOOLEAN
    /\ requests \in Seq(Ids)
    /\ replies \in Seq(Message)
    /\ subscribed \in SUBSET Topics
    /\ online \in BOOLEAN
    /\ seen \in SUBSET Ids
    /\ restarts \in 0..MaxRestarts

Init ==
    /\ slow \in BOOLEAN
    /\ ops = <<>>
    /\ pending = 0
    /\ handlers = [t \in Topics |-> {}]
    /\ loops = [c \in 1..MaxConnections |-> Idle]
    /\ connection = 1
    /\ connected = TRUE
    /\ requests = <<>>
    /\ replies = <<>>
    /\ subscribed = {}
    /\ online = TRUE
    /\ seen = {}
    /\ restarts = 0

-----------------------------------------------------------------------------
(* Helpers. *)

Enqueued(kind, t, by) ==
    Append(ops, [kind |-> kind, topic |-> t, by |-> by, answer |-> 0,
                 phase |-> "queued"])

Settled(i) == ops[i].phase \in {"resolved", "done", "rejected"}

(* Calls of subscribeTopic whose await has not returned yet. *)
Resuming == {i \in 1..Len(ops) : ops[i].phase = "resolved"}

Joining(t) ==
    {i \in 1..Len(ops) :
        /\ ops[i].kind = "subscribe" /\ ops[i].by = "application"
        /\ ops[i].topic = t
        /\ ops[i].phase \in {"queued", "pending", "resolved"}}

Expected ==
    [open |-> "channel_ready", subscribe |-> "topic_subscribed",
     unsubscribe |-> "topic_unsubscribed"]

(* pendingOp is answered by the reply to operation i. *)
ResolvedPhase(p) ==
    IF ops[p].kind = "subscribe" /\ ops[p].by = "application"
    THEN "resolved" ELSE "done"

Settle(i, phase) ==
    /\ ops' = [ops EXCEPT ![pending].phase = phase, ![pending].answer = i]
    /\ pending' = 0

-----------------------------------------------------------------------------
(* The application. *)

Call ==
    /\ Len(ops) < MaxOps
    /\ \E t \in Topics, kind \in {"open", "subscribe"} :
          ops' = Enqueued(kind, t, "application")
    /\ UNCHANGED <<slow, pending, handlers, loops, connection, connected, requests,
                   replies, subscribed, online, seen, restarts>>

(* The function subscribeTopic returned: the last handler of a topic to    *)
(* leave unsubscribes.                                                     *)
Leave(t, i) ==
    /\ Len(ops) < MaxOps
    /\ i \in handlers[t]
    /\ Overlap \/ Joining(t) = {}
    /\ handlers' = [handlers EXCEPT ![t] = @ \ {i}]
    /\ IF handlers[t] = {i}
       THEN /\ ops' = Enqueued("unsubscribe", t, "application")
            /\ loops' = [c \in DOMAIN loops |->
                            [loops[c] EXCEPT !.visited = @ \ {t}]]
       ELSE UNCHANGED <<ops, loops>>
    /\ UNCHANGED <<slow, pending, connection, connected, requests, replies,
                   subscribed, online, seen, restarts>>

-----------------------------------------------------------------------------
(* The client. *)

(* Mutant: an operation that meets no connection is not rejected. *)
RunOpConnected(i) ==
    /\ ops[i].phase = "queued"
    /\ \A j \in 1..i - 1 : Settled(j)
    /\ connected
    /\ ops' = [ops EXCEPT ![i].phase = "pending"]
    /\ pending' = i
    /\ requests' = Append(requests, i)
    /\ UNCHANGED <<slow, handlers, loops, connection, connected, replies, subscribed,
                   online, seen, restarts>>

(* controlOp(): its turn comes when every operation before it has settled. *)
RunOp(i) ==
    /\ ops[i].phase = "queued"
    /\ \A j \in 1..i - 1 : Settled(j)
    /\ IF connected
       THEN /\ ops' = [ops EXCEPT ![i].phase = "pending"]
            /\ pending' = i
            /\ requests' = Append(requests, i)
       ELSE /\ ops' = [ops EXCEPT ![i].phase = "rejected"]
            /\ UNCHANGED <<pending, requests>>
    /\ UNCHANGED <<slow, handlers, loops, connection, connected, replies, subscribed,
                   online, seen, restarts>>

(* The ten seconds of an operation run out. *)
Timeout(i) ==
    /\ slow
    /\ ops[i].phase = "pending"
    /\ ops' = [ops EXCEPT ![i].phase = "rejected"]
    /\ pending' = IF pending = i THEN 0 ELSE pending
    /\ UNCHANGED <<slow, handlers, loops, connection, connected, requests, replies,
                   subscribed, online, seen, restarts>>

(* subscribeTopic() continues after its await and registers the handler. *)
Register(i) ==
    /\ i \in Resuming
    /\ ops' = [ops EXCEPT ![i].phase = "done"]
    /\ handlers' = [handlers EXCEPT ![ops[i].topic] = @ \cup {i}]
    /\ UNCHANGED <<slow, pending, loops, connection, connected, requests, replies,
                   subscribed, online, seen, restarts>>

(* routeMessage(): a reply settles the pending operation if that expects   *)
(* its type, an error whatever is pending, a payload goes to the handlers. *)
Deliver ==
    /\ replies # <<>>
    /\ SameTick \/ Resuming = {}
    /\ LET m == Head(replies)
       IN  \/ /\ m.type = "topic_message"
              /\ seen' = seen \cup handlers[m.topic]
              /\ UNCHANGED <<ops, pending>>
           \/ /\ m.type = "gateway_error"
              /\ IF pending = 0 THEN UNCHANGED <<ops, pending>>
                 ELSE Settle(m.op, "rejected")
              /\ UNCHANGED seen
           \/ /\ m.type \notin {"topic_message", "gateway_error"}
              /\ IF pending = 0 THEN UNCHANGED <<ops, pending>>
                 ELSE IF Expected[ops[pending].kind] # m.type
                 THEN UNCHANGED <<ops, pending>>
                 ELSE Settle(m.op, ResolvedPhase(pending))
              /\ UNCHANGED seen
    /\ replies' = Tail(replies)
    /\ UNCHANGED <<slow, handlers, loops, connection, connected, requests, subscribed,
                   online, restarts>>

(* handleClose(): what is pending fails. *)
Disconnected ==
    /\ connected' = FALSE
    /\ IF pending = 0 THEN UNCHANGED <<ops, pending>> ELSE Settle(pending, "rejected")
    /\ requests' = <<>>
    /\ replies' = <<>>
    /\ subscribed' = {}
    /\ UNCHANGED <<slow, handlers, loops, connection, seen>>

Drop ==
    /\ connected
    /\ connection < MaxConnections
    /\ Resuming = {}
    /\ Disconnected
    /\ UNCHANGED <<slow, online, restarts>>

(* Mutant: a reconnect does not resubscribe. *)
ReconnectBare ==
    /\ ~connected
    /\ connection < MaxConnections
    /\ connection' = connection + 1
    /\ connected' = TRUE
    /\ UNCHANGED <<slow, ops, pending, handlers, loops, requests, replies, subscribed,
                   online, seen, restarts>>

(* The end of establish(): connected again, resubscribeTopics() starts. *)
Reconnect ==
    /\ ~connected
    /\ connection < MaxConnections
    /\ connection' = connection + 1
    /\ connected' = TRUE
    /\ loops' = [loops EXCEPT ![connection + 1] = [Idle EXCEPT !.active = TRUE]]
    /\ UNCHANGED <<slow, ops, pending, handlers, requests, replies, subscribed,
                   online, seen, restarts>>

(* One turn of the loop of resubscribeTopics(), over the live key set;     *)
(* what becomes of the previous operation is ignored.                      *)
Resubscribe(c) ==
    /\ loops[c].active
    /\ loops[c].op # 0 => Settled(loops[c].op)
    /\ LET left == {t \in Topics : handlers[t] # {}} \ loops[c].visited
       IN  IF left = {}
           THEN /\ loops' = [loops EXCEPT ![c] = Idle]
                /\ UNCHANGED ops
           ELSE /\ Len(ops) < MaxOps
                /\ \E t \in left :
                      /\ ops' = Enqueued("subscribe", t, "recovery")
                      /\ loops' = [loops EXCEPT ![c].visited = @ \cup {t},
                                                ![c].op = Len(ops) + 1]
    /\ UNCHANGED <<slow, pending, handlers, connection, connected, requests, replies,
                   subscribed, online, seen, restarts>>

-----------------------------------------------------------------------------
(* The gateway. *)

Answer(i, type) == [type |-> type, op |-> i, topic |-> ops[i].topic]

(* The retained payload follows the confirmation of the subscription. *)
SubscribedAnswer(i) == <<Answer(i, "topic_subscribed"), Answer(i, "topic_message")>>

(* Requests are handled in order: handleChannelOpen, which may also refuse *)
(* for the quota, handleTopicSubscribe and handleTopicUnsubscribe.         *)
Serve ==
    /\ requests # <<>>
    /\ LET i == Head(requests)
           t == ops[i].topic
       IN  \/ /\ ops[i].kind = "open" /\ online
              /\ replies' = Append(replies, Answer(i, "channel_ready"))
              /\ UNCHANGED subscribed
           \/ /\ ops[i].kind = "subscribe" /\ online
              /\ replies' = replies \o SubscribedAnswer(i)
              /\ subscribed' = subscribed \cup {t}
           \/ /\ ops[i].kind = "open" \/ (ops[i].kind = "subscribe" /\ ~online)
              /\ replies' = Append(replies, Answer(i, "gateway_error"))
              /\ UNCHANGED subscribed
           \/ /\ ops[i].kind = "unsubscribe"
              /\ replies' = Append(replies, Answer(i, "topic_unsubscribed"))
              /\ subscribed' = subscribed \ {t}
    /\ requests' = Tail(requests)
    /\ UNCHANGED <<slow, ops, pending, handlers, loops, connection, connected, online,
                   seen, restarts>>

(* The gateway restarts: every connection to it is lost, the backend's too. *)
Restart ==
    /\ restarts < MaxRestarts
    /\ connection < MaxConnections
    /\ Resuming = {}
    /\ restarts' = restarts + 1
    /\ online' = FALSE
    /\ Disconnected

BackendReturns ==
    /\ ~online
    /\ online' = TRUE
    /\ UNCHANGED <<slow, ops, pending, handlers, loops, connection, connected,
                   requests, replies, subscribed, seen, restarts>>

-----------------------------------------------------------------------------

Client(i) == RunOp(i) \/ Timeout(i) \/ Register(i)

Next ==
    \/ Call
    \/ \E t \in Topics, i \in Ids : Leave(t, i)
    \/ \E i \in 1..Len(ops) : Client(i)
    \/ Deliver
    \/ Drop
    \/ Reconnect
    \/ \E c \in 1..MaxConnections : Resubscribe(c)
    \/ Serve
    \/ Restart
    \/ BackendReturns

Spec == Init /\ [][Next]_vars

(* The event loop runs what is due and a live connection delivers; nothing *)
(* is assumed of reconnects.                                               *)
Fairness ==
    /\ WF_vars(\E i \in 1..Len(ops) : Client(i))
    /\ WF_vars(Deliver)
    /\ WF_vars(Serve)

FairSpec == Spec /\ Fairness

-----------------------------------------------------------------------------
(* Properties. *)

OwnRepliesAlways == \A i \in 1..Len(ops) : ops[i].answer \in {0, i}

(* An operation is settled by the reply to its own request, so openChannel *)
(* dials the channel it asked for.  (A dropped connection settles what is  *)
(* pending on its own behalf.)  This needs every answer to come in time:   *)
(* a reply carries no id, and one that is late settles the next operation. *)
OwnReplies == ~slow => OwnRepliesAlways

Quiet ==
    /\ connected /\ online
    /\ pending = 0
    /\ requests = <<>> /\ replies = <<>>
    /\ \A i \in 1..Len(ops) : ops[i].phase \in {"done", "rejected"}
    /\ \A c \in 1..MaxConnections : ~loops[c].active

HandlersSubscribed ==
    Quiet => \A t \in Topics : handlers[t] # {} => t \in subscribed

HandlersInformed ==
    Quiet => \A t \in Topics : handlers[t] \subseteq seen

(* When nothing is under way, a topic with a handler is subscribed at the  *)
(* gateway and its handlers have been given the retained payload, across   *)
(* drops, recoveries and handlers that left, as long as the gateway itself *)
(* does not restart: its backends come back too late for the recovery.     *)
HandlersServed == restarts = 0 => HandlersSubscribed /\ HandlersInformed

(* What holds between two messages on the control connection. *)
ControlInv == ControlTypeOK /\ OwnReplies /\ HandlersServed

(* Every call of the application settles, whatever the connection does. *)
CallsSettle ==
    \A i \in Ids : Len(ops) >= i ~> Len(ops) >= i /\ Settled(i)

=============================================================================
