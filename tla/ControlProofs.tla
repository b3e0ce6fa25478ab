---------------------------- MODULE ControlProofs ----------------------------
(***************************************************************************)
(* The control operations of the client SDK, for any number of topics, of  *)
(* operations, of connections and of restarts.                             *)
(*                                                                         *)
(* The protocol has no correlation ids.  What stands in for them is an     *)
(* order: one operation is pending at a time, its request is the only one  *)
(* under way or its reply is, and a drop takes both away.  With answers    *)
(* that come in time (~slow) a reply is therefore always the reply to the  *)
(* pending operation.                                                      *)
(*                                                                         *)
(* The subscriptions rest on two more orders.  Whoever subscribes to a     *)
(* topic does so after the last one left it (~Overlap: no call of          *)
(* subscribeTopic overlaps the last handler leaving the same topic), so    *)
(* that the requests under way end with the subscription.  And the         *)
(* continuation of subscribeTopic registers its handler before the next    *)
(* message is handled (~SameTick), so that the retained payload finds it.  *)
(***************************************************************************)
EXTENDS ControlOps, SequenceTheorems, TLAPS

Phases == {"queued", "pending", "resolved", "done", "rejected"}

\* opQueue runs one operation at a time, in order.
InOrder ==
    \A i, j \in 1..Len(ops) : j < i /\ ops[i].phase # "queued" => Settled(j)

OnePending ==
    \A i \in 1..Len(ops) : ops[i].phase = "pending" <=> i = pending

\* A drop leaves nothing under way.
Offline ==
    ~connected => pending = 0 /\ requests = <<>> /\ replies = <<>> /\ Resuming = {}

Asked == \A k \in DOMAIN requests : requests[k] \in 1..Len(ops)

ResolvedAre ==
    \A i \in Resuming : ops[i].kind = "subscribe" /\ ops[i].by = "application"

\* A handler is what a call of subscribeTopic left behind.
HandlersAre ==
    \A t \in Topics : \A i \in handlers[t] :
        /\ i \in 1..Len(ops) /\ ops[i].kind = "subscribe" /\ ops[i].topic = t
        /\ ops[i].by = "application" /\ ops[i].phase = "done"

Ordered ==
    ControlTypeOK /\ InOrder /\ OnePending /\ Offline /\ Asked /\ ResolvedAre /\ HandlersAre

-----------------------------------------------------------------------------
(***************************************************************************)
(* What an action does to the operations.                                  *)
(***************************************************************************)
Enqueues(kind, t, by) ==
    /\ ops' \in Seq(Op) /\ Len(ops') = Len(ops) + 1 /\ Len(ops') <= MaxOps
    /\ \A j \in 1..Len(ops) : ops'[j] = ops[j]
    /\ ops'[Len(ops) + 1] = [kind |-> kind, topic |-> t, by |-> by, answer |-> 0,
                             phase |-> "queued"]

Moves(i, phase, answer) ==
    /\ ops' \in Seq(Op) /\ Len(ops') = Len(ops)
    /\ \A j \in 1..Len(ops) :
          /\ ops'[j].kind = ops[j].kind /\ ops'[j].topic = ops[j].topic
          /\ ops'[j].by = ops[j].by
          /\ ops'[j].phase = (IF j = i THEN phase ELSE ops[j].phase)
          /\ ops'[j].answer = (IF j = i THEN answer ELSE ops[j].answer)

LEMMA OpsTyped ==
  ASSUME ControlTypeOK
  PROVE  /\ MaxOps \in Nat /\ Len(ops) \in Nat /\ Len(ops) <= MaxOps
         /\ ops \in Seq(Op) /\ DOMAIN ops = 1..Len(ops)
         /\ 1..Len(ops) \subseteq Ids /\ pending \in 0..Len(ops)
         /\ \A i \in 1..Len(ops) :
               /\ ops[i] \in Op /\ i \in Nat /\ i > 0
               /\ ops[i].kind \in {"open", "subscribe", "unsubscribe"}
               /\ ops[i].topic \in Topics /\ ops[i].by \in {"application", "recovery"}
               /\ ops[i].answer \in 0..MaxOps /\ ops[i].phase \in Phases
<1>1. MaxOps \in Nat /\ ops \in Seq(Op) /\ Len(ops) <= MaxOps /\ pending \in 0..Len(ops)
  BY BoundsAssumption DEF ControlTypeOK
<1>2. Len(ops) \in Nat /\ DOMAIN ops = 1..Len(ops) /\ \A i \in 1..Len(ops) : ops[i] \in Op
  BY <1>1
<1>3. \A r \in Op : /\ r.kind \in {"open", "subscribe", "unsubscribe"}
                    /\ r.topic \in Topics /\ r.by \in {"application", "recovery"}
                    /\ r.answer \in 0..MaxOps /\ r.phase \in Phases
  BY DEF Op, Phases
<1>4. 1..Len(ops) \subseteq Ids
  BY <1>1, <1>2 DEF Ids
<1> QED
  BY <1>1, <1>2, <1>3, <1>4

LEMMA EnqueueIs ==
  ASSUME ControlTypeOK, Len(ops) < MaxOps,
         NEW kind \in {"open", "subscribe", "unsubscribe"}, NEW t \in Topics,
         NEW by \in {"application", "recovery"}, ops' = Enqueued(kind, t, by)
  PROVE  Enqueues(kind, t, by)
<1> DEFINE r == [kind |-> kind, topic |-> t, by |-> by, answer |-> 0, phase |-> "queued"]
<1>1. r \in Op
  BY OpsTyped DEF Op
<1>2. ops' = Append(ops, r)
  BY DEF Enqueued
<1> HIDE DEF r
<1>3. /\ ops' \in Seq(Op) /\ Len(ops') = Len(ops) + 1
      /\ \A j \in 1..Len(ops) : ops'[j] = ops[j]
      /\ ops'[Len(ops) + 1] = r
  BY <1>1, <1>2, OpsTyped
<1>4. Len(ops') <= MaxOps
  BY <1>3, OpsTyped
<1> QED
  BY <1>3, <1>4 DEF Enqueues, r

LEMMA PhaseIs ==
  ASSUME ControlTypeOK, NEW i \in 1..Len(ops), NEW p \in Phases,
         ops' = [ops EXCEPT ![i].phase = p]
  PROVE  Moves(i, p, ops[i].answer)
<1>1. ops' = [ops EXCEPT ![i] = [ops[i] EXCEPT !.phase = p]]
  OBVIOUS
<1>2. [ops[i] EXCEPT !.phase = p] \in Op
  BY OpsTyped DEF Op, Phases
<1>3. /\ ops' \in Seq(Op) /\ Len(ops') = Len(ops)
      /\ \A j \in 1..Len(ops) : ops'[j] = IF j = i THEN [ops[i] EXCEPT !.phase = p] ELSE ops[j]
  BY <1>1, <1>2, OpsTyped
<1>4. LET r == [ops[i] EXCEPT !.phase = p]
      IN  /\ r.kind = ops[i].kind /\ r.topic = ops[i].topic /\ r.by = ops[i].by
          /\ r.phase = p /\ r.answer = ops[i].answer
  BY OpsTyped DEF Op
<1> QED
  BY <1>3, <1>4 DEF Moves

LEMMA SettleIs ==
  ASSUME ControlTypeOK, pending # 0, NEW a \in Ids, NEW p \in Phases, Settle(a, p)
  PROVE  Moves(pending, p, a) /\ pending' = 0
<1>0. pending \in 1..Len(ops)
  BY OpsTyped
<1> DEFINE r == [ops[pending] EXCEPT !.phase = p, !.answer = a]
           v == [ops EXCEPT ![pending].phase = p]
<1>1. ops' = [j \in 1..Len(ops) |-> IF j = pending THEN r ELSE ops[j]]
  <2>1. ops' = [v EXCEPT ![pending].answer = a]
    BY DEF Settle
  <2>2. DOMAIN v = 1..Len(ops) /\ v[pending] = [ops[pending] EXCEPT !.phase = p]
        /\ \A j \in 1..Len(ops) : j # pending => v[j] = ops[j]
    BY <1>0, OpsTyped
  <2>3. r = [v[pending] EXCEPT !.answer = a]
    BY <2>2
  <2> HIDE DEF v, r
  <2>4. ops' = [v EXCEPT ![pending] = [v[pending] EXCEPT !.answer = a]]
    BY <2>1
  <2>5. ops' = [v EXCEPT ![pending] = r]
    BY <2>3, <2>4
  <2>6. ops' = [j \in DOMAIN v |-> IF j = pending THEN r ELSE v[j]]
    BY <2>5
  <2>7. [j \in DOMAIN v |-> IF j = pending THEN r ELSE v[j]]
        = [j \in 1..Len(ops) |-> IF j = pending THEN r ELSE ops[j]]
    BY <2>2
  <2> QED
    BY <2>6, <2>7
<1>2. r \in Op
  <2>1. ASSUME NEW x \in Op PROVE [x EXCEPT !.phase = p, !.answer = a] \in Op
    <3>1. a \in 0..MaxOps
      BY OpsTyped DEF Ids
    <3>2. [x EXCEPT !.phase = p] \in Op
      BY DEF Op, Phases
    <3>3. \A y \in Op : [y EXCEPT !.answer = a] \in Op
      BY <3>1 DEF Op
    <3>4. [x EXCEPT !.phase = p, !.answer = a] = [[x EXCEPT !.phase = p] EXCEPT !.answer = a]
      OBVIOUS
    <3> QED
      BY <3>2, <3>3, <3>4
  <2> QED
    BY <1>0, <2>1, OpsTyped DEF r
<1>3. /\ ops' \in Seq(Op) /\ Len(ops') = Len(ops)
      /\ \A j \in 1..Len(ops) : ops'[j] = IF j = pending THEN r ELSE ops[j]
  <2> HIDE DEF r
  <2> QED
    BY <1>0, <1>1, <1>2, OpsTyped
<1>4. /\ r.kind = ops[pending].kind /\ r.topic = ops[pending].topic
      /\ r.by = ops[pending].by /\ r.phase = p /\ r.answer = a
  <2>1. \A x \in Op :
           LET y == [x EXCEPT !.phase = p, !.answer = a]
           IN  /\ y.kind = x.kind /\ y.topic = x.topic /\ y.by = x.by
               /\ y.phase = p /\ y.answer = a
    BY DEF Op
  <2> QED
    BY <1>0, <2>1, OpsTyped DEF r
<1> HIDE DEF r
<1> QED
  BY <1>3, <1>4 DEF Moves, Settle

-----------------------------------------------------------------------------
(***************************************************************************)
(* The actions, with what they do to the operations.                       *)
(***************************************************************************)
LEMMA RepliesTyped ==
  ASSUME ControlTypeOK
  PROVE  /\ requests \in Seq(Ids) /\ replies \in Seq(Message)
         /\ \A m \in Message : m.op \in Ids /\ m.topic \in Topics
                               /\ m.type \in {"channel_ready", "topic_subscribed",
                                              "topic_unsubscribed", "gateway_error",
                                              "topic_message"}
         /\ replies # <<>> => Head(replies) \in Message
         /\ requests # <<>> => Head(requests) \in Ids
<1>1. requests \in Seq(Ids) /\ replies \in Seq(Message)
  BY DEF ControlTypeOK
<1>2. \A m \in Message : m.op \in Ids /\ m.topic \in Topics
                         /\ m.type \in {"channel_ready", "topic_subscribed",
                                        "topic_unsubscribed", "gateway_error",
                                        "topic_message"}
  BY DEF Message
<1> QED
  BY <1>1, <1>2

LEMMA RunOpIs ==
  ASSUME ControlTypeOK, NEW i \in 1..Len(ops), RunOp(i)
  PROVE  /\ ops[i].phase = "queued" /\ \A j \in 1..(i - 1) : Settled(j)
         /\ UNCHANGED <<slow, handlers, loops, connection, connected, replies,
                        subscribed, online, seen, restarts>>
         /\ connected => /\ Moves(i, "pending", ops[i].answer) /\ pending' = i
                         /\ requests' = Append(requests, i)
         /\ ~connected => /\ Moves(i, "rejected", ops[i].answer) /\ pending' = pending
                          /\ requests' = requests
<1>1. CASE connected
  <2>1. ops' = [ops EXCEPT ![i].phase = "pending"] /\ pending' = i
        /\ requests' = Append(requests, i)
    BY <1>1 DEF RunOp
  <2>2. Moves(i, "pending", ops[i].answer)
    BY <2>1, PhaseIs DEF Phases
  <2> QED
    BY <1>1, <2>1, <2>2 DEF RunOp
<1>2. CASE ~connected
  <2>1. ops' = [ops EXCEPT ![i].phase = "rejected"] /\ pending' = pending
        /\ requests' = requests
    BY <1>2 DEF RunOp
  <2>2. Moves(i, "rejected", ops[i].answer)
    BY <2>1, PhaseIs DEF Phases
  <2> QED
    BY <1>2, <2>1, <2>2 DEF RunOp
<1> QED
  BY <1>1, <1>2

LEMMA TimeoutIs ==
  ASSUME ControlTypeOK, NEW i \in 1..Len(ops), Timeout(i)
  PROVE  /\ slow /\ ops[i].phase = "pending" /\ Moves(i, "rejected", ops[i].answer)
         /\ pending' = IF pending = i THEN 0 ELSE pending
         /\ UNCHANGED <<slow, handlers, loops, connection, connected, requests, replies,
                        subscribed, online, seen, restarts>>
<1>1. Moves(i, "rejected", ops[i].answer)
  BY PhaseIs DEF Timeout, Phases
<1> QED
  BY <1>1 DEF Timeout

LEMMA RegisterIs ==
  ASSUME ControlTypeOK, NEW i \in 1..Len(ops), Register(i)
  PROVE  /\ ops[i].phase = "resolved" /\ Moves(i, "done", ops[i].answer)
         /\ handlers' = [handlers EXCEPT ![ops[i].topic] = @ \cup {i}]
         /\ UNCHANGED <<slow, pending, loops, connection, connected, requests, replies,
                        subscribed, online, seen, restarts>>
<1>1. Moves(i, "done", ops[i].answer)
  BY PhaseIs DEF Register, Phases
<1> QED
  BY <1>1 DEF Register, Resuming

\* A reply that settles the pending operation; one that settles nothing.
Settles(m) ==
    /\ m.type # "topic_message" /\ UNCHANGED seen
    /\ pending # 0 /\ pending' = 0
    /\ \E p \in {"resolved", "done", "rejected"} :
          /\ Moves(pending, p, m.op)
          /\ p = "resolved" => /\ m.type = "topic_subscribed"
                               /\ ops[pending].kind = "subscribe"
                               /\ ops[pending].by = "application"

Passes(m) ==
    \/ m.type = "topic_message" /\ seen' = seen \cup handlers[m.topic]
    \/ /\ m.type # "topic_message" /\ UNCHANGED seen
       /\ m.type = "topic_subscribed" => pending = 0 \/ ops[pending].kind # "subscribe"

LEMMA DeliverIs ==
  ASSUME ControlTypeOK, Deliver
  PROVE  /\ replies # <<>> /\ replies' = Tail(replies) /\ (SameTick \/ Resuming = {})
         /\ UNCHANGED <<slow, handlers, loops, connection, connected, requests,
                        subscribed, online, restarts>>
         /\ \/ Settles(Head(replies))
            \/ Passes(Head(replies)) /\ UNCHANGED <<ops, pending>>
<1> DEFINE m == Head(replies)
<1>1. /\ replies # <<>> /\ replies' = Tail(replies) /\ (SameTick \/ Resuming = {})
      /\ UNCHANGED <<slow, handlers, loops, connection, connected, requests,
                     subscribed, online, restarts>>
  BY DEF Deliver
<1>2. m \in Message /\ m.op \in Ids
  BY <1>1, RepliesTyped
<1>3. \/ /\ m.type = "topic_message"
         /\ seen' = seen \cup handlers[m.topic]
         /\ UNCHANGED <<ops, pending>>
      \/ /\ m.type # "topic_message" /\ UNCHANGED <<ops, pending, seen>>
         /\ m.type = "topic_subscribed" => pending = 0 \/ ops[pending].kind # "subscribe"
      \/ m.type = "gateway_error" /\ pending # 0 /\ Settle(m.op, "rejected") /\ UNCHANGED seen
      \/ /\ m.type \notin {"topic_message", "gateway_error"} /\ pending # 0
         /\ Expected[ops[pending].kind] = m.type /\ Settle(m.op, ResolvedPhase(pending))
         /\ UNCHANGED seen
  BY DEF Deliver, Expected
<1> HIDE DEF m
<1>4. CASE m.type = "gateway_error" /\ pending # 0 /\ Settle(m.op, "rejected") /\ UNCHANGED seen
  <2>1. Moves(pending, "rejected", m.op) /\ pending' = 0
    BY <1>2, <1>4, SettleIs DEF Phases
  <2>2. Settles(m)
    BY <1>4, <2>1 DEF Settles
  <2> QED
    BY <1>1, <2>2 DEF m
<1>5. CASE /\ m.type \notin {"topic_message", "gateway_error"} /\ pending # 0
           /\ Expected[ops[pending].kind] = m.type /\ Settle(m.op, ResolvedPhase(pending))
           /\ UNCHANGED seen
  <2>1. PICK p : p = ResolvedPhase(pending)
    OBVIOUS
  <2>2. p \in {"resolved", "done"}
        /\ (p = "resolved" => ops[pending].kind = "subscribe" /\ ops[pending].by = "application")
    BY <2>1 DEF ResolvedPhase
  <2>3. Moves(pending, p, m.op) /\ pending' = 0
    BY <1>2, <1>5, <2>1, <2>2, SettleIs DEF Phases
  <2>4. p = "resolved" => m.type = "topic_subscribed"
    BY <1>5, <2>2 DEF Expected
  <2>5. Settles(m)
    BY <1>5, <2>2, <2>3, <2>4 DEF Settles
  <2> QED
    BY <1>1, <2>5 DEF m
<1> QED
  BY <1>1, <1>3, <1>4, <1>5 DEF Passes, m

LEMMA DisconnectedIs ==
  ASSUME ControlTypeOK, Disconnected
  PROVE  /\ connected' = FALSE /\ requests' = <<>> /\ replies' = <<>> /\ subscribed' = {}
         /\ UNCHANGED <<slow, handlers, loops, connection, seen>> /\ pending' = 0
         /\ \/ pending = 0 /\ ops' = ops
            \/ pending # 0 /\ Moves(pending, "rejected", pending)
<1>1. CASE pending = 0
  BY <1>1 DEF Disconnected
<1>2. CASE pending # 0
  <2>1. pending \in Ids
    BY <1>2, OpsTyped
  <2>2. Settle(pending, "rejected")
    BY <1>2 DEF Disconnected
  <2>3. Moves(pending, "rejected", pending) /\ pending' = 0
    BY <1>2, <2>1, <2>2, SettleIs DEF Phases
  <2> QED
    BY <1>2, <2>3 DEF Disconnected
<1> QED
  BY <1>1, <1>2

LEMMA CallIs ==
  ASSUME ControlTypeOK, Call
  PROVE  /\ \E t \in Topics, kind \in {"open", "subscribe"} :
               Enqueues(kind, t, "application")
         /\ UNCHANGED <<slow, pending, handlers, loops, connection, connected, requests,
                        replies, subscribed, online, seen, restarts>>
<1>1. PICK t \in Topics, kind \in {"open", "subscribe"} :
         ops' = Enqueued(kind, t, "application")
  BY DEF Call
<1>2. Enqueues(kind, t, "application")
  BY <1>1, EnqueueIs DEF Call
<1> QED
  BY <1>2 DEF Call

LEMMA LeaveIs ==
  ASSUME ControlTypeOK, NEW t \in Topics, NEW i \in Ids, Leave(t, i)
  PROVE  /\ i \in handlers[t] /\ (Overlap \/ Joining(t) = {})
         /\ handlers' = [handlers EXCEPT ![t] = @ \ {i}]
         /\ \/ handlers[t] # {i} /\ UNCHANGED <<ops, loops>>
            \/ /\ handlers[t] = {i} /\ Enqueues("unsubscribe", t, "application")
               /\ loops' = [c \in DOMAIN loops |->
                               [loops[c] EXCEPT !.visited = @ \ {t}]]
         /\ UNCHANGED <<slow, pending, connection, connected, requests, replies,
                        subscribed, online, seen, restarts>>
<1>1. CASE handlers[t] = {i}
  <2>1. ops' = Enqueued("unsubscribe", t, "application")
    BY <1>1 DEF Leave
  <2>2. Enqueues("unsubscribe", t, "application")
    BY <2>1, EnqueueIs DEF Leave
  <2> QED
    BY <1>1, <2>2 DEF Leave
<1>2. CASE handlers[t] # {i}
  BY <1>2 DEF Leave
<1> QED
  BY <1>1, <1>2

LEMMA ResubscribeIs ==
  ASSUME ControlTypeOK, NEW c \in 1..MaxConnections, Resubscribe(c)
  PROVE  /\ loops[c].active
         /\ \/ /\ {t \in Topics : handlers[t] # {}} \subseteq loops[c].visited
               /\ loops' = [loops EXCEPT ![c] = Idle] /\ ops' = ops
            \/ \E t \in Topics :
                  /\ handlers[t] # {} /\ t \notin loops[c].visited
                  /\ Enqueues("subscribe", t, "recovery")
                  /\ loops' = [loops EXCEPT ![c].visited = @ \cup {t},
                                            ![c].op = Len(ops) + 1]
         /\ UNCHANGED <<slow, pending, handlers, connection, connected, requests, replies,
                        subscribed, online, seen, restarts>>
<1> DEFINE left == {t \in Topics : handlers[t] # {}} \ loops[c].visited
<1>1. CASE left = {}
  <2>1. loops' = [loops EXCEPT ![c] = Idle] /\ ops' = ops
    BY <1>1 DEF Resubscribe
  <2>2. {t \in Topics : handlers[t] # {}} \subseteq loops[c].visited
    BY <1>1
  <2> QED
    BY <2>1, <2>2 DEF Resubscribe
<1>2. CASE left # {}
  <2>1. Len(ops) < MaxOps
        /\ \E t \in left :
              /\ ops' = Enqueued("subscribe", t, "recovery")
              /\ loops' = [loops EXCEPT ![c].visited = @ \cup {t}, ![c].op = Len(ops) + 1]
    BY <1>2 DEF Resubscribe
  <2>2. PICK t \in left :
              /\ ops' = Enqueued("subscribe", t, "recovery")
              /\ loops' = [loops EXCEPT ![c].visited = @ \cup {t}, ![c].op = Len(ops) + 1]
    BY <2>1
  <2>3. t \in Topics /\ handlers[t] # {} /\ t \notin loops[c].visited
    OBVIOUS
  <2> HIDE DEF left
  <2>4. Enqueues("subscribe", t, "recovery")
    BY <2>1, <2>2, <2>3, EnqueueIs
  <2> QED
    BY <2>2, <2>3, <2>4 DEF Resubscribe
<1> QED
  BY <1>1, <1>2

\* What the gateway answers to the first request.
LEMMA ServeIs ==
  ASSUME ControlTypeOK, Asked, Serve
  PROVE  LET i == Head(requests)
             t == ops[i].topic
         IN  /\ requests # <<>> /\ requests' = Tail(requests) /\ i \in 1..Len(ops)
             /\ UNCHANGED <<slow, ops, pending, handlers, loops, connection, connected,
                            online, seen, restarts>>
             /\ \/ /\ ops[i].kind = "subscribe" /\ online
                   /\ replies' = replies \o SubscribedAnswer(i)
                   /\ subscribed' = subscribed \cup {t}
                \/ /\ ops[i].kind # "subscribe" \/ ~online
                   /\ \E type \in {"channel_ready", "gateway_error", "topic_unsubscribed"} :
                         replies' = Append(replies, Answer(i, type))
                   /\ \/ ops[i].kind # "unsubscribe" /\ UNCHANGED subscribed
                      \/ ops[i].kind = "unsubscribe" /\ subscribed' = subscribed \ {t}
<1> DEFINE i == Head(requests)
           t == ops[i].topic
<1>1. requests # <<>> /\ requests' = Tail(requests)
      /\ UNCHANGED <<slow, ops, pending, handlers, loops, connection, connected,
                     online, seen, restarts>>
  BY DEF Serve
<1>2. i \in 1..Len(ops)
  <2>1. 1 \in DOMAIN requests /\ i = requests[1]
    BY <1>1, RepliesTyped
  <2> QED
    BY <2>1 DEF Asked
<1>3. \/ /\ ops[i].kind = "open" /\ online
         /\ replies' = Append(replies, Answer(i, "channel_ready"))
         /\ UNCHANGED subscribed
      \/ /\ ops[i].kind = "subscribe" /\ online
         /\ replies' = replies \o SubscribedAnswer(i)
         /\ subscribed' = subscribed \cup {t}
      \/ /\ ops[i].kind = "open" \/ (ops[i].kind = "subscribe" /\ ~online)
         /\ replies' = Append(replies, Answer(i, "gateway_error"))
         /\ UNCHANGED subscribed
      \/ /\ ops[i].kind = "unsubscribe"
         /\ replies' = Append(replies, Answer(i, "topic_unsubscribed"))
         /\ subscribed' = subscribed \ {t}
  BY DEF Serve
<1> HIDE DEF i, t
<1>4. /\ requests # <<>> /\ requests' = Tail(requests) /\ i \in 1..Len(ops)
      /\ UNCHANGED <<slow, ops, pending, handlers, loops, connection, connected,
                     online, seen, restarts>>
      /\ \/ /\ ops[i].kind = "subscribe" /\ online
            /\ replies' = replies \o SubscribedAnswer(i)
            /\ subscribed' = subscribed \cup {t}
         \/ /\ ops[i].kind # "subscribe" \/ ~online
            /\ \E type \in {"channel_ready", "gateway_error", "topic_unsubscribed"} :
                  replies' = Append(replies, Answer(i, type))
            /\ \/ ops[i].kind # "unsubscribe" /\ UNCHANGED subscribed
               \/ ops[i].kind = "unsubscribe" /\ subscribed' = subscribed \ {t}
  BY <1>1, <1>2, <1>3
<1> QED
  BY <1>4 DEF i, t

LEMMA DropIs ==
  ASSUME ControlTypeOK, Drop \/ Restart
  PROVE  /\ Disconnected /\ Resuming = {}
         /\ \/ UNCHANGED <<online, restarts>>
            \/ online' = FALSE /\ restarts' = restarts + 1 /\ restarts' \in 0..MaxRestarts
<1>1. restarts \in 0..MaxRestarts /\ MaxRestarts \in Nat
  BY BoundsAssumption DEF ControlTypeOK
<1>2. CASE Drop
  BY <1>2 DEF Drop
<1>3. CASE Restart
  <2>1. restarts' = restarts + 1 /\ restarts < MaxRestarts /\ online' = FALSE
    BY <1>3 DEF Restart
  <2>2. restarts' \in 0..MaxRestarts
    BY <1>1, <2>1
  <2> QED
    BY <1>3, <2>1, <2>2 DEF Restart
<1> QED
  BY <1>2, <1>3

-----------------------------------------------------------------------------
(***************************************************************************)
(* The order of the operations.                                            *)
(***************************************************************************)
\* What a step does to opQueue and pendingOp.
QueueStep ==
    \/ UNCHANGED <<ops, pending>>
    \/ /\ pending' = pending
       /\ \E kind \in {"open", "subscribe", "unsubscribe"}, t \in Topics,
             by \in {"application", "recovery"} : Enqueues(kind, t, by)
    \/ \E i \in 1..Len(ops), a \in 0..MaxOps :
          \/ /\ ops[i].phase = "queued" /\ \A j \in 1..(i - 1) : Settled(j)
             /\ \/ Moves(i, "pending", a) /\ pending' = i
                \/ Moves(i, "rejected", a) /\ pending' = pending
          \/ ops[i].phase = "resolved" /\ Moves(i, "done", a) /\ pending' = pending
          \/ /\ i = pending /\ pending' = 0
             /\ \E p \in {"resolved", "done", "rejected"} :
                   /\ Moves(i, p, a)
                   /\ p = "resolved" => /\ ops[i].kind = "subscribe"
                                        /\ ops[i].by = "application"

LEMMA QueueSteps ==
  ASSUME Ordered, [Next]_vars
  PROVE  QueueStep
<1>0. ControlTypeOK /\ OnePending
  BY DEF Ordered
<1>1. CASE Call
  BY <1>0, <1>1, CallIs DEF QueueStep
<1>2. ASSUME NEW t \in Topics, NEW i \in Ids, Leave(t, i) PROVE QueueStep
  BY <1>0, <1>2, LeaveIs DEF QueueStep
<1>3. ASSUME NEW i \in 1..Len(ops), RunOp(i) PROVE QueueStep
  <2>1. ops[i].answer \in 0..MaxOps
    BY <1>0, OpsTyped
  <2> QED
    BY <1>0, <1>3, <2>1, RunOpIs DEF QueueStep
<1>4. ASSUME NEW i \in 1..Len(ops), Timeout(i) PROVE QueueStep
  <2>1. ops[i].answer \in 0..MaxOps
    BY <1>0, OpsTyped
  <2>2. i = pending /\ pending' = 0 /\ Moves(i, "rejected", ops[i].answer)
    BY <1>0, <1>4, TimeoutIs DEF OnePending
  <2> QED
    BY <2>1, <2>2 DEF QueueStep
<1>5. ASSUME NEW i \in 1..Len(ops), Register(i) PROVE QueueStep
  <2>1. ops[i].answer \in 0..MaxOps
    BY <1>0, OpsTyped
  <2> QED
    BY <1>0, <1>5, <2>1, RegisterIs DEF QueueStep
<1>6. CASE Deliver
  <2> DEFINE m == Head(replies)
  <2>1. m.op \in 0..MaxOps
    <3>1. m \in Message
      BY <1>0, <1>6, DeliverIs, RepliesTyped
    <3>2. m.op \in 1..MaxOps /\ MaxOps \in Nat
      BY <3>1, <1>0, RepliesTyped, OpsTyped DEF Ids
    <3> QED
      BY <3>2
  <2>2. Settles(m) \/ UNCHANGED <<ops, pending>>
    BY <1>0, <1>6, DeliverIs
  <2> HIDE DEF m
  <2>3. CASE Settles(m)
    <3>1. pending \in 1..Len(ops)
      BY <1>0, <2>3, OpsTyped DEF Settles
    <3> QED
      BY <2>1, <2>3, <3>1 DEF Settles, QueueStep
  <2> QED
    BY <2>2, <2>3 DEF QueueStep
<1>7. CASE Drop \/ Restart
  <2>1. /\ pending' = 0
        /\ (pending = 0 /\ ops' = ops) \/ (pending # 0 /\ Moves(pending, "rejected", pending))
    BY <1>0, <1>7, DropIs, DisconnectedIs
  <2>2. pending # 0 => pending \in 1..Len(ops) /\ pending \in 0..MaxOps
    BY <1>0, OpsTyped
  <2> QED
    BY <2>1, <2>2 DEF QueueStep
<1>8. ASSUME NEW c \in 1..MaxConnections, Resubscribe(c) PROVE QueueStep
  BY <1>0, <1>8, ResubscribeIs DEF QueueStep
<1>9. CASE Reconnect \/ Serve \/ BackendReturns \/ UNCHANGED vars
  BY <1>9 DEF Reconnect, Serve, BackendReturns, vars, QueueStep
<1> QED
  BY <1>1, <1>2, <1>3, <1>4, <1>5, <1>6, <1>7, <1>8, <1>9 DEF Next, Client

\* Nothing is pending when the turn of an operation comes.
LEMMA NonePending ==
  ASSUME Ordered, NEW i \in 1..Len(ops), ops[i].phase = "queued",
         \A j \in 1..(i - 1) : Settled(j)
  PROVE  pending = 0
<1>0. InOrder /\ OnePending /\ Len(ops) \in Nat /\ pending \in 0..Len(ops)
  BY OpsTyped DEF Ordered
<1> SUFFICES ASSUME pending # 0 PROVE FALSE
  OBVIOUS
<1>1. pending \in 1..Len(ops) /\ ops[pending].phase = "pending"
  BY <1>0 DEF OnePending
<1>2. pending < i \/ i < pending
  BY <1>0, <1>1
<1>3. ~(pending < i)
  <2> SUFFICES ASSUME pending < i PROVE FALSE
    OBVIOUS
  <2>1. pending \in 1..(i - 1)
    BY <1>0, <1>1
  <2> QED
    BY <1>1, <2>1 DEF Settled
<1>4. ~(i < pending)
  BY <1>0, <1>1 DEF InOrder, Settled
<1> QED
  BY <1>2, <1>3, <1>4

LEMMA QueueKept ==
  ASSUME Ordered, QueueStep
  PROVE  /\ ops' \in Seq(Op) /\ Len(ops') <= MaxOps /\ pending' \in 0..Len(ops')
         /\ pending' # 0 => ops'[pending'].phase = "pending"
         /\ InOrder' /\ OnePending' /\ ResolvedAre'
<1>0. /\ ControlTypeOK /\ InOrder /\ OnePending /\ ResolvedAre
      /\ Len(ops) \in Nat /\ MaxOps \in Nat /\ Len(ops) <= MaxOps /\ ops \in Seq(Op)
      /\ pending \in 0..Len(ops) /\ (pending # 0 => ops[pending].phase = "pending")
  BY OpsTyped DEF Ordered, ControlTypeOK
<1> USE DEF InOrder, OnePending, Settled
<1>1. CASE UNCHANGED <<ops, pending>>
  BY <1>0, <1>1 DEF ResolvedAre, Resuming
<1>2. CASE /\ pending' = pending
           /\ \E kind \in {"open", "subscribe", "unsubscribe"}, t \in Topics,
                 by \in {"application", "recovery"} : Enqueues(kind, t, by)
  <2>1. /\ ops' \in Seq(Op) /\ Len(ops') = Len(ops) + 1 /\ Len(ops') <= MaxOps
        /\ \A j \in 1..Len(ops) : ops'[j] = ops[j]
        /\ ops'[Len(ops) + 1].phase = "queued"
    BY <1>2 DEF Enqueues
  <2>2. 1..Len(ops') = 1..Len(ops) \cup {Len(ops) + 1} /\ Len(ops) + 1 \notin 1..Len(ops)
        /\ Len(ops) + 1 # pending
    BY <1>0, <2>1
  <2>3. pending' \in 0..Len(ops') /\ (pending' # 0 => ops'[pending'].phase = "pending")
    BY <1>0, <1>2, <2>1
  <2>4. InOrder'
    <3> SUFFICES ASSUME NEW i \in 1..Len(ops'), NEW j \in 1..Len(ops'), j < i,
                        ops'[i].phase # "queued"
                 PROVE  ops'[j].phase \in {"resolved", "done", "rejected"}
      OBVIOUS
    <3>1. i \in 1..Len(ops)
      BY <2>1, <2>2
    <3>2. j \in 1..Len(ops)
      BY <1>0, <2>2, <3>1
    <3> QED
      BY <1>0, <2>1, <3>1, <3>2
  <2>5. OnePending'
    BY <1>0, <1>2, <2>1, <2>2
  <2>6. ResolvedAre'
    BY <1>0, <2>1, <2>2 DEF ResolvedAre, Resuming
  <2> QED
    BY <2>1, <2>3, <2>4, <2>5, <2>6
<1>3. ASSUME NEW i \in 1..Len(ops), NEW a \in 0..MaxOps, ops[i].phase = "queued",
             \A j \in 1..(i - 1) : Settled(j), NEW p \in {"pending", "rejected"},
             Moves(i, p, a), pending' = IF p = "pending" THEN i ELSE pending
      PROVE  /\ ops' \in Seq(Op) /\ Len(ops') <= MaxOps /\ pending' \in 0..Len(ops')
             /\ pending' # 0 => ops'[pending'].phase = "pending"
             /\ InOrder' /\ OnePending' /\ ResolvedAre'
  <2>0. pending = 0
    BY <1>3, NonePending
  <2>1. /\ ops' \in Seq(Op) /\ Len(ops') = Len(ops)
        /\ \A j \in 1..Len(ops) :
              /\ ops'[j].kind = ops[j].kind /\ ops'[j].by = ops[j].by
              /\ ops'[j].phase = (IF j = i THEN p ELSE ops[j].phase)
    BY <1>3 DEF Moves
  <2>2. pending' \in 0..Len(ops') /\ (pending' # 0 => ops'[pending'].phase = "pending")
    BY <1>0, <1>3, <2>0, <2>1
  <2>3. InOrder'
    <3> SUFFICES ASSUME NEW k \in 1..Len(ops), NEW j \in 1..Len(ops), j < k,
                        ops'[k].phase # "queued"
                 PROVE  ops'[j].phase \in {"resolved", "done", "rejected"}
      BY <2>1
    <3>1. CASE k = i
      <4>1. j \in 1..(i - 1) /\ j # i
        BY <1>0, <3>1
      <4> QED
        BY <1>3, <2>1, <4>1
    <3>2. CASE k # i
      <4>1. ops[j].phase \in {"resolved", "done", "rejected"}
        BY <1>0, <2>1, <3>2
      <4> QED
        BY <1>3, <2>1, <4>1
    <3> QED
      BY <3>1, <3>2
  <2>4. OnePending'
    <3> SUFFICES ASSUME NEW j \in 1..Len(ops) PROVE ops'[j].phase = "pending" <=> j = pending'
      BY <2>1
    <3> QED
      BY <1>0, <1>3, <2>0, <2>1
  <2>5. ResolvedAre'
    BY <1>0, <1>3, <2>1 DEF ResolvedAre, Resuming
  <2> QED
    BY <1>0, <2>1, <2>2, <2>3, <2>4, <2>5
<1>4. ASSUME NEW i \in 1..Len(ops), NEW a \in 0..MaxOps,
             NEW p \in {"resolved", "done", "rejected"}, Moves(i, p, a),
             p = "resolved" => ops[i].kind = "subscribe" /\ ops[i].by = "application",
             \/ ops[i].phase = "resolved" /\ pending' = pending
             \/ i = pending /\ pending' = 0
      PROVE  /\ ops' \in Seq(Op) /\ Len(ops') <= MaxOps /\ pending' \in 0..Len(ops')
             /\ pending' # 0 => ops'[pending'].phase = "pending"
             /\ InOrder' /\ OnePending' /\ ResolvedAre'
  <2>0. ops[i].phase \in {"resolved", "pending"}
    BY <1>0, <1>4
  <2>1. /\ ops' \in Seq(Op) /\ Len(ops') = Len(ops)
        /\ \A j \in 1..Len(ops) :
              /\ ops'[j].kind = ops[j].kind /\ ops'[j].by = ops[j].by
              /\ ops'[j].phase = (IF j = i THEN p ELSE ops[j].phase)
    BY <1>4 DEF Moves
  <2>2. pending' \in 0..Len(ops') /\ (pending' # 0 => ops'[pending'].phase = "pending")
    <3>1. CASE pending' = 0
      BY <1>0, <2>1, <3>1
    <3>2. CASE pending' # 0
      <4>1. pending' = pending /\ ops[i].phase = "resolved" /\ pending \in 1..Len(ops)
            /\ i # pending
        BY <1>0, <1>4, <3>2
      <4> QED
        BY <1>0, <2>1, <4>1
    <3> QED
      BY <3>1, <3>2
  <2>3. InOrder'
    <3> SUFFICES ASSUME NEW k \in 1..Len(ops), NEW j \in 1..Len(ops), j < k,
                        ops'[k].phase # "queued"
                 PROVE  ops'[j].phase \in {"resolved", "done", "rejected"}
      BY <2>1
    <3>1. ops[k].phase # "queued"
      BY <2>0, <2>1
    <3>2. ops[j].phase \in {"resolved", "done", "rejected"}
      BY <1>0, <3>1
    <3> QED
      BY <1>4, <2>1, <3>2
  <2>4. OnePending'
    <3> SUFFICES ASSUME NEW j \in 1..Len(ops) PROVE ops'[j].phase = "pending" <=> j = pending'
      BY <2>1
    <3>1. CASE j = i
      BY <1>0, <1>4, <2>1, <3>1
    <3>2. CASE j # i
      BY <1>0, <1>4, <2>1, <3>2
    <3> QED
      BY <3>1, <3>2
  <2>5. ResolvedAre'
    BY <1>0, <1>4, <2>1 DEF ResolvedAre, Resuming
  <2> QED
    BY <1>0, <2>1, <2>2, <2>3, <2>4, <2>5
<1> QED
  BY <1>1, <1>2, <1>3, <1>4 DEF QueueStep

\* An operation that is done stays what it is.
LEMMA DoneStays ==
  ASSUME Ordered, QueueStep, NEW j \in 1..Len(ops), ops[j].phase \in {"done", "rejected"}
  PROVE  /\ j \in 1..Len(ops') /\ ops'[j].kind = ops[j].kind /\ ops'[j].topic = ops[j].topic
         /\ ops'[j].by = ops[j].by /\ ops'[j].phase = ops[j].phase
<1>0. Len(ops) \in Nat /\ (j = pending => ops[j].phase = "pending")
  BY OpsTyped DEF Ordered, OnePending
<1>1. CASE UNCHANGED <<ops, pending>>
  BY <1>1
<1>2. CASE \E kind \in {"open", "subscribe", "unsubscribe"}, t \in Topics,
              by \in {"application", "recovery"} : Enqueues(kind, t, by)
  BY <1>0, <1>2 DEF Enqueues
<1>3. ASSUME NEW i \in 1..Len(ops), NEW a, NEW p, Moves(i, p, a), i # j
      PROVE  /\ j \in 1..Len(ops') /\ ops'[j].kind = ops[j].kind
             /\ ops'[j].topic = ops[j].topic
             /\ ops'[j].by = ops[j].by /\ ops'[j].phase = ops[j].phase
  BY <1>3 DEF Moves
<1> QED
  BY <1>0, <1>1, <1>2, <1>3 DEF QueueStep

LEMMA HandlersKept ==
  ASSUME Ordered, QueueStep, \A t \in Topics : handlers'[t] \subseteq handlers[t]
  PROVE  HandlersAre'
  BY DoneStays DEF HandlersAre, Ordered

LEMMA HandlersTyped ==
  ASSUME ControlTypeOK
  PROVE  /\ handlers \in [Topics -> SUBSET Ids]
         /\ loops \in [1..MaxConnections ->
                          [active : BOOLEAN, visited : SUBSET Topics, op : 0..MaxOps]]
         /\ connection \in 1..MaxConnections /\ MaxConnections \in Nat
         /\ restarts \in 0..MaxRestarts /\ seen \in SUBSET Ids /\ subscribed \in SUBSET Topics
         /\ slow \in BOOLEAN /\ connected \in BOOLEAN /\ online \in BOOLEAN
  BY BoundsAssumption DEF ControlTypeOK

\* What is left of the types, and of Ordered.
RestTyped ==
    /\ handlers \in [Topics -> SUBSET Ids]
    /\ loops \in [1..MaxConnections ->
                     [active : BOOLEAN, visited : SUBSET Topics, op : 0..MaxOps]]
    /\ connection \in 1..MaxConnections
    /\ slow \in BOOLEAN /\ connected \in BOOLEAN /\ online \in BOOLEAN
    /\ requests \in Seq(Ids) /\ replies \in Seq(Message)
    /\ subscribed \in SUBSET Topics /\ seen \in SUBSET Ids
    /\ restarts \in 0..MaxRestarts

LEMMA RestIs == ControlTypeOK => RestTyped
  BY DEF ControlTypeOK, RestTyped

LEMMA AnswersAre ==
  ASSUME ControlTypeOK, NEW i \in 1..Len(ops)
  PROVE  /\ \A type \in {"channel_ready", "topic_subscribed", "topic_unsubscribed",
                         "gateway_error", "topic_message"} :
               /\ Answer(i, type) \in Message /\ Answer(i, type).type = type
               /\ Answer(i, type).op = i /\ Answer(i, type).topic = ops[i].topic
         /\ SubscribedAnswer(i) \in Seq(Message) /\ Len(SubscribedAnswer(i)) = 2
         /\ SubscribedAnswer(i)[1] = Answer(i, "topic_subscribed")
         /\ SubscribedAnswer(i)[2] = Answer(i, "topic_message")
<1>1. \A type \in {"channel_ready", "topic_subscribed", "topic_unsubscribed",
                   "gateway_error", "topic_message"} :
         /\ Answer(i, type) \in Message /\ Answer(i, type).type = type
         /\ Answer(i, type).op = i /\ Answer(i, type).topic = ops[i].topic
  BY OpsTyped DEF Answer, Message
<1>2. Answer(i, "topic_subscribed") \in Message /\ Answer(i, "topic_message") \in Message
  BY <1>1
<1> QED
  BY <1>1, <1>2 DEF SubscribedAnswer

LEMMA RestInductive ==
  ASSUME Ordered, [Next]_vars
  PROVE  RestTyped' /\ Offline' /\ Asked' /\ HandlersAre'
<1>0. ControlTypeOK /\ RestTyped /\ OnePending /\ Offline /\ Asked /\ HandlersAre
      /\ ResolvedAre /\ QueueStep /\ Len(ops) \in Nat
  BY QueueSteps, RestIs, OpsTyped DEF Ordered
<1>a. 1..Len(ops) \subseteq 1..Len(ops')
  <2>1. Len(ops') = Len(ops) \/ Len(ops') = Len(ops) + 1
    BY <1>0 DEF QueueStep, Enqueues, Moves
  <2> QED
    BY <1>0, <2>1
<1>1. CASE Call
  <2>1. UNCHANGED <<slow, pending, handlers, loops, connection, connected, requests,
                    replies, subscribed, online, seen, restarts>>
    BY <1>0, <1>1, CallIs
  <2>2. PICK kind, t, by : Enqueues(kind, t, by)
    BY <1>0, <1>1, CallIs
  <2>3. Resuming = {} => Resuming' = {}
    BY <1>0, <2>2 DEF Resuming, Enqueues
  <2>4. HandlersAre'
    BY <1>0, <2>1, HandlersKept
  <2> QED
    BY <1>0, <1>a, <2>1, <2>3, <2>4 DEF RestTyped, Offline, Asked
<1>2. ASSUME NEW t \in Topics, NEW i \in Ids, Leave(t, i)
      PROVE  RestTyped' /\ Offline' /\ Asked' /\ HandlersAre'
  <2>1. /\ UNCHANGED <<slow, pending, connection, connected, requests,
                       replies, subscribed, online, seen, restarts>>
        /\ handlers' = [handlers EXCEPT ![t] = @ \ {i}]
        /\ \/ UNCHANGED <<ops, loops>>
           \/ /\ Enqueues("unsubscribe", t, "application")
              /\ loops' = [c \in DOMAIN loops |-> [loops[c] EXCEPT !.visited = @ \ {t}]]
    BY <1>0, <1>2, LeaveIs
  <2>2. handlers' \in [Topics -> SUBSET Ids] /\ \A u \in Topics : handlers'[u] \subseteq handlers[u]
    BY <1>0, <2>1 DEF RestTyped
  <2>3. loops' \in [1..MaxConnections ->
                       [active : BOOLEAN, visited : SUBSET Topics, op : 0..MaxOps]]
    <3>1. \A r \in [active : BOOLEAN, visited : SUBSET Topics, op : 0..MaxOps] :
             [r EXCEPT !.visited = @ \ {t}]
                \in [active : BOOLEAN, visited : SUBSET Topics, op : 0..MaxOps]
      OBVIOUS
    <3>2. loops \in [1..MaxConnections ->
                       [active : BOOLEAN, visited : SUBSET Topics, op : 0..MaxOps]]
      BY <1>0 DEF RestTyped
    <3> DEFINE R == [active : BOOLEAN, visited : SUBSET Topics, op : 0..MaxOps]
               f(r) == [r EXCEPT !.visited = @ \ {t}]
    <3>3. loops' = loops \/ loops' = [c \in DOMAIN loops |-> f(loops[c])]
      BY <2>1
    <3>4. \A r \in R : f(r) \in R
      BY <3>1
    <3> HIDE DEF R, f
    <3>5. loops' \in [1..MaxConnections -> R]
      BY <3>2, <3>3, <3>4 DEF R
    <3> QED
      BY <3>5 DEF R
  <2>4. Resuming = {} => Resuming' = {}
    BY <1>0, <2>1 DEF Resuming, Enqueues
  <2>5. HandlersAre'
    BY <1>0, <2>2, HandlersKept
  <2>6. RestTyped'
    BY <1>0, <2>1, <2>2, <2>3 DEF RestTyped
  <2> QED
    BY <1>0, <1>a, <2>1, <2>4, <2>5, <2>6 DEF Offline, Asked
<1>3. ASSUME NEW i \in 1..Len(ops), RunOp(i)
      PROVE  RestTyped' /\ Offline' /\ Asked' /\ HandlersAre'
  <2>1. /\ UNCHANGED <<slow, handlers, loops, connection, connected, replies,
                       subscribed, online, seen, restarts>>
        /\ connected => requests' = Append(requests, i)
        /\ ~connected => /\ pending' = pending /\ requests' = requests
                         /\ Moves(i, "rejected", ops[i].answer)
    BY <1>0, <1>3, RunOpIs
  <2>2. i \in Ids
    BY <1>0, OpsTyped
  <2>3. requests' \in Seq(Ids) /\ Asked'
    <3>1. requests \in Seq(Ids)
      BY <1>0 DEF RestTyped
    <3>2. CASE requests' = requests
      BY <1>0, <1>a, <3>1, <3>2 DEF Asked
    <3>3. CASE requests' = Append(requests, i)
      <4>1. /\ requests' \in Seq(Ids) /\ DOMAIN requests' = 1..(Len(requests) + 1)
            /\ DOMAIN requests = 1..Len(requests) /\ Len(requests) \in Nat
            /\ requests'[Len(requests) + 1] = i
            /\ \A k \in DOMAIN requests : requests'[k] = requests[k]
        BY <2>2, <3>1, <3>3
      <4>2. \A k \in DOMAIN requests' : k \in DOMAIN requests \/ k = Len(requests) + 1
        BY <4>1
      <4> QED
        BY <1>0, <1>a, <4>1, <4>2 DEF Asked
    <3> QED
      BY <2>1, <3>2, <3>3, <1>0 DEF RestTyped
  <2>4. ~connected /\ Resuming = {} => Resuming' = {}
    BY <1>0, <2>1 DEF Resuming, Moves
  <2>5. HandlersAre'
    BY <1>0, <2>1, HandlersKept
  <2>6. RestTyped'
    BY <1>0, <2>1, <2>3 DEF RestTyped
  <2>7. Offline'
    BY <1>0, <2>1, <2>4 DEF Offline
  <2> QED
    BY <2>3, <2>5, <2>6, <2>7
<1>4. ASSUME NEW i \in 1..Len(ops), Timeout(i)
      PROVE  RestTyped' /\ Offline' /\ Asked' /\ HandlersAre'
  <2>1. /\ UNCHANGED <<slow, handlers, loops, connection, connected, requests, replies,
                       subscribed, online, seen, restarts>>
        /\ i = pending
    BY <1>0, <1>4, TimeoutIs DEF OnePending
  <2>2. HandlersAre'
    BY <1>0, <2>1, HandlersKept
  <2> QED
    BY <1>0, <1>a, <2>1, <2>2 DEF RestTyped, Offline, Asked
<1>5. ASSUME NEW i \in 1..Len(ops), Register(i)
      PROVE  RestTyped' /\ Offline' /\ Asked' /\ HandlersAre'
  <2>1. /\ UNCHANGED <<slow, pending, loops, connection, connected, requests, replies,
                       subscribed, online, seen, restarts>>
        /\ handlers' = [handlers EXCEPT ![ops[i].topic] = @ \cup {i}]
        /\ ops[i].phase = "resolved" /\ Moves(i, "done", ops[i].answer)
    BY <1>0, <1>5, RegisterIs
  <2>2. i \in Ids /\ ops[i].topic \in Topics /\ i \in Resuming
    BY <1>0, <2>1, OpsTyped DEF Resuming
  <2>3. handlers' \in [Topics -> SUBSET Ids]
    BY <1>0, <2>1, <2>2 DEF RestTyped
  <2>4. HandlersAre'
    <3> SUFFICES ASSUME NEW t \in Topics, NEW j \in handlers'[t]
                 PROVE  /\ j \in 1..Len(ops') /\ ops'[j].kind = "subscribe"
                        /\ ops'[j].topic = t
                        /\ ops'[j].by = "application" /\ ops'[j].phase = "done"
      BY DEF HandlersAre
    <3>1. CASE j = i /\ t = ops[i].topic
      BY <1>0, <2>1, <2>2, <3>1 DEF Moves, ResolvedAre
    <3>2. CASE j \in handlers[t]
      BY <1>0, <3>2, DoneStays DEF HandlersAre
    <3> QED
      BY <1>0, <2>1, <2>2, <3>1, <3>2 DEF RestTyped
  <2>5. RestTyped'
    BY <1>0, <2>1, <2>3 DEF RestTyped
  <2>6. connected'
    BY <1>0, <2>1, <2>2 DEF Offline
  <2> QED
    BY <1>0, <1>a, <2>1, <2>4, <2>5, <2>6 DEF Offline, Asked
<1>6. CASE Deliver
  <2>1. /\ replies # <<>> /\ replies' = Tail(replies)
        /\ UNCHANGED <<slow, handlers, loops, connection, connected, requests,
                       subscribed, online, restarts>>
        /\ seen' = seen \/ seen' = seen \cup handlers[Head(replies).topic]
    BY <1>0, <1>6, DeliverIs DEF Settles, Passes
  <2>2. Head(replies).topic \in Topics /\ replies' \in Seq(Message)
    BY <1>0, <2>1, RepliesTyped
  <2>3. seen' \in SUBSET Ids
    BY <1>0, <2>1, <2>2 DEF RestTyped
  <2>4. HandlersAre'
    BY <1>0, <2>1, HandlersKept
  <2>5. connected'
    BY <1>0, <2>1 DEF Offline
  <2>6. RestTyped'
    BY <1>0, <2>1, <2>2, <2>3 DEF RestTyped
  <2> QED
    BY <1>0, <1>a, <2>1, <2>4, <2>5, <2>6 DEF Offline, Asked
<1>7. CASE Drop \/ Restart
  <2>1. /\ connected' = FALSE /\ requests' = <<>> /\ replies' = <<>> /\ subscribed' = {}
        /\ UNCHANGED <<slow, handlers, loops, connection, seen>> /\ pending' = 0
        /\ \/ ops' = ops
           \/ Moves(pending, "rejected", pending)
    BY <1>0, <1>7, DropIs, DisconnectedIs
  <2>2. Resuming = {} /\ \/ UNCHANGED <<online, restarts>>
                         \/ online' = FALSE /\ restarts' \in 0..MaxRestarts
    BY <1>0, <1>7, DropIs
  <2>3. Resuming' = {}
    BY <2>1, <2>2 DEF Resuming, Moves
  <2>4. HandlersAre'
    BY <1>0, <2>1, HandlersKept
  <2>5. RestTyped'
    <3>1. requests' \in Seq(Ids) /\ replies' \in Seq(Message) /\ subscribed' \in SUBSET Topics
      BY <2>1
    <3>2. online' \in BOOLEAN /\ restarts' \in 0..MaxRestarts /\ connected' \in BOOLEAN
      BY <1>0, <2>1, <2>2 DEF RestTyped
    <3> QED
      BY <1>0, <2>1, <3>1, <3>2 DEF RestTyped
  <2> QED
    BY <2>1, <2>3, <2>4, <2>5 DEF Offline, Asked
<1>8. ASSUME NEW c \in 1..MaxConnections, Resubscribe(c)
      PROVE  RestTyped' /\ Offline' /\ Asked' /\ HandlersAre'
  <2>1. /\ UNCHANGED <<slow, pending, handlers, connection, connected, requests, replies,
                       subscribed, online, seen, restarts>>
        /\ \/ loops' = [loops EXCEPT ![c] = Idle] /\ ops' = ops
           \/ \E t \in Topics :
                 /\ Enqueues("subscribe", t, "recovery")
                 /\ loops' = [loops EXCEPT ![c].visited = @ \cup {t},
                                           ![c].op = Len(ops) + 1]
    BY <1>0, <1>8, ResubscribeIs
  <2>2. Resuming = {} => Resuming' = {}
    <3>1. CASE ops' = ops
      BY <3>1 DEF Resuming
    <3>2. CASE \E t \in Topics : Enqueues("subscribe", t, "recovery")
      BY <1>0, <3>2 DEF Resuming, Enqueues
    <3> QED
      BY <2>1, <3>1, <3>2
  <2>3. loops' \in [1..MaxConnections ->
                       [active : BOOLEAN, visited : SUBSET Topics, op : 0..MaxOps]]
    <3>1. loops \in [1..MaxConnections ->
                        [active : BOOLEAN, visited : SUBSET Topics, op : 0..MaxOps]]
      BY <1>0 DEF RestTyped
    <3>2. Idle \in [active : BOOLEAN, visited : SUBSET Topics, op : 0..MaxOps]
      BY OpsTyped, <1>0 DEF Idle
    <3>3. CASE loops' = [loops EXCEPT ![c] = Idle]
      BY <3>1, <3>2, <3>3
    <3>4. ASSUME NEW t \in Topics, Enqueues("subscribe", t, "recovery"),
                 loops' = [loops EXCEPT ![c].visited = @ \cup {t}, ![c].op = Len(ops) + 1]
          PROVE  loops' \in [1..MaxConnections ->
                                [active : BOOLEAN, visited : SUBSET Topics, op : 0..MaxOps]]
      <4>1. Len(ops) + 1 \in 0..MaxOps
        BY <1>0, <3>4, OpsTyped DEF Enqueues
      <4>2. PICK n \in 0..MaxOps : n = Len(ops) + 1
        BY <4>1
      <4>3. loops' = [loops EXCEPT ![c].visited = @ \cup {t}, ![c].op = n]
        BY <3>4, <4>2
      <4> QED
        BY <3>1, <4>3
    <3> QED
      BY <2>1, <3>3, <3>4
  <2>4. HandlersAre'
    BY <1>0, <2>1, HandlersKept
  <2>5. RestTyped'
    BY <1>0, <2>1, <2>3 DEF RestTyped
  <2> QED
    BY <1>0, <1>a, <2>1, <2>2, <2>4, <2>5 DEF Offline, Asked
<1>9. CASE Reconnect
  <2>1. UNCHANGED <<slow, ops, pending, handlers, requests, replies, subscribed,
                    online, seen, restarts>>
        /\ connected' = TRUE /\ connection' = connection + 1 /\ connection < MaxConnections
        /\ loops' = [loops EXCEPT ![connection + 1] = [Idle EXCEPT !.active = TRUE]]
    BY <1>9 DEF Reconnect
  <2>2. connection' \in 1..MaxConnections
    BY <1>0, <2>1, HandlersTyped
  <2>3. [Idle EXCEPT !.active = TRUE]
           \in [active : BOOLEAN, visited : SUBSET Topics, op : 0..MaxOps]
    <3>1. Idle \in [active : BOOLEAN, visited : SUBSET Topics, op : 0..MaxOps]
      BY OpsTyped, <1>0 DEF Idle
    <3> QED
      BY <3>1
  <2>4. HandlersAre'
    BY <1>0, <2>1, HandlersKept
  <2>5. RestTyped'
    <3>1. loops' \in [1..MaxConnections ->
                        [active : BOOLEAN, visited : SUBSET Topics, op : 0..MaxOps]]
      BY <1>0, <2>1, <2>3 DEF RestTyped
    <3> QED
      BY <1>0, <2>1, <2>2, <3>1 DEF RestTyped
  <2> QED
    BY <1>0, <2>1, <2>4, <2>5 DEF Offline, Asked
<1>10. CASE Serve
  <2> DEFINE i == Head(requests)
  <2>1. /\ requests # <<>> /\ requests' = Tail(requests) /\ i \in 1..Len(ops)
        /\ UNCHANGED <<slow, ops, pending, handlers, loops, connection, connected,
                       online, seen, restarts>>
        /\ subscribed' = subscribed \cup {ops[i].topic} \/ subscribed' \subseteq subscribed
        /\ \/ replies' = replies \o SubscribedAnswer(i)
           \/ \E type \in {"channel_ready", "gateway_error", "topic_unsubscribed"} :
                 replies' = Append(replies, Answer(i, type))
    BY <1>0, <1>10, ServeIs
  <2> HIDE DEF i
  <2>2. replies' \in Seq(Message)
    <3>1. replies \in Seq(Message)
      BY <1>0 DEF RestTyped
    <3>2. SubscribedAnswer(i) \in Seq(Message)
          /\ \A type \in {"channel_ready", "gateway_error", "topic_unsubscribed"} :
                Answer(i, type) \in Message
      BY <1>0, <2>1, AnswersAre
    <3>3. \A s \in Seq(Message) : replies \o s \in Seq(Message)
      BY <3>1
    <3>4. \A m \in Message : Append(replies, m) \in Seq(Message)
      BY <3>1
    <3> QED
      BY <2>1, <3>2, <3>3, <3>4
  <2>3. requests' \in Seq(Ids) /\ Asked'
    <3>1. requests \in Seq(Ids)
      BY <1>0 DEF RestTyped
    <3>2. requests' \in Seq(Ids)
          /\ \A k \in DOMAIN requests' : k + 1 \in DOMAIN requests /\ requests'[k] = requests[k + 1]
      BY <2>1, <3>1
    <3> QED
      BY <1>0, <1>a, <3>2 DEF Asked
  <2>4. ops[i].topic \in Topics
    BY <1>0, <2>1, OpsTyped
  <2>5. HandlersAre'
    BY <1>0, <2>1, HandlersKept
  <2>6. RestTyped'
    <3>1. subscribed' \in SUBSET Topics
      BY <1>0, <2>1, <2>4 DEF RestTyped
    <3> QED
      BY <1>0, <2>1, <2>2, <2>3, <3>1 DEF RestTyped
  <2>7. connected'
    BY <1>0, <2>1 DEF Offline
  <2> QED
    BY <2>3, <2>5, <2>6, <2>7 DEF Offline
<1>11. CASE BackendReturns \/ UNCHANGED vars
  <2>1. UNCHANGED <<slow, ops, pending, handlers, loops, connection, connected,
                    requests, replies, subscribed, seen, restarts>>
        /\ (online' = TRUE \/ online' = online)
    BY <1>11 DEF BackendReturns, vars
  <2>2. RestTyped'
    BY <1>0, <2>1 DEF RestTyped
  <2>3. Offline' /\ Asked'
    BY <1>0, <2>1 DEF Offline, Asked, Resuming
  <2>4. HandlersAre'
    BY <1>0, <2>1, HandlersKept
  <2> QED
    BY <2>2, <2>3, <2>4
<1> QED
  BY <1>1, <1>2, <1>3, <1>4, <1>5, <1>6, <1>7, <1>8, <1>9, <1>10, <1>11 DEF Next, Client

LEMMA OrderedInductive ==
  ASSUME Ordered, [Next]_vars
  PROVE  Ordered'
<1>1. /\ ops' \in Seq(Op) /\ Len(ops') <= MaxOps /\ pending' \in 0..Len(ops')
      /\ pending' # 0 => ops'[pending'].phase = "pending"
      /\ InOrder' /\ OnePending' /\ ResolvedAre'
  BY QueueSteps, QueueKept
<1>2. RestTyped' /\ Offline' /\ Asked' /\ HandlersAre'
  BY RestInductive
<1>3. ControlTypeOK'
  BY <1>1, <1>2 DEF ControlTypeOK, RestTyped
<1> QED
  BY <1>1, <1>2, <1>3 DEF Ordered

LEMMA InitOrdered == Init => Ordered
<1> SUFFICES ASSUME Init PROVE Ordered
  OBVIOUS
<1>1. MaxOps \in Nat /\ MaxConnections \in Nat \ {0} /\ MaxRestarts \in Nat
  BY BoundsAssumption
<1>2. ops = <<>> /\ Len(ops) = 0 /\ ops \in Seq(Op) /\ 1..Len(ops) = {}
  BY DEF Init
<1>3. ControlTypeOK
  <2>1. Idle \in [active : BOOLEAN, visited : SUBSET Topics, op : 0..MaxOps]
    BY <1>1 DEF Idle
  <2>2. /\ loops \in [1..MaxConnections ->
                        [active : BOOLEAN, visited : SUBSET Topics, op : 0..MaxOps]]
        /\ handlers \in [Topics -> SUBSET Ids]
    BY <2>1 DEF Init
  <2>3. connection \in 1..MaxConnections /\ restarts \in 0..MaxRestarts
        /\ pending \in 0..Len(ops) /\ Len(ops) <= MaxOps
    BY <1>1, <1>2 DEF Init
  <2> QED
    BY <1>2, <2>2, <2>3 DEF Init, ControlTypeOK
<1>4. InOrder /\ OnePending /\ ResolvedAre
  BY <1>2 DEF InOrder, OnePending, ResolvedAre, Resuming
<1> QED
  BY <1>3, <1>4 DEF Init, Ordered, Offline, Asked, HandlersAre

-----------------------------------------------------------------------------
(***************************************************************************)
(* Own replies.                                                            *)
(***************************************************************************)
\* A payload settles nothing; every other reply may.
Settling(m) == m.type # "topic_message"

\* The request of the pending operation is the only one under way, or the reply
\* to it is the only one.
Own ==
    /\ OwnRepliesAlways
    /\ \A j, k \in DOMAIN requests : requests[k] = pending /\ j = k
    /\ \A k \in DOMAIN replies :
          Settling(replies[k]) => replies[k].op = pending /\ requests = <<>>
    /\ \A j, k \in DOMAIN replies :
          Settling(replies[j]) /\ Settling(replies[k]) => j = k

LEMMA SlowStays == ASSUME ControlTypeOK, [Next]_vars PROVE slow' = slow
<1>1. ASSUME NEW t \in Topics, NEW i \in Ids, Leave(t, i) PROVE slow' = slow
  BY <1>1, LeaveIs
<1>2. ASSUME NEW i \in 1..Len(ops), Client(i) PROVE slow' = slow
  BY <1>2 DEF Client, RunOp, Timeout, Register
<1>3. ASSUME NEW c \in 1..MaxConnections, Resubscribe(c) PROVE slow' = slow
  BY <1>3 DEF Resubscribe
<1>4. CASE Call \/ Deliver \/ Reconnect \/ Serve \/ BackendReturns \/ UNCHANGED vars
  BY <1>4 DEF Call, Deliver, Reconnect, Serve, BackendReturns, vars
<1>5. CASE Drop \/ Restart
  BY <1>5, DropIs, DisconnectedIs
<1> QED
  BY <1>1, <1>2, <1>3, <1>4, <1>5 DEF Next

\* The answers, when an operation is added or moves on.
LEMMA AnswersKept ==
  ASSUME ControlTypeOK, OwnRepliesAlways
  PROVE  /\ ops' = ops => OwnRepliesAlways'
         /\ \A kind, t, by : Enqueues(kind, t, by) => OwnRepliesAlways'
         /\ \A i \in 1..Len(ops) : \A p, a :
               Moves(i, p, a) /\ a \in {0, i} => OwnRepliesAlways'
<1>0. Len(ops) \in Nat
  BY OpsTyped
<1>1. ops' = ops => OwnRepliesAlways'
  BY DEF OwnRepliesAlways
<1>2. ASSUME NEW kind, NEW t, NEW by, Enqueues(kind, t, by) PROVE OwnRepliesAlways'
  <2>1. Len(ops') = Len(ops) + 1 /\ (\A j \in 1..Len(ops) : ops'[j] = ops[j])
        /\ ops'[Len(ops) + 1].answer = 0
    BY <1>2 DEF Enqueues
  <2> SUFFICES ASSUME NEW j \in 1..Len(ops') PROVE ops'[j].answer \in {0, j}
    BY DEF OwnRepliesAlways
  <2>2. j \in 1..Len(ops) \/ j = Len(ops) + 1
    BY <1>0, <2>1
  <2> QED
    BY <2>1, <2>2 DEF OwnRepliesAlways
<1>3. ASSUME NEW i \in 1..Len(ops), NEW p, NEW a, Moves(i, p, a), a \in {0, i}
      PROVE  OwnRepliesAlways'
  BY <1>3 DEF Moves, OwnRepliesAlways
<1> QED
  BY <1>1, <1>2, <1>3

LEMMA TwoMoreAre ==
  ASSUME NEW S, NEW w \in Seq(S), NEW s \in Seq(S), Len(s) = 2
  PROVE  /\ Len(w) \in Nat /\ DOMAIN w = 1..Len(w) /\ w \o s \in Seq(S)
         /\ DOMAIN (w \o s) = 1..(Len(w) + 2)
         /\ \A k \in DOMAIN w : (w \o s)[k] = w[k]
         /\ (w \o s)[Len(w) + 1] = s[1] /\ (w \o s)[Len(w) + 2] = s[2]
<1>0. Len(w) \in Nat /\ DOMAIN w = 1..Len(w)
  OBVIOUS
<1>1. /\ w \o s \in Seq(S)
      /\ Len(w \o s) = Len(w) + Len(s)
      /\ \A k \in 1..(Len(w) + Len(s)) :
            (w \o s)[k] = IF k <= Len(w) THEN w[k] ELSE s[k - Len(w)]
  BY ConcatProperties, Zenon
<1>2. DOMAIN (w \o s) = 1..(Len(w) + 2)
  <2>1. DOMAIN (w \o s) = 1..Len(w \o s)
    BY <1>1
  <2> QED
    BY <1>0, <1>1, <2>1
<1>3. (w \o s)[Len(w) + 1] = s[1]
  <2>1. Len(w) + 1 \in 1..(Len(w) + Len(s)) /\ ~(Len(w) + 1 <= Len(w))
        /\ (Len(w) + 1) - Len(w) = 1
    BY <1>0
  <2> QED
    BY <1>1, <2>1
<1>4. (w \o s)[Len(w) + 2] = s[2]
  <2>1. Len(w) + 2 \in 1..(Len(w) + Len(s)) /\ ~(Len(w) + 2 <= Len(w))
        /\ (Len(w) + 2) - Len(w) = 2
    BY <1>0
  <2> QED
    BY <1>1, <2>1
<1>5. \A k \in DOMAIN w : (w \o s)[k] = w[k]
  BY <1>0, <1>1
<1> QED
  BY <1>1, <1>2, <1>3, <1>4, <1>5

LEMMA OwnInductive ==
  ASSUME ~slow, Ordered, Own, [Next]_vars
  PROVE  Own'
<1>0. /\ ControlTypeOK /\ Asked /\ OwnRepliesAlways /\ Len(ops) \in Nat
      /\ requests \in Seq(Ids) /\ replies \in Seq(Message)
      /\ pending \in 0..Len(ops)
      /\ \A i \in 1..Len(ops) : ops[i].answer \in {0, i}
  BY OpsTyped, RepliesTyped DEF Ordered, Own, OwnRepliesAlways
<1>a. ASSUME OwnRepliesAlways', UNCHANGED <<pending, requests, replies>> PROVE Own'
  BY <1>a DEF Own, Settling
<1>1. CASE Call
  BY <1>0, <1>1, <1>a, CallIs, AnswersKept
<1>2. ASSUME NEW t \in Topics, NEW i \in Ids, Leave(t, i) PROVE Own'
  BY <1>0, <1>2, <1>a, LeaveIs, AnswersKept
<1>3. ASSUME NEW i \in 1..Len(ops), RunOp(i) PROVE Own'
  <2>1. /\ ops[i].phase = "queued" /\ \A j \in 1..(i - 1) : Settled(j)
        /\ replies' = replies
        /\ \E p : Moves(i, p, ops[i].answer)
        /\ connected => pending' = i /\ requests' = Append(requests, i)
        /\ ~connected => pending' = pending /\ requests' = requests
    BY <1>0, <1>3, RunOpIs
  <2>2. OwnRepliesAlways'
    BY <1>0, <2>1, AnswersKept
  <2>3. pending = 0
    BY <2>1, NonePending
  <2>4. requests = <<>>
    <3> SUFFICES ASSUME requests # <<>> PROVE FALSE
      OBVIOUS
    <3>1. 1 \in DOMAIN requests
      BY <1>0
    <3> QED
      BY <1>0, <2>3, <3>1 DEF Own, Asked
  <2>5. \A k \in DOMAIN replies : ~Settling(replies[k])
    <3> SUFFICES ASSUME NEW k \in DOMAIN replies, Settling(replies[k]) PROVE FALSE
      OBVIOUS
    <3>1. replies[k] \in Message
      BY <1>0
    <3>2. replies[k].op \in Ids /\ 0 \notin Ids
      BY <1>0, <3>1, RepliesTyped DEF Ids
    <3> QED
      BY <2>3, <3>2 DEF Own
  <2>6. CASE connected
    <3>1. requests' = Append(<<>>, i) /\ pending' = i
      BY <2>1, <2>4, <2>6
    <3>2. DOMAIN requests' = {1} /\ requests'[1] = i
      BY <3>1
    <3> QED
      BY <2>1, <2>2, <2>5, <3>1, <3>2 DEF Own, Settling
  <2>7. CASE ~connected
    BY <2>1, <2>2, <2>7, <1>a
  <2> QED
    BY <2>6, <2>7
<1>4. ASSUME NEW i \in 1..Len(ops), Timeout(i) PROVE Own'
  BY <1>0, <1>4, TimeoutIs
<1>5. ASSUME NEW i \in 1..Len(ops), Register(i) PROVE Own'
  BY <1>0, <1>5, <1>a, RegisterIs, AnswersKept
<1>6. CASE Deliver
  <2> DEFINE m == Head(replies)
  <2>1. replies # <<>> /\ replies' = Tail(replies) /\ requests' = requests
        /\ (Settles(m) \/ UNCHANGED <<ops, pending>>)
    BY <1>0, <1>6, DeliverIs
  <2>2. /\ 1 \in DOMAIN replies /\ m = replies[1] /\ Len(replies) \in Nat
        /\ \A k \in DOMAIN replies' : k \in Nat /\ k + 1 \in DOMAIN replies
                                      /\ replies'[k] = replies[k + 1] /\ k > 0
    BY <1>0, <2>1
  <2>3. \A j, k \in DOMAIN replies' :
           Settling(replies'[j]) /\ Settling(replies'[k]) => j = k
    <3> SUFFICES ASSUME NEW j \in DOMAIN replies', NEW k \in DOMAIN replies',
                        Settling(replies'[j]), Settling(replies'[k])
                 PROVE  j = k
      OBVIOUS
    <3>1. j + 1 = k + 1
      BY <2>2 DEF Own
    <3> QED
      BY <2>2, <3>1
  <2> HIDE DEF m
  <2>4. CASE UNCHANGED <<ops, pending>>
    <3>1. OwnRepliesAlways'
      BY <1>0, <2>4, AnswersKept
    <3>2. \A k \in DOMAIN replies' :
             Settling(replies'[k]) => replies'[k].op = pending /\ requests = <<>>
      BY <2>2 DEF Own
    <3> QED
      BY <2>1, <2>3, <2>4, <3>1, <3>2 DEF Own, Settling
  <2>5. CASE Settles(m)
    <3>1. m.type # "topic_message" /\ pending # 0 /\ pending' = 0
          /\ \E p : Moves(pending, p, m.op)
      BY <2>5 DEF Settles
    <3>2. Settling(replies[1])
      BY <2>2, <3>1 DEF Settling
    <3>3. m.op = pending /\ requests = <<>>
      BY <2>2, <3>2 DEF Own
    <3>4. pending \in 1..Len(ops)
      BY <1>0, <3>1
    <3>5. OwnRepliesAlways'
      BY <1>0, <3>1, <3>3, <3>4, AnswersKept
    <3>6. \A k \in DOMAIN replies' : ~Settling(replies'[k])
      <4> SUFFICES ASSUME NEW k \in DOMAIN replies', Settling(replies'[k]) PROVE FALSE
        OBVIOUS
      <4>1. k + 1 = 1
        BY <2>2, <3>2 DEF Own
      <4> QED
        BY <2>2, <4>1
    <3> QED
      BY <2>1, <3>3, <3>5, <3>6 DEF Own, Settling
  <2> QED
    BY <2>1, <2>4, <2>5
<1>7. CASE Drop \/ Restart
  <2>1. requests' = <<>> /\ replies' = <<>>
        /\ \/ ops' = ops
           \/ pending # 0 /\ Moves(pending, "rejected", pending)
    BY <1>0, <1>7, DropIs, DisconnectedIs
  <2>2. OwnRepliesAlways'
    BY <1>0, <2>1, AnswersKept
  <2> QED
    BY <2>1, <2>2 DEF Own
<1>8. ASSUME NEW c \in 1..MaxConnections, Resubscribe(c) PROVE Own'
  BY <1>0, <1>8, <1>a, ResubscribeIs, AnswersKept
<1>9. CASE Reconnect \/ BackendReturns \/ UNCHANGED vars
  <2>1. UNCHANGED <<ops, pending, requests, replies>>
    BY <1>9 DEF Reconnect, BackendReturns, vars
  <2> QED
    BY <1>0, <1>a, <2>1, AnswersKept
<1>10. CASE Serve
  <2> DEFINE i == Head(requests)
  <2>1. /\ requests # <<>> /\ requests' = Tail(requests) /\ i \in 1..Len(ops)
        /\ UNCHANGED <<ops, pending>>
        /\ \/ replies' = replies \o SubscribedAnswer(i)
           \/ \E type \in {"channel_ready", "gateway_error", "topic_unsubscribed"} :
                 replies' = Append(replies, Answer(i, type))
    BY <1>0, <1>10, ServeIs
  <2>2. i = requests[1] /\ 1 \in DOMAIN requests
    BY <1>0, <2>1
  <2>3. i = pending
    BY <2>2 DEF Own
  <2>4. requests' = <<>>
    <3>1. Len(requests) = 1
      <4> SUFFICES ASSUME Len(requests) # 1 PROVE FALSE
        OBVIOUS
      <4>1. Len(requests) \in Nat /\ Len(requests) > 0 /\ DOMAIN requests = 1..Len(requests)
        BY <1>0, <2>1
      <4>2. 2 \in DOMAIN requests
        BY <4>1
      <4> QED
        BY <2>2, <4>2 DEF Own
    <3> QED
      BY <1>0, <2>1, <3>1
  <2>5. \A k \in DOMAIN replies : ~Settling(replies[k])
    BY <2>1 DEF Own
  <2> HIDE DEF i
  <2>6. OwnRepliesAlways'
    BY <1>0, <2>1, AnswersKept
  <2>7. \A k \in DOMAIN replies' :
           Settling(replies'[k]) => k = Len(replies) + 1 /\ replies'[k].op = i
    <3>1. CASE replies' = replies \o SubscribedAnswer(i)
      <4>1. /\ SubscribedAnswer(i) \in Seq(Message) /\ Len(SubscribedAnswer(i)) = 2
            /\ SubscribedAnswer(i)[1].op = i
            /\ ~Settling(SubscribedAnswer(i)[2])
        BY <1>0, <2>1, AnswersAre DEF Settling
      <4>2. PICK s \in Seq(Message) : s = SubscribedAnswer(i)
        BY <4>1
      <4>3. /\ replies' = replies \o s /\ Len(s) = 2 /\ s[1].op = i /\ ~Settling(s[2])
        BY <3>1, <4>1, <4>2
      <4>4. /\ Len(replies) \in Nat /\ DOMAIN replies = 1..Len(replies)
            /\ DOMAIN replies' = 1..(Len(replies) + 2)
            /\ \A k \in DOMAIN replies : replies'[k] = replies[k]
            /\ replies'[Len(replies) + 1] = s[1] /\ replies'[Len(replies) + 2] = s[2]
        BY <1>0, <4>3, TwoMoreAre
      <4> SUFFICES ASSUME NEW k \in DOMAIN replies', Settling(replies'[k])
                   PROVE  k = Len(replies) + 1 /\ replies'[k].op = i
        OBVIOUS
      <4>5. k \in DOMAIN replies \/ k = Len(replies) + 1 \/ k = Len(replies) + 2
        BY <4>4
      <4> QED
        BY <2>5, <4>3, <4>4, <4>5
    <3>2. ASSUME NEW type \in {"channel_ready", "gateway_error", "topic_unsubscribed"},
                 replies' = Append(replies, Answer(i, type))
          PROVE  \A k \in DOMAIN replies' :
                    Settling(replies'[k]) => k = Len(replies) + 1 /\ replies'[k].op = i
      <4>1. Answer(i, type) \in Message /\ Answer(i, type).op = i
        BY <1>0, <2>1, AnswersAre
      <4>2. PICK e \in Message : e = Answer(i, type)
        BY <4>1
      <4>3. replies' = Append(replies, e) /\ e.op = i
        BY <3>2, <4>1, <4>2
      <4>4. /\ Len(replies) \in Nat /\ DOMAIN replies = 1..Len(replies)
            /\ DOMAIN replies' = 1..(Len(replies) + 1)
            /\ \A k \in DOMAIN replies : replies'[k] = replies[k]
            /\ replies'[Len(replies) + 1] = e
        BY <1>0, <4>3
      <4> SUFFICES ASSUME NEW k \in DOMAIN replies', Settling(replies'[k])
                   PROVE  k = Len(replies) + 1 /\ replies'[k].op = i
        OBVIOUS
      <4>5. k \in DOMAIN replies \/ k = Len(replies) + 1
        BY <4>4
      <4> QED
        BY <2>5, <4>3, <4>4, <4>5
    <3> QED
      BY <2>1, <3>1, <3>2
  <2>8. \A k \in DOMAIN replies' :
           Settling(replies'[k]) => replies'[k].op = pending' /\ requests' = <<>>
    BY <2>1, <2>3, <2>4, <2>7
  <2>9. \A j, k \in DOMAIN replies' :
           Settling(replies'[j]) /\ Settling(replies'[k]) => j = k
    BY <2>7
  <2> QED
    BY <2>4, <2>6, <2>8, <2>9 DEF Own, Settling
<1> QED
  BY <1>1, <1>2, <1>3, <1>4, <1>5, <1>6, <1>7, <1>8, <1>9, <1>10 DEF Next, Client

-----------------------------------------------------------------------------
(***************************************************************************)
(* Whoever left, left before.                                              *)
(***************************************************************************)
\* A topic is left before the calls and handlers that it has now joined it.
LeftBefore ==
    \A t \in Topics : \A i \in Joining(t) \cup handlers[t], k \in 1..Len(ops) :
        ops[k].kind = "unsubscribe" /\ ops[k].topic = t => k < i

\* An operation is added that is no unsubscribe, or one moves on.
NoLeaver ==
    /\ \/ ops' = ops
       \/ \E kind \in {"open", "subscribe"}, t \in Topics,
             by \in {"application", "recovery"} : Enqueues(kind, t, by)
       \/ \E i \in 1..Len(ops) : \E p, a :
             Moves(i, p, a) /\ ops[i].phase \in {"queued", "pending", "resolved"}
    /\ \A t \in Topics : handlers'[t] \subseteq handlers[t] \cup Joining(t)

LEMMA NoLeavers ==
  ASSUME Ordered, [Next]_vars, ~(\E t \in Topics, i \in Ids : Leave(t, i))
  PROVE  NoLeaver
<1>0. ControlTypeOK /\ OnePending
  BY DEF Ordered
<1>1. CASE Call
  BY <1>0, <1>1, CallIs DEF NoLeaver
<1>2. ASSUME NEW i \in 1..Len(ops), RunOp(i) PROVE NoLeaver
  <2>1. \/ Moves(i, "pending", ops[i].answer)
        \/ Moves(i, "rejected", ops[i].answer)
    BY <1>0, <1>2, RunOpIs
  <2>2. ops[i].phase = "queued" /\ handlers' = handlers
    BY <1>0, <1>2, RunOpIs
  <2> QED
    BY <2>1, <2>2 DEF NoLeaver
<1>3. ASSUME NEW i \in 1..Len(ops), Timeout(i) PROVE NoLeaver
  BY <1>0, <1>3, TimeoutIs DEF NoLeaver
<1>4. ASSUME NEW i \in 1..Len(ops), Register(i) PROVE NoLeaver
  <2>1. /\ ops[i].phase = "resolved" /\ Moves(i, "done", ops[i].answer)
        /\ handlers' = [handlers EXCEPT ![ops[i].topic] = @ \cup {i}]
    BY <1>0, <1>4, RegisterIs
  <2>2. ops[i].kind = "subscribe" /\ ops[i].by = "application"
    BY <2>1 DEF Ordered, ResolvedAre, Resuming
  <2>3. \A t \in Topics : handlers'[t] \subseteq handlers[t] \cup Joining(t)
    <3> SUFFICES ASSUME NEW t \in Topics PROVE handlers'[t] \subseteq handlers[t] \cup Joining(t)
      OBVIOUS
    <3>1. handlers \in [Topics -> SUBSET Ids]
      BY <1>0, HandlersTyped
    <3>2. t = ops[i].topic => i \in Joining(t)
      BY <2>1, <2>2 DEF Joining
    <3> QED
      BY <2>1, <3>1, <3>2
  <2> QED
    BY <2>1, <2>3 DEF NoLeaver
<1>5. CASE Deliver
  <2>1. handlers' = handlers /\ (Settles(Head(replies)) \/ UNCHANGED <<ops, pending>>)
    BY <1>0, <1>5, DeliverIs
  <2>2. CASE Settles(Head(replies))
    <3>1. pending \in 1..Len(ops) /\ ops[pending].phase = "pending"
      BY <1>0, <2>2, OpsTyped DEF Settles, OnePending
    <3> QED
      BY <2>1, <2>2, <3>1 DEF Settles, NoLeaver
  <2> QED
    BY <2>1, <2>2 DEF NoLeaver
<1>6. CASE Drop \/ Restart
  <2>1. /\ handlers' = handlers
        /\ \/ ops' = ops
           \/ pending # 0 /\ Moves(pending, "rejected", pending)
    BY <1>0, <1>6, DropIs, DisconnectedIs
  <2>2. pending # 0 => pending \in 1..Len(ops) /\ ops[pending].phase = "pending"
    BY <1>0, OpsTyped DEF OnePending
  <2> QED
    BY <2>1, <2>2 DEF NoLeaver
<1>7. ASSUME NEW c \in 1..MaxConnections, Resubscribe(c) PROVE NoLeaver
  BY <1>0, <1>7, ResubscribeIs DEF NoLeaver
<1>8. CASE Reconnect \/ Serve \/ BackendReturns \/ UNCHANGED vars
  BY <1>8 DEF Reconnect, Serve, BackendReturns, vars, NoLeaver
<1> QED
  BY <1>1, <1>2, <1>3, <1>4, <1>5, <1>6, <1>7, <1>8 DEF Next, Client

LEMMA LeftInductive ==
  ASSUME ~Overlap, Ordered, LeftBefore, [Next]_vars
  PROVE  LeftBefore'
<1>0. ControlTypeOK /\ Len(ops) \in Nat /\ handlers \in [Topics -> SUBSET Ids]
      /\ \A i \in 1..Len(ops) : i \in Nat
  BY OpsTyped, HandlersTyped DEF Ordered
<1> SUFFICES ASSUME NEW t \in Topics, NEW i \in Joining(t)' \cup handlers'[t],
                    NEW k \in 1..Len(ops'),
                    ops'[k].kind = "unsubscribe", ops'[k].topic = t
             PROVE  k < i
  BY DEF LeftBefore
<1>1. ASSUME NEW u \in Topics, NEW h \in Ids, Leave(u, h) PROVE k < i
  <2>1. /\ h \in handlers[u] /\ Joining(u) = {}
        /\ handlers' = [handlers EXCEPT ![u] = @ \ {h}]
        /\ \/ ops' = ops
           \/ handlers[u] = {h} /\ Enqueues("unsubscribe", u, "application")
    BY <1>0, <1>1, LeaveIs
  <2>2. handlers'[t] \subseteq handlers[t]
    BY <1>0, <2>1
  <2>3. CASE ops' = ops
    <3>1. Joining(t)' = Joining(t)
      BY <2>3 DEF Joining
    <3> QED
      BY <2>2, <2>3, <3>1 DEF LeftBefore
  <2>4. CASE handlers[u] = {h} /\ Enqueues("unsubscribe", u, "application")
    <3>1. /\ Len(ops') = Len(ops) + 1 /\ \A j \in 1..Len(ops) : ops'[j] = ops[j]
          /\ ops'[Len(ops) + 1].kind = "unsubscribe" /\ ops'[Len(ops) + 1].topic = u
      BY <2>4 DEF Enqueues
    <3>2. \A j \in 1..Len(ops') : j \in 1..Len(ops) \/ j = Len(ops) + 1
      BY <1>0, <3>1
    <3>3. Joining(t)' \subseteq Joining(t)
      BY <3>1, <3>2 DEF Joining
    <3>4. t # u
      <4> SUFFICES ASSUME t = u PROVE FALSE
        OBVIOUS
      <4>1. handlers'[t] = {} /\ Joining(t)' = {}
        BY <1>0, <2>1, <2>4, <3>3
      <4> QED
        BY <4>1
    <3>5. k \in 1..Len(ops) /\ ops'[k] = ops[k]
      BY <3>1, <3>2, <3>4
    <3> QED
      BY <2>2, <3>3, <3>5 DEF LeftBefore
  <2> QED
    BY <2>1, <2>3, <2>4
<1>2. CASE NoLeaver
  <2>1. /\ Len(ops') = Len(ops) \/ Len(ops') = Len(ops) + 1
        /\ k \in 1..Len(ops) /\ ops[k].kind = "unsubscribe" /\ ops[k].topic = t
        /\ i \in Joining(t) \cup handlers[t] \/ i = Len(ops) + 1
    <3>1. CASE ops' = ops
      <4>1. Joining(t)' = Joining(t)
        BY <3>1 DEF Joining
      <4> QED
        BY <1>2, <3>1, <4>1 DEF NoLeaver
    <3>2. ASSUME NEW kind \in {"open", "subscribe"}, NEW u \in Topics,
                 NEW by \in {"application", "recovery"}, Enqueues(kind, u, by)
          PROVE  /\ Len(ops') = Len(ops) \/ Len(ops') = Len(ops) + 1
                 /\ k \in 1..Len(ops) /\ ops[k].kind = "unsubscribe" /\ ops[k].topic = t
                 /\ i \in Joining(t) \cup handlers[t] \/ i = Len(ops) + 1
      <4>1. /\ Len(ops') = Len(ops) + 1 /\ \A j \in 1..Len(ops) : ops'[j] = ops[j]
            /\ ops'[Len(ops) + 1].kind = kind
        BY <3>2 DEF Enqueues
      <4>2. \A j \in 1..Len(ops') : j \in 1..Len(ops) \/ j = Len(ops) + 1
        BY <1>0, <4>1
      <4>3. k \in 1..Len(ops) /\ ops'[k] = ops[k]
        BY <4>1, <4>2
      <4>4. Joining(t)' \subseteq Joining(t) \cup {Len(ops) + 1}
        BY <4>1, <4>2 DEF Joining
      <4> QED
        BY <1>2, <4>1, <4>3, <4>4 DEF NoLeaver
    <3>3. ASSUME NEW m \in 1..Len(ops), NEW p, NEW a, Moves(m, p, a),
                 ops[m].phase \in {"queued", "pending", "resolved"}
          PROVE  /\ Len(ops') = Len(ops) \/ Len(ops') = Len(ops) + 1
                 /\ k \in 1..Len(ops) /\ ops[k].kind = "unsubscribe" /\ ops[k].topic = t
                 /\ i \in Joining(t) \cup handlers[t] \/ i = Len(ops) + 1
      <4>1. /\ Len(ops') = Len(ops)
            /\ \A j \in 1..Len(ops) :
                  /\ ops'[j].kind = ops[j].kind /\ ops'[j].topic = ops[j].topic
                  /\ ops'[j].by = ops[j].by
                  /\ j # m => ops'[j].phase = ops[j].phase
        BY <3>3 DEF Moves
      <4>2. Joining(t)' \subseteq Joining(t)
        BY <3>3, <4>1 DEF Joining
      <4> QED
        BY <1>2, <4>1, <4>2 DEF NoLeaver
    <3> QED
      BY <1>2, <3>1, <3>2, <3>3 DEF NoLeaver
  <2>2. CASE i = Len(ops) + 1
    BY <1>0, <2>1, <2>2
  <2>3. CASE i \in Joining(t) \cup handlers[t]
    BY <2>1, <2>3 DEF LeftBefore
  <2> QED
    BY <2>1, <2>2, <2>3
<1> QED
  BY <1>1, <1>2, NoLeavers

-----------------------------------------------------------------------------
(***************************************************************************)
(* The subscriptions.                                                      *)
(***************************************************************************)
For(kind, t, a) == ops[requests[a]].kind = kind /\ ops[requests[a]].topic = t

\* The gateway has a subscription of t once the requests under way are handled.
Covered(t) ==
    \/ t \in subscribed /\ \A a \in DOMAIN requests : ~For("unsubscribe", t, a)
    \/ \E a \in DOMAIN requests :
          /\ For("subscribe", t, a)
          /\ \A b \in DOMAIN requests : b > a => ~For("unsubscribe", t, b)

\* The recovery will ask for t, or an operation of opQueue will.
LoopDue(t) == loops[connection].active /\ t \notin loops[connection].visited

QueueDue(t) ==
    \E i \in 1..Len(ops) :
        ops[i].kind = "subscribe" /\ ops[i].topic = t /\ ops[i].phase = "queued"

\* The retained payload of t was asked for, or is on its way; a confirmation of
\* some subscription comes before it.
AskedFor(t) == \E a \in DOMAIN requests : For("subscribe", t, a)

Payload(t, b) == replies[b].type = "topic_message" /\ replies[b].topic = t

PayloadDue(t) == \E b \in DOMAIN replies : Payload(t, b)

ConfirmDue(t) ==
    \E a, b \in DOMAIN replies :
        a < b /\ replies[a].type = "topic_subscribed" /\ Payload(t, b)

Calls(t, phase) ==
    {i \in 1..Len(ops) : /\ ops[i].kind = "subscribe" /\ ops[i].by = "application"
                         /\ ops[i].topic = t /\ ops[i].phase = phase}

CallsServed(t) ==
    /\ Calls(t, "pending") \cup Calls(t, "resolved") # {} => Covered(t)
    /\ Calls(t, "pending") # {} => AskedFor(t) \/ ConfirmDue(t)
    /\ Calls(t, "resolved") # {} => AskedFor(t) \/ PayloadDue(t)

HandlersCovered(t) ==
    /\ handlers[t] # {} => Covered(t) \/ LoopDue(t) \/ QueueDue(t)
    /\ \/ handlers[t] \subseteq seen
       \/ LoopDue(t) \/ QueueDue(t) \/ AskedFor(t) \/ PayloadDue(t)

Served ==
    restarts = 0 =>
        /\ online
        /\ connected => \A t \in Topics : CallsServed(t) /\ HandlersCovered(t)

\* The operations that requests name stay what they are.
LEMMA OpsStay ==
  ASSUME Ordered, [Next]_vars
  PROVE  \A i \in 1..Len(ops) :
            /\ i \in 1..Len(ops')
            /\ ops'[i].kind = ops[i].kind /\ ops'[i].topic = ops[i].topic
            /\ ops'[i].by = ops[i].by
<1>0. Len(ops) \in Nat /\ QueueStep
  BY OpsTyped, QueueSteps DEF Ordered
<1>1. CASE ops' = ops
  BY <1>1
<1>2. CASE \E kind \in {"open", "subscribe", "unsubscribe"}, t \in Topics,
              by \in {"application", "recovery"} : Enqueues(kind, t, by)
  BY <1>0, <1>2 DEF Enqueues
<1>3. CASE \E i \in 1..Len(ops) : \E p, a : Moves(i, p, a)
  BY <1>3 DEF Moves
<1> QED
  BY <1>0, <1>1, <1>2, <1>3 DEF QueueStep

LEMMA ForStays ==
  ASSUME Ordered, [Next]_vars, UNCHANGED requests, NEW t \in Topics
  PROVE  /\ DOMAIN requests' = DOMAIN requests
         /\ \A kind : \A a \in DOMAIN requests : For(kind, t, a)' <=> For(kind, t, a)
         /\ AskedFor(t)' <=> AskedFor(t)
         /\ subscribed' = subscribed => (Covered(t)' <=> Covered(t))
<1>0. Asked
  BY DEF Ordered
<1>1. \A a \in DOMAIN requests : requests'[a] = requests[a] /\ requests[a] \in 1..Len(ops)
  BY <1>0 DEF Asked
<1>2. DOMAIN requests' = DOMAIN requests
  OBVIOUS
<1>3. \A kind : \A a \in DOMAIN requests : For(kind, t, a)' <=> For(kind, t, a)
  BY <1>1, OpsStay DEF For
<1>4. AskedFor(t)' <=> AskedFor(t)
  BY <1>2, <1>3 DEF AskedFor
<1>5. subscribed' = subscribed => (Covered(t)' <=> Covered(t))
  BY <1>2, <1>3 DEF Covered
<1> QED
  BY <1>2, <1>3, <1>4, <1>5

LEMMA PayloadStays ==
  ASSUME UNCHANGED replies, NEW t
  PROVE  (PayloadDue(t)' <=> PayloadDue(t)) /\ (ConfirmDue(t)' <=> ConfirmDue(t))
  BY DEF PayloadDue, ConfirmDue, Payload

\* A subscription is asked for, or something else that does not end it.
LEMMA AskingIs ==
  ASSUME Ordered, [Next]_vars, NEW i \in 1..Len(ops), requests' = Append(requests, i),
         UNCHANGED subscribed, NEW t \in Topics
  PROVE  /\ AskedFor(t) => AskedFor(t)'
         /\ Covered(t) /\ ~(ops[i].kind = "unsubscribe" /\ ops[i].topic = t) => Covered(t)'
         /\ ops[i].kind = "subscribe" /\ ops[i].topic = t => AskedFor(t)' /\ Covered(t)'
<1>0. /\ Asked /\ requests \in Seq(Ids) /\ i \in Ids
  BY OpsTyped, RepliesTyped DEF Ordered
<1> PICK n \in Nat : n = Len(requests)
  BY <1>0
<1>1. /\ DOMAIN requests = 1..n /\ DOMAIN requests' = 1..(n + 1)
      /\ requests'[n + 1] = i /\ \A a \in 1..n : requests'[a] = requests[a]
  BY <1>0
<1>2. \A kind : \A a \in 1..n : For(kind, t, a)' <=> For(kind, t, a)
  BY <1>0, <1>1, OpsStay, SMTT(30) DEF For, Asked
<1>3. \A kind : For(kind, t, n + 1)' <=> ops[i].kind = kind /\ ops[i].topic = t
  BY <1>1, OpsStay DEF For
<1>4. /\ \A a \in 1..n : a \in 1..(n + 1) /\ ~(a > n + 1)
      /\ n + 1 \in 1..(n + 1) /\ \A b \in 1..(n + 1) : b \in 1..n \/ b = n + 1
      /\ \A b \in 1..(n + 1) : ~(b > n + 1)
  BY <1>1
<1>5. AskedFor(t) => AskedFor(t)'
  BY <1>1, <1>2, <1>4 DEF AskedFor
<1>6. ASSUME ops[i].kind = "subscribe", ops[i].topic = t PROVE AskedFor(t)' /\ Covered(t)'
  BY <1>1, <1>3, <1>4, <1>6 DEF AskedFor, Covered
<1>7. ASSUME Covered(t), ~(ops[i].kind = "unsubscribe" /\ ops[i].topic = t)
      PROVE  Covered(t)'
  <2>1. ~For("unsubscribe", t, n + 1)'
    BY <1>3, <1>7
  <2>2. CASE t \in subscribed /\ \A a \in 1..n : ~For("unsubscribe", t, a)
    <3>1. \A a \in 1..(n + 1) : ~For("unsubscribe", t, a)'
      BY <1>2, <1>4, <2>1, <2>2
    <3> QED
      BY <1>1, <2>2, <3>1 DEF Covered
  <2>3. CASE \E a \in 1..n : /\ For("subscribe", t, a)
                             /\ \A b \in 1..n : b > a => ~For("unsubscribe", t, b)
    <3>1. PICK a \in 1..n : /\ For("subscribe", t, a)
                            /\ \A b \in 1..n : b > a => ~For("unsubscribe", t, b)
      BY <2>3
    <3>2. For("subscribe", t, a)' /\ a \in 1..(n + 1)
      BY <1>2, <1>4, <3>1
    <3>3. \A b \in 1..(n + 1) : b > a => ~For("unsubscribe", t, b)'
      BY <1>2, <1>4, <2>1, <3>1
    <3> QED
      BY <1>1, <3>2, <3>3 DEF Covered
  <2> QED
    BY <1>1, <1>7, <2>2, <2>3 DEF Covered
<1> QED
  BY <1>5, <1>6, <1>7

\* The gateway handles a request while the backend is there.
LEMMA ServingIs ==
  ASSUME Ordered, [Next]_vars, Serve, online, NEW t \in Topics
  PROVE  /\ Covered(t) => Covered(t)'
         /\ AskedFor(t) => AskedFor(t)' \/ (PayloadDue(t)' /\ ConfirmDue(t)')
         /\ PayloadDue(t) => PayloadDue(t)'
         /\ ConfirmDue(t) => ConfirmDue(t)'
<1>0. /\ ControlTypeOK /\ Asked /\ requests \in Seq(Ids) /\ replies \in Seq(Message)
  BY RepliesTyped DEF Ordered
<1> PICK i : i = Head(requests)
  OBVIOUS
<1>1. /\ requests # <<>> /\ requests' = Tail(requests) /\ i \in 1..Len(ops)
      /\ UNCHANGED <<ops, pending>>
      /\ \/ /\ ops[i].kind = "subscribe"
            /\ replies' = replies \o SubscribedAnswer(i)
            /\ subscribed' = subscribed \cup {ops[i].topic}
         \/ /\ ops[i].kind # "subscribe"
            /\ \E type \in {"channel_ready", "gateway_error", "topic_unsubscribed"} :
                  replies' = Append(replies, Answer(i, type))
            /\ \/ ops[i].kind # "unsubscribe" /\ UNCHANGED subscribed
               \/ ops[i].kind = "unsubscribe" /\ subscribed' = subscribed \ {ops[i].topic}
  BY <1>0, ServeIs
<1>2. /\ 1 \in DOMAIN requests /\ requests[1] = i
      /\ DOMAIN requests = 1..Len(requests) /\ Len(requests) \in Nat
      /\ DOMAIN requests' = 1..(Len(requests) - 1)
      /\ \A a \in DOMAIN requests' : requests'[a] = requests[a + 1]
  BY <1>0, <1>1
<1>3. /\ \A a \in DOMAIN requests' : a + 1 \in DOMAIN requests /\ a \in Nat
      /\ \A a \in DOMAIN requests : a > 1 => a - 1 \in DOMAIN requests' /\ (a - 1) + 1 = a
      /\ \A a \in DOMAIN requests : a = 1 \/ a > 1
  BY <1>2
<1>4. \A kind : \A a \in DOMAIN requests' : For(kind, t, a)' <=> For(kind, t, a + 1)
  BY <1>1, <1>2 DEF For
<1>5. \A kind : For(kind, t, 1) <=> ops[i].kind = kind /\ ops[i].topic = t
  BY <1>2 DEF For
<1>6. /\ replies' \in Seq(Message) /\ DOMAIN replies \subseteq DOMAIN replies'
      /\ \A b \in DOMAIN replies : replies'[b] = replies[b]
      /\ ops[i].kind = "subscribe" /\ ops[i].topic = t => PayloadDue(t)' /\ ConfirmDue(t)'
  <2>1. CASE replies' = replies \o SubscribedAnswer(i)
    <3>1. /\ SubscribedAnswer(i) \in Seq(Message) /\ Len(SubscribedAnswer(i)) = 2
          /\ SubscribedAnswer(i)[1].type = "topic_subscribed"
          /\ SubscribedAnswer(i)[2].type = "topic_message"
          /\ SubscribedAnswer(i)[2].topic = ops[i].topic
      BY <1>0, <1>1, AnswersAre
    <3> PICK s \in Seq(Message) : s = SubscribedAnswer(i)
      BY <3>1
    <3> PICK n \in Nat : n = Len(replies)
      BY <1>0
    <3>2. /\ Len(s) = 2 /\ s[1].type = "topic_subscribed" /\ s[2].type = "topic_message"
          /\ s[2].topic = ops[i].topic
      BY <3>1
    <3>3. /\ replies' \in Seq(Message) /\ DOMAIN replies = 1..n /\ DOMAIN replies' = 1..(n + 2)
          /\ \A b \in DOMAIN replies : replies'[b] = replies[b]
          /\ replies'[n + 1] = s[1] /\ replies'[n + 2] = s[2]
      BY <1>0, <2>1, <3>2, TwoMoreAre
    <3>4. /\ n + 1 \in DOMAIN replies' /\ n + 2 \in DOMAIN replies' /\ n + 1 < n + 2
          /\ DOMAIN replies \subseteq DOMAIN replies'
      BY <3>3
    <3>5. ASSUME ops[i].topic = t PROVE PayloadDue(t)' /\ ConfirmDue(t)'
      BY <3>2, <3>3, <3>4, <3>5 DEF PayloadDue, ConfirmDue, Payload
    <3> QED
      BY <3>3, <3>4, <3>5
  <2>2. ASSUME NEW type \in {"channel_ready", "gateway_error", "topic_unsubscribed"},
               replies' = Append(replies, Answer(i, type)), ops[i].kind # "subscribe"
        PROVE  /\ replies' \in Seq(Message) /\ DOMAIN replies \subseteq DOMAIN replies'
               /\ \A b \in DOMAIN replies : replies'[b] = replies[b]
    <3>1. Answer(i, type) \in Message
      BY <1>0, <1>1, AnswersAre
    <3> PICK e \in Message : e = Answer(i, type)
      BY <3>1
    <3>2. replies' = Append(replies, e)
      BY <2>2
    <3> QED
      BY <1>0, <3>2
  <2> QED
    BY <1>1, <2>1, <2>2
<1>7. PayloadDue(t) => PayloadDue(t)'
  BY <1>6 DEF PayloadDue, Payload
<1>8. ConfirmDue(t) => ConfirmDue(t)'
  BY <1>6 DEF ConfirmDue, Payload
<1>9. ASSUME AskedFor(t) PROVE AskedFor(t)' \/ (PayloadDue(t)' /\ ConfirmDue(t)')
  <2> PICK a \in DOMAIN requests : For("subscribe", t, a)
    BY <1>9 DEF AskedFor
  <2>1. CASE a = 1
    BY <1>5, <1>6, <2>1
  <2>2. CASE a > 1
    <3>1. a - 1 \in DOMAIN requests' /\ For("subscribe", t, (a - 1) + 1)
      BY <1>3, <2>2
    <3>2. For("subscribe", t, a - 1)'
      BY <1>4, <3>1
    <3> QED
      BY <3>1, <3>2 DEF AskedFor
  <2> QED
    BY <1>3, <2>1, <2>2
<1>10. ASSUME t \in subscribed \cup (IF ops[i].kind = "subscribe" THEN {ops[i].topic} ELSE {}),
              ~(ops[i].kind = "unsubscribe" /\ ops[i].topic = t)
       PROVE  t \in subscribed'
  BY <1>1, <1>10
<1>11. ASSUME Covered(t) PROVE Covered(t)'
  <2>1. CASE t \in subscribed /\ \A a \in DOMAIN requests : ~For("unsubscribe", t, a)
    <3>1. ~(ops[i].kind = "unsubscribe" /\ ops[i].topic = t)
      BY <1>2, <1>5, <2>1
    <3>2. t \in subscribed'
      BY <1>10, <2>1, <3>1
    <3>3. \A a \in DOMAIN requests' : ~For("unsubscribe", t, a)'
      BY <1>3, <1>4, <2>1
    <3> QED
      BY <3>2, <3>3 DEF Covered
  <2>2. ASSUME NEW a \in DOMAIN requests, For("subscribe", t, a),
               \A b \in DOMAIN requests : b > a => ~For("unsubscribe", t, b)
        PROVE  Covered(t)'
    <3>1. CASE a = 1
      <4>1. ops[i].kind = "subscribe" /\ ops[i].topic = t
        BY <1>5, <2>2, <3>1
      <4>2. t \in subscribed'
        BY <1>1, <4>1
      <4>3. \A b \in DOMAIN requests' : ~For("unsubscribe", t, b)'
        <5> SUFFICES ASSUME NEW b \in DOMAIN requests' PROVE ~For("unsubscribe", t, b)'
          OBVIOUS
        <5>1. b + 1 > 1 /\ b + 1 \in DOMAIN requests
          BY <1>2, <1>3
        <5> QED
          BY <1>4, <2>2, <3>1, <5>1
      <4> QED
        BY <4>2, <4>3 DEF Covered
    <3>2. CASE a > 1
      <4> PICK d : d = a - 1
        OBVIOUS
      <4>1. d \in DOMAIN requests' /\ d + 1 = a
        BY <1>3, <3>2
      <4>2. For("subscribe", t, d)'
        BY <1>4, <2>2, <4>1
      <4>3. \A b \in DOMAIN requests' : b > d => ~For("unsubscribe", t, b)'
        <5> SUFFICES ASSUME NEW b \in DOMAIN requests', b > d
                     PROVE  ~For("unsubscribe", t, b)'
          OBVIOUS
        <5>1. b + 1 > a /\ b + 1 \in DOMAIN requests
          BY <1>2, <1>3, <4>1
        <5> QED
          BY <1>4, <2>2, <5>1
      <4> QED
        BY <4>1, <4>2, <4>3 DEF Covered
    <3> QED
      BY <1>3, <3>1, <3>2
  <2> QED
    BY <1>11, <2>1, <2>2 DEF Covered
<1> QED
  BY <1>7, <1>8, <1>9, <1>11

\* A reply arrives: what comes after it is still to come.
LEMMA ArrivalIs ==
  ASSUME ControlTypeOK, replies # <<>>, replies' = Tail(replies), NEW t \in Topics
  PROVE  /\ PayloadDue(t) => \/ PayloadDue(t)'
                             \/ Head(replies).type = "topic_message" /\ Head(replies).topic = t
         /\ ConfirmDue(t) => PayloadDue(t)'
         /\ ConfirmDue(t) => ConfirmDue(t)' \/ Head(replies).type = "topic_subscribed"
<1>0. replies \in Seq(Message)
  BY RepliesTyped
<1>1. /\ 1 \in DOMAIN replies /\ Head(replies) = replies[1]
      /\ DOMAIN replies = 1..Len(replies) /\ Len(replies) \in Nat
      /\ DOMAIN replies' = 1..(Len(replies) - 1)
      /\ \A a \in DOMAIN replies' : replies'[a] = replies[a + 1]
  BY <1>0
<1>2. \A a \in DOMAIN replies : a = 1 \/ (a > 1 /\ a - 1 \in DOMAIN replies'
                                          /\ replies'[a - 1] = replies[a])
  <2> SUFFICES ASSUME NEW a \in DOMAIN replies, a # 1
               PROVE  a > 1 /\ a - 1 \in DOMAIN replies' /\ replies'[a - 1] = replies[a]
    OBVIOUS
  <2>1. a > 1 /\ a - 1 \in DOMAIN replies' /\ (a - 1) + 1 = a
    BY <1>1
  <2> QED
    BY <1>1, <2>1
<1>3. PayloadDue(t) => \/ PayloadDue(t)'
                       \/ Head(replies).type = "topic_message" /\ Head(replies).topic = t
  <2> SUFFICES ASSUME NEW b \in DOMAIN replies, Payload(t, b), b # 1
               PROVE  PayloadDue(t)'
    BY <1>1 DEF PayloadDue, Payload
  <2> PICK d : d = b - 1
    OBVIOUS
  <2>1. d \in DOMAIN replies' /\ Payload(t, d)'
    BY <1>2 DEF Payload
  <2> QED
    BY <2>1 DEF PayloadDue
<1>4. ASSUME NEW a \in DOMAIN replies, NEW b \in DOMAIN replies, a < b,
             replies[a].type = "topic_subscribed", Payload(t, b)
      PROVE  PayloadDue(t)' /\ (ConfirmDue(t)' \/ Head(replies).type = "topic_subscribed")
  <2> PICK c, d : c = a - 1 /\ d = b - 1
    OBVIOUS
  <2>1. b # 1
    BY <1>1, <1>4
  <2>2. d \in DOMAIN replies' /\ Payload(t, d)'
    BY <1>2, <1>4, <2>1 DEF Payload
  <2>3. PayloadDue(t)'
    BY <2>2 DEF PayloadDue
  <2>4. CASE a = 1
    BY <1>1, <1>4, <2>3, <2>4
  <2>5. CASE a # 1
    <3>1. c \in DOMAIN replies' /\ replies'[c].type = "topic_subscribed"
      BY <1>2, <1>4, <2>5
    <3>2. c < d
      BY <1>1, <1>4
    <3> QED
      BY <2>2, <2>3, <3>1, <3>2 DEF ConfirmDue
  <2> QED
    BY <2>4, <2>5
<1> QED
  BY <1>3, <1>4 DEF ConfirmDue

\* Calls that wait, and operations that are queued, when opQueue changes.
LEMMA CallsAdded ==
  ASSUME ControlTypeOK, NEW t,
         ops' = ops \/ \E kind, u, by : Enqueues(kind, u, by)
  PROVE  /\ Calls(t, "pending")' \subseteq Calls(t, "pending")
         /\ Calls(t, "resolved")' \subseteq Calls(t, "resolved")
         /\ QueueDue(t) => QueueDue(t)'
<1>0. Len(ops) \in Nat
  BY OpsTyped
<1>1. CASE ops' = ops
  BY <1>1 DEF Calls, QueueDue
<1>2. ASSUME NEW kind, NEW u, NEW by, Enqueues(kind, u, by)
      PROVE  /\ Calls(t, "pending")' \subseteq Calls(t, "pending")
             /\ Calls(t, "resolved")' \subseteq Calls(t, "resolved")
             /\ QueueDue(t) => QueueDue(t)'
  <2>1. /\ Len(ops') = Len(ops) + 1 /\ \A j \in 1..Len(ops) : ops'[j] = ops[j]
        /\ ops'[Len(ops) + 1].phase = "queued"
    BY <1>2 DEF Enqueues
  <2>2. /\ \A j \in 1..Len(ops') : j \in 1..Len(ops) \/ j = Len(ops) + 1
        /\ \A j \in 1..Len(ops) : j \in 1..Len(ops')
    BY <1>0, <2>1
  <2>3. QueueDue(t) => QueueDue(t)'
    BY <2>1, <2>2 DEF QueueDue
  <2>4. /\ Calls(t, "pending")' \subseteq Calls(t, "pending")
        /\ Calls(t, "resolved")' \subseteq Calls(t, "resolved")
    BY <2>1, <2>2 DEF Calls
  <2> QED
    BY <2>3, <2>4
<1> QED
  BY <1>1, <1>2

LEMMA CallsMoved ==
  ASSUME ControlTypeOK, NEW t, NEW i \in 1..Len(ops), NEW p, NEW a, Moves(i, p, a)
  PROVE  /\ Calls(t, "pending")' \subseteq Calls(t, "pending") \cup {i}
         /\ Calls(t, "resolved")' \subseteq Calls(t, "resolved") \cup {i}
         /\ i \in Calls(t, "pending")' =>
               p = "pending" /\ ops[i].kind = "subscribe" /\ ops[i].topic = t
         /\ i \in Calls(t, "resolved")' => p = "resolved"
         /\ QueueDue(t) =>
               \/ QueueDue(t)'
               \/ ops[i].kind = "subscribe" /\ ops[i].topic = t /\ ops[i].phase = "queued"
<1>1. /\ Len(ops') = Len(ops)
      /\ \A j \in 1..Len(ops) :
            /\ ops'[j].kind = ops[j].kind /\ ops'[j].topic = ops[j].topic
            /\ ops'[j].by = ops[j].by
            /\ ops'[j].phase = (IF j = i THEN p ELSE ops[j].phase)
  BY DEF Moves
<1>2. /\ Calls(t, "pending")' \subseteq Calls(t, "pending") \cup {i}
      /\ Calls(t, "resolved")' \subseteq Calls(t, "resolved") \cup {i}
  BY <1>1 DEF Calls
<1>3. /\ i \in Calls(t, "pending")' =>
            p = "pending" /\ ops[i].kind = "subscribe" /\ ops[i].topic = t
      /\ i \in Calls(t, "resolved")' => p = "resolved"
  BY <1>1 DEF Calls
<1>4. QueueDue(t) =>
         \/ QueueDue(t)'
         \/ ops[i].kind = "subscribe" /\ ops[i].topic = t /\ ops[i].phase = "queued"
  BY <1>1 DEF QueueDue
<1> QED
  BY <1>2, <1>3, <1>4

\* A step that takes nothing away from a topic.
LEMMA ServedKept ==
  ASSUME NEW t, CallsServed(t), HandlersCovered(t),
         Covered(t) => Covered(t)',
         AskedFor(t) => AskedFor(t)' \/ (PayloadDue(t)' /\ ConfirmDue(t)'),
         PayloadDue(t) => PayloadDue(t)',
         ConfirmDue(t) => ConfirmDue(t)',
         Calls(t, "pending")' \subseteq Calls(t, "pending"),
         Calls(t, "resolved")' \subseteq Calls(t, "resolved"),
         handlers'[t] \subseteq handlers[t], seen \subseteq seen',
         handlers'[t] # {} /\ LoopDue(t) => LoopDue(t)' \/ QueueDue(t)',
         QueueDue(t) => QueueDue(t)'
  PROVE  CallsServed(t)' /\ HandlersCovered(t)'
<1>1. CallsServed(t)'
  BY DEF CallsServed
<1>2. HandlersCovered(t)'
  <2>1. CASE handlers'[t] = {}
    BY <2>1 DEF HandlersCovered
  <2>2. CASE handlers'[t] # {}
    <3>1. handlers[t] # {} /\ (LoopDue(t) => LoopDue(t)' \/ QueueDue(t)')
      BY <2>2
    <3>2. Covered(t)' \/ LoopDue(t)' \/ QueueDue(t)'
      BY <3>1 DEF HandlersCovered
    <3>3. \/ handlers'[t] \subseteq seen'
          \/ LoopDue(t)' \/ QueueDue(t)' \/ AskedFor(t)' \/ PayloadDue(t)'
      <4>1. CASE handlers[t] \subseteq seen
        BY <4>1
      <4>2. CASE LoopDue(t) \/ QueueDue(t) \/ AskedFor(t) \/ PayloadDue(t)
        BY <3>1, <4>2
      <4> QED
        BY <4>1, <4>2 DEF HandlersCovered
    <3> QED
      BY <3>2, <3>3 DEF HandlersCovered
  <2> QED
    BY <2>1, <2>2
<1> QED
  BY <1>1, <1>2

LEMMA ServedInductive ==
  ASSUME ~Overlap, ~SameTick, Ordered, LeftBefore, Served, [Next]_vars
  PROVE  Served'
<1>0. /\ ControlTypeOK /\ OnePending /\ InOrder /\ Offline /\ Asked /\ HandlersAre
      /\ Len(ops) \in Nat /\ pending \in 0..Len(ops)
      /\ handlers \in [Topics -> SUBSET Ids] /\ restarts \in Nat
      /\ \A i \in 1..Len(ops) : ops[i].topic \in Topics
  BY OpsTyped, HandlersTyped DEF Ordered
<1>a. ASSUME restarts = 0 PROVE online
  BY <1>a DEF Served
<1>b. ASSUME restarts = 0, connected, NEW t \in Topics
      PROVE  CallsServed(t) /\ HandlersCovered(t)
  BY <1>b DEF Served
<1>1. CASE Call
  <2>1. UNCHANGED <<handlers, loops, connection, connected, requests, replies,
                    subscribed, online, seen, restarts>>
        /\ \E kind, u, by : Enqueues(kind, u, by)
    BY <1>0, <1>1, CallIs
  <2>2. SUFFICES ASSUME restarts = 0, connected, NEW t \in Topics
                 PROVE  CallsServed(t)' /\ HandlersCovered(t)'
    BY <1>a, <2>1 DEF Served
  <2>3. LoopDue(t)' <=> LoopDue(t)
    BY <2>1 DEF LoopDue
  <2> QED
    BY <1>0, <1>b, <2>1, <2>2, <2>3, CallsAdded, ForStays, PayloadStays, ServedKept
<1>2. ASSUME NEW u \in Topics, NEW i \in Ids, Leave(u, i) PROVE Served'
  <2>1. /\ UNCHANGED <<connection, connected, requests, replies,
                       subscribed, online, seen, restarts>>
        /\ handlers' = [handlers EXCEPT ![u] = @ \ {i}]
        /\ \/ UNCHANGED <<ops, loops>>
           \/ /\ handlers[u] = {i} /\ Enqueues("unsubscribe", u, "application")
              /\ loops' = [c \in DOMAIN loops |-> [loops[c] EXCEPT !.visited = @ \ {u}]]
    BY <1>0, <1>2, LeaveIs
  <2>2. SUFFICES ASSUME restarts = 0, connected, NEW t \in Topics
                 PROVE  CallsServed(t)' /\ HandlersCovered(t)'
    BY <1>a, <2>1 DEF Served
  <2>3. handlers'[t] \subseteq handlers[t]
    BY <1>0, <2>1
  <2>4. handlers'[t] # {} /\ LoopDue(t) => LoopDue(t)'
    <3>1. CASE UNCHANGED <<ops, loops>>
      BY <2>1, <3>1 DEF LoopDue
    <3>2. CASE /\ handlers[u] = {i}
               /\ loops' = [c \in DOMAIN loops |-> [loops[c] EXCEPT !.visited = @ \ {u}]]
      <4>1. handlers'[u] = {}
        BY <1>0, <2>1, <3>2
      <4>2. connection \in DOMAIN loops
            /\ loops \in [1..MaxConnections ->
                            [active : BOOLEAN, visited : SUBSET Topics, op : 0..MaxOps]]
        BY <1>0, HandlersTyped
      <4>3. loops'[connection] = [loops[connection] EXCEPT !.visited = @ \ {u}]
        BY <3>2, <4>2
      <4>4. loops[connection] \in [active : BOOLEAN, visited : SUBSET Topics, op : 0..MaxOps]
        BY <4>2
      <4>5. /\ loops'[connection].active = loops[connection].active
            /\ loops'[connection].visited = loops[connection].visited \ {u}
        BY <4>3, <4>4
      <4>6. t # u => (LoopDue(t)' <=> LoopDue(t))
        BY <2>1, <4>5 DEF LoopDue
      <4> QED
        BY <4>1, <4>6
    <3> QED
      BY <2>1, <3>1, <3>2
  <2>5. ops' = ops \/ \E kind, v, by : Enqueues(kind, v, by)
    BY <2>1
  <2> QED
    BY <1>0, <1>b, <2>1, <2>2, <2>3, <2>4, <2>5, CallsAdded, ForStays, PayloadStays, ServedKept
<1>3. ASSUME NEW i \in 1..Len(ops), RunOp(i) PROVE Served'
  <2>1. /\ UNCHANGED <<handlers, loops, connection, connected, replies,
                       subscribed, online, seen, restarts>>
        /\ ops[i].phase = "queued" /\ (\A j \in 1..(i - 1) : Settled(j))
        /\ connected => /\ Moves(i, "pending", ops[i].answer)
                        /\ requests' = Append(requests, i)
    BY <1>0, <1>3, RunOpIs
  <2>2. SUFFICES ASSUME restarts = 0, connected, NEW t \in Topics
                 PROVE  CallsServed(t)' /\ HandlersCovered(t)'
    BY <1>a, <2>1 DEF Served
  <2>3. /\ AskedFor(t) => AskedFor(t)'
        /\ Covered(t) /\ ~(ops[i].kind = "unsubscribe" /\ ops[i].topic = t) => Covered(t)'
        /\ ops[i].kind = "subscribe" /\ ops[i].topic = t => AskedFor(t)' /\ Covered(t)'
    BY <2>1, <2>2, AskingIs
  <2>4. pending = 0
    BY <2>1, NonePending
  <2>5. /\ Calls(t, "pending")' \subseteq {i} /\ Calls(t, "resolved")' \subseteq Calls(t, "resolved")
        /\ i \in Calls(t, "pending")' => ops[i].kind = "subscribe" /\ ops[i].topic = t
        /\ QueueDue(t) => QueueDue(t)' \/ (ops[i].kind = "subscribe" /\ ops[i].topic = t)
    <3>1. Calls(t, "pending") = {}
      BY <1>0, <2>4 DEF Calls, OnePending
    <3>2. /\ Calls(t, "pending")' \subseteq Calls(t, "pending") \cup {i}
          /\ Calls(t, "resolved")' \subseteq Calls(t, "resolved")
          /\ i \in Calls(t, "pending")' => ops[i].kind = "subscribe" /\ ops[i].topic = t
          /\ QueueDue(t) => QueueDue(t)' \/ (ops[i].kind = "subscribe" /\ ops[i].topic = t)
      <4>1. Moves(i, "pending", ops[i].answer)
        BY <2>1, <2>2
      <4>2. /\ Calls(t, "pending")' \subseteq Calls(t, "pending") \cup {i}
            /\ Calls(t, "resolved")' \subseteq Calls(t, "resolved") \cup {i}
            /\ i \in Calls(t, "pending")' => ops[i].kind = "subscribe" /\ ops[i].topic = t
        BY <1>0, <4>1, CallsMoved
      <4>3. i \in Calls(t, "resolved")' => "pending" = "resolved"
        BY <1>0, <4>1, CallsMoved
      <4>4. QueueDue(t) => QueueDue(t)' \/ (ops[i].kind = "subscribe" /\ ops[i].topic = t)
        <5> SUFFICES ASSUME NEW j \in 1..Len(ops), ops[j].kind = "subscribe", ops[j].topic = t,
                            ops[j].phase = "queued", j # i
                     PROVE  QueueDue(t)'
          BY DEF QueueDue
        <5>1. /\ Len(ops') = Len(ops) /\ ops'[j].phase = ops[j].phase
              /\ ops'[j].kind = ops[j].kind /\ ops'[j].topic = ops[j].topic
          BY <4>1 DEF Moves
        <5> QED
          BY <5>1 DEF QueueDue
      <4> QED
        BY <4>2, <4>3, <4>4
    <3> QED
      BY <3>1, <3>2
  <2>6. (PayloadDue(t)' <=> PayloadDue(t)) /\ (ConfirmDue(t)' <=> ConfirmDue(t))
        /\ (LoopDue(t)' <=> LoopDue(t)) /\ handlers'[t] = handlers[t] /\ seen' = seen
    BY <2>1, PayloadStays DEF LoopDue
  <2>7. CASE ops[i].kind = "subscribe" /\ ops[i].topic = t
    BY <2>3, <2>7, <2>5, <2>6, <1>b, <2>2 DEF CallsServed, HandlersCovered
  <2>8. CASE ops[i].kind = "unsubscribe" /\ ops[i].topic = t
    <3>1. Joining(t) \cup handlers[t] \subseteq {j \in 1..Len(ops) : i < j}
      BY <1>0, <2>8 DEF LeftBefore, HandlersAre, Joining
    <3>2. \A j \in 1..Len(ops) : i < j => ops[j].phase = "queued"
      <4> SUFFICES ASSUME NEW j \in 1..Len(ops), i < j, ops[j].phase # "queued" PROVE FALSE
        OBVIOUS
      <4>1. Settled(i)
        BY <1>0 DEF InOrder
      <4> QED
        BY <2>1, <4>1 DEF Settled
    <3>3. handlers[t] = {}
      BY <1>0, <3>1, <3>2 DEF HandlersAre
    <3>4. Calls(t, "resolved") = {}
      BY <3>1, <3>2 DEF Calls, Joining
    <3>5. Calls(t, "pending")' = {} /\ Calls(t, "resolved")' = {}
      BY <2>5, <2>8, <3>4
    <3> QED
      BY <2>6, <3>3, <3>5 DEF CallsServed, HandlersCovered
  <2>9. CASE ops[i].topic # t \/ ops[i].kind \notin {"subscribe", "unsubscribe"}
    <3>1. Calls(t, "pending")' = {} /\ (QueueDue(t) => QueueDue(t)')
          /\ (Covered(t) => Covered(t)')
      BY <2>3, <2>5, <2>9
    <3> QED
      BY <1>b, <2>2, <2>3, <2>5, <2>6, <3>1, ServedKept
  <2> QED
    BY <2>7, <2>8, <2>9
<1>4. ASSUME NEW i \in 1..Len(ops), Timeout(i) PROVE Served'
  <2>1. /\ UNCHANGED <<handlers, loops, connection, connected, requests, replies,
                       subscribed, online, seen, restarts>>
        /\ ops[i].phase = "pending" /\ Moves(i, "rejected", ops[i].answer)
    BY <1>0, <1>4, TimeoutIs
  <2>2. SUFFICES ASSUME restarts = 0, connected, NEW t \in Topics
                 PROVE  CallsServed(t)' /\ HandlersCovered(t)'
    BY <1>a, <2>1 DEF Served
  <2>3. /\ Calls(t, "pending")' \subseteq Calls(t, "pending")
        /\ Calls(t, "resolved")' \subseteq Calls(t, "resolved")
        /\ QueueDue(t) => QueueDue(t)'
    <3>1. /\ Calls(t, "pending")' \subseteq Calls(t, "pending") \cup {i}
          /\ Calls(t, "resolved")' \subseteq Calls(t, "resolved") \cup {i}
          /\ i \notin Calls(t, "pending")' /\ i \notin Calls(t, "resolved")'
      BY <1>0, <2>1, CallsMoved
    <3>2. QueueDue(t) => QueueDue(t)'
      BY <1>0, <2>1, CallsMoved, ZenonT(40)
    <3> QED
      BY <3>1, <3>2
  <2>4. LoopDue(t)' <=> LoopDue(t)
    BY <2>1 DEF LoopDue
  <2> QED
    BY <1>b, <2>1, <2>2, <2>3, <2>4, ForStays, PayloadStays, ServedKept
<1>5. ASSUME NEW i \in 1..Len(ops), Register(i) PROVE Served'
  <2>1. /\ UNCHANGED <<loops, connection, connected, requests, replies,
                       subscribed, online, seen, restarts>>
        /\ handlers' = [handlers EXCEPT ![ops[i].topic] = @ \cup {i}]
        /\ ops[i].phase = "resolved" /\ Moves(i, "done", ops[i].answer)
    BY <1>0, <1>5, RegisterIs
  <2>2. SUFFICES ASSUME restarts = 0, connected, NEW t \in Topics
                 PROVE  CallsServed(t)' /\ HandlersCovered(t)'
    BY <1>a, <2>1 DEF Served
  <2>3. /\ Calls(t, "pending")' \subseteq Calls(t, "pending")
        /\ Calls(t, "resolved")' \subseteq Calls(t, "resolved")
        /\ QueueDue(t) => QueueDue(t)'
    <3>1. /\ Calls(t, "pending")' \subseteq Calls(t, "pending") \cup {i}
          /\ Calls(t, "resolved")' \subseteq Calls(t, "resolved") \cup {i}
          /\ i \notin Calls(t, "pending")' /\ i \notin Calls(t, "resolved")'
      BY <1>0, <2>1, CallsMoved
    <3>2. QueueDue(t) => QueueDue(t)'
      BY <1>0, <2>1, CallsMoved, ZenonT(40)
    <3> QED
      BY <3>1, <3>2
  <2>4. LoopDue(t)' <=> LoopDue(t)
    BY <2>1 DEF LoopDue
  <2>5. CASE t # ops[i].topic
    <3>1. handlers'[t] = handlers[t]
      BY <1>0, <2>1, <2>5
    <3> QED
      BY <1>b, <2>1, <2>2, <2>3, <2>4, <3>1, ForStays, PayloadStays, ServedKept
  <2>6. CASE t = ops[i].topic
    <3>1. i \in Calls(t, "resolved")
      BY <2>1, <2>6 DEF Calls, Ordered, ResolvedAre, Resuming
    <3>2. Covered(t) /\ (AskedFor(t) \/ PayloadDue(t))
      BY <1>b, <2>2, <3>1 DEF CallsServed
    <3>3. Covered(t)' /\ (AskedFor(t)' \/ PayloadDue(t)')
      BY <2>1, <3>2, ForStays, PayloadStays
    <3>4. /\ AskedFor(t) => AskedFor(t)'
          /\ ConfirmDue(t) => ConfirmDue(t)'
      BY <2>1, ForStays, PayloadStays
    <3>5. CallsServed(t)'
      BY <1>b, <2>2, <2>3, <3>3, <3>4 DEF CallsServed
    <3>6. HandlersCovered(t)'
      BY <3>3 DEF HandlersCovered
    <3> QED
      BY <3>5, <3>6
  <2> QED
    BY <2>5, <2>6
<1>6. CASE Deliver
  <2> PICK m : m = Head(replies)
    OBVIOUS
  <2>1. /\ UNCHANGED <<handlers, loops, connection, connected, requests,
                       subscribed, online, restarts>>
        /\ replies # <<>> /\ replies' = Tail(replies) /\ Resuming = {}
        /\ Settles(m) \/ (Passes(m) /\ UNCHANGED <<ops, pending>>)
    BY <1>0, <1>6, DeliverIs
  <2>2. SUFFICES ASSUME restarts = 0, connected, NEW t \in Topics
                 PROVE  CallsServed(t)' /\ HandlersCovered(t)'
    BY <1>a, <2>1 DEF Served
  <2>3. /\ LoopDue(t)' <=> LoopDue(t)
        /\ AskedFor(t)' <=> AskedFor(t)
        /\ Covered(t)' <=> Covered(t)
    BY <2>1, ForStays DEF LoopDue
  <2>4. /\ PayloadDue(t) => PayloadDue(t)' \/ (m.type = "topic_message" /\ m.topic = t)
        /\ ConfirmDue(t) => PayloadDue(t)'
        /\ ConfirmDue(t) => ConfirmDue(t)' \/ m.type = "topic_subscribed"
    BY <1>0, <2>1, ArrivalIs
  <2>5. Calls(t, "resolved") = {}
    BY <2>1 DEF Calls, Resuming
  <2>6. CASE Settles(m)
    <3>1. /\ m.type # "topic_message" /\ seen' = seen /\ pending # 0
    BY <2>6 DEF Settles
    <3> PICK p \in {"resolved", "done", "rejected"} : Moves(pending, p, m.op)
      BY <2>6 DEF Settles
    <3>2. pending \in 1..Len(ops) /\ ops[pending].phase = "pending"
      BY <1>0, <3>1 DEF OnePending
    <3>3. /\ Calls(t, "pending")' \subseteq Calls(t, "pending")
          /\ Calls(t, "resolved")' \subseteq {pending}
          /\ QueueDue(t) => QueueDue(t)'
      <4>1. /\ Calls(t, "pending")' \subseteq Calls(t, "pending") \cup {pending}
            /\ Calls(t, "resolved")' \subseteq Calls(t, "resolved") \cup {pending}
            /\ pending \notin Calls(t, "pending")'
        BY <1>0, <3>2, CallsMoved
      <4>2. QueueDue(t) => QueueDue(t)'
        BY <1>0, <3>2, CallsMoved, ZenonT(40)
      <4> QED
        BY <2>5, <4>1, <4>2
    <3>4. Calls(t, "pending")' = {}
      <4>1. Calls(t, "pending") \subseteq {pending}
        BY <1>0 DEF Calls, OnePending
      <4>2. pending \notin Calls(t, "pending")'
        BY <3>2 DEF Calls, Moves
      <4> QED
        BY <3>3, <4>1, <4>2
    <3>5. Calls(t, "resolved")' # {} => Covered(t)' /\ (AskedFor(t)' \/ PayloadDue(t)')
      <4> SUFFICES ASSUME Calls(t, "resolved")' # {}
                   PROVE  Covered(t)' /\ (AskedFor(t)' \/ PayloadDue(t)')
        OBVIOUS
      <4>1. pending \in Calls(t, "resolved")'
        BY <3>3
      <4>2. pending \in Calls(t, "pending")
        BY <3>2, <4>1 DEF Calls, Moves
      <4>3. Covered(t) /\ (AskedFor(t) \/ ConfirmDue(t))
        BY <1>b, <2>2, <4>2 DEF CallsServed
      <4> QED
        BY <2>3, <2>4, <4>3
    <3>6. PayloadDue(t) => PayloadDue(t)'
      BY <2>4, <3>1
    <3> QED
      BY <1>b, <2>1, <2>2, <2>3, <3>1, <3>3, <3>4, <3>5, <3>6 DEF CallsServed, HandlersCovered
  <2>7. CASE Passes(m) /\ UNCHANGED <<ops, pending>>
    <3>1. /\ Calls(t, "pending")' = Calls(t, "pending")
          /\ Calls(t, "resolved")' = {}
          /\ QueueDue(t)' <=> QueueDue(t)
      BY <2>5, <2>7 DEF Calls, QueueDue
    <3>2. Calls(t, "pending") # {} => m.type # "topic_subscribed"
      <4> SUFFICES ASSUME NEW i \in Calls(t, "pending") PROVE m.type # "topic_subscribed"
        OBVIOUS
      <4>1. i = pending /\ i \in 1..Len(ops) /\ ops[i].kind = "subscribe"
        BY <1>0 DEF Calls, OnePending
      <4>2. pending # 0
        BY <1>0, <4>1
      <4> QED
        BY <2>7, <4>1, <4>2 DEF Passes
    <3>3. CallsServed(t)'
      BY <1>b, <2>2, <2>3, <2>4, <3>1, <3>2 DEF CallsServed
    <3>4. HandlersCovered(t)'
      <4>1. CASE m.type = "topic_message" /\ m.topic = t
        <5>1. seen' = seen \cup handlers[t]
          BY <2>7, <4>1 DEF Passes
        <5> QED
          BY <1>b, <2>1, <2>2, <2>3, <3>1, <5>1 DEF HandlersCovered
      <4>2. CASE ~(m.type = "topic_message" /\ m.topic = t)
        <5>1. (PayloadDue(t) => PayloadDue(t)') /\ seen \subseteq seen'
          BY <2>4, <2>7, <4>2 DEF Passes
        <5> QED
          BY <1>b, <2>1, <2>2, <2>3, <3>1, <5>1 DEF HandlersCovered
      <4> QED
        BY <4>1, <4>2
    <3> QED
      BY <3>3, <3>4
  <2> QED
    BY <2>1, <2>6, <2>7
<1>7. CASE Drop \/ Restart
  <2>1. connected' = FALSE
        /\ (UNCHANGED <<online, restarts>> \/ restarts' = restarts + 1)
    BY <1>0, <1>7, DropIs, DisconnectedIs
  <2>2. restarts' = 0 => online'
    BY <1>0, <1>a, <2>1
  <2> QED
    BY <2>1, <2>2 DEF Served
<1>8. ASSUME NEW c \in 1..MaxConnections, Resubscribe(c) PROVE Served'
  <2>1. /\ UNCHANGED <<handlers, connection, connected, requests, replies,
                       subscribed, online, seen, restarts>>
        /\ \/ /\ {u \in Topics : handlers[u] # {}} \subseteq loops[c].visited
              /\ loops' = [loops EXCEPT ![c] = Idle] /\ ops' = ops
           \/ \E u \in Topics :
                 /\ Enqueues("subscribe", u, "recovery")
                 /\ loops' = [loops EXCEPT ![c].visited = @ \cup {u}, ![c].op = Len(ops) + 1]
    BY <1>0, <1>8, ResubscribeIs
  <2>2. SUFFICES ASSUME restarts = 0, connected, NEW t \in Topics
                 PROVE  CallsServed(t)' /\ HandlersCovered(t)'
    BY <1>a, <2>1 DEF Served
  <2>3. connection \in DOMAIN loops /\ c \in DOMAIN loops
        /\ loops \in [1..MaxConnections ->
                        [active : BOOLEAN, visited : SUBSET Topics, op : 0..MaxOps]]
    BY <1>0, HandlersTyped
  <2>4. handlers'[t] # {} /\ LoopDue(t) => LoopDue(t)' \/ QueueDue(t)'
    <3> SUFFICES ASSUME handlers[t] # {}, LoopDue(t) PROVE LoopDue(t)' \/ QueueDue(t)'
      BY <2>1
    <3>1. CASE /\ {u \in Topics : handlers[u] # {}} \subseteq loops[c].visited
               /\ loops' = [loops EXCEPT ![c] = Idle]
      <4>1. c # connection
        BY <3>1 DEF LoopDue
      <4>2. loops'[connection] = loops[connection]
        BY <2>3, <3>1, <4>1
      <4> QED
        BY <2>1, <4>2 DEF LoopDue
    <3>2. ASSUME NEW u \in Topics, Enqueues("subscribe", u, "recovery"),
                 loops' = [loops EXCEPT ![c].visited = @ \cup {u}, ![c].op = Len(ops) + 1]
          PROVE  LoopDue(t)' \/ QueueDue(t)'
      <4>1. CASE t = u
        <5>1. /\ Len(ops') = Len(ops) + 1 /\ ops'[Len(ops) + 1].kind = "subscribe"
              /\ ops'[Len(ops) + 1].topic = u /\ ops'[Len(ops) + 1].phase = "queued"
          BY <3>2 DEF Enqueues
        <5>2. Len(ops) + 1 \in 1..Len(ops')
          BY <1>0, <5>1
        <5> QED
          BY <4>1, <5>1, <5>2 DEF QueueDue
      <4>2. CASE t # u /\ c # connection
        <5>1. loops'[connection] = loops[connection]
          BY <2>3, <3>2, <4>2
        <5> QED
          BY <2>1, <5>1 DEF LoopDue
      <4>3. CASE t # u /\ c = connection
        <5> PICK n : n = Len(ops) + 1
          OBVIOUS
        <5>1. loops' = [loops EXCEPT ![c].visited = @ \cup {u}, ![c].op = n]
          BY <3>2
        <5>2. loops'[c].visited = loops[c].visited \cup {u}
              /\ loops'[c].active = loops[c].active
          BY <2>3, <5>1
        <5> QED
          BY <2>1, <4>3, <5>2 DEF LoopDue
      <4> QED
        BY <4>1, <4>2, <4>3
    <3> QED
      BY <2>1, <3>1, <3>2
  <2>5. ops' = ops \/ \E kind, v, by : Enqueues(kind, v, by)
    BY <2>1
  <2> QED
    BY <1>0, <1>b, <2>1, <2>2, <2>4, <2>5, CallsAdded, ForStays, PayloadStays, ServedKept
<1>9. CASE Reconnect
  <2>1. /\ UNCHANGED <<ops, pending, handlers, requests, replies, subscribed,
                       online, seen, restarts>>
        /\ ~connected /\ connection' = connection + 1 /\ connection < MaxConnections
        /\ loops' = [loops EXCEPT ![connection + 1] = [Idle EXCEPT !.active = TRUE]]
    BY <1>9 DEF Reconnect
  <2>2. pending = 0 /\ Resuming = {}
    BY <1>0, <2>1 DEF Offline
  <2>3. loops'[connection'] = [Idle EXCEPT !.active = TRUE]
    <3>1. connection + 1 \in DOMAIN loops
      BY <1>0, <2>1, HandlersTyped
    <3> QED
      BY <2>1, <3>1
  <2>4. loops'[connection'].active /\ loops'[connection'].visited = {}
    BY <2>3 DEF Idle
  <2>5. ASSUME NEW t \in Topics PROVE CallsServed(t)' /\ HandlersCovered(t)'
    <3>1. LoopDue(t)'
      BY <2>4 DEF LoopDue
    <3>2. Calls(t, "pending")' = {} /\ Calls(t, "resolved")' = {}
      <4>1. Calls(t, "pending") = {} /\ Calls(t, "resolved") = {}
        BY <1>0, <2>2 DEF Calls, OnePending, Resuming
      <4> QED
        BY <2>1, <4>1 DEF Calls
    <3> QED
      BY <3>1, <3>2 DEF CallsServed, HandlersCovered
  <2> QED
    BY <1>a, <2>1, <2>5 DEF Served
<1>10. CASE Serve
  <2>1. UNCHANGED <<ops, pending, handlers, loops, connection, connected, online,
                    seen, restarts>>
    BY <1>10 DEF Serve
  <2>2. SUFFICES ASSUME restarts = 0, connected, NEW t \in Topics
                 PROVE  CallsServed(t)' /\ HandlersCovered(t)'
    BY <1>a, <2>1 DEF Served
  <2>3. LoopDue(t)' <=> LoopDue(t)
    BY <2>1 DEF LoopDue
  <2>4. online
    BY <1>a, <2>2
  <2> QED
    BY <1>0, <1>b, <1>10, <2>1, <2>2, <2>3, <2>4, CallsAdded, ServingIs, ServedKept
<1>11. CASE BackendReturns \/ UNCHANGED vars
  <2>1. UNCHANGED <<ops, pending, handlers, loops, connection, connected,
                    requests, replies, subscribed, seen, restarts>>
        /\ (online' = TRUE \/ online' = online)
    BY <1>11 DEF BackendReturns, vars
  <2>2. SUFFICES ASSUME restarts = 0, connected, NEW t \in Topics
                 PROVE  CallsServed(t)' /\ HandlersCovered(t)'
    BY <1>a, <2>1 DEF Served
  <2>3. LoopDue(t)' <=> LoopDue(t)
    BY <2>1 DEF LoopDue
  <2> QED
    BY <1>0, <1>b, <2>1, <2>2, <2>3, CallsAdded, ForStays, PayloadStays, ServedKept
<1> QED
  BY <1>1, <1>2, <1>3, <1>4, <1>5, <1>6, <1>7, <1>8, <1>9, <1>10, <1>11 DEF Next, Client

-----------------------------------------------------------------------------
(***************************************************************************)
(* The theorems.                                                           *)
(***************************************************************************)
LEMMA InitServed == Init => Own /\ LeftBefore /\ Served
<1> SUFFICES ASSUME Init PROVE Own /\ LeftBefore /\ Served
  OBVIOUS
<1>1. /\ ops = <<>> /\ Len(ops) = 0 /\ 1..Len(ops) = {}
      /\ DOMAIN requests = {} /\ DOMAIN replies = {}
      /\ online /\ \A t \in Topics : handlers[t] = {}
  BY DEF Init
<1>2. Own
  BY <1>1 DEF Own, OwnRepliesAlways
<1>3. LeftBefore
  BY <1>1 DEF LeftBefore
<1>4. ASSUME NEW t \in Topics PROVE CallsServed(t) /\ HandlersCovered(t)
  <2>1. Calls(t, "pending") = {} /\ Calls(t, "resolved") = {}
    BY <1>1 DEF Calls
  <2> QED
    BY <1>1, <2>1 DEF CallsServed, HandlersCovered
<1>5. Served
  BY <1>1, <1>4 DEF Served
<1> QED
  BY <1>2, <1>3, <1>5

\* When nothing is due any more, what Served promises is there.
LEMMA QuietIsServed == ASSUME Ordered, Served PROVE HandlersServed
<1> SUFFICES ASSUME restarts = 0, Quiet, NEW t \in Topics
             PROVE  (handlers[t] # {} => t \in subscribed) /\ handlers[t] \subseteq seen
  BY DEF HandlersServed, HandlersSubscribed, HandlersInformed
<1>1. HandlersCovered(t)
  BY DEF Quiet, Served
<1>2. DOMAIN requests = {} /\ DOMAIN replies = {}
  BY DEF Quiet
<1>3. ~LoopDue(t)
  BY HandlersTyped DEF Quiet, LoopDue, Ordered
<1>4. ~QueueDue(t)
  BY DEF Quiet, QueueDue
<1>5. ~AskedFor(t) /\ ~PayloadDue(t) /\ (Covered(t) => t \in subscribed)
  BY <1>2 DEF AskedFor, PayloadDue, Covered
<1> QED
  BY <1>1, <1>3, <1>4, <1>5 DEF HandlersCovered

\* OwnReplies: where every answer comes within the ten seconds, a call is settled
\* by the reply to its own request, whatever the application calls and whenever
\* connections drop and the gateway restarts; and the operations and messages are
\* what ControlTypeOK says, with late answers too.
THEOREM OwnRepliesHold == FairSpec => [](ControlTypeOK /\ OwnReplies)
<1> DEFINE IInv == Ordered /\ (~slow => Own)
<1>1. Init => IInv
  BY InitOrdered, InitServed
<1>2. IInv /\ [Next]_vars => IInv'
  <2> SUFFICES ASSUME IInv, [Next]_vars PROVE IInv'
    OBVIOUS
  <2>1. Ordered'
    BY OrderedInductive
  <2>2. slow' = slow
    BY SlowStays DEF Ordered
  <2>3. ~slow => Own'
    BY OwnInductive
  <2> QED
    BY <2>1, <2>2, <2>3
<1>3. IInv => ControlTypeOK /\ OwnReplies
  BY DEF Ordered, Own, OwnReplies
<1> QED
  BY <1>1, <1>2, <1>3, PTL DEF FairSpec, Spec

\* ControlInv: and, where no topic is left while another call subscribes to it and
\* a continuation runs before the next message, a topic with a handler is
\* subscribed at the gateway and its handlers have the retained payload whenever
\* nothing is under way, across any number of drops and recoveries.
THEOREM ControlCorrect == ~Overlap /\ ~SameTick => (FairSpec => []ControlInv)
<1> SUFFICES ASSUME ~Overlap, ~SameTick PROVE FairSpec => []ControlInv
  OBVIOUS
<1> DEFINE IInv == Ordered /\ LeftBefore /\ Served
<1>1. Init => IInv
  BY InitOrdered, InitServed
<1>2. IInv /\ [Next]_vars => IInv'
  BY OrderedInductive, LeftInductive, ServedInductive
<1>3. IInv => HandlersServed
  BY QuietIsServed
<1>4. FairSpec => [](ControlTypeOK /\ OwnReplies)
  BY OwnRepliesHold
<1>5. ControlTypeOK /\ OwnReplies /\ HandlersServed => ControlInv
  BY DEF ControlInv
<1> QED
  BY <1>1, <1>2, <1>3, <1>4, <1>5, PTL DEF FairSpec, Spec

=============================================================================
