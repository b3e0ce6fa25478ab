---------------------------- MODULE GatewayProofs ----------------------------
(***************************************************************************)
(* Proofs about Gateway, for every set of sessions, backends, credentials, *)
(* channels and topics.                                                    *)
(***************************************************************************)
EXTENDS Gateway, TLAPS

(***************************************************************************)
(* Type lemmas for the updates the handlers are built from.                *)
(***************************************************************************)
LEMMA SnapshotsTyped ==
  ASSUME NEW STATE Told, StateTypeOK, registry' \in [Backends -> Epochs],
         SendSnapshots(Told)
  PROVE  views' \in [Sessions -> [Backends -> Epochs]]
<1>1. 0 \in Epochs
  BY MaxEpochAssumption DEF Epochs
<1>2. NoView \in [Backends -> Epochs]
  BY <1>1 DEF NoView
<1>3. \A s \in Sessions : VisibleAfter(s) \in [Backends -> Epochs]
  BY <1>1 DEF VisibleAfter
<1> QED
  BY <1>2, <1>3 DEF SendSnapshots, StateTypeOK

LEMMA TeardownTyped ==
  ASSUME NEW STATE Doomed, NEW STATE reason, ChannelsTypeOK, 
         reason \in Reasons, TeardownAll(Doomed, reason)
  PROVE  ChannelsTypeOK'
  BY MaxEpochAssumption DEF TeardownAll, Teardown, ChannelsTypeOK, ChannelRecords, EmptyChannel, NoLegs, Roles, ToldNothing, Epochs

LEMMA ForgetTyped ==
  ASSUME NEW STATE B, NEW STATE S, TopicsTypeOK, ForgetTopics(B, S)
  PROVE  TopicsTypeOK'
  BY MaxEpochAssumption DEF ForgetTopics, TopicsTypeOK, NoRetained, Epochs

LEMMA RemoveBackendsTyped ==
  ASSUME NEW STATE B, StateTypeOK, RemoveBackends(B)
  PROVE  registry' \in [Backends -> Epochs] /\ leases' \in [Backends -> LeaseRecords]
  BY MaxEpochAssumption DEF RemoveBackends, StateTypeOK, Epochs, LeaseRecords, NoLease

LEMMA EmptySlotTyped ==
  ASSUME NEW ws \in {"new", "gone"}
  PROVE  EmptySlot(ws) \in PeerRecords
  BY MaxEpochAssumption DEF EmptySlot, PeerRecords, Epochs

\* Every reachable state of the gateway has the declared shape: no handler
\* writes an ill-formed session, lease, presence, channel or retained topic.
LEMMA InitTyped == Init => TypeOK
  BY MaxEpochAssumption, BackendsAssumption
  DEF Init, StateInit, ChannelsInit, TopicsInit, TypeOK, StateTypeOK,
         ChannelsTypeOK, TopicsTypeOK, PeerRecords, EmptySlot, LeaseRecords,
         NoLease, NoView, ChannelRecords, EmptyChannel, NoLegs, Roles,
         ToldNothing, NoRetained, Epochs

LEMMA SlotUpdatesTyped ==
  ASSUME NEW p \in PeerRecords
  PROVE  /\ ClosingWs(p) \in PeerRecords /\ Deposed(p) \in PeerRecords
         /\ \A v \in BOOLEAN : WithAlive(p, v) \in PeerRecords
<1>1. ClosingWs(p) \in PeerRecords
  BY DEF ClosingWs, PeerRecords
<1>2. Deposed(p) \in PeerRecords
  BY <1>1, MaxEpochAssumption DEF Deposed, PeerRecords, Epochs
<1>3. \A v \in BOOLEAN : WithAlive(p, v) \in PeerRecords
  BY DEF WithAlive, PeerRecords
<1> QED
  BY <1>1, <1>2, <1>3

LEMMA LeaseUpdatesTyped ==
  ASSUME NEW l \in LeaseRecords, NEW v \in BOOLEAN
  PROVE  WithStale(l, v) \in LeaseRecords
  BY DEF WithStale, LeaseRecords

LEMMA ChannelUpdatesTyped ==
  ASSUME NEW c \in ChannelRecords
  PROVE  /\ WithDue(c) \in ChannelRecords
         /\ \A r \in Roles, l \in {"none", "up", "hungUp"}, p \in BOOLEAN :
               WithLeg(c, r, l, p) \in ChannelRecords
<1>1. WithDue(c) \in ChannelRecords
  BY DEF WithDue, ChannelRecords
<1>2. ASSUME NEW r \in Roles, NEW l \in {"none", "up", "hungUp"}, NEW p \in BOOLEAN
      PROVE  WithLeg(c, r, l, p) \in ChannelRecords
  <2>1. c.legs \in [Roles -> {"none", "up", "hungUp"}]
    BY DEF ChannelRecords
  <2>2. [c.legs EXCEPT ![r] = l] \in [Roles -> {"none", "up", "hungUp"}]
    BY <2>1
  <2> QED
    BY <2>2 DEF WithLeg, ChannelRecords
<1> QED
  BY <1>1, <1>2

LEMMA HelloTyped ==
  ASSUME TypeOK, NEW s \in Sessions, NEW ws \in {"open", "closing"}, NEW c \in Creds,
         \/ PeerHelloClient(s, ws, c)
         \/ \E b \in Backends : \/ PeerHelloBackend(s, ws, c, b)
                                \/ PeerHelloBackendFails(s, c, b)
  PROVE  TypeOK'
<1> USE MaxEpochAssumption DEF TypeOK
<1>1. CASE PeerHelloClient(s, ws, c)
  <2>1. Session(ws, c, NoBackend, 0) \in PeerRecords
    BY DEF Session, PeerRecords, StateTypeOK, Epochs
  <2>2. StateTypeOK'
    BY <1>1, <2>1, SnapshotsTyped DEF PeerHelloClient, StateTypeOK
  <2> QED
    BY <1>1, <2>2 DEF PeerHelloClient, ChannelsTypeOK, TopicsTypeOK, channelVars, topicVars
<1>2. ASSUME NEW b \in Backends, NEW mine \in PeerRecords, TakeLease(s, b),
             peers' = PeersAfterHello(s, b, mine)
      PROVE  /\ peers' \in [Sessions -> PeerRecords]
             /\ leases' \in [Backends -> LeaseRecords]
             /\ maxEpoch' \in Epochs /\ maxEpoch + 1 \in Epochs
             /\ revoked' \subseteq Creds /\ allowed' \in [Creds -> SUBSET Backends]
             /\ ChannelsTypeOK' /\ TopicsTypeOK'
  <2>1. maxEpoch + 1 \in Epochs
    BY <1>2 DEF TakeLease, StateTypeOK, Epochs
  <2>2. \A q \in Sessions : Deposed(peers[q]) \in PeerRecords
    BY SlotUpdatesTyped DEF StateTypeOK
  <2>3. ChannelsTypeOK' /\ TopicsTypeOK'
    BY <1>2, TeardownTyped, ForgetTyped DEF TakeLease, Reasons
  <2> QED
    BY <1>2, <2>1, <2>2, <2>3 DEF TakeLease, StateTypeOK, PeersAfterHello, LeaseRecords
<1>3. ASSUME NEW b \in Backends, PeerHelloBackend(s, ws, c, b)
      PROVE  TypeOK'
  <2>1. Session(ws, c, b, maxEpoch + 1) \in PeerRecords
    BY <1>3 DEF PeerHelloBackend, TakeLease, Session, PeerRecords, StateTypeOK, Epochs
  <2>2. registry' \in [Backends -> Epochs]
    BY <1>3 DEF PeerHelloBackend, TakeLease, StateTypeOK, Epochs
  <2>3. views' \in [Sessions -> [Backends -> Epochs]]
    BY <1>3, <2>2, SnapshotsTyped DEF PeerHelloBackend
  <2> QED
    BY <1>3, <1>2, <2>1, <2>2, <2>3 DEF PeerHelloBackend, StateTypeOK
<1>4. ASSUME NEW b \in Backends, PeerHelloBackendFails(s, c, b)
      PROVE  TypeOK'
  <2>1. views' \in [Sessions -> [Backends -> Epochs]]
    BY <1>4, SnapshotsTyped DEF PeerHelloBackendFails, StateTypeOK
  <2> QED
    BY <1>4, <1>2, <2>1, EmptySlotTyped DEF PeerHelloBackendFails, StateTypeOK
<1> QED
  BY <1>1, <1>3, <1>4

LEMMA DisconnectTyped ==
  ASSUME TypeOK, NEW STATE Gone, peers' \in [Sessions -> PeerRecords], Disconnect(Gone)
  PROVE  TypeOK'
<1>1. StateTypeOK'
  <2>1. registry' \in [Backends -> Epochs] /\ leases' \in [Backends -> LeaseRecords]
    BY RemoveBackendsTyped DEF Disconnect, TypeOK
  <2>2. views' \in [Sessions -> [Backends -> Epochs]]
    BY <2>1, SnapshotsTyped DEF Disconnect, BroadcastIf, TypeOK
  <2> QED
    BY <2>1, <2>2 DEF Disconnect, TypeOK, StateTypeOK
<1>2. ChannelsTypeOK'
  BY MaxEpochAssumption DEF Disconnect, TypeOK, Teardown, ChannelsTypeOK, ChannelRecords,
     EmptyChannel, NoLegs, Roles, ToldNothing, Epochs, Reasons
<1>3. TopicsTypeOK'
  BY ForgetTyped DEF Disconnect, TypeOK
<1> QED
  BY <1>1, <1>2, <1>3 DEF TypeOK

LEMMA LeaseStepTyped ==
  ASSUME TypeOK,
         \/ \E b \in Backends : LeaseTtlElapses(b)
         \/ \E s \in Sessions, e \in Epochs : BackendHeartbeat(s, e)
         \/ LeaseCheck
  PROVE  TypeOK'
<1>1. ASSUME NEW b \in Backends, LeaseTtlElapses(b)
      PROVE  TypeOK'
  BY <1>1, LeaseUpdatesTyped DEF LeaseTtlElapses, TypeOK, StateTypeOK, ChannelsTypeOK, TopicsTypeOK,
              channelVars, topicVars
<1>2. ASSUME NEW s \in Sessions, NEW e \in Epochs, BackendHeartbeat(s, e)
      PROVE  TypeOK'
  <2>1. peers[s].backendId \in Backends
    BY <1>2 DEF BackendHeartbeat, IsCurrentBackendOwner
  <2> QED
    BY <1>2, <2>1, LeaseUpdatesTyped
    DEF BackendHeartbeat, TypeOK, StateTypeOK, ChannelsTypeOK, TopicsTypeOK, channelVars, topicVars
<1>3. CASE LeaseCheck
  <2>1. /\ registry' \in [Backends -> Epochs] /\ leases' \in [Backends -> LeaseRecords]
        /\ ChannelsTypeOK' /\ TopicsTypeOK'
    BY <1>3, RemoveBackendsTyped, TeardownTyped, ForgetTyped
    DEF LeaseCheck, TypeOK, Reasons
  <2>2. views' \in [Sessions -> [Backends -> Epochs]]
    BY <1>3, <2>1, SnapshotsTyped DEF LeaseCheck, BroadcastIf, TypeOK
  <2> QED
    BY <1>3, <2>1, <2>2, EmptySlotTyped DEF LeaseCheck, PeersWithout, TypeOK, StateTypeOK
<1> QED
  BY <1>1, <1>2, <1>3

LEMMA PeerStepTyped ==
  ASSUME TypeOK,
         \/ \E s \in Sessions : PeerDisconnects(s) \/ Pong(s)
         \/ PingRound \/ RegistryPoll \/ GatewayRestart
         \/ \E R \in SUBSET Creds : Revoke(R)
         \/ \E c \in Creds : ExchangeToken(c)
         \/ \E c \in DeviceCreds, scope \in SUBSET Backends : ChangeScope(c, scope)
  PROVE  TypeOK'
<1>1. ASSUME NEW S PROVE PeersWithout(S) \in [Sessions -> PeerRecords]
  BY EmptySlotTyped DEF PeersWithout, TypeOK, StateTypeOK
<1>2. ASSUME NEW C PROVE ClosePeersOf(C) => peers' \in [Sessions -> PeerRecords]
  BY SlotUpdatesTyped DEF ClosePeersOf, TypeOK, StateTypeOK
<1>3. TellNobody => told' \in [Sessions -> [ChannelIds -> {"nothing", "open"} \cup Reasons]]
  BY DEF TellNobody, ToldNothing, TypeOK, ChannelsTypeOK
<1>4. ASSUME NEW s \in Sessions, PeerDisconnects(s)
      PROVE  TypeOK'
  BY <1>1, <1>4, DisconnectTyped DEF PeerDisconnects
<1>5. ASSUME NEW s \in Sessions, Pong(s)
      PROVE  TypeOK'
  BY <1>5, SlotUpdatesTyped DEF Pong, TypeOK, StateTypeOK, ChannelsTypeOK, TopicsTypeOK,
              channelVars, topicVars
<1>6. CASE PingRound
  <2>1. peers' \in [Sessions -> PeerRecords] 
    BY <1>1, <1>6, SlotUpdatesTyped DEF PingRound
  <2> QED
    BY <1>6, <2>1, DisconnectTyped DEF PingRound
<1>7. CASE RegistryPoll
  BY <1>7, SnapshotsTyped DEF RegistryPoll, BroadcastIf, TypeOK, StateTypeOK,
     ChannelsTypeOK, TopicsTypeOK, channelVars, topicVars
<1>8. CASE GatewayRestart
  <2>1. peers' \in [Sessions -> PeerRecords]
    BY <1>1, <1>8 DEF GatewayRestart
  <2>2. registry' \in [Backends -> Epochs] /\ leases' \in [Backends -> LeaseRecords]
    BY <1>8, RemoveBackendsTyped DEF GatewayRestart, TypeOK
  <2>3. views' \in [Sessions -> [Backends -> Epochs]]
    BY <1>8, <2>2, SnapshotsTyped DEF GatewayRestart, TypeOK
  <2>4. ChannelsTypeOK'
    BY <1>8, MaxEpochAssumption DEF GatewayRestart, TypeOK, ChannelsTypeOK, ChannelRecords,
       EmptyChannel, NoLegs, ToldNothing, Epochs
  <2>5. TopicsTypeOK'
    BY <1>8, ForgetTyped DEF GatewayRestart, TypeOK
  <2> QED
    BY <1>8, <2>1, <2>2, <2>3, <2>4, <2>5 DEF GatewayRestart, TypeOK, StateTypeOK
<1>9. ASSUME NEW R \in SUBSET Creds, Revoke(R)
      PROVE  TypeOK'
  <2>1. views' \in [Sessions -> [Backends -> Epochs]]
    BY <1>9, SnapshotsTyped DEF Revoke, TypeOK, StateTypeOK
  <2> QED
    BY <1>2, <1>3, <1>9, <2>1 DEF Revoke, TypeOK, StateTypeOK, ChannelsTypeOK, TopicsTypeOK, topicVars
<1>10. ASSUME NEW c \in DeviceCreds, NEW scope \in SUBSET Backends, ChangeScope(c, scope)
      PROVE  TypeOK'
  <2>1. views' \in [Sessions -> [Backends -> Epochs]]
    BY <1>10, SnapshotsTyped DEF ChangeScope, TypeOK, StateTypeOK
  <2> QED
    BY <1>2, <1>3, <1>10, <2>1 DEF ChangeScope, TypeOK, StateTypeOK, ChannelsTypeOK, TopicsTypeOK, topicVars
<1>11. ASSUME NEW c \in Creds, ExchangeToken(c)
      PROVE  TypeOK'
  BY <1>11 DEF ExchangeToken, TypeOK, StateTypeOK, ChannelsTypeOK, TopicsTypeOK,
               channelVars, topicVars
<1> QED
  BY <1>4, <1>5, <1>6, <1>7, <1>8, <1>9, <1>10, <1>11

LEMMA ChannelStepTyped ==
  ASSUME TypeOK,
         \/ \E s \in Sessions, b \in Backends, ch \in ChannelIds : ChannelOpen(s, b, ch)
         \/ \E c \in Creds, b \in Backends, ch \in ChannelIds : ProxyRequest(c, b, ch)
         \/ /\ \/ \E s \in Sessions, ch \in ChannelIds :
                     ChannelReject(s, ch) \/ ChannelClose(s, ch)
               \/ \E ch \in ChannelIds, r \in Roles :
                     Dial(ch, r) \/ DialRefused(ch, r) \/ LegHangsUp(ch, r)
               \/ \E ch \in ChannelIds : LegClosed(ch) \/ HttpResponseCloses(ch)
               \/ \E ch \in ChannelIds :
                     TicketTtlElapses(ch) \/ PairingTimeout(ch) \/ HttpTimerFires(ch)
               \/ SweepTickets
            /\ UNCHANGED topicVars
  PROVE  TypeOK'
<1>1. UNCHANGED <<stateVars, topicVars>> /\ ChannelsTypeOK' => TypeOK'
  BY DEF stateVars, topicVars, TypeOK, StateTypeOK, TopicsTypeOK
<1>2. UNCHANGED <<stateVars, topicVars>>
  BY DEF ChannelOpen, ProxyRequest, ChannelReject, ChannelClose, Dial, DialRefused, LegHangsUp,
         LegClosed, HttpResponseCloses, TicketTtlElapses, PairingTimeout, HttpTimerFires, SweepTickets
<1>3. ASSUME NEW b \in Backends, NEW ch \in ChannelIds, NEW client \in Sessions \cup {NoSession},
             NEW R \in SUBSET Roles, CreateChannel(ch, b, client, R)
      PROVE  ChannelsTypeOK'
  BY <1>3, MaxEpochAssumption
  DEF CreateChannel, Tell, TypeOK, ChannelsTypeOK, StateTypeOK, ChannelRecords, LeaseRecords, NoLegs, ToldNothing
<1>4. ASSUME NEW ch \in ChannelIds, NEW reason \in Reasons, TeardownAll({ch}, reason)
      PROVE  ChannelsTypeOK'
  BY <1>4, TeardownTyped DEF TypeOK
<1>5. ASSUME NEW ch \in ChannelIds, NEW r \in Roles, Dial(ch, r) \/ DialRefused(ch, r) \/ LegHangsUp(ch, r)
      PROVE  ChannelsTypeOK'
  <2>1. channels[ch] \in ChannelRecords /\ channels[ch].piped \in BOOLEAN
    BY DEF TypeOK, ChannelsTypeOK, ChannelRecords
  <2>2. \A l \in {"none", "up", "hungUp"}, p \in BOOLEAN :
          WithLeg(channels[ch], r, l, p) \in ChannelRecords
    BY <2>1, ChannelUpdatesTyped
  <2>3. CASE Dial(ch, r)
    <3> DEFINE ready == Internal(ch) \/ \A q \in Roles \ {r} : channels[ch].legs[q] # "none"
    <3>1. ready \in BOOLEAN
      OBVIOUS
    <3>2. WithLeg(channels[ch], r, "up", ready) \in ChannelRecords
      BY <2>2, <3>1
    <3> HIDE DEF ready
    <3> QED
      BY <2>3, <3>2 DEF Dial, TypeOK, ChannelsTypeOK, ready
  <2>4. CASE LegHangsUp(ch, r)
    BY <2>1, <2>2, <2>4 DEF LegHangsUp, TypeOK, ChannelsTypeOK
  <2>5. CASE DialRefused(ch, r)
    BY <2>5 DEF DialRefused, TypeOK, ChannelsTypeOK
  <2> QED
    BY <1>5, <2>3, <2>4, <2>5
<1>6. ASSUME NEW ch \in ChannelIds, TicketTtlElapses(ch) 
      PROVE  ChannelsTypeOK'
  BY <1>6, ChannelUpdatesTyped DEF TicketTtlElapses, TypeOK, ChannelsTypeOK
<1>7. CASE SweepTickets
  BY <1>1, <1>2, <1>7 DEF SweepTickets, TypeOK, ChannelsTypeOK
<1>8. "timeout" \in Reasons /\ "closed" \in Reasons /\ "rejected" \in Reasons
  BY DEF Reasons
<1> QED
  BY <1>1, <1>2, <1>3, <1>4, <1>5, <1>6, <1>7, <1>8
  DEF ChannelOpen, ProxyRequest, ChannelReject, ChannelClose, LegClosed, HttpResponseCloses,
      PairingTimeout, HttpTimerFires, Roles

LEMMA TopicStepTyped ==
  ASSUME TypeOK, UNCHANGED channelVars,
         \E s \in Sessions, t \in TopicNames :
            \/ TopicPublish(s, t)
            \/ \E b \in Backends : TopicSubscribe(s, b, t) \/ TopicUnsubscribe(s, b, t)
  PROVE  TypeOK'
<1>1. PICK s \in Sessions, t \in TopicNames :
            \/ TopicPublish(s, t)
            \/ \E b \in Backends : TopicSubscribe(s, b, t) \/ TopicUnsubscribe(s, b, t)
  OBVIOUS
<1>2. UNCHANGED stateVars
  BY <1>1 DEF TopicPublish, TopicSubscribe, TopicUnsubscribe
<1>3. TopicsTypeOK'
  <2>1. CASE TopicPublish(s, t)
    <3>1. peers[s].backendId \in Backends /\ peers[s].epoch \in Epochs
      BY <2>1 DEF TopicPublish, Owns, IsCurrentBackendOwner, TypeOK, StateTypeOK, PeerRecords
    <3> QED
      BY <2>1, <3>1 DEF TopicPublish, TypeOK, TopicsTypeOK
  <2>2. ASSUME NEW b \in Backends, TopicSubscribe(s, b, t) \/ TopicUnsubscribe(s, b, t)
        PROVE  TopicsTypeOK'
    BY <2>2 DEF TopicSubscribe, TopicUnsubscribe, TypeOK, TopicsTypeOK
  <2> QED
    BY <1>1, <2>1, <2>2
<1> QED
  BY <1>2, <1>3 DEF TypeOK, StateTypeOK, ChannelsTypeOK, stateVars, channelVars

\* Every reachable state of the gateway has the declared shape: no handler
\* writes an ill-formed session, lease, presence, channel or retained topic.
THEOREM TypeCorrect == Spec => []TypeOK
<1>1. TypeOK /\ [Next]_vars => TypeOK'
  <2> SUFFICES ASSUME TypeOK, [Next]_vars
               PROVE  TypeOK'
    OBVIOUS
  <2>1. CASE UNCHANGED vars
    BY <2>1 DEF vars, stateVars, channelVars, topicVars, TypeOK, StateTypeOK,
                ChannelsTypeOK, TopicsTypeOK
  <2>2. CASE Handshake
    BY <2>2, HelloTyped DEF Handshake
  <2>3. CASE PeerMessage
    BY <2>3, LeaseStepTyped, ChannelStepTyped, TopicStepTyped DEF PeerMessage
  <2>4. CASE Socket
    BY <2>4, PeerStepTyped, ChannelStepTyped DEF Socket
  <2>5. CASE Timer
    BY <2>5, LeaseStepTyped, PeerStepTyped, ChannelStepTyped DEF Timer
  <2>6. CASE Http \/ GatewayRestart
    BY <2>6, PeerStepTyped, ChannelStepTyped DEF Http
  <2> QED
    BY <2>1, <2>2, <2>3, <2>4, <2>5, <2>6 DEF Next
<1> QED
  BY InitTyped, <1>1, PTL DEF Spec

-----------------------------------------------------------------------------
(***************************************************************************)
(* Ownership.  ownerVars are the variables OwnershipInv speaks of; most    *)
(* handlers leave them alone or only touch a flag it does not read.        *)
(***************************************************************************)
ownerVars == <<peers, leases, registry, recoveryTokens, maxEpoch>>

\* A step that only sets flags: isAlive, stale, or an open socket closing.
FlagStep ==
  /\ \A s \in Sessions :
        /\ peers'[s].backendId = peers[s].backendId
        /\ peers'[s].epoch = peers[s].epoch
        /\ \/ peers'[s].ws = peers[s].ws
           \/ peers[s].ws = "open" /\ peers'[s].ws = "closing"
  /\ \A b \in Backends : /\ leases'[b].epoch = leases[b].epoch
                          /\ leases'[b].session = leases[b].session
  /\ UNCHANGED <<registry, recoveryTokens, maxEpoch>>

LEMMA FlagSteps ==
  ASSUME TypeOK,
         \/ UNCHANGED ownerVars
         \/ \E s \in Sessions : Pong(s)
         \/ \E b \in Backends : LeaseTtlElapses(b)
         \/ \E s \in Sessions, e \in Epochs : BackendHeartbeat(s, e)
         \/ \E R \in SUBSET Creds : Revoke(R)
         \/ \E c \in Creds : ExchangeToken(c)
         \/ \E c \in DeviceCreds, scope \in SUBSET Backends : ChangeScope(c, scope)
  PROVE  FlagStep
<1> USE DEF FlagStep
<1>a. ASSUME NEW p \in PeerRecords, NEW v \in BOOLEAN
      PROVE  /\ WithAlive(p, v).ws = p.ws /\ WithAlive(p, v).backendId = p.backendId
             /\ WithAlive(p, v).epoch = p.epoch
  BY DEF WithAlive, PeerRecords
<1>b. ASSUME NEW p \in PeerRecords
      PROVE  /\ ClosingWs(p).backendId = p.backendId /\ ClosingWs(p).epoch = p.epoch
             /\ ClosingWs(p).ws = IF p.ws = "open" THEN "closing" ELSE p.ws
  BY DEF ClosingWs, PeerRecords
<1>c. ASSUME NEW l \in LeaseRecords, NEW v \in BOOLEAN
      PROVE  WithStale(l, v).epoch = l.epoch /\ WithStale(l, v).session = l.session
  BY DEF WithStale, LeaseRecords
<1>1. CASE UNCHANGED ownerVars
  BY <1>1 DEF ownerVars
<1>2. ASSUME NEW s \in Sessions, Pong(s) PROVE FlagStep
  BY <1>2, <1>a DEF Pong, TypeOK, StateTypeOK
<1>3. ASSUME NEW b \in Backends, LeaseTtlElapses(b) PROVE FlagStep
  BY <1>3, <1>c DEF LeaseTtlElapses, TypeOK, StateTypeOK
<1>4. ASSUME NEW s \in Sessions, NEW e \in Epochs, BackendHeartbeat(s, e) PROVE FlagStep
  BY <1>4, <1>c DEF BackendHeartbeat, IsCurrentBackendOwner, TypeOK, StateTypeOK
<1>5. ASSUME NEW C, ClosePeersOf(C), UNCHANGED <<leases, registry, recoveryTokens, maxEpoch>>
      PROVE  FlagStep
  BY <1>5, <1>b DEF ClosePeersOf, TypeOK, StateTypeOK
<1> QED
  BY <1>1, <1>2, <1>3, <1>4, <1>5 DEF Revoke, ChangeScope, ExchangeToken, ownerVars

LEMMA FlagStepKeepsOwnership ==
  ASSUME TypeOK, OwnershipInv, FlagStep
  PROVE  OwnershipInv'
<1>1. \A s \in Sessions : Live(s)' <=> Live(s)
  BY DEF FlagStep, Live
<1>2. \A b \in Backends : /\ Leased(b)' <=> Leased(b)
                          /\ Present(b)' <=> Present(b)
                          /\ OwnerLive(b)' <=> OwnerLive(b)
  BY <1>1 DEF FlagStep, Leased, Present, OwnerLive, Live
<1>3. \A s \in Sessions : Owns(s)' <=> Owns(s)
  BY DEF FlagStep, Owns, IsCurrentBackendOwner
<1>4. LeasesKnown'
  <2>1. ASSUME NEW b \in Backends
        PROVE  /\ leases'[b].epoch <= maxEpoch'
               /\ IF Leased(b)' THEN /\ leases'[b].session \in Sessions
                                     /\ peers'[leases'[b].session].ws # "new"
                  ELSE leases'[b].session = NoSession
               /\ OwnerLive(b)' => /\ peers'[leases'[b].session].backendId = b
                                   /\ peers'[leases'[b].session].epoch = leases'[b].epoch
    <3>1. /\ leases'[b].session = leases[b].session
          /\ IF Leased(b) THEN leases[b].session \in Sessions
             ELSE leases[b].session = NoSession
      BY DEF OwnershipInv, LeasesKnown, FlagStep
    <3>2. OwnerLive(b) => Leased(b)
      BY DEF OwnerLive
    <3>3. leases'[b].epoch <= maxEpoch'
      BY DEF OwnershipInv, LeasesKnown, FlagStep
    <3>4. Leased(b) => peers'[leases[b].session].ws # "new"
      BY <3>1 DEF OwnershipInv, LeasesKnown, FlagStep
    <3>5. OwnerLive(b) => /\ peers'[leases[b].session].backendId = b
                          /\ peers'[leases[b].session].epoch = leases'[b].epoch
      BY <3>1, <3>2 DEF OwnershipInv, LeasesKnown, FlagStep
    <3> QED
      BY <1>2, <3>1, <3>2, <3>3, <3>4, <3>5
  <2>2. \A s \in Sessions : peers'[s].backendId # NoBackend => peers'[s].epoch # 0
    BY DEF FlagStep, OwnershipInv, LeasesKnown
  <2> QED
    BY <2>1, <2>2 DEF LeasesKnown
<1>5. OwnerCoherence' /\ RegistryTruthful' /\ RecoveryTokensLive'
  BY <1>1, <1>2, <1>3 DEF FlagStep, OwnershipInv, OwnerCoherence, RegistryTruthful, RecoveryTokensLive
<1> QED
  BY <1>4, <1>5 DEF OwnershipInv

\* A step that drops the sessions of S and takes the backends of B off the
\* registry: every ending of a session is one.
DropStep(S, B) ==
  /\ \A s \in S : Live(s) /\ peers'[s].ws = "gone" /\ peers'[s].backendId = NoBackend
  /\ \A s \in Sessions \ S : /\ peers'[s].ws = peers[s].ws
                             /\ peers'[s].backendId = peers[s].backendId
                             /\ peers'[s].epoch = peers[s].epoch
  /\ \A b \in B : OwnerLive(b) => leases[b].session \in S
  /\ recoveryTokens' = recoveryTokens \ S
  /\ RemoveBackends(B)
  /\ UNCHANGED maxEpoch

LEMMA DropStepKeepsOwnership ==
  ASSUME TypeOK, OwnershipInv,
         NEW S \in SUBSET Sessions, NEW B \in SUBSET Backends, DropStep(S, B)
  PROVE  OwnershipInv'
<1>1. \A s \in Sessions : Live(s)' <=> Live(s) /\ s \notin S
  BY DEF DropStep, Live
<1>2. ASSUME NEW b \in Backends
      PROVE  /\ b \in B => leases'[b] = NoLease /\ registry'[b] = 0
             /\ b \notin B => leases'[b] = leases[b] /\ registry'[b] = registry[b]
  BY DEF DropStep, RemoveBackends
<1>3. \A b \in Backends : Leased(b)' <=> Leased(b) /\ b \notin B
  BY <1>2 DEF Leased, NoLease
<1>4. \A b \in Backends : OwnerLive(b)' =>
          OwnerLive(b) /\ b \notin B /\ leases[b].session \in Sessions \ S
  <2> SUFFICES ASSUME NEW b \in Backends, OwnerLive(b)'
               PROVE  OwnerLive(b) /\ b \notin B /\ leases[b].session \in Sessions \ S
    OBVIOUS
  <2>1. Leased(b) /\ b \notin B
    BY <1>3 DEF OwnerLive
  <2>2. leases[b].session \in Sessions /\ Live(leases[b].session)'
    BY <1>2, <2>1 DEF OwnerLive, OwnershipInv, LeasesKnown
  <2> QED
    BY <1>1, <1>2, <2>1, <2>2 DEF OwnerLive, Live
<1>5. LeasesKnown'
  <2>1. ASSUME NEW b \in Backends
        PROVE  leases'[b].epoch <= maxEpoch'
    <3>1. CASE b \in B
      BY <1>2, <3>1 DEF DropStep, NoLease, TypeOK, StateTypeOK, Epochs
    <3>2. CASE b \notin B
      BY <1>2, <3>2 DEF DropStep, OwnershipInv, LeasesKnown
    <3> QED
      BY <3>1, <3>2
  <2>5. ASSUME NEW b \in Backends, ~Leased(b)'
        PROVE  leases'[b].session = NoSession
    <3>1. \/ leases'[b] = NoLease
          \/ leases'[b] = leases[b] /\ ~Leased(b)
      BY <1>2, <1>3, <2>5
    <3> QED
      BY <3>1 DEF NoLease, OwnershipInv, LeasesKnown
  <2>2. ASSUME NEW b \in Backends, Leased(b)'
        PROVE  leases'[b].session \in Sessions /\ peers'[leases'[b].session].ws # "new"
    <3>1. Leased(b) /\ leases'[b] = leases[b]
      BY <1>2, <1>3, <2>2
    <3>2. leases[b].session \in Sessions /\ peers[leases[b].session].ws # "new"
      BY <3>1 DEF OwnershipInv, LeasesKnown
    <3> QED
      BY <3>1, <3>2 DEF DropStep
  <2>3. ASSUME NEW b \in Backends, OwnerLive(b)'
        PROVE  /\ peers'[leases'[b].session].backendId = b
               /\ peers'[leases'[b].session].epoch = leases'[b].epoch
    <3>1. /\ leases'[b] = leases[b] /\ leases[b].session \in Sessions \ S
          /\ OwnerLive(b)
      BY <1>2, <1>4, <2>3
    <3>2. /\ peers[leases[b].session].backendId = b
          /\ peers[leases[b].session].epoch = leases[b].epoch
      BY <3>1 DEF OwnershipInv, LeasesKnown
    <3> QED
      BY <3>1, <3>2 DEF DropStep
  <2>4. \A s \in Sessions : peers'[s].backendId # NoBackend => peers'[s].epoch # 0
    BY DEF DropStep, OwnershipInv, LeasesKnown
  <2> QED
    BY <2>1, <2>2, <2>3, <2>4, <2>5 DEF LeasesKnown
<1>6. OwnerCoherence'
  <2> SUFFICES ASSUME NEW s \in Sessions, peers'[s].backendId # NoBackend
               PROVE  Live(s)' /\ Owns(s)'
    BY DEF OwnerCoherence
  <2>1. s \notin S /\ peers'[s].backendId = peers[s].backendId /\ peers'[s].epoch = peers[s].epoch
    BY DEF DropStep
  <2>2. Live(s) /\ Owns(s)
    BY <2>1 DEF OwnershipInv, OwnerCoherence
  <2>3. Live(s)'
    BY <1>1, <2>1, <2>2
  <2> DEFINE b == peers[s].backendId
  <2>4. b \in Backends /\ leases[b].session = s /\ leases[b].epoch = peers[s].epoch
    BY <2>2 DEF Owns, IsCurrentBackendOwner
  <2>5. peers[s].epoch # 0
    BY <2>1 DEF OwnershipInv, LeasesKnown
  <2>6. OwnerLive(b)
    BY <2>2, <2>4, <2>5 DEF OwnerLive, Leased
  <2>7. b \notin B
    BY <2>1, <2>4, <2>6 DEF DropStep
  <2>8. leases'[b] = leases[b]
    BY <1>2, <2>4, <2>7
  <2> QED
    BY <2>1, <2>3, <2>4, <2>8 DEF Owns, IsCurrentBackendOwner
<1>7. RegistryTruthful'
  <2>1. ASSUME NEW b \in Backends, OwnerLive(b)'
        PROVE  registry'[b] = leases'[b].epoch
    BY <1>2, <1>4, <2>1 DEF OwnershipInv, RegistryTruthful
  <2>2. ASSUME NEW b \in Backends, Present(b)'
        PROVE  Leased(b)' /\ registry'[b] <= leases'[b].epoch
    <3>1. b \notin B
      BY <1>2, <2>2 DEF Present
    <3> QED
      BY <1>2, <1>3, <2>2, <3>1 DEF OwnershipInv, RegistryTruthful, Present
  <2> QED
    BY <2>1, <2>2 DEF RegistryTruthful
<1>8. RecoveryTokensLive'
  BY <1>1 DEF DropStep, OwnershipInv, RecoveryTokensLive
<1> QED
  BY <1>5, <1>6, <1>7, <1>8 DEF OwnershipInv

LEMMA DropSteps ==
  ASSUME TypeOK, OwnershipInv,
         \/ LeaseCheck
         \/ PingRound
         \/ GatewayRestart
         \/ \E s \in Sessions : PeerDisconnects(s)
  PROVE  \E S \in SUBSET Sessions, B \in SUBSET Backends : DropStep(S, B)
<1>a. ASSUME NEW S \in SUBSET Sessions, NEW s \in Sessions
      PROVE  /\ s \in S => /\ PeersWithout(S)[s].ws = "gone"
                           /\ PeersWithout(S)[s].backendId = NoBackend
             /\ s \notin S => PeersWithout(S)[s] = peers[s]
             /\ PeersWithout(S)[s] \in PeerRecords
  BY EmptySlotTyped DEF PeersWithout, EmptySlot, TypeOK, StateTypeOK
<1>b. ASSUME NEW p \in PeerRecords, NEW v \in BOOLEAN
      PROVE  /\ WithAlive(p, v).ws = p.ws /\ WithAlive(p, v).backendId = p.backendId
             /\ WithAlive(p, v).epoch = p.epoch
  BY DEF WithAlive, PeerRecords
<1>1. CASE LeaseCheck
  <2> DEFINE expired == Expired
             owners == ExpiredOwners
  <2>1. /\ peers' = PeersWithout(owners)
        /\ recoveryTokens' = recoveryTokens \ owners
        /\ RemoveBackends(expired) /\ UNCHANGED maxEpoch
    BY <1>1 DEF LeaseCheck
  <2>2. \A b \in expired : OwnerLive(b) => leases[b].session \in owners
    BY DEF OwnerLive, Live, ExpiredOwners
  <2>3. owners \in SUBSET Sessions /\ expired \in SUBSET Backends
    BY DEF Expired, ExpiredOwners
  <2>4. DropStep(owners, expired)
    <3> HIDE DEF expired
    <3>1. \A s \in owners : Live(s)
      BY DEF ExpiredOwners
    <3> HIDE DEF owners
    <3> QED
      BY <1>a, <2>1, <2>2, <2>3, <3>1 DEF DropStep
  <2> QED
    BY <2>3, <2>4
<1>2. ASSUME NEW Gone \in SUBSET Sessions, Disconnect(Gone),
             \A s \in Gone : Live(s) /\ peers'[s].ws = "gone" /\ peers'[s].backendId = NoBackend,
             \A s \in Sessions \ Gone : /\ peers'[s].ws = peers[s].ws
                                        /\ peers'[s].backendId = peers[s].backendId
                                        /\ peers'[s].epoch = peers[s].epoch
      PROVE  \E S \in SUBSET Sessions, B \in SUBSET Backends : DropStep(S, B)
  <2> DEFINE lost == {b \in Backends : \E s \in Gone : peers[s].backendId = b /\ Owns(s)}
  <2>1. /\ recoveryTokens' = recoveryTokens \ Gone
        /\ RemoveBackends(lost) /\ UNCHANGED maxEpoch
    BY <1>2 DEF Disconnect
  <2>2. \A b \in lost : leases[b].session \in Gone
    BY DEF Owns, IsCurrentBackendOwner
  <2>3. lost \in SUBSET Backends
    OBVIOUS
  <2>4. DropStep(Gone, lost)
    <3> HIDE DEF lost
    <3> QED
      BY <1>2, <2>1, <2>2 DEF DropStep
  <2> QED
    BY <2>3, <2>4
<1>3. CASE PingRound
  <2> DEFINE silent == Silent
  <2>1. silent \in SUBSET Sessions /\ \A s \in silent : Live(s)
    BY DEF Silent
  <2>2. /\ peers' = [s \in Sessions |-> WithAlive(PeersWithout(silent)[s], FALSE)]
        /\ Disconnect(silent)
    BY <1>3 DEF PingRound
  <2> HIDE DEF silent
  <2>3. \A s \in Sessions : /\ peers'[s].ws = PeersWithout(silent)[s].ws
                            /\ peers'[s].backendId = PeersWithout(silent)[s].backendId
                            /\ peers'[s].epoch = PeersWithout(silent)[s].epoch
    BY <1>a, <1>b, <2>1, <2>2
  <2> QED
    BY <1>a, <1>2, <2>1, <2>2, <2>3
<1>4. CASE GatewayRestart
  <2> DEFINE live == {s \in Sessions : Live(s)}
  <2>1. /\ peers' = PeersWithout(live)
        /\ recoveryTokens' = recoveryTokens \ live
        /\ RemoveBackends(Backends) /\ UNCHANGED maxEpoch
    BY <1>4 DEF GatewayRestart, OwnershipInv, RecoveryTokensLive
  <2>2. \A b \in Backends : OwnerLive(b) => leases[b].session \in live
    BY DEF OwnerLive, Live
  <2>3. live \in SUBSET Sessions /\ \A s \in live : Live(s)
    OBVIOUS
  <2> HIDE DEF live
  <2>4. DropStep(live, Backends)
    BY <1>a, <2>1, <2>2, <2>3 DEF DropStep
  <2> QED
    BY <2>3, <2>4
<1>5. ASSUME NEW s \in Sessions, PeerDisconnects(s)
      PROVE  \E S \in SUBSET Sessions, B \in SUBSET Backends : DropStep(S, B)
  <2>1. /\ Live(s) /\ {s} \in SUBSET Sessions
        /\ peers' = PeersWithout({s}) /\ Disconnect({s})
    BY <1>5 DEF PeerDisconnects
  <2> QED
    BY <1>a, <1>2, <2>1
<1> QED
  BY <1>1, <1>3, <1>4, <1>5

\* The client hello adds a session that owns nothing.
LEMMA ClientHelloKeepsOwnership ==
  ASSUME TypeOK, OwnershipInv, NEW s \in Sessions, NEW ws \in {"open", "closing"},
         NEW c \in Creds, PeerHelloClient(s, ws, c)
  PROVE  OwnershipInv'
<1>1. /\ peers[s].ws = "new"
      /\ peers' = [peers EXCEPT ![s] = Session(ws, c, NoBackend, 0)]
      /\ recoveryTokens' = recoveryTokens \cup {s}
      /\ UNCHANGED <<leases, registry, maxEpoch>>
  BY DEF PeerHelloClient
<1>2. /\ peers'[s].ws = ws /\ peers'[s].backendId = NoBackend
      /\ \A q \in Sessions \ {s} : peers'[q] = peers[q]
  BY <1>1 DEF Session, TypeOK, StateTypeOK
<1>3. ~Live(s) /\ \A q \in Sessions : Live(q)' <=> Live(q) \/ q = s
  BY <1>1, <1>2 DEF Live
<1>4. ASSUME NEW b \in Backends, Leased(b) PROVE leases[b].session \in Sessions \ {s}
  BY <1>1, <1>4 DEF OwnershipInv, LeasesKnown
<1>5. \A b \in Backends : (Leased(b)' <=> Leased(b)) /\ (Present(b)' <=> Present(b))
  BY <1>1 DEF Leased, Present
<1>6. \A b \in Backends : OwnerLive(b)' <=> OwnerLive(b)
  BY <1>1, <1>3, <1>4, <1>5 DEF OwnerLive, Live
<1>7. LeasesKnown'
  <2>1. ASSUME NEW b \in Backends
        PROVE  /\ leases'[b].epoch <= maxEpoch'
               /\ IF Leased(b)' THEN /\ leases'[b].session \in Sessions
                                     /\ peers'[leases'[b].session].ws # "new"
                  ELSE leases'[b].session = NoSession
    BY <1>1, <1>2, <1>4, <1>5 DEF OwnershipInv, LeasesKnown
  <2>2. ASSUME NEW b \in Backends, OwnerLive(b)'
        PROVE  /\ peers'[leases'[b].session].backendId = b
               /\ peers'[leases'[b].session].epoch = leases'[b].epoch
    <3>1. OwnerLive(b) /\ leases[b].session \in Sessions \ {s}
      BY <1>4, <1>6, <2>2 DEF OwnerLive
    <3> QED
      BY <1>1, <1>2, <3>1 DEF OwnershipInv, LeasesKnown
  <2>3. \A q \in Sessions : peers'[q].backendId # NoBackend => peers'[q].epoch # 0
    BY <1>2 DEF OwnershipInv, LeasesKnown
  <2> QED
    BY <2>1, <2>2, <2>3 DEF LeasesKnown
<1>8. OwnerCoherence'
  <2> SUFFICES ASSUME NEW q \in Sessions, peers'[q].backendId # NoBackend
               PROVE  Live(q)' /\ Owns(q)'
    BY DEF OwnerCoherence
  <2>1. peers'[q] = peers[q] /\ q # s
    BY <1>2
  <2>2. Live(q) /\ Owns(q)
    BY <2>1 DEF OwnershipInv, OwnerCoherence
  <2> QED
    BY <1>1, <1>3, <2>1, <2>2 DEF Owns, IsCurrentBackendOwner
<1>9. RegistryTruthful' /\ RecoveryTokensLive'
  BY <1>1, <1>3, <1>5, <1>6 DEF OwnershipInv, RegistryTruthful, RecoveryTokensLive
<1> QED
  BY <1>7, <1>8, <1>9 DEF OwnershipInv

\* A backend hello, complete or failed half-way: the previous owner is
\* deposed in the step that gives the lease to s.
LEMMA TakeoverKeepsOwnership ==
  ASSUME TypeOK, OwnershipInv, NEW s \in Sessions, NEW b \in Backends, NEW mine,
         peers[s].ws = "new", peers' = PeersAfterHello(s, b, mine), TakeLease(s, b),
         \/ /\ mine.ws = "gone" /\ mine.backendId = NoBackend
            /\ UNCHANGED <<registry, recoveryTokens>>
         \/ /\ mine.ws \in {"open", "closing"}
            /\ mine.backendId = b /\ mine.epoch = maxEpoch + 1
            /\ registry' = [registry EXCEPT ![b] = maxEpoch + 1]
            /\ recoveryTokens' = recoveryTokens \cup {s}
  PROVE  OwnershipInv'
<1>1. /\ maxEpoch \in Nat /\ maxEpoch' = maxEpoch + 1
      /\ leases'[b].epoch = maxEpoch + 1 /\ leases'[b].session = s
      /\ \A d \in Backends \ {b} : leases'[d] = leases[d]
  BY MaxEpochAssumption DEF TakeLease, TypeOK, StateTypeOK, Epochs
<1>2. ASSUME NEW d \in Backends, Leased(d) PROVE leases[d].session \in Sessions \ {s}
  BY <1>2 DEF OwnershipInv, LeasesKnown
<1>3. peers'[s] = mine /\ ~Live(s)
  BY DEF PeersAfterHello, Live
<1>4. ASSUME NEW q \in Sessions \ {s}
      PROVE  /\ Live(q)' <=> Live(q)
             /\ peers[q].ws # "new" => peers'[q].ws # "new"
             /\ IF q = leases[b].session /\ Live(q) THEN peers'[q].backendId = NoBackend
                ELSE peers'[q] = peers[q]
  <2>1. peers[q] \in PeerRecords
    BY DEF TypeOK, StateTypeOK
  <2>2. CASE q = leases[b].session /\ Live(q)
    <3>1. peers'[q] = Deposed(peers[q])
      BY <2>2 DEF PeersAfterHello
    <3>2. peers'[q].backendId = NoBackend /\ peers'[q].ws = ClosingWs(peers[q]).ws
      BY <3>1 DEF Deposed
    <3>3. ClosingWs(peers[q]).ws \in {"open", "closing"}
      BY <2>1, <2>2 DEF ClosingWs, Live, PeerRecords
    <3> QED
      BY <2>2, <3>2, <3>3 DEF Live
  <2>3. CASE ~(q = leases[b].session /\ Live(q))
    BY <2>3 DEF PeersAfterHello, Live
  <2> QED
    BY <2>2, <2>3
<1>5. \A d \in Backends \ {b} : (Leased(d)' <=> Leased(d))
  BY <1>1 DEF Leased
<1>6. Leased(b)'
  BY <1>1 DEF Leased
<1>7. ASSUME NEW d \in Backends \ {b}, OwnerLive(d)'
      PROVE  /\ OwnerLive(d) /\ leases[d].session \in Sessions \ {s}
             /\ peers'[leases[d].session] = peers[leases[d].session]
  <2> DEFINE q == leases[d].session
  <2>1. Leased(d) /\ q \in Sessions \ {s}
    BY <1>2, <1>5, <1>7 DEF OwnerLive
  <2>2. OwnerLive(d)
    BY <1>1, <1>4, <1>7, <2>1 DEF OwnerLive, Live
  <2>3. peers[q].backendId = d
    BY <2>2 DEF OwnershipInv, LeasesKnown
  <2>4. ~(q = leases[b].session /\ Live(q))
    <3> SUFFICES ASSUME q = leases[b].session, Live(q) PROVE FALSE
      OBVIOUS
    <3>1. Leased(b)
      BY <2>1, SessionsAssumption DEF OwnershipInv, LeasesKnown
    <3>2. OwnerLive(b)
      BY <3>1 DEF OwnerLive
    <3> QED
      BY <2>3, <3>2 DEF OwnershipInv, LeasesKnown
  <2> QED
    BY <1>4, <2>1, <2>2, <2>4
<1>8. OwnerLive(b)' => mine.ws # "gone"
  BY <1>1, <1>3 DEF OwnerLive, Live
<1>9. LeasesKnown'
  <2>1. ASSUME NEW d \in Backends
        PROVE  leases'[d].epoch <= maxEpoch'
    BY <1>1 DEF OwnershipInv, LeasesKnown, TypeOK, StateTypeOK, LeaseRecords, Epochs
  <2>2. ASSUME NEW d \in Backends
        PROVE  IF Leased(d)' THEN /\ leases'[d].session \in Sessions
                                  /\ peers'[leases'[d].session].ws # "new"
               ELSE leases'[d].session = NoSession
    <3>1. CASE d = b
      BY <1>1, <1>3, <1>6, <3>1
    <3>2. CASE d # b
      <4>1. CASE Leased(d)
        <5>1. leases[d].session \in Sessions \ {s} /\ peers[leases[d].session].ws # "new"
          BY <1>2, <4>1 DEF OwnershipInv, LeasesKnown
        <5> QED
          BY <1>1, <1>4, <1>5, <3>2, <4>1, <5>1
      <4>2. CASE ~Leased(d)
        BY <1>1, <1>5, <3>2, <4>2 DEF OwnershipInv, LeasesKnown
      <4> QED
        BY <4>1, <4>2
    <3> QED
      BY <3>1, <3>2
  <2>3. ASSUME NEW d \in Backends, OwnerLive(d)'
        PROVE  /\ peers'[leases'[d].session].backendId = d
               /\ peers'[leases'[d].session].epoch = leases'[d].epoch
    <3>1. CASE d = b
      BY <1>1, <1>3, <1>8, <2>3, <3>1
    <3>2. CASE d # b
      BY <1>1, <1>7, <2>3, <3>2 DEF OwnershipInv, LeasesKnown
    <3> QED
      BY <3>1, <3>2
  <2>4. ASSUME NEW q \in Sessions, peers'[q].backendId # NoBackend
        PROVE  peers'[q].epoch # 0
    BY <1>1, <1>3, <1>4, <2>4 DEF OwnershipInv, LeasesKnown
  <2> QED
    BY <2>1, <2>2, <2>3, <2>4 DEF LeasesKnown
<1>10. OwnerCoherence'
  <2> SUFFICES ASSUME NEW q \in Sessions, peers'[q].backendId # NoBackend
               PROVE  Live(q)' /\ Owns(q)'
    BY DEF OwnerCoherence
  <2>1. CASE q = s
    BY <1>1, <1>3, <2>1 DEF Live, Owns, IsCurrentBackendOwner
  <2>2. CASE q # s
    <3>1. peers'[q] = peers[q] /\ ~(q = leases[b].session /\ Live(q))
      BY <1>4, <2>2
    <3>2. Live(q) /\ Owns(q)
      BY <3>1 DEF OwnershipInv, OwnerCoherence
    <3>3. peers[q].backendId \in Backends \ {b}
      BY <3>1, <3>2 DEF Owns, IsCurrentBackendOwner
    <3>4. leases'[peers[q].backendId] = leases[peers[q].backendId]
      BY <1>1, <3>3
    <3> QED
      BY <1>4, <2>2, <3>1, <3>2, <3>4 DEF Owns, IsCurrentBackendOwner
  <2> QED
    BY <2>1, <2>2
<1>11. RegistryTruthful'
  <2>1. ASSUME NEW d \in Backends, OwnerLive(d)'
        PROVE  registry'[d] = leases'[d].epoch
    <3>1. CASE d = b
      BY <1>1, <1>8, <2>1, <3>1 DEF TypeOK, StateTypeOK
    <3>2. CASE d # b
      <4>1. registry'[d] = registry[d]
        BY <3>2 DEF TypeOK, StateTypeOK
      <4> QED
        BY <1>1, <1>7, <2>1, <3>2, <4>1 DEF OwnershipInv, RegistryTruthful
    <3> QED
      BY <3>1, <3>2
  <2>2. ASSUME NEW d \in Backends, Present(d)'
        PROVE  Leased(d)' /\ registry'[d] <= leases'[d].epoch
    <3>1. CASE d = b
      <4>1. registry[b] \in Nat /\ leases[b].epoch \in Nat /\ leases[b].epoch <= maxEpoch
        BY MaxEpochAssumption
           DEF OwnershipInv, LeasesKnown, TypeOK, StateTypeOK, LeaseRecords, Epochs
      <4>2. registry[b] = 0 \/ registry[b] <= leases[b].epoch
        BY DEF OwnershipInv, RegistryTruthful, Present
      <4>3. registry'[b] \in {registry[b], maxEpoch + 1}
        BY DEF TypeOK, StateTypeOK
      <4> QED
        BY <1>1, <1>6, <3>1, <4>1, <4>2, <4>3
    <3>2. CASE d # b
      <4>1. registry'[d] = registry[d]
        BY <3>2 DEF TypeOK, StateTypeOK
      <4> QED
        BY <1>1, <1>5, <2>2, <3>2, <4>1 DEF OwnershipInv, RegistryTruthful, Present
    <3> QED
      BY <3>1, <3>2
  <2> QED
    BY <2>1, <2>2 DEF RegistryTruthful
<1>12. RecoveryTokensLive'
  <2>1. \A q \in Sessions \ {s} : q \in recoveryTokens' <=> Live(q)'
    BY <1>4 DEF OwnershipInv, RecoveryTokensLive
  <2>2. s \in recoveryTokens' <=> Live(s)'
    BY <1>3 DEF OwnershipInv, RecoveryTokensLive, Live
  <2>3. recoveryTokens' \subseteq Sessions
    BY DEF TypeOK, StateTypeOK
  <2> QED
    BY <2>1, <2>2, <2>3 DEF RecoveryTokensLive
<1> QED
  BY <1>9, <1>10, <1>11, <1>12 DEF OwnershipInv

\* For ownership, every step of the gateway is of one of five kinds.
LEMMA OwnershipSteps ==
  ASSUME TypeOK, OwnershipInv, [Next]_vars
  PROVE  \/ FlagStep
         \/ \E S \in SUBSET Sessions, B \in SUBSET Backends : DropStep(S, B)
         \/ \E s \in Sessions, ws \in {"open", "closing"}, c \in Creds :
               \/ PeerHelloClient(s, ws, c)
               \/ \E b \in Backends : \/ PeerHelloBackend(s, ws, c, b)
                                      \/ PeerHelloBackendFails(s, c, b)
<1> DEFINE Drops == \E S \in SUBSET Sessions, B \in SUBSET Backends : DropStep(S, B)
<1>1. CASE UNCHANGED stateVars
  BY <1>1, FlagSteps DEF stateVars, ownerVars
<1>2. ASSUME LeaseCheck \/ PingRound \/ GatewayRestart \/ \E s \in Sessions : PeerDisconnects(s)
      PROVE  Drops
  BY <1>2, DropSteps
<1>3. CASE PeerMessage
  <2>1. ASSUME NEW s \in Sessions, NEW e \in Epochs, BackendHeartbeat(s, e)
        PROVE  FlagStep
    BY <2>1, FlagSteps
  <2> QED
    BY <1>1, <1>3, <2>1 DEF PeerMessage, ChannelOpen, ChannelReject, ChannelClose,
         TopicPublish, TopicSubscribe, TopicUnsubscribe
<1>4. CASE Socket
  <2>1. ASSUME NEW s \in Sessions, Pong(s) PROVE FlagStep
    BY <2>1, FlagSteps
  <2> QED
    BY <1>1, <1>2, <1>4, <2>1 DEF Socket, Dial, DialRefused, LegHangsUp, LegClosed,
         HttpResponseCloses
<1>5. CASE Timer
  <2>1. ASSUME NEW b \in Backends, LeaseTtlElapses(b) PROVE FlagStep
    BY <2>1, FlagSteps
  <2>2. CASE RegistryPoll
    BY <2>2, FlagSteps DEF RegistryPoll, ownerVars
  <2> QED
    BY <1>1, <1>2, <1>5, <2>1, <2>2 DEF Timer, SweepTickets, TicketTtlElapses,
         PairingTimeout, HttpTimerFires
<1>6. CASE Http
  <2>1. ASSUME NEW R \in SUBSET Creds, Revoke(R) PROVE FlagStep
    BY <2>1, FlagSteps
  <2>3. ASSUME NEW c \in Creds, ExchangeToken(c) PROVE FlagStep
    BY <2>3, FlagSteps
  <2>2. ASSUME NEW c \in DeviceCreds, NEW scope \in SUBSET Backends, ChangeScope(c, scope)
        PROVE  FlagStep
    BY <2>2, FlagSteps
  <2> QED
    BY <1>1, <1>6, <2>1, <2>2, <2>3 DEF Http, ProxyRequest
<1>7. CASE UNCHANGED vars
  BY <1>1, <1>7 DEF vars
<1> QED
  BY <1>2, <1>3, <1>4, <1>5, <1>6, <1>7 DEF Next, Handshake

\* What TakeoverKeepsOwnership and TakeoverAcquires ask of a backend hello.
LEMMA BackendHellos ==
  ASSUME NEW s \in Sessions, NEW ws \in {"open", "closing"}, NEW c \in Creds,
         NEW b \in Backends,
         PeerHelloBackend(s, ws, c, b) \/ PeerHelloBackendFails(s, c, b)
  PROVE  \E mine :
            /\ peers[s].ws = "new" /\ peers' = PeersAfterHello(s, b, mine)
            /\ TakeLease(s, b)
            /\ \/ /\ mine.ws = "gone" /\ mine.backendId = NoBackend
                  /\ UNCHANGED <<registry, recoveryTokens>>
               \/ /\ mine.ws \in {"open", "closing"}
                  /\ mine.backendId = b /\ mine.epoch = maxEpoch + 1
                  /\ registry' = [registry EXCEPT ![b] = maxEpoch + 1]
                  /\ recoveryTokens' = recoveryTokens \cup {s}
<1>1. CASE PeerHelloBackend(s, ws, c, b)
  <2> DEFINE mine == Session(ws, c, b, maxEpoch + 1)
  <2>1. /\ peers[s].ws = "new" /\ peers' = PeersAfterHello(s, b, mine) /\ TakeLease(s, b)
        /\ registry' = [registry EXCEPT ![b] = maxEpoch + 1]
        /\ recoveryTokens' = recoveryTokens \cup {s}
    BY <1>1 DEF PeerHelloBackend
  <2>2. mine.ws \in {"open", "closing"} /\ mine.backendId = b /\ mine.epoch = maxEpoch + 1
    BY DEF Session
  <2> HIDE DEF mine
  <2> QED
    BY <2>1, <2>2
<1>2. CASE PeerHelloBackendFails(s, c, b)
  <2>1. /\ peers[s].ws = "new" /\ peers' = PeersAfterHello(s, b, EmptySlot("gone"))
        /\ TakeLease(s, b) /\ UNCHANGED <<registry, recoveryTokens>>
    BY <1>2 DEF PeerHelloBackendFails
  <2>2. EmptySlot("gone").ws = "gone" /\ EmptySlot("gone").backendId = NoBackend
    BY DEF EmptySlot
  <2> QED
    BY <2>1, <2>2
<1> QED
  BY <1>1, <1>2

LEMMA OwnershipInductive == TypeOK /\ OwnershipInv /\ [Next]_vars => OwnershipInv'
<1> SUFFICES ASSUME TypeOK, OwnershipInv, [Next]_vars
             PROVE  OwnershipInv'
  OBVIOUS
<1>1. ASSUME NEW s \in Sessions, NEW ws \in {"open", "closing"}, NEW c \in Creds,
             NEW b \in Backends,
             PeerHelloBackend(s, ws, c, b) \/ PeerHelloBackendFails(s, c, b)
      PROVE  OwnershipInv'
  BY <1>1, BackendHellos, TakeoverKeepsOwnership
<1> QED
  BY <1>1, OwnershipSteps, FlagStepKeepsOwnership, DropStepKeepsOwnership,
     ClientHelloKeepsOwnership

LEMMA OwnershipInit == Init => OwnershipInv
  BY DEF Init, StateInit, OwnershipInv, LeasesKnown, OwnerCoherence, RegistryTruthful,
         RecoveryTokensLive, EmptySlot, NoLease, Live, Leased, Present, OwnerLive

\* Whatever peers do and whatever fails, the sessions, the leases and the
\* registry agree: a peer that carries a backendId is the one the lease
\* names, and the registry lists a connected owner at its own epoch.
THEOREM OwnershipCorrect == Spec => []OwnershipInv
<1>1. TypeOK /\ TypeOK' /\ OwnershipInv /\ [Next]_vars => OwnershipInv'
  BY OwnershipInductive
<1> QED
  BY OwnershipInit, TypeCorrect, <1>1, PTL DEF Spec

-----------------------------------------------------------------------------
(***************************************************************************)
(* Refinement: the gateway implements Ownership.                           *)
(***************************************************************************)
LEMMA FlagStepStutters ==
  ASSUME TypeOK, OwnershipInv, FlagStep
  PROVE  UNCHANGED Own!ownVars
<1>1. \A b \in Backends : /\ leases'[b].session = leases[b].session
                          /\ leases'[b].epoch = leases[b].epoch
  BY DEF FlagStep
<1>2. \A b \in Backends : OwnerLive(b)' <=> OwnerLive(b)
  BY <1>1 DEF FlagStep, OwnerLive, Leased, Live
<1>3. Holder' = Holder
  BY <1>1, <1>2 DEF Holder
<1>4. TermOf' = TermOf
  BY <1>1, <1>2 DEF TermOf
<1> QED
  BY <1>3, <1>4 DEF FlagStep, Own!ownVars

LEMMA DropStepReleases ==
  ASSUME TypeOK, OwnershipInv,
         NEW S \in SUBSET Sessions, NEW B \in SUBSET Backends, DropStep(S, B)
  PROVE  Own!OwnNext
<1> DEFINE D == {b \in Backends : ~OwnerLive(b)'}
<1>1. \A s \in Sessions : Live(s)' <=> Live(s) /\ s \notin S
  BY DEF DropStep, Live
<1>2. ASSUME NEW b \in Backends, OwnerLive(b)'
      PROVE  OwnerLive(b) /\ leases'[b] = leases[b]
  <2>1. leases'[b] = leases[b]
    BY <1>2 DEF DropStep, RemoveBackends, NoLease, OwnerLive, Leased
  <2> QED
    BY <1>1, <1>2, <2>1 DEF OwnerLive, Leased, Live
<1>3. Holder' = [b \in Backends |-> IF b \in D THEN NoSession ELSE Holder[b]]
  BY <1>2 DEF Holder
<1>4. TermOf' = [b \in Backends |-> IF b \in D THEN 0 ELSE TermOf[b]]
  BY <1>2 DEF TermOf
<1>5. D \in SUBSET Backends /\ maxEpoch' = maxEpoch
  BY DEF DropStep
<1> HIDE DEF D
<1>6. Own!Release(D)
  BY <1>3, <1>4, <1>5 DEF Own!Release
<1> QED
  BY <1>5, <1>6 DEF Own!OwnNext

LEMMA TakeoverAcquires ==
  ASSUME TypeOK, OwnershipInv, NEW s \in Sessions, NEW b \in Backends, NEW mine,
         peers[s].ws = "new", peers' = PeersAfterHello(s, b, mine), TakeLease(s, b),
         mine.ws \in {"gone", "open", "closing"}
  PROVE  Own!OwnNext
<1>1. /\ maxEpoch \in Nat /\ maxEpoch' = maxEpoch + 1
      /\ leases'[b].epoch = maxEpoch + 1 /\ leases'[b].session = s
      /\ \A d \in Backends \ {b} : leases'[d] = leases[d]
  BY MaxEpochAssumption DEF TakeLease, TypeOK, StateTypeOK, Epochs
<1>2. ASSUME NEW d \in Backends, Leased(d) PROVE leases[d].session \in Sessions \ {s}
  BY <1>2 DEF OwnershipInv, LeasesKnown
<1>3. \A q \in Sessions \ {s} : Live(q)' <=> Live(q)
  <2> SUFFICES ASSUME NEW q \in Sessions \ {s} PROVE Live(q)' <=> Live(q)
    OBVIOUS
  <2>1. peers[q] \in PeerRecords
    BY DEF TypeOK, StateTypeOK
  <2>2. CASE q = leases[b].session /\ Live(q)
    <3>1. peers'[q] = Deposed(peers[q])
      BY <2>2 DEF PeersAfterHello
    <3>2. peers'[q].ws = ClosingWs(peers[q]).ws
      BY <3>1 DEF Deposed
    <3>3. ClosingWs(peers[q]).ws \in {"open", "closing"}
      BY <2>1, <2>2 DEF ClosingWs, Live, PeerRecords
    <3> QED
      BY <2>2, <3>2, <3>3 DEF Live
  <2>3. CASE ~(q = leases[b].session /\ Live(q))
    BY <2>3 DEF PeersAfterHello, Live
  <2> QED
    BY <2>2, <2>3
<1>4. ASSUME NEW d \in Backends \ {b}
      PROVE  (OwnerLive(d)' <=> OwnerLive(d)) /\ leases'[d] = leases[d]
  <2>1. leases'[d] = leases[d] /\ (Leased(d)' <=> Leased(d))
    BY <1>1 DEF Leased
  <2>2. CASE Leased(d)
    BY <1>2, <1>3, <2>1, <2>2 DEF OwnerLive, Live
  <2>3. CASE ~Leased(d)
    BY <2>1, <2>3 DEF OwnerLive
  <2> QED
    BY <2>1, <2>2, <2>3
<1>5. \A d \in Backends : Holder[d] # s
  BY <1>2, SessionsAssumption DEF Holder, OwnerLive
<1>6. CASE mine.ws = "gone"
  <2>1. ~OwnerLive(b)'
    BY <1>1, <1>6 DEF OwnerLive, Live, PeersAfterHello
  <2>2. Holder' = [Holder EXCEPT ![b] = NoSession]
    BY <1>4, <2>1 DEF Holder
  <2>3. TermOf' = [TermOf EXCEPT ![b] = 0]
    BY <1>4, <2>1 DEF TermOf
  <2>4. Own!Squander(b)
    BY <1>1, <2>2, <2>3 DEF Own!Squander
  <2> QED
    BY <2>4 DEF Own!OwnNext
<1>7. CASE mine.ws \in {"open", "closing"}
  <2>1. OwnerLive(b)'
    BY <1>1, <1>7 DEF OwnerLive, Leased, Live, PeersAfterHello
  <2>2. Holder' = [Holder EXCEPT ![b] = s]
    BY <1>1, <1>4, <2>1 DEF Holder
  <2>3. TermOf' = [TermOf EXCEPT ![b] = maxEpoch + 1]
    BY <1>1, <1>4, <2>1 DEF TermOf
  <2>4. Own!Acquire(b, s)
    BY <1>1, <1>5, <2>2, <2>3 DEF Own!Acquire
  <2> QED
    BY <2>4 DEF Own!OwnNext
<1> QED
  BY <1>6, <1>7

LEMMA ClientHelloStutters ==
  ASSUME TypeOK, OwnershipInv, NEW s \in Sessions, NEW ws \in {"open", "closing"},
         NEW c \in Creds, PeerHelloClient(s, ws, c)
  PROVE  UNCHANGED Own!ownVars
<1>1. /\ peers[s].ws = "new" /\ UNCHANGED <<leases, maxEpoch>>
      /\ \A q \in Sessions \ {s} : peers'[q] = peers[q]
  BY DEF PeerHelloClient, TypeOK, StateTypeOK
<1>2. ASSUME NEW b \in Backends, Leased(b) PROVE leases[b].session \in Sessions \ {s}
  BY <1>1, <1>2 DEF OwnershipInv, LeasesKnown
<1>3. ASSUME NEW b \in Backends PROVE OwnerLive(b)' <=> OwnerLive(b)
  BY <1>1, <1>2 DEF OwnerLive, Leased, Live
<1>4. Holder' = Holder /\ TermOf' = TermOf
  BY <1>1, <1>3 DEF Holder, TermOf
<1> QED
  BY <1>1, <1>4 DEF Own!ownVars

\* A connected owner disappears from its lease only together with its
\* session or by a handshake with a newer epoch; epochs are handed out once.
THEOREM OwnershipRefined == Spec => ImplementsOwnership
<1>1. Init => Own!OwnInit
  BY DEF Init, StateInit, Own!OwnInit, Holder, TermOf, OwnerLive, Leased, NoLease
<1>2. TypeOK /\ OwnershipInv /\ [Next]_vars => [Own!OwnNext]_Own!ownVars
  <2> SUFFICES ASSUME TypeOK, OwnershipInv, [Next]_vars
               PROVE  Own!OwnNext \/ UNCHANGED Own!ownVars
    OBVIOUS
  <2>1. ASSUME NEW s \in Sessions, NEW ws \in {"open", "closing"}, NEW c \in Creds,
               NEW b \in Backends,
               PeerHelloBackend(s, ws, c, b) \/ PeerHelloBackendFails(s, c, b)
        PROVE  Own!OwnNext
    BY <2>1, BackendHellos, TakeoverAcquires
  <2> QED
    BY <2>1, OwnershipSteps, FlagStepStutters, DropStepReleases, ClientHelloStutters
<1>3. OwnershipInv /\ TypeOK /\ TypeOK' /\ [Next]_vars => OwnershipInv'
  BY OwnershipInductive
<1> QED
  BY OwnershipInit, TypeCorrect, <1>1, <1>2, <1>3, PTL
  DEF Spec, ImplementsOwnership, Own!OwnSpec

\* handleBackendOwnerReplaced is the only way a connected peer loses its
\* backend, and it happens only in favour of a newer epoch.
THEOREM DeposedOnlyByNewerHolds == Spec => DeposedOnlyByNewer
<1> DEFINE Step ==
      \A s \in Sessions :
         LET b == peers[s].backendId
         IN  b # NoBackend /\ peers'[s].backendId # b /\ peers'[s].ws \in {"open", "closing"}
               => leases'[b].epoch > leases[b].epoch
<1>1. ASSUME TypeOK, OwnershipInv, [Next]_vars PROVE Step
  <2> SUFFICES ASSUME NEW q \in Sessions, peers[q].backendId # NoBackend,
                      peers'[q].backendId # peers[q].backendId,
                      peers'[q].ws \in {"open", "closing"}
               PROVE  leases'[peers[q].backendId].epoch > leases[peers[q].backendId].epoch
    OBVIOUS
  <2>1. ~FlagStep
    BY DEF FlagStep
  <2>2. ASSUME NEW S \in SUBSET Sessions, NEW B \in SUBSET Backends, DropStep(S, B)
        PROVE  FALSE
    BY <2>2 DEF DropStep
  <2>3. Live(q) /\ Owns(q)
    BY <1>1 DEF OwnershipInv, OwnerCoherence
  <2>4. ASSUME NEW s \in Sessions, NEW ws \in {"open", "closing"}, NEW c \in Creds,
               PeerHelloClient(s, ws, c)
        PROVE  FALSE
    BY <1>1, <2>3, <2>4 DEF PeerHelloClient, Live, TypeOK, StateTypeOK
  <2>5. ASSUME NEW s \in Sessions, NEW b \in Backends, NEW mine, peers[s].ws = "new",
               peers' = PeersAfterHello(s, b, mine), TakeLease(s, b)
        PROVE  leases'[peers[q].backendId].epoch > leases[peers[q].backendId].epoch
    <3>1. q # s /\ q = leases[b].session
      BY <2>3, <2>5 DEF PeersAfterHello, Live
    <3>2. Leased(b) /\ OwnerLive(b)
      BY <1>1, <2>3, <3>1, SessionsAssumption DEF OwnershipInv, LeasesKnown, OwnerLive
    <3>3. peers[q].backendId = b /\ leases[b].epoch <= maxEpoch
      BY <1>1, <3>1, <3>2 DEF OwnershipInv, LeasesKnown
    <3>4. leases'[b].epoch = maxEpoch + 1 /\ maxEpoch \in Nat /\ leases[b].epoch \in Nat
      BY <1>1, <2>5, MaxEpochAssumption DEF TakeLease, TypeOK, StateTypeOK, LeaseRecords, Epochs
    <3> QED
      BY <3>3, <3>4
  <2> QED
    BY <1>1, <2>1, <2>2, <2>4, <2>5, OwnershipSteps, BackendHellos
<1>2. TypeOK /\ OwnershipInv /\ [Next]_vars => [Step]_vars
  BY <1>1
<1>3. OwnershipInv /\ TypeOK /\ TypeOK' /\ [Next]_vars => OwnershipInv'
  BY OwnershipInductive
<1> QED
  BY OwnershipInit, TypeCorrect, <1>2, <1>3, PTL DEF Spec, DeposedOnlyByNewer

-----------------------------------------------------------------------------
(***************************************************************************)
(* What the abstract specification of ownership promises, proved from its  *)
(* steps alone: it holds of everything that implements Ownership.          *)
(* TermsIdentify is inductive once the epochs held are known to have been  *)
(* handed out already, so that a fresh one differs from all of them.       *)
(***************************************************************************)
TermsHeld ==
    /\ maxEpoch \in Nat
    /\ Holder \in [Backends -> Sessions \cup {NoSession}]
    /\ TermOf \in [Backends -> 0..maxEpoch]
    /\ Own!TermsIdentify

LEMMA TermsHeldInit == Own!OwnInit => TermsHeld
  BY DEF Own!OwnInit, TermsHeld, Own!TermsIdentify

LEMMA AcquireKeepsTerms ==
  ASSUME NoSession \notin Sessions, TermsHeld,
         NEW b \in Backends, NEW s \in Sessions, Own!Acquire(b, s)
  PROVE  TermsHeld'
<1>1. maxEpoch' = maxEpoch + 1 /\ maxEpoch' \in Nat /\ TermOf' \in [Backends -> 0..maxEpoch']
  BY DEF TermsHeld, Own!Acquire
<1>2. Holder' \in [Backends -> Sessions \cup {NoSession}]
  BY DEF TermsHeld, Own!Acquire
<1>3. /\ Holder'[b] = s /\ TermOf'[b] = maxEpoch + 1
      /\ \A d \in Backends \ {b} : Holder'[d] = Holder[d] /\ TermOf'[d] = TermOf[d]
  BY DEF TermsHeld, Own!Acquire
<1>4. \A d \in Backends : Holder[d] # s /\ TermOf[d] \in 0..maxEpoch
  BY DEF TermsHeld, Own!Acquire
<1>5. Own!TermsIdentify'
  BY <1>1, <1>3, <1>4 DEF TermsHeld, Own!TermsIdentify
<1> QED
  BY <1>1, <1>2, <1>5 DEF TermsHeld

LEMMA SquanderKeepsTerms ==
  ASSUME TermsHeld, NEW b \in Backends, Own!Squander(b)
  PROVE  TermsHeld'
  BY DEF TermsHeld, Own!TermsIdentify, Own!Squander

LEMMA ReleaseKeepsTerms ==
  ASSUME TermsHeld, NEW B \in SUBSET Backends, Own!Release(B)
  PROVE  TermsHeld'
  BY DEF TermsHeld, Own!TermsIdentify, Own!Release

LEMMA OwnStepsKeepTerms ==
  ASSUME NoSession \notin Sessions, TermsHeld, [Own!OwnNext]_(Own!ownVars)
  PROVE  TermsHeld'
<1>1. CASE UNCHANGED Own!ownVars
  BY <1>1 DEF TermsHeld, Own!TermsIdentify, Own!ownVars
<1>2. ASSUME NEW b \in Backends, Own!Squander(b) PROVE TermsHeld'
  BY <1>2, SquanderKeepsTerms
<1>3. ASSUME NEW b \in Backends, NEW s \in Sessions, Own!Acquire(b, s) PROVE TermsHeld'
  BY <1>3, AcquireKeepsTerms
<1>4. ASSUME NEW B \in SUBSET Backends, Own!Release(B) PROVE TermsHeld'
  BY <1>4, ReleaseKeepsTerms
<1> QED
  BY <1>1, <1>2, <1>3, <1>4 DEF Own!OwnNext

\* The epoch a connected owner holds its backend for is no other backend's,
\* and no session holds two: what Ownership promises holds of the gateway.
THEOREM EpochsIdentifyBackends == Spec => []TermsIdentify
<1>1. NoSession \notin Sessions
  BY SessionsAssumption
<1>2. TermsHeld /\ [Own!OwnNext]_(Own!ownVars) => TermsHeld'
  BY <1>1, OwnStepsKeepTerms
<1>3. TermsHeld => Own!TermsIdentify
  BY DEF TermsHeld
<1>4. Own!OwnSpec => []Own!TermsIdentify
  BY TermsHeldInit, <1>2, <1>3, PTL DEF Own!OwnSpec
<1> QED
  BY OwnershipRefined, <1>4, PTL DEF ImplementsOwnership, TermsIdentify

-----------------------------------------------------------------------------
(***************************************************************************)
(* The open peers: what they have been sent of the registry, and under     *)
(* which credential they run.                                              *)
(***************************************************************************)

\* An open peer that stays open keeps its credential and its scope.
Kept(s) ==
  /\ peers[s].ws = "open"
  /\ peers'[s].cred = peers[s].cred
  /\ peers'[s].allowedBackends = peers[s].allowedBackends

\* A peer that becomes open has said hello, under a valid credential, and is
\* sent the registry.
Greeted(s) ==
  /\ peers[s].ws = "new"
  /\ peers'[s].cred \in Creds \ revoked
  /\ peers'[s].allowedBackends = allowed[peers'[s].cred]
  /\ views'[s] = VisibleAfter(s)
  /\ UNCHANGED <<allowed, revoked>>

\* What a step may make of session s.
SessionStep(s) ==
  /\ peers'[s].ws = "open" => Kept(s) \/ Greeted(s)
  /\ peers[s].ws # "new" => peers'[s].ws # "new"

(***************************************************************************)
(* What the updates of a session slot leave open.                          *)
(***************************************************************************)
LEMMA SlotUpdatesKeep ==
  ASSUME NEW p \in PeerRecords
  PROVE  /\ ClosingWs(p).ws # "open" /\ Deposed(p).ws # "open"
         /\ p.ws # "new" => ClosingWs(p).ws # "new" /\ Deposed(p).ws # "new"
         /\ \A v \in BOOLEAN : /\ WithAlive(p, v).ws = p.ws
                               /\ WithAlive(p, v).cred = p.cred
                               /\ WithAlive(p, v).allowedBackends = p.allowedBackends
<1>1. ClosingWs(p).ws = IF p.ws = "open" THEN "closing" ELSE p.ws
  BY DEF ClosingWs, PeerRecords
<1>2. Deposed(p).ws = ClosingWs(p).ws
  BY DEF Deposed
<1>3. \A v \in BOOLEAN : /\ WithAlive(p, v).ws = p.ws
                         /\ WithAlive(p, v).cred = p.cred
                         /\ WithAlive(p, v).allowedBackends = p.allowedBackends
  BY DEF WithAlive, PeerRecords
<1> QED
  BY <1>1, <1>2, <1>3

LEMMA DropsKeep ==
  ASSUME TypeOK, NEW S, NEW s \in Sessions
  PROVE  /\ PeersWithout(S)[s] \in PeerRecords
         /\ s \in S => PeersWithout(S)[s].ws = "gone"
         /\ s \notin S => PeersWithout(S)[s] = peers[s]
  BY EmptySlotTyped DEF PeersWithout, EmptySlot, TypeOK, StateTypeOK

LEMMA HelloSteps ==
  ASSUME TypeOK, Handshake, NEW q \in Sessions
  PROVE  SessionStep(q)
<1> USE DEF SessionStep, Kept, Greeted
<1>1. PICK s \in Sessions, ws \in {"open", "closing"}, c \in Creds :
        \/ PeerHelloClient(s, ws, c)
        \/ \E b \in Backends : \/ PeerHelloBackend(s, ws, c, b)
                               \/ PeerHelloBackendFails(s, c, b)
  BY DEF Handshake
<1>2. CASE PeerHelloClient(s, ws, c)
  BY <1>2 DEF PeerHelloClient, SendSnapshots, Session, TypeOK, StateTypeOK
<1>3. ASSUME NEW b \in Backends, NEW mine, peers[s].ws = "new",
             peers' = PeersAfterHello(s, b, mine), TakeLease(s, b), c \notin revoked,
             \/ mine = EmptySlot("gone")
             \/ SendSnapshots(Sessions) /\ \E e : mine = Session(ws, c, b, e)
      PROVE  SessionStep(q)
  <2>1. CASE q = s
    BY <1>3, <2>1 DEF PeersAfterHello, TakeLease, EmptySlot, Session, SendSnapshots
  <2>2. CASE q # s
    BY <1>3, <2>2, SlotUpdatesKeep DEF PeersAfterHello, TypeOK, StateTypeOK
  <2> QED
    BY <2>1, <2>2
<1>4. ASSUME NEW b \in Backends, PeerHelloBackend(s, ws, c, b) PROVE SessionStep(q)
  BY <1>3, <1>4 DEF PeerHelloBackend
<1>5. ASSUME NEW b \in Backends, PeerHelloBackendFails(s, c, b) PROVE SessionStep(q)
  BY <1>3, <1>5 DEF PeerHelloBackendFails
<1> QED
  BY <1>1, <1>2, <1>4, <1>5

\* Sessions become open by a hello only, and never begin again.
LEMMA SessionSteps ==
  ASSUME TypeOK, [Next]_vars, NEW q \in Sessions
  PROVE  SessionStep(q)
<1> USE DEF SessionStep, Kept
<1>1. CASE UNCHANGED peers
  BY <1>1
<1>2. ASSUME NEW S, peers' = PeersWithout(S) PROVE SessionStep(q)
  BY <1>2, DropsKeep
<1>3. ASSUME NEW S, peers' = [s \in Sessions |-> WithAlive(PeersWithout(S)[s], FALSE)]
      PROVE  SessionStep(q)
  <2>1. peers'[q] = WithAlive(PeersWithout(S)[q], FALSE)
    BY <1>3
  <2>2. PeersWithout(S)[q] \in PeerRecords
    BY DropsKeep
  <2>3. /\ peers'[q].ws = PeersWithout(S)[q].ws
        /\ peers'[q].cred = PeersWithout(S)[q].cred
        /\ peers'[q].allowedBackends = PeersWithout(S)[q].allowedBackends
    BY <2>1, <2>2, SlotUpdatesKeep
  <2> QED
    BY <2>3, DropsKeep
<1>4. ASSUME NEW C, ClosePeersOf(C) PROVE SessionStep(q)
  BY <1>4, SlotUpdatesKeep DEF ClosePeersOf, TypeOK, StateTypeOK
<1>5. ASSUME NEW s \in Sessions, Pong(s) PROVE SessionStep(q)
  BY <1>5, SlotUpdatesKeep DEF Pong, TypeOK, StateTypeOK
<1>6. CASE PeerMessage
  BY <1>1, <1>6 DEF PeerMessage, BackendHeartbeat, ChannelOpen, ChannelReject, ChannelClose,
     TopicPublish, TopicSubscribe, TopicUnsubscribe, stateVars
<1>7. CASE Socket
  BY <1>1, <1>2, <1>5, <1>7 DEF Socket, PeerDisconnects, Dial, DialRefused, LegHangsUp,
     LegClosed, HttpResponseCloses, stateVars
<1>8. CASE Timer
  BY <1>1, <1>2, <1>3, <1>8 DEF Timer, PingRound, LeaseCheck, RegistryPoll, LeaseTtlElapses,
     SweepTickets, TicketTtlElapses, PairingTimeout, HttpTimerFires, stateVars
<1>9. CASE Http
  BY <1>1, <1>4, <1>9 DEF Http, ProxyRequest, Revoke, ExchangeToken, ChangeScope, stateVars
<1>10. CASE GatewayRestart
  BY <1>2, <1>10 DEF GatewayRestart
<1>11. CASE UNCHANGED vars
  BY <1>1, <1>11 DEF vars, stateVars
<1> QED
  BY HelloSteps, <1>6, <1>7, <1>8, <1>9, <1>10, <1>11 DEF Next

-----------------------------------------------------------------------------
(***************************************************************************)
(* Credentials of open peers.                                              *)
(***************************************************************************)

\* Which rows a step revokes or restores, and whose scope it changes.
LEMMA CredentialSteps ==
  ASSUME TypeOK, [Next]_vars
  PROVE  \/ UNCHANGED allowed /\ revoked' \subseteq revoked
         \/ UNCHANGED allowed /\ \E R : revoked' = revoked \cup R /\ ClosePeersOf(R)
         \/ UNCHANGED revoked /\ \E c \in DeviceCreds, scope \in SUBSET Backends :
               allowed' = [allowed EXCEPT ![c] = scope] /\ ClosePeersOf({c})
<1>1. CASE UNCHANGED <<allowed, revoked>>
  BY <1>1
<1>2. CASE Handshake
  BY <1>1, <1>2, ZenonT(40) DEF Handshake, PeerHelloClient, PeerHelloBackend, PeerHelloBackendFails, TakeLease
<1>3. CASE PeerMessage
  BY <1>1, <1>3 DEF PeerMessage, BackendHeartbeat, ChannelOpen, ChannelReject, ChannelClose,
     TopicPublish, TopicSubscribe, TopicUnsubscribe, stateVars
<1>4. CASE Socket
  BY <1>1, <1>4 DEF Socket, PeerDisconnects, Disconnect, Pong, Dial, DialRefused, LegHangsUp,
     LegClosed, HttpResponseCloses, stateVars
<1>5. CASE Timer
  BY <1>1, <1>5 DEF Timer, PingRound, Disconnect, LeaseCheck, RegistryPoll, LeaseTtlElapses,
     SweepTickets, TicketTtlElapses, PairingTimeout, HttpTimerFires, stateVars
<1>6. CASE Http
  <2>1. ASSUME NEW R \in SUBSET Creds, Revoke(R)
        PROVE  UNCHANGED allowed /\ revoked' = revoked \cup R /\ ClosePeersOf(R)
    BY <2>1 DEF Revoke
  <2>2. ASSUME NEW c \in DeviceCreds, NEW scope \in SUBSET Backends, ChangeScope(c, scope)
        PROVE  /\ UNCHANGED revoked
               /\ allowed' = [allowed EXCEPT ![c] = scope] /\ ClosePeersOf({c})
    BY <2>2 DEF ChangeScope
  <2>3. ASSUME NEW c \in Creds, ExchangeToken(c)
        PROVE  UNCHANGED allowed /\ revoked' \subseteq revoked
    BY <2>3 DEF ExchangeToken
  <2> QED
    BY <1>1, <1>6, <2>1, <2>2, <2>3 DEF Http, ProxyRequest, stateVars
<1>7. CASE GatewayRestart
  BY <1>1, <1>7 DEF GatewayRestart
<1>8. CASE UNCHANGED vars
  BY <1>1, <1>8 DEF vars, stateVars
<1> QED
  BY <1>2, <1>3, <1>4, <1>5, <1>6, <1>7, <1>8 DEF Next

LEMMA ClosedPeers ==
  ASSUME TypeOK, NEW C, ClosePeersOf(C), NEW q \in Sessions, peers'[q].ws = "open"
  PROVE  peers'[q] = peers[q] /\ peers[q].cred \notin C
<1>1. ~(Live(q) /\ peers[q].cred \in C)
  BY SlotUpdatesKeep DEF ClosePeersOf, TypeOK, StateTypeOK
<1>2. peers'[q] = peers[q]
  BY <1>1 DEF ClosePeersOf
<1> QED
  BY <1>1, <1>2 DEF Live

\* Revocation and a change of scope miss no open peer, also one that says
\* hello while they are under way: an open peer's credential is not revoked
\* and its scope is the one the credential has now.
THEOREM OpenPeersAuthorizedHolds == Spec => []OpenPeersAuthorized
<1>1. Init => OpenPeersAuthorized
  BY DEF Init, StateInit, EmptySlot, OpenPeersAuthorized
<1>2. TypeOK /\ OpenPeersAuthorized /\ [Next]_vars => OpenPeersAuthorized'
  <2> SUFFICES ASSUME TypeOK, OpenPeersAuthorized, [Next]_vars,
                      NEW q \in Sessions, peers'[q].ws = "open"
               PROVE  /\ peers'[q].cred \notin revoked'
                      /\ peers'[q].allowedBackends = allowed'[peers'[q].cred]
    BY DEF OpenPeersAuthorized
  <2>1. Kept(q) \/ Greeted(q)
    BY SessionSteps DEF SessionStep
  <2>2. CASE Greeted(q)
    BY <2>2 DEF Greeted
  <2>3. CASE Kept(q)
    <3>1. /\ peers[q].cred \notin revoked /\ peers'[q].cred = peers[q].cred
          /\ peers'[q].allowedBackends = allowed[peers[q].cred]
      BY <2>3 DEF Kept, OpenPeersAuthorized
    <3>2. CASE UNCHANGED allowed /\ revoked' \subseteq revoked
      BY <3>1, <3>2
    <3>3. ASSUME NEW R, revoked' = revoked \cup R, ClosePeersOf(R), UNCHANGED allowed
          PROVE  /\ peers'[q].cred \notin revoked'
                 /\ peers'[q].allowedBackends = allowed'[peers'[q].cred]
      BY <3>1, <3>3, ClosedPeers
    <3>4. ASSUME NEW c, NEW scope, allowed' = [allowed EXCEPT ![c] = scope],
                 ClosePeersOf({c}), UNCHANGED revoked
          PROVE  /\ peers'[q].cred \notin revoked'
                 /\ peers'[q].allowedBackends = allowed'[peers'[q].cred]
      <4>1. peers[q].cred # c
        BY <3>4, ClosedPeers
      <4>2. allowed'[peers[q].cred] = allowed[peers[q].cred]
        BY <3>4, <4>1 DEF TypeOK, StateTypeOK
      <4> QED
        BY <3>1, <3>4, <4>2
    <3> QED
      BY <3>2, <3>3, <3>4, CredentialSteps
  <2> QED
    BY <2>1, <2>2, <2>3
<1> QED
  BY TypeCorrect, <1>1, <1>2, PTL DEF Spec

-----------------------------------------------------------------------------
(***************************************************************************)
(* What open peers have been sent of the registry.                         *)
(***************************************************************************)

\* Either some peers are sent a snapshot, all of them if the registry
\* changed, or nothing that a snapshot depends on changes.
ViewStep ==
  \/ \E Told : SendSnapshots(Told) /\ (Told = Sessions \/ UNCHANGED registry)
  \/ /\ UNCHANGED <<registry, views>>
     /\ \A s \in Sessions : /\ peers'[s].ws = peers[s].ws
                            /\ peers'[s].cred = peers[s].cred
                            /\ peers'[s].allowedBackends = peers[s].allowedBackends

LEMMA ViewSteps ==
  ASSUME TypeOK, OwnershipInv, [Next]_vars
  PROVE  ViewStep
<1> USE DEF ViewStep
<1>1. CASE UNCHANGED stateVars
  BY <1>1 DEF stateVars
<1>2. CASE Handshake
  BY <1>2 DEF Handshake, PeerHelloClient, PeerHelloBackend, PeerHelloBackendFails
<1>3. ASSUME NEW Gone, Disconnect(Gone) PROVE ViewStep
  <2> DEFINE lost == {b \in Backends : \E s \in Gone : peers[s].backendId = b /\ Owns(s)}
  <2>1. RemoveBackends(lost) /\ SendSnapshots(IF lost # {} THEN Sessions ELSE {})
    BY <1>3 DEF Disconnect, BroadcastIf
  <2>2. lost = {} => registry' = registry
    BY <2>1 DEF RemoveBackends, TypeOK, StateTypeOK
  <2> QED
    BY <2>1, <2>2
<1>4. CASE PeerMessage
  <2>1. ASSUME NEW s \in Sessions, NEW e \in Epochs, BackendHeartbeat(s, e) PROVE ViewStep
    BY <2>1 DEF BackendHeartbeat
  <2> QED
    BY <1>1, <1>4, <2>1 DEF PeerMessage, ChannelOpen, ChannelReject, ChannelClose,
       TopicPublish, TopicSubscribe, TopicUnsubscribe
<1>5. CASE Socket
  <2>1. ASSUME NEW s \in Sessions, Pong(s) PROVE ViewStep
    BY <2>1, SlotUpdatesKeep DEF Pong, TypeOK, StateTypeOK
  <2> QED
    BY <1>1, <1>3, <1>5, <2>1 DEF Socket, PeerDisconnects, Dial, DialRefused, LegHangsUp,
       LegClosed, HttpResponseCloses
<1>6. CASE Timer
  <2>1. ASSUME NEW b \in Backends, LeaseTtlElapses(b) PROVE ViewStep
    BY <2>1 DEF LeaseTtlElapses
  <2>2. CASE LeaseCheck \/ RegistryPoll
    BY <2>2 DEF LeaseCheck, RegistryPoll, BroadcastIf
  <2> QED
    BY <1>1, <1>3, <1>6, <2>1, <2>2 DEF Timer, PingRound, SweepTickets, TicketTtlElapses,
       PairingTimeout, HttpTimerFires
<1>7. CASE Http
  <2>1. ASSUME NEW R, Revoke(R) PROVE ViewStep
    BY <2>1 DEF Revoke
  <2>2. ASSUME NEW c, NEW scope, ChangeScope(c, scope) PROVE ViewStep
    BY <2>2 DEF ChangeScope
  <2>3. ASSUME NEW c, ExchangeToken(c) PROVE ViewStep
    BY <2>3 DEF ExchangeToken
  <2> QED
    BY <1>1, <1>7, <2>1, <2>2, <2>3 DEF Http, ProxyRequest
<1>8. CASE GatewayRestart
  <2>1. SendSnapshots({}) /\ SendSnapshots(Sessions)
    <3>1. \A s \in Sessions : peers'[s].ws # "open"
      BY <1>8, DropsKeep DEF GatewayRestart, Live
    <3> QED
      BY <1>8, <3>1 DEF GatewayRestart, SendSnapshots
  <2> QED
    BY <2>1
<1>9. CASE UNCHANGED vars
  BY <1>1, <1>9 DEF vars
<1> QED
  BY <1>2, <1>4, <1>5, <1>6, <1>7, <1>8, <1>9 DEF Next

LEMMA ViewsInductive ==
  ASSUME TypeOK, TypeOK', OwnershipInv, ViewsFresh, [Next]_vars
  PROVE  ViewsFresh'
<1> SUFFICES ASSUME NEW q \in Sessions, NEW b \in Backends
             PROVE  views'[q][b] = IF peers'[q].ws = "open" /\ CanReach(q, b)'
                                   THEN registry'[b] ELSE 0
  BY DEF ViewsFresh
<1>1. \/ peers'[q].ws # "open"
      \/ Kept(q) \/ Greeted(q)
  BY SessionSteps DEF SessionStep
<1>2. views[q][b] = IF peers[q].ws = "open" /\ CanReach(q, b) THEN registry[b] ELSE 0
  BY DEF ViewsFresh
<1>3. ASSUME views'[q] = VisibleAfter(q), peers'[q].ws = "open"
      PROVE  views'[q][b] = IF CanReach(q, b)' THEN registry'[b] ELSE 0
  BY <1>3 DEF VisibleAfter, CanReach, InScope
<1>4. ASSUME UNCHANGED registry, views'[q] = views[q], Kept(q)
      PROVE  views'[q][b] = IF CanReach(q, b)' THEN registry'[b] ELSE 0
  BY <1>2, <1>4 DEF Kept, CanReach, InScope
<1>5. ASSUME NEW Told, SendSnapshots(Told), Told = Sessions \/ UNCHANGED registry
      PROVE  views'[q][b] = IF peers'[q].ws = "open" /\ CanReach(q, b)'
                            THEN registry'[b] ELSE 0
  <2>1. CASE peers'[q].ws # "open"
    BY <1>5, <2>1 DEF SendSnapshots, NoView
  <2>2. CASE peers'[q].ws = "open" /\ Greeted(q)
    BY <1>3, <2>2 DEF Greeted
  <2>3. CASE peers'[q].ws = "open" /\ Kept(q)
    BY <1>3, <1>4, <1>5, <2>3 DEF SendSnapshots
  <2> QED
    BY <1>1, <2>1, <2>2, <2>3
<1>6. ASSUME UNCHANGED <<registry, views>>, peers'[q].ws = peers[q].ws,
             peers'[q].cred = peers[q].cred,
             peers'[q].allowedBackends = peers[q].allowedBackends
      PROVE  views'[q][b] = IF peers'[q].ws = "open" /\ CanReach(q, b)'
                            THEN registry'[b] ELSE 0
  BY <1>2, <1>6 DEF CanReach, InScope
<1> QED
  BY <1>5, <1>6, ViewSteps DEF ViewStep

\* Whichever handler changes the registry, every open peer is sent the
\* registry as the handler leaves it, restricted to what the peer may see.
THEOREM ViewsFreshHolds == Spec => []ViewsFresh
<1>1. Init => ViewsFresh
  BY DEF Init, StateInit, EmptySlot, NoView, ViewsFresh
<1>2. TypeOK /\ TypeOK' /\ OwnershipInv /\ ViewsFresh /\ [Next]_vars => ViewsFresh'
  BY ViewsInductive
<1> QED
  BY TypeCorrect, OwnershipCorrect, <1>1, <1>2, PTL DEF Spec

\* What a step may make of the lease and of the presence of backend b.
LEMMA EpochSteps ==
  ASSUME TypeOK, OwnershipInv, [Next]_vars, NEW b \in Backends
  PROVE  /\ leases'[b].epoch \in {0, leases[b].epoch} \/ leases'[b].epoch > maxEpoch
         /\ registry'[b] = 0 \/ registry'[b] >= registry[b]
<1>1. /\ maxEpoch \in Nat /\ leases[b].epoch \in Nat /\ registry[b] \in Nat
      /\ leases[b].epoch <= maxEpoch
  BY MaxEpochAssumption DEF TypeOK, StateTypeOK, LeaseRecords, Epochs, OwnershipInv, LeasesKnown
<1>2. registry[b] <= maxEpoch
  BY <1>1 DEF OwnershipInv, RegistryTruthful, Present
<1>3. CASE FlagStep
  BY <1>1, <1>3 DEF FlagStep
<1>4. ASSUME NEW S \in SUBSET Sessions, NEW B \in SUBSET Backends, DropStep(S, B)
      PROVE  leases'[b].epoch \in {0, leases[b].epoch} /\ registry'[b] \in {0, registry[b]}
  BY <1>4 DEF DropStep, RemoveBackends, NoLease
<1>5. ASSUME NEW s \in Sessions, NEW ws, NEW c, PeerHelloClient(s, ws, c)
      PROVE  UNCHANGED <<leases, registry>>
  BY <1>5 DEF PeerHelloClient
<1>6. ASSUME NEW s \in Sessions, NEW ws \in {"open", "closing"}, NEW c \in Creds,
             NEW d \in Backends, PeerHelloBackend(s, ws, c, d) \/ PeerHelloBackendFails(s, c, d)
      PROVE  /\ leases'[b].epoch \in {leases[b].epoch, maxEpoch + 1}
             /\ registry'[b] \in {registry[b], maxEpoch + 1}
  BY <1>6 DEF PeerHelloBackend, PeerHelloBackendFails, TakeLease, TypeOK, StateTypeOK
<1> QED
  BY <1>1, <1>2, <1>3, <1>4, <1>5, <1>6, OwnershipSteps

\* Epochs order the owners of a backend across take-overs, failures and
\* restarts, and no peer is shown a backend that goes back to an earlier one.
THEOREM EpochsOnlyAdvanceHolds == Spec => EpochsOnlyAdvance
<1> DEFINE Step ==
      \A b \in Backends :
         /\ leases'[b].epoch \in {0, leases[b].epoch} \/ leases'[b].epoch > maxEpoch
         /\ \A s \in Sessions : views'[s][b] = 0 \/ views'[s][b] >= views[s][b]
<1>1. ASSUME TypeOK, TypeOK', OwnershipInv, ViewsFresh, [Next]_vars PROVE Step
  <2> SUFFICES ASSUME NEW b \in Backends, NEW s \in Sessions, views'[s][b] # 0
               PROVE  views'[s][b] >= views[s][b]
    BY <1>1, EpochSteps
  <2>1. views'[s][b] = registry'[b]
    BY <1>1, ViewsInductive DEF ViewsFresh
  <2>2. views[s][b] \in {0, registry[b]}
    BY <1>1 DEF ViewsFresh
  <2>3. registry[b] \in Nat /\ registry'[b] \in Nat
    BY <1>1, MaxEpochAssumption DEF TypeOK, StateTypeOK, Epochs
  <2> QED
    BY <1>1, <2>1, <2>2, <2>3, EpochSteps
<1>2. TypeOK /\ TypeOK' /\ OwnershipInv /\ ViewsFresh /\ [Next]_vars => [Step]_vars
  BY <1>1
<1> QED
  BY TypeCorrect, OwnershipCorrect, ViewsFreshHolds, <1>2, PTL DEF Spec, EpochsOnlyAdvance

-----------------------------------------------------------------------------
(***************************************************************************)
(* The channels and the topics.                                            *)
(***************************************************************************)
\* The record of channel ch names the same ends, of the same epoch.
SameCore(ch) ==
  /\ channels'[ch].status = channels[ch].status
  /\ channels'[ch].backend = channels[ch].backend
  /\ channels'[ch].epoch = channels[ch].epoch
  /\ channels'[ch].client = channels[ch].client
  /\ channels'[ch].owner = channels[ch].owner

\* A step that tears down some channels and says why.
TeardownStep ==
  \E Doomed : \E why : Teardown(Doomed, why) /\ \A ch \in Doomed \cap ChannelIds : why[ch] \in Reasons

\* A step that leaves the channels alone, but for tickets that are used up
\* and for sockets that are closed.
IdleStep ==
  /\ UNCHANGED channels
  /\ channelTickets' \subseteq channelTickets
  /\ \/ TellNobody
     \/ /\ UNCHANGED told
        /\ \A s \in Sessions : peers[s].ws = "open" => peers'[s].ws = "open"

\* A step of the data sockets of one channel.
LegStep ==
  /\ UNCHANGED stateVars
  /\ \E ch \in ChannelIds : \/ \E r \in Roles : Dial(ch, r) \/ LegHangsUp(ch, r)
                            \/ TicketTtlElapses(ch)

\* A step that creates a channel to the connected owner of its backend, for
\* a peer that reaches the backend or for the gateway itself.
CreateStep ==
  /\ UNCHANGED <<stateVars, topicVars>>
  /\ \E ch \in ChannelIds, b \in Backends :
        /\ channels[ch].status = "new" /\ OwnerLive(b)
        /\ \/ \E s \in Sessions : /\ Live(s) /\ CanReach(s, b)
                                  /\ CreateChannel(ch, b, s, Roles)
           \/ CreateChannel(ch, b, NoSession, {"backend"})

\* For channels, every step of the gateway is of one of five kinds.
LEMMA ChannelSteps ==
  ASSUME TypeOK, [Next]_vars
  PROVE  TeardownStep \/ IdleStep \/ LegStep \/ CreateStep \/ GatewayRestart
<1>1. ASSUME NEW D, NEW reason \in Reasons, TeardownAll(D, reason)
      PROVE  TeardownStep
  BY <1>1 DEF TeardownAll, TeardownStep
<1>2. ASSUME UNCHANGED channelVars,
             \A s \in Sessions : peers[s].ws = "open" => peers'[s].ws = "open"
      PROVE  IdleStep
  BY <1>2 DEF IdleStep, channelVars
<1>3. ASSUME NEW Gone, Disconnect(Gone) PROVE TeardownStep
  <2> DEFINE offline == ChannelsOfBackends({b \in Backends :
                           \E s \in Gone : peers[s].backendId = b /\ Owns(s)})
             why == [ch \in ChannelIds |-> IF ch \in offline THEN "backend_offline" ELSE "closed"]
  <2>1. Teardown(offline \cup ChannelsOfPeers(Gone), why)
    BY <1>3 DEF Disconnect
  <2>2. \A ch \in ChannelIds : why[ch] \in Reasons
    BY DEF Reasons
  <2> QED
    BY <2>1, <2>2 DEF TeardownStep
<1>4. /\ "timeout" \in Reasons /\ "closed" \in Reasons /\ "rejected" \in Reasons
      /\ "epoch_changed" \in Reasons /\ "backend_offline" \in Reasons
  BY DEF Reasons
<1>5. CASE Handshake
  <2>1. PICK s \in Sessions, ws \in {"open", "closing"}, c \in Creds :
          \/ PeerHelloClient(s, ws, c)
          \/ \E b \in Backends : \/ PeerHelloBackend(s, ws, c, b)
                                 \/ PeerHelloBackendFails(s, c, b)
    BY <1>5 DEF Handshake
  <2>2. CASE PeerHelloClient(s, ws, c)
    BY <1>2, <2>2 DEF PeerHelloClient, TypeOK, StateTypeOK
  <2>3. ASSUME NEW b \in Backends, TakeLease(s, b) PROVE TeardownStep
    BY <1>1, <1>4, <2>3 DEF TakeLease
  <2> QED
    BY <2>1, <2>2, <2>3 DEF PeerHelloBackend, PeerHelloBackendFails
<1>6. CASE PeerMessage
  <2>1. ASSUME NEW s \in Sessions, NEW e \in Epochs, BackendHeartbeat(s, e) PROVE IdleStep
    BY <1>2, <2>1 DEF BackendHeartbeat
  <2>2. ASSUME NEW s \in Sessions, NEW b \in Backends, NEW ch \in ChannelIds, ChannelOpen(s, b, ch)
        PROVE  CreateStep
    BY <2>2 DEF ChannelOpen, CreateStep
  <2>3. ASSUME NEW s, NEW ch, ChannelReject(s, ch) \/ ChannelClose(s, ch) PROVE TeardownStep
    BY <1>1, <1>4, <2>3 DEF ChannelReject, ChannelClose
  <2>4. ASSUME NEW s, NEW t, UNCHANGED channelVars,
               TopicPublish(s, t) \/ \E b : TopicSubscribe(s, b, t) \/ TopicUnsubscribe(s, b, t)
        PROVE  IdleStep
    BY <1>2, <2>4 DEF TopicPublish, TopicSubscribe, TopicUnsubscribe, stateVars
  <2> QED
    BY <1>6, <2>1, <2>2, <2>3, <2>4 DEF PeerMessage
<1>7. CASE Socket
  <2>1. ASSUME NEW s \in Sessions, Pong(s) PROVE IdleStep
    BY <1>2, <2>1, SlotUpdatesKeep, ZenonT(40) DEF Pong, TypeOK, StateTypeOK
  <2>2. ASSUME NEW ch, NEW r, DialRefused(ch, r) PROVE IdleStep
    BY <2>2 DEF DialRefused, IdleStep, stateVars
  <2>3. ASSUME NEW ch, LegClosed(ch) \/ HttpResponseCloses(ch) PROVE TeardownStep
    BY <1>1, <1>4, <2>3 DEF LegClosed, HttpResponseCloses
  <2>4. ASSUME NEW ch \in ChannelIds, NEW r \in Roles, Dial(ch, r) \/ LegHangsUp(ch, r)
        PROVE  LegStep
    BY <2>4 DEF LegStep, Dial, LegHangsUp
  <2> QED
    BY <1>3, <1>7, <2>1, <2>2, <2>3, <2>4 DEF Socket, PeerDisconnects
<1>8. CASE Timer
  <2>1. ASSUME NEW b, LeaseTtlElapses(b) PROVE IdleStep
    BY <1>2, <2>1 DEF LeaseTtlElapses
  <2>2. CASE RegistryPoll
    BY <1>2, <2>2 DEF RegistryPoll
  <2>3. CASE LeaseCheck
    BY <1>1, <1>4, <2>3 DEF LeaseCheck
  <2>4. CASE SweepTickets
    BY <2>4 DEF SweepTickets, IdleStep, stateVars
  <2>5. ASSUME NEW ch \in ChannelIds, TicketTtlElapses(ch) PROVE LegStep
    BY <2>5 DEF LegStep, TicketTtlElapses
  <2>6. ASSUME NEW ch, PairingTimeout(ch) \/ HttpTimerFires(ch) PROVE TeardownStep
    BY <1>1, <1>4, <2>6 DEF PairingTimeout, HttpTimerFires
  <2> QED
    BY <1>3, <1>8, <2>1, <2>2, <2>3, <2>4, <2>5, <2>6 DEF Timer, PingRound
<1>9. CASE Http
  <2>1. ASSUME NEW c \in Creds, NEW b \in Backends, NEW ch \in ChannelIds, ProxyRequest(c, b, ch)
        PROVE  CreateStep
    BY <2>1 DEF ProxyRequest, CreateStep
  <2>2. ASSUME NEW R, Revoke(R) PROVE IdleStep
    BY <2>2 DEF Revoke, IdleStep
  <2>3. ASSUME NEW c, NEW scope, ChangeScope(c, scope) PROVE IdleStep
    BY <2>3 DEF ChangeScope, IdleStep
  <2>4. ASSUME NEW c, ExchangeToken(c) PROVE IdleStep
    BY <1>2, <2>4 DEF ExchangeToken
  <2> QED
    BY <1>9, <2>1, <2>2, <2>3, <2>4 DEF Http
<1>10. CASE UNCHANGED vars
  BY <1>2, <1>10 DEF vars, stateVars
<1> QED
  BY <1>5, <1>6, <1>7, <1>8, <1>9, <1>10 DEF Next

\* The data sockets of a channel change nothing else of its record.
LEMMA LegsKeepCore ==
  ASSUME TypeOK, LegStep, NEW ch \in ChannelIds
  PROVE  SameCore(ch) /\ (Open(ch)' <=> Open(ch))
<1> SUFFICES SameCore(ch)
  BY DEF SameCore, Open
<1> USE DEF SameCore
<1>1. ASSUME NEW c \in ChannelRecords
      PROVE  /\ LET d == WithDue(c)
                IN  /\ d.status = c.status /\ d.backend = c.backend /\ d.epoch = c.epoch
                    /\ d.client = c.client /\ d.owner = c.owner
             /\ \A r, l, p : LET d == WithLeg(c, r, l, p)
                IN  /\ d.status = c.status /\ d.backend = c.backend /\ d.epoch = c.epoch
                    /\ d.client = c.client /\ d.owner = c.owner
  BY DEF WithDue, WithLeg, ChannelRecords
<1>2. \A d \in ChannelIds : channels[d] \in ChannelRecords
  BY DEF TypeOK, ChannelsTypeOK
<1>3. ASSUME NEW d \in ChannelIds, TicketTtlElapses(d)
      PROVE  SameCore(ch)
  BY <1>1, <1>2, <1>3 DEF TicketTtlElapses, TypeOK, ChannelsTypeOK
<1>4. ASSUME NEW d \in ChannelIds, NEW r, NEW l, NEW p,
             channels' = [channels EXCEPT ![d] = WithLeg(channels[d], r, l, p)]
      PROVE  SameCore(ch)
  BY <1>1, <1>2, <1>4 DEF TypeOK, ChannelsTypeOK
<1>5. ASSUME NEW d \in ChannelIds, NEW r, Dial(d, r)
      PROVE  SameCore(ch)
  <2> DEFINE ready == Internal(d) \/ \A q \in Roles \ {r} : channels[d].legs[q] # "none"
  <2>1. channels' = [channels EXCEPT ![d] = WithLeg(channels[d], r, "up", ready)]
    BY <1>5 DEF Dial
  <2> HIDE DEF ready
  <2> QED
    BY <1>4, <2>1
<1>6. ASSUME NEW d \in ChannelIds, NEW r, LegHangsUp(d, r)
      PROVE  SameCore(ch)
  BY <1>4, <1>6 DEF LegHangsUp
<1> QED
  BY <1>3, <1>5, <1>6 DEF LegStep

\* An open channel was open before, with the same ends and epoch, unless the
\* step created it.
LEMMA CoreSteps ==
  ASSUME TypeOK, [Next]_vars, NEW ch \in ChannelIds, Open(ch)'
  PROVE  \/ Open(ch) /\ SameCore(ch)
         \/ CreateStep /\ channels[ch].status = "new"
<1> USE DEF Open, SameCore
<1>1. CASE TeardownStep
  BY <1>1 DEF TeardownStep, Teardown, EmptyChannel
<1>2. CASE IdleStep
  BY <1>2 DEF IdleStep
<1>3. CASE LegStep
  BY <1>3, LegsKeepCore
<1>4. CASE CreateStep
  BY <1>4 DEF CreateStep, CreateChannel, TypeOK, ChannelsTypeOK
<1>5. CASE GatewayRestart
  BY <1>5 DEF GatewayRestart, EmptyChannel
<1> QED
  BY <1>1, <1>2, <1>3, <1>4, <1>5, ChannelSteps

-----------------------------------------------------------------------------
(***************************************************************************)
(* The epoch a channel belongs to.                                         *)
(***************************************************************************)

\* The backend end of an open channel is the connected owner of its backend.
LEMMA ChannelBacked ==
  ASSUME TypeOK, OwnershipInv, ChannelsOfCurrentEpoch, NEW ch \in ChannelIds, Open(ch)
  PROVE  /\ channels[ch].backend \in Backends /\ channels[ch].owner \in Sessions
         /\ Live(channels[ch].owner) /\ OwnerLive(channels[ch].backend)
         /\ leases[channels[ch].backend].session = channels[ch].owner
         /\ leases[channels[ch].backend].epoch = channels[ch].epoch
         /\ peers[channels[ch].owner].backendId = channels[ch].backend
<1> DEFINE b == channels[ch].backend
           o == channels[ch].owner
<1>1. /\ b \in Backends /\ Live(o) /\ leases[b].session = o
      /\ leases[b].epoch = channels[ch].epoch
  BY DEF ChannelsOfCurrentEpoch
<1>2. o \in Sessions /\ o # NoSession
  BY <1>1, SessionsAssumption DEF Live
<1>3. Leased(b)
  BY <1>1, <1>2 DEF OwnershipInv, LeasesKnown
<1>4. OwnerLive(b)
  BY <1>1, <1>3 DEF OwnerLive
<1> QED
  BY <1>1, <1>2, <1>4 DEF OwnershipInv, LeasesKnown

\* Whichever handler takes a lease or a session away, the channels that
\* depend on it go with it.
LEMMA ChannelsSurvive ==
  ASSUME TypeOK, OwnershipInv, ChannelsOfCurrentEpoch, [Next]_vars,
         NEW ch \in ChannelIds, Open(ch), Open(ch)'
  PROVE  /\ peers'[channels[ch].owner].ws \in {"open", "closing"}
         /\ leases'[channels[ch].backend].session = leases[channels[ch].backend].session
         /\ leases'[channels[ch].backend].epoch = leases[channels[ch].backend].epoch
<1>0. PICK b \in Backends, o \in Sessions :
         /\ b = channels[ch].backend /\ o = channels[ch].owner
         /\ Live(o) /\ OwnerLive(b) /\ leases[b].session = o /\ peers[o].backendId = b
  BY ChannelBacked
<1> DEFINE Goal == /\ peers'[o].ws \in {"open", "closing"}
                   /\ leases'[b].session = leases[b].session
                   /\ leases'[b].epoch = leases[b].epoch
<1> SUFFICES Goal
  BY <1>0
<1>1. ASSUME NEW Doomed, NEW why, Teardown(Doomed, why) PROVE ch \notin Doomed
  BY <1>1 DEF Teardown, EmptyChannel, Open
<1>2. CASE FlagStep
  BY <1>0, <1>2 DEF FlagStep, Live
<1>3. CASE LeaseCheck
  <2>1. b \notin Expired
    BY <1>0, <1>1, <1>3 DEF LeaseCheck, TeardownAll, ChannelsOfBackends
  <2>2. o \notin ExpiredOwners
    <3> SUFFICES ASSUME NEW d \in Expired, leases[d].session = o PROVE FALSE
      BY DEF ExpiredOwners
    <3>1. d \in Backends /\ OwnerLive(d)
      BY <1>0 DEF Expired, OwnerLive
    <3>2. peers[o].backendId = d
      BY <3>1 DEF OwnershipInv, LeasesKnown
    <3> QED
      BY <1>0, <2>1, <3>2
  <2>3. leases'[b] = leases[b] /\ peers'[o] = peers[o]
    BY <1>0, <1>3, <2>1, <2>2 DEF LeaseCheck, RemoveBackends, PeersWithout
  <2> QED
    BY <1>0, <2>3 DEF Live
<1>4. ASSUME NEW Gone, Disconnect(Gone),
             \A s \in Sessions \ Gone : peers'[s].ws = peers[s].ws
      PROVE  Goal
  <2> DEFINE lost == {d \in Backends : \E s \in Gone : peers[s].backendId = d /\ Owns(s)}
             why == [c \in ChannelIds |->
                       IF c \in ChannelsOfBackends(lost) THEN "backend_offline" ELSE "closed"]
  <2>1. RemoveBackends(lost) /\ Teardown(ChannelsOfBackends(lost) \cup ChannelsOfPeers(Gone), why)
    BY <1>4 DEF Disconnect
  <2>2. ch \notin ChannelsOfBackends(lost) /\ ch \notin ChannelsOfPeers(Gone)
    BY <1>1, <2>1
  <2> HIDE DEF lost
  <2>3. b \notin lost /\ o \notin Gone
    BY <1>0, <2>2 DEF ChannelsOfBackends, ChannelsOfPeers, Ends
  <2>4. leases'[b] = leases[b] /\ peers'[o].ws = peers[o].ws
    BY <1>0, <1>4, <2>1, <2>3 DEF RemoveBackends
  <2> QED
    BY <1>0, <2>4 DEF Live
<1>5. CASE PingRound
  <2>1. \A s \in Sessions \ Silent : peers'[s].ws = peers[s].ws
    BY <1>5, DropsKeep, SlotUpdatesKeep DEF PingRound
  <2> QED
    BY <1>4, <1>5, <2>1 DEF PingRound
<1>6. ASSUME NEW s \in Sessions, PeerDisconnects(s) PROVE Goal
  BY <1>4, <1>6, DropsKeep DEF PeerDisconnects
<1>7. CASE GatewayRestart
  BY <1>7 DEF GatewayRestart, EmptyChannel, Open
<1>8. CASE Handshake
  <2>1. PICK s \in Sessions, ws \in {"open", "closing"}, c \in Creds :
          \/ PeerHelloClient(s, ws, c)
          \/ \E d \in Backends : \/ PeerHelloBackend(s, ws, c, d)
                                 \/ PeerHelloBackendFails(s, c, d)
    BY <1>8 DEF Handshake
  <2>2. CASE PeerHelloClient(s, ws, c)
    BY <1>0, <2>2 DEF PeerHelloClient, Live, TypeOK, StateTypeOK
  <2>3. ASSUME NEW d \in Backends, NEW mine, peers[s].ws = "new",
               peers' = PeersAfterHello(s, d, mine), TakeLease(s, d)
        PROVE  Goal
    <3>1. d # b
      <4> SUFFICES ASSUME d = b PROVE FALSE
        OBVIOUS
      <4>1. TeardownAll(ChannelsOfBackends({b}), "epoch_changed")
        BY <1>0, <2>3 DEF TakeLease, OwnerLive
      <4> QED
        BY <1>0, <1>1, <4>1 DEF TeardownAll, ChannelsOfBackends
    <3>2. leases'[b] = leases[b]
      BY <1>0, <2>3, <3>1 DEF TakeLease, TypeOK, StateTypeOK
    <3>3. o # s
      BY <1>0, <2>3 DEF Live
    <3>4. peers'[o] = peers[o] \/ peers'[o] = Deposed(peers[o])
      BY <1>0, <2>3, <3>3 DEF PeersAfterHello
    <3>5. Deposed(peers[o]).ws \in {"open", "closing"}
      BY <1>0 DEF Deposed, ClosingWs, Live, TypeOK, StateTypeOK, PeerRecords
    <3> QED
      BY <1>0, <3>2, <3>4, <3>5 DEF Live
  <2> QED
    BY <2>1, <2>2, <2>3 DEF PeerHelloBackend, PeerHelloBackendFails
<1>9. CASE UNCHANGED stateVars
  BY <1>2, <1>9, FlagSteps DEF stateVars, ownerVars
<1>10. CASE PeerMessage
  <2>1. ASSUME NEW s \in Sessions, NEW e \in Epochs, BackendHeartbeat(s, e) PROVE Goal
    BY <1>2, <2>1, FlagSteps
  <2> QED
    BY <1>9, <1>10, <2>1 DEF PeerMessage, ChannelOpen, ChannelReject, ChannelClose,
       TopicPublish, TopicSubscribe, TopicUnsubscribe
<1>11. CASE Socket
  <2>1. ASSUME NEW s \in Sessions, Pong(s) PROVE Goal
    BY <1>2, <2>1, FlagSteps
  <2> QED
    BY <1>6, <1>9, <1>11, <2>1 DEF Socket, Dial, DialRefused, LegHangsUp, LegClosed,
       HttpResponseCloses
<1>12. CASE Timer
  <2>1. ASSUME NEW d \in Backends, LeaseTtlElapses(d) PROVE Goal
    BY <1>2, <2>1, FlagSteps
  <2>2. CASE RegistryPoll
    BY <1>2, <2>2, FlagSteps DEF RegistryPoll, ownerVars
  <2> QED
    BY <1>3, <1>5, <1>9, <1>12, <2>1, <2>2 DEF Timer, SweepTickets, TicketTtlElapses,
       PairingTimeout, HttpTimerFires
<1>13. CASE Http
  <2>1. ASSUME NEW R \in SUBSET Creds, Revoke(R) PROVE Goal
    BY <1>2, <2>1, FlagSteps
  <2>2. ASSUME NEW c \in DeviceCreds, NEW scope \in SUBSET Backends, ChangeScope(c, scope)
        PROVE  Goal
    BY <1>2, <2>2, FlagSteps
  <2>3. ASSUME NEW c \in Creds, ExchangeToken(c) PROVE Goal
    BY <1>2, <2>3, FlagSteps
  <2> QED
    BY <1>9, <1>13, <2>1, <2>2, <2>3 DEF Http, ProxyRequest
<1>14. CASE UNCHANGED vars
  BY <1>9, <1>14 DEF vars
<1> QED
  BY <1>0, <1>7, <1>8, <1>10, <1>11, <1>12, <1>13, <1>14 DEF Next

\* What a created channel is.
LEMMA CreatedChannel ==
  ASSUME TypeOK, OwnershipInv, CreateStep, NEW ch \in ChannelIds,
         channels[ch].status = "new", Open(ch)'
  PROVE  LET c == channels'[ch]
         IN  /\ c.backend \in Backends /\ OwnerLive(c.backend)
             /\ c.owner = leases[c.backend].session /\ c.epoch = leases[c.backend].epoch
             /\ c.legs = NoLegs /\ ~c.piped /\ ~c.due
             /\ \/ c.client = NoSession
                \/ c.client \in Sessions /\ Live(c.client) /\ CanReach(c.client, c.backend)
<1> DEFINE Record(b, s) == [status |-> "open", backend |-> b, epoch |-> leases[b].epoch,
                            client |-> s, owner |-> leases[b].session, legs |-> NoLegs,
                            piped |-> FALSE, due |-> FALSE]
<1>1. ASSUME NEW d \in ChannelIds, NEW b, NEW s, channels' = [channels EXCEPT ![d] = Record(b, s)]
      PROVE  channels'[ch] = Record(b, s)
  <2>1. d = ch
    BY <1>1 DEF Open
  <2> HIDE DEF Record
  <2> QED
    BY <1>1, <2>1 DEF TypeOK, ChannelsTypeOK
<1>2. \E b \in Backends : \E s : /\ channels'[ch] = Record(b, s) /\ OwnerLive(b)
                                /\ \/ s = NoSession
                                   \/ s \in Sessions /\ Live(s) /\ CanReach(s, b)
  <2>1. PICK d \in ChannelIds, b \in Backends :
          /\ OwnerLive(b)
          /\ \/ \E s \in Sessions : /\ Live(s) /\ CanReach(s, b)
                                    /\ CreateChannel(d, b, s, Roles)
             \/ CreateChannel(d, b, NoSession, {"backend"})
    BY DEF CreateStep
  <2>2. \/ \E s \in Sessions : /\ Live(s) /\ CanReach(s, b)
                               /\ channels' = [channels EXCEPT ![d] = Record(b, s)]
        \/ channels' = [channels EXCEPT ![d] = Record(b, NoSession)]
    BY <2>1 DEF CreateChannel
  <2> HIDE DEF Record
  <2> QED
    BY <1>1, <2>1, <2>2
<1> QED
  BY <1>2

LEMMA EpochOfChannelsInductive ==
  ASSUME TypeOK, OwnershipInv, ChannelsOfCurrentEpoch, [Next]_vars
  PROVE  ChannelsOfCurrentEpoch'
<1> SUFFICES ASSUME NEW ch \in ChannelIds, Open(ch)'
             PROVE  /\ channels'[ch].backend \in Backends
                    /\ channels'[ch].owner \in Sessions
                    /\ peers'[channels'[ch].owner].ws \in {"open", "closing"}
                    /\ leases'[channels'[ch].backend].session = channels'[ch].owner
                    /\ leases'[channels'[ch].backend].epoch = channels'[ch].epoch
  BY DEF ChannelsOfCurrentEpoch, Live
<1>1. CASE Open(ch) /\ SameCore(ch)
  BY <1>1, ChannelBacked, ChannelsSurvive DEF SameCore
<1>2. CASE CreateStep /\ channels[ch].status = "new"
  <2>1. UNCHANGED stateVars
    BY <1>2 DEF CreateStep
  <2> QED
    BY <1>2, <2>1, CreatedChannel DEF OwnerLive, Live, stateVars
<1> QED
  BY <1>1, <1>2, CoreSteps

LEMMA ClientsKnownInductive ==
  ASSUME TypeOK, OwnershipInv, ClientsKnown, [Next]_vars
  PROVE  ClientsKnown'
<1> SUFFICES ASSUME NEW ch \in ChannelIds, Open(ch)', channels'[ch].client # NoSession
             PROVE  peers'[channels'[ch].client].ws # "new"
  BY DEF ClientsKnown, Internal
<1>1. CASE Open(ch) /\ SameCore(ch)
  <2>1. /\ channels'[ch].client = channels[ch].client /\ channels[ch].client \in Sessions
        /\ peers[channels[ch].client].ws # "new"
    BY <1>1 DEF SameCore, ClientsKnown, Internal, TypeOK, ChannelsTypeOK, ChannelRecords
  <2> QED
    BY <2>1, SessionSteps DEF SessionStep
<1>2. CASE CreateStep /\ channels[ch].status = "new"
  <2>1. UNCHANGED peers
    BY <1>2 DEF CreateStep, stateVars
  <2> QED
    BY <1>2, <2>1, CreatedChannel DEF Live
<1> QED
  BY <1>1, <1>2, CoreSteps

-----------------------------------------------------------------------------
(***************************************************************************)
(* Tickets and legs.                                                       *)
(***************************************************************************)

\* All legs of a channel have arrived.
Arrived(c) == \A r \in Roles : c.legs[r] # "none" \/ (r = "client" /\ c.client = NoSession)

LEMMA LegFields ==
  ASSUME NEW c \in ChannelRecords, NEW r \in Roles, NEW l \in {"up", "hungUp"}, NEW p \in BOOLEAN
  PROVE  LET d == WithLeg(c, r, l, p)
         IN  /\ d.status = c.status /\ d.client = c.client /\ d.piped = p /\ d.legs[r] = l
             /\ \A q \in Roles \ {r} : d.legs[q] = c.legs[q]
<1>1. c.legs \in [Roles -> {"none", "up", "hungUp"}]
  BY DEF ChannelRecords
<1> QED
  BY <1>1 DEF WithLeg, ChannelRecords

\* Tickets and pipes of one channel: what TicketsUnused says of it.
TicketsOf(ch) ==
  /\ \A r \in Roles : <<ch, r>> \in channelTickets =>
        /\ Open(ch) /\ ~channels[ch].piped /\ channels[ch].legs[r] = "none"
        /\ r = "client" => channels[ch].client # NoSession
  /\ Open(ch) => (channels[ch].piped <=> Arrived(channels[ch]))

LEMMA TicketsByChannel ==
  ASSUME channelTickets \subseteq ChannelIds \X Roles
  PROVE  TicketsUnused <=> \A ch \in ChannelIds : TicketsOf(ch)
<1>1. ASSUME TicketsUnused, NEW ch \in ChannelIds PROVE TicketsOf(ch)
  <2>1. ASSUME NEW r \in Roles, <<ch, r>> \in channelTickets
        PROVE  /\ Open(ch) /\ ~channels[ch].piped /\ channels[ch].legs[r] = "none"
               /\ r = "client" => channels[ch].client # NoSession
    <3> DEFINE t == <<ch, r>>
    <3>1. t \in channelTickets /\ t[1] = ch /\ t[2] = r
      BY <2>1
    <3> HIDE DEF t
    <3> QED
      BY <1>1, <3>1 DEF TicketsUnused, Internal
  <2> QED
    BY <1>1, <2>1 DEF TicketsUnused, TicketsOf, Arrived, Internal
<1>2. ASSUME \A ch \in ChannelIds : TicketsOf(ch) PROVE TicketsUnused
  <2>1. ASSUME NEW t \in channelTickets
        PROVE  /\ Open(t[1]) /\ ~channels[t[1]].piped /\ channels[t[1]].legs[t[2]] = "none"
               /\ t[2] = "client" => ~Internal(t[1])
    <3>1. t[1] \in ChannelIds /\ t[2] \in Roles /\ t = <<t[1], t[2]>>
      OBVIOUS
    <3>2. <<t[1], t[2]>> \in channelTickets
      BY <3>1
    <3> QED
      BY <1>2, <3>1, <3>2 DEF TicketsOf, Internal
  <2> QED
    BY <1>2, <2>1 DEF TicketsUnused, TicketsOf, Arrived, Internal
<1> QED
  BY <1>1, <1>2

LEMMA TicketsOfChannel ==
  ASSUME TypeOK, TypeOK', OwnershipInv, [Next]_vars, NEW ch \in ChannelIds, TicketsOf(ch)
  PROVE  TicketsOf(ch)'
<1> USE DEF TicketsOf, Open
<1>0. channels[ch] \in ChannelRecords /\ channels'[ch] \in ChannelRecords
  BY DEF TypeOK, ChannelsTypeOK
<1>1. ASSUME channels'[ch] = channels[ch], 
             \A r \in Roles : <<ch, r>> \in channelTickets' => <<ch, r>> \in channelTickets
      PROVE  TicketsOf(ch)'
  BY <1>1 DEF Arrived
<1>2. CASE TeardownStep
  <2>1. PICK Doomed : \E why : Teardown(Doomed, why)
    BY <1>2 DEF TeardownStep
  <2>2. /\ channels' = [c \in ChannelIds |-> IF c \in Doomed THEN EmptyChannel("closed")
                                             ELSE channels[c]]
        /\ channelTickets' = {t \in channelTickets : t[1] \notin Doomed}
    BY <2>1 DEF Teardown
  <2>3. CASE ch \in Doomed
    BY <2>2, <2>3 DEF EmptyChannel
  <2>4. CASE ch \notin Doomed
    BY <1>1, <2>2, <2>4
  <2> QED
    BY <2>3, <2>4
<1>3. CASE IdleStep
  BY <1>1, <1>3 DEF IdleStep
<1>4. CASE LegStep
  <2>1. ASSUME NEW d \in ChannelIds, NEW r \in Roles, Dial(d, r) PROVE TicketsOf(ch)'
    <3> DEFINE ready == Internal(d) \/ \A q \in Roles \ {r} : channels[d].legs[q] # "none"
    <3>1. /\ <<d, r>> \in channelTickets
          /\ channelTickets' = channelTickets \ {<<d, r>>}
          /\ channels' = [channels EXCEPT ![d] = WithLeg(channels[d], r, "up", ready)]
      BY <2>1 DEF Dial
    <3>2. ready \in BOOLEAN /\ (ready <=> Internal(d) \/ \A q \in Roles \ {r} : channels[d].legs[q] # "none")
      OBVIOUS
    <3> HIDE DEF ready
    <3>3. CASE d # ch
      BY <1>1, <3>1, <3>3 DEF TypeOK, ChannelsTypeOK
    <3>4. CASE d = ch
      <4> DEFINE c == channels'[ch]
      <4>1. c = WithLeg(channels[ch], r, "up", ready)
        BY <3>1, <3>4 DEF TypeOK, ChannelsTypeOK
      <4>2. /\ c.status = channels[ch].status /\ c.client = channels[ch].client
            /\ c.piped = ready /\ c.legs[r] = "up"
            /\ \A q \in Roles \ {r} : c.legs[q] = channels[ch].legs[q]
        BY <1>0, <3>2, <4>1, LegFields
      <4> HIDE DEF c
      <4>3. /\ channels[ch].status = "open" /\ channels[ch].legs[r] = "none"
            /\ r = "client" => channels[ch].client # NoSession
        BY <3>1, <3>4
      <4>4. c.piped <=> Arrived(c)
        BY <3>2, <3>4, <4>2, <4>3 DEF Arrived, Internal, Roles
      <4>5. ASSUME NEW q \in Roles, <<ch, q>> \in channelTickets'
            PROVE  ~c.piped /\ c.legs[q] = "none" /\ (q = "client" => c.client # NoSession)
        <5>1. q # r /\ <<ch, q>> \in channelTickets
          BY <3>1, <3>4, <4>5
        <5>2. channels[ch].legs[q] = "none" /\ (q = "client" => channels[ch].client # NoSession)
          BY <5>1
        <5>3. channels[ch].client # NoSession
          BY <4>3, <5>1, <5>2 DEF Roles
        <5> QED
          BY <3>2, <3>4, <4>2, <5>1, <5>2, <5>3 DEF Internal
      <4> QED
        BY <4>2, <4>3, <4>4, <4>5 DEF c
    <3> QED
      BY <3>3, <3>4
  <2>2. ASSUME NEW d \in ChannelIds, NEW r \in Roles, LegHangsUp(d, r) PROVE TicketsOf(ch)'
    <3>1. /\ channels[d].legs[r] = "up" /\ UNCHANGED channelTickets
          /\ channels' = [channels EXCEPT ![d] = WithLeg(channels[d], r, "hungUp", channels[d].piped)]
      BY <2>2 DEF LegHangsUp
    <3>2. CASE d # ch
      BY <1>1, <3>1, <3>2 DEF TypeOK, ChannelsTypeOK
    <3>3. CASE d = ch
      <4> DEFINE c == channels'[ch]
      <4>1. c = WithLeg(channels[ch], r, "hungUp", channels[ch].piped)
        BY <3>1, <3>3 DEF TypeOK, ChannelsTypeOK
      <4>2. channels[ch].piped \in BOOLEAN
        BY <1>0 DEF ChannelRecords
      <4>3. /\ c.status = channels[ch].status /\ c.client = channels[ch].client
            /\ c.piped = channels[ch].piped /\ c.legs[r] = "hungUp"
            /\ \A q \in Roles \ {r} : c.legs[q] = channels[ch].legs[q]
        BY <1>0, <4>1, <4>2, LegFields
      <4> HIDE DEF c
      <4>4. Arrived(c) <=> Arrived(channels[ch])
        BY <3>1, <3>3, <4>3 DEF Arrived
      <4> QED
        BY <3>1, <3>3, <4>3, <4>4 DEF c
    <3> QED
      BY <3>2, <3>3
  <2>3. ASSUME NEW d \in ChannelIds, TicketTtlElapses(d) PROVE TicketsOf(ch)'
    <3>1. /\ UNCHANGED channelTickets
          /\ channels' = [channels EXCEPT ![d] = WithDue(@)]
      BY <2>3 DEF TicketTtlElapses
    <3>2. /\ channels'[ch].status = channels[ch].status
          /\ channels'[ch].client = channels[ch].client
          /\ channels'[ch].piped = channels[ch].piped
          /\ channels'[ch].legs = channels[ch].legs
      BY <1>0, <3>1 DEF WithDue, TypeOK, ChannelsTypeOK, ChannelRecords
    <3> QED
      BY <3>1, <3>2 DEF Arrived
  <2> QED
    BY <1>4, <2>1, <2>2, <2>3 DEF LegStep
<1>5. CASE CreateStep
  <2>1. PICK d \in ChannelIds, b \in Backends :
          /\ channels[d].status = "new"
          /\ \/ \E s \in Sessions : CreateChannel(d, b, s, Roles)
             \/ CreateChannel(d, b, NoSession, {"backend"})
    BY <1>5 DEF CreateStep
  <2>2. ASSUME NEW s, NEW R, CreateChannel(d, b, s, R), R \subseteq Roles,
               "client" \in R => s # NoSession
        PROVE  TicketsOf(ch)'
    <3>1. /\ channelTickets' = channelTickets \cup ({d} \X R)
          /\ channels' = [channels EXCEPT ![d] =
                [status |-> "open", backend |-> b, epoch |-> leases[b].epoch,
                 client |-> s, owner |-> leases[b].session, legs |-> NoLegs,
                 piped |-> FALSE, due |-> FALSE]]
      BY <2>2 DEF CreateChannel
    <3>2. CASE d # ch
      BY <1>1, <3>1, <3>2 DEF TypeOK, ChannelsTypeOK
    <3>3. CASE d = ch
      <4>1. channels'[ch] = [status |-> "open", backend |-> b, epoch |-> leases[b].epoch,
                             client |-> s, owner |-> leases[b].session, legs |-> NoLegs,
                             piped |-> FALSE, due |-> FALSE]
        BY <3>1, <3>3 DEF TypeOK, ChannelsTypeOK
      <4>2. /\ channels'[ch].status = "open" /\ ~channels'[ch].piped /\ channels'[ch].client = s
            /\ channels'[ch].legs = NoLegs
        BY <4>1
      <4>3. \A r \in Roles : <<ch, r>> \in channelTickets' => r \in R
        BY <2>1, <3>1, <3>3
      <4>4. ~Arrived(channels'[ch])
        BY <4>2 DEF Arrived, NoLegs, Roles
      <4> QED
        BY <2>2, <4>2, <4>3, <4>4 DEF NoLegs
    <3> QED
      BY <3>2, <3>3
  <2>3. ASSUME NEW s \in Sessions, CreateChannel(d, b, s, Roles) PROVE TicketsOf(ch)'
    BY <2>2, <2>3, SessionsAssumption
  <2>4. ASSUME CreateChannel(d, b, NoSession, {"backend"}) PROVE TicketsOf(ch)'
    <3> DEFINE R == {"backend"}
    <3>1. R \subseteq Roles /\ "client" \notin R
      BY DEF Roles
    <3> HIDE DEF R
    <3>2. CreateChannel(d, b, NoSession, R)
      BY <2>4 DEF R
    <3> QED
      BY <2>2, <3>1, <3>2
  <2> QED
    BY <2>1, <2>3, <2>4
<1>6. CASE GatewayRestart
  <2>1. channelTickets' = {} /\ ~Open(ch)'
    BY <1>6 DEF GatewayRestart, EmptyChannel
  <2> QED
    BY <2>1
<1> QED
  BY <1>2, <1>3, <1>4, <1>5, <1>6, ChannelSteps

\* ChannelsInv channel by channel.
EveryChannelInv ==
  ChannelsOfCurrentEpoch /\ ClientsKnown /\ \A ch \in ChannelIds : TicketsOf(ch)

\* Every ending of a channel takes its unused tickets with it, a ticket is
\* used up before the leg it admits is wired, and no channel outlives the
\* epoch or the session of its backend end.
THEOREM ChannelsCorrect == Spec => []ChannelsInv
<1>1. Init => EveryChannelInv
  BY DEF Init, ChannelsInit, EmptyChannel, Open, EveryChannelInv, ChannelsOfCurrentEpoch,
     ClientsKnown, TicketsOf
<1>2. TypeOK /\ TypeOK' /\ OwnershipInv /\ EveryChannelInv /\ [Next]_vars => EveryChannelInv'
  BY TicketsOfChannel, EpochOfChannelsInductive, ClientsKnownInductive DEF EveryChannelInv
<1>3. TypeOK /\ EveryChannelInv => ChannelsInv
  BY TicketsByChannel DEF TypeOK, ChannelsTypeOK, EveryChannelInv, ChannelsInv
<1> QED
  BY TypeCorrect, OwnershipCorrect, <1>1, <1>2, <1>3, PTL DEF Spec

-----------------------------------------------------------------------------
(***************************************************************************)
(* What open peers are told of channels.                                   *)
(***************************************************************************)

\* The ends of an open channel have said hello.
LEMMA EndsKnown ==
  ASSUME TypeOK, OwnershipInv, ChannelsInv, NEW ch \in ChannelIds, Open(ch), NEW s \in Ends(ch) \cap Sessions
  PROVE  peers[s].ws # "new"
<1>1. CASE s = channels[ch].owner
  BY <1>1, ChannelBacked DEF ChannelsInv, Live
<1>2. CASE s = channels[ch].client
  BY <1>2, SessionsAssumption DEF ChannelsInv, ClientsKnown, Internal
<1> QED
  BY <1>1, <1>2 DEF Ends

LEMMA AnnouncedInductive ==
  ASSUME TypeOK, TypeOK', OwnershipInv, ChannelsInv, ChannelsAnnounced, [Next]_vars
  PROVE  ChannelsAnnounced'
<1> SUFFICES ASSUME NEW s \in Sessions, NEW ch \in ChannelIds
             PROVE  told'[s][ch] = "open" <=>
                       peers'[s].ws = "open" /\ Open(ch)' /\ s \in Ends(ch)'
  BY DEF ChannelsAnnounced
<1>1. told[s][ch] = "open" <=> peers[s].ws = "open" /\ Open(ch) /\ s \in Ends(ch)
  BY DEF ChannelsAnnounced
<1>2. peers'[s].ws = "open" => \/ peers[s].ws = "open"
                               \/ peers[s].ws = "new" /\ ~(Open(ch) /\ s \in Ends(ch))
  BY SessionSteps, EndsKnown DEF SessionStep, Kept, Greeted
<1>3. told[s] \in [ChannelIds -> {"nothing", "open"} \cup Reasons]
  BY DEF TypeOK, ChannelsTypeOK
<1>4. "open" \notin Reasons /\ ToldNothing[ch] # "open"
  BY DEF Reasons, ToldNothing
<1>5. CASE TeardownStep
  <2>1. PICK Doomed : \E why : /\ Teardown(Doomed, why)
                               /\ \A c \in Doomed \cap ChannelIds : why[c] \in Reasons
    BY <1>5 DEF TeardownStep
  <2>2. /\ channels'[ch] = IF ch \in Doomed THEN EmptyChannel("closed") ELSE channels[ch]
        /\ peers'[s].ws # "open" => told'[s] = ToldNothing
        /\ peers'[s].ws = "open" =>
              \/ ch \in Doomed /\ s \in Ends(ch) /\ told'[s][ch] \in Reasons
              \/ ~(ch \in Doomed /\ s \in Ends(ch)) /\ told'[s][ch] = told[s][ch]
    BY <2>1 DEF Teardown
  <2>3. ch \in Doomed => ~Open(ch)'
    BY <2>2 DEF EmptyChannel, Open
  <2>4. ch \notin Doomed => (Open(ch)' <=> Open(ch)) /\ (s \in Ends(ch)' <=> s \in Ends(ch))
    BY <2>2 DEF Open, Ends
  <2> QED
    BY <1>1, <1>2, <1>4, <2>2, <2>3, <2>4
<1>6. CASE IdleStep
  <2>1. (Open(ch)' <=> Open(ch)) /\ (s \in Ends(ch)' <=> s \in Ends(ch))
    BY <1>6 DEF IdleStep, Open, Ends
  <2>2. \/ told'[s] = IF peers'[s].ws = "open" THEN told[s] ELSE ToldNothing
        \/ told'[s] = told[s] /\ (peers[s].ws = "open" => peers'[s].ws = "open")
    BY <1>6 DEF IdleStep, TellNobody
  <2> QED
    BY <1>1, <1>2, <1>4, <2>1, <2>2
<1>7. CASE LegStep
  <2>1. UNCHANGED <<told, peers>>
    BY <1>7 DEF LegStep, Dial, LegHangsUp, TicketTtlElapses, stateVars
  <2>2. Open(ch)' => (Open(ch) /\ SameCore(ch)) \/ CreateStep
    BY CoreSteps
  <2>3. ASSUME Open(ch) PROVE Open(ch)' /\ SameCore(ch)
    <3>1. channels[ch] \in ChannelRecords
      BY DEF TypeOK, ChannelsTypeOK
    <3> QED
      BY <1>7, <2>3, LegsKeepCore
  <2>4. ~Open(ch) => ~Open(ch)'
    BY <1>7, LegsKeepCore
  <2>5. Open(ch) => (s \in Ends(ch)' <=> s \in Ends(ch))
    BY <2>3 DEF SameCore, Ends
  <2> QED
    BY <1>1, <2>1, <2>3, <2>4, <2>5
<1>8. CASE CreateStep
  <2>1. UNCHANGED peers
    BY <1>8 DEF CreateStep, stateVars
  <2>2. PICK d \in ChannelIds, b \in Backends :
          /\ channels[d].status = "new"
          /\ \E r, R : CreateChannel(d, b, r, R)
    BY <1>8 DEF CreateStep
  <2>3. PICK r, R : CreateChannel(d, b, r, R)
    BY <2>2
  <2>4. /\ channels' = [channels EXCEPT ![d] =
              [status |-> "open", backend |-> b, epoch |-> leases[b].epoch,
               client |-> r, owner |-> leases[b].session, legs |-> NoLegs,
               piped |-> FALSE, due |-> FALSE]]
        /\ Tell({r, leases[b].session}, d, "open")
    BY <2>3 DEF CreateChannel
  <2>5. CASE d # ch
    <3>1. channels'[ch] = channels[ch]
      BY <2>4, <2>5 DEF TypeOK, ChannelsTypeOK
    <3>2. (Open(ch)' <=> Open(ch)) /\ (s \in Ends(ch)' <=> s \in Ends(ch))
      BY <3>1 DEF Open, Ends
    <3>3. told'[s][ch] = IF peers'[s].ws = "open" THEN told[s][ch] ELSE "nothing"
      BY <1>3, <2>4, <2>5 DEF Tell, ToldNothing
    <3> QED
      BY <1>1, <2>1, <3>2, <3>3
  <2>6. CASE d = ch
    <3>1. /\ channels'[ch].status = "open" /\ channels'[ch].client = r
          /\ channels'[ch].owner = leases[b].session
      BY <2>4, <2>6 DEF TypeOK, ChannelsTypeOK
    <3>2. Open(ch)' /\ (s \in Ends(ch)' <=> s \in {r, leases[b].session}) /\ ~Open(ch)
      BY <2>2, <2>6, <3>1 DEF Open, Ends
    <3>3. told'[s] = IF peers'[s].ws # "open" THEN ToldNothing
                     ELSE IF s \in {r, leases[b].session}
                     THEN [told[s] EXCEPT ![ch] = "open"] ELSE told[s]
      BY <2>4, <2>6 DEF Tell
    <3> QED
      BY <1>1, <1>3, <1>4, <3>2, <3>3
  <2> QED
    BY <2>5, <2>6
<1>9. CASE GatewayRestart
  BY <1>4, <1>9 DEF GatewayRestart, EmptyChannel, Open
<1> QED
  BY <1>5, <1>6, <1>7, <1>8, <1>9, ChannelSteps

\* An open peer was told of each channel it is an end of, and of the end of
\* each that is gone, whichever handler ended it.
THEOREM ChannelsAnnouncedHolds == Spec => []ChannelsAnnounced
<1>1. Init => ChannelsAnnounced
  BY DEF Init, ChannelsInit, EmptyChannel, Open, ToldNothing, ChannelsAnnounced
<1>2. TypeOK /\ TypeOK' /\ OwnershipInv /\ ChannelsInv /\ ChannelsAnnounced /\ [Next]_vars
        => ChannelsAnnounced'
  BY AnnouncedInductive
<1> QED
  BY TypeCorrect, OwnershipCorrect, ChannelsCorrect, <1>1, <1>2, PTL DEF Spec

-----------------------------------------------------------------------------
(***************************************************************************)
(* Topics.                                                                 *)
(***************************************************************************)

\* What a step may make of topics and of the leases they belong to.
TopicStep ==
  \/ UNCHANGED topicVars /\ \A b \in Backends : leases'[b].epoch = leases[b].epoch
  \/ \E B, S : /\ ForgetTopics(B, S)
               /\ \A b \in Backends \ B : leases'[b].epoch = leases[b].epoch \/ ~Leased(b)
  \/ \E s \in Sessions, t \in TopicNames :
        \/ TopicPublish(s, t)
        \/ \E b \in Backends : TopicSubscribe(s, b, t) \/ TopicUnsubscribe(s, b, t)

\* A step that changes who leases a backend forgets the topics of the
\* previous lease.
LEMMA TopicSteps ==
  ASSUME TypeOK, OwnershipInv, [Next]_vars
  PROVE  TopicStep
<1> USE DEF TopicStep
<1>1. CASE UNCHANGED stateVars /\ UNCHANGED topicVars
  BY <1>1 DEF stateVars
<1>2. ASSUME UNCHANGED topicVars, FlagStep PROVE TopicStep
  BY <1>2 DEF FlagStep
<1>3. CASE Handshake
  <2>1. PICK s \in Sessions, ws \in {"open", "closing"}, c \in Creds :
          \/ PeerHelloClient(s, ws, c)
          \/ \E b \in Backends : \/ PeerHelloBackend(s, ws, c, b)
                                 \/ PeerHelloBackendFails(s, c, b)
    BY <1>3 DEF Handshake
  <2>2. CASE PeerHelloClient(s, ws, c)
    BY <2>2 DEF PeerHelloClient
  <2>3. ASSUME NEW b \in Backends, TakeLease(s, b) PROVE TopicStep
    <3> DEFINE replaced == IF Leased(b) THEN {b} ELSE {}
    <3>1. ForgetTopics(replaced, {})
      BY <2>3 DEF TakeLease
    <3>2. \A d \in Backends \ {b} : leases'[d] = leases[d]
      BY <2>3 DEF TakeLease, TypeOK, StateTypeOK
    <3>3. \A d \in Backends \ replaced : leases'[d].epoch = leases[d].epoch \/ ~Leased(d)
      BY <3>2
    <3> QED
      BY <3>1, <3>3
  <2> QED
    BY <2>1, <2>2, <2>3 DEF PeerHelloBackend, PeerHelloBackendFails
<1>4. ASSUME NEW Gone, Disconnect(Gone) PROVE TopicStep
  <2> DEFINE lost == {b \in Backends : \E s \in Gone : peers[s].backendId = b /\ Owns(s)}
             former == {b \in Backends : \E s \in Gone : peers[s].backendId = b}
  <2>1. RemoveBackends(lost) /\ ForgetTopics(former, Gone)
    BY <1>4 DEF Disconnect
  <2>2. \A b \in Backends \ former : leases'[b] = leases[b]
    BY <2>1 DEF RemoveBackends
  <2> HIDE DEF former
  <2> QED
    BY <2>1, <2>2
<1>5. CASE LeaseCheck
  <2>1. \A b \in Backends \ Expired : leases'[b] = leases[b]
    BY <1>5 DEF LeaseCheck, RemoveBackends
  <2> QED
    BY <1>5, <2>1 DEF LeaseCheck
<1>6. CASE GatewayRestart
  BY <1>6 DEF GatewayRestart
<1>7. CASE PeerMessage
  <2>1. ASSUME NEW s \in Sessions, NEW e \in Epochs, BackendHeartbeat(s, e) PROVE TopicStep
    BY <1>2, <2>1, FlagSteps DEF BackendHeartbeat
  <2>2. ASSUME NEW s, NEW b, NEW ch, ChannelOpen(s, b, ch) PROVE TopicStep
    BY <1>1, <2>2 DEF ChannelOpen
  <2>3. ASSUME NEW s, NEW ch, UNCHANGED topicVars, ChannelReject(s, ch) \/ ChannelClose(s, ch)
        PROVE  TopicStep
    BY <1>1, <2>3 DEF ChannelReject, ChannelClose
  <2> QED
    BY <1>7, <2>1, <2>2, <2>3 DEF PeerMessage
<1>8. CASE Socket
  <2>1. ASSUME NEW s \in Sessions, Pong(s) PROVE TopicStep
    BY <1>2, <2>1, FlagSteps DEF Pong
  <2> QED
    BY <1>1, <1>4, <1>8, <2>1 DEF Socket, PeerDisconnects, Dial, DialRefused, LegHangsUp,
       LegClosed, HttpResponseCloses
<1>9. CASE Timer
  <2>1. ASSUME NEW b \in Backends, LeaseTtlElapses(b) PROVE TopicStep
    BY <1>2, <2>1, FlagSteps DEF LeaseTtlElapses
  <2>2. CASE RegistryPoll
    BY <2>2 DEF RegistryPoll
  <2> QED
    BY <1>1, <1>4, <1>5, <1>9, <2>1, <2>2 DEF Timer, PingRound, SweepTickets,
       TicketTtlElapses, PairingTimeout, HttpTimerFires
<1>10. CASE Http
  <2>1. ASSUME NEW R, Revoke(R) PROVE TopicStep
    BY <2>1 DEF Revoke
  <2>2. ASSUME NEW c, NEW scope, ChangeScope(c, scope) PROVE TopicStep
    BY <2>2 DEF ChangeScope
  <2>3. ASSUME NEW c, ExchangeToken(c) PROVE TopicStep
    BY <2>3 DEF ExchangeToken
  <2> QED
    BY <1>1, <1>10, <2>1, <2>2, <2>3 DEF Http, ProxyRequest
<1>11. CASE UNCHANGED vars
  BY <1>1, <1>11 DEF vars
<1> QED
  BY <1>3, <1>5, <1>6, <1>7, <1>8, <1>9, <1>10, <1>11 DEF Next

LEMMA TopicsInductive ==
  ASSUME TypeOK, OwnershipInv, TopicsOfCurrentEpoch, [Next]_vars
  PROVE  TopicsOfCurrentEpoch'
<1> DEFINE Subs == \A sub \in topicSubs' : leases'[sub[1]].epoch # 0 /\ peers'[sub[3]].ws # "new"
           Kept0 == \A b \in Backends, t \in TopicNames : retainedTopics'[b][t] \in {0, leases'[b].epoch}
<1> SUFFICES Subs /\ Kept0
  BY DEF TopicsOfCurrentEpoch, Leased
<1>1. \A sub \in topicSubs : /\ sub[1] \in Backends /\ sub[2] \in TopicNames /\ sub[3] \in Sessions
                             /\ leases[sub[1]].epoch # 0
                             /\ peers[sub[3]].ws # "new" /\ peers'[sub[3]].ws # "new"
  BY SessionSteps DEF TypeOK, TopicsTypeOK, TopicsOfCurrentEpoch, Leased, SessionStep
<1>2. \A b \in Backends, t \in TopicNames : retainedTopics[b][t] \in {0, leases[b].epoch}
  BY DEF TopicsOfCurrentEpoch
<1>3. CASE UNCHANGED topicVars /\ \A b \in Backends : leases'[b].epoch = leases[b].epoch
  BY <1>1, <1>2, <1>3 DEF topicVars
<1>4. ASSUME NEW B, NEW S, ForgetTopics(B, S),
             \A b \in Backends \ B : leases'[b].epoch = leases[b].epoch \/ ~Leased(b)
      PROVE  Subs /\ Kept0
  <2>1. /\ topicSubs' = {sub \in topicSubs : sub[1] \notin B /\ sub[3] \notin S}
        /\ \A b \in Backends : retainedTopics'[b] = IF b \in B THEN NoRetained ELSE retainedTopics[b]
    BY <1>4 DEF ForgetTopics
  <2>2. Subs
    BY <1>1, <1>4, <2>1 DEF Leased
  <2>3. Kept0
    BY <1>2, <1>4, <2>1 DEF Leased, NoRetained
  <2> QED
    BY <2>2, <2>3
<1>5. ASSUME NEW s \in Sessions, NEW t \in TopicNames, TopicPublish(s, t)
      PROVE  Subs /\ Kept0
  <2> DEFINE b == peers[s].backendId
  <2>1. /\ b \in Backends /\ leases[b].epoch = peers[s].epoch
        /\ retainedTopics' = [retainedTopics EXCEPT ![b][t] = peers[s].epoch]
        /\ UNCHANGED <<leases, peers, topicSubs>>
    BY <1>5 DEF TopicPublish, Owns, IsCurrentBackendOwner, stateVars
  <2>2. retainedTopics \in [Backends -> [TopicNames -> Epochs]]
    BY DEF TypeOK, TopicsTypeOK
  <2> HIDE DEF b
  <2>3. Kept0
    BY <1>2, <2>1, <2>2
  <2> QED
    BY <1>1, <2>1, <2>3
<1>6. ASSUME NEW s \in Sessions, NEW b \in Backends, NEW t \in TopicNames, TopicSubscribe(s, b, t)
      PROVE  Subs /\ Kept0
  <2>1. /\ topicSubs' = topicSubs \cup {<<b, t, s>>} /\ UNCHANGED <<leases, peers, retainedTopics>>
        /\ leases[b].epoch # 0 /\ peers[s].ws # "new"
    BY <1>6 DEF TopicSubscribe, OwnershipInv, RegistryTruthful, Leased, Live, stateVars
  <2>2. ASSUME NEW sub \in topicSubs'
        PROVE  leases'[sub[1]].epoch # 0 /\ peers'[sub[3]].ws # "new"
    <3>1. CASE sub \in topicSubs
      BY <1>1, <2>1, <3>1
    <3>2. CASE sub = <<b, t, s>>
      BY <2>1, <3>2
    <3> QED
      BY <2>1, <3>1, <3>2
  <2> QED
    BY <1>2, <2>1, <2>2
<1>7. ASSUME NEW s, NEW b, NEW t, TopicUnsubscribe(s, b, t) PROVE Subs /\ Kept0
  BY <1>1, <1>2, <1>7 DEF TopicUnsubscribe, stateVars
<1> QED
  BY <1>3, <1>4, <1>5, <1>6, <1>7, TopicSteps DEF TopicStep

\* A take-over, an expired lease and a disconnected owner all take the
\* retained payloads and the subscriptions of the lease with them: nobody is
\* given a predecessor's state as the current one.
THEOREM TopicsCorrect == Spec => []TopicsOfCurrentEpoch
<1>1. Init => TopicsOfCurrentEpoch
  BY DEF Init, TopicsInit, NoRetained, TopicsOfCurrentEpoch
<1>2. TypeOK /\ OwnershipInv /\ TopicsOfCurrentEpoch /\ [Next]_vars => TopicsOfCurrentEpoch'
  BY TopicsInductive
<1> QED
  BY TypeCorrect, OwnershipCorrect, <1>1, <1>2, PTL DEF Spec

-----------------------------------------------------------------------------
(***************************************************************************)
(* What a peer holds, against what its credential allows.                  *)
(***************************************************************************)

\* What session s holds of backend b, a subscription or a channel.
Holds(s, b) ==
  \/ \E t \in TopicNames : <<b, t, s>> \in topicSubs
  \/ \E ch \in ChannelIds : Open(ch) /\ channels[ch].backend = b /\ channels[ch].client = s

\* A session holds more than before only by asking for it, which its scope
\* must then allow.
LEMMA HoldingSteps ==
  ASSUME TypeOK, OwnershipInv, [Next]_vars, NEW s \in Sessions, NEW b \in Backends, Holds(s, b)'
  PROVE  Holds(s, b) \/ (UNCHANGED <<peers, allowed>> /\ CanReach(s, b) /\ Live(s))
<1> DEFINE Goal == Holds(s, b) \/ (UNCHANGED <<peers, allowed>> /\ CanReach(s, b) /\ Live(s))
<1> SUFFICES Goal
  OBVIOUS
<1>1. ASSUME NEW t \in TopicNames, <<b, t, s>> \in topicSubs' PROVE Goal
  <2>1. CASE topicSubs' \subseteq topicSubs
    BY <1>1, <2>1 DEF Holds
  <2>2. ASSUME NEW r \in Sessions, NEW d \in Backends, NEW u \in TopicNames, TopicSubscribe(r, d, u)
        PROVE  Goal
    <3>1. CASE <<b, t, s>> \in topicSubs
      BY <3>1 DEF Holds
    <3>2. CASE <<b, t, s>> = <<d, u, r>>
      BY <2>2, <3>2 DEF TopicSubscribe, stateVars
    <3> QED
      BY <1>1, <2>2, <3>1, <3>2 DEF TopicSubscribe
  <2>3. topicSubs' \subseteq topicSubs \/ \E r \in Sessions, d \in Backends, u \in TopicNames : TopicSubscribe(r, d, u)
    BY TopicSteps DEF TopicStep, ForgetTopics, TopicPublish, TopicUnsubscribe, topicVars
  <2> QED
    BY <2>1, <2>2, <2>3
<1>2. ASSUME NEW ch \in ChannelIds, Open(ch)', channels'[ch].backend = b, channels'[ch].client = s
      PROVE  Goal
  <2>1. CASE Open(ch) /\ SameCore(ch)
    BY <1>2, <2>1 DEF SameCore, Holds
  <2>2. CASE CreateStep /\ channels[ch].status = "new"
    <3>1. s # NoSession
      BY SessionsAssumption
    <3>2. PICK d \in ChannelIds, e \in Backends :
            \/ \E r \in Sessions : Live(r) /\ CanReach(r, e) /\ CreateChannel(d, e, r, Roles)
            \/ CreateChannel(d, e, NoSession, {"backend"})
      BY <2>2 DEF CreateStep
    <3>3. ASSUME NEW r, NEW R, CreateChannel(d, e, r, R) PROVE r = s /\ e = b
      <4>1. channels' = [channels EXCEPT ![d] =
                [status |-> "open", backend |-> e, epoch |-> leases[e].epoch,
                 client |-> r, owner |-> leases[e].session, legs |-> NoLegs,
                 piped |-> FALSE, due |-> FALSE]]
        BY <3>3 DEF CreateChannel
      <4>2. d = ch
        BY <1>2, <2>2, <4>1 DEF Open, TypeOK, ChannelsTypeOK
      <4> QED
        BY <1>2, <4>1, <4>2 DEF TypeOK, ChannelsTypeOK
    <3>4. CanReach(s, b) /\ Live(s)
      BY <3>1, <3>2, <3>3
    <3> QED
      BY <2>2, <3>4 DEF CreateStep, stateVars
  <2> QED
    BY <1>2, <2>1, <2>2, CoreSteps
<1> QED
  BY <1>1, <1>2 DEF Holds

\* HoldingsInScope, with what a session holds named.
LEMMA HoldingsNamed ==
  HoldingsInScope <=>
    \A s \in Sessions, b \in Backends :
       peers[s].ws = "open" /\ Holds(s, b) => InScope(peers[s].cred, allowed[peers[s].cred], b)
  BY DEF HoldingsInScope, Holds, ChannelsOfBackends

LEMMA HoldingsInductive ==
  ASSUME TypeOK, OwnershipInv, OpenPeersAuthorized, OpenPeersAuthorized', ClientsKnown,
         TopicsOfCurrentEpoch, HoldingsInScope, [Next]_vars
  PROVE  HoldingsInScope'
<1> SUFFICES ASSUME NEW s \in Sessions, NEW b \in Backends, peers'[s].ws = "open", Holds(s, b)'
             PROVE  InScope(peers'[s].cred, allowed'[peers'[s].cred], b)
  BY DEF HoldingsInScope, Holds, ChannelsOfBackends, Open
<1>1. Holds(s, b) \/ (UNCHANGED <<peers, allowed>> /\ CanReach(s, b))
  BY HoldingSteps
<1>2. peers'[s].allowedBackends = allowed'[peers'[s].cred]
  BY DEF OpenPeersAuthorized
<1>3. CASE UNCHANGED <<peers, allowed>> /\ CanReach(s, b)
  BY <1>2, <1>3 DEF CanReach
<1>4. CASE Holds(s, b)
  <2>1. peers[s].ws # "new"
    <3>1. ASSUME NEW t \in TopicNames, <<b, t, s>> \in topicSubs PROVE peers[s].ws # "new"
      BY <3>1 DEF TopicsOfCurrentEpoch
    <3>2. ASSUME NEW ch \in ChannelIds, Open(ch), channels[ch].client = s
          PROVE  peers[s].ws # "new"
      BY <3>2, SessionsAssumption DEF ClientsKnown, Internal
    <3> QED
      BY <1>4, <3>1, <3>2 DEF Holds
  <2>2. Kept(s)
    BY <2>1, SessionSteps DEF SessionStep, Greeted
  <2>3. InScope(peers[s].cred, allowed[peers[s].cred], b)
    BY <1>4, <2>2, HoldingsNamed DEF Kept
  <2>4. peers[s].allowedBackends = allowed[peers[s].cred]
    BY <2>2 DEF Kept, OpenPeersAuthorized
  <2> QED
    BY <1>2, <2>2, <2>3, <2>4 DEF Kept, InScope
<1> QED
  BY <1>1, <1>3, <1>4

\* No peer holds a channel or a subscription outside the scope its
\* credential has now: what was opened under a wider scope is closed with
\* the peer, and no new session inherits it.
THEOREM HoldingsInScopeHolds == Spec => []HoldingsInScope
<1>1. Init => HoldingsInScope
  BY DEF Init, StateInit, EmptySlot, HoldingsInScope
<1>2. /\ TypeOK /\ OwnershipInv /\ OpenPeersAuthorized /\ OpenPeersAuthorized' /\ ChannelsInv
      /\ TopicsOfCurrentEpoch /\ HoldingsInScope /\ [Next]_vars
      => HoldingsInScope'
  BY HoldingsInductive DEF ChannelsInv
<1> QED
  BY TypeCorrect, OwnershipCorrect, OpenPeersAuthorizedHolds, ChannelsCorrect, TopicsCorrect,
     <1>1, <1>2, PTL DEF Spec

-----------------------------------------------------------------------------
(***************************************************************************)
(* Why a channel ended.                                                    *)
(***************************************************************************)

\* What reason v says of the lease channel ch belonged to.
ReasonTrue(ch, v) ==
  LET b == channels[ch].backend
  IN  /\ v = "epoch_changed" => leases'[b].epoch > channels[ch].epoch
      /\ v = "backend_offline" => leases'[b].epoch = 0
      /\ v \in {"timeout", "closed", "rejected"} => leases'[b].epoch = channels[ch].epoch

LEMMA ReasonsGiven ==
  ASSUME TypeOK, OwnershipInv, ChannelsOfCurrentEpoch, [Next]_vars,
         NEW s \in Sessions, NEW ch \in ChannelIds, Open(ch),
         told[s][ch] = "open", told'[s][ch] \in Reasons
  PROVE  ReasonTrue(ch, told'[s][ch])
<1> DEFINE v == told'[s][ch]
           Goal == ReasonTrue(ch, v)
<1> SUFFICES Goal
  OBVIOUS
<1>0. PICK b \in Backends :
         /\ b = channels[ch].backend /\ OwnerLive(b)
         /\ leases[b].epoch = channels[ch].epoch /\ leases[b].epoch # 0
         /\ leases[b].epoch \in Nat /\ maxEpoch \in Nat /\ leases[b].epoch <= maxEpoch
         /\ leases[b].session = channels[ch].owner
         /\ peers[leases[b].session].backendId = b
  BY ChannelBacked, MaxEpochAssumption
     DEF OwnerLive, Leased, OwnershipInv, LeasesKnown, TypeOK, StateTypeOK, LeaseRecords, Epochs
<1>1. /\ v \in Reasons /\ v # "open" /\ ToldNothing[ch] \notin Reasons
      /\ told[s] \in [ChannelIds -> {"nothing", "open"} \cup Reasons]
  BY DEF Reasons, ToldNothing, TypeOK, ChannelsTypeOK
<1>2. ASSUME NEW Doomed, NEW why, Teardown(Doomed, why) PROVE ch \in Doomed /\ v = why[ch]
  BY <1>1, <1>2 DEF Teardown
<1>3. ASSUME NEW Doomed, NEW reason, TeardownAll(Doomed, reason) PROVE ch \in Doomed /\ v = reason
  BY <1>2, <1>3 DEF TeardownAll
<1> HIDE DEF v
<1>4. CASE IdleStep
  BY <1>1, <1>4 DEF IdleStep, TellNobody, v
<1>5. ASSUME NEW D, NEW reason \in {"timeout", "closed", "rejected"}, TeardownAll(D, reason),
             UNCHANGED stateVars
      PROVE  Goal
  BY <1>0, <1>3, <1>5 DEF stateVars, ReasonTrue
<1>6. CASE LegStep
  BY <1>1, <1>6 DEF LegStep, Dial, LegHangsUp, TicketTtlElapses, v
<1>7. CASE CreateStep
  BY <1>1, <1>7 DEF CreateStep, CreateChannel, Tell, v
<1>8. CASE GatewayRestart
  BY <1>1, <1>8 DEF GatewayRestart, v
<1>9. ASSUME NEW Gone, Disconnect(Gone) PROVE Goal
  <2> DEFINE lost == {d \in Backends : \E q \in Gone : peers[q].backendId = d /\ Owns(q)}
             why == [c \in ChannelIds |->
                       IF c \in ChannelsOfBackends(lost) THEN "backend_offline" ELSE "closed"]
  <2>1. RemoveBackends(lost) /\ Teardown(ChannelsOfBackends(lost) \cup ChannelsOfPeers(Gone), why)
    BY <1>9 DEF Disconnect
  <2>2. v = why[ch]
    BY <1>2, <2>1
  <2>3. ch \in ChannelsOfBackends(lost) <=> b \in lost
    BY <1>0 DEF ChannelsOfBackends
  <2> HIDE DEF lost
  <2>4. leases'[b] = IF b \in lost THEN NoLease ELSE leases[b]
    BY <1>0, <2>1 DEF RemoveBackends
  <2> QED
    BY <1>0, <2>2, <2>3, <2>4 DEF ReasonTrue, NoLease
<1>10. CASE LeaseCheck
  <2>1. v = "backend_offline" /\ ch \in ChannelsOfBackends(Expired)
    BY <1>3, <1>10 DEF LeaseCheck
  <2>2. leases'[b] = NoLease
    BY <1>0, <1>10, <2>1 DEF LeaseCheck, RemoveBackends, ChannelsOfBackends
  <2> QED
    BY <1>0, <2>1, <2>2 DEF ReasonTrue, NoLease
<1>11. ASSUME NEW r \in Sessions, NEW d \in Backends, TakeLease(r, d) PROVE Goal
  <2>1. v = "epoch_changed" /\ b = d
    BY <1>0, <1>3, <1>11 DEF TakeLease, ChannelsOfBackends
  <2>2. leases'[b].epoch = maxEpoch + 1
    BY <1>11, <2>1 DEF TakeLease, TypeOK, StateTypeOK
  <2> QED
    BY <1>0, <2>1, <2>2 DEF ReasonTrue
<1>12. CASE Handshake
  <2>1. ASSUME NEW r, NEW ws, NEW c, PeerHelloClient(r, ws, c) PROVE Goal
    BY <1>1, <2>1 DEF PeerHelloClient, channelVars, v
  <2> QED
    BY <1>11, <1>12, <2>1 DEF Handshake, PeerHelloBackend, PeerHelloBackendFails
<1>13. UNCHANGED channelVars => FALSE
  BY <1>1 DEF channelVars, v
<1>14. CASE PeerMessage
  <2>1. ASSUME NEW r, NEW c, ChannelReject(r, c) \/ ChannelClose(r, c) PROVE Goal
    BY <1>5, <2>1 DEF ChannelReject, ChannelClose
  <2>2. ASSUME NEW r \in Sessions, NEW d \in Backends, NEW c \in ChannelIds, ChannelOpen(r, d, c)
        PROVE  Goal
    BY <1>7, <2>2 DEF ChannelOpen, CreateStep
  <2> QED
    BY <1>13, <1>14, <2>1, <2>2 DEF PeerMessage, BackendHeartbeat
<1>15. CASE Socket
  <2>1. ASSUME NEW r, Pong(r) PROVE Goal
    BY <1>13, <2>1 DEF Pong
  <2>2. ASSUME NEW c, NEW r, DialRefused(c, r) PROVE Goal
    BY <1>1, <2>2 DEF DialRefused, v
  <2>3. ASSUME NEW c, LegClosed(c) \/ HttpResponseCloses(c) PROVE Goal
    BY <1>5, <2>3 DEF LegClosed, HttpResponseCloses
  <2>4. ASSUME NEW c \in ChannelIds, NEW r \in Roles, Dial(c, r) \/ LegHangsUp(c, r)
        PROVE  Goal
    BY <1>6, <2>4 DEF LegStep, Dial, LegHangsUp
  <2> QED
    BY <1>9, <1>15, <2>1, <2>2, <2>3, <2>4 DEF Socket, PeerDisconnects
<1>16. CASE Timer
  <2>1. ASSUME NEW c, PairingTimeout(c) \/ HttpTimerFires(c) PROVE Goal
    BY <1>5, <2>1 DEF PairingTimeout, HttpTimerFires
  <2>2. ASSUME NEW c \in ChannelIds, TicketTtlElapses(c) PROVE Goal
    BY <1>6, <2>2 DEF LegStep, TicketTtlElapses
  <2>3. CASE SweepTickets
    BY <1>1, <2>3 DEF SweepTickets, v
  <2> QED
    BY <1>9, <1>10, <1>13, <1>16, <2>1, <2>2, <2>3 DEF Timer, PingRound, RegistryPoll, LeaseTtlElapses
<1>17. CASE Http
  <2>1. ASSUME NEW R, Revoke(R) PROVE Goal
    BY <1>4, <2>1 DEF Revoke, IdleStep
  <2>2. ASSUME NEW c, NEW scope, ChangeScope(c, scope) PROVE Goal
    BY <1>4, <2>2 DEF ChangeScope, IdleStep
  <2>3. ASSUME NEW c \in Creds, NEW d \in Backends, NEW h \in ChannelIds, ProxyRequest(c, d, h)
        PROVE  Goal
    BY <1>7, <2>3 DEF ProxyRequest, CreateStep
  <2> QED
    BY <1>13, <1>17, <2>1, <2>2, <2>3 DEF Http, ExchangeToken
<1>18. CASE UNCHANGED vars
  BY <1>13, <1>18 DEF vars
<1> QED
  BY <1>8, <1>12, <1>14, <1>15, <1>16, <1>17, <1>18 DEF Next

\* The reason a peer is given is the true one, in whichever handler and in
\* whichever order the losses come.
THEOREM CloseReasonsTrueHolds == Spec => CloseReasonsTrue
<1> DEFINE Step ==
      \A s \in Sessions, ch \in ChannelIds :
         LET b == channels[ch].backend
         IN  told[s][ch] = "open" /\ told'[s][ch] \in Reasons =>
               CASE told'[s][ch] = "epoch_changed"   -> leases'[b].epoch > channels[ch].epoch
                 [] told'[s][ch] = "backend_offline" -> leases'[b].epoch = 0
                 [] OTHER -> leases'[b].epoch = channels[ch].epoch
<1>1. ASSUME TypeOK, OwnershipInv, ChannelsInv, ChannelsAnnounced, [Next]_vars PROVE Step
  <2>1. SUFFICES ASSUME NEW s \in Sessions, NEW ch \in ChannelIds,
                        told[s][ch] = "open", told'[s][ch] \in Reasons
                 PROVE  LET b == channels[ch].backend
                        IN  CASE told'[s][ch] = "epoch_changed"   -> leases'[b].epoch > channels[ch].epoch
                              [] told'[s][ch] = "backend_offline" -> leases'[b].epoch = 0
                              [] OTHER -> leases'[b].epoch = channels[ch].epoch
    OBVIOUS
  <2>2. ReasonTrue(ch, told'[s][ch])
    BY <1>1, <2>1, ReasonsGiven DEF ChannelsInv, ChannelsAnnounced
  <2> QED
    BY <2>1, <2>2 DEF ReasonTrue, Reasons
<1>2. TypeOK /\ OwnershipInv /\ ChannelsInv /\ ChannelsAnnounced /\ [Next]_vars => [Step]_vars
  BY <1>1
<1> QED
  BY TypeCorrect, OwnershipCorrect, ChannelsCorrect, ChannelsAnnouncedHolds, <1>2, PTL
     DEF Spec, CloseReasonsTrue

=============================================================================
