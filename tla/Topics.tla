------------------------------- MODULE Topics -------------------------------
(***************************************************************************)
(* Topic broadcast (src/server.ts, "v4 Topic broadcast"): who subscribes   *)
(* to which topic of which backend, and the payload each backend last      *)
(* published with retain.  A payload is represented by the epoch of the    *)
(* backend that published it: whether it is the current state or a stale   *)
(* one is all that the properties ask.                                     *)
(***************************************************************************)
EXTENDS GatewayState

CONSTANTS
    TopicNames,
    MaxRetained    \* MAX_RETAINED_TOPICS_PER_BACKEND

ASSUME MaxRetainedAssumption == MaxRetained \in Nat

VARIABLES
    topicSubs,       \* topicSubs, as <<backendId, topic, peerSessionId>>
    retainedTopics   \* retainedTopics: publisher's epoch, 0 if none

topicVars == <<topicSubs, retainedTopics>>

TopicsTypeOK ==
    /\ topicSubs \subseteq Backends \X TopicNames \X Sessions
    /\ retainedTopics \in [Backends -> [TopicNames -> Epochs]]

NoRetained == [t \in TopicNames |-> 0]

TopicsInit ==
    /\ topicSubs = {}
    /\ retainedTopics = [b \in Backends |-> NoRetained]

RetainedNames(b) == {t \in TopicNames : retainedTopics[b][t] # 0}

\* Mutant: what a backend retained outlives its lease.
ForgetSubscriptions(B, S) ==
    /\ topicSubs' = {sub \in topicSubs : sub[1] \notin B /\ sub[3] \notin S}
    /\ UNCHANGED retainedTopics

\* removeTopicsForBackend for the backends of B, and
\* removeTopicSubscriptionsForPeer for the sessions of S
ForgetTopics(B, S) ==
    /\ topicSubs' = {sub \in topicSubs : sub[1] \notin B /\ sub[3] \notin S}
    /\ retainedTopics' = [b \in Backends |->
                            IF b \in B THEN NoRetained ELSE retainedTopics[b]]

-----------------------------------------------------------------------------
(* Handlers that touch topics only.                                        *)

\* Mutant: the scope of the subscriber is not asked.
TopicSubscribeAnywhere(s, b, t) ==
    /\ Live(s) /\ Present(b)
    /\ topicSubs' = topicSubs \cup {<<b, t, s>>}
    /\ UNCHANGED <<stateVars, retainedTopics>>

TopicSubscribe(s, b, t) ==
    /\ Live(s)
    /\ Present(b) /\ CanReach(s, b)
    /\ topicSubs' = topicSubs \cup {<<b, t, s>>}
    /\ UNCHANGED <<stateVars, retainedTopics>>

TopicUnsubscribe(s, b, t) ==
    /\ Live(s)
    /\ topicSubs' = topicSubs \ {<<b, t, s>>}
    /\ UNCHANGED <<stateVars, retainedTopics>>

\* topic_publish with retain: kept unless the backend already retains
\* MaxRetained other topics.  A publish without retain changes no state.
TopicPublish(s, t) ==
    LET b == peers[s].backendId
    IN  /\ Live(s) /\ Owns(s)
        /\ Cardinality(RetainedNames(b)) < MaxRetained \/ t \in RetainedNames(b)
        /\ retainedTopics' = [retainedTopics EXCEPT ![b][t] = peers[s].epoch]
        /\ UNCHANGED <<stateVars, topicSubs>>

=============================================================================
