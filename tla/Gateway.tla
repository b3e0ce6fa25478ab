------------------------------- MODULE Gateway -------------------------------
(***************************************************************************)
(* The gateway server (src/server.ts): the handlers of the control socket, *)
(* the interval timers and the admin operations that reach live peers,     *)
(* over the state of GatewayState, Channels and Topics.  One action is one *)
(* whole handler.  The environment chooses every message, every socket     *)
(* event and every passage of time; GatewayRestart is a crash (or a        *)
(* shutdown) followed by a start on the same database.                     *)
(***************************************************************************)
EXTENDS Channels, Topics

vars == <<stateVars, channelVars, topicVars>>

\* Every variable keeps its type, whichever handler runs.
TypeOK == StateTypeOK /\ ChannelsTypeOK /\ TopicsTypeOK

Init == StateInit /\ ChannelsInit /\ TopicsInit

-----------------------------------------------------------------------------
(* Handshake.                                                              *)

\* The PeerSession record of an accepted hello; b = NoBackend for a client.
\* ws is "closing" when the hello was pipelined behind one that was refused:
\* ws.close() has been called, and the message is still delivered.
Session(ws, c, b, e) ==
    [ws |-> ws, cred |-> c, allowedBackends |-> allowed[c],
     backendId |-> b, epoch |-> e, isAlive |-> TRUE]

\* peer_hello of a peer that registers no backend
PeerHelloClient(s, ws, c) ==
    /\ peers[s].ws = "new" /\ c \notin revoked
    /\ peers' = [peers EXCEPT ![s] = Session(ws, c, NoBackend, 0)]
    /\ recoveryTokens' = recoveryTokens \cup {s}
    /\ UNCHANGED <<leases, registry, maxEpoch, revoked, allowed,
                   channelVars, topicVars>>
    /\ SendSnapshots({s})

\* Mutant: epochs are counted per backend, in memory.
TakeLeaseLocalEpoch(s, b) ==
    /\ maxEpoch < MaxEpoch
    /\ maxEpoch' = maxEpoch + 1
    /\ leases' = [leases EXCEPT ![b] =
                    [epoch |-> leases[b].epoch + 1, session |-> s, stale |-> FALSE]]
    /\ TeardownAll(ChannelsOfBackends({b}), "epoch_changed")
    /\ ForgetTopics({b}, {})
    /\ UNCHANGED <<revoked, allowed>>

\* What a backend hello does up to storage.touchBackendIdentity: it mints an
\* epoch, deposes the previous owner of b with everything bound to its epoch
\* (handleBackendOwnerReplaced), and takes the lease for session s.
TakeLease(s, b) ==
    LET replaced == IF Leased(b) THEN {b} ELSE {}
    IN  /\ maxEpoch < MaxEpoch
        /\ maxEpoch' = maxEpoch + 1
        /\ leases' = [leases EXCEPT ![b] =
                        [epoch |-> maxEpoch + 1, session |-> s, stale |-> FALSE]]
        /\ TeardownAll(ChannelsOfBackends(replaced), "epoch_changed")
        /\ ForgetTopics(replaced, {})
        /\ UNCHANGED <<revoked, allowed>>

\* The session map after the hello: mine is the slot of s, the previous
\* owner of b is told to stand down.
PeersAfterHello(s, b, mine) ==
    [q \in Sessions |->
        IF q = s THEN mine
        ELSE IF q = leases[b].session /\ Live(q) THEN Deposed(peers[q]) ELSE peers[q]]

PeerHelloBackend(s, ws, c, b) ==
    /\ peers[s].ws = "new" /\ c \notin revoked /\ b \in Identity[c]
    /\ peers' = PeersAfterHello(s, b, Session(ws, c, b, maxEpoch + 1))
    /\ TakeLease(s, b)
    /\ registry' = [registry EXCEPT ![b] = maxEpoch + 1]
    /\ recoveryTokens' = recoveryTokens \cup {s}
    /\ SendSnapshots(Sessions)

\* The same hello when storage.touchBackendIdentity throws: the lease is
\* taken, the presence and the peer are never written, the socket is closed.
PeerHelloBackendFails(s, c, b) ==
    /\ peers[s].ws = "new" /\ c \notin revoked /\ b \in Identity[c]
    /\ peers' = PeersAfterHello(s, b, EmptySlot("gone"))
    /\ TakeLease(s, b)
    /\ UNCHANGED <<registry, recoveryTokens>>
    /\ SendSnapshots({})

-----------------------------------------------------------------------------
(* Leases, pings, disconnects.                                             *)

\* leaseTtlMs pass without a heartbeat from the owner of b.
LeaseTtlElapses(b) ==
    /\ Leased(b) /\ ~leases[b].stale
    /\ leases' = [leases EXCEPT ![b] = WithStale(@, TRUE)]
    /\ UNCHANGED <<peers, registry, recoveryTokens, maxEpoch, revoked, allowed,
                   views, channelVars, topicVars>>

\* backend_heartbeat carrying epoch e
BackendHeartbeat(s, e) ==
    /\ Live(s) /\ IsCurrentBackendOwner(s, e)
    /\ leases' = [leases EXCEPT ![peers[s].backendId] = WithStale(@, FALSE)]
    /\ UNCHANGED <<peers, registry, recoveryTokens, maxEpoch, revoked, allowed,
                   views, channelVars, topicVars>>

\* Mutant: a lease whose owner is not connected is passed over.
ExpiredOfLive == {b \in Backends : OwnerLive(b) /\ leases[b].stale}

\* The backends whose lastHeartbeat is older than the lease
Expired == {b \in Backends : Leased(b) /\ leases[b].stale}

ExpiredOwners == {s \in Sessions : Live(s) /\ \E b \in Expired : leases[b].session = s}

\* leaseCheckInterval: handleBackendLeaseExpired for every stale lease.  The
\* owner's session goes with it, but not what it holds as a client.
LeaseCheck ==
    /\ Expired # {}
    /\ peers' = PeersWithout(ExpiredOwners)
    /\ recoveryTokens' = recoveryTokens \ ExpiredOwners
    /\ RemoveBackends(Expired)
    /\ TeardownAll(ChannelsOfBackends(Expired), "backend_offline")
    /\ ForgetTopics(Expired, {})
    /\ BroadcastIf(TRUE)
    /\ UNCHANGED <<maxEpoch, revoked, allowed>>

\* handlePeerDisconnect for every peer of Gone, all in one handler; peers' is
\* left to the caller.
Disconnect(Gone) ==
    LET lost == {b \in Backends : \E s \in Gone : peers[s].backendId = b /\ Owns(s)}
        former == {b \in Backends : \E s \in Gone : peers[s].backendId = b}
        offline == ChannelsOfBackends(lost)
    IN  /\ recoveryTokens' = recoveryTokens \ Gone
        /\ RemoveBackends(lost)
        /\ Teardown(offline \cup ChannelsOfPeers(Gone),
                    [ch \in ChannelIds |->
                        IF ch \in offline THEN "backend_offline" ELSE "closed"])
        /\ ForgetTopics(former, Gone)
        /\ BroadcastIf(lost # {})
        /\ UNCHANGED <<maxEpoch, revoked, allowed>>

\* 'close' of a control socket
PeerDisconnects(s) ==
    /\ Live(s)
    /\ peers' = PeersWithout({s})
    /\ Disconnect({s})

Silent == {s \in Sessions : Live(s) /\ ~peers[s].isAlive}

\* pingInterval: a peer that has not answered since the last round is
\* dropped, the others are marked and pinged.
PingRound ==
    /\ peers' = [s \in Sessions |-> WithAlive(PeersWithout(Silent)[s], FALSE)]
    /\ Disconnect(Silent)

Pong(s) ==
    /\ Live(s)
    /\ peers' = [peers EXCEPT ![s] = WithAlive(@, TRUE)]
    /\ UNCHANGED <<leases, registry, recoveryTokens, maxEpoch, revoked, allowed,
                   views, channelVars, topicVars>>

\* registryPollInterval
RegistryPoll ==
    /\ UNCHANGED peers
    /\ UNCHANGED <<leases, registry, recoveryTokens, maxEpoch, revoked, allowed,
                   channelVars, topicVars>>
    /\ BroadcastIf(TRUE)

-----------------------------------------------------------------------------
(* Channels opened over the control plane and by the HTTP proxy.           *)

ChannelOpen(s, b, ch) ==
    /\ Live(s) /\ channels[ch].status = "new"
    /\ Present(b) /\ OwnerLive(b) /\ CanReach(s, b)
    /\ CountChannels(s) < MaxChannelsPerPeer
    /\ UNCHANGED <<stateVars, topicVars>>
    /\ CreateChannel(ch, b, s, Roles)

\* A proxied HTTP request of credential c (proxyViaChannel)
ProxyRequest(c, b, ch) ==
    /\ c \notin revoked /\ channels[ch].status = "new"
    /\ Present(b) /\ OwnerLive(b) /\ InScope(c, allowed[c], b)
    /\ CountChannels(leases[b].session) < MaxChannelsPerPeer
    /\ UNCHANGED <<stateVars, topicVars>>
    /\ CreateChannel(ch, b, NoSession, {"backend"})

-----------------------------------------------------------------------------
(* Administration, and the loss of the process.                            *)

\* revokeCredential(s) returned R: those rows are now revoked, and the live
\* peers that authenticated with one of them are closed (afterRevoke).
Revoke(R) ==
    /\ R # {} /\ R \cap revoked = {}
    /\ revoked' = revoked \cup R
    /\ ClosePeersOf(R)
    /\ TellNobody
    /\ UNCHANGED <<leases, registry, recoveryTokens, maxEpoch, allowed,
                   channels, channelTickets, topicVars>>
    /\ SendSnapshots({})

\* A backend exchanges its enrollment for a new secret: the access row of the
\* enrollment is rotated in place, which clears a revocation of that row.
\* Peers connected with the previous secret are left alone.
ExchangeToken(c) ==
    /\ c \in AccessCreds
    /\ revoked' = revoked \ {c}
    /\ UNCHANGED <<peers, leases, registry, recoveryTokens, maxEpoch, allowed,
                   views, channelVars, topicVars>>

\* PATCH of a device credential's backend scope
ChangeScope(c, scope) ==
    /\ c \in DeviceCreds \ revoked
    /\ \/ scope = Backends
       \/ scope # {} /\ \A b \in scope : BackendNs[b] = CredNs[c]
    /\ allowed' = [allowed EXCEPT ![c] = scope]
    /\ ClosePeersOf({c})
    /\ TellNobody
    /\ UNCHANGED <<leases, registry, recoveryTokens, maxEpoch, revoked,
                   channels, channelTickets, topicVars>>
    /\ SendSnapshots({})

\* Everything but the database is lost.
GatewayRestart ==
    /\ peers' = PeersWithout({s \in Sessions : Live(s)})
    /\ RemoveBackends(Backends)
    /\ recoveryTokens' = {}
    /\ SendSnapshots({})
    /\ channels' = [ch \in ChannelIds |->
                      IF Open(ch) THEN EmptyChannel("closed") ELSE channels[ch]]
    /\ channelTickets' = {}
    /\ told' = [s \in Sessions |-> ToldNothing]
    /\ ForgetTopics(Backends, Sessions)
    /\ UNCHANGED <<maxEpoch, revoked, allowed>>

-----------------------------------------------------------------------------

Handshake ==
    \E s \in Sessions, ws \in {"open", "closing"}, c \in Creds :
        \/ PeerHelloClient(s, ws, c)
        \/ \E b \in Backends : \/ PeerHelloBackend(s, ws, c, b)
                               \/ PeerHelloBackendFails(s, c, b)

PeerMessage ==
    \E s \in Sessions :
        \/ \E e \in Epochs : BackendHeartbeat(s, e)
        \/ \E b \in Backends, ch \in ChannelIds : ChannelOpen(s, b, ch)
        \/ \E ch \in ChannelIds : /\ ChannelReject(s, ch) \/ ChannelClose(s, ch)
                                  /\ UNCHANGED topicVars
        \/ \E t \in TopicNames :
              /\ \/ TopicPublish(s, t)
                 \/ \E b \in Backends : TopicSubscribe(s, b, t) \/ TopicUnsubscribe(s, b, t)
              /\ UNCHANGED channelVars

Socket ==
    \/ \E s \in Sessions : PeerDisconnects(s) \/ Pong(s)
    \/ \E ch \in ChannelIds :
          /\ \/ \E r \in Roles : Dial(ch, r) \/ DialRefused(ch, r) \/ LegHangsUp(ch, r)
             \/ LegClosed(ch) \/ HttpResponseCloses(ch)
          /\ UNCHANGED topicVars

Timer ==
    \/ PingRound \/ LeaseCheck \/ RegistryPoll
    \/ SweepTickets /\ UNCHANGED topicVars
    \/ \E b \in Backends : LeaseTtlElapses(b)
    \/ \E ch \in ChannelIds :
          /\ TicketTtlElapses(ch) \/ PairingTimeout(ch) \/ HttpTimerFires(ch)
          /\ UNCHANGED topicVars

Http ==
    \/ \E c \in Creds, b \in Backends, ch \in ChannelIds : ProxyRequest(c, b, ch)
    \/ \E R \in SUBSET Creds : Revoke(R)
    \/ \E c \in Creds : ExchangeToken(c)
    \/ \E c \in DeviceCreds, scope \in SUBSET Backends : ChangeScope(c, scope)

Next == Handshake \/ PeerMessage \/ Socket \/ Timer \/ Http \/ GatewayRestart

Spec == Init /\ [][Next]_vars

\* What the event loop and the ws library guarantee: intervals and expired
\* timers are eventually served, time passes, and a socket on which close()
\* was called is closed by the peer's answer or by the library's time limit.
Fairness ==
    /\ WF_vars(PingRound) /\ WF_vars(LeaseCheck)
    /\ \A b \in Backends : WF_vars(LeaseTtlElapses(b))
    /\ \A ch \in ChannelIds :
          /\ WF_vars(TicketTtlElapses(ch) /\ UNCHANGED topicVars)
          /\ WF_vars(PairingTimeout(ch) /\ UNCHANGED topicVars)
    /\ \A s \in Sessions : WF_vars(peers[s].ws = "closing" /\ PeerDisconnects(s))

FairSpec == Spec /\ Fairness

-----------------------------------------------------------------------------
(* Safety.                                                                 *)

\* A peer that carries a backendId is the one the lease names, at the
\* lease's epoch, so two sessions never both own a backend.  Every handler
\* that takes a lease away (takeover, expiry, disconnect) must depose its
\* owner in the same turn; handlePeerDisconnect clears the topics of any
\* backendId it finds on the peer, which is right only because of this.
OwnerCoherence ==
    \A s \in Sessions : peers[s].backendId # NoBackend => Live(s) /\ Owns(s)

\* The registry tells the truth.  A backend whose owner is connected is
\* listed, at the epoch of its lease; a listed backend always has a lease,
\* so that the lease check can retire it, and is never listed ahead of it
\* (after a hello that failed half-way it is listed behind it).
RegistryTruthful ==
    \A b \in Backends :
        /\ OwnerLive(b) => registry[b] = leases[b].epoch
        /\ Present(b) => Leased(b) /\ registry[b] <= leases[b].epoch

\* Exactly the connected peers can use their recovery token: the poll
\* endpoints answer nobody whose session was dropped, on any path.
RecoveryTokensLive == recoveryTokens = {s \in Sessions : Live(s)}

\* Between two handlers every OPEN peer has been sent the registry as it now
\* stands, restricted to what it may see, and nobody else is remembered to
\* have seen anything.  Each handler that changes the registry broadcasts,
\* and to everyone that needs it.
ViewsFresh ==
    \A s \in Sessions, b \in Backends :
        views[s][b] = IF peers[s].ws = "open" /\ CanReach(s, b) THEN registry[b] ELSE 0

\* An OPEN peer runs under a credential that is not revoked, with the scope
\* the credential has now: revocation and scope change miss nobody.
OpenPeersAuthorized ==
    \A s \in Sessions : peers[s].ws = "open" =>
        /\ peers[s].cred \notin revoked
        /\ peers[s].allowedBackends = allowed[peers[s].cred]

\* An open channel belongs to the current epoch of its backend and its
\* backend end is the connected owner: no channel outlives an epoch.
ChannelsOfCurrentEpoch ==
    \A ch \in ChannelIds : Open(ch) =>
        LET b == channels[ch].backend
        IN  /\ b \in Backends /\ Live(channels[ch].owner)
            /\ leases[b].session = channels[ch].owner
            /\ leases[b].epoch = channels[ch].epoch

\* A ticket admits to one end of one open channel that nobody has taken, and
\* a channel is piped exactly when all its legs have arrived: no unused
\* ticket survives its channel, and no leg is ever wired twice.
TicketsUnused ==
    /\ \A t \in channelTickets : /\ Open(t[1]) /\ ~channels[t[1]].piped
                                 /\ channels[t[1]].legs[t[2]] = "none"
                                 /\ t[2] = "client" => ~Internal(t[1])
    /\ \A ch \in ChannelIds : Open(ch) =>
          (channels[ch].piped <=>
              \A r \in Roles : channels[ch].legs[r] # "none"
                                  \/ (r = "client" /\ Internal(ch)))

\* A session that has not said hello is no end of a channel yet.
ClientsKnown ==
    \A ch \in ChannelIds : Open(ch) /\ ~Internal(ch) => peers[channels[ch].client].ws # "new"

\* What holds of a channel between two handlers: it belongs to the epoch of
\* its backend, and its tickets and legs are those of an open channel.
ChannelsInv == ChannelsOfCurrentEpoch /\ TicketsUnused /\ ClientsKnown

\* Retained payloads and subscriptions exist only for leased backends and
\* sessions that said hello, and what is retained was published in the
\* current epoch: a subscriber never gets a predecessor's state as the
\* current one.
TopicsOfCurrentEpoch ==
    /\ \A sub \in topicSubs : Leased(sub[1]) /\ peers[sub[3]].ws # "new"
    /\ \A b \in Backends, t \in TopicNames :
          retainedTopics[b][t] \in {0, leases[b].epoch}

\* What an OPEN client peer holds, a channel or a subscription, is inside
\* the namespace and the scope its credential has now.
HoldingsInScope ==
    \A s \in Sessions : peers[s].ws = "open" =>
        \A b \in Backends :
            \/ InScope(peers[s].cred, allowed[peers[s].cred], b)
            \/ /\ \A t \in TopicNames : <<b, t, s>> \notin topicSubs
               /\ \A ch \in ChannelsOfBackends({b}) : channels[ch].client # s

\* An OPEN peer and the gateway agree on which channels exist: it was told
\* of each channel it is an end of, and was sent channel_closed for each one
\* that is gone, whichever handler ended it.
ChannelsAnnounced ==
    \A s \in Sessions, ch \in ChannelIds :
        told[s][ch] = "open" <=> peers[s].ws = "open" /\ Open(ch) /\ s \in Ends(ch)

\* The code says a peer holds at most maxChannelsPerPeer channels.
ChannelQuota ==
    \A s \in Sessions : Live(s) => CountChannels(s) <= MaxChannelsPerPeer

\* The client end of a channel is a connected peer or the gateway itself.
ChannelClientsLive ==
    \A ch \in ChannelIds : Open(ch) /\ ~Internal(ch) => Live(channels[ch].client)

\* The strengthening under which ownership is inductive: a lease names a
\* session that said hello, at an epoch that was minted, and if that session
\* is still connected it knows that it owns the backend.
LeasesKnown ==
    /\ \A b \in Backends :
          /\ leases[b].epoch <= maxEpoch
          /\ IF Leased(b)
             THEN leases[b].session \in Sessions /\ peers[leases[b].session].ws # "new"
             ELSE leases[b].session = NoSession
          /\ OwnerLive(b) => /\ peers[leases[b].session].backendId = b
                             /\ peers[leases[b].session].epoch = leases[b].epoch
    /\ \A s \in Sessions : peers[s].backendId # NoBackend => peers[s].epoch # 0

\* Sessions, leases, registry and recovery tokens agree about who owns what.
OwnershipInv ==
    LeasesKnown /\ OwnerCoherence /\ RegistryTruthful /\ RecoveryTokensLive

-----------------------------------------------------------------------------
(* What a step may never do.                                               *)

\* Epochs order the owners of a backend across takeovers, failures and
\* restarts: a new lease has an epoch above every epoch minted before, and
\* no peer is ever shown a backend going back to an earlier epoch.
EpochsOnlyAdvance ==
    [][\A b \in Backends :
         /\ leases'[b].epoch \in {0, leases[b].epoch} \/ leases'[b].epoch > maxEpoch
         /\ \A s \in Sessions : views'[s][b] = 0 \/ views'[s][b] >= views[s][b]]_vars

\* A connected peer loses its backend only to a newer owner; every other
\* loss takes the whole session with it.
DeposedOnlyByNewer ==
    [][\A s \in Sessions :
         LET b == peers[s].backendId
         IN  b # NoBackend /\ peers'[s].backendId # b /\ peers'[s].ws \in {"open", "closing"}
               => leases'[b].epoch > leases[b].epoch]_vars

\* The reason a peer is given is the true one: epoch_changed means a newer
\* epoch holds the lease, backend_offline that nobody does, and any other
\* reason that the epoch the channel belonged to is still current.
CloseReasonsTrue ==
    [][\A s \in Sessions, ch \in ChannelIds :
         LET b == channels[ch].backend
         IN  told[s][ch] = "open" /\ told'[s][ch] \in Reasons =>
               CASE told'[s][ch] = "epoch_changed"   -> leases'[b].epoch > channels[ch].epoch
                 [] told'[s][ch] = "backend_offline" -> leases'[b].epoch = 0
                 [] OTHER -> leases'[b].epoch = channels[ch].epoch]_vars

-----------------------------------------------------------------------------
(* What the gateway implements.                                            *)

\* The holder of a backend is the connected peer its lease names.
Holder == [b \in Backends |-> IF OwnerLive(b) THEN leases[b].session ELSE NoSession]

TermOf == [b \in Backends |-> IF OwnerLive(b) THEN leases[b].epoch ELSE 0]

Own == INSTANCE Ownership WITH term <- maxEpoch, holder <- Holder, termOf <- TermOf

\* Every handler is a step of the abstract specification of ownership, or
\* none at all: in particular a connected owner disappears from its lease
\* only together with its session, or by a handshake with a newer epoch.
ImplementsOwnership == Own!OwnSpec

\* A session and an epoch identify the backend they own.
TermsIdentify == Own!TermsIdentify

-----------------------------------------------------------------------------
(* Liveness.                                                               *)

\* A lease whose owner is not connected, left by a hello that failed
\* half-way, is given up: the backend does not stay listed as online.
OrphanLeaseHeals ==
    \A b \in Backends, e \in 1..MaxEpoch :
        leases[b].epoch = e /\ ~Live(leases[b].session) ~> leases[b].epoch # e

\* A negotiated channel is piped or torn down, whatever happens to its
\* tickets and to the sockets that were to dial in.
PairingSettles ==
    \A ch \in ChannelIds :
        Open(ch) /\ ~channels[ch].piped ~> ~Open(ch) \/ channels[ch].piped

\* A peer whose credential is revoked leaves.
RevokedPeersLeave ==
    \A s \in Sessions : Live(s) /\ peers[s].cred \in revoked ~> ~Live(s)

\* A peer that stays connected keeps answering pings.
SilentPeersDropped ==
    \A s \in Sessions : []<>(Live(s) => peers[s].isAlive)

\* Who should go, goes: revoked peers and silent ones.
PeersLeave == RevokedPeersLeave /\ SilentPeersDropped

=============================================================================
