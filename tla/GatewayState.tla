---------------------------- MODULE GatewayState ----------------------------
(***************************************************************************)
(* The in-memory state of the gateway (src/state.ts) and the credential    *)
(* facts a handshake reads: peer sessions, the registry of online          *)
(* backends, backend leases, recovery tokens, and the persisted counter    *)
(* that mints epochs.  This module holds the state, the predicates every   *)
(* handler asks of it, and the updates the handlers are built from; the    *)
(* handlers themselves are in Gateway.                                     *)
(*                                                                         *)
(* JavaScript runs one handler at a time, so each handler is one step.     *)
(***************************************************************************)
EXTENDS Naturals, FiniteSets

CONSTANTS
    Sessions,      \* peerSessionId values; each names at most one handshake
    NoSession,     \* the empty peerSessionId of an internal HTTP channel
    Backends,      \* backendId values
    NoBackend,     \* backendId = undefined
    Creds,         \* issued credentials
    NoCred,        \* the credential of a session that is not connected
    DeviceCreds,   \* credentials of type 'device'
    AccessCreds,   \* credentials of type 'backend-access'
    CredNs,        \* the namespace of each credential record
    BackendNs,     \* the namespace of each backend identity
    Identity,      \* the backendIds a credential's hello may resolve to
    MaxEpoch       \* bound: how many epochs storage.allocateEpoch may mint

ASSUME SessionsAssumption == NoSession \notin Sessions
ASSUME BackendsAssumption == NoBackend \notin Backends
ASSUME CredsAssumption ==
    /\ NoCred \notin Creds
    /\ DeviceCreds \subseteq Creds /\ AccessCreds \subseteq Creds \ DeviceCreds
ASSUME MaxEpochAssumption == MaxEpoch \in Nat
\* An identity row carries the namespace of the credential that creates it,
\* and a credential is only bound to an identity of its own namespace; a
\* device credential registers no backend.
ASSUME IdentityAssumption ==
    /\ Identity \in [Creds -> SUBSET Backends]
    /\ \A c \in Creds : \A b \in Identity[c] : BackendNs[b] = CredNs[c]
    /\ \A c \in DeviceCreds : Identity[c] = {}

VARIABLES
    peers,          \* state.peers, one slot for each session id
    leases,         \* state.leases
    registry,       \* state.registry.items: the epoch of each presence, 0 if none
    recoveryTokens, \* recoveryTokens: the sessions whose token still resolves
    maxEpoch,       \* counters.max_epoch (persisted)
    revoked,        \* credentials with revokedAt set (persisted)
    allowed,        \* allowedBackends of each credential (persisted)
    views           \* the registry snapshot each OPEN peer was last sent

stateVars == <<peers, leases, registry, recoveryTokens, maxEpoch, revoked,
               allowed, views>>

Epochs == 0..MaxEpoch

(***************************************************************************)
(* A session slot is "new" until its hello is accepted, "open" or          *)
(* "closing" while it is in state.peers (closing: ws.close() was called,   *)
(* sends are dropped but received messages are still handled), "gone"      *)
(* afterwards.  allowedBackends = Backends stands for null.                *)
(***************************************************************************)
PeerRecords == [ws : {"new", "open", "closing", "gone"},
                cred : Creds \cup {NoCred},
                allowedBackends : SUBSET Backends,
                backendId : Backends \cup {NoBackend},
                epoch : Epochs,
                isAlive : BOOLEAN]

EmptySlot(ws) == [ws |-> ws, cred |-> NoCred, allowedBackends |-> {},
                  backendId |-> NoBackend, epoch |-> 0, isAlive |-> FALSE]

LeaseRecords == [epoch : Epochs, session : Sessions \cup {NoSession},
                 stale : BOOLEAN]

NoLease == [epoch |-> 0, session |-> NoSession, stale |-> FALSE]

NoView == [b \in Backends |-> 0]

StateTypeOK ==
    /\ peers \in [Sessions -> PeerRecords]
    /\ leases \in [Backends -> LeaseRecords]
    /\ registry \in [Backends -> Epochs]
    /\ recoveryTokens \subseteq Sessions
    /\ maxEpoch \in Epochs
    /\ revoked \subseteq Creds
    /\ allowed \in [Creds -> SUBSET Backends]
    /\ views \in [Sessions -> [Backends -> Epochs]]

StateInit ==
    /\ peers = [s \in Sessions |-> EmptySlot("new")]
    /\ leases = [b \in Backends |-> NoLease]
    /\ registry = [b \in Backends |-> 0]
    /\ recoveryTokens = {}
    /\ maxEpoch = 0
    /\ revoked = {}
    /\ allowed = [c \in Creds |-> Backends]
    /\ views = [s \in Sessions |-> NoView]

-----------------------------------------------------------------------------
(* Predicates the handlers ask.                                            *)

\* state.peers.has(s)
Live(s) == s \in Sessions /\ peers[s].ws \in {"open", "closing"}

Leased(b) == leases[b].epoch # 0

Present(b) == registry[b] # 0

\* The peer the lease names, if it is still connected.
OwnerLive(b) == Leased(b) /\ Live(leases[b].session)

InScope(cred, scope, b) == BackendNs[b] = CredNs[cred] /\ b \in scope

\* canReach(peer, presence of b)
CanReach(s, b) == InScope(peers[s].cred, peers[s].allowedBackends, b)

\* isCurrentBackendOwner(peer, expectedEpoch); Owns without an expectation
IsCurrentBackendOwner(s, e) ==
    LET b == peers[s].backendId
    IN  /\ b \in Backends
        /\ peers[s].epoch = e
        /\ leases[b].session = s
        /\ leases[b].epoch = e

Owns(s) == IsCurrentBackendOwner(s, peers[s].epoch)

-----------------------------------------------------------------------------
(* What an open peer has been sent.  A peer that is not open is sent       *)
(* nothing more, and what it saw earlier is forgotten.                     *)

\* visibleRegistry(peer), in the state after the step
VisibleAfter(s) ==
    [b \in Backends |->
        IF InScope(peers'[s].cred, peers'[s].allowedBackends, b)
        THEN registry'[b] ELSE 0]

\* The peers of Told get a snapshot of the registry the step leaves.
SendSnapshots(Told) ==
    views' = [s \in Sessions |->
                IF peers'[s].ws # "open" THEN NoView
                ELSE IF s \in Told THEN VisibleAfter(s) ELSE views[s]]

\* Mutant: the broadcast is forgotten.
NoBroadcast(changed) == SendSnapshots({})

\* broadcastRegistrySnapshot() when the registry changed, else nothing
BroadcastIf(changed) == SendSnapshots(IF changed THEN Sessions ELSE {})

-----------------------------------------------------------------------------
(* Updates shared by several handlers.                                     *)

WithAlive(p, v) == [p EXCEPT !.isAlive = v]

WithStale(lease, v) == [lease EXCEPT !.stale = v]

\* Mutant: the session is marked with a state no handler knows.
ClosedWs(p) == IF p.ws = "open" THEN [p EXCEPT !.ws = "closed"] ELSE p

\* ws.close() on a control socket
ClosingWs(p) == IF p.ws = "open" THEN [p EXCEPT !.ws = "closing"] ELSE p

\* backendId = epoch = undefined, then ws.close(4001)
Deposed(p) == [ws |-> ClosingWs(p).ws, cred |-> p.cred,
               allowedBackends |-> p.allowedBackends,
               backendId |-> NoBackend, epoch |-> 0, isAlive |-> p.isAlive]

\* Mutant: only the peers that registered no backend are closed.
CloseClientsOf(C) ==
    peers' = [s \in Sessions |->
                IF Live(s) /\ peers[s].cred \in C /\ peers[s].backendId = NoBackend
                THEN ClosingWs(peers[s]) ELSE peers[s]]

\* ws.close(1008, ...) on every peer that authenticated with one of C
ClosePeersOf(C) ==
    peers' = [s \in Sessions |->
                IF Live(s) /\ peers[s].cred \in C
                THEN ClosingWs(peers[s]) ELSE peers[s]]

\* Mutant: the lease goes, the presence stays.
RemoveLeases(B) ==
    /\ UNCHANGED registry
    /\ leases' = [b \in Backends |-> IF b \in B THEN NoLease ELSE leases[b]]

\* registryRemove and removeBackend for the backends of B
RemoveBackends(B) ==
    /\ registry' = [b \in Backends |-> IF b \in B THEN 0 ELSE registry[b]]
    /\ leases' = [b \in Backends |-> IF b \in B THEN NoLease ELSE leases[b]]

\* Mutant: the sessions of S stand down instead of going away.
PeersDeposed(S) == [s \in Sessions |-> IF s \in S THEN Deposed(peers[s]) ELSE peers[s]]

\* state.peers without the sessions of S
PeersWithout(S) ==
    [s \in Sessions |-> IF s \in S THEN EmptySlot("gone") ELSE peers[s]]

=============================================================================
