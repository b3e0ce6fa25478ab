# Verification of zclaudia-gateway

TLA+ models of the gateway server, its database, its SDKs and its admin page, TLC
configurations that check them on small instances, and TLAPS proofs, for every value of the
constants, of every safety and step property that the passing runs check. Only liveness is
left to the runs. Source
locations are relative to the repository root: `src/server.ts` is the server, `packages/...` are the
SDKs and the admin page, `docs/protocol-v4.md` is the protocol.

Contents: [the system](#1-the-system) · [modules](#2-modules-and-the-code) ·
[runs](#3-runs) · [bounds](#4-bounds) · [fairness](#5-fairness) ·
[proofs](#6-proofs) · [known divergences](#7-known-divergences) ·
[not modelled](#8-what-is-not-modelled) · [plan](#9-plan).

How to run: `tlc -workers 2 -config MCGateway_peers.cfg MCGateway` (every run of
section 3 in the same way) and `tlapm GatewayProofs.tla` (every module of section 6 in the
same way).

## 1. The system

A gateway is one Node.js process. *Backends* and *devices* (together: *peers*) keep
a control WebSocket each; a peer opens *channels* to a backend, for which both ends
dial a second WebSocket with a one-time ticket; HTTP callers reach a backend through
a proxy route that the gateway bridges onto a channel of its own. JavaScript runs one
handler at a time, so the interleavings that matter are those of whole handlers,
timers, socket events and, in the SDKs, of the code between two `await`s. Only the
SQLite database survives a restart: credentials, identities and the epoch counter.

| Component | State | Operations | Talks to | What is hard | What makes it correct |
|---|---|---|---|---|---|
| Peer connections, leases, registry (`src/server.ts`, `src/state.ts`) | `peers`, `leases`, `registry`, `recoveryTokens`, epoch counter | hello with take-over, heartbeat, lease check, ping round, disconnect, snapshots and deltas, restart | every other part asks it who owns a backend | a take-over while the old owner is closing; a hello that fails after the lease is taken; late closes; sends to a closing socket | a backend has one owner; sessions, leases, registry and recovery tokens agree; epochs only advance; every open peer was shown the registry as it is |
| Channels: control plane (`server.ts`, "v4 Channels") | `channels`, `channelTickets` | open, reject, close, dial, pairing timeout, tear-down, ticket sweep | leases, proxy | two dials on one ticket, tear-down between dial and pairing, a new epoch | no channel outlives its epoch; tickets are one-time; both ends learn of every channel and why it ended |
| Channel relay (`wireChannel`) | byte bucket, pause, timers, buffer | frame, window end, rate timer, drain interval | two data sockets | two mechanisms pause and resume one socket | a paused sender is resumed; memory and throughput stay bounded |
| HTTP bridge (`proxyViaChannel`, `bridgeHttpChannel`) | response, channel record, data socket, timers | head, body, close, timeouts, abort of the caller | channels | frames that arrive after tear-down, a caller that stalls or leaves | answered once or cut, and everything is given back |
| Topics | `topicSubs`, `retainedTopics` | subscribe, unsubscribe, publish, removal with backend or peer | leases, scopes | retained state of an epoch that ended | nothing retained or subscribed outlives its epoch or its scope |
| Directed messages | none | one lookup and one send | peers | nothing beyond the owner of the target | the owner is the right one |
| Credentials and identities (`src/storage.ts`) | rows `credentials`, `backend_identities` | issue, bind, exchange with rotation, revoke with cascade, purge, scope change, delete identity | handshake, admin routes | each statement commits by itself; rows rotated and purged under live connections | a secret that died stays dead; revocation reaches every connection; a bound identity exists |
| Rate limits, admin sessions (`server.ts`, `src/admin-session.ts`) | three maps of fixed windows; sessions with fixed expiry | charge, refuse, sweep; login, validate, logout | every HTTP route | window boundaries, order of two charges, sweeping of exhausted buckets | at most two limits in any window; refusals are earned; sessions are not renewed |
| Client SDK: connection (`packages/client`) | `state`, `socket`, timers, `channels` | connect, close, establish, reconnect | gateway | overlapping attempts and late close events | one thread of attempts; channels die with their own connection |
| Client SDK: control operations | `opQueue`, `pendingOp`, `topicHandlers` | channel and topic operations, resubscription | gateway | no correlation ids; timeouts; payloads before handlers | replies settle their own operation; handlers are subscribed and informed |
| Backend SDK (`packages/backend`) | `state`, `socket`, access token, timers | connect, exchange, handshake, heartbeat, replacement, close | gateway | an await between every two steps of an attempt | one thread of attempts; replaced or closed backends stay down; dropped ones return |
| Python SDK: connection (`packages/python/.../backend.py`) | tasks, `_ws`, `_state`, `_last_error` | connect, start, supervise, read, close | gateway | tasks that end and cancel one another | the same |
| Python SDK: HTTP serving (`http.py`, `asgi.py`, `channel.py`) | `HttpExchange`, its queue, handler task | head, chunks, end, abort, start, write, cancel | channel, application | concurrent readers while the channel breaks | whole bodies only; one head; everything ends |
| TypeScript SDK: serving (`serveHttp`, `handleOffer` of `packages/backend`, `channel.ts`) | the offer, the data socket, head and chunks of the request | take an offer, dial, collect, answer, reject | bridge, control connection | a dial that outlives the connection, the channel or the backend's `close()`; an upload paused by a full socket | the whole request or nothing; a bounded upload; no channel is left |
| Client SDK: registry and channels (`packages/client`, `channel.ts`) | `registryItems`, `waitForBackend`, `channels`, data sockets | establish, route a frame, wait, open, dial, close | gateway | the registry changes in mid-handshake; a connection that drops during a dial; a gateway that notices late | the registry is right once all is handled; waits end; channels end |
| Storage migrations (`initDatabase` of `src/storage.ts`) | tables, columns, rows, the unique index | one statement after the other at every start | – | a crash between two statements; the earlier version running again | no start fails; one access row of every enrollment stays, the right one |
| Server life cycle (`createGatewayServer`) | connections, places per address, `authTimeout`, closers | accept, upgrade, admit, refuse, time out, ordered close | every part that uses the database | what still happens while the server closes | places are exact; strangers leave; `close()` calls back once, at the end |
| Admin page (`packages/admin-ui`) | session view, lists, filters, selection, dialogs, requests in flight | log in, load, poll, select, issue, revoke | admin HTTP API | answers of requests that outlive their page or session | fresh lists; no blind revocation; tokens are not lost |
| Push, message validation, header filtering, CLI, deployment | – | – | – | – | see section 8 |

PROJECT.json lists the same components with their status, and every hazard at the
line where it bites.

## 2. Modules and the code

Four groups. The **gateway** modules are composed: `Gateway` extends `Channels` and
`Topics`, which extend `GatewayState`. One action is one whole handler: everything the
handler calls that changes state (tear-down of channels, removal of topics, closing of
peers, broadcasts) is part of it. The **self-contained** modules refine what the
gateway abstracts (the bytes of a channel, a proxied request, credential rows, HTTP
admission, the sockets of the server, the start of the database). The **SDK** and **admin page**
modules have the gateway as their environment. The **MC** modules are instances for TLC.

| Module | Code | State and actions |
|---|---|---|
| `GatewayState` | `src/state.ts`; helpers of `server.ts` | The maps of the server. A session slot is `new`, `open`, `closing` (`ws.close()` was called: sends are dropped, received messages are still handled) or `gone`. `views` is what each open peer was last sent, so that a forgotten broadcast shows. |
| `Channels` | `server.ts` "v4 Channels" | Channel records with two legs, tickets, `told` (what each end was last told). `Teardown` is the one exit; `TeardownAll` passes the reason. |
| `Topics` | `server.ts` "v4 Topic broadcast" | Subscriptions, and retained payloads represented by the epoch of their publisher. |
| `Gateway` | `handlePeerHello`, `handleBackendHeartbeat`, `handlePeerDisconnect`, `handleBackendLeaseExpired`, intervals, revoke / token / scope / proxy routes | The composition, the fairness and the properties. `GatewayRestart` keeps `maxEpoch`, `revoked`, `allowed`. `PeerHelloBackendFails` is a hello whose identity write throws after the lease was added. |
| `Ownership` | – (abstract) | What the gateway promises about ownership, without sockets, leases and timers: terms handed out once, one holder, one backend per session. |
| `GatewayProofs`, `CredentialsProofs`, `TransferProofs`, `AccessProofs`, `SessionsProofs`, `ControlProofs`, `ClientChannelsProofs`, `ConsoleProofs` | – | Section 6: the theorems about `MCGateway`'s modules, `MCStorage`, `MCTransfer`, `MCAdminAccess`, `MCSessions`, `ControlOps`, `ClientChannels` and `AdminConsole`. |
| `Relay` | `wireChannel` | One direction of a paired channel. A read yields a chunk of several frames, which a pause does not hold back. |
| `HttpBridge` | `proxyViaChannel`, `bridgeHttpChannel`, `teardownChannel` | One request; the frames on the wire; the three timers (pairing, head, idle) as `Expire`; the `close` event of the response separate from its cause. |
| `Credentials` | `src/storage.ts`, admin and token routes | Rows with the number of their newest secret. `Revoke`, `Exchange`, `Bind`, `Purge`, ... are whole routes; `*Cut` actions are the same routes lost between two statements. |
| `AdminAccess` | `checkLimit`, `denyUnauthorized`, `AdminSessionStore` | A clock of ticks; buckets, sessions, and histories of what was let in and refused. |
| `Migration` | `initDatabase`, `addColumnIfMissing` | The database an earlier version left, its next statement, and the rows of `credentials` as far as the collapse tells them apart. `Stop` loses the process anywhere; `OldExchange` is the earlier version running in between. |
| `Lifecycle` | `httpServer` and `wss` handlers, `extractIp` count, `httpServer.close` of `server.ts` | A connection as HTTP, data, open control, closing or dying, with its timer and its place; `calls` holds what every `close()` still waits for. |
| `BackendSession` | `packages/backend/src/index.ts` (connection) | Each call of `establish()` is an attempt with its own socket; each await is a point where others run. |
| `ClientSession` | `packages/client/src/index.ts` (connection) | The same for the client, whose failed attempts keep their socket and whose close handler does not ask whose socket closed. |
| `ControlOps` | `packages/client/src/index.ts` (operations) | `opQueue` as a sequence, two FIFO wires, a gateway that answers in order, `resubscribeTopics` as a loop per connection. |
| `PythonSession` | `packages/python/.../backend.py` | A run is one `connect()` or `start()` and its tasks; `close()` has a beginning and an end because it awaits. |
| `HttpServe` | `channel.py`, `http.py`, `asgi.py` | One served request for a buffered, an ASGI and a streaming handler. |
| `ServeChannel` | `handleOffer`, `serveHttp` of `packages/backend`; `channel.ts`; the request direction of `bridgeHttpChannel` | The other half of `HttpBridge`: the caller's upload with its back-pressure, the dial, the frames on the data socket, the handler. |
| `ClientChannels` | `establish`, `routeMessage`, `waitForBackend`, `openChannel` of `packages/client`; `channel.ts`; the gateway's side of both | One backend, one wait, one channel; the frames on the way to the client; a gateway that still has the session of the connection before. |
| `AdminConsole` | `App.tsx`, `api.ts`, the pages and dialogs of `packages/admin-ui` | Requests in flight as a sequence, each with the cookie it was sent with and whether its page is still there; the gateway as the sessions and credentials the page can see. |
| `MCGateway`, `MCAdminAccess` | – | Instances: credentials and identities of the namespaces, symmetry, the constraints of section 4. |
| `MCStorage` | – | `Migration` and `Credentials`: the start of the database and its use. |
| `MCTransfer` | – | `Relay`, `HttpBridge`, `ServeChannel` and `HttpServe`. |
| `MCSessions` | – | `BackendSession`, `PythonSession`, `ClientSession` and `Lifecycle`. |

The last three check modules that share no state in one run: `part` says which module a
behaviour is of, and the variables of the others stay as they began. Every property of
such a module is that of its parts, each under the condition that its part runs.

Definitions whose comment begins with *Mutant* are variants of a mapped definition with
a plausible mistake in it (a dropped guard, a forgotten reset, a swapped order). No
specification uses them; substituting one for the original shows that the property it
is listed with in PROJECT.json depends on that line of code.

## 3. Runs

A composite property is a conjunction of named parts, each stated and commented in its
module; the parts are given here. The parts called `...Kept`, `...Accounted`, `...Watched`,
`ReferencesInv` and `ClientsKnown` are what the proofs of section 6 need to carry the
others from step to step.

| Run | Configuration | Question | Properties |
|---|---|---|---|
| peers | `MCGateway_peers` | Do take-overs, failing hellos, lease expiry, revocation and restarts in every order leave anyone with a wrong idea of who owns a backend? | `TypeOK`; `OwnershipInv` (`LeasesKnown`, `OwnerCoherence`, `RegistryTruthful`, `RecoveryTokensLive`); `ViewsFresh`; `OpenPeersAuthorized`; `EpochsOnlyAdvance`; `DeposedOnlyByNewer`; `ImplementsOwnership` |
| traffic | `MCGateway_traffic` | Does a channel, a ticket, a subscription or a retained payload ever outlive its epoch or its scope, and are both ends told the truth? | `ChannelsInv` (`ChannelsOfCurrentEpoch`, `TicketsUnused`, `ClientsKnown`); `ChannelsAnnounced`; `TopicsOfCurrentEpoch`; `HoldingsInScope`; `CloseReasonsTrue` |
| live | `MCGateway_live` | Are orphaned leases given up, do channels pair or die, do revoked and silent peers leave? | `OrphanLeaseHeals`; `PairingSettles`; `PeersLeave` (`RevokedPeersLeave`, `SilentPeersDropped`) |
| storage | `MCStorage` | Does every start bring the database up to date, does a dead secret stay dead, and does revocation reach every row and connection, all across crashes? | `CredentialsInv` (type, `OneAccessRow`, `AccessFollowsParent`, `BoundBackendsKnown`, `ReferencesInv`); `OpenConnectionsUnrevoked`; `SecretsDie`; `MigrationInv` (type, `OnePerParent`, `IndexFits`, `ReadyIsMigrated`); `StartsSucceed` |
| transfer | `MCTransfer` | Is a paused sender always resumed, are memory and throughput bounded, is every bridged request answered once or cut and everything given back, does a served request see the whole body? | `RelayInv` (type, `PausesAreWatched`, `BufferBounded`, `BackPressureKept`, `BucketKept`, `ThroughputBounded`); `BridgeInv` (type, `TornDownIsSettled`); `ServeInv` (of `ServeChannel`: type, `WholeRequest`, `UploadBounded`, `ArrivedIsServed`, `UploadAccounted`, `UploadWatched`; of `HttpServe`: type, `WholeBody`, `TruncationShows`, `OneEnd`, `HeadFirst`, `Answered`, `BodyAccounted`, `ReplyAccounted`); `StatusFinal`; `TransfersEnd` (`PausesEnd`; `RequestSettles`, `BridgeFreed`; `ServeEnds` of `ServeChannel`; `ServeEnds` of `HttpServe`, `ReadersWake`) |
| access | `MCAdminAccess` | What do fixed windows admit, who is refused, how long does a session last? | `AccessInv` (type, `BurstBounded`, `EveryRejectionCounts`, `SessionsFixed`, `WindowsAccounted`, `SessionsAccounted`); `RefusalsEarned` |
| sessions | `MCSessions` | One thread of attempts, no half-open socket, standing down and coming back, for the three SDKs; exact places and an ordered end, for the server | `BackendsInv` (`BackendInv`: type, `OneLineage`, `NoHalfOpenSocket`, `ConnectingIsTrying`; `PythonInv`: type, `OneRun`, `NothingUpAfterClose`); `ClientInv` (type, `OneThread`, `OneSession`, `ConnectedHasSocket`, `ConnectingIsTrying`); `LifecycleInv` (type, `PlacesExact`, `StrangersWatched`, `StorageOutlivesUse`, `CalledBackLast`); `StaysDown` (`ReplacedStandsDown`, `NoAttemptAfterClose`; `PythonStandsDown`, `FailureKept`; `ChannelsDieWithTheirs`, `ReconnectsAfterLoss`, `NoAttemptAfterClose`); `Recovers` (`Recovers`, `PythonRecovers`, `CloseEnds`, `ClientRecovers`, `ShutdownEnds`, `StrangersLeave`) |
| control | `ControlOps` | Does every operation settle, with its own reply, and every handler get its topic? | `ControlInv` (type, `OwnReplies`, `HandlersServed`: `HandlersSubscribed`, `HandlersInformed`); `CallsSettle` |
| client_channels | `ClientChannels` | Is the client's registry right once all is handled, does a wait end, and does every channel end for its application? | `ClientChannelsInv` (type, `QuietViewIsTrue`, `WaitersListen`, `ChannelsAccounted`); `WaiterServed`; `ChannelsEnd` |
| console | `AdminConsole` | Does the page show what the gateway has, revoke what it shows although reloads and others change it under the dialog, and find out when its session is over? | `ConsoleInv` (type, `QuietIsFresh`, `LoginViewTrue`, `TokensReachTheAdmin`); `RevokesWhatIsShown`; `ConsoleSettles` |
| leak | `MCGateway_leak` | Do the channels of a client end with it, also if it is a backend that loses its lease? | `ChannelClientsLive`, **violated** |
| late_head | `HttpBridge_late` | Does the failure of one request leave the gateway running? | `FailureIsAnswered`, **violated** |

The first ten pass; the last two are violated by what the code does (section 7). Several
modules choose a setting once, in `Init`, and keep it: `limit` and `keepsUp` (Relay),
`crashing` (Credentials), `closing` (BackendSession, ClientSession), `slow` (ClientSession,
ControlOps), `encodable` (HttpServe), `registered` and `size` (ServeChannel), `vitest`
(Lifecycle), `mode` (AdminConsole). One run then covers all settings, and a property that
needs one of them says so in its formula (`~closing => ...`). What happens without the
condition is section 7: the condition is there because the code breaks the property without
it, not to make checking easier.

Deadlock is checked in the gateway and storage runs. The others model something that
really ends (one request, one channel, an application with a bounded number of calls, a
clock that stops), and say so in their configuration.

## 4. Bounds

| Run | Bound | Why it is enough |
|---|---|---|
| peers | 3 sessions, 2 backends, a legacy credential, devices of two namespaces, 3 epochs | An old owner, its successor and an observer; the legacy credential may resolve to either backend, its access row can be revoked and rotated back to life; one device has a scope, the other must see nothing; the third epoch tells "newer" from "different". 173,364 states under symmetry of sessions. |
| traffic | 3 sessions, 2 backends, 2 epochs, 1 channel with quota 1, 1 topic with retain cap 1 | A client, the owner and the one that takes over. `CONSTRAINT Apart` lets a behaviour use channels or topics, not both: their handlers share no state except sessions, leases and credentials, which they only read, and no property of the run relates the two. Both credentials are of one namespace (the second namespace is in peers); what restricts `d1` is its scope, which changes. 702,836 states. |
| live | 2 sessions, 1 backend, 1 device, 1 channel, 2 epochs, no symmetry | Liveness of one lease, one channel and one peer needs no others. 32,296 states. |
| storage | `Credentials`: 1 legacy row, 2 issued rows, 1 identity, 2 namespaces, 2 secrets per row, 1 connection. `Migration`: 3 rows, 2 enrollments, 2 times | An enrollment with its access row beside another credential; the second secret is the rotation. Three rows are two duplicates and a row of another enrollment, or three duplicates, revoked or not, in every order of age and of id. 1,191,094 states. |
| transfer | `Relay`: limits 0 (off), 3, 4; marks 4 and 1; frames up to 2, 2 frames per read; buffers up to 9, 4 windows, 4 timers. `HttpBridge`: 2 body frames. `ServeChannel`: 4 chunks up, mark 2. `HttpServe`: 3 kinds of handler, 2 readers, 2 body chunks, 3 frames out, early buffer of 4 | Frames below and around the limit, a read that overshoots, pauses of both kinds at once, several windows of carried overshoot; a buffer that the rate timer lets grow beyond the mark and that drains again. The first and the last frame of a response, and one in between. An upload that is paused, resumed and paused again. Two readers at the end marker; a head, a chunk and an error frame. 366,567 states. |
| access | 2 tenants, 2 addresses, 2 sessions, windows and lifetimes of 1 tick, limits 1 and 2, 3 ticks | An interval that touches two windows and the beginning of a third. `CONSTRAINT OneSide` explores the proxy limits and the authentication side apart: they share no bucket and no session. 96,441 states. |
| sessions | `BackendSession`: 2 overlapping attempts, 2 `connect()`; `ClientSession`: 2 overlapping sockets, 3 `connect()`; `PythonSession`: 3 runs; 3 faults each. `Lifecycle`: 3 connections, 2 addresses with 1 place each, 2 `close()` | Overlap needs two; a third attempt reuses a slot. A run, its replacement, and a call after both. Two connections of one address compete for its place while another comes from elsewhere; a second `close()` while the first waits, or after it. 256,690 states. |
| control | 3 operations, 2 topics, 3 connections, 1 restart | Two operations in flight and the recovery's own; one connection before, during and after. 798,656 states. |
| client_channels | 1 backend that changes twice, 2 channels in turn, 2 faults, 2 `connect()` | A backend that comes and goes during a handshake, an outage and a dial; the frames and the loss of an earlier channel beside a later one. 505,035 states. |
| console | 1 credential, 2 sessions, 2 requests in flight, each trouble once | Two requests overtake each other; a request of the first session is answered in the second; the filter hides or shows the row the admin ticked; a reload, or a revocation by someone else, comes between the dialog of a revocation and its confirmation. That one row is ticked and another asked about needs two credentials: `RevocationOnScreen` (section 6) holds for any number. 701,856 states. |
| leak | 3 sessions, 2 backends, 1 channel | A backend with an owner, another that opens a channel to it. |
| late_head | 2 body frames | A request that is failed before its head arrives. |

Bounds are in the guards of the modules (`MaxEpoch`, `MaxSecret`, `MaxFaults`, `MaxOps`,
...), each named with its constant. `MaxEpoch` bounds the take-overs of a run; the
proofs hold for every value of it.

## 5. Fairness

Only what the runtime provides, and never that a remote party behaves.

* `Gateway`: weak fairness of `PingRound` and `LeaseCheck` (intervals), `LeaseTtlElapses`
  and `TicketTtlElapses` (time passes), `PairingTimeout` (a timer that was armed), and of
  the close of a socket on which `ws.close()` was called (the peer's answer, or the
  library's time limit of 30 seconds). Not of `Pong`, heartbeats, dials or messages.
* `HttpBridge`: the timers (`Expire`), the `close` event of a finished response, the
  bridging of a socket that arrived, and the library's limit for a closing socket. Not
  that the backend sends or the caller reads.
* `Relay`: the window end, the rate timer and the drain interval, and, since a
  sender can only be resumed if the receiver reads, that the buffer is flushed.
* `BackendSession`, `ClientSession`: timers fire and an await of an attempt comes to an
  end, successfully or not (every one has a timeout or a close event behind it); the
  gateway notices a closed socket.
* `ControlOps`: a queued operation runs when its turn comes, its ten-second timer fires,
  what is on the wire is delivered and served.
* `PythonSession`, `HttpServe`: the event loop runs every task that is ready. Of a handler
  of the application only its cancellation is assumed to be taken.
* `ServeChannel`: frames on a connected socket are delivered, the drain interval runs, a
  dial succeeds or fails, a closed record tears its socket down and the peer of a socket
  that was closed learns of it. Not that the caller uploads or the handler returns.
* `ClientChannels`: frames, close events and timers come, the promise of the handshake
  continues, a dial ends if its channel is gone, and the gateway notices a lost connection
  in the end (its pings). Not that the backend comes, nor that anything is closed.
* `Lifecycle`: the auth timer, and the close events of connections that were closed or
  destroyed (`ws` destroys those that do not answer), of `wss` and of the HTTP server.
* `AdminConsole`: the oldest request is handled and answered or fails, and the overview
  polls.
* `Migration`, `Credentials`, `AdminAccess`: the runs check safety and steps only, and assume none.

`MCTransfer` and `MCSessions` state the fairness of each part for the behaviours of that part.

## 6. Proofs

Each theorem holds for every value of the constants that the assumptions of its module
allow; the runs of section 3 check the same definitions on small instances. What the
assumptions say: null values are not members of the sets they stand beside, bounds and
sizes are naturals, a positive limit is positive, an identity has the namespace of the
credentials that resolve to it, there are finitely many sockets (each process has), and a
filter shows a set of credentials. Hypotheses beyond these are in the table.

| Module | Theorem | Statement |
|---|---|---|
| `GatewayProofs` | `TypeCorrect` | `Spec => []TypeOK` |
| | `OwnershipCorrect` | `Spec => []OwnershipInv` |
| | `OwnershipRefined` | `Spec => ImplementsOwnership`, the refinement of `Ownership` |
| | `DeposedOnlyByNewerHolds` | `Spec => DeposedOnlyByNewer` |
| | `EpochsIdentifyBackends` | `Spec => []TermsIdentify`, proved of `Ownership` and carried over by the refinement |
| | `OpenPeersAuthorizedHolds` | `Spec => []OpenPeersAuthorized` |
| | `ViewsFreshHolds` | `Spec => []ViewsFresh` |
| | `EpochsOnlyAdvanceHolds` | `Spec => EpochsOnlyAdvance` |
| | `ChannelsCorrect` | `Spec => []ChannelsInv` |
| | `ChannelsAnnouncedHolds` | `Spec => []ChannelsAnnounced` |
| | `TopicsCorrect` | `Spec => []TopicsOfCurrentEpoch` |
| | `HoldingsInScopeHolds` | `Spec => []HoldingsInScope` |
| | `CloseReasonsTrueHolds` | `Spec => CloseReasonsTrue` |
| `CredentialsProofs` | `CredentialsTypeCorrect` | `Spec => []CredentialsTypeOK` |
| | `CredentialsCorrect` | `Spec => []CredentialsInv` |
| | `OpenConnectionsUnrevokedHolds` | `Spec => []OpenConnectionsUnrevoked` |
| | `SecretsDieHolds` | `Spec => SecretsDie` |
| | `MigrationHolds` | `Spec => []MigrationInv`, if `Bounded` and `~Fallible` |
| | `StartsHold` | `Spec => StartsSucceed`, under the same |
| `TransferProofs` | `RelayHolds` | `Spec => []RelayInv` |
| | `BridgeCorrect` | `Spec => []BridgeInv` |
| | `StatusFinalHolds` | `Spec => StatusFinal` |
| | `ServeCorrect` | `Spec => []ServeInv`, if `MaxBody + 2 <= EarlyLimit` |
| `AccessProofs` | `AccessCorrect` | `Spec => []AccessInv`, if `~Probing` |
| | `RefusalsEarnedHolds` | `Spec => []RefusalsEarned` |
| | `BurstsAndSessionsBounded` | `Spec => [](BurstBounded /\ SessionsFixed)`, also if `Probing` |
| `SessionsProofs` | `BackendsCorrect` | `Spec => []BackendsInv`, if `~Impatient` |
| | `ClientCorrect` | `Spec => []ClientInv` |
| | `LifecycleCorrect` | `Spec => []LifecycleInv` |
| | `StaysDownHolds` | `Spec => StaysDown`, if `~Impatient` |
| `ControlProofs` | `OwnRepliesHold` | `FairSpec => [](ControlTypeOK /\ OwnReplies)` |
| | `ControlCorrect` | `FairSpec => []ControlInv`, if `~Overlap` and `~SameTick` |
| `ClientChannelsProofs` | `ChannelsSoundAlways` | `Spec => []ClientSound` (type, `WaitersListen`, `ChannelsAccounted`, `DataFits`) |
| | `ClientChannelsCorrect` | `Spec => []ClientChannelsInv`, if `~SameTick` |
| `ConsoleProofs` | `ConsoleCorrect` | `Spec => []ConsoleInv` |
| | `RevocationOnScreen` | `Spec => RevokesWhatIsShown` |

The hypotheses. `Bounded`: there is a newest time; any finite table has one. `~Fallible`:
ALTER TABLE fails only for a column that exists, as the code assumes. `~Probing` is the
divergence of section 7, without which failed attempts are not all counted.
`MaxBody + 2 <= EarlyLimit`: a head, a body and its end fit in the early buffer of a Python
channel (`_EARLY_BUFFER_LIMIT = 64`, `channel.py:35`), which drops what exceeds it with a
warning; a longer request whose frames all come before the channel has its consumer loses
some. That is about frames that wait in one turn of the event loop, and `MaxBody` of the
model is the length of the whole body, so the hypothesis asks for more than is needed.
`~Impatient`: whoever calls `connect()`, `start()` or `close()` of the Python SDK awaits it
before the next call. `~SameTick`: a continuation after an `await` runs before the next frame
is handled, as with the WebSocket of browsers and of Node. `~Overlap`: the application does
not leave the last handler of a topic while another call subscribes to it. Each of these is a
divergence of section 7 where it fails, which TLC finds within a few steps; the
configurations of the runs set the same constants to FALSE.

**Ownership.** `OwnerCoherence`, `RegistryTruthful` and `RecoveryTokensLive` are what a
user relies on, and are not inductive: to know that an expired lease takes its owner with
it one must know that the session a lease names did say hello, at an epoch that was
minted, and that, if it is still connected, it carries the backendId. That is
`LeasesKnown`, and with it the conjunction `OwnershipInv` is inductive. Its preservation
is not proved action by action: `OwnershipSteps` shows that every action other than
a hello is of one of two kinds as far as ownership can tell,

* `FlagStep`: no session, lease or registry entry comes or goes (heartbeats, pings,
  timers, channels, topics, revocations that only close sockets);
* `DropStep(S, B)`: the sessions of `S` leave, with the leases and registry entries of the
  backends of `B` (disconnects, lease expiry, ping rounds, restart);

`BackendHellos` shows that a backend hello, also one that fails, is a take-over
(`PeersAfterHello` with `TakeLease`); a client hello only adds a session. Each kind
preserves the invariant, and maps to a stutter (flags, client hellos), to `Release(B)`, and
to `Acquire` or `Squander` of `Ownership` respectively. The same classification gives
`DeposedOnlyByNewer`, since only a take-over lets a connected peer lose its backend.

**Open peers.** Seen from one session every step is a `SessionStep`: a peer that is open
afterwards was open before with the same credential and scope (`Kept`), or said hello under
a valid credential and was sent the registry (`Greeted`). What is left of
`OpenPeersAuthorized` is that the routes which change `revoked` or `allowed` reach each open
peer of the credential (`CredentialSteps`, `ClosedPeers`). `ViewsFresh` asks one thing more
of a step (`ViewStep`): whoever changes the registry sends snapshots to everybody, whoever
changes a scope to those it concerns, and nothing else touches what a snapshot is made of.

**Channels and topics.** For channels every step is of one of five kinds (`ChannelSteps`):
a tear-down with its reasons, a step of two data sockets, the creation of a channel to a
connected owner, a step that leaves channels alone, a restart. The heart is
`ChannelsSurvive`: a channel that is open after a step that was open before still has its
owner, lease and epoch, that is, no handler that ends a lease forgets the channels of it;
it is where `OwnershipInv` is needed. `ChannelsAnnounced` and `CloseReasonsTrue` follow the
same kinds: the reason is decided by the handler, so that `ReasonsGiven` relates every
reason to what that handler does to the lease. For topics the kinds are those of
`TopicStep`: a step that changes who leases a backend forgets the topics of the previous
lease. `HoldingSteps` says that a session comes to hold something only by asking for it
while its scope allows, and `HoldingsInScope` then needs `OpenPeersAuthorized`, for the
scope a session carries is that of its credential.

**Credentials.** Every action, cut off or not, does one of four things to the rows
(`RowSteps`): rows are demoted (revoked, purged, expired), one is issued, an enrollment is
bound with its family, an access row is exchanged. `CredentialsInv` is not inductive
without `ReferencesInv`: rows point to rows that were issued (`RowsLinked`), an access row
is bound as its enrollment or, in a run with crashes, not yet (`AccessBound`), and what an
active row is bound to exists, although rows and enrollments expire at different times
(`BoundRowsKnown`). `SecretsDie` follows from `UsableBefore`: a row that works after a step
worked before it, unless the step wrote a new secret.

**Migration.** The argument is the order of `ROW_NUMBER()`: two access rows of one
enrollment are always in order (`PrecedesTotal`), so that at most one is kept; among the
unrevoked rows of an enrollment, or all if there is none, the newest with the least id
precedes all others (`FirstExists`, from the least-element principle), so that one is kept.
The invariant `IInv` adds what a start knows between two statements: the columns it has
reached, and that until the collapse the rows are those it found. An index in place means no
duplicates, and without duplicates the collapse keeps every row (`CollapseIsIdle`).

**Relay.** That a buffer is bounded is not inductive, since a read is delivered frame by
frame while the sender is already paused: `BackPressureKept` counts what is left of the read
beside what is buffered. Likewise `BucketKept` for the rate: a pending rate timer means that
the window is spent and what is left of the read still fits under limit and overshoot
(`PausesCharged`), and all that was relayed is at most the limit of the windows gone by and
what the present one used (`WindowsCharged`). The proof is one case for each callback.

**Bridge.** `TornDownIsSettled` needs `ClosedIsSettled`: the `close` event of a response,
which tears the channel down without looking, comes only after a response that is over.

**Serving.** Both halves count. `UploadAccounted`: the frames on the wire are the rest of
the request in its order, and chunks taken, on the wire and not yet sent add up to the
request, unless some were dropped for good, in which case no end follows.
`UploadWatched`: the request flows below the mark only. `BodyAccounted` and `ReplyAccounted`
are the same for the Python channel: frames that wait are in order, what was handed over,
waits in the exchange or in the inbox adds up to what was sent, there is one exchange and one
marker of its end, and a head is held back only by a channel that is closed. The lemmas on
queues (`CountAppend`, `CountTail`, `OrderedTail`, ...) say what a frame at either end
changes, so that each action is a case about numbers.

**Admission.** `Fits` says why two windows suffice: a bucket names the beginning of its
window, what the history has since then is at most the count and the quota, and at any
point of reach before it there is one earlier window at most. A request in the window counts
one more (`SameWindowFits`); one after it starts a window, and the previous one becomes
the earlier one (`NewWindowFits`); a bucket whose window is over may be dropped
(`OverFits`), which the mutant `SweptAll` shows to be the point. `Earned` is the converse, that a count was there to be
counted, which makes a refusal earned (`RefusedEarned`). Cardinalities of histories are
related by `SizeUnion`, `SizeMore` and `SizeQuiet`.

**Connections of the SDKs.** No callback looks at the others: each goes by its own socket,
a timer or a flag. What keeps the threads of attempts down to one is a budget. For the
TypeScript backend (`BackendBudget`), attempts under way, reconnect timers and heartbeat
intervals together are at most the calls of `connect()`, since what one of them ends begins at
most one other; without `close()` there is one at most, and none where `connect()` may be
called (`BackendLineage`, which also says that only `current` has a socket once it is
beyond the exchange). The steps are sorted by what they do to that count (`Quiet` steps do
nothing to it), and a lemma per kind does the arithmetic. The client is the same with three
sources of timers: an attempt that a timer began, a socket that `close()` is closing, and a
client that is wanted (`ClientBudget`); `ClientLineage` is the single thread, while
`Undisturbed`. The Python SDK needs no count: a task is known by the field it is kept in
(`TasksKnown`), and `close()` ends the three before its first `await` (`TasksEnded`).

**Server life cycle.** `PlacesExact` and `StorageOutlivesUse` need to know what is still
possible after the first `close()`: nothing comes in, what is left is closing or dying, and
after the clean-up no control connection is left outside a test (`Stopped`). What a
closer of a call has waited for stays true therefore (`CallSound`). The places are
cardinalities, and each event moves one socket (`CountedExactly`).

**Control operations.** There are no correlation ids; what stands in for them is an order.
`Ordered`: operations are settled in the order in which they are queued, and a drop takes away
all that is under way. `Own`: the request of the pending operation is the only one under way,
or the reply to it is; it holds until an answer is late (`~slow`). `LeftBefore`: a
topic is left before the calls and handlers that have joined it since, so that requests under
way end with the subscription. `Served` then says for a topic who is going to
subscribe it: a request or its reply under way, a call in the queue, or the loop of
`resubscribeTopics` that has not come to it; at rest none of them is, and the topic is
subscribed. It is about behaviours without a restart (`restarts = 0`), as `HandlersServed` is:
after one the resubscription may be refused (section 7).

**Registry and channels of the client.** `QuietViewIsTrue` follows from `WordsTrue`: the
last frame under way about the backend is true, because the gateway sends one at every
change, and if none is under way the client was told. Which of `answer` and `view` counts
depends on the step of the handshake, which `Linked` and `ReadyFirst` tie to the frames on the
wire. `ChannelsAccounted` needs only `DataFits`, the socket that a channel has in each of its
states, and holds whether or not frames come early.

**Admin page.** `ConsoleIInv` has a layer for each thing that can go wrong. In all
behaviours, `Typed`: sessions are numbered, there is one login at a time, and outside of the
app no request belongs to a page. While answers come in order and the network holds,
`Orderly`: those not yet handled are the latest, and an answer that ends the session is
followed only by others that do (`AppTrue`); in the login view the session is over and so is
all that is under way (`LoginTrue`, from which `LoginViewTrue`). While, besides, the administrator waits
for what is under way (`~impatient`), the one change under way is that of the open dialog
(`OneChange`). Then `Freshening`: a load is due, or an answer with the list of the gateway is
under way and no older one after it, or the page has it, or a change was answered, upon which
the page loads, or the session is about to end. At rest only "the page has it" is left
(`QuietIsFresh`). And, while no session runs out, `Held` and `AllAccounted`: the answer of an
issue finds the dialog that asked for it, and no other modal is in the way of the token. The lemmas
describe what a step does to the requests in flight (all kept, one added, one handled) before
each layer is carried over.

`RevokesWhatIsShown` looks at the moment a revocation is sent. The dialog took its targets from
the screen when it opened, and since then the page may have been loaded again, by the app itself or
as the answer to an earlier change. What keeps the targets on screen is that lists are told in the
order in which the gateway made them (`AnsweredInOrder`): a credential that is active at the
gateway, and that a list shows as something else, was not active in any list before it either (`NeverBack`);
one whose identifier was not drawn yet is in no list at all (`Unheard`). So a target that is still
active stays on the page (`TargetsShown`), and a target that the page no longer shows as active is
no longer active: the revocation then changes nothing for it, as the routes revoke active rows only
(`ServeChange`). The property does not hold when answers overtake each other, and says so: a list
asked for before a credential was issued, and answered after the page showed it, takes the row off
the page under the open dialog. Read to the letter, the comment of the selection
(`CredentialsPage.tsx:487`, "a filter change or a reload never revokes something off-screen") is not
met then, although the dialog still names what it is going to revoke.

**Compositions.** `MCTransfer`, `MCStorage` and `MCSessions` check several modules in one run,
of which one runs at a time. A step of the composition is a step of each part or leaves it
alone, so that the invariant of a part is kept while another runs (`BridgeSteps`,
`RelaySteps`, `StartSteps`; `BackendKept` and its like), and the theorems about a part hold of
the composition, whose properties the runs name.

Only model-checked: the liveness properties (`OrphanLeaseHeals`, `PairingSettles`,
`PeersLeave`, `TransfersEnd`, `Recovers`, `CallsSettle`, `WaiterServed`, `ChannelsEnd`,
`ConsoleSettles`), since fairness and ENABLED are outside this prover. What a recursive
definition computes for every input would need induction over data, also outside; no module
needs it, and none declares a RECURSIVE operator.

## 7. Known divergences

Places where the code does less than a comment or a document of the repository says, each
stated by a definition. Two are runs: **leak** and **late_head**. The others are not checked
by a run; to see the steps that lead to one, check it on the module and with the constants
given (the values of section 4, in a configuration of the module's own, with `FairSpec` or
`Spec` as in section 5). The passing runs check the part that does hold.

**Gateway**

* `ChannelQuota` (`MCGateway_traffic`, `ChannelIds = {c1, c2}`, `TopicNames = {}`).
  `handleChannelOpen` asks the quota of the opening peer only (`src/server.ts:1214`),
  although channels count against the backend end too, so that several clients take a
  backend beyond it. `src/server.ts:58`: "max concurrent channels a single peer may hold
  open."
* `ChannelClientsLive` (run leak). `handleBackendLeaseExpired` (`src/server.ts:1777`) removes the
  owner's session but not the channels it opened as a client of another backend, and the
  later disconnect returns early. `src/server.ts:1809`: "Close any remaining channels where
  this peer is the client end".

**Credentials**

* `AccessAlwaysFollowsParent` (`MCStorage`). `bindBackendCredential` runs two UPDATE
  statements without a transaction (`src/storage.ts:575-581`). A crash in between leaves
  an access token unbound under a bound enrollment. `src/storage.ts:562`: "Bind a legacy
  backend credential, and the access tokens exchanged from it".
* `RegisteredIdentityKept` (`MCStorage`). Deleting an identity asks only about the
  credential seen last (`src/server.ts:770-774`). Of two legacy credentials with one
  instanceId, revoking the last one lets the identity of the other be deleted.
  `src/server.ts:752-753`: "Refused whenever something may still resolve to it".

**Storage**

* `ReadyIsMigrated` (`Migration`, `Fallible = TRUE`). `addColumnIfMissing` takes every error of
  ALTER TABLE for the one that says that the column is there (`src/storage.ts:146-152`), also
  that of a locked database, and the gateway comes up without the column.
  `src/storage.ts:150`: "Column already exists."

**HTTP bridge** (`HttpBridge`)

* `CleanEndIsComplete`. The `close` listener ends the response whatever the close code
  (`src/server.ts:1345-1353`), so that a backend that dies in mid-body looks like a normal
  end. `src/server.ts:1071`: "truncate hard rather than fake a clean end."
* `ClosingNotPaused`. A body frame handled after tear-down pauses the socket again
  (`src/server.ts:1337-1341`) and nothing resumes it before the library's limit.
  `src/server.ts:1077-1078`: "A paused (rate-limited) socket cannot complete the close
  handshake".
* `FailureIsAnswered` (run late_head). A head that arrives after a 504 or 502 was sent runs
  `res.setHeader` on a sent response (`src/server.ts:1326-1328`), which throws in a
  listener that nothing guards, and ends the process. `docs/protocol-v4.md:130-131`
  describes the failure of one request.

**Relay** (`Relay`)

* `MemoryPromised`. The rate timer resumes unconditionally (`src/server.ts:1136-1139`),
  also a sender that waits for a full buffer. `src/server.ts:1107-1109`: "memory stays
  bounded per channel."
* `ThroughputPromised`. The pause always ends with the window, whatever the bucket owes,
  so that frames above the limit pass at one per window. `src/server.ts:1126-1127`: "so
  sustained throughput converges to the limit".

**Admission** (`MCAdminAccess`, `Probing = TRUE`)

* `EveryRejectionCounts`. `GET /api/admin/session` answers 401 without
  `denyUnauthorized` (`src/server.ts:617`). `src/server.ts:245`: "Every unauthenticated
  rejection goes through here"; `README.md:67` says the same of every route.

**Backend SDK** (`BackendSession`, `ServeChannel`)

* `FailureKeptByClose`. `handshake()` clears the failure without looking at `closed`
  (`packages/backend/src/index.ts:430-431`). Its doc, lines 226-229: kept "by `close()`,
  which neither sets nor clears it".
* `ReplacedAlwaysStandsDown`. `close()` does not cancel the reconnect timer and the timer
  asks only `closed` (line 459), which `connect()` resets: two threads of attempts that
  replace each other, of which one goes on after the other was told to stand down. Lines
  231-235: "The backend then stops for good".
* `RejectsQuietly`. A failed dial sends `channel_reject` on `this.socket` (line 514), which
  during a reconnect is a socket that is still connecting (line 354); its `send()` throws,
  in a promise nobody handles (line 416), which ends a Node process.
  `packages/backend/README.md:6`: "Reconnects with exponential backoff". The Python SDK
  ignores the error of the same send (`backend.py:792`).
* `ArrivedIsServed` (`SameTick = TRUE`). With the `ws` package a frame that comes with the
  upgrade response is emitted before the promise of `waitForSocketOpen` continues, and the
  channel has no listener yet: the head can be lost, and the request is never served (the
  Python channel keeps an early buffer, `channel.py:35`). `packages/client/src/socket.ts:2`:
  "Works with browser/WebView WebSocket, Node >= 21 native WebSocket, and the `ws` package".

**Client SDK**

* `ReconnectsOnlyAfterLoss`, `ChannelsAlwaysDieWithTheirs` (`ClientSession`).
  `handleClose()` does not ask whose socket closed (`packages/client/src/index.ts:356-371`;
  the backend SDK does). After `close()` and `connect()` the old socket's event clears the
  new connection and its channels. Line 57: "Auto-reconnect with backoff after unexpected
  disconnects"; lines 5-7: channels "die with the connection".
* `OwnRepliesAlways` (`ControlOps`). A reply that comes after the ten-second timer
  settles the next operation of its type (lines 274-298). Lines 80-83: operations "are
  matched FIFO against replies".
* `HandlersSubscribed` (`ControlOps`). Refused resubscriptions are ignored (line 352),
  so that a client back before the backend, after a gateway restart, loses its topics.
  `packages/client/README.md:5`: "reconnect with subscription recovery".
* `HandlersInformed` (`ControlOps`, `SameTick = TRUE`). The retained payload, sent right
  after the confirmation, is routed before the handler is registered (lines 325-332).
  `docs/protocol-v4.md:112-113`: a cold subscriber has the current state without a round
  trip.
* `HandlersSubscribed` (`ControlOps`, `Overlap = TRUE`, `MaxRestarts = 0`,
  `MaxConnections = 1`). Leaving a topic does not count a subscription under way
  (lines 335-342), which is then unsubscribed with its handler registered.
* `WaiterServed` (`ClientChannels`, `SameTick = TRUE`). `establish()` attaches `routeMessage`
  after `await ready` (line 228): a `registry_snapshot` that the socket emits in the tick of
  `peer_ready` has no listener, and the client does not see a backend that is online.
  `packages/client/README.md:21`: "waitForBackend resolves once it is online (immediately if
  it already is)".

**Python SDK**

* `ClosedEventTrue` (`PythonSession`). `close()` sets the event first
  (`backend.py:447-449`). Lines 436-439: "Wait until the backend is fully closed."
* `NothingUpAfterClose` (`PythonSession`, `Impatient = TRUE`). `close()` does not reach
  a `connect()` that is dialling (lines 391, 445-483), which connects afterwards. Line 446:
  "Close the control connection and all channels (idempotent)."
* `AlwaysAnswered` (`HttpServe`). `HttpExchange.start` sets `started` before it encodes
  the head (`http.py:136`), so a handler whose headers cannot be encoded gets no 500.
  `http.py:232`: "The handler produced no response head: the client still needs one."

## 8. What is not modelled

* **Directed messages** (`client_message`, `backend_server_message`, push): a lookup and a
  send in one handler; that the looked-up owner is right is `OwnershipInv`.
* **Discovery**: a read of the registry; paging and sorting are data. Recovery tokens are
  in `Gateway`.
* **Parsing of the environment and of the command line** (`src/index.ts`): read once.
* **The `fetch` wrapper of the client**: one HTTP request to the proxy route, which is
  `HttpBridge` from the other end.
* **The rest of the admin page**: the backends page repeats the credentials page with one
  dialog; translation, formatting, toasts and layout are presentation. That two
  administrators who edit one scope overwrite each other is by design of the route, which
  takes the whole scope.
* **Message validation, header filtering, address extraction, push notifications, the CLI,
  packaging**: predicates on data, presentation or
  single I/O calls without state that outlives them. The models take messages that pass
  validation.
* Storage is one SQLite connection: statements are atomic and in order. Contention between
  processes on one database is not modelled.
* Data that no property tells apart: payloads, names, headers, wording, log and audit lines.

## 9. Plan

Modelled and checked: the gateway, its self-contained parts with their start and their end,
the connections and the serving of the three SDKs, and the admin page. Proved: all that the
runs check of them but liveness. What is left:

1. **Compose.** `BackendSession` with `Gateway` in place of its abstract environment
   (backoff, replacement code, heartbeat against the lease TTL); `HttpBridge` with
   `ServeChannel` over one data socket.
2. **Extend.** The hazards of PROJECT.json that no property covers: the channel quota of
   the backend end, and a backend that breaks in mid-body, are divergences of section 7
   without a run; a dial that fails during a reconnect needs the first composition.
3. **Liveness.** A proof of `OrphanLeaseHeals` or `PairingSettles` needs a prover with
   support for ENABLED; the invariants it would rest on are proved.
