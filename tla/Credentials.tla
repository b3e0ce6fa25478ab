----------------------------- MODULE Credentials -----------------------------
(***************************************************************************)
(* Issued credentials and backend identities (src/storage.ts), the admin   *)
(* and token routes that change them (src/server.ts), and the connections  *)
(* that run under them.  A token is a row with the number of its secret;   *)
(* the digest in the row is the number of the newest one.                  *)
(*                                                                         *)
(* A route is one step, but on SQLite each statement commits by itself: a  *)
(* crash between two statements of a route keeps the first.                *)
(***************************************************************************)
EXTENDS Naturals, FiniteSets

CONSTANTS
    Rows,        \* credential ids; each is issued at most once
    NoRow,
    LegacyRows,  \* backend credentials issued before identities were bound
    BackendIds,  \* backendId values; each names at most one identity
    NoBackend,
    Namespaces,
    Instances,   \* instanceId values legacy hellos declare
    Bound,       \* the key of an identity that belongs to a credential
    Conns,       \* connections
    MaxSecret    \* bound: how many secrets a row may see

ASSUME CredentialsAssumption ==
    /\ NoRow \notin Rows /\ NoBackend \notin BackendIds
    /\ LegacyRows \subseteq Rows /\ Bound \notin Instances
    /\ Namespaces # {}
    /\ MaxSecret \in Nat \ {0}

VARIABLES
    creds,       \* credentials
    identities,  \* backend_identities
    conns,       \* the credential and backend of each live connection
    registered,  \* history: <<enrollment, backendId>> of past registrations
    crashing     \* whether the process is ever lost between two statements

vars == <<creds, identities, conns, registered, crashing>>

Types == {"device", "backend", "backend-access"}

CredentialRecords ==
    [status : {"unused", "active", "revoked", "purged"},
     type : Types, namespace : Namespaces, parent : Rows \cup {NoRow},
     secret : 0..MaxSecret, expired : BOOLEAN,
     backendId : BackendIds \cup {NoBackend}]

IdentityRecords ==
    [status : {"unused", "known", "deleted"}, namespace : Namespaces,
     key : Instances \cup {Bound}, lastCred : Rows \cup {NoRow}]

\* open is FALSE once ws.close() was called: the connection still holds its
\* backend until its close event is handled.
Connections == [cred : Rows \cup {NoRow}, backendId : BackendIds \cup {NoBackend},
                open : BOOLEAN]

Offline == [cred |-> NoRow, backendId |-> NoBackend, open |-> FALSE]

CredentialsTypeOK ==
    /\ creds \in [Rows -> CredentialRecords]
    /\ identities \in [BackendIds -> IdentityRecords]
    /\ conns \in [Conns -> Connections]
    /\ registered \subseteq Rows \X BackendIds
    /\ crashing \in BOOLEAN

NewCredential(type, ns, parent, b) ==
    [status |-> "active", type |-> type, namespace |-> ns, parent |-> parent,
     secret |-> 1, expired |-> FALSE, backendId |-> b]

Blank(r) ==
    [NewCredential("device", CHOOSE ns \in Namespaces : TRUE, NoRow, NoBackend)
        EXCEPT !.status = "unused", !.secret = 0]

NewIdentity(ns, key) ==
    [status |-> "known", namespace |-> ns, key |-> key, lastCred |-> NoRow]

\* A database migrated from before backends were bound to credentials: its
\* backend credentials are active and unbound.
Init ==
    /\ \E ns \in [LegacyRows -> Namespaces] :
          creds = [r \in Rows |-> IF r \in LegacyRows
                                  THEN NewCredential("backend", ns[r], NoRow, NoBackend)
                                  ELSE Blank(r)]
    /\ identities = [b \in BackendIds |->
          [NewIdentity(CHOOSE ns \in Namespaces : TRUE, Bound) EXCEPT !.status = "unused"]]
    /\ conns = [k \in Conns |-> Offline]
    /\ registered = {}
    /\ crashing \in BOOLEAN

-----------------------------------------------------------------------------
(* What the handlers ask.                                                  *)

Usable(r) == creds[r].status = "active" /\ ~creds[r].expired

\* findValidCredential: the secret is the newest of a usable row whose
\* enrollment, if it has one, is usable too
Valid(r, v) ==
    /\ Usable(r) /\ creds[r].secret = v
    /\ creds[r].parent # NoRow => Usable(creds[r].parent)

ValidNow(r) == Valid(r, creds[r].secret)

\* isKnownBackend
IsKnownBackend(b, ns) == identities[b].status = "known" /\ identities[b].namespace = ns

\* findAccessCredential: a revoked row is found, a purged one is not
AccessRows(p) ==
    {r \in Rows : /\ creds[r].status \in {"active", "revoked"}
                  /\ creds[r].type = "backend-access" /\ creds[r].parent = p}

\* The enrollment a credential stands for
Root(r) == IF creds[r].parent = NoRow THEN r ELSE creds[r].parent

\* boundCredentialCounts: expired credentials still count
BoundTo(b) ==
    {r \in Rows : /\ creds[r].status = "active" /\ creds[r].type = "backend"
                  /\ creds[r].backendId = b}

Online(b) == \E k \in Conns : conns[k].backendId = b

\* Mutant: what was exchanged from the row is left out.
OnlyItself(r) == {r}

\* The row and the live rows exchanged from it: what a revocation and a
\* binding reach
Family(r) == {r} \cup {q \in Rows : creds[q].status = "active" /\ creds[q].parent = r}

\* The identities a legacy hello with instance i resolves to
Keyed(ns, i) == {b \in BackendIds : IsKnownBackend(b, ns) /\ identities[b].key = i}

Fresh(r) == creds[r].status = "unused"

FreshId(b) == identities[b].status = "unused"

-----------------------------------------------------------------------------
(* Updates.                                                                *)

RevokeRows(R) ==
    creds' = [r \in Rows |->
                IF r \in R THEN [creds[r] EXCEPT !.status = "revoked"] ELSE creds[r]]

BindRows(R, b) ==
    creds' = [r \in Rows |->
                IF r \in R THEN [creds[r] EXCEPT !.backendId = b] ELSE creds[r]]

\* Mutant: rotation renews the row and keeps its digest.
RotatedDigestKept(r, p) ==
    [creds[r] EXCEPT !.status = "active", !.expired = FALSE,
                     !.backendId = creds[p].backendId]

\* The access row of enrollment p after another exchange: a new digest and
\* lifetime, revocation cleared, bound as the enrollment is now
Rotated(r, p) ==
    [creds[r] EXCEPT !.secret = @ + 1, !.status = "active", !.expired = FALSE,
                     !.backendId = creds[p].backendId]

\* Mutant: a connection is closed only for its own row's enrollment.
CloseEnrollments(R) ==
    conns' = [k \in Conns |-> IF conns[k].cred \in {q \in R : creds[q].parent = NoRow}
                              THEN [conns[k] EXCEPT !.open = FALSE] ELSE conns[k]]

\* afterRevoke
CloseConnections(R) ==
    conns' = [k \in Conns |-> IF conns[k].cred \in R
                              THEN [conns[k] EXCEPT !.open = FALSE] ELSE conns[k]]

\* The row of identity b is deleted.
Forgotten(identity) == [identity EXCEPT !.status = "deleted"]

\* The process is lost with every connection.
Lost == crashing /\ conns' = [k \in Conns |-> Offline]

-----------------------------------------------------------------------------
(* Administration.                                                         *)

IssueDevice(r, ns) ==
    /\ Fresh(r)
    /\ creds' = [creds EXCEPT ![r] = NewCredential("device", ns, NoRow, NoBackend)]
    /\ UNCHANGED <<identities, conns, registered, crashing>>

\* A backend credential for a new identity, or for a known one of its namespace
IssueBackend(r, ns, b) ==
    /\ Fresh(r)
    /\ creds' = [creds EXCEPT ![r] = NewCredential("backend", ns, NoRow, b)]
    /\ \/ /\ FreshId(b)
          /\ identities' = [identities EXCEPT ![b] = NewIdentity(ns, Bound)]
       \/ IsKnownBackend(b, ns) /\ UNCHANGED identities
    /\ UNCHANGED <<conns, registered, crashing>>

\* The identity is created, the credential is not.
IssueBackendCut(ns, b) ==
    /\ FreshId(b) /\ Lost
    /\ identities' = [identities EXCEPT ![b] = NewIdentity(ns, Bound)]
    /\ UNCHANGED <<creds, registered, crashing>>

\* An unbound backend credential becomes an identity of its namespace, and
\* so do the live access rows exchanged from it.
Bind(r, b) ==
    /\ creds[r].status = "active" /\ creds[r].type = "backend"
    /\ creds[r].backendId = NoBackend
    /\ IsKnownBackend(b, creds[r].namespace)
    /\ BindRows(Family(r), b)
    /\ UNCHANGED <<identities, conns, registered, crashing>>

\* The first of its two UPDATE statements only
BindCut(r, b) ==
    /\ creds[r].status = "active" /\ creds[r].type = "backend"
    /\ creds[r].backendId = NoBackend
    /\ IsKnownBackend(b, creds[r].namespace)
    /\ Lost
    /\ BindRows({r}, b)
    /\ UNCHANGED <<identities, registered, crashing>>

\* Revocation of the active rows among R; each takes its family with it.
Revoke(R) ==
    LET chosen == {r \in R : creds[r].status = "active"}
        reach == UNION {Family(r) : r \in chosen}
    IN  /\ chosen # {}
        /\ RevokeRows(reach)
        /\ CloseConnections(reach)
        /\ UNCHANGED <<identities, registered, crashing>>

\* The first UPDATE of a single revocation only; bulk revocation is one
\* transaction.
RevokeCut(r) ==
    /\ creds[r].status = "active" /\ Lost
    /\ RevokeRows({r})
    /\ UNCHANGED <<identities, registered, crashing>>

Purge(R) ==
    LET deleted == {r \in R : creds[r].status = "revoked"}
    IN  /\ deleted # {}
        /\ creds' = [r \in Rows |-> IF r \in deleted
                                    THEN [creds[r] EXCEPT !.status = "purged"]
                                    ELSE creds[r]]
        /\ UNCHANGED <<identities, conns, registered, crashing>>

\* Refused while the backend is online, bound, or last registered by a
\* legacy credential that is still active.
DeleteIdentity(b) ==
    LET last == identities[b].lastCred
    IN  /\ identities[b].status = "known"
        /\ ~Online(b) /\ BoundTo(b) = {}
        /\ last # NoRow => ~(creds[last].status = "active" /\ creds[last].backendId = NoBackend)
        /\ identities' = [identities EXCEPT ![b] = Forgotten(@)]
        /\ UNCHANGED <<creds, conns, registered, crashing>>

-----------------------------------------------------------------------------
(* Backends, devices and time.                                             *)

\* POST /api/backend/token: the one access row of enrollment p is created
\* with a new row r, or rotated in place.
Exchange(p, v, r) ==
    /\ Valid(p, v) /\ creds[p].type = "backend"
    /\ \/ /\ AccessRows(p) = {} /\ Fresh(r)
          /\ creds' = [creds EXCEPT ![r] = NewCredential("backend-access",
                          creds[p].namespace, p, creds[p].backendId)]
       \/ /\ r \in AccessRows(p) /\ creds[r].secret < MaxSecret
          /\ creds' = [creds EXCEPT ![r] = Rotated(r, p)]
    /\ UNCHANGED <<identities, conns, registered, crashing>>

\* A token that does not resolve is refused.
Denied(r, v) == ~Valid(r, v) /\ UNCHANGED vars

\* peer_hello of a client, with secret v of row r
Connect(k, r, v) ==
    /\ conns[k] = Offline /\ Valid(r, v)
    /\ conns' = [conns EXCEPT ![k] = [cred |-> r, backendId |-> NoBackend, open |-> TRUE]]
    /\ UNCHANGED <<creds, identities, registered, crashing>>

\* The backend a hello of row r with instance i resolves to: its own, the
\* one the legacy mapping knows, or a new one
Resolves(r, i, b) ==
    IF creds[r].backendId # NoBackend THEN b = creds[r].backendId
    ELSE IF Keyed(creds[r].namespace, i) # {} THEN b \in Keyed(creds[r].namespace, i)
    ELSE FreshId(b)

\* Identity b as the hello of row r leaves it
Touched(r, i, b) ==
    IF FreshId(b)
    THEN [NewIdentity(creds[r].namespace, i) EXCEPT !.lastCred = Root(r)]
    ELSE [identities[b] EXCEPT !.lastCred = Root(r)]

\* peer_hello of a backend; whoever held the backend is told to stand down.
Register(k, r, v, i, b) ==
    /\ conns[k] = Offline /\ Valid(r, v) /\ creds[r].type # "device"
    /\ Resolves(r, i, b)
    /\ identities' = [identities EXCEPT ![b] = Touched(r, i, b)]
    /\ conns' = [q \in Conns |->
                    IF q = k THEN [cred |-> r, backendId |-> b, open |-> TRUE]
                    ELSE IF conns[q].backendId = b
                    THEN [cred |-> conns[q].cred, backendId |-> NoBackend, open |-> FALSE]
                    ELSE conns[q]]
    /\ registered' = registered \cup {<<Root(r), b>>}
    /\ UNCHANGED <<creds, crashing>>

\* The process is lost before the hello records who registered.
RegisterCut(r, v, i, b) ==
    /\ Valid(r, v) /\ creds[r].type # "device"
    /\ creds[r].backendId = NoBackend /\ Keyed(creds[r].namespace, i) = {} /\ FreshId(b)
    /\ Lost
    /\ identities' = [identities EXCEPT ![b] = NewIdentity(creds[r].namespace, i)]
    /\ UNCHANGED <<creds, registered, crashing>>

Disconnect(k) ==
    /\ conns[k] # Offline
    /\ conns' = [conns EXCEPT ![k] = Offline]
    /\ UNCHANGED <<creds, identities, registered, crashing>>

\* The expiry date of row r passes.
Expires(r) ==
    /\ creds[r].status = "active" /\ ~creds[r].expired
    /\ creds' = [creds EXCEPT ![r] = [@ EXCEPT !.expired = TRUE]]
    /\ UNCHANGED <<identities, conns, registered, crashing>>

Administration ==
    \/ \E r \in Rows, ns \in Namespaces :
          IssueDevice(r, ns) \/ \E b \in BackendIds : IssueBackend(r, ns, b)
    \/ \E r \in Rows, b \in BackendIds : Bind(r, b)
    \/ \E R \in SUBSET Rows : Revoke(R) \/ Purge(R)
    \/ \E b \in BackendIds : DeleteIdentity(b)

Presented ==
    \E r \in Rows, v \in 1..MaxSecret :
        \/ Denied(r, v)
        \/ \E q \in Rows : Exchange(r, v, q)
        \/ \E k \in Conns :
              \/ Connect(k, r, v)
              \/ \E i \in Instances, b \in BackendIds : Register(k, r, v, i, b)

Cut ==
    \/ \E r \in Rows : RevokeCut(r) \/ \E b \in BackendIds : BindCut(r, b)
    \/ \E b \in BackendIds, ns \in Namespaces : IssueBackendCut(ns, b)
    \/ \E r \in Rows, v \in 1..MaxSecret, i \in Instances, b \in BackendIds :
          RegisterCut(r, v, i, b)

Next ==
    \/ Administration \/ Presented \/ Cut
    \/ \E k \in Conns : Disconnect(k)
    \/ \E r \in Rows : Expires(r)

Spec == Init /\ [][Next]_vars

-----------------------------------------------------------------------------
(* Properties.                                                             *)

\* A secret that has stopped working (rotated, revoked, expired, orphaned or
\* purged) never works again, although rotation clears the revocation of a
\* row and renews its lifetime.
SecretsDie ==
    [][\A r \in Rows : \A v \in 1..creds[r].secret : ~Valid(r, v) => ~Valid(r, v)']_vars

\* A credential that works and is bound names an identity that exists, in
\* its own namespace, whatever was deleted, purged or bound meanwhile.
BoundBackendsKnown ==
    \A r \in Rows : ValidNow(r) /\ creds[r].backendId # NoBackend =>
        IsKnownBackend(creds[r].backendId, creds[r].namespace)

\* An access credential that works is the same backend as its enrollment.
\* The code breaks it: bindBackendCredential binds the enrollment and its
\* access rows in two statements, and a crash may separate them.
AccessAlwaysFollowsParent ==
    \A r \in Rows : ValidNow(r) /\ creds[r].parent # NoRow =>
        /\ creds[r].namespace = creds[creds[r].parent].namespace
        /\ creds[r].backendId = creds[creds[r].parent].backendId

\* The same, as long as no crash separates the statements of a route.
AccessFollowsParent == ~crashing => AccessAlwaysFollowsParent

\* An enrollment has at most one access row, rotated in place.
OneAccessRow ==
    \A p \in Rows : Cardinality({r \in Rows :
        creds[r].parent = p /\ creds[r].status \in {"active", "revoked"}}) <= 1

\* An open connection runs under a credential that is not revoked and whose
\* enrollment is not revoked either: revocation reaches every connection it
\* concerns, also through rows rotated or purged in between.
OpenConnectionsUnrevoked ==
    \A k \in Conns : conns[k].open =>
        /\ creds[conns[k].cred].status = "active"
        /\ creds[Root(conns[k].cred)].status = "active"

\* An identity that a usable legacy credential has registered still exists:
\* deleting it would give that backend a fresh backendId next time.
RegisteredIdentityKept ==
    \A reg \in registered :
        Usable(reg[1]) /\ creds[reg[1]].backendId = NoBackend
            => identities[reg[2]].status = "known"

\* Access rows, and only they, name an enrollment, issued before them and in
\* their namespace.
RowsLinked ==
    \A r \in Rows :
        /\ creds[r].status = "unused" => creds[r].secret = 0
        /\ creds[r].type = "device" => creds[r].backendId = NoBackend
        /\ creds[r].parent # NoRow <=> creds[r].type = "backend-access"
        /\ creds[r].parent # NoRow =>
              LET p == creds[r].parent
              IN  /\ creds[p].status # "unused" /\ creds[p].type = "backend"
                  /\ creds[p].namespace = creds[r].namespace

\* An active access row is bound as its enrollment is, or not yet.
AccessBound ==
    \A r \in Rows : creds[r].status = "active" /\ creds[r].parent # NoRow =>
        \/ creds[r].backendId = creds[creds[r].parent].backendId
        \/ crashing /\ creds[r].backendId = NoBackend

\* What an active row of an active enrollment is bound to exists: neither the
\* expiry of a row nor that of its enrollment lets the identity go.
BoundRowsKnown ==
    \A r \in Rows :
        /\ creds[r].status = "active" /\ creds[r].backendId # NoBackend
        /\ creds[r].parent # NoRow => creds[creds[r].parent].status = "active"
        => IsKnownBackend(creds[r].backendId, creds[r].namespace)

\* A connection that was not closed names the row it was let in under.
OpenConnectionsNamed == \A k \in Conns : conns[k].open => conns[k].cred \in Rows

\* How rows, identities and connections refer to each other.
ReferencesInv == RowsLinked /\ AccessBound /\ BoundRowsKnown /\ OpenConnectionsNamed

\* What holds of the rows between two handlers, and between two statements of
\* a handler that is cut off.
CredentialsInv ==
    /\ CredentialsTypeOK /\ OneAccessRow /\ AccessFollowsParent /\ BoundBackendsKnown
    /\ ReferencesInv

=============================================================================
