-------------------------- MODULE CredentialsProofs --------------------------
(***************************************************************************)
(* Proofs about the database: the rows the routes read and write, for      *)
(* every set of rows, identities and connections, with and without crashes *)
(* between two statements (Credentials), and the start that migrates it    *)
(* (Migration).                                                            *)
(***************************************************************************)
EXTENDS MCStorage, Sequences, FiniteSetTheorems, WellFoundedInduction, TLAPS

-----------------------------------------------------------------------------
(***************************************************************************)
(* Types.                                                                  *)
(***************************************************************************)

\* What the handlers write are rows, identities and connections.
LEMMA NewRecordsTyped ==
  /\ \A t \in Types, ns \in Namespaces, p \in Rows \cup {NoRow}, b \in BackendIds \cup {NoBackend} :
        NewCredential(t, ns, p, b) \in CredentialRecords
  /\ \A r \in Rows : Blank(r) \in CredentialRecords
  /\ \A ns \in Namespaces, i \in Instances \cup {Bound} : NewIdentity(ns, i) \in IdentityRecords
  /\ Offline \in Connections
<1>1. 0 \in 0..MaxSecret /\ 1 \in 0..MaxSecret
  BY CredentialsAssumption
<1>2. (CHOOSE ns \in Namespaces : TRUE) \in Namespaces
  BY CredentialsAssumption
<1>3. "device" \in Types
  BY DEF Types
<1>4. \A t \in Types, ns \in Namespaces, p \in Rows \cup {NoRow}, b \in BackendIds \cup {NoBackend} :
        NewCredential(t, ns, p, b) \in CredentialRecords
  BY <1>1 DEF NewCredential, CredentialRecords
<1>5. \A r \in Rows : Blank(r) \in CredentialRecords
  <2> DEFINE c == NewCredential("device", CHOOSE ns \in Namespaces : TRUE, NoRow, NoBackend)
  <2>1. c \in CredentialRecords
    BY <1>2, <1>3, <1>4
  <2> HIDE DEF c
  <2>2. [c EXCEPT !.status = "unused", !.secret = 0] \in CredentialRecords
    BY <1>1, <2>1 DEF CredentialRecords
  <2> QED
    BY <2>2 DEF Blank, c
<1>6. \A ns \in Namespaces, i \in Instances \cup {Bound} : NewIdentity(ns, i) \in IdentityRecords
  BY DEF NewIdentity, IdentityRecords
<1>7. Offline \in Connections
  BY DEF Offline, Connections
<1> QED
  BY <1>4, <1>5, <1>6, <1>7

LEMMA RowUpdatesTyped ==
  ASSUME NEW c \in CredentialRecords
  PROVE  /\ \A x \in {"revoked", "purged"} : [c EXCEPT !.status = x] \in CredentialRecords
         /\ [c EXCEPT !.expired = TRUE] \in CredentialRecords
         /\ \A b \in BackendIds : [c EXCEPT !.backendId = b] \in CredentialRecords
  BY DEF CredentialRecords

LEMMA ClosingTyped ==
  ASSUME NEW c \in Connections
  PROVE  [c EXCEPT !.open = FALSE] \in Connections
  BY DEF Connections

LEMMA InitTyped == Init => CredentialsTypeOK
<1> SUFFICES ASSUME Init PROVE CredentialsTypeOK
  OBVIOUS
<1>1. PICK ns \in [LegacyRows -> Namespaces] :
        creds = [r \in Rows |-> IF r \in LegacyRows
                                THEN NewCredential("backend", ns[r], NoRow, NoBackend)
                                ELSE Blank(r)]
  BY DEF Init
<1>2. creds \in [Rows -> CredentialRecords]
  <2>1. "backend" \in Types
    BY DEF Types
  <2> QED
    BY <1>1, <2>1, NewRecordsTyped
<1>3. identities \in [BackendIds -> IdentityRecords]
  <2> DEFINE i == NewIdentity(CHOOSE n \in Namespaces : TRUE, Bound)
  <2>1. i \in IdentityRecords
    BY NewRecordsTyped, CredentialsAssumption
  <2>2. identities = [b \in BackendIds |-> [i EXCEPT !.status = "unused"]]
    BY DEF Init
  <2> HIDE DEF i
  <2>3. [i EXCEPT !.status = "unused"] \in IdentityRecords
    BY <2>1 DEF IdentityRecords
  <2> QED
    BY <2>2, <2>3
<1> QED
  BY <1>2, <1>3, NewRecordsTyped DEF Init, CredentialsTypeOK

LEMMA RowsTyped ==
  ASSUME CredentialsTypeOK, [Next]_vars
  PROVE  creds' \in [Rows -> CredentialRecords]
<1> DEFINE Goal == creds' \in [Rows -> CredentialRecords]
<1> SUFFICES Goal
  OBVIOUS
<1>0. /\ creds \in [Rows -> CredentialRecords]
      /\ \A r \in Rows : /\ creds[r] \in CredentialRecords /\ creds[r].namespace \in Namespaces
                         /\ creds[r].backendId \in BackendIds \cup {NoBackend}
                         /\ creds[r].secret \in Nat
      /\ "device" \in Types /\ "backend" \in Types /\ "backend-access" \in Types
  BY CredentialsAssumption DEF CredentialsTypeOK, CredentialRecords, Types
<1>1. CASE UNCHANGED creds
  BY <1>0, <1>1
<1>2. ASSUME NEW r \in Rows, NEW c \in CredentialRecords, creds' = [creds EXCEPT ![r] = c]
      PROVE  Goal
  BY <1>0, <1>2
<1>3. ASSUME NEW r \in Rows, NEW t \in Types, NEW ns \in Namespaces, NEW p \in Rows \cup {NoRow},
             NEW b \in BackendIds \cup {NoBackend},
             creds' = [creds EXCEPT ![r] = NewCredential(t, ns, p, b)]
      PROVE  Goal
  BY <1>2, <1>3, NewRecordsTyped
<1>4. CASE Administration
  <2>1. ASSUME NEW r \in Rows, NEW ns \in Namespaces, IssueDevice(r, ns) PROVE Goal
    BY <1>0, <1>3, <2>1 DEF IssueDevice
  <2>2. ASSUME NEW r \in Rows, NEW ns \in Namespaces, NEW b \in BackendIds, IssueBackend(r, ns, b)
        PROVE  Goal
    BY <1>0, <1>3, <2>2 DEF IssueBackend
  <2>3. ASSUME NEW R, NEW b \in BackendIds, BindRows(R, b) PROVE Goal
    BY <1>0, <2>3, RowUpdatesTyped DEF BindRows
  <2>4. ASSUME NEW R, RevokeRows(R) PROVE Goal
    BY <1>0, <2>4, RowUpdatesTyped DEF RevokeRows
  <2>5. ASSUME NEW R, Purge(R) PROVE Goal
    BY <1>0, <2>5, RowUpdatesTyped DEF Purge
  <2> QED
    BY <1>1, <1>4, <2>1, <2>2, <2>3, <2>4, <2>5 DEF Administration, Bind, Revoke, DeleteIdentity
<1>5. CASE Presented
  <2>1. ASSUME NEW p \in Rows, NEW v, NEW r \in Rows, Exchange(p, v, r) PROVE Goal
    <3>1. CASE creds' = [creds EXCEPT ![r] = NewCredential("backend-access",
                            creds[p].namespace, p, creds[p].backendId)]
      BY <1>0, <1>3, <3>1
    <3>2. CASE creds[r].secret < MaxSecret /\ creds' = [creds EXCEPT ![r] = Rotated(r, p)]
      <4>1. creds[r].secret + 1 \in 0..MaxSecret
        BY <1>0, <3>2, CredentialsAssumption
      <4>2. Rotated(r, p) \in CredentialRecords
        BY <1>0, <4>1 DEF Rotated, CredentialRecords
      <4> QED
        BY <1>2, <3>2, <4>2
    <3> QED
      BY <2>1, <3>1, <3>2 DEF Exchange
  <2> QED
    BY <1>1, <1>5, <2>1 DEF Presented, Denied, Connect, Register, vars
<1>6. CASE Cut
  <2>1. ASSUME NEW b \in BackendIds, NEW R, BindRows(R, b) PROVE Goal
    BY <1>0, <2>1, RowUpdatesTyped DEF BindRows
  <2>2. ASSUME NEW R, RevokeRows(R) PROVE Goal
    BY <1>0, <2>2, RowUpdatesTyped DEF RevokeRows
  <2> QED
    BY <1>1, <1>6, <2>1, <2>2 DEF Cut, RevokeCut, BindCut, IssueBackendCut, RegisterCut
<1>7. ASSUME NEW r \in Rows, Expires(r) PROVE Goal
  BY <1>0, <1>2, <1>7, RowUpdatesTyped DEF Expires
<1> QED
  BY <1>1, <1>4, <1>5, <1>6, <1>7 DEF Next, Disconnect, vars

LEMMA IdentitiesTyped ==
  ASSUME CredentialsTypeOK, [Next]_vars
  PROVE  identities' \in [BackendIds -> IdentityRecords]
<1> DEFINE Goal == identities' \in [BackendIds -> IdentityRecords]
<1> SUFFICES Goal
  OBVIOUS
<1>0. /\ identities \in [BackendIds -> IdentityRecords]
      /\ \A r \in Rows : creds[r].namespace \in Namespaces /\ Root(r) \in Rows
  BY DEF CredentialsTypeOK, CredentialRecords, Root
<1>1. CASE UNCHANGED identities
  BY <1>0, <1>1
<1>2. ASSUME NEW b \in BackendIds, NEW d \in IdentityRecords, identities' = [identities EXCEPT ![b] = d]
      PROVE  Goal
  BY <1>0, <1>2
<1>3. ASSUME NEW b \in BackendIds, NEW ns \in Namespaces, NEW i \in Instances \cup {Bound},
             identities' = [identities EXCEPT ![b] = NewIdentity(ns, i)]
      PROVE  Goal
  BY <1>2, <1>3, NewRecordsTyped
<1>4. ASSUME NEW b \in BackendIds, DeleteIdentity(b) PROVE Goal
  <2>1. Forgotten(identities[b]) \in IdentityRecords
    BY <1>0 DEF Forgotten, IdentityRecords
  <2> QED
    BY <1>2, <1>4, <2>1 DEF DeleteIdentity
<1>5. ASSUME NEW k, NEW r \in Rows, NEW v, NEW i \in Instances, NEW b \in BackendIds,
             Register(k, r, v, i, b)
      PROVE  Goal
  <2>1. NewIdentity(creds[r].namespace, i) \in IdentityRecords
    BY <1>0, NewRecordsTyped
  <2>2. \A d \in IdentityRecords : [d EXCEPT !.lastCred = Root(r)] \in IdentityRecords
    BY <1>0 DEF IdentityRecords
  <2>3. Touched(r, i, b) \in IdentityRecords
    BY <1>0, <2>1, <2>2 DEF Touched
  <2> QED
    BY <1>2, <1>5, <2>3 DEF Register
<1>6. CASE Administration
  <2>1. ASSUME NEW r \in Rows, NEW ns \in Namespaces, NEW b \in BackendIds, IssueBackend(r, ns, b)
        PROVE  Goal
    BY <1>1, <1>3, <2>1 DEF IssueBackend
  <2> QED
    BY <1>1, <1>4, <1>6, <2>1 DEF Administration, IssueDevice, Bind, Revoke, Purge
<1>7. CASE Presented
  BY <1>1, <1>5, <1>7 DEF Presented, Denied, Exchange, Connect, vars
<1>8. CASE Cut
  <2>1. ASSUME NEW ns \in Namespaces, NEW b \in BackendIds, IssueBackendCut(ns, b) PROVE Goal
    BY <1>3, <2>1 DEF IssueBackendCut
  <2>2. ASSUME NEW r \in Rows, NEW v, NEW i \in Instances, NEW b \in BackendIds, RegisterCut(r, v, i, b)
        PROVE  Goal
    BY <1>0, <1>3, <2>2 DEF RegisterCut
  <2> QED
    BY <1>1, <1>8, <2>1, <2>2 DEF Cut, RevokeCut, BindCut
<1> QED
  BY <1>1, <1>6, <1>7, <1>8 DEF Next, Disconnect, Expires, vars

\* An open connection was open before under the same row, or its hello has
\* just presented a token that resolves.
ConnectionStep(k) ==
  conns'[k].open =>
    \/ conns[k].open /\ conns'[k].cred = conns[k].cred
    \/ conns'[k].cred \in Rows /\ ValidNow(conns'[k].cred) /\ UNCHANGED creds

LEMMA ConnectionSteps ==
  ASSUME CredentialsTypeOK, [Next]_vars
  PROVE  /\ conns' \in [Conns -> Connections]
         /\ \A k \in Conns : ConnectionStep(k)
<1> DEFINE Goal == /\ conns' \in [Conns -> Connections]
                   /\ \A k \in Conns : ConnectionStep(k)
<1> SUFFICES Goal
  OBVIOUS
<1>0. conns \in [Conns -> Connections] /\ Offline \in Connections /\ Offline.open = FALSE
  BY NewRecordsTyped DEF CredentialsTypeOK, Offline
<1>1. CASE UNCHANGED conns
  BY <1>0, <1>1 DEF ConnectionStep
<1>2. CASE Lost
  BY <1>0, <1>2 DEF Lost, ConnectionStep
<1>3. ASSUME NEW R, CloseConnections(R) PROVE Goal
  BY <1>0, <1>3, ClosingTyped DEF CloseConnections, ConnectionStep, Connections
<1>4. ASSUME NEW k, Disconnect(k) PROVE Goal
  BY <1>0, <1>4 DEF Disconnect, ConnectionStep
<1>5. ASSUME NEW k \in Conns, NEW r \in Rows, NEW v, Connect(k, r, v) PROVE Goal
  <2> DEFINE c == [cred |-> r, backendId |-> NoBackend, open |-> TRUE]
  <2>1. conns' = [conns EXCEPT ![k] = c] /\ c \in Connections /\ c.cred = r /\ UNCHANGED creds
    BY <1>5 DEF Connect, Connections
  <2> HIDE DEF c
  <2>2. ValidNow(r)
    BY <1>5 DEF Connect, Valid, ValidNow
  <2> QED
    BY <1>0, <2>1, <2>2 DEF ConnectionStep
<1>6. ASSUME NEW k \in Conns, NEW r \in Rows, NEW v, NEW i \in Instances, NEW b \in BackendIds,
             Register(k, r, v, i, b)
      PROVE  Goal
  <2> DEFINE c == [cred |-> r, backendId |-> b, open |-> TRUE]
             stood(q) == [cred |-> conns[q].cred, backendId |-> NoBackend, open |-> FALSE]
  <2>1. /\ conns' = [q \in Conns |-> IF q = k THEN c
                                     ELSE IF conns[q].backendId = b THEN stood(q) ELSE conns[q]]
        /\ UNCHANGED creds
    BY <1>6 DEF Register
  <2>2. c \in Connections /\ c.cred = r
    BY DEF Connections
  <2>3. \A q \in Conns : stood(q) \in Connections /\ ~stood(q).open
    BY <1>0 DEF Connections
  <2> HIDE DEF c, stood
  <2>4. ValidNow(r)
    BY <1>6 DEF Register, Valid, ValidNow
  <2> QED
    BY <1>0, <2>1, <2>2, <2>3, <2>4 DEF ConnectionStep
<1>7. CASE Administration
  BY <1>1, <1>3, <1>7 DEF Administration, IssueDevice, IssueBackend, Bind, Revoke, Purge, DeleteIdentity
<1>8. CASE Presented
  BY <1>1, <1>5, <1>6, <1>8 DEF Presented, Denied, Exchange, vars
<1>9. CASE Cut
  BY <1>2, <1>9 DEF Cut, RevokeCut, BindCut, IssueBackendCut, RegisterCut
<1> QED
  BY <1>1, <1>4, <1>7, <1>8, <1>9 DEF Next, Expires, vars

\* Rows, identities and connections keep their types, whichever route runs
\* and wherever it is cut off.
THEOREM CredentialsTypeCorrect == Spec => []CredentialsTypeOK
<1>1. CredentialsTypeOK /\ [Next]_vars => CredentialsTypeOK'
  <2> SUFFICES ASSUME CredentialsTypeOK, [Next]_vars PROVE CredentialsTypeOK'
    OBVIOUS
  <2>1. crashing' = crashing /\ registered' \subseteq Rows \X BackendIds
    <3>1. registered \subseteq Rows \X BackendIds
      BY DEF CredentialsTypeOK
    <3>2. ASSUME NEW k, NEW r \in Rows, NEW v, NEW i, NEW b \in BackendIds, Register(k, r, v, i, b)
          PROVE  crashing' = crashing /\ registered' \subseteq Rows \X BackendIds
      <4>1. Root(r) \in Rows
        BY DEF Root, CredentialsTypeOK, CredentialRecords
      <4> QED
        BY <3>1, <3>2, <4>1 DEF Register
    <3>3. \/ UNCHANGED <<crashing, registered>>
          \/ \E k \in Conns, r \in Rows, v \in 1..MaxSecret, i \in Instances, b \in BackendIds :
                Register(k, r, v, i, b)
      BY DEF Next, Administration, Presented, Cut, vars, IssueDevice, IssueBackend, Bind, Revoke,
         Purge, DeleteIdentity, Denied, Exchange, Connect, RevokeCut, BindCut, IssueBackendCut,
         RegisterCut, Disconnect, Expires
    <3> QED
      BY <3>1, <3>2, <3>3
  <2> QED
    BY <2>1, RowsTyped, IdentitiesTyped, ConnectionSteps DEF CredentialsTypeOK
<1> QED
  BY InitTyped, <1>1, PTL DEF Spec

-----------------------------------------------------------------------------
(***************************************************************************)
(* What a step may make of the rows.                                       *)
(***************************************************************************)

\* Row r keeps what was decided when it was issued.
SameOrigin(r) ==
  /\ creds'[r].type = creds[r].type /\ creds'[r].namespace = creds[r].namespace
  /\ creds'[r].parent = creds[r].parent /\ creds'[r].secret = creds[r].secret

\* Rows are revoked, purged or expire, and nothing is gained.
DemoteStep ==
  \A r \in Rows :
     /\ SameOrigin(r) /\ creds'[r].backendId = creds[r].backendId
     /\ creds'[r].status = "unused" <=> creds[r].status = "unused"
     /\ creds'[r].status = "active" => creds[r].status = "active"
     /\ creds'[r].status = "revoked" => creds[r].status \in {"active", "revoked"}
     /\ creds[r].expired => creds'[r].expired

\* A device or an enrollment is issued with row r.
IssueStep ==
  \E r \in Rows :
     /\ Fresh(r) /\ \A q \in Rows \ {r} : creds'[q] = creds[q]
     /\ creds'[r].status = "active" /\ creds'[r].parent = NoRow
     /\ creds'[r].type \in {"device", "backend"}
     /\ creds'[r].type = "device" => creds'[r].backendId = NoBackend
     /\ creds'[r].backendId # NoBackend =>
          /\ identities'[creds'[r].backendId].status = "known"
          /\ identities'[creds'[r].backendId].namespace = creds'[r].namespace

\* An enrollment is bound, and the rows exchanged from it unless that is cut
\* off.
BindStep ==
  \E p \in Rows, b \in BackendIds, R \in SUBSET Rows :
     /\ creds[p].status = "active" /\ creds[p].type = "backend" /\ creds[p].backendId = NoBackend
     /\ IsKnownBackend(b, creds[p].namespace) /\ UNCHANGED identities
     /\ R = Family(p) \/ (crashing /\ R = {p})
     /\ \A r \in Rows :
           /\ SameOrigin(r) /\ creds'[r].status = creds[r].status
           /\ creds'[r].expired = creds[r].expired
           /\ creds'[r].backendId = IF r \in R THEN b ELSE creds[r].backendId

\* Enrollment p gets its access row r, or another secret for it.
ExchangeStep ==
  \E p \in Rows, r \in Rows :
     /\ r # p /\ Usable(p) /\ creds[p].type = "backend"
     /\ UNCHANGED identities
     /\ \A q \in Rows \ {r} : creds'[q] = creds[q]
     /\ creds'[r].status = "active" /\ creds'[r].type = "backend-access"
     /\ creds'[r].parent = p /\ creds'[r].namespace = creds[p].namespace
     /\ creds'[r].backendId = creds[p].backendId
     /\ \/ Fresh(r) /\ AccessRows(p) = {}
        \/ r \in AccessRows(p) /\ creds'[r].secret = creds[r].secret + 1

LEMMA RowSteps ==
  ASSUME CredentialsTypeOK, RowsLinked, [Next]_vars
  PROVE  DemoteStep \/ IssueStep \/ BindStep \/ ExchangeStep
<1> DEFINE Goal == DemoteStep \/ IssueStep \/ BindStep \/ ExchangeStep
<1> SUFFICES Goal
  OBVIOUS
<1>0. /\ creds \in [Rows -> CredentialRecords]
      /\ \A r \in Rows : creds[r] \in CredentialRecords
  BY DEF CredentialsTypeOK
<1>1. CASE UNCHANGED creds
  BY <1>1 DEF DemoteStep, SameOrigin
<1>2. ASSUME NEW r \in Rows, NEW ns, IssueDevice(r, ns) PROVE Goal
  <2>1. creds'[r] = NewCredential("device", ns, NoRow, NoBackend)
    BY <1>0, <1>2 DEF IssueDevice
  <2>2. Fresh(r) /\ \A q \in Rows \ {r} : creds'[q] = creds[q]
    BY <1>0, <1>2 DEF IssueDevice
  <2> QED
    BY <2>1, <2>2 DEF IssueStep, NewCredential
<1>3. ASSUME NEW r \in Rows, NEW ns, NEW b \in BackendIds, IssueBackend(r, ns, b) PROVE Goal
  <2>1. creds'[r] = NewCredential("backend", ns, NoRow, b)
    BY <1>0, <1>3 DEF IssueBackend
  <2>2. Fresh(r) /\ \A q \in Rows \ {r} : creds'[q] = creds[q]
    BY <1>0, <1>3 DEF IssueBackend
  <2>3. identities'[b].status = "known" /\ identities'[b].namespace = ns
    BY <1>3 DEF IssueBackend, NewIdentity, IsKnownBackend, CredentialsTypeOK
  <2> QED
    BY <2>1, <2>2, <2>3 DEF IssueStep, NewCredential
<1>4. ASSUME NEW R, NEW b \in BackendIds, BindRows(R, b)
      PROVE  \A r \in Rows :
                /\ SameOrigin(r) /\ creds'[r].status = creds[r].status
                /\ creds'[r].expired = creds[r].expired
                /\ creds'[r].backendId = IF r \in R THEN b ELSE creds[r].backendId
  BY <1>0, <1>4 DEF BindRows, SameOrigin, CredentialRecords
<1>5. ASSUME NEW p \in Rows, NEW b \in BackendIds, Bind(p, b) \/ BindCut(p, b) PROVE Goal
  <2>1. PICK R \in SUBSET Rows : BindRows(R, b) /\ (R = Family(p) \/ (crashing /\ R = {p}))
    BY <1>5 DEF Bind, BindCut, Lost, Family
  <2>2. /\ creds[p].status = "active" /\ creds[p].type = "backend"
        /\ creds[p].backendId = NoBackend
        /\ IsKnownBackend(b, creds[p].namespace) /\ UNCHANGED identities
    BY <1>5 DEF Bind, BindCut
  <2>3. \A r \in Rows :
           /\ SameOrigin(r) /\ creds'[r].status = creds[r].status
           /\ creds'[r].expired = creds[r].expired
           /\ creds'[r].backendId = IF r \in R THEN b ELSE creds[r].backendId
    BY <1>4, <2>1
  <2> QED
    BY <2>1, <2>2, <2>3 DEF BindStep
<1>6. ASSUME NEW R, RevokeRows(R), \A r \in R \cap Rows : creds[r].status = "active" PROVE DemoteStep
  BY <1>0, <1>6 DEF RevokeRows, DemoteStep, SameOrigin, CredentialRecords
<1>7. ASSUME NEW R, Revoke(R) PROVE DemoteStep
  <2> DEFINE chosen == {r \in R : creds[r].status = "active"}
             reach == UNION {Family(r) : r \in chosen}
  <2>1. RevokeRows(reach)
    BY <1>7 DEF Revoke
  <2>2. \A r \in reach : creds[r].status = "active"
    BY DEF Family
  <2> QED
    BY <1>6, <2>1, <2>2
<1>8. ASSUME NEW r \in Rows, RevokeCut(r) PROVE DemoteStep
  BY <1>6, <1>8 DEF RevokeCut
<1>9. ASSUME NEW R, Purge(R) PROVE DemoteStep
  BY <1>0, <1>9 DEF Purge, DemoteStep, SameOrigin, CredentialRecords
<1>10. ASSUME NEW r \in Rows, Expires(r) PROVE DemoteStep
  BY <1>0, <1>10 DEF Expires, DemoteStep, SameOrigin, CredentialRecords
<1>11. ASSUME NEW p \in Rows, NEW v, NEW r \in Rows, Exchange(p, v, r) PROVE ExchangeStep
  <2>1. /\ Usable(p) /\ creds[p].type = "backend" /\ UNCHANGED identities
        /\ creds[p].status = "active"
    BY <1>11 DEF Exchange, Valid, Usable
  <2>2. \A q \in Rows \ {r} : creds'[q] = creds[q]
    BY <1>0, <1>11 DEF Exchange
  <2>3. CASE /\ AccessRows(p) = {} /\ Fresh(r)
             /\ creds' = [creds EXCEPT ![r] = NewCredential("backend-access",
                             creds[p].namespace, p, creds[p].backendId)]
    <3>1. creds'[r] = NewCredential("backend-access", creds[p].namespace, p, creds[p].backendId)
      BY <1>0, <2>3
    <3>2. r # p
      BY <2>1, <2>3 DEF Fresh
    <3> QED
      BY <2>1, <2>2, <2>3, <3>1, <3>2 DEF NewCredential, ExchangeStep
  <2>4. CASE r \in AccessRows(p) /\ creds' = [creds EXCEPT ![r] = Rotated(r, p)]
    <3>1. creds'[r] = Rotated(r, p)
      BY <1>0, <2>4
    <3>2. creds[r].type = "backend-access" /\ creds[r].parent = p
      BY <2>4 DEF AccessRows
    <3>3. r # p /\ creds[r].namespace = creds[p].namespace
      BY <2>1, <3>2 DEF RowsLinked
    <3>4. /\ creds'[r].status = "active" /\ creds'[r].type = "backend-access"
          /\ creds'[r].parent = p /\ creds'[r].namespace = creds[p].namespace
          /\ creds'[r].backendId = creds[p].backendId /\ creds'[r].secret = creds[r].secret + 1
      BY <1>0, <3>1, <3>2, <3>3 DEF Rotated, CredentialRecords
    <3> QED
      BY <2>1, <2>2, <2>4, <3>3, <3>4 DEF ExchangeStep
  <2> QED
    BY <1>11, <2>3, <2>4 DEF Exchange
<1>12. CASE Administration
  BY <1>1, <1>2, <1>3, <1>5, <1>7, <1>9, <1>12 DEF Administration, DeleteIdentity
<1>13. CASE Presented
  BY <1>1, <1>11, <1>13 DEF Presented, Denied, Connect, Register, vars
<1>14. CASE Cut
  BY <1>1, <1>5, <1>8, <1>14 DEF Cut, IssueBackendCut, RegisterCut
<1> QED
  BY <1>1, <1>10, <1>12, <1>13, <1>14 DEF Next, Disconnect, vars

LEMMA CrashingFixed ==
  ASSUME [Next]_vars
  PROVE  crashing' = crashing
  BY DEF Next, Administration, Presented, Cut, vars, IssueDevice, IssueBackend, Bind, Revoke,
     Purge, DeleteIdentity, Denied, Exchange, Connect, Register, RevokeCut, BindCut,
     IssueBackendCut, RegisterCut, Disconnect, Expires

\* An identity is known until it is deleted, in the namespace it began in.
LEMMA IdentitiesStay ==
  ASSUME CredentialsTypeOK, [Next]_vars, NEW b \in BackendIds, NEW ns, IsKnownBackend(b, ns)
  PROVE  \/ identities'[b].status = "known" /\ identities'[b].namespace = ns
         \/ DeleteIdentity(b)
<1> DEFINE Goal == \/ identities'[b].status = "known" /\ identities'[b].namespace = ns
                   \/ DeleteIdentity(b)
<1> SUFFICES Goal
  OBVIOUS
<1>0. /\ identities \in [BackendIds -> IdentityRecords]
      /\ identities[b].status = "known" /\ identities[b].namespace = ns
  BY DEF CredentialsTypeOK, IsKnownBackend
<1>1. CASE UNCHANGED identities
  BY <1>0, <1>1
<1>2. ASSUME NEW d \in BackendIds, FreshId(d), NEW x, identities' = [identities EXCEPT ![d] = x]
      PROVE  Goal
  BY <1>0, <1>2 DEF FreshId
<1>3. ASSUME NEW d \in BackendIds, DeleteIdentity(d) PROVE Goal
  BY <1>0, <1>3 DEF DeleteIdentity
<1>4. ASSUME NEW k, NEW r, NEW v, NEW i, NEW d \in BackendIds, Register(k, r, v, i, d) PROVE Goal
  <2>1. identities' = [identities EXCEPT ![d] = Touched(r, i, d)]
    BY <1>4 DEF Register
  <2>2. CASE FreshId(d)
    BY <1>2, <2>1, <2>2
  <2>3. CASE ~FreshId(d)
    <3>1. Touched(r, i, d) = [identities[d] EXCEPT !.lastCred = Root(r)]
      BY <2>3 DEF Touched
    <3> QED
      BY <1>0, <2>1, <3>1 DEF IdentityRecords
  <2> QED
    BY <2>2, <2>3
<1>5. CASE Administration
  BY <1>1, <1>2, <1>3, <1>5 DEF Administration, IssueDevice, IssueBackend, Bind, Revoke, Purge
<1>6. CASE Presented
  BY <1>1, <1>4, <1>6 DEF Presented, Denied, Exchange, Connect, vars
<1>7. CASE Cut
  BY <1>1, <1>2, <1>7 DEF Cut, IssueBackendCut, RegisterCut, RevokeCut, BindCut
<1> QED
  BY <1>1, <1>5, <1>6, <1>7 DEF Next, Disconnect, Expires, vars

-----------------------------------------------------------------------------
(***************************************************************************)
(* How rows and identities refer to each other.                            *)
(***************************************************************************)

\* OneAccessRow, said of two rows.
AccessRowsUnique ==
  \A r, q \in Rows :
     /\ creds[r].status \in {"active", "revoked"} /\ creds[q].status \in {"active", "revoked"}
     /\ creds[r].parent # NoRow /\ creds[q].parent = creds[r].parent
     => r = q

LEMMA UniqueRowsCounted == CredentialsTypeOK /\ AccessRowsUnique => OneAccessRow
<1> SUFFICES ASSUME CredentialsTypeOK, AccessRowsUnique, NEW p \in Rows
             PROVE  Cardinality({r \in Rows : creds[r].parent = p
                                  /\ creds[r].status \in {"active", "revoked"}}) <= 1
  BY DEF OneAccessRow
<1> DEFINE A == {r \in Rows : creds[r].parent = p /\ creds[r].status \in {"active", "revoked"}}
<1>1. CASE A = {}
  BY <1>1, FS_EmptySet
<1>2. ASSUME NEW x \in A PROVE Cardinality(A) = 1
  <2>1. A = {x}
    BY <1>2, CredentialsAssumption DEF AccessRowsUnique
  <2> HIDE DEF A
  <2> QED
    BY <2>1, FS_Singleton
<1>3. Cardinality(A) = 0 \/ Cardinality(A) = 1
  BY <1>1, <1>2, FS_EmptySet
<1> HIDE DEF A
<1>4. Cardinality(A) <= 1
  BY <1>3
<1> QED
  BY <1>4 DEF A

LEMMA RowsLinkedInductive ==
  ASSUME CredentialsTypeOK, RowsLinked, [Next]_vars
  PROVE  RowsLinked'
<1> SUFFICES ASSUME NEW r \in Rows
             PROVE  /\ creds'[r].status = "unused" => creds'[r].secret = 0
                    /\ creds'[r].type = "device" => creds'[r].backendId = NoBackend
                    /\ creds'[r].parent # NoRow <=> creds'[r].type = "backend-access"
                    /\ creds'[r].parent # NoRow =>
                         LET p == creds'[r].parent
                         IN  /\ creds'[p].status # "unused" /\ creds'[p].type = "backend"
                             /\ creds'[p].namespace = creds'[r].namespace
  BY DEF RowsLinked
<1>0. /\ \A q \in Rows : creds[q].parent # NoRow => creds[q].parent \in Rows
      /\ NoRow \notin Rows
  BY CredentialsAssumption DEF CredentialsTypeOK, CredentialRecords
<1>1. CASE DemoteStep
  BY <1>0, <1>1 DEF DemoteStep, SameOrigin, RowsLinked
<1>2. CASE IssueStep
  BY <1>0, <1>2 DEF IssueStep, Fresh, RowsLinked
<1>3. CASE BindStep
  <2>1. PICK p \in Rows, b \in BackendIds, R \in SUBSET Rows :
          /\ creds[p].status = "active" /\ creds[p].type = "backend"
          /\ R = Family(p) \/ (crashing /\ R = {p})
          /\ \A q \in Rows :
                /\ SameOrigin(q) /\ creds'[q].status = creds[q].status
                /\ creds'[q].backendId = IF q \in R THEN b ELSE creds[q].backendId
    BY <1>3 DEF BindStep
  <2>2. \A q \in R : creds[q].type # "device"
    BY <1>0, <2>1 DEF Family, RowsLinked
  <2> QED
    BY <1>0, <2>1, <2>2 DEF SameOrigin, RowsLinked
<1>4. CASE ExchangeStep
  <2>1. PICK p \in Rows, x \in Rows :
          /\ x # p /\ Usable(p) /\ creds[p].type = "backend"
          /\ \A q \in Rows \ {x} : creds'[q] = creds[q]
          /\ creds'[x].status = "active" /\ creds'[x].type = "backend-access"
          /\ creds'[x].parent = p /\ creds'[x].namespace = creds[p].namespace
          /\ creds[x].status = "unused" \/ creds[x].type = "backend-access"
    BY <1>4 DEF ExchangeStep, Fresh, AccessRows
  <2>2. creds'[p] = creds[p] /\ creds[p].status = "active"
    BY <2>1 DEF Usable
  <2>3. CASE r = x
    BY <1>0, <2>1, <2>2, <2>3
  <2>4. CASE r # x
    BY <1>0, <2>1, <2>4 DEF RowsLinked
  <2> QED
    BY <2>3, <2>4
<1> QED
  BY <1>1, <1>2, <1>3, <1>4, RowSteps

LEMMA AccessRowsUniqueInductive ==
  ASSUME CredentialsTypeOK, RowsLinked, AccessRowsUnique, [Next]_vars
  PROVE  AccessRowsUnique'
<1> SUFFICES ASSUME NEW r \in Rows, NEW q \in Rows,
                    creds'[r].status \in {"active", "revoked"},
                    creds'[q].status \in {"active", "revoked"},
                    creds'[r].parent # NoRow, creds'[q].parent = creds'[r].parent
             PROVE  r = q
  BY DEF AccessRowsUnique
<1>0. \A x \in Rows : creds[x].status = "unused" => creds[x].status \notin {"active", "revoked"}
  OBVIOUS
<1>1. CASE DemoteStep
  BY <1>1 DEF DemoteStep, SameOrigin, AccessRowsUnique
<1>2. CASE IssueStep
  BY <1>2 DEF IssueStep, AccessRowsUnique
<1>3. CASE BindStep
  BY <1>3 DEF BindStep, SameOrigin, AccessRowsUnique
<1>4. CASE ExchangeStep
  <2>1. PICK p \in Rows, x \in Rows :
          /\ \A y \in Rows \ {x} : creds'[y] = creds[y]
          /\ creds'[x].parent = p
          /\ AccessRows(p) = {} \/ x \in AccessRows(p)
    BY <1>4 DEF ExchangeStep
  <2>2. ASSUME NEW y \in Rows \ {x}, creds[y].parent = p, creds[y].status \in {"active", "revoked"}
        PROVE  FALSE
    <3>1. creds[y].type = "backend-access"
      BY <2>2, CredentialsAssumption DEF RowsLinked
    <3>2. y \in AccessRows(p)
      BY <2>2, <3>1 DEF AccessRows
    <3>3. x \in AccessRows(p)
      BY <2>1, <3>2
    <3> QED
      BY <2>2, <3>2, <3>3, CredentialsAssumption DEF AccessRows, AccessRowsUnique
  <2> QED
    BY <2>1, <2>2 DEF AccessRowsUnique
<1> QED
  BY <1>1, <1>2, <1>3, <1>4, RowSteps

LEMMA AccessBoundInductive ==
  ASSUME CredentialsTypeOK, RowsLinked, AccessBound, [Next]_vars
  PROVE  AccessBound'
<1> SUFFICES ASSUME NEW r \in Rows, creds'[r].status = "active", creds'[r].parent # NoRow
             PROVE  \/ creds'[r].backendId = creds'[creds'[r].parent].backendId
                    \/ crashing /\ creds'[r].backendId = NoBackend
  BY CrashingFixed DEF AccessBound
<1>0. \A q \in Rows : creds[q].parent # NoRow => /\ creds[q].parent \in Rows
                                                 /\ creds[creds[q].parent].status # "unused"
                                                 /\ creds[creds[q].parent].type = "backend"
                                                 /\ creds[q].type = "backend-access"
  BY CredentialsAssumption DEF CredentialsTypeOK, CredentialRecords, RowsLinked
<1>1. CASE DemoteStep
  BY <1>0, <1>1 DEF DemoteStep, SameOrigin, AccessBound
<1>2. CASE IssueStep
  BY <1>0, <1>2 DEF IssueStep, Fresh, AccessBound
<1>3. CASE BindStep
  <2>1. PICK p \in Rows, b \in BackendIds, R \in SUBSET Rows :
          /\ creds[p].status = "active" /\ creds[p].type = "backend"
          /\ creds[p].backendId = NoBackend
          /\ R = Family(p) \/ (crashing /\ R = {p})
          /\ \A q \in Rows :
                /\ SameOrigin(q) /\ creds'[q].status = creds[q].status
                /\ creds'[q].backendId = IF q \in R THEN b ELSE creds[q].backendId
    BY <1>3 DEF BindStep
  <2> DEFINE e == creds[r].parent
  <2>2. e \in Rows /\ e # NoRow /\ creds'[r].parent = e /\ creds[r].status = "active"
    BY <1>0, <2>1 DEF SameOrigin
  <2>3. creds[r].type = "backend-access" /\ creds[e].type = "backend" /\ creds[e].parent = NoRow
    BY <1>0, <2>2
  <2>4. creds[r].backendId = creds[e].backendId \/ (crashing /\ creds[r].backendId = NoBackend)
    BY <2>2 DEF AccessBound
  <2>5. r # p
    BY <2>1, <2>3
  <2> HIDE DEF e
  <2>6. CASE e = p
    <3>1. e \in R
      BY <2>1, <2>6 DEF Family
    <3>2. creds'[e].backendId = b
      BY <2>1, <2>2, <3>1
    <3>3. CASE R = Family(p)
      <4>1. r \in R
        BY <2>2, <2>6, <3>3 DEF Family, e
      <4> QED
        BY <2>1, <2>2, <3>2, <4>1
    <3>4. CASE crashing /\ R = {p}
      BY <2>1, <2>2, <2>4, <2>5, <2>6, <3>4
    <3> QED
      BY <2>1, <3>3, <3>4
  <2>7. CASE e # p
    <3>1. e \notin R /\ r \notin R
      BY <2>1, <2>2, <2>3, <2>5, <2>7, CredentialsAssumption DEF Family, e
    <3> QED
      BY <2>1, <2>2, <2>4, <3>1
  <2> QED
    BY <2>6, <2>7
<1>4. CASE ExchangeStep
  <2>1. PICK p \in Rows, x \in Rows :
          /\ x # p /\ Usable(p) /\ creds[p].type = "backend"
          /\ \A q \in Rows \ {x} : creds'[q] = creds[q]
          /\ creds'[x].type = "backend-access"
          /\ creds'[x].parent = p /\ creds'[x].backendId = creds[p].backendId
          /\ creds[x].status = "unused" \/ creds[x].type = "backend-access"
    BY <1>4 DEF ExchangeStep, Fresh, AccessRows
  <2>2. CASE r = x
    BY <2>1, <2>2
  <2>3. CASE r # x
    BY <1>0, <2>1, <2>3 DEF AccessBound
  <2> QED
    BY <2>2, <2>3
<1> QED
  BY <1>1, <1>2, <1>3, <1>4, RowSteps

\* A row that counts for BoundRowsKnown.
BoundRow(r) ==
  /\ creds[r].status = "active" /\ creds[r].backendId # NoBackend
  /\ creds[r].parent # NoRow => creds[creds[r].parent].status = "active"

\* An identity that such a row is bound to cannot be deleted.
LEMMA BoundIdentityKept ==
  ASSUME CredentialsTypeOK, RowsLinked, AccessBound, NEW r \in Rows, BoundRow(r)
  PROVE  ~DeleteIdentity(creds[r].backendId)
<1> SUFFICES ASSUME BoundTo(creds[r].backendId) = {} PROVE FALSE
  BY DEF DeleteIdentity
<1>1. CASE creds[r].parent = NoRow
  <2>1. creds[r].type = "backend"
    BY <1>1 DEF RowsLinked, BoundRow, CredentialsTypeOK, CredentialRecords, Types
  <2>2. r \in BoundTo(creds[r].backendId)
    BY <2>1 DEF BoundTo, BoundRow
  <2> QED
    BY <2>2
<1>2. CASE creds[r].parent # NoRow
  <2> DEFINE p == creds[r].parent
  <2>1. /\ p \in Rows /\ creds[p].type = "backend" /\ creds[p].status = "active"
        /\ creds[p].backendId = creds[r].backendId
    BY <1>2 DEF RowsLinked, AccessBound, BoundRow, CredentialsTypeOK, CredentialRecords
  <2>2. p \in BoundTo(creds[r].backendId)
    BY <2>1 DEF BoundTo
  <2> QED
    BY <2>2
<1> QED
  BY <1>1, <1>2

LEMMA BoundRowsKnownInductive ==
  ASSUME CredentialsTypeOK, CredentialsTypeOK', RowsLinked, AccessBound, BoundRowsKnown, [Next]_vars
  PROVE  BoundRowsKnown'
<1> DEFINE known(r) == /\ identities'[creds'[r].backendId].status = "known"
                       /\ identities'[creds'[r].backendId].namespace = creds'[r].namespace
<1> SUFFICES ASSUME NEW r \in Rows, creds'[r].status = "active", creds'[r].backendId # NoBackend,
                    creds'[r].parent # NoRow => creds'[creds'[r].parent].status = "active"
             PROVE  known(r)
  BY DEF BoundRowsKnown, IsKnownBackend
<1>0. \A q \in Rows : /\ creds[q].backendId # NoBackend => creds[q].backendId \in BackendIds
                      /\ creds[q].parent # NoRow => /\ creds[q].parent \in Rows
                                                    /\ creds[creds[q].parent].status # "unused"
                                                    /\ creds[creds[q].parent].type = "backend"
                                                    /\ creds[creds[q].parent].namespace = creds[q].namespace
                                                    /\ creds[q].type = "backend-access"
  BY CredentialsAssumption DEF CredentialsTypeOK, CredentialRecords, RowsLinked
\* A row that was bound before keeps its identity.
<1>1. ASSUME NEW q \in Rows, BoundRow(q), creds'[r].backendId = creds[q].backendId,
             creds'[r].namespace = creds[q].namespace
      PROVE  known(r)
  <2>1. IsKnownBackend(creds[q].backendId, creds[q].namespace)
    BY <1>1 DEF BoundRowsKnown, BoundRow
  <2>2. creds[q].backendId \in BackendIds
    BY <1>0, <1>1 DEF BoundRow
  <2> QED
    BY <1>1, <2>1, <2>2, IdentitiesStay, BoundIdentityKept
<1> HIDE DEF known
<1>2. CASE DemoteStep
  <2>1. /\ creds[r].status = "active" /\ creds'[r].backendId = creds[r].backendId
        /\ creds'[r].namespace = creds[r].namespace /\ creds'[r].parent = creds[r].parent
    BY <1>2 DEF DemoteStep, SameOrigin
  <2>2. BoundRow(r)
    BY <1>0, <1>2, <2>1 DEF DemoteStep, BoundRow
  <2> QED
    BY <1>1, <2>1, <2>2
<1>3. CASE IssueStep
  <2>1. PICK x \in Rows :
          /\ Fresh(x) /\ \A q \in Rows \ {x} : creds'[q] = creds[q]
          /\ x = r => known(r)
    BY <1>3 DEF IssueStep, known
  <2>2. CASE r # x
    <3>1. creds'[r] = creds[r]
      BY <2>1, <2>2
    <3>2. creds[r].parent # NoRow => creds[r].parent \in Rows \ {x}
      BY <1>0, <2>1 DEF Fresh
    <3>3. BoundRow(r)
      BY <2>1, <3>1, <3>2 DEF BoundRow
    <3> QED
      BY <1>1, <3>1, <3>3
  <2> QED
    BY <2>1, <2>2
<1>4. CASE BindStep
  <2>1. PICK p \in Rows, b \in BackendIds, R \in SUBSET Rows :
          /\ IsKnownBackend(b, creds[p].namespace) /\ UNCHANGED identities
          /\ R = Family(p) \/ (crashing /\ R = {p})
          /\ \A q \in Rows :
                /\ SameOrigin(q) /\ creds'[q].status = creds[q].status
                /\ creds'[q].backendId = IF q \in R THEN b ELSE creds[q].backendId
    BY <1>4 DEF BindStep
  <2>2. CASE r \in R
    <3>1. creds[r].namespace = creds[p].namespace
      BY <1>0, <2>1, <2>2, CredentialsAssumption DEF Family
    <3> QED
      BY <2>1, <2>2, <3>1 DEF known, SameOrigin, IsKnownBackend
  <2>3. CASE r \notin R
    <3>1. BoundRow(r)
      BY <1>0, <2>1, <2>3 DEF BoundRow, SameOrigin
    <3> QED
      BY <1>1, <2>1, <2>3, <3>1 DEF SameOrigin
  <2> QED
    BY <2>2, <2>3
<1>5. CASE ExchangeStep
  <2>1. PICK p \in Rows, x \in Rows :
          /\ x # p /\ Usable(p) /\ creds[p].type = "backend"
          /\ \A q \in Rows \ {x} : creds'[q] = creds[q]
          /\ creds'[x].namespace = creds[p].namespace
          /\ creds'[x].backendId = creds[p].backendId
          /\ creds[x].status = "unused" \/ creds[x].type = "backend-access"
    BY <1>5 DEF ExchangeStep, Fresh, AccessRows
  <2>2. CASE r = x
    <3>1. creds[p].parent = NoRow /\ creds[p].status = "active"
      BY <1>0, <2>1 DEF Usable
    <3>2. BoundRow(p)
      BY <2>1, <2>2, <3>1 DEF BoundRow
    <3> QED
      BY <1>1, <2>1, <2>2, <3>2
  <2>3. CASE r # x
    <3>1. creds'[r] = creds[r]
      BY <2>1, <2>3
    <3>2. creds[r].parent # NoRow => creds[r].parent \in Rows \ {x}
      BY <1>0, <2>1
    <3>3. BoundRow(r)
      BY <2>1, <3>1, <3>2 DEF BoundRow
    <3> QED
      BY <1>1, <3>1, <3>3
  <2> QED
    BY <2>2, <2>3
<1> QED
  BY <1>2, <1>3, <1>4, <1>5, RowSteps

-----------------------------------------------------------------------------
(***************************************************************************)
(* Theorems about the rows.                                                *)
(***************************************************************************)

RowsInv == RowsLinked /\ AccessRowsUnique /\ AccessBound /\ BoundRowsKnown

LEMMA RowsInitially == Init => RowsInv
<1> SUFFICES ASSUME Init PROVE RowsInv
  OBVIOUS
<1>1. PICK ns \in [LegacyRows -> Namespaces] :
        creds = [r \in Rows |-> IF r \in LegacyRows
                                THEN NewCredential("backend", ns[r], NoRow, NoBackend)
                                ELSE Blank(r)]
  BY DEF Init
<1>2. \A r \in Rows : Blank(r).status = "unused" /\ Blank(r).secret = 0 /\ Blank(r).type = "device"
                      /\ Blank(r).parent = NoRow /\ Blank(r).backendId = NoBackend
  BY DEF Blank, NewCredential
<1>3. \A r \in Rows :
        /\ creds[r].parent = NoRow /\ creds[r].backendId = NoBackend
        /\ creds[r].status = "unused" => creds[r].secret = 0
        /\ creds[r].type \in {"device", "backend"}
  BY <1>1, <1>2 DEF NewCredential
<1> QED
  BY <1>3 DEF RowsInv, RowsLinked, AccessRowsUnique, AccessBound, BoundRowsKnown

\* Rows, their enrollments and their identities agree between two routes and
\* between two statements of a route that is cut off.
LEMMA RowsCorrect == Spec => []RowsInv
<1>1. /\ CredentialsTypeOK /\ CredentialsTypeOK' /\ RowsInv /\ [Next]_vars => RowsInv'
  BY RowsLinkedInductive, AccessRowsUniqueInductive, AccessBoundInductive,
     BoundRowsKnownInductive DEF RowsInv
<1> QED
  BY CredentialsTypeCorrect, RowsInitially, <1>1, PTL DEF Spec

\* What runs under a row is closed by everything that ends the row: a
\* revocation, of the row or of its enrollment, finds the connection however
\* the row was rotated in between.
LEMMA OpenRowsStay ==
  ASSUME CredentialsTypeOK, RowsLinked, [Next]_vars, NEW k \in Conns, NEW r \in Rows,
         conns[k].open, conns'[k].open, conns[k].cred = r,
         creds[r].status = "active", creds[Root(r)].status = "active"
  PROVE  creds'[r].status = "active" /\ creds'[Root(r)].status = "active"
<1> DEFINE Goal == creds'[r].status = "active" /\ creds'[Root(r)].status = "active"
<1> SUFFICES Goal
  OBVIOUS
<1>0. /\ creds \in [Rows -> CredentialRecords] /\ conns \in [Conns -> Connections]
      /\ Root(r) \in Rows
      /\ Root(r) # r => creds[r].parent = Root(r) /\ creds[Root(r)].parent = NoRow
  BY CredentialsAssumption DEF CredentialsTypeOK, CredentialRecords, Root, RowsLinked
<1>1. ASSUME \A q \in Rows : creds[q].status = "active" => creds'[q].status = "active" PROVE Goal
  BY <1>0, <1>1
<1>2. ASSUME NEW x \in Rows, NEW c, Fresh(x) \/ c.status = "active", creds' = [creds EXCEPT ![x] = c]
      PROVE  Goal
  BY <1>0, <1>1, <1>2 DEF Fresh
<1>3. CASE Lost
  BY <1>3 DEF Lost, Offline
<1>4. ASSUME NEW R \in SUBSET Rows, Revoke(R) PROVE Goal
  <2> DEFINE chosen == {q \in R : creds[q].status = "active"}
             reach == UNION {Family(q) : q \in chosen}
  <2>1. RevokeRows(reach) /\ CloseConnections(reach)
    BY <1>4 DEF Revoke
  <2>2. r \notin reach
    BY <1>0, <2>1 DEF CloseConnections, Connections
  <2>3. Root(r) \notin reach
    <3> SUFFICES ASSUME NEW q \in chosen, Root(r) \in Family(q) PROVE FALSE
      OBVIOUS
    <3>1. q = Root(r) \/ creds[Root(r)].parent = q
      BY DEF Family
    <3>2. r # Root(r)
      BY <2>2
    <3>3. q = Root(r)
      BY <1>0, <3>1, <3>2, CredentialsAssumption
    <3>4. r \in Family(q)
      BY <1>0, <3>2, <3>3 DEF Family
    <3> QED
      BY <2>2, <3>4
  <2> HIDE DEF reach
  <2> QED
    BY <1>0, <2>1, <2>2, <2>3 DEF RevokeRows
<1>5. ASSUME NEW R, NEW b, BindRows(R, b) PROVE Goal
  <2>1. \A q \in Rows : creds'[q].status = creds[q].status
    BY <1>0, <1>5 DEF BindRows, CredentialRecords
  <2> QED
    BY <1>1, <2>1
<1>6. ASSUME NEW R, Purge(R) PROVE Goal
  BY <1>0, <1>1, <1>6 DEF Purge
<1>7. ASSUME NEW x \in Rows, Expires(x) PROVE Goal
  BY <1>0, <1>1, <1>7 DEF Expires, CredentialRecords
<1>8. ASSUME NEW p \in Rows, NEW v, NEW x \in Rows, Exchange(p, v, x) PROVE Goal
  <2>1. Rotated(x, p).status = "active"
    BY <1>0 DEF Rotated, CredentialRecords
  <2> QED
    BY <1>2, <1>8, <2>1 DEF Exchange
<1>9. CASE Administration
  BY <1>1, <1>2, <1>4, <1>5, <1>6, <1>9 DEF Administration, IssueDevice, IssueBackend, Bind,
     DeleteIdentity
<1>10. CASE Presented
  BY <1>1, <1>8, <1>10 DEF Presented, Denied, Connect, Register, vars
<1>11. CASE Cut
  BY <1>3, <1>11 DEF Cut, RevokeCut, BindCut, IssueBackendCut, RegisterCut
<1> QED
  BY <1>1, <1>7, <1>9, <1>10, <1>11 DEF Next, Disconnect, vars

\* OpenConnectionsUnrevoked, with the row of the connection in the table.
OpenUnderRows == OpenConnectionsNamed /\ OpenConnectionsUnrevoked

LEMMA OpenUnderRowsInductive ==
  ASSUME CredentialsTypeOK, CredentialsTypeOK', RowsLinked, RowsLinked', OpenUnderRows, [Next]_vars
  PROVE  OpenUnderRows'
<1> DEFINE root(c) == IF creds'[c].parent = NoRow THEN c ELSE creds'[c].parent
<1> SUFFICES ASSUME NEW k \in Conns, conns'[k].open, NEW c, c = conns'[k].cred
             PROVE  /\ c \in Rows /\ creds'[c].status = "active"
                    /\ creds'[root(c)].status = "active"
  BY DEF OpenUnderRows, OpenConnectionsNamed, OpenConnectionsUnrevoked, Root
<1>1. CASE c \in Rows /\ ValidNow(c) /\ UNCHANGED creds
  BY <1>1 DEF ValidNow, Valid, Usable
<1>2. CASE conns[k].open /\ c = conns[k].cred
  <2>1. c \in Rows /\ creds[c].status = "active" /\ creds[Root(c)].status = "active"
    BY <1>2 DEF OpenUnderRows, OpenConnectionsNamed, OpenConnectionsUnrevoked
  <2>2. creds'[c].status = "active" /\ creds'[Root(c)].status = "active"
    BY <1>2, <2>1, OpenRowsStay
  <2>3. creds'[c].parent = creds[c].parent
    BY <2>1, RowSteps DEF DemoteStep, IssueStep, BindStep, ExchangeStep, SameOrigin, Fresh, AccessRows
  <2> QED
    BY <2>1, <2>2, <2>3 DEF Root
<1> QED
  BY <1>1, <1>2, ConnectionSteps DEF ConnectionStep

\* No connection stays open under a credential that was revoked, or whose
\* enrollment was: revocation reaches it through rows that were rotated or
\* purged meanwhile, and a crash only closes more.
THEOREM OpenConnectionsUnrevokedHolds == Spec => []OpenConnectionsUnrevoked
<1>1. Init => OpenUnderRows
  BY DEF Init, Offline, OpenUnderRows, OpenConnectionsNamed, OpenConnectionsUnrevoked
<1>2. /\ CredentialsTypeOK /\ CredentialsTypeOK' /\ RowsInv /\ RowsInv' /\ OpenUnderRows
      /\ [Next]_vars
      => OpenUnderRows'
  BY OpenUnderRowsInductive DEF RowsInv
<1>3. OpenUnderRows => OpenConnectionsUnrevoked
  BY DEF OpenUnderRows
<1> QED
  BY CredentialsTypeCorrect, RowsCorrect, <1>1, <1>2, <1>3, PTL DEF Spec

\* Two routes, and two statements of a route that is cut off, leave the rows
\* consistent: an enrollment has one access row, bound and namespaced as the
\* enrollment is, and what a working credential is bound to exists.
THEOREM CredentialsCorrect == Spec => []CredentialsInv
<1>1. CredentialsTypeOK /\ RowsInv /\ OpenUnderRows => CredentialsInv
  <2> SUFFICES ASSUME CredentialsTypeOK, RowsInv, OpenUnderRows PROVE CredentialsInv
    OBVIOUS
  <2>1. OneAccessRow
    BY UniqueRowsCounted DEF RowsInv
  <2>2. AccessFollowsParent
    BY DEF RowsInv, RowsLinked, AccessBound, AccessFollowsParent, AccessAlwaysFollowsParent,
       ValidNow, Valid, Usable
  <2>3. BoundBackendsKnown
    BY DEF RowsInv, BoundRowsKnown, BoundBackendsKnown, ValidNow, Valid, Usable
  <2> QED
    BY <2>1, <2>2, <2>3 DEF CredentialsInv, ReferencesInv, RowsInv, OpenUnderRows
<1>2. Init => OpenUnderRows
  BY DEF Init, Offline, OpenUnderRows, OpenConnectionsNamed, OpenConnectionsUnrevoked
<1>3. /\ CredentialsTypeOK /\ CredentialsTypeOK' /\ RowsInv /\ RowsInv' /\ OpenUnderRows
      /\ [Next]_vars
      => OpenUnderRows'
  BY OpenUnderRowsInductive DEF RowsInv
<1> QED
  BY CredentialsTypeCorrect, RowsCorrect, <1>1, <1>2, <1>3, PTL DEF Spec

\* A row that could be used after the step could be used before it, unless
\* the step wrote a new secret into it.
LEMMA UsableBefore ==
  ASSUME CredentialsTypeOK, RowsLinked, [Next]_vars, NEW r \in Rows,
         creds'[r].status = "active", ~creds'[r].expired,
         creds[r].status # "unused",
         creds[r].type = "backend" \/ creds'[r].secret = creds[r].secret
  PROVE  Usable(r) /\ creds'[r].secret = creds[r].secret /\ creds'[r].parent = creds[r].parent
<1>0. creds[r].secret \in Nat /\ creds[r].secret + 1 # creds[r].secret
  BY CredentialsAssumption DEF CredentialsTypeOK, CredentialRecords
<1>1. CASE DemoteStep
  BY <1>1 DEF DemoteStep, SameOrigin, Usable
<1>2. CASE IssueStep
  BY <1>2 DEF IssueStep, Fresh, Usable
<1>3. CASE BindStep
  BY <1>3 DEF BindStep, SameOrigin, Usable
<1>4. CASE ExchangeStep
  BY <1>0, <1>4 DEF ExchangeStep, Fresh, AccessRows, Usable
<1> QED
  BY <1>1, <1>2, <1>3, <1>4, RowSteps

\* A secret that has stopped working, because it was rotated, revoked,
\* expired, orphaned or purged, never works again.
THEOREM SecretsDieHolds == Spec => SecretsDie
<1> DEFINE Step == \A r \in Rows : \A v \in 1..creds[r].secret : ~Valid(r, v) => ~Valid(r, v)'
<1>1. ASSUME CredentialsTypeOK, RowsLinked, [Next]_vars PROVE Step
  <2> SUFFICES ASSUME NEW r \in Rows, NEW v \in 1..creds[r].secret, Valid(r, v)'
               PROVE  Valid(r, v)
    OBVIOUS
  <2>1. /\ creds[r].secret \in Nat /\ creds'[r].secret = v
        /\ creds'[r].status = "active" /\ ~creds'[r].expired
        /\ creds'[r].parent # NoRow => /\ creds'[creds'[r].parent].status = "active"
                                       /\ ~creds'[creds'[r].parent].expired
    BY <1>1, CredentialsAssumption DEF Valid, Usable, CredentialsTypeOK, CredentialRecords
  <2>2. creds[r].status # "unused"
    BY <1>1, <2>1 DEF RowsLinked
  <2>3. creds'[r].secret = creds[r].secret
    <3>1. creds'[r].secret \in {creds[r].secret, creds[r].secret + 1}
      BY <1>1, <2>2, RowSteps DEF DemoteStep, IssueStep, BindStep, ExchangeStep, SameOrigin, Fresh
    <3> QED
      BY <2>1, <3>1
  <2>4. Usable(r) /\ creds'[r].parent = creds[r].parent
    BY <1>1, <2>1, <2>2, <2>3, UsableBefore
  <2>5. ASSUME creds[r].parent # NoRow PROVE Usable(creds[r].parent)
    <3> DEFINE p == creds[r].parent
    <3>1. p \in Rows /\ creds[p].status # "unused" /\ creds[p].type = "backend"
      BY <1>1, <2>5 DEF RowsLinked, CredentialsTypeOK, CredentialRecords
    <3>2. creds'[p].status = "active" /\ ~creds'[p].expired
      BY <2>1, <2>4, <2>5
    <3> QED
      BY <1>1, <3>1, <3>2, UsableBefore
  <2> QED
    BY <2>1, <2>3, <2>4, <2>5 DEF Valid
<1>2. CredentialsTypeOK /\ RowsInv /\ [Next]_vars => [Step]_vars
  BY <1>1 DEF RowsInv
<1> QED
  BY CredentialsTypeCorrect, RowsCorrect, <1>2, PTL DEF Spec, SecretsDie

-----------------------------------------------------------------------------
(***************************************************************************)
(* The start of the database, for every set of rows, enrollments and       *)
(* times: it leaves one access row of every enrollment that had any, the   *)
(* one the order of ROW_NUMBER() puts first, no start fails by itself, and *)
(* a later start drops nothing.                                            *)
(*                                                                         *)
(* The argument is that order.  Two access rows of an enrollment are       *)
(* always in order, so that at most one is kept; and the rows being        *)
(* numbered and their times bounded, one precedes all others, so that one  *)
(* is kept.  An ALTER TABLE is assumed to fail only if the column is       *)
(* there, as the code assumes (~Fallible).                                 *)
(***************************************************************************)

\* No row is younger than the newest.
Bounded == \E m \in Nat : \A t \in Times : t <= m

\* The statements of the present start find the columns of those before them.
ColumnsReached ==
    /\ pc \in {Start!Columns[2], Start!Columns[3], Start!Columns[4], Start!Columns[5]}
           => Start!Columns[1] \in columns
    /\ pc \in {Start!Columns[3], Start!Columns[4], Start!Columns[5]}
           => Start!Columns[2] \in columns
    /\ pc \in {Start!Columns[4], Start!Columns[5]} => Start!Columns[3] \in columns
    /\ pc = Start!Columns[5] => Start!Columns[4] \in columns
    /\ pc \in {"collapse", "index", "ready"} => columns = Start!ColumnNames

\* Until the collapse the rows are those the process found.
RowsAsFound ==
    pc \notin {"off", "index", "ready"} => rows = before

Tables == UNION {[D -> Start!Row] : D \in SUBSET Ids}

\* The inductive invariant.
StartIInv ==
    /\ Start!MigrationTypeOK /\ rows \in Tables /\ before \in Tables
    /\ Start!OnePerParent /\ Start!IndexFits /\ ColumnsReached /\ RowsAsFound

-----------------------------------------------------------------------------
(* The collapse.                                                           *)

LEMMA LeastExists ==
  ASSUME NEW T \in SUBSET Nat, T # {}
  PROVE  \E x \in T : \A y \in T : x <= y
<1>1. PICK x \in T : \A y \in T : ~ (<<y, x>> \in OpToRel(<, Nat))
  BY NatLessThanWellFounded, WFMin
<1>2. ASSUME NEW y \in T PROVE x <= y
  <2>1. x \in Nat /\ y \in Nat
    OBVIOUS
  <2>2. ~ (y < x)
    BY <1>1, <2>1 DEF OpToRel
  <2> QED
    BY <2>1, <2>2
<1> QED
  BY <1>2

LEMMA GreatestExists ==
  ASSUME NEW T \in SUBSET Nat, T # {}, NEW m \in Nat, \A t \in T : t <= m
  PROVE  \E x \in T : \A y \in T : y <= x
<1> DEFINE Gaps == {m - t : t \in T}
<1>1. Gaps \in SUBSET Nat /\ Gaps # {}
  <2>1. \A t \in T : m - t \in Nat
    OBVIOUS
  <2>2. PICK t \in T : TRUE
    OBVIOUS
  <2>3. m - t \in Gaps
    OBVIOUS
  <2>4. \A gap \in Gaps : gap \in Nat
    BY <2>1
  <2> HIDE DEF Gaps
  <2> QED
    BY <2>3, <2>4
<1>2. PICK gap \in Gaps : \A other \in Gaps : gap <= other
  BY <1>1, LeastExists
<1>3. PICK x \in T : gap = m - x
  OBVIOUS
<1>4. ASSUME NEW y \in T PROVE y <= x
  <2>1. m - x <= m - y
    BY <1>2, <1>3
  <2> QED
    BY <2>1
<1> QED
  BY <1>4

\* What the collapse reads of a row.
LEMMA RowFields ==
  ASSUME Start!ConstantsOK, NEW r \in Start!Row
  PROVE  r.created \in Nat /\ r.revoked \in BOOLEAN
<1>1. CASE r \in [type : {"access"}, parent : Parents \cup {Start!None},
                  revoked : BOOLEAN, created : Times]
  BY <1>1 DEF Start!ConstantsOK
<1>2. CASE r \in [type : {"other"}, parent : {Start!None}, revoked : {FALSE}, created : {0}]
  <2>1. r.created = 0
    BY <1>2
  <2>2. r.revoked \in BOOLEAN
    BY <1>2
  <2> QED
    BY <2>1, <2>2
<1> QED
  BY <1>1, <1>2 DEF Start!Row

LEMMA AccessFields ==
  ASSUME Start!ConstantsOK, Start!MigrationTypeOK, NEW i \in Start!Access(rows)
  PROVE  /\ i \in Nat /\ i \in DOMAIN rows
         /\ rows[i].created \in Nat /\ rows[i].revoked \in BOOLEAN
<1>1. i \in DOMAIN rows /\ rows[i] \in Start!Row /\ i \in Nat
  BY DEF Start!ConstantsOK, Start!MigrationTypeOK, Start!Access
<1> QED
  BY <1>1, RowFields

\* Access rows have one of the times of the table.
LEMMA AccessTimes ==
  ASSUME Start!MigrationTypeOK, NEW i \in Start!Access(rows)
  PROVE  rows[i].created \in Times
<1>1. rows[i] \in Start!Row /\ rows[i].type = "access"
  BY DEF Start!MigrationTypeOK, Start!Access
<1> QED
  BY <1>1 DEF Start!Row

\* Two access rows are in order, one way or the other.
LEMMA PrecedesTotal ==
  ASSUME Start!ConstantsOK, Start!MigrationTypeOK,
         NEW i \in Start!Access(rows), NEW j \in Start!Access(rows), i # j
  PROVE  Start!Precedes(i, j) \/ Start!Precedes(j, i)
  BY AccessFields DEF Start!Precedes

\* Of the access rows of an enrollment one precedes all others.
LEMMA FirstExists ==
  ASSUME Start!ConstantsOK, Bounded, Start!MigrationTypeOK, NEW k \in Start!Access(rows)
  PROVE  \E i \in Start!Kept : rows[i].parent = rows[k].parent
<1> DEFINE Siblings == {i \in Start!Access(rows) : rows[i].parent = rows[k].parent}
<1> DEFINE Living == {i \in Siblings : ~rows[i].revoked}
<1> DEFINE Best == IF Living = {} THEN Siblings ELSE Living
<1>1. Best # {} /\ Best \subseteq Siblings
  OBVIOUS
<1>2. \A i \in Best, j \in Siblings :
         \/ ~rows[i].revoked /\ rows[j].revoked
         \/ rows[i].revoked = rows[j].revoked /\ j \in Best
  <2> TAKE i \in Best, j \in Siblings
  <2>1. rows[i].revoked \in BOOLEAN /\ rows[j].revoked \in BOOLEAN
    BY <1>1, AccessFields
  <2> QED
    BY <2>1
<1> HIDE DEF Best
<1> DEFINE Ages == {rows[i].created : i \in Best}
<1>3. \E x \in Ages : \A y \in Ages : y <= x
  <2>1. Ages \in SUBSET Nat /\ Ages # {}
    BY <1>1, AccessFields
  <2>2. PICK m \in Nat : \A t \in Times : t <= m
    BY DEF Bounded
  <2>3. \A t \in Ages : t <= m
    BY <1>1, <2>2, AccessTimes
  <2> HIDE DEF Ages
  <2> QED
    BY <2>1, <2>3, GreatestExists
<1>4. PICK age \in Ages : \A y \in Ages : y <= age
  BY <1>3
<1> DEFINE Newest == {i \in Best : rows[i].created = age}
<1>5. Newest # {} /\ Newest \in SUBSET Nat
  BY <1>1, AccessFields
<1> HIDE DEF Newest
<1>6. PICK i \in Newest : \A j \in Newest : i <= j
  BY <1>5, LeastExists
<1>7. i \in Best /\ rows[i].created = age
  BY DEF Newest
<1>8. ASSUME NEW j \in Start!Access(rows), rows[j].parent = rows[i].parent, Start!Precedes(j, i)
      PROVE  FALSE
  <2>1. i \in Start!Access(rows) /\ rows[i].parent = rows[k].parent /\ j \in Siblings
    BY <1>1, <1>7, <1>8
  <2>2. i \in Nat /\ j \in Nat /\ rows[i].created \in Nat /\ rows[j].created \in Nat
    BY <2>1, AccessFields
  <2>3. rows[i].revoked = rows[j].revoked /\ j \in Best
    BY <1>2, <1>7, <1>8, <2>1 DEF Start!Precedes
  <2>4. rows[j].created <= age
    BY <1>4, <2>3
  <2>5. rows[j].created = age /\ j < i
    BY <1>7, <1>8, <2>2, <2>3, <2>4 DEF Start!Precedes
  <2>6. j \in Newest
    BY <2>3, <2>5 DEF Newest
  <2> QED
    BY <1>6, <2>2, <2>5, <2>6
<1>9. i \in Start!Kept
  BY <1>1, <1>7, <1>8 DEF Start!Kept
<1> QED
  BY <1>1, <1>7, <1>9

\* After the collapse no enrollment has two access rows.
LEMMA KeptApart ==
  ASSUME Start!ConstantsOK, Start!MigrationTypeOK, NEW i \in Start!Kept, NEW j \in Start!Kept,
         rows[i].parent = rows[j].parent
  PROVE  i = j
<1>1. i \in Start!Access(rows) /\ j \in Start!Access(rows)
  BY DEF Start!Kept
<1> QED
  BY <1>1, PrecedesTotal DEF Start!Kept

\* What the DELETE statement leaves: the rows that are kept, and every row that
\* is no access row of an enrollment.
LEMMA CollapseLeaves ==
  ASSUME NEW after, after = Start!Without(Start!Access(rows) \ Start!Kept)
  PROVE  /\ Start!Access(after) = Start!Kept
         /\ DOMAIN after = (DOMAIN rows \ Start!Access(rows)) \cup Start!Kept
         /\ \A i \in DOMAIN after : after[i] = rows[i]
<1>1. Start!Kept \subseteq Start!Access(rows) /\ Start!Access(rows) \subseteq DOMAIN rows
  BY DEF Start!Kept, Start!Access
<1>2. DOMAIN after = DOMAIN rows \ (Start!Access(rows) \ Start!Kept)
  BY DEF Start!Without
<1>3. \A i \in DOMAIN after : after[i] = rows[i]
  BY DEF Start!Without
<1>4. \A i : i \in Start!Access(after) <=> i \in DOMAIN after /\ i \in Start!Access(rows)
  BY <1>2, <1>3 DEF Start!Access
<1> QED
  BY <1>1, <1>2, <1>3, <1>4

\* The rows that are left are one of every enrollment, the first of it.
LEMMA CollapseIsRight ==
  ASSUME Start!ConstantsOK, Bounded, Start!MigrationTypeOK, rows = before,
         NEW after, after = Start!Without(Start!Access(rows) \ Start!Kept)
  PROVE  /\ ~Start!Duplicates(after)
         /\ {before[i].parent : i \in Start!Access(before)}
              = {after[i].parent : i \in Start!Access(after)}
         /\ \A i \in Start!Access(after), j \in Start!Access(before) :
               (before[j].parent = after[i].parent) =>
                   /\ after[i].revoked => before[j].revoked
                   /\ (after[i].revoked = before[j].revoked)
                          => after[i].created >= before[j].created
         /\ \A i \in DOMAIN before \ Start!Access(before) :
               i \in DOMAIN after /\ after[i] = before[i]
<1>0. Start!Access(before) = Start!Access(rows)
  BY DEF Start!Access
<1>1. /\ Start!Access(after) = Start!Kept
      /\ DOMAIN after = (DOMAIN rows \ Start!Access(rows)) \cup Start!Kept
      /\ \A i \in DOMAIN after : after[i] = rows[i]
  BY CollapseLeaves
<1>2. Start!Kept \subseteq Start!Access(rows)
  BY DEF Start!Kept
<1>3. ~Start!Duplicates(after)
  BY <1>1, KeptApart DEF Start!Duplicates
<1>4. {before[i].parent : i \in Start!Access(before)}
        = {after[i].parent : i \in Start!Access(after)}
  <2>1. ASSUME NEW k \in Start!Access(rows)
        PROVE  \E i \in Start!Kept : after[i].parent = rows[k].parent
    BY <1>1, <2>1, FirstExists, ZenonT(40)
  <2>2. ASSUME NEW i \in Start!Kept
        PROVE  \E k \in Start!Access(rows) : after[i].parent = rows[k].parent
    BY <1>1, <1>2
  <2> DEFINE Had == {rows[i].parent : i \in Start!Access(rows)}
  <2> DEFINE Has == {after[i].parent : i \in Start!Kept}
  <2>3. ASSUME NEW p \in Had PROVE p \in Has
    <3>1. PICK k \in Start!Access(rows) : p = rows[k].parent
      OBVIOUS
    <3>2. PICK i \in Start!Kept : after[i].parent = rows[k].parent
      BY <2>1
    <3> QED
      BY <3>1, <3>2
  <2>4. ASSUME NEW p \in Has PROVE p \in Had
    <3>1. PICK i \in Start!Kept : p = after[i].parent
      OBVIOUS
    <3>2. PICK k \in Start!Access(rows) : after[i].parent = rows[k].parent
      BY <2>2
    <3> QED
      BY <3>1, <3>2
  <2>5. Had = Has
    BY <2>3, <2>4
  <2>6. Had = {before[i].parent : i \in Start!Access(before)}
    BY <1>0
  <2>7. Has = {after[i].parent : i \in Start!Access(after)}
    BY <1>1
  <2> QED
    BY <2>5, <2>6, <2>7
<1>5. ASSUME NEW i \in Start!Kept, NEW j \in Start!Access(rows), rows[j].parent = rows[i].parent
      PROVE  /\ rows[i].revoked => rows[j].revoked
             /\ (rows[i].revoked = rows[j].revoked)
                    => rows[i].created >= rows[j].created
  <2>1. i \in Start!Access(rows) /\ ~Start!Precedes(j, i)
    BY <1>5 DEF Start!Kept
  <2>2. /\ rows[i].revoked \in BOOLEAN /\ rows[j].revoked \in BOOLEAN
        /\ rows[i].created \in Nat /\ rows[j].created \in Nat
    BY <2>1, AccessFields
  <2> QED
    BY <2>1, <2>2 DEF Start!Precedes
<1>6. \A i \in Start!Access(after), j \in Start!Access(before) :
         (before[j].parent = after[i].parent) =>
             /\ after[i].revoked => before[j].revoked
             /\ (after[i].revoked = before[j].revoked)
                    => after[i].created >= before[j].created
  <2> TAKE i \in Start!Access(after), j \in Start!Access(before)
  <2>1. i \in Start!Kept /\ j \in Start!Access(rows) /\ after[i] = rows[i] /\ before[j] = rows[j]
    BY <1>0, <1>1
  <2> QED
    BY <1>5, <2>1
<1>7. \A i \in DOMAIN before \ Start!Access(before) : i \in DOMAIN after /\ after[i] = before[i]
  BY <1>0, <1>1
<1> QED
  BY <1>3, <1>4, <1>6, <1>7

\* A database without duplicates loses nothing.
LEMMA CollapseIsIdle ==
  ASSUME Start!ConstantsOK, Start!MigrationTypeOK, rows \in Tables, ~Start!Duplicates(rows)
  PROVE  Start!Without(Start!Access(rows) \ Start!Kept) = rows
<1>1. Start!Access(rows) \ Start!Kept = {}
  <2>1. \A i, j \in Start!Access(rows) : rows[j].parent = rows[i].parent => i = j
    BY DEF Start!Duplicates
  <2>2. ASSUME NEW i \in Start!Access(rows) PROVE ~Start!Precedes(i, i)
    BY AccessFields DEF Start!Precedes
  <2> QED
    BY <2>1, <2>2 DEF Start!Kept
<1>2. rows = [i \in DOMAIN rows |-> rows[i]]
  BY DEF Tables
<1> QED
  BY <1>1, <1>2 DEF Start!Without

-----------------------------------------------------------------------------
(* The statements one after the other.                                     *)

LEMMA ColumnsAre ==
  /\ Len(Start!Columns) = 5 /\ DOMAIN Start!Columns = 1..5
  /\ Start!Columns[1] = "parent_id" /\ Start!Columns[2] = "backend_id"
  /\ Start!Columns[3] = "allowed_backends" /\ Start!Columns[4] = "last_credential_id"
  /\ Start!Columns[5] = "last_seen_at"
  /\ Start!ColumnNames = {"parent_id", "backend_id", "allowed_backends",
                    "last_credential_id", "last_seen_at"}
<1>1. /\ Len(Start!Columns) = 5 /\ DOMAIN Start!Columns = 1..5
      /\ Start!Columns[1] = "parent_id" /\ Start!Columns[2] = "backend_id"
      /\ Start!Columns[3] = "allowed_backends" /\ Start!Columns[4] = "last_credential_id"
      /\ Start!Columns[5] = "last_seen_at"
  BY DEF Start!Columns
<1>2. \A k : k \in 1..5 <=> k \in {1, 2, 3, 4, 5}
  OBVIOUS
<1>3. Start!ColumnNames = {Start!Columns[1], Start!Columns[2], Start!Columns[3],
                           Start!Columns[4], Start!Columns[5]}
  BY <1>1, <1>2 DEF Start!ColumnNames
<1> QED
  BY <1>1, <1>3

LEMMA StartInitIInv ==
  ASSUME Start!Init
  PROVE  StartIInv
<1>1. rows \in Tables /\ before \in Tables
  BY DEF Start!Init, Tables
<1>2. \A table \in Tables :
        DOMAIN table \subseteq Ids /\ \A i \in DOMAIN table : table[i] \in Start!Row
  BY DEF Tables
<1>3. Start!MigrationTypeOK
  BY <1>1, <1>2, ColumnsAre DEF Start!Init, Start!MigrationTypeOK
<1>4. Start!OnePerParent /\ Start!IndexFits /\ ColumnsReached /\ RowsAsFound
  BY ColumnsAre
     DEF Start!Init, Start!OnePerParent, Start!IndexFits, ColumnsReached,
         RowsAsFound
<1> QED
  BY <1>1, <1>3, <1>4 DEF StartIInv

LEMMA StartKeeps ==
  ASSUME StartIInv, Start!Start
  PROVE  StartIInv'
<1> USE DEF StartIInv, Start!Start
<1>1. Start!MigrationTypeOK' /\ rows' \in Tables /\ before' \in Tables
  BY DEF Start!MigrationTypeOK
<1>2. Start!OnePerParent' /\ Start!IndexFits' /\ ColumnsReached' /\ RowsAsFound'
  BY ColumnsAre
     DEF Start!OnePerParent, Start!IndexFits, ColumnsReached, RowsAsFound,
         Start!Duplicates, Start!Access
<1> QED
  BY <1>1, <1>2

LEMMA CreateTablesKeeps ==
  ASSUME StartIInv, Start!CreateTables
  PROVE  StartIInv'
<1> USE DEF StartIInv, Start!CreateTables
<1>1. Start!MigrationTypeOK' /\ rows' \in Tables /\ before' \in Tables
  BY ColumnsAre DEF Start!MigrationTypeOK
<1>2. Start!OnePerParent' /\ Start!IndexFits' /\ ColumnsReached' /\ RowsAsFound'
  BY ColumnsAre
     DEF Start!OnePerParent, Start!IndexFits, ColumnsReached, RowsAsFound,
         Start!Duplicates, Start!Access
<1> QED
  BY <1>1, <1>2

\* A column more, and the next statement.
LEMMA AddColumnKeeps ==
  ASSUME ~Fallible, StartIInv, Start!AddColumn
  PROVE  StartIInv'
<1> USE DEF StartIInv
<1>1. PICK k \in DOMAIN Start!Columns :
         pc = Start!Columns[k]
         /\ pc' = IF k < Len(Start!Columns) THEN Start!Columns[k + 1] ELSE "collapse"
  BY DEF Start!AddColumn
<1>2. columns' = columns \cup {pc} /\ UNCHANGED <<tables, rows, index, before>>
  BY DEF Start!AddColumn
<1>3. k \in {1, 2, 3, 4, 5}
  BY <1>1, ColumnsAre
<1>4. pc \in Start!ColumnNames /\ pc' \in Start!ColumnNames \cup {"collapse"}
  BY <1>1, <1>3, ColumnsAre
<1>5. Start!MigrationTypeOK' /\ rows' \in Tables /\ before' \in Tables
  BY <1>2, <1>4 DEF Start!MigrationTypeOK
<1>6. Start!OnePerParent' /\ Start!IndexFits' /\ RowsAsFound'
  BY <1>2, <1>4, ColumnsAre
     DEF Start!OnePerParent, Start!IndexFits, RowsAsFound, Start!Duplicates,
         Start!Access
<1>7. ColumnsReached'
  <2>1. CASE k = 1
    BY <1>1, <1>2, <2>1, ColumnsAre DEF ColumnsReached
  <2>2. CASE k = 2
    BY <1>1, <1>2, <2>2, ColumnsAre DEF ColumnsReached
  <2>3. CASE k = 3
    BY <1>1, <1>2, <2>3, ColumnsAre DEF ColumnsReached
  <2>4. CASE k = 4
    BY <1>1, <1>2, <2>4, ColumnsAre DEF ColumnsReached
  <2>5. CASE k = 5
    <3>1. {"parent_id", "backend_id", "allowed_backends", "last_credential_id"} \subseteq columns
      BY <1>1, <2>5, ColumnsAre DEF ColumnsReached
    <3>2. pc = "last_seen_at" /\ pc' = "collapse"
      BY <1>1, <2>5, ColumnsAre
    <3>3. columns \subseteq Start!ColumnNames
      BY DEF Start!MigrationTypeOK
    <3>4. columns' = Start!ColumnNames
      BY <1>2, <3>1, <3>2, <3>3, ColumnsAre
    <3> QED
      BY <3>2, <3>4, ColumnsAre DEF ColumnsReached
  <2> QED
    BY <1>3, <2>1, <2>2, <2>3, <2>4, <2>5
<1> QED
  BY <1>5, <1>6, <1>7

\* The collapse finds its column, and leaves what OnePerParent says.
LEMMA CollapseKeeps ==
  ASSUME Start!ConstantsOK, Bounded, StartIInv, Start!Collapse
  PROVE  StartIInv' /\ pc' = "index" /\ (index => rows' = rows)
<1> USE DEF StartIInv
<1>1. pc = "collapse" /\ UNCHANGED <<tables, columns, index, before>>
  BY DEF Start!Collapse
<1>2. columns = Start!ColumnNames /\ rows = before
  BY <1>1 DEF ColumnsReached, RowsAsFound
<1>3. pc' = "index" /\ rows' = Start!Without(Start!Access(rows) \ Start!Kept)
  BY <1>2, ColumnsAre DEF Start!Collapse
<1> DEFINE after == Start!Without(Start!Access(rows) \ Start!Kept)
<1>4. /\ ~Start!Duplicates(after)
      /\ {before[i].parent : i \in Start!Access(before)}
           = {after[i].parent : i \in Start!Access(after)}
      /\ \A i \in Start!Access(after), j \in Start!Access(before) :
            (before[j].parent = after[i].parent) =>
                /\ after[i].revoked => before[j].revoked
                /\ (after[i].revoked = before[j].revoked)
                       => after[i].created >= before[j].created
      /\ \A i \in DOMAIN before \ Start!Access(before) :
            i \in DOMAIN after /\ after[i] = before[i]
  BY <1>2, CollapseIsRight
<1>5. Start!Access(before)' = Start!Access(before)
  BY <1>1 DEF Start!Access
<1> HIDE DEF after
<1>6. Start!OnePerParent'
  <2>1. rows' = after
    BY <1>3 DEF after
  <2>2. Start!Access(rows') = Start!Access(after) /\ ~Start!Duplicates(rows')
    BY <1>4, <2>1
  <2>3. Start!Access(before') = Start!Access(before) /\ before' = before
    BY <1>1
  <2>4. {before'[i].parent : i \in Start!Access(before')}
          = {rows'[i].parent : i \in Start!Access(rows')}
    <3>1. {before[i].parent : i \in Start!Access(before)}
            = {after[i].parent : i \in Start!Access(after)}
      BY <1>4
    <3>2. {before'[i].parent : i \in Start!Access(before')}
            = {before[i].parent : i \in Start!Access(before)}
      BY <2>3
    <3>3. {rows'[i].parent : i \in Start!Access(rows')}
            = {after[i].parent : i \in Start!Access(after)}
      BY <2>1, <2>2
    <3> QED
      BY <3>1, <3>2, <3>3
  <2>5. \A i \in Start!Access(rows'), j \in Start!Access(before') :
           (before'[j].parent = rows'[i].parent) =>
               /\ rows'[i].revoked => before'[j].revoked
               /\ (rows'[i].revoked = before'[j].revoked)
                      => rows'[i].created >= before'[j].created
    BY <1>4, <2>1, <2>3
  <2>6. \A i \in DOMAIN before' \ Start!Access(before') :
           i \in DOMAIN rows' /\ rows'[i] = before'[i]
    BY <1>4, <2>1, <2>3
  <2> QED
    BY <2>2, <2>4, <2>5, <2>6 DEF Start!OnePerParent
<1>7. Start!IndexFits' /\ ColumnsReached' /\ RowsAsFound'
  BY <1>1, <1>2, <1>3, <1>6, ColumnsAre
     DEF Start!IndexFits, ColumnsReached, RowsAsFound, Start!OnePerParent
<1>8. Start!MigrationTypeOK' /\ rows' \in Tables /\ before' \in Tables
  <2>1. DOMAIN rows' \subseteq Ids /\ \A i \in DOMAIN rows' : rows'[i] \in Start!Row
    BY <1>3 DEF Start!Without, Start!MigrationTypeOK
  <2>2. rows' \in Tables
    <3>1. rows' \in [DOMAIN rows' -> Start!Row]
      BY <1>3, <2>1 DEF Start!Without
    <3> QED
      BY <2>1, <3>1 DEF Tables
  <2> QED
    BY <1>1, <1>3, <2>1, <2>2 DEF Start!MigrationTypeOK
<1>9. index => rows' = rows
  BY <1>3, CollapseIsIdle DEF Start!IndexFits
<1> QED
  BY <1>3, <1>6, <1>7, <1>8, <1>9

\* The index is never refused.
LEMMA CreateIndexKeeps ==
  ASSUME StartIInv, Start!CreateIndex
  PROVE  StartIInv' /\ pc' = "ready"
<1> USE DEF StartIInv
<1>1. pc = "index" /\ UNCHANGED <<tables, columns, rows, before>>
  BY DEF Start!CreateIndex
<1>2. ~Start!Duplicates(rows)
  BY <1>1 DEF Start!OnePerParent
<1>3. pc' = "ready" /\ index' = TRUE
  BY <1>2 DEF Start!CreateIndex
<1>4. Start!Duplicates(rows)' = Start!Duplicates(rows)
  BY <1>1 DEF Start!Duplicates, Start!Access
<1>5. Start!MigrationTypeOK' /\ rows' \in Tables /\ before' \in Tables
  BY <1>1, <1>3 DEF Start!MigrationTypeOK
<1>6. Start!OnePerParent'
  <2>1. rows' = rows /\ before' = before
    BY <1>1
  <2>2. /\ Start!Access(rows') = Start!Access(rows)
        /\ Start!Access(before') = Start!Access(before)
        /\ ~Start!Duplicates(rows')
    BY <1>2, <2>1
  <2>3. pc \in {"index", "ready"}
    BY <1>1
  <2> QED
    BY <2>1, <2>2, <2>3 DEF Start!OnePerParent
<1>7. Start!IndexFits' /\ ColumnsReached' /\ RowsAsFound'
  BY <1>1, <1>2, <1>3, <1>4, ColumnsAre DEF Start!IndexFits, ColumnsReached, RowsAsFound
<1> QED
  BY <1>3, <1>5, <1>6, <1>7

LEMMA StartStopKeeps ==
  ASSUME StartIInv, Start!Stop
  PROVE  StartIInv'
<1> USE DEF StartIInv, Start!Stop
<1>1. Start!MigrationTypeOK' /\ rows' \in Tables /\ before' \in Tables
  BY DEF Start!MigrationTypeOK
<1>2. Start!OnePerParent' /\ Start!IndexFits' /\ ColumnsReached' /\ RowsAsFound'
  BY ColumnsAre
     DEF Start!OnePerParent, Start!IndexFits, ColumnsReached, RowsAsFound,
         Start!Duplicates, Start!Access
<1> QED
  BY <1>1, <1>2

\* The index refuses a second access row also to the earlier version.
LEMMA OldExchangeKeeps ==
  ASSUME StartIInv, Start!OldExchange
  PROVE  StartIInv'
<1> USE DEF StartIInv
<1>1. pc = "off" /\ UNCHANGED <<pc, tables, columns, index, before>>
  BY DEF Start!OldExchange
<1>2. PICK i \in Ids \ DOMAIN rows, p \in Parents, t \in Times :
         /\ rows' = [j \in DOMAIN rows \cup {i} |->
                       IF j = i THEN [type |-> "access", parent |-> p,
                                      revoked |-> FALSE, created |-> t]
                       ELSE rows[j]]
         /\ index => ~Start!Duplicates(rows')
  BY DEF Start!OldExchange
<1>3. [type |-> "access", parent |-> p, revoked |-> FALSE, created |-> t] \in Start!Row
  BY DEF Start!Row
<1>4. DOMAIN rows' \subseteq Ids /\ \A j \in DOMAIN rows' : rows'[j] \in Start!Row
  BY <1>2, <1>3 DEF Start!MigrationTypeOK
<1>5. rows' \in Tables
  <2>1. rows' \in [DOMAIN rows' -> Start!Row]
    BY <1>2, <1>4
  <2> QED
    BY <1>4, <2>1 DEF Tables
<1>6. Start!MigrationTypeOK' /\ before' \in Tables
  BY <1>1, <1>4 DEF Start!MigrationTypeOK
<1>7. Start!OnePerParent' /\ Start!IndexFits' /\ ColumnsReached' /\ RowsAsFound'
  BY <1>1, <1>2, ColumnsAre
     DEF Start!OnePerParent, Start!IndexFits, ColumnsReached, RowsAsFound
<1> QED
  BY <1>5, <1>6, <1>7

LEMMA StartStutterKeeps ==
  ASSUME StartIInv, UNCHANGED Start!vars
  PROVE  StartIInv'
<1> USE DEF StartIInv
<1>1. UNCHANGED <<pc, tables, columns, rows, index, before>>
  BY DEF Start!vars
<1>2. Start!MigrationTypeOK' /\ rows' \in Tables /\ before' \in Tables
  BY <1>1 DEF Start!MigrationTypeOK
<1>3. /\ Start!Duplicates(rows)' = Start!Duplicates(rows)
      /\ Start!Access(rows)' = Start!Access(rows) /\ Start!Access(before)' = Start!Access(before)
  BY <1>1 DEF Start!Duplicates, Start!Access
<1>4. Start!OnePerParent'
  BY <1>1, <1>3 DEF Start!OnePerParent
<1>5. Start!IndexFits' /\ ColumnsReached' /\ RowsAsFound'
  BY <1>1, <1>3 DEF Start!IndexFits, ColumnsReached, RowsAsFound
<1> QED
  BY <1>2, <1>4, <1>5

LEMMA StartNextKeeps ==
  ASSUME Start!ConstantsOK, Bounded, ~Fallible, StartIInv, [Start!Next]_(Start!vars)
  PROVE  StartIInv'
  BY StartKeeps, CreateTablesKeeps, AddColumnKeeps, CollapseKeeps, CreateIndexKeeps,
     StartStopKeeps, OldExchangeKeeps, StartStutterKeeps DEF Start!Next, Start!Migrate

\* No statement fails, and the collapse of a database that has the index is idle.
LEMMA MigrateSucceeds ==
  ASSUME Start!ConstantsOK, Bounded, ~Fallible, StartIInv, Start!Migrate
  PROVE  pc' # "off" /\ (index => rows' = rows)
<1>1. CASE Start!CreateTables
  BY <1>1, ColumnsAre DEF Start!CreateTables
<1>2. CASE Start!AddColumn
  <2>1. PICK k \in DOMAIN Start!Columns :
           pc' = IF k < Len(Start!Columns) THEN Start!Columns[k + 1] ELSE "collapse"
    BY <1>2 DEF Start!AddColumn
  <2>2. k \in {1, 2, 3, 4, 5}
    BY ColumnsAre
  <2>3. pc' # "off"
    BY <2>1, <2>2, ColumnsAre
  <2> QED
    BY <1>2, <2>3 DEF Start!AddColumn
<1>3. CASE Start!Collapse
  BY <1>3, CollapseKeeps
<1>4. CASE Start!CreateIndex
  BY <1>4, CreateIndexKeeps DEF Start!CreateIndex
<1> QED
  BY <1>1, <1>2, <1>3, <1>4 DEF Start!Migrate

-----------------------------------------------------------------------------
(* The theorems.                                                           *)

LEMMA StartInductive ==
  ASSUME Bounded, ~Fallible
  PROVE  /\ StorageInit => StartIInv
         /\ StartIInv /\ [StorageNext]_<<part, vars, startVars>> => StartIInv'
<1>1. Start!ConstantsOK
  BY StorageConstants
<1>2. [StorageNext]_<<part, vars, startVars>> => [Start!Next]_(Start!vars)
  BY DEF StorageNext, startVars, Start!vars
<1> QED
  BY <1>1, <1>2, StartInitIInv, StartNextKeeps DEF StorageInit

\* A start leaves one access row of every enrollment that had any, unrevoked if
\* one was, with no newer row like it, and every other row as it was, wherever
\* earlier ones were cut off; the rows fit the index once there is one, and a
\* gateway that is up has its columns.
THEOREM MigrationHolds ==
  ASSUME Bounded, ~Fallible
  PROVE  StorageSpec => []MigrationInv
<1>1. StartIInv => MigrationInv
  BY DEF StartIInv, MigrationInv, Start!MigrationInv, ColumnsReached, Start!ReadyIsMigrated
<1> QED
  BY <1>1, StartInductive, PTL DEF StorageSpec

\* No start fails by itself, and none after the first that finished drops a row.
THEOREM StartsHold ==
  ASSUME Bounded, ~Fallible
  PROVE  StorageSpec => StartsSucceed
<1>1. Start!ConstantsOK
  BY StorageConstants
<1>2. StartIInv /\ [StorageNext]_<<part, vars, startVars>>
        => [Start!Migrate => pc' # "off" /\ (index => rows' = rows)]_(Start!vars)
  BY <1>1, MigrateSucceeds
<1> QED
  BY <1>2, StartInductive, PTL DEF StorageSpec, StartsSucceed, Start!StartsSucceed

=============================================================================
