--------------------------- MODULE SessionsProofs ---------------------------
(***************************************************************************)
(* What holds of the connections of the SDKs and of the sockets and the    *)
(* shutdown of the server, for any number of slots, runs, sockets, faults  *)
(* and calls: each part has an inductive invariant, which also holds while *)
(* another part is the one that runs.                                      *)
(***************************************************************************)
EXTENDS MCSessions, Sequences, FiniteSetTheorems, TLAPS

-----------------------------------------------------------------------------
(***************************************************************************)
(* The TypeScript backend SDK.  Attempts under way, reconnect timers and   *)
(* heartbeat intervals are counted together: what one of them ends begins  *)
(* at most one other, and only connect() adds one.                         *)
(***************************************************************************)

Trying == {s \in Slots : Backend!Running(s)}

BackendThreads == Cardinality(Trying) + timers + beats

CurrentLives == current # NoSlot /\ attempts[current].phase = "live"

BackendTyped ==
    /\ closing \in BOOLEAN /\ closed \in BOOLEAN
    /\ state \in {"idle", "connecting", "connected", "closed"}
    /\ failure \in {"none", "attempt", "replaced"}
    /\ token \in Backend!Secrets \ {"enrollment"}
    /\ current \in Slots \cup {NoSlot}
    /\ beating \in BOOLEAN /\ beats \in Nat /\ timers \in Nat
    /\ attempts \in [Slots -> Backend!Attempt]
    /\ owner \in Slots \cup {NoSlot} /\ rejected \in BOOLEAN
    /\ calls \in 0..MaxConnects /\ faults \in 0..MaxFaults

\* What an exchange grants is a secret of the gateway.
GrantedSecrets ==
    \A s \in Slots : attempts[s].phase = "granted" => attempts[s].secret \in {"good", "bad"}

\* The heartbeat of the current connection is one of the intervals that run.
BackendBudget ==
    /\ BackendThreads <= calls
    /\ CurrentLives => beating
    /\ beating => beats > 0

\* A failed attempt is followed by a timer or by the rejection of connect().
BackendTries ==
    /\ Backend!ConnectingIsTrying
    /\ closed => state # "connecting"
    /\ \A s \in Slots : Backend!Running(s) => attempts[s].origin \in {"connect", "timer"}

\* Without close() there is one thread, and none where connect() may be called.
BackendLineage ==
    ~closing =>
        /\ ~closed
        /\ BackendThreads <= 1
        /\ beating <=> CurrentLives
        /\ beating \/ beats = 0
        /\ state \in {"idle", "closed"} \/ rejected => BackendThreads = 0
        /\ \A s \in Slots :
              IF attempts[s].phase \in {"open", "hello", "live"}
              THEN current = s ELSE attempts[s].link = "none"

BackendIInv == BackendTyped /\ GrantedSecrets /\ BackendBudget /\ BackendTries /\ BackendLineage

LEMMA BackendConstants ==
  /\ NoSlot \notin Slots /\ IsFiniteSet(Slots) /\ MaxConnects \in Nat /\ MaxFaults \in Nat
  /\ MaxClientConnects \in Nat
BY SessionsConstants DEF SessionsConstants, Backend!ConstantsOK, Client!ConstantsOK,
   Backend!IsFiniteSet, Client!IsFiniteSet, IsFiniteSet

\* A set of slots that loses one member, gains one or does neither.
LEMMA CountOfSlots ==
  ASSUME NEW A \in SUBSET Slots, NEW s \in Slots
  PROVE  /\ Cardinality(A) \in Nat
         /\ Cardinality(A) = 0 <=> A = {}
         /\ s \in A => Cardinality(A) >= 1
         /\ Cardinality(A \cup {s}) = IF s \in A THEN Cardinality(A) ELSE Cardinality(A) + 1
         /\ Cardinality(A \ {s}) = IF s \in A THEN Cardinality(A) - 1 ELSE Cardinality(A)
<1>1. IsFiniteSet(A)
  BY BackendConstants, FS_Subset
<1>2. Cardinality(A) \in Nat /\ (Cardinality(A) = 0 <=> A = {})
  BY <1>1, FS_CardinalityType, FS_EmptySet
<1>3. s \in A => Cardinality(A) >= 1
  BY <1>2
<1> QED
  BY <1>1, <1>2, <1>3, FS_AddElement, FS_RemoveElement

LEMMA OneOfSlots ==
  ASSUME NEW A \in SUBSET Slots, Cardinality(A) <= 1, NEW s \in A, NEW r \in A
  PROVE  s = r
<1> SUFFICES ASSUME s # r PROVE FALSE
  OBVIOUS
<1>1. r \in A \ {s} /\ A \ {s} \in SUBSET Slots
  OBVIOUS
<1>2. Cardinality(A \ {s}) >= 1
  BY <1>1, CountOfSlots
<1>3. Cardinality(A) \in Nat /\ Cardinality(A \ {s}) = Cardinality(A) - 1
  BY CountOfSlots
<1> QED
  BY <1>2, <1>3

LEMMA FreeTyped == Backend!Free \in Backend!Attempt
BY DEF Backend!Attempt, Backend!Free, Backend!Secrets

LEMMA BackendInitCorrect == Backend!Init => BackendIInv
<1> SUFFICES ASSUME Backend!Init PROVE BackendIInv
  OBVIOUS
<1>0. /\ attempts = [s \in Slots |-> Backend!Free] /\ current = NoSlot /\ timers = 0 /\ beats = 0
      /\ calls = 0 /\ state = "idle" /\ closed = FALSE /\ beating = FALSE /\ rejected = FALSE
      /\ faults = 0 /\ owner = NoSlot /\ failure = "none" /\ token = "none"
      /\ closing \in BOOLEAN
  BY DEF Backend!Init
<1>1. BackendTyped
  <2>1. 0 \in Nat /\ 0 \in 0..MaxConnects /\ 0 \in 0..MaxFaults
    BY BackendConstants
  <2>2. attempts \in [Slots -> Backend!Attempt]
    BY <1>0, FreeTyped
  <2> QED
    BY <1>0, <2>1, <2>2 DEF BackendTyped, Backend!Secrets
<1>6. GrantedSecrets
  BY <1>0 DEF GrantedSecrets, Backend!Free
<1>2. Trying = {} /\ Cardinality(Trying) = 0
  BY <1>0, FS_EmptySet DEF Trying, Backend!Running, Backend!Free
<1>3. BackendBudget
  BY <1>0, <1>2 DEF BackendBudget, BackendThreads, CurrentLives
<1>4. BackendTries
  BY <1>0 DEF BackendTries, Backend!ConnectingIsTrying, Backend!Running, Backend!Free
<1>5. BackendLineage
  BY <1>0, <1>2 DEF BackendLineage, BackendThreads, CurrentLives, Backend!Free
<1> QED
  BY <1>1, <1>3, <1>4, <1>5, <1>6 DEF BackendIInv

LEMMA SpoiledTyped ==
  ASSUME BackendTyped
  PROVE  Backend!SpoiledAttempts \in [Slots -> Backend!Attempt]
<1>1. ASSUME NEW s \in Slots
      PROVE  [attempts[s] EXCEPT !.secret = Backend!Spoiled(attempts[s].secret)] \in Backend!Attempt
  BY <1>1 DEF BackendTyped, Backend!Attempt, Backend!Secrets, Backend!Spoiled
<1> QED
  BY <1>1 DEF Backend!SpoiledAttempts

LEMMA HolderTyped ==
  ASSUME NEW as \in [Slots -> Backend!Attempt], NEW keep
  PROVE  Backend!WithoutHolder(as, keep) \in [Slots -> Backend!Attempt]
<1>1. ASSUME NEW s \in Slots
      PROVE  [as[s] EXCEPT !.replaced = TRUE] \in Backend!Attempt
  BY <1>1 DEF Backend!Attempt
<1> QED
  BY <1>1, FreeTyped DEF Backend!WithoutHolder

\* What the steps do to the attempts keeps them attempts.
LEMMA AttemptsTyped ==
  ASSUME BackendTyped, Backend!Next
  PROVE  attempts' \in [Slots -> Backend!Attempt]
<1> USE FreeTyped DEF BackendTyped
<1>1. Backend!SpoiledAttempts \in [Slots -> Backend!Attempt]
  BY SpoiledTyped
<1>2. ASSUME NEW as \in [Slots -> Backend!Attempt], NEW keep
      PROVE  Backend!WithoutHolder(as, keep) \in [Slots -> Backend!Attempt]
  BY <1>2, HolderTyped
<1>3. ASSUME NEW s \in Slots, NEW origin \in {"connect", "timer"}, Backend!Begin(s, origin)
      PROVE  attempts' \in [Slots -> Backend!Attempt]
  BY <1>3 DEF Backend!Begin, Backend!Free, Backend!Attempt, Backend!Secrets
<1>4. ASSUME NEW s \in Slots, Backend!Fail(s)
      PROVE  attempts' \in [Slots -> Backend!Attempt]
  BY <1>4 DEF Backend!Fail, Backend!Dropped, Backend!Free, Backend!Attempt, Backend!Secrets
<1>5. CASE Backend!Close
  BY <1>5 DEF Backend!Close, Backend!Attempt
<1>6. CASE Backend!TokenAges
  BY <1>6 DEF Backend!TokenAges
<1>7. ASSUME NEW rotates \in BOOLEAN, Backend!OtherTakesOver(rotates)
      PROVE  attempts' \in [Slots -> Backend!Attempt]
  BY <1>1, <1>2, <1>7 DEF Backend!OtherTakesOver
<1>8. ASSUME NEW s \in Slots, Backend!Connect(s) \/ Backend!TimerFires(s)
      PROVE  attempts' \in [Slots -> Backend!Attempt]
  BY <1>3, <1>8 DEF Backend!Connect, Backend!TimerFires
<1>9. ASSUME NEW s \in Slots,
             \/ Backend!ExchangeFails(s) \/ Backend!HelloRefused(s) \/ Backend!HandshakeFails(s)
      PROVE  attempts' \in [Slots -> Backend!Attempt]
  BY <1>4, <1>9 DEF Backend!ExchangeFails, Backend!HelloRefused, Backend!HandshakeFails
<1>10. ASSUME NEW s \in Slots, Backend!UseCredential(s) \/ Backend!TokenArrives(s)
       PROVE  attempts' \in [Slots -> Backend!Attempt]
  BY <1>10 DEF Backend!UseCredential, Backend!TokenArrives, Backend!OpenSocket, Backend!Attempt
<1>13. ASSUME NEW s \in Slots, Backend!SocketOpens(s) \/ Backend!PeerReady(s)
       PROVE  attempts' \in [Slots -> Backend!Attempt]
  BY <1>13 DEF Backend!SocketOpens, Backend!PeerReady, Backend!Attempt
<1>14. ASSUME NEW s \in Slots, Backend!GatewayRefuses(s)
       PROVE  attempts' \in [Slots -> Backend!Attempt]
  BY <1>14 DEF Backend!GatewayRefuses, Backend!Attempt
<1>15. ASSUME NEW s \in Slots, Backend!CachedTokenRefused(s)
       PROVE  attempts' \in [Slots -> Backend!Attempt]
  BY <1>15 DEF Backend!CachedTokenRefused, Backend!Free, Backend!Attempt, Backend!Secrets
<1>16. ASSUME NEW s \in Slots, Backend!SocketCloses(s) \/ Backend!GatewaySeesClose(s)
       PROVE  attempts' \in [Slots -> Backend!Attempt]
  BY <1>16 DEF Backend!SocketCloses, Backend!GatewaySeesClose
<1>11. ASSUME NEW s \in Slots, Backend!GatewayExchanges(s)
       PROVE  attempts' \in [Slots -> Backend!Attempt]
  <2>1. attempts' = [Backend!SpoiledAttempts EXCEPT
                       ![s] = [@ EXCEPT !.phase = "granted", !.secret = "good"]]
    BY <1>1, <1>11 DEF Backend!GatewayExchanges
  <2>2. [Backend!SpoiledAttempts[s] EXCEPT !.phase = "granted", !.secret = "good"] \in Backend!Attempt
    BY <1>1, <1>11, ZenonT(40) DEF Backend!Attempt, Backend!Secrets
  <2> QED
    BY <1>1, <2>1, <2>2
<1>12. ASSUME NEW s \in Slots, Backend!GatewayAccepts(s)
       PROVE  attempts' \in [Slots -> Backend!Attempt]
  <2>1. Backend!WithoutHolder(attempts, s) \in [Slots -> Backend!Attempt]
    BY <1>2
  <2> QED
    BY <1>12, <2>1 DEF Backend!GatewayAccepts, Backend!Attempt
<1> QED
  BY <1>5, <1>6, <1>7, <1>8, <1>9, <1>10, <1>11, <1>12, <1>13, <1>14,
     <1>15, <1>16 DEF Backend!Next, Backend!Progress

\* A live socket that closes: whose it is, and what follows.
LEMMA CloseHandled ==
  ASSUME BackendTyped, BackendBudget, NEW s \in Slots, NEW replaced \in BOOLEAN,
         Backend!HandleClose(s, replaced)
  PROVE  /\ state' \in {"idle", "connecting", "connected", "closed"}
         /\ failure' \in {"none", "attempt", "replaced"}
         /\ current' \in Slots \cup {NoSlot}
         /\ beating' \in BOOLEAN /\ beats' \in Nat /\ timers' \in Nat
         /\ \/ current # s /\ UNCHANGED <<state, failure, current, beating, beats, timers>>
            \/ /\ current = s /\ current' = NoSlot /\ beating' = FALSE
               /\ beats' = IF beating THEN beats - 1 ELSE beats
               /\ \/ timers' = timers /\ state' = "closed" /\ closed
                  \/ timers' = timers /\ state' = "closed" /\ replaced
                  \/ timers' = timers + 1 /\ state' = "connecting" /\ ~closed
<1> USE DEF BackendTyped, BackendBudget
<1>1. CASE current # s
  BY <1>1 DEF Backend!HandleClose
<1>2. CASE current = s
  <2>1. /\ current' = NoSlot /\ beating' = FALSE
        /\ beats' = IF beating THEN beats - 1 ELSE beats
        /\ beats' \in Nat
    BY <1>2 DEF Backend!HandleClose
  <2>2. CASE replaced
    BY <1>2, <2>1, <2>2 DEF Backend!HandleClose
  <2>3. CASE ~replaced /\ closed
    BY <1>2, <2>1, <2>3 DEF Backend!HandleClose
  <2>4. CASE ~replaced /\ ~closed
    <3>1. state' = "connecting" /\ timers' = timers + 1 /\ failure' = failure
      BY <1>2, <2>4 DEF Backend!HandleClose
    <3>2. timers' \in Nat
      BY <3>1
    <3>3. failure' \in {"none", "attempt", "replaced"}
      BY <3>1
    <3>4. state' \in {"idle", "connecting", "connected", "closed"}
      BY <3>1
    <3>5. current' \in Slots \cup {NoSlot} /\ beating' \in BOOLEAN /\ beats' \in Nat
      BY <2>1
    <3> QED
      BY <1>2, <2>1, <2>4, <3>1, <3>2, <3>3, <3>4, <3>5
  <2> QED
    BY <2>2, <2>3, <2>4
<1> QED
  BY <1>1, <1>2

LEMMA BackendTypes ==
  ASSUME BackendTyped, GrantedSecrets, BackendBudget, Backend!Next
  PROVE  BackendTyped'
<1>1. attempts' \in [Slots -> Backend!Attempt]
  BY AttemptsTyped
<1> USE DEF BackendTyped, BackendBudget
<1>2. beating => beats - 1 \in Nat
  OBVIOUS
<1>3. ASSUME NEW s \in Slots, Backend!Fail(s), faults' \in 0..MaxFaults
      PROVE  BackendTyped'
  BY <1>1, <1>3 DEF Backend!Fail, Backend!Rescheduled
<1>4. faults < MaxFaults => faults + 1 \in 0..MaxFaults
  BY BackendConstants
<1>5. CASE Backend!Close
  BY <1>1, <1>2, <1>5 DEF Backend!Close
<1>6. CASE Backend!TokenAges
  BY <1>1, <1>6 DEF Backend!TokenAges, Backend!Secrets
<1>7. ASSUME NEW rotates \in BOOLEAN, Backend!OtherTakesOver(rotates)
      PROVE  BackendTyped'
  BY <1>1, <1>4, <1>7 DEF Backend!OtherTakesOver, Backend!Fault, Backend!Secrets, Backend!Spoiled
<1>8. ASSUME NEW s \in Slots, Backend!Connect(s)
      PROVE  BackendTyped'
  <2>1. calls + 1 \in 0..MaxConnects
    BY <1>8, BackendConstants DEF Backend!Connect
  <2> QED
    BY <1>1, <1>8, <2>1 DEF Backend!Connect, Backend!Begin
<1>9. ASSUME NEW s \in Slots, Backend!TimerFires(s)
      PROVE  BackendTyped'
  <2>1. timers - 1 \in Nat
    BY <1>9 DEF Backend!TimerFires
  <2> QED
    BY <1>1, <1>9, <2>1 DEF Backend!TimerFires, Backend!Begin
<1>10. ASSUME NEW s \in Slots,
              \/ Backend!ExchangeFails(s) \/ Backend!HelloRefused(s) \/ Backend!HandshakeFails(s)
       PROVE  BackendTyped'
  BY <1>3, <1>4, <1>10 DEF Backend!ExchangeFails, Backend!HelloRefused, Backend!HandshakeFails,
     Backend!Fault, Backend!NoFault
<1>11. ASSUME NEW s \in Slots, Backend!UseCredential(s) \/ Backend!TokenArrives(s)
       PROVE  BackendTyped'
  <2>1. Backend!TokenArrives(s) => token' \in Backend!Secrets \ {"enrollment"}
    BY <1>11 DEF Backend!TokenArrives, Backend!Secrets, GrantedSecrets
  <2> QED
    BY <1>1, <1>11, <2>1 DEF Backend!UseCredential, Backend!TokenArrives, Backend!OpenSocket
<1>12. ASSUME NEW s \in Slots, Backend!GatewayExchanges(s)
       PROVE  BackendTyped'
  BY <1>1, <1>12 DEF Backend!GatewayExchanges, Backend!Secrets, Backend!Spoiled
<1>13. ASSUME NEW s \in Slots,
              \/ Backend!SocketOpens(s) \/ Backend!GatewayAccepts(s) \/ Backend!GatewayRefuses(s)
       PROVE  BackendTyped'
  BY <1>1, <1>4, <1>13 DEF Backend!SocketOpens, Backend!GatewayAccepts, Backend!GatewayRefuses,
     Backend!Fault, Backend!NoFault
<1>14. ASSUME NEW s \in Slots, Backend!PeerReady(s) \/ Backend!CachedTokenRefused(s)
       PROVE  BackendTyped'
  <2>1. CASE Backend!PeerReady(s)
    BY <1>1, <2>1 DEF Backend!PeerReady
  <2>2. CASE Backend!CachedTokenRefused(s)
    <3>1. /\ token' = "none" /\ current' \in Slots \cup {NoSlot}
          /\ UNCHANGED <<closing, closed, state, failure, beating, beats, timers, owner,
                         rejected, calls, faults>>
      BY <2>2 DEF Backend!CachedTokenRefused
    <3> QED
      BY <1>1, <3>1 DEF Backend!Secrets
  <2> QED
    BY <1>14, <2>1, <2>2
<1>15. ASSUME NEW s \in Slots, Backend!SocketCloses(s)
       PROVE  BackendTyped'
  <2>1. ASSUME NEW replaced \in BOOLEAN, Backend!HandleClose(s, replaced)
        PROVE  /\ state' \in {"idle", "connecting", "connected", "closed"}
               /\ failure' \in {"none", "attempt", "replaced"}
               /\ current' \in Slots \cup {NoSlot}
               /\ beating' \in BOOLEAN /\ beats' \in Nat /\ timers' \in Nat
    BY <2>1, CloseHandled
  <2>2. Backend!WasReplaced(s) \in BOOLEAN
    BY <1>15 DEF Backend!WasReplaced, Backend!Attempt
  <2>3. \E replaced \in BOOLEAN : Backend!HandleClose(s, replaced)
    BY <1>15, <2>2 DEF Backend!SocketCloses
  <2>4. /\ faults' \in 0..MaxFaults /\ owner' \in Slots \cup {NoSlot}
        /\ UNCHANGED <<closing, closed, token, rejected, calls>>
    BY <1>4, <1>15 DEF Backend!SocketCloses, Backend!Fault, Backend!NoFault
  <2> QED
    BY <1>1, <2>1, <2>3, <2>4
<1>16. ASSUME NEW s \in Slots, Backend!GatewaySeesClose(s)
       PROVE  BackendTyped'
  BY <1>1, <1>16 DEF Backend!GatewaySeesClose
<1> QED
  BY <1>5, <1>6, <1>7, <1>8, <1>9, <1>10, <1>11, <1>12, <1>13, <1>14, <1>15, <1>16
     DEF Backend!Next, Backend!Progress

\* The steps that begin an attempt.
LEMMA BeginBegins ==
  ASSUME BackendTyped, NEW s \in Slots, NEW origin \in {"connect", "timer"},
         Backend!Begin(s, origin)
  PROVE  /\ s \notin Trying /\ Trying' = Trying \cup {s}
         /\ attempts'[s].origin = origin
         /\ attempts'[s].link = "none" /\ attempts'[s].phase \in {"credential", "exchange"}
         /\ attempts[s].phase = "free"
         /\ \A r \in Slots \ {s} : attempts'[r] = attempts[r]
BY DEF BackendTyped, Backend!Begin, Backend!Free, Trying, Backend!Running, Backend!Attempt

LEMMA GrantedKept ==
  ASSUME BackendTyped, GrantedSecrets, Backend!Next
  PROVE  GrantedSecrets'
<1> SUFFICES ASSUME NEW r \in Slots, attempts'[r].phase = "granted"
             PROVE  attempts'[r].secret \in {"good", "bad"}
  BY DEF GrantedSecrets
<1> USE DEF BackendTyped, GrantedSecrets, Backend!Free
<1>1. ASSUME NEW as \in [Slots -> Backend!Attempt], NEW keep,
             as[r].phase = "granted" => as[r].secret \in {"good", "bad"},
             Backend!WithoutHolder(as, keep)[r].phase = "granted"
      PROVE  Backend!WithoutHolder(as, keep)[r].secret \in {"good", "bad"}
  BY <1>1 DEF Backend!WithoutHolder, Backend!Attempt
<1>2. /\ Backend!SpoiledAttempts[r].phase = attempts[r].phase
      /\ attempts[r].secret \in {"good", "bad"} => Backend!SpoiledAttempts[r].secret \in {"good", "bad"}
  BY DEF Backend!SpoiledAttempts, Backend!Spoiled, Backend!Attempt
<1>3. ASSUME NEW s \in Slots, NEW origin \in {"connect", "timer"}, Backend!Begin(s, origin)
      PROVE  attempts'[r] = attempts[r]
  BY <1>3, BeginBegins
<1>4. CASE Backend!Close
  BY <1>4 DEF Backend!Close, Backend!Attempt
<1>5. CASE Backend!TokenAges
  BY <1>5 DEF Backend!TokenAges
<1>6. ASSUME NEW rotates \in BOOLEAN, Backend!OtherTakesOver(rotates)
      PROVE  attempts'[r].secret \in {"good", "bad"}
  BY <1>1, <1>2, <1>6, SpoiledTyped DEF Backend!OtherTakesOver
<1>7. ASSUME NEW s \in Slots, Backend!Connect(s) \/ Backend!TimerFires(s)
      PROVE  attempts'[r] = attempts[r]
  BY <1>3, <1>7 DEF Backend!Connect, Backend!TimerFires
<1>8. ASSUME NEW s \in Slots, Backend!Fail(s)
      PROVE  attempts'[r] = attempts[r]
  BY <1>8 DEF Backend!Fail, Backend!Dropped
<1>9. ASSUME NEW s \in Slots,
             \/ Backend!ExchangeFails(s) \/ Backend!HelloRefused(s) \/ Backend!HandshakeFails(s)
      PROVE  attempts'[r] = attempts[r]
  BY <1>8, <1>9 DEF Backend!ExchangeFails, Backend!HelloRefused, Backend!HandshakeFails
<1>10. ASSUME NEW s \in Slots, Backend!UseCredential(s) \/ Backend!TokenArrives(s)
       PROVE  attempts'[r] = attempts[r]
  BY <1>10 DEF Backend!UseCredential, Backend!TokenArrives, Backend!OpenSocket, Backend!Attempt
<1>11. ASSUME NEW s \in Slots, Backend!GatewayExchanges(s)
       PROVE  attempts'[r].secret \in {"good", "bad"}
  BY <1>2, <1>11, SpoiledTyped DEF Backend!GatewayExchanges, Backend!Attempt
<1>12. ASSUME NEW s \in Slots, Backend!GatewayAccepts(s)
       PROVE  attempts'[r].secret \in {"good", "bad"}
  <2>1. CASE r = s
    BY <1>12, <2>1, HolderTyped DEF Backend!GatewayAccepts, Backend!Attempt, Backend!WithoutHolder
  <2>2. CASE r # s
    BY <1>1, <1>12, <2>2, HolderTyped DEF Backend!GatewayAccepts, Backend!Attempt
  <2> QED
    BY <2>1, <2>2
<1>13. ASSUME NEW s \in Slots, Backend!SocketOpens(s) \/ Backend!GatewayRefuses(s)
                              \/ Backend!PeerReady(s)
       PROVE  attempts'[r].secret \in {"good", "bad"}
  BY <1>13 DEF Backend!SocketOpens, Backend!GatewayRefuses, Backend!PeerReady, Backend!Attempt
<1>14. ASSUME NEW s \in Slots, Backend!CachedTokenRefused(s) \/ Backend!SocketCloses(s)
                              \/ Backend!GatewaySeesClose(s)
       PROVE  attempts'[r] = attempts[r]
  <2>1. CASE Backend!CachedTokenRefused(s)
    BY <2>1 DEF Backend!CachedTokenRefused
  <2>2. CASE Backend!SocketCloses(s) \/ Backend!GatewaySeesClose(s)
    <3>1. attempts' = [attempts EXCEPT ![s] = Backend!Free]
      BY <2>2 DEF Backend!SocketCloses, Backend!GatewaySeesClose
    <3> QED
      BY <3>1
  <2> QED
    BY <1>14, <2>1, <2>2
<1> QED
  BY <1>4, <1>5, <1>6, <1>7, <1>9, <1>10, <1>11, <1>12, <1>13, <1>14
     DEF Backend!Next, Backend!Progress

\* The steps that neither begin nor end an attempt, nor make one live.
QuietAt(s) ==
    \/ Backend!UseCredential(s) \/ Backend!GatewayExchanges(s) \/ Backend!TokenArrives(s)
    \/ Backend!SocketOpens(s) \/ Backend!GatewayAccepts(s) \/ Backend!GatewayRefuses(s)
    \/ Backend!CachedTokenRefused(s) \/ Backend!GatewaySeesClose(s)

Quiet ==
    \/ Backend!Close \/ Backend!TokenAges
    \/ \E rotates \in BOOLEAN : Backend!OtherTakesOver(rotates)
    \/ \E s \in Slots : QuietAt(s)

LEMMA QuietKeeps ==
  ASSUME BackendTyped, Quiet
  PROVE  /\ Trying' = Trying
         /\ \A r \in Slots : /\ attempts'[r].phase = "live" <=> attempts[r].phase = "live"
                             /\ Backend!Running(r) => attempts'[r].origin = attempts[r].origin
                             /\ attempts[r].phase = "free" => attempts'[r].phase = "free"
<1> SUFFICES ASSUME NEW r \in Slots
             PROVE  /\ Backend!Running(r)' <=> Backend!Running(r)
                    /\ attempts'[r].phase = "live" <=> attempts[r].phase = "live"
                    /\ Backend!Running(r) => attempts'[r].origin = attempts[r].origin
                    /\ attempts[r].phase = "free" => attempts'[r].phase = "free"
  BY DEF Trying
<1> USE DEF BackendTyped, Backend!Running, Backend!Free
<1>1. \A s \in Slots : attempts[s] \in Backend!Attempt
  OBVIOUS
<1>2. ASSUME NEW as \in [Slots -> Backend!Attempt], NEW keep,
             as[r].phase = attempts[r].phase, as[r].origin = attempts[r].origin
      PROVE  LET a == Backend!WithoutHolder(as, keep)[r] IN
             /\ a.phase = attempts[r].phase \/ (a.phase = "free" /\ attempts[r].phase = "over")
             /\ attempts[r].phase # "over" => a.origin = attempts[r].origin
  BY <1>2 DEF Backend!WithoutHolder, Backend!Attempt
<1>3. /\ Backend!SpoiledAttempts[r].phase = attempts[r].phase
      /\ Backend!SpoiledAttempts[r].origin = attempts[r].origin
  BY <1>1 DEF Backend!SpoiledAttempts, Backend!Attempt
<1>4. CASE Backend!Close \/ Backend!TokenAges
  BY <1>1, <1>4 DEF Backend!Close, Backend!TokenAges, Backend!Attempt
<1>5. ASSUME NEW rotates \in BOOLEAN, Backend!OtherTakesOver(rotates)
      PROVE  /\ Backend!Running(r)' <=> Backend!Running(r)
             /\ attempts'[r].phase = "live" <=> attempts[r].phase = "live"
             /\ Backend!Running(r) => attempts'[r].origin = attempts[r].origin
             /\ attempts[r].phase = "free" => attempts'[r].phase = "free"
  BY <1>2, <1>3, <1>5, SpoiledTyped DEF Backend!OtherTakesOver
<1>6. ASSUME NEW s \in Slots, QuietAt(s)
      PROVE  /\ Backend!Running(r)' <=> Backend!Running(r)
             /\ attempts'[r].phase = "live" <=> attempts[r].phase = "live"
             /\ Backend!Running(r) => attempts'[r].origin = attempts[r].origin
             /\ attempts[r].phase = "free" => attempts'[r].phase = "free"
  <2>1. CASE Backend!UseCredential(s) \/ Backend!TokenArrives(s) \/ Backend!SocketOpens(s)
               \/ Backend!GatewayRefuses(s)
    BY <1>1, <2>1 DEF Backend!UseCredential, Backend!TokenArrives, Backend!OpenSocket,
       Backend!SocketOpens, Backend!GatewayRefuses, Backend!Attempt
  <2>2. CASE Backend!GatewayExchanges(s)
    BY <1>1, <1>3, <2>2, SpoiledTyped DEF Backend!GatewayExchanges, Backend!Attempt
  <2>3. CASE Backend!GatewayAccepts(s)
    <3>1. Backend!WithoutHolder(attempts, s)[s] = attempts[s]
      BY DEF Backend!WithoutHolder
    <3>2. Backend!WithoutHolder(attempts, s) \in [Slots -> Backend!Attempt]
      BY HolderTyped
    <3> QED
      BY <1>1, <1>2, <2>3, <3>1, <3>2 DEF Backend!GatewayAccepts, Backend!Attempt
  <2>4. CASE Backend!CachedTokenRefused(s) \/ Backend!GatewaySeesClose(s)
    <3>1. CASE r # s
      BY <1>1, <2>4, <3>1 DEF Backend!CachedTokenRefused, Backend!GatewaySeesClose
    <3>2. CASE r = s /\ Backend!CachedTokenRefused(s)
      BY <3>2 DEF Backend!CachedTokenRefused
    <3>3. CASE r = s /\ Backend!GatewaySeesClose(s)
      BY <3>3 DEF Backend!GatewaySeesClose
    <3> QED
      BY <2>4, <3>1, <3>2, <3>3
  <2> QED
    BY <1>6, <2>1, <2>2, <2>3, <2>4 DEF QuietAt
<1> QED
  BY <1>4, <1>5, <1>6 DEF Quiet

\* The steps that end one.
LEMMA FailEnds ==
  ASSUME BackendTyped, NEW s \in Slots, Backend!Running(s), Backend!Fail(s)
  PROVE  /\ s \in Trying /\ Trying' = Trying \ {s}
         /\ attempts'[s].phase \in {"free", "over"} /\ attempts'[s].link = "none"
         /\ \A r \in Slots \ {s} : attempts'[r] = attempts[r]
BY DEF BackendTyped, Backend!Fail, Backend!Dropped, Backend!Free, Trying, Backend!Running

LEMMA ReadyEnds ==
  ASSUME BackendTyped, NEW s \in Slots, Backend!PeerReady(s)
  PROVE  /\ s \in Trying /\ Trying' = Trying \ {s}
         /\ attempts'[s].phase = "live"
         /\ \A r \in Slots \ {s} : attempts'[r] = attempts[r]
BY DEF BackendTyped, Backend!PeerReady, Trying, Backend!Running, Backend!Attempt

\* A live socket that closes was no attempt under way.
LEMMA CloseEndsNone ==
  ASSUME BackendTyped, NEW s \in Slots, Backend!SocketCloses(s)
  PROVE  /\ s \notin Trying /\ Trying' = Trying
         /\ attempts[s].phase = "live" /\ attempts'[s] = Backend!Free
         /\ \A r \in Slots \ {s} : attempts'[r] = attempts[r]
BY DEF BackendTyped, Backend!SocketCloses, Trying, Backend!Running, Backend!Free

\* What a step of the gateway or of the network cannot touch.
LEMMA QuietCounts ==
  ASSUME BackendTyped, Quiet
  PROVE  /\ timers' = timers /\ calls' = calls /\ rejected' = rejected
         /\ \/ /\ UNCHANGED <<beats, beating, closed, state>>
               /\ \/ current' \in {current, NoSlot}
                  \/ Backend!Running(current') /\ current' \in Slots
            \/ /\ closing /\ closed' /\ beating' = FALSE /\ current' = NoSlot /\ state' = "closed"
               /\ beats' = IF beating THEN beats - 1 ELSE beats
<1> USE DEF BackendTyped
<1>1. CASE Backend!Close
  BY <1>1 DEF Backend!Close
<1>2. CASE Backend!TokenAges
  BY <1>2 DEF Backend!TokenAges
<1>3. ASSUME NEW rotates \in BOOLEAN, Backend!OtherTakesOver(rotates)
      PROVE  UNCHANGED <<timers, calls, beats, beating, closed, state, rejected, current>>
  BY <1>3 DEF Backend!OtherTakesOver
<1>4. ASSUME NEW s \in Slots, QuietAt(s)
      PROVE  /\ UNCHANGED <<timers, calls, beats, beating, closed, state, rejected>>
             /\ current' \in {current, NoSlot} \/ (current' = s /\ Backend!Running(s))
  <2>1. CASE Backend!UseCredential(s) \/ Backend!TokenArrives(s)
    BY <2>1 DEF Backend!UseCredential, Backend!TokenArrives, Backend!OpenSocket, Backend!Running
  <2>2. CASE Backend!GatewayExchanges(s) \/ Backend!SocketOpens(s) \/ Backend!GatewayAccepts(s)
               \/ Backend!GatewayRefuses(s) \/ Backend!GatewaySeesClose(s)
    BY <2>2 DEF Backend!GatewayExchanges, Backend!SocketOpens, Backend!GatewayAccepts,
       Backend!GatewayRefuses, Backend!GatewaySeesClose
  <2>3. CASE Backend!CachedTokenRefused(s)
    BY <2>3 DEF Backend!CachedTokenRefused
  <2> QED
    BY <1>4, <2>1, <2>2, <2>3 DEF QuietAt
<1> QED
  BY <1>1, <1>2, <1>3, <1>4 DEF Quiet

\* Every other step is connect(), a timer, the end of an attempt or of a connection.
LEMMA BackendSteps ==
  ASSUME Backend!Next
  PROVE  \/ Quiet
         \/ \E s \in Slots :
               \/ Backend!Connect(s) \/ Backend!TimerFires(s) \/ Backend!PeerReady(s)
               \/ Backend!SocketCloses(s)
               \/ Backend!Running(s) /\ Backend!Fail(s)
<1>1. ASSUME NEW s \in Slots,
             \/ Backend!ExchangeFails(s) \/ Backend!HelloRefused(s) \/ Backend!HandshakeFails(s)
      PROVE  Backend!Running(s) /\ Backend!Fail(s)
  BY <1>1 DEF Backend!ExchangeFails, Backend!HelloRefused, Backend!HandshakeFails, Backend!Running
<1> QED
  BY <1>1 DEF Backend!Next, Backend!Progress, Quiet, QuietAt

\* No step adds a thread but connect(), and none separates the heartbeat from
\* the connection it is of.
LEMMA BudgetKept ==
  ASSUME BackendTyped, BackendBudget, Backend!Next
  PROVE  BackendBudget'
<1> DEFINE n == Cardinality(Trying)
<1> USE DEF BackendTyped, BackendBudget, BackendThreads, CurrentLives
<1>0. n \in Nat /\ Trying \in SUBSET Slots
  <2>1. Trying \in SUBSET Slots
    BY DEF Trying
  <2>2. IsFiniteSet(Trying)
    BY <2>1, BackendConstants, FS_Subset
  <2> QED
    BY <2>1, <2>2, FS_CardinalityType
<1>1. CASE Quiet
  <2>1. n' = n
    BY <1>1, QuietKeeps
  <2>2. CASE UNCHANGED <<beats, beating, closed, state>>
    <3>1. timers' = timers /\ calls' = calls
      BY <1>1, QuietCounts
    <3>2. BackendThreads' <= calls'
      BY <2>1, <2>2, <3>1
    <3>3. ASSUME current' # NoSlot, attempts'[current'].phase = "live"
          PROVE  current' = current /\ CurrentLives
      <4>1. current' \in Slots => attempts[current'].phase = "live"
        BY <1>1, <3>3, QuietKeeps
      <4>2. current' \in {current, NoSlot} \/ (current' \in Slots /\ Backend!Running(current'))
        BY <1>1, QuietCounts, <2>2, <3>3
      <4> QED
        BY <3>3, <4>1, <4>2 DEF Backend!Running
    <3> QED
      BY <2>2, <3>2, <3>3
  <2>3. CASE beating' = FALSE /\ current' = NoSlot /\ beats' = IF beating THEN beats - 1 ELSE beats
    <3>1. timers' = timers /\ calls' = calls
      BY <1>1, QuietCounts
    <3>2. beats' \in Nat /\ beats' <= beats
      BY <2>3
    <3>3. BackendThreads' <= calls'
      BY <1>0, <2>1, <3>1, <3>2
    <3> QED
      BY <2>3, <3>3
  <2> QED
    BY <1>1, <2>2, <2>3, QuietCounts
<1>2. ASSUME NEW s \in Slots, Backend!Connect(s)
      PROVE  BackendBudget'
  <2>1. Backend!Begin(s, "connect") /\ calls' = calls + 1
        /\ UNCHANGED <<current, beating, beats, timers>>
    BY <1>2 DEF Backend!Connect
  <2>2. n' = n + 1
    BY <1>0, <2>1, BeginBegins, CountOfSlots
  <2>3. CurrentLives' => CurrentLives
    BY <2>1, BeginBegins
  <2> QED
    BY <1>0, <2>1, <2>2, <2>3
<1>3. ASSUME NEW s \in Slots, Backend!TimerFires(s)
      PROVE  BackendBudget'
  <2>1. timers' = timers - 1 /\ UNCHANGED <<current, beating, beats, calls>>
    BY <1>3 DEF Backend!TimerFires
  <2>2. CASE closed
    <3>1. attempts' = attempts
      BY <1>3, <2>2 DEF Backend!TimerFires
    <3>2. n' = n
      BY <3>1 DEF Trying, Backend!Running
    <3> QED
      BY <1>0, <2>1, <3>1, <3>2
  <2>3. CASE ~closed
    <3>1. Backend!Begin(s, "timer")
      BY <1>3, <2>3 DEF Backend!TimerFires
    <3>2. n' = n + 1
      BY <1>0, <3>1, BeginBegins, CountOfSlots
    <3>3. CurrentLives' => CurrentLives
      BY <2>1, <3>1, BeginBegins
    <3> QED
      BY <1>0, <2>1, <3>2, <3>3
  <2> QED
    BY <2>2, <2>3
<1>4. ASSUME NEW s \in Slots, Backend!PeerReady(s)
      PROVE  BackendBudget'
  <2>1. beats' = beats + 1 /\ beating' = TRUE /\ UNCHANGED <<current, timers, calls>>
    BY <1>4 DEF Backend!PeerReady
  <2>2. n' = n - 1
    BY <1>0, <1>4, ReadyEnds, CountOfSlots
  <2> QED
    BY <1>0, <2>1, <2>2
<1>5. ASSUME NEW s \in Slots, Backend!SocketCloses(s)
      PROVE  BackendBudget'
  <2>1. \E replaced \in BOOLEAN : Backend!HandleClose(s, replaced)
    <3>1. Backend!WasReplaced(s) \in BOOLEAN
      BY <1>5 DEF Backend!WasReplaced, Backend!Attempt
    <3> QED
      BY <1>5, <3>1 DEF Backend!SocketCloses
  <2>2. n' = n /\ calls' = calls
    BY <1>5, CloseEndsNone DEF Backend!SocketCloses
  <2>3. CASE UNCHANGED <<state, failure, current, beating, beats, timers>> /\ current # s
    <3>1. CurrentLives' => CurrentLives
      BY <1>5, <2>3, CloseEndsNone
    <3> QED
      BY <1>0, <2>2, <2>3, <3>1
  <2>4. CASE /\ current = s /\ current' = NoSlot /\ beating' = FALSE
             /\ beats' = IF beating THEN beats - 1 ELSE beats
             /\ timers' \in {timers, timers + 1}
    <3>1. attempts[s].phase = "live"
      BY <1>5, CloseEndsNone
    <3>2. beats' = beats - 1 /\ beats > 0
      BY <2>4, <3>1, BackendConstants
    <3> QED
      BY <1>0, <2>2, <2>4, <3>2
  <2> QED
    BY <2>1, <2>3, <2>4, CloseHandled
<1>6. ASSUME NEW s \in Slots, Backend!Running(s), Backend!Fail(s)
      PROVE  BackendBudget'
  <2>1. /\ timers' \in {timers, timers + 1} /\ UNCHANGED <<beating, beats, calls>>
        /\ current' = IF current = s THEN NoSlot ELSE current
    BY <1>6 DEF Backend!Fail, Backend!Rescheduled
  <2>2. n' = n - 1
    BY <1>0, <1>6, FailEnds, CountOfSlots
  <2>3. CurrentLives' => CurrentLives
    BY <1>6, <2>1, FailEnds
  <2> QED
    BY <1>0, <2>1, <2>2, <2>3
<1> QED
  BY <1>1, <1>2, <1>3, <1>4, <1>5, <1>6, BackendSteps

LEMMA TriesKept ==
  ASSUME BackendTyped, BackendBudget, BackendTries, Backend!Next
  PROVE  BackendTries'
<1> USE DEF BackendTyped, BackendTries, Backend!ConnectingIsTrying
<1>0. /\ Trying \subseteq Slots /\ Trying' \subseteq Slots
      /\ (\E s \in Slots : Backend!Running(s)) <=> Trying # {}
      /\ (\E s \in Slots : Backend!Running(s)') <=> Trying' # {}
      /\ \A s \in Slots : Backend!Running(s) <=> s \in Trying
      /\ \A s \in Slots : Backend!Running(s)' <=> s \in Trying'
  BY DEF Trying
<1>1. CASE Quiet
  <2>1. Trying' = Trying /\ \A s \in Trying : attempts'[s].origin \in {"connect", "timer"}
    BY <1>0, <1>1, QuietKeeps
  <2>2. /\ timers' = timers /\ rejected' = rejected
        /\ UNCHANGED <<closed, state>> \/ state' = "closed"
    BY <1>1, QuietCounts
  <2> QED
    BY <1>0, <2>1, <2>2
<1>2. ASSUME NEW s \in Slots, NEW origin \in {"connect", "timer"}, Backend!Begin(s, origin)
      PROVE  Trying' # {} /\ \A r \in Trying' : attempts'[r].origin \in {"connect", "timer"}
  BY <1>0, <1>2, BeginBegins
<1>3. ASSUME NEW s \in Slots, Backend!Connect(s)
      PROVE  BackendTries'
  <2>1. Backend!Begin(s, "connect") /\ closed' = FALSE
    BY <1>3 DEF Backend!Connect
  <2> QED
    BY <1>0, <1>2, <2>1
<1>4. ASSUME NEW s \in Slots, Backend!TimerFires(s)
      PROVE  BackendTries'
  <2>1. CASE closed
    <3>1. UNCHANGED <<closed, state, attempts>>
      BY <1>4, <2>1 DEF Backend!TimerFires
    <3>2. state # "connecting"
      BY <2>1
    <3> QED
      BY <3>1, <3>2 DEF Backend!Running
  <2>2. CASE ~closed
    <3>1. Backend!Begin(s, "timer") /\ ~closed'
      BY <1>4, <2>2 DEF Backend!TimerFires
    <3> QED
      BY <1>0, <1>2, <3>1
  <2> QED
    BY <2>1, <2>2
<1>5. ASSUME NEW s \in Slots, Backend!PeerReady(s)
      PROVE  BackendTries'
  <2>1. state' = "connected"
    BY <1>5 DEF Backend!PeerReady
  <2> QED
    BY <1>0, <1>5, <2>1, ReadyEnds
<1>6. ASSUME NEW s \in Slots, Backend!SocketCloses(s)
      PROVE  BackendTries'
  <2>1. \E replaced \in BOOLEAN : Backend!HandleClose(s, replaced)
    <3>1. Backend!WasReplaced(s) \in BOOLEAN
      BY <1>6 DEF Backend!WasReplaced, Backend!Attempt
    <3> QED
      BY <1>6, <3>1 DEF Backend!SocketCloses
  <2>2. \A r \in Trying' : attempts'[r].origin \in {"connect", "timer"}
    BY <1>0, <1>6, CloseEndsNone
  <2>3. Trying' = Trying /\ closed' = closed /\ rejected' = rejected
    BY <1>6, CloseEndsNone DEF Backend!SocketCloses
  <2>4. \/ UNCHANGED <<state, timers>>
        \/ state' = "closed"
        \/ timers' = timers + 1 /\ ~closed
    BY <2>1, CloseHandled
  <2> QED
    BY <1>0, <2>2, <2>3, <2>4
<1>7. ASSUME NEW s \in Slots, Backend!Running(s), Backend!Fail(s)
      PROVE  BackendTries'
  <2>1. /\ UNCHANGED <<closed, state>>
        /\ timers' = (IF attempts[s].origin = "timer" THEN timers + 1 ELSE timers)
        /\ rejected' = (rejected \/ attempts[s].origin = "connect")
    BY <1>7 DEF Backend!Fail, Backend!Rescheduled
  <2>2. timers' > 0 \/ rejected'
    <3>1. attempts[s].origin \in {"connect", "timer"}
      BY <1>7
    <3>2. CASE attempts[s].origin = "connect"
      BY <2>1, <3>2
    <3>3. CASE attempts[s].origin = "timer"
      BY <2>1, <3>3
    <3> QED
      BY <3>1, <3>2, <3>3
  <2> QED
    BY <1>0, <1>7, <2>1, <2>2, FailEnds
<1> QED
  BY <1>1, <1>3, <1>4, <1>5, <1>6, <1>7, BackendSteps

\* What the steps that are quiet do to the sockets, if close() is not called.
LEMMA QuietLinks ==
  ASSUME BackendTyped, ~closing, Quiet,
         \A r, s \in Slots : Backend!Running(s) /\ attempts[r].phase \in {"open", "hello", "live"}
                                => r = s,
         NEW r \in Slots,
         IF attempts[r].phase \in {"open", "hello", "live"}
         THEN current = r ELSE attempts[r].link = "none"
  PROVE  IF attempts'[r].phase \in {"open", "hello", "live"}
         THEN current' = r ELSE attempts'[r].link = "none"
<1> USE DEF BackendTyped, Backend!Free
<1> DEFINE At(as, c) == IF as[r].phase \in {"open", "hello", "live"}
                        THEN c = r ELSE as[r].link = "none"
<1>1. ASSUME NEW as \in [Slots -> Backend!Attempt], NEW keep, At(as, current)
      PROVE  At(Backend!WithoutHolder(as, keep), current)
  BY <1>1 DEF Backend!WithoutHolder, Backend!Attempt
<1>2. At(Backend!SpoiledAttempts, current)
  BY DEF Backend!SpoiledAttempts, Backend!Attempt
<1>3. CASE Backend!TokenAges
  BY <1>3 DEF Backend!TokenAges
<1>4. ASSUME NEW rotates \in BOOLEAN, Backend!OtherTakesOver(rotates)
      PROVE  At(attempts', current')
  BY <1>1, <1>2, <1>4, SpoiledTyped DEF Backend!OtherTakesOver
<1>5. ASSUME NEW s \in Slots, QuietAt(s)
      PROVE  At(attempts', current')
  <2>1. CASE Backend!UseCredential(s) \/ Backend!TokenArrives(s)
    <3>1. Backend!Running(s) /\ Backend!OpenSocket(s)
      BY <2>1 DEF Backend!UseCredential, Backend!TokenArrives, Backend!Running
    <3> QED
      BY <3>1 DEF Backend!OpenSocket, Backend!Attempt
  <2>2. CASE Backend!SocketOpens(s) \/ Backend!GatewayRefuses(s)
    BY <2>2 DEF Backend!SocketOpens, Backend!GatewayRefuses, Backend!Attempt
  <2>3. CASE Backend!GatewayExchanges(s)
    <3>1. attempts' = [Backend!SpoiledAttempts EXCEPT
                         ![s] = [@ EXCEPT !.phase = "granted", !.secret = "good"]]
          /\ attempts[s].phase = "exchange" /\ current' = current
      BY <2>3, SpoiledTyped DEF Backend!GatewayExchanges
    <3>2. CASE r # s
      BY <1>2, <3>1, <3>2, SpoiledTyped
    <3>3. CASE r = s
      <4>1. attempts'[s] = [Backend!SpoiledAttempts[s] EXCEPT !.phase = "granted", !.secret = "good"]
        BY <3>1, SpoiledTyped
      <4>2. attempts'[s].phase = "granted" /\ attempts'[s].link = Backend!SpoiledAttempts[s].link
        BY <4>1, SpoiledTyped DEF Backend!Attempt
      <4>3. Backend!SpoiledAttempts[s].link = "none"
        BY <3>1, <3>3 DEF Backend!SpoiledAttempts, Backend!Attempt
      <4> QED
        BY <3>3, <4>2, <4>3
    <3> QED
      BY <3>2, <3>3
  <2>4. CASE Backend!GatewayAccepts(s)
    <3>1. Backend!WithoutHolder(attempts, s)[s] = attempts[s]
      BY DEF Backend!WithoutHolder
    <3>2. Backend!WithoutHolder(attempts, s) \in [Slots -> Backend!Attempt]
      BY HolderTyped
    <3> QED
      BY <1>1, <2>4, <3>1, <3>2 DEF Backend!GatewayAccepts, Backend!Attempt
  <2>5. CASE Backend!CachedTokenRefused(s)
    <3>1. CASE r = s
      BY <2>5, <3>1 DEF Backend!CachedTokenRefused
    <3>2. CASE r # s
      BY <2>5, <3>2 DEF Backend!CachedTokenRefused
    <3> QED
      BY <3>1, <3>2
  <2>6. CASE Backend!GatewaySeesClose(s)
    BY <2>6 DEF Backend!GatewaySeesClose
  <2> QED
    BY <1>5, <2>1, <2>2, <2>3, <2>4, <2>5, <2>6 DEF QuietAt
<1> QED
  BY <1>3, <1>4, <1>5 DEF Quiet, Backend!Close

LEMMA ClosingFixed ==
  ASSUME Backend!Next
  PROVE  closing' = closing
<1>1. Quiet => closing' = closing
  BY DEF Quiet, QuietAt, Backend!Close, Backend!TokenAges, Backend!OtherTakesOver,
     Backend!UseCredential, Backend!GatewayExchanges, Backend!TokenArrives, Backend!SocketOpens,
     Backend!GatewayAccepts, Backend!GatewayRefuses, Backend!CachedTokenRefused,
     Backend!GatewaySeesClose
<1>2. ASSUME NEW s \in Slots
      PROVE  \/ Backend!Connect(s) \/ Backend!TimerFires(s) \/ Backend!PeerReady(s)
             \/ Backend!SocketCloses(s) \/ Backend!Fail(s)
             => closing' = closing
  BY DEF Backend!Connect, Backend!TimerFires, Backend!PeerReady, Backend!SocketCloses, Backend!Fail
<1> QED
  BY <1>1, <1>2, BackendSteps

\* One thread hands on to one thread.
LEMMA LineageKept ==
  ASSUME BackendTyped, BackendBudget, BackendLineage, Backend!Next
  PROVE  BackendLineage'
<1> DEFINE n == Cardinality(Trying)
           At(r) == IF attempts[r].phase \in {"open", "hello", "live"}
                    THEN current = r ELSE attempts[r].link = "none"
<1> SUFFICES ASSUME ~closing
             PROVE  /\ ~closed'
                    /\ BackendThreads' <= 1
                    /\ beating' <=> CurrentLives'
                    /\ beating' \/ beats' = 0
                    /\ state' \in {"idle", "closed"} \/ rejected' => BackendThreads' = 0
                    /\ \A r \in Slots : At(r)'
  BY ClosingFixed DEF BackendLineage
<1>0. /\ n \in Nat /\ Trying \in SUBSET Slots /\ (n = 0 <=> Trying = {})
      /\ \A s \in Slots : s \in Trying => n >= 1
  <2>1. Trying \in SUBSET Slots
    BY DEF Trying
  <2>2. IsFiniteSet(Trying)
    BY <2>1, BackendConstants, FS_Subset
  <2> QED
    BY <2>1, <2>2, FS_CardinalityType, FS_EmptySet
<1>1. /\ ~closed /\ n + timers + beats <= 1 /\ (beating <=> CurrentLives)
      /\ state \in {"idle", "closed"} \/ rejected => n + timers + beats = 0
      /\ \A r \in Slots : At(r)
      /\ beating => beats > 0
      /\ beating \/ beats = 0
      /\ timers \in Nat /\ beats \in Nat
  BY DEF BackendLineage, BackendThreads, BackendBudget, BackendTyped
<1>2. \A r, s \in Slots : Backend!Running(s) /\ attempts[r].phase \in {"open", "hello", "live"}
                             => r = s
  <2> SUFFICES ASSUME NEW r \in Slots, NEW s \in Slots, Backend!Running(s),
                      attempts[r].phase \in {"open", "hello", "live"}
               PROVE  r = s
    OBVIOUS
  <2>1. s \in Trying /\ n >= 1
    BY <1>0 DEF Trying
  <2>2. CASE attempts[r].phase = "live"
    <3>1. current = r /\ CurrentLives
      BY <1>1, <2>2, BackendConstants DEF CurrentLives
    <3> QED
      BY <1>0, <1>1, <2>1, <3>1
  <2>3. CASE attempts[r].phase # "live"
    <3>1. r \in Trying
      BY <2>3 DEF Trying, Backend!Running
    <3>2. n <= 1
      BY <1>0, <1>1
    <3> QED
      BY <1>0, <2>1, <3>1, <3>2, OneOfSlots
  <2> QED
    BY <2>2, <2>3
<1>3. CASE Quiet
  <2>1. Trying' = Trying /\ n' = n
    BY <1>3, QuietKeeps
  <2>2. UNCHANGED <<timers, beats, beating, closed, state, rejected>>
    BY <1>3, QuietCounts
  <2>3. \A r \in Slots : At(r)'
    BY <1>1, <1>2, <1>3, QuietLinks
  <2>4. CurrentLives => CurrentLives'
    <3> SUFFICES ASSUME CurrentLives PROVE CurrentLives'
      OBVIOUS
    <3>1. current \in Slots /\ attempts[current].phase = "live"
      BY DEF CurrentLives, BackendTyped
    <3>2. attempts'[current].phase = "live"
      BY <1>3, <3>1, QuietKeeps
    <3>3. current' = current
      BY <2>3, <3>1, <3>2
    <3> QED
      BY <3>1, <3>2, <3>3, BackendConstants DEF CurrentLives
  <2>5. CurrentLives' => CurrentLives
    <3> SUFFICES ASSUME CurrentLives' PROVE CurrentLives
      OBVIOUS
    <3>1. current' \in Slots
      BY <1>3, QuietCounts DEF BackendTyped, CurrentLives
    <3>2. attempts[current'].phase = "live"
      BY <1>3, <3>1, QuietKeeps DEF CurrentLives
    <3>3. current = current'
      BY <1>1, <3>1, <3>2
    <3> QED
      BY <3>1, <3>2, <3>3, BackendConstants DEF CurrentLives
  <2> QED
    BY <1>1, <2>1, <2>2, <2>3, <2>4, <2>5 DEF BackendThreads
<1>4. ASSUME NEW s \in Slots, NEW origin \in {"connect", "timer"}, Backend!Begin(s, origin),
             current' = current, beating' = beating
      PROVE  /\ n' = n + 1 /\ state' = "connecting"
             /\ beating' <=> CurrentLives'
             /\ \A r \in Slots : At(r)'
  <2>1. n' = n + 1
    BY <1>0, <1>4, BeginBegins, CountOfSlots
  <2>2. \A r \in Slots : At(r)'
    <3> TAKE r \in Slots
    <3>1. CASE r = s
      BY <1>4, <3>1, BeginBegins
    <3>2. CASE r # s
      BY <1>1, <1>4, <3>2, BeginBegins
    <3> QED
      BY <3>1, <3>2
  <2>3. CurrentLives' <=> CurrentLives
    BY <1>4, BeginBegins DEF CurrentLives, BackendTyped
  <2>4. state' = "connecting"
    BY <1>4 DEF Backend!Begin
  <2> QED
    BY <1>1, <1>4, <2>1, <2>2, <2>3, <2>4
<1>5. ASSUME NEW s \in Slots, Backend!Connect(s)
      PROVE  BackendLineage'
  <2>1. /\ state \in {"idle", "closed"} \/ rejected
        /\ Backend!Begin(s, "connect") /\ closed' = FALSE /\ rejected' = FALSE
        /\ UNCHANGED <<current, beating, beats, timers>>
    BY <1>5 DEF Backend!Connect
  <2>2. n' = n + 1 /\ state' = "connecting" /\ (beating' <=> CurrentLives')
        /\ \A r \in Slots : At(r)'
    BY <1>4, <2>1
  <2>3. n' + timers' + beats' <= 1
    BY <1>0, <1>1, <2>1, <2>2
  <2> QED
    BY <2>1, <2>2, <2>3 DEF BackendLineage, BackendThreads
<1>6. ASSUME NEW s \in Slots, Backend!TimerFires(s)
      PROVE  BackendLineage'
  <2>1. /\ timers > 0 /\ timers' = timers - 1 /\ Backend!Begin(s, "timer")
        /\ UNCHANGED <<current, beating, beats, closed, rejected>>
    BY <1>1, <1>6 DEF Backend!TimerFires
  <2>2. n' = n + 1 /\ state' = "connecting" /\ (beating' <=> CurrentLives')
        /\ \A r \in Slots : At(r)'
    BY <1>4, <2>1
  <2>3. n' + timers' + beats' <= 1 /\ ~rejected
    BY <1>0, <1>1, <2>1, <2>2
  <2> QED
    BY <1>1, <2>1, <2>2, <2>3 DEF BackendLineage, BackendThreads
<1>7. ASSUME NEW s \in Slots, Backend!PeerReady(s)
      PROVE  BackendLineage'
  <2>1. /\ beats' = beats + 1 /\ beating' = TRUE /\ state' = "connected"
        /\ UNCHANGED <<closed, current, timers, rejected>>
    BY <1>7 DEF Backend!PeerReady
  <2>2. n' = n - 1 /\ n >= 1
    BY <1>0, <1>7, ReadyEnds, CountOfSlots
  <2>3. current = s /\ attempts'[s].phase = "live"
    BY <1>1, <1>7, ReadyEnds DEF Backend!PeerReady
  <2>4. CurrentLives'
    BY <2>1, <2>3, BackendConstants DEF CurrentLives
  <2>5. \A r \in Slots : At(r)'
    <3> TAKE r \in Slots
    <3>1. CASE r = s
      BY <2>1, <2>3, <3>1
    <3>2. CASE r # s
      BY <1>1, <1>7, <2>1, <3>2, ReadyEnds
    <3> QED
      BY <3>1, <3>2
  <2>6. n' + timers' + beats' <= 1 /\ ~rejected
    BY <1>0, <1>1, <2>1, <2>2
  <2> QED
    BY <1>1, <2>1, <2>4, <2>5, <2>6 DEF BackendLineage, BackendThreads
<1>8. ASSUME NEW s \in Slots, Backend!SocketCloses(s)
      PROVE  BackendLineage'
  <2>1. \E replaced \in BOOLEAN : Backend!HandleClose(s, replaced)
    <3>1. Backend!WasReplaced(s) \in BOOLEAN
      BY <1>8 DEF Backend!WasReplaced, Backend!Attempt, BackendTyped
    <3> QED
      BY <1>8, <3>1 DEF Backend!SocketCloses
  <2>2. /\ n' = n /\ attempts[s].phase = "live" /\ attempts'[s] = Backend!Free
        /\ UNCHANGED <<closed, rejected>>
    BY <1>8, CloseEndsNone DEF Backend!SocketCloses
  <2>3. current = s /\ CurrentLives
    BY <1>1, <2>2, BackendConstants DEF CurrentLives
  <2>4. n = 0 /\ timers = 0 /\ beats = 1
    BY <1>0, <1>1, <2>3
  <2>5. /\ current' = NoSlot /\ beating' = FALSE /\ beats' = 0
        /\ \/ timers' = 0 /\ state' = "closed"
           \/ timers' = 1 /\ state' = "connecting"
    <3>1. PICK replaced \in BOOLEAN : Backend!HandleClose(s, replaced)
      BY <2>1
    <3>2. /\ current' = NoSlot /\ beating' = FALSE
          /\ beats' = (IF beating THEN beats - 1 ELSE beats)
          /\ \/ timers' = timers /\ state' = "closed"
             \/ timers' = timers + 1 /\ state' = "connecting"
      BY <2>3, <3>1, CloseHandled
    <3>3. beating
      BY <1>1, <2>3
    <3> QED
      BY <2>4, <3>2, <3>3
  <2>6. \A r \in Slots : At(r)'
    <3> TAKE r \in Slots
    <3>1. CASE r = s
      BY <2>2, <3>1 DEF Backend!Free
    <3>2. CASE r # s
      BY <1>1, <1>8, <2>3, <3>2, CloseEndsNone
    <3> QED
      BY <3>1, <3>2
  <2>7. n' + timers' + beats' <= 1 /\ ~rejected /\ (state' = "closed" => n' + timers' + beats' = 0)
    BY <1>1, <2>2, <2>4, <2>5
  <2>8. ~CurrentLives'
    BY <2>5 DEF CurrentLives
  <2>9. state' \in {"closed", "connecting"}
    BY <2>5
  <2> QED
    BY <1>1, <2>2, <2>5, <2>6, <2>7, <2>8, <2>9 DEF BackendLineage, BackendThreads
<1>9. ASSUME NEW s \in Slots, Backend!Running(s), Backend!Fail(s)
      PROVE  BackendLineage'
  <2>1. /\ timers' = (IF attempts[s].origin = "timer" THEN timers + 1 ELSE timers)
        /\ rejected' = (rejected \/ attempts[s].origin = "connect")
        /\ current' = (IF current = s THEN NoSlot ELSE current)
        /\ UNCHANGED <<closed, state, beating, beats>>
    BY <1>9 DEF Backend!Fail, Backend!Rescheduled
  <2>2. n' = n - 1 /\ n >= 1
    BY <1>0, <1>9, FailEnds, CountOfSlots
  <2>3. n = 1 /\ timers = 0 /\ beats = 0 /\ ~beating /\ ~CurrentLives /\ ~rejected
        /\ state \notin {"idle", "closed"}
    BY <1>0, <1>1, <2>2
  <2>4. \A r \in Slots : At(r)'
    <3> TAKE r \in Slots
    <3>1. CASE r = s
      BY <1>9, <3>1, FailEnds
    <3>2. CASE r # s
      BY <1>1, <1>9, <2>1, <3>2, FailEnds
    <3> QED
      BY <3>1, <3>2
  <2>5. ~CurrentLives'
    BY <1>9, <2>1, <2>3, FailEnds DEF CurrentLives, BackendTyped
  <2>6. n' + timers' + beats' <= 1
    BY <2>1, <2>2, <2>3
  <2>7. rejected' => n' + timers' + beats' = 0
    <3>1. rejected' => attempts[s].origin = "connect"
      BY <2>1, <2>3
    <3>2. attempts[s].origin = "connect" => timers' = 0
      BY <2>1, <2>3
    <3>3. timers' = 0 => n' + timers' + beats' = 0
      BY <2>1, <2>2, <2>3
    <3> QED
      BY <3>1, <3>2, <3>3
  <2> QED
    BY <1>1, <2>1, <2>3, <2>4, <2>5, <2>6, <2>7 DEF BackendLineage, BackendThreads
<1> QED
  BY <1>3, <1>5, <1>6, <1>7, <1>8, <1>9, BackendSteps, ClosingFixed DEF BackendLineage

LEMMA BackendInductive ==
  ASSUME BackendIInv, Backend!Next
  PROVE  BackendIInv'
BY BackendTypes, GrantedKept, BudgetKept, TriesKept, LineageKept DEF BackendIInv

LEMMA BackendKept == BackendIInv /\ UNCHANGED backendVars => BackendIInv'
<1> SUFFICES ASSUME BackendIInv, UNCHANGED backendVars PROVE BackendIInv'
  OBVIOUS
<1> USE DEF backendVars, BackendIInv
<1>1. BackendTyped' /\ GrantedSecrets'
  BY DEF BackendTyped, GrantedSecrets
<1>2. Trying' = Trying /\ (CurrentLives' <=> CurrentLives)
  BY DEF Trying, Backend!Running, CurrentLives
<1>3. BackendThreads' = BackendThreads
  BY <1>2 DEF BackendThreads
<1>4. BackendBudget' /\ BackendTries' /\ BackendLineage'
  BY <1>2, <1>3 DEF BackendBudget, BackendTries, BackendLineage, Backend!ConnectingIsTrying,
     Backend!Running
<1> QED
  BY <1>1, <1>4

LEMMA BackendIInvIs ==
  ASSUME BackendIInv
  PROVE  Backend!BackendInv
<1> DEFINE n == Cardinality(Trying)
           Own == {s \in Slots : attempts[s].phase = "live" /\ current = s}
<1>0. ASSUME NEW P PROVE Backend!Cardinality(P) = Cardinality(P)
  BY DEF Backend!Cardinality, Cardinality
<1>1. n \in Nat
  <2>1. Trying \in SUBSET Slots
    BY DEF Trying
  <2> QED
    BY <2>1, BackendConstants, FS_Subset, FS_CardinalityType
<1>2. Backend!BackendTypeOK
  <2>1. timers \in 0..MaxConnects /\ beats \in 0..MaxConnects
    BY <1>1, BackendConstants DEF BackendIInv, BackendTyped, BackendBudget, BackendThreads
  <2> QED
    BY <2>1 DEF BackendIInv, BackendTyped, Backend!BackendTypeOK
<1>3. Backend!OneLineage
  <2> SUFFICES ASSUME ~closing
               PROVE  /\ n + timers + Cardinality(Own) <= 1
                      /\ beats = (IF beating THEN 1 ELSE 0)
    BY <1>0 DEF Backend!OneLineage, Trying
  <2>1. /\ n + timers + beats <= 1 /\ (beating <=> CurrentLives) /\ (beating => beats > 0)
        /\ timers \in Nat /\ beats \in Nat
        /\ ~beating => beats = 0
    BY DEF BackendIInv, BackendTyped, BackendBudget, BackendLineage, BackendThreads
  <2>2. CASE CurrentLives
    <3>1. Own = {current}
      BY <2>2 DEF CurrentLives, BackendIInv, BackendTyped
    <3>2. Cardinality(Own) = 1
      BY <3>1, FS_Singleton
    <3> QED
      BY <1>1, <2>1, <2>2, <3>2
  <2>3. CASE ~CurrentLives
    <3>1. Own = {}
      BY <2>3, BackendConstants DEF CurrentLives
    <3>2. Cardinality(Own) = 0
      BY <3>1, FS_EmptySet
    <3> QED
      BY <1>1, <2>1, <2>3, <3>2
  <2> QED
    BY <2>2, <2>3
<1>4. Backend!NoHalfOpenSocket
  BY DEF Backend!NoHalfOpenSocket, BackendIInv, BackendLineage
<1>5. Backend!ConnectingIsTrying
  BY DEF BackendIInv, BackendTries
<1> QED
  BY <1>2, <1>3, <1>4, <1>5 DEF Backend!BackendInv

\* Where connect() may be called nothing is under way that could do the same.
LEMMA ReplacedStays ==
  ASSUME BackendIInv, Backend!Next, ~closing, state = "closed", state' # "closed"
  PROVE  calls' # calls
<1>1. Trying = {} /\ timers = 0
  <2>1. Trying \in SUBSET Slots
    BY DEF Trying
  <2>2. Cardinality(Trying) \in Nat /\ (Cardinality(Trying) = 0 <=> Trying = {})
    BY <2>1, BackendConstants, FS_Subset, FS_CardinalityType, FS_EmptySet
  <2>3. timers \in Nat /\ beats \in Nat /\ Cardinality(Trying) + timers + beats = 0
    BY DEF BackendIInv, BackendTyped, BackendLineage, BackendThreads
  <2> QED
    BY <2>2, <2>3
<1>2. ~CurrentLives
  <2>1. BackendThreads = 0 /\ beats \in Nat /\ timers \in Nat /\ (CurrentLives => beats > 0)
    BY DEF BackendIInv, BackendTyped, BackendLineage, BackendBudget
  <2>2. Cardinality(Trying) = 0
    BY <1>1, FS_EmptySet
  <2> QED
    BY <2>1, <2>2 DEF BackendThreads
<1>3. ~Quiet
  BY QuietCounts DEF BackendIInv
<1>4. ASSUME NEW s \in Slots PROVE ~Backend!TimerFires(s) /\ ~Backend!Running(s) /\ ~Backend!PeerReady(s)
  BY <1>1, ReadyEnds DEF Backend!TimerFires, Trying, BackendIInv
<1>5. ASSUME NEW s \in Slots, Backend!SocketCloses(s) PROVE FALSE
  <2>1. \E replaced \in BOOLEAN : Backend!HandleClose(s, replaced)
    <3>1. Backend!WasReplaced(s) \in BOOLEAN
      BY <1>5 DEF Backend!WasReplaced, Backend!Attempt, BackendIInv, BackendTyped
    <3> QED
      BY <1>5, <3>1 DEF Backend!SocketCloses
  <2>2. attempts[s].phase = "live"
    BY <1>5, CloseEndsNone DEF BackendIInv
  <2>3. current # s
    BY <1>2, <2>2, BackendConstants DEF CurrentLives
  <2> QED
    BY <2>1, <2>3, CloseHandled DEF BackendIInv
<1>6. \E s \in Slots : Backend!Connect(s)
  BY <1>3, <1>4, <1>5, BackendSteps
<1>7. calls \in Nat /\ calls' = calls + 1
  BY <1>6, BackendConstants DEF Backend!Connect, BackendIInv, BackendTyped
<1> QED
  BY <1>7

LEMMA ClosedBeginsNone ==
  ASSUME BackendIInv, Backend!Next, closed, closed', NEW r \in Slots, attempts[r].phase = "free"
  PROVE  attempts'[r].phase = "free"
<1> USE DEF BackendIInv, BackendTyped
<1>1. CASE Quiet
  BY <1>1, QuietKeeps
<1>2. ASSUME NEW s \in Slots, Backend!Connect(s) PROVE FALSE
  BY <1>2 DEF Backend!Connect
<1>3. ASSUME NEW s \in Slots, Backend!TimerFires(s) PROVE attempts' = attempts
  BY <1>3 DEF Backend!TimerFires
<1>4. ASSUME NEW s \in Slots, Backend!PeerReady(s) PROVE attempts'[r] = attempts[r]
  BY <1>4, ReadyEnds DEF Backend!PeerReady
<1>5. ASSUME NEW s \in Slots, Backend!SocketCloses(s) PROVE attempts'[r] = attempts[r]
  BY <1>5, CloseEndsNone
<1>6. ASSUME NEW s \in Slots, Backend!Running(s), Backend!Fail(s) PROVE attempts'[r] = attempts[r]
  BY <1>6, FailEnds DEF Backend!Running
<1> QED
  BY <1>1, <1>2, <1>3, <1>4, <1>5, <1>6, BackendSteps

\* What Backend!StaysDown says of a step.
BackendDown ==
    /\ ~closing /\ state = "closed" /\ failure = "replaced" /\ state' # "closed" => calls' # calls
    /\ closed /\ closed' =>
         \A s \in Slots : attempts[s].phase = "free" => attempts'[s].phase = "free"

LEMMA BackendStepsDown == ASSUME BackendIInv, Backend!Next PROVE BackendDown
BY ReplacedStays, ClosedBeginsNone DEF BackendDown

-----------------------------------------------------------------------------
(***************************************************************************)
(* The Python backend SDK.  A task is that of an awaited connect(), the    *)
(* starter or the supervisor, and whoever would begin another looks at     *)
(* these three; close() ends them before its first await.                  *)
(***************************************************************************)

\* A task that runs is known by its field, and a socket belongs to a task.
TasksKnown ==
    /\ \A i \in Python!Runs :
          /\ ~Python!Alive(i) => runs[i].link = "none"
          /\ runs[i].task = "start" => starter = i /\ used = "start"
          /\ runs[i].task = "supervise" => supervisor = i
    /\ \A i, j \in Python!Runs : Python!Alive(i) /\ Python!Alive(j) => i = j

\* No task is left where close() has begun or the state says that all is over.
TasksEnded ==
    /\ pyClosing => pyClosed
    /\ pyClosed \/ pyState = "closed" => \A i \in Python!Runs : ~Python!Alive(i)

PythonIInv == Python!PythonTypeOK /\ TasksKnown /\ TasksEnded

LEMMA PythonConstants == MaxRuns \in Nat /\ MaxFaults \in Nat
BY SessionsConstants DEF SessionsConstants, Python!ConstantsOK

LEMMA PythonInitCorrect == Python!Init => PythonIInv
<1> SUFFICES ASSUME Python!Init PROVE PythonIInv
  OBVIOUS
<1>1. /\ ~pyClosed /\ ~event /\ ~pyClosing /\ pyState = "idle" /\ pyFailure = "none" /\ used = "none"
      /\ ws = 0 /\ reader = 0 /\ supervisor = 0 /\ starter = 0 /\ pyFaults = 0
      /\ runs = [i \in Python!Runs |-> Python!Unused]
      /\ pyClosed \in BOOLEAN /\ event \in BOOLEAN /\ pyClosing \in BOOLEAN
  BY DEF Python!Init
<1>2. 0 \in 0..MaxRuns /\ 0 \in 0..MaxFaults
  BY PythonConstants
<1>3. Python!Unused \in Python!Run
  BY <1>2 DEF Python!Unused, Python!Run
<1>4. Python!PythonTypeOK
  BY <1>1, <1>2, <1>3 DEF Python!PythonTypeOK, Python!Unused
<1>5. \A i \in Python!Runs : ~Python!Alive(i) /\ runs[i].link = "none" /\ runs[i].task = "none"
  BY <1>1 DEF Python!Alive, Python!Unused
<1> QED
  BY <1>1, <1>4, <1>5 DEF PythonIInv, TasksKnown, TasksEnded

\* The step of a run: what it becomes is a run, and others stay as they are.
LEMMA RunChanges ==
  ASSUME Python!PythonTypeOK, NEW i \in Python!Runs, NEW r \in Python!Run,
         runs' = [runs EXCEPT ![i] = r], r.step = "sleep" => r.link = "none"
  PROVE  /\ runs' \in [Python!Runs -> Python!Run]
         /\ \A k \in Python!Runs : runs'[k].step = "sleep" => runs'[k].link = "none"
BY DEF Python!PythonTypeOK

LEMMA OverTyped ==
  ASSUME Python!PythonTypeOK, NEW i \in Python!Runs
  PROVE  Python!Over(i) \in Python!Run
BY DEF Python!PythonTypeOK, Python!Over, Python!Run

\* What the tasks are after a step that ends or keeps the one that takes it.
LEMMA TasksGoOn ==
  ASSUME TasksKnown, NEW i \in Python!Runs,
         \A k \in Python!Runs \ {i} : runs'[k] = runs[k],
         \/ runs'[i].task = runs[i].task /\ Python!Alive(i)
         \/ runs'[i].task = "over" /\ runs'[i].link = "none",
         starter' = starter, supervisor' = supervisor, used' = used
  PROVE  TasksKnown' /\ \A k \in Python!Runs : Python!Alive(k)' => Python!Alive(k)
BY DEF TasksKnown, Python!Alive

\* The steps of a run under way.
RunSteps(i) ==
    \/ Python!Progress(i) \/ Python!DialFails(i) \/ Python!TokenRefused(i) \/ Python!Lost(i)

LEMMA RunsAlive ==
  ASSUME PythonIInv, NEW i \in Python!Runs, RunSteps(i)
  PROVE  /\ Python!Alive(i) /\ ~pyClosed /\ ~pyClosing /\ pyState # "closed"
         /\ i \in 1..MaxRuns
<1>1. Python!Alive(i)
  <2>1. CASE Python!Lost(i)
    <3>1. runs[i].link # "none"
      BY <2>1 DEF Python!Lost
    <3> QED
      BY <3>1 DEF PythonIInv, TasksKnown
  <2>2. CASE ~Python!Lost(i)
    BY <2>2 DEF RunSteps, Python!Progress, Python!Dialled, Python!HelloFails, Python!Ready,
       Python!Supervise, Python!ReaderEnds, Python!Wake, Python!DialFails, Python!TokenRefused,
       Python!Alive
  <2> QED
    BY <2>1, <2>2
<1> QED
  BY <1>1 DEF PythonIInv, TasksEnded, Python!Runs

\* The types that a step of a run keeps.
LEMMA RunStepTyped ==
  ASSUME PythonIInv, NEW i \in Python!Runs, RunSteps(i)
  PROVE  Python!PythonTypeOK'
<1>0. /\ Python!PythonTypeOK /\ i \in 0..MaxRuns /\ 0 \in 0..MaxRuns /\ runs[i] \in Python!Run
      /\ Python!Alive(i) /\ ~pyClosed
  BY PythonConstants, RunsAlive DEF PythonIInv, Python!PythonTypeOK, Python!Runs
<1>1. pyFaults < MaxFaults => pyFaults + 1 \in 0..MaxFaults
  BY <1>0, PythonConstants DEF Python!PythonTypeOK
<1>2. ASSUME Python!AttemptFails(i), pyFaults' \in 0..MaxFaults
      PROVE  Python!PythonTypeOK'
  <2>1. Python!AfterFailure(i) \in Python!Run /\ Python!AfterFailure(i).link = "none"
    BY <1>0, OverTyped DEF Python!AfterFailure, Python!Over, Python!Run
  <2>2. /\ runs' \in [Python!Runs -> Python!Run]
        /\ \A k \in Python!Runs : runs'[k].step = "sleep" => runs'[k].link = "none"
    BY <1>0, <1>2, <2>1, RunChanges DEF Python!AttemptFails
  <2>3. ws' \in 0..MaxRuns /\ pyFailure' \in {"none", "attempt", "replaced"}
    BY <1>0, <1>2 DEF Python!AttemptFails, Python!PythonTypeOK
  <2> QED
    BY <1>0, <1>2, <2>2, <2>3 DEF Python!AttemptFails, Python!PythonTypeOK
<1>3. CASE Python!DialFails(i) \/ Python!HelloFails(i)
  <2>1. Python!AttemptFails(i) /\ pyFaults' \in {pyFaults, pyFaults + 1}
        /\ (pyFaults' = pyFaults + 1 => pyFaults < MaxFaults \/ pyFaults' = pyFaults)
    BY <1>3 DEF Python!DialFails, Python!HelloFails, Python!Fault
  <2>2. pyFaults' \in 0..MaxFaults
    BY <1>0, <1>1, <1>3 DEF Python!DialFails, Python!HelloFails, Python!Fault, Python!PythonTypeOK
  <2> QED
    BY <1>2, <2>1, <2>2
<1>4. CASE Python!Dialled(i)
  <2>1. runs' = [runs EXCEPT ![i] = [runs[i] EXCEPT !.step = "hello", !.link = "open"]]
    BY <1>0, <1>4 DEF Python!Dialled, Python!PythonTypeOK
  <2>2. [runs[i] EXCEPT !.step = "hello", !.link = "open"] \in Python!Run
    BY <1>0 DEF Python!Run
  <2>3. /\ runs' \in [Python!Runs -> Python!Run]
        /\ \A k \in Python!Runs : runs'[k].step = "sleep" => runs'[k].link = "none"
    BY <1>0, <2>1, <2>2, RunChanges DEF Python!Run
  <2> QED
    BY <1>0, <1>4, <2>3 DEF Python!Dialled, Python!PythonTypeOK
<1>5. CASE Python!TokenRefused(i)
  <2>1. runs' = [runs EXCEPT ![i] = [runs[i] EXCEPT !.step = "dial", !.link = "none", !.retried = TRUE]]
    BY <1>0, <1>5 DEF Python!TokenRefused, Python!PythonTypeOK
  <2>2. [runs[i] EXCEPT !.step = "dial", !.link = "none", !.retried = TRUE] \in Python!Run
    BY <1>0 DEF Python!Run
  <2>3. /\ runs' \in [Python!Runs -> Python!Run]
        /\ \A k \in Python!Runs : runs'[k].step = "sleep" => runs'[k].link = "none"
    BY <1>0, <2>1, <2>2, RunChanges DEF Python!Run
  <2>4. pyFaults' \in 0..MaxFaults
    BY <1>1, <1>5 DEF Python!TokenRefused, Python!Fault
  <2> QED
    BY <1>0, <1>5, <2>3, <2>4 DEF Python!TokenRefused, Python!PythonTypeOK
<1>6. CASE Python!Ready(i)
  <2>1. runs' = [runs EXCEPT ![i] = [runs[i] EXCEPT !.task = "supervise", !.step = "begin", !.link = "up",
                                                   !.retried = FALSE]]
    BY <1>0, <1>6 DEF Python!Ready, Python!PythonTypeOK
  <2>2. [runs[i] EXCEPT !.task = "supervise", !.step = "begin", !.link = "up",
                        !.retried = FALSE] \in Python!Run
    BY <1>0 DEF Python!Run
  <2>3. /\ runs' \in [Python!Runs -> Python!Run]
        /\ \A k \in Python!Runs : runs'[k].step = "sleep" => runs'[k].link = "none"
    BY <1>0, <2>1, <2>2, RunChanges DEF Python!Run
  <2>4. used' \in {"none", "connect", "start"}
    BY <1>0, <1>6 DEF Python!Ready, Python!PythonTypeOK
  <2> QED
    BY <1>0, <1>6, <2>3, <2>4 DEF Python!Ready, Python!PythonTypeOK
<1>7. CASE Python!Supervise(i)
  <2>0. reader \in 0..MaxRuns
    BY <1>0 DEF Python!PythonTypeOK
  <2>1. runs' = [runs EXCEPT ![i] = [runs[i] EXCEPT !.step = "watch", !.watching = reader]]
    BY <1>0, <1>7 DEF Python!Supervise, Python!PythonTypeOK
  <2>2. [runs[i] EXCEPT !.step = "watch", !.watching = reader] \in Python!Run
    BY <1>0, <2>0 DEF Python!Run
  <2>3. /\ runs' \in [Python!Runs -> Python!Run]
        /\ \A k \in Python!Runs : runs'[k].step = "sleep" => runs'[k].link = "none"
    BY <1>0, <2>1, <2>2, RunChanges DEF Python!Run
  <2> QED
    BY <1>0, <1>7, <2>3 DEF Python!Supervise, Python!PythonTypeOK
<1>8. CASE Python!Lost(i)
  <2>1. PICK link \in {"lost", "replaced"} : runs' = [runs EXCEPT ![i] = [runs[i] EXCEPT !.link = link]]
    BY <1>0, <1>8 DEF Python!Lost, Python!PythonTypeOK
  <2>2. [runs[i] EXCEPT !.link = link] \in Python!Run
    BY <1>0 DEF Python!Run
  <2>3. runs[i].step # "sleep"
    BY <1>0, <1>8 DEF Python!Lost, Python!PythonTypeOK
  <2>4. /\ runs' \in [Python!Runs -> Python!Run]
        /\ \A k \in Python!Runs : runs'[k].step = "sleep" => runs'[k].link = "none"
    BY <1>0, <2>1, <2>2, <2>3, RunChanges DEF Python!Run
  <2>5. pyFaults' \in 0..MaxFaults
    BY <1>1, <1>8 DEF Python!Lost, Python!Fault
  <2> QED
    BY <1>0, <1>8, <2>4, <2>5 DEF Python!Lost, Python!PythonTypeOK
<1>9. CASE Python!ReaderEnds(i)
  <2>1. CASE runs[i].watching # 0 /\ runs[i].link = "replaced"
    <3>1. /\ pyState' = "closed" /\ event' = TRUE /\ pyFailure' = "replaced"
          /\ runs' = [runs EXCEPT ![i] = Python!Over(i)]
      BY <1>0, <1>9, <2>1 DEF Python!ReaderEnds, Python!AfterDrop
    <3>2. Python!Over(i) \in Python!Run /\ Python!Over(i).link = "none"
      BY <1>0, OverTyped DEF Python!Over, Python!Run
    <3>3. /\ runs' \in [Python!Runs -> Python!Run]
          /\ \A k \in Python!Runs : runs'[k].step = "sleep" => runs'[k].link = "none"
      BY <1>0, <3>1, <3>2, RunChanges
    <3> QED
      BY <1>0, <1>9, <3>1, <3>3 DEF Python!ReaderEnds, Python!PythonTypeOK
  <2>2. CASE ~(runs[i].watching # 0 /\ runs[i].link = "replaced")
    <3>1. /\ pyState' = "connecting" /\ UNCHANGED <<pyFailure, event>>
          /\ runs' = [runs EXCEPT ![i] = [runs[i] EXCEPT !.step = "dial", !.link = "none"]]
      BY <1>0, <1>9, <2>2 DEF Python!ReaderEnds, Python!AfterDrop, Python!PythonTypeOK
    <3>2. [runs[i] EXCEPT !.step = "dial", !.link = "none"] \in Python!Run
      BY <1>0 DEF Python!Run
    <3>3. /\ runs' \in [Python!Runs -> Python!Run]
          /\ \A k \in Python!Runs : runs'[k].step = "sleep" => runs'[k].link = "none"
      BY <1>0, <3>1, <3>2, RunChanges DEF Python!Run
    <3> QED
      BY <1>0, <1>9, <3>1, <3>3 DEF Python!ReaderEnds, Python!PythonTypeOK
  <2> QED
    BY <2>1, <2>2
<1>10. CASE Python!Wake(i)
  <2>1. /\ pyState' = "connecting" /\ event' = event
        /\ runs' = [runs EXCEPT ![i] = [runs[i] EXCEPT !.step = "dial"]]
    BY <1>0, <1>10 DEF Python!Wake, Python!PythonTypeOK
  <2>2. [runs[i] EXCEPT !.step = "dial"] \in Python!Run
    BY <1>0 DEF Python!Run
  <2>3. /\ runs' \in [Python!Runs -> Python!Run]
        /\ \A k \in Python!Runs : runs'[k].step = "sleep" => runs'[k].link = "none"
    BY <1>0, <2>1, <2>2, RunChanges DEF Python!Run
  <2> QED
    BY <1>0, <1>10, <2>1, <2>3 DEF Python!Wake, Python!PythonTypeOK
<1> QED
  BY <1>3, <1>4, <1>5, <1>6, <1>7, <1>8, <1>9, <1>10 DEF RunSteps, Python!Progress

\* Nor does it leave a task that nobody knows, or one where all is over.
LEMMA RunStepTasks ==
  ASSUME PythonIInv, NEW i \in Python!Runs, RunSteps(i)
  PROVE  /\ TasksKnown' /\ TasksEnded'
         /\ UNCHANGED <<pyClosed, pyClosing>>
<1>0. /\ TasksKnown /\ Python!Alive(i) /\ ~pyClosed /\ ~pyClosing /\ pyState # "closed"
      /\ runs \in [Python!Runs -> Python!Run] /\ runs[i] \in Python!Run
  BY RunsAlive DEF PythonIInv, Python!PythonTypeOK
<1>1. UNCHANGED <<pyClosed, pyClosing>>
  BY DEF RunSteps, Python!Progress, Python!Dialled, Python!HelloFails, Python!Ready,
     Python!Supervise, Python!ReaderEnds, Python!Wake, Python!DialFails, Python!TokenRefused,
     Python!Lost, Python!AttemptFails
<1>2. CASE Python!Ready(i)
  <2>1. /\ supervisor' = i /\ starter' = starter /\ pyState' = "connected"
        /\ \A k \in Python!Runs \ {i} : runs'[k] = runs[k]
        /\ runs'[i].task = "supervise" /\ runs'[i].link = "up"
    BY <1>0, <1>2 DEF Python!Ready, Python!Run
  <2>2. \A k \in Python!Runs : Python!Alive(k) <=> k = i
    BY <1>0 DEF TasksKnown
  <2>3. \A k \in Python!Runs : Python!Alive(k)' <=> k = i
    BY <2>1, <2>2 DEF Python!Alive
  <2>4. \A k \in Python!Runs \ {i} : runs'[k].task \notin {"start", "supervise"}
    BY <2>1, <2>2 DEF Python!Alive
  <2>5. TasksKnown'
    BY <1>0, <2>1, <2>3, <2>4 DEF TasksKnown
  <2> QED
    BY <1>0, <1>1, <2>1, <2>5 DEF TasksEnded
<1>3. CASE ~Python!Ready(i)
  <2>1. /\ \A k \in Python!Runs \ {i} : runs'[k] = runs[k]
        /\ UNCHANGED <<starter, supervisor, used>>
    BY <1>0, <1>3 DEF RunSteps, Python!Progress, Python!Dialled, Python!HelloFails,
       Python!Supervise, Python!ReaderEnds, Python!Wake, Python!DialFails, Python!TokenRefused,
       Python!Lost, Python!AttemptFails, Python!AfterDrop
  <2>2. CASE Python!ReaderEnds(i) /\ runs[i].watching # 0 /\ runs[i].link = "replaced"
    <3>1. runs'[i].task = "over" /\ runs'[i].link = "none"
      BY <1>0, <2>2 DEF Python!ReaderEnds, Python!AfterDrop, Python!Over, Python!Run
    <3>2. TasksKnown' /\ \A k \in Python!Runs : Python!Alive(k)' => Python!Alive(k)
      BY <1>0, <2>1, <3>1, TasksGoOn
    <3>3. \A k \in Python!Runs : ~Python!Alive(k)'
      BY <1>0, <3>1, <3>2 DEF Python!Alive, TasksKnown
    <3> QED
      BY <1>0, <1>1, <3>2, <3>3 DEF TasksEnded
  <2>3. CASE ~(Python!ReaderEnds(i) /\ runs[i].watching # 0 /\ runs[i].link = "replaced")
    <3>1. pyState' # "closed"
      BY <1>0, <1>3, <2>3 DEF RunSteps, Python!Progress, Python!Dialled, Python!HelloFails,
         Python!Supervise, Python!ReaderEnds, Python!Wake, Python!DialFails, Python!TokenRefused,
         Python!Lost, Python!AttemptFails, Python!AfterDrop
    <3>2. \/ runs'[i].task = runs[i].task
          \/ runs'[i].task = "over" /\ runs'[i].link = "none"
      <4>1. CASE Python!AttemptFails(i)
        BY <1>0, <4>1 DEF Python!AttemptFails, Python!AfterFailure, Python!Over, Python!Run
      <4>2. CASE Python!Dialled(i) \/ Python!Supervise(i) \/ Python!Lost(i) \/ Python!TokenRefused(i)
        BY <1>0, <4>2 DEF Python!Dialled, Python!Supervise, Python!Lost, Python!TokenRefused, Python!Run
      <4>3. CASE Python!Wake(i) \/ Python!ReaderEnds(i)
        BY <1>0, <2>3, <4>3 DEF Python!Wake, Python!ReaderEnds, Python!AfterDrop, Python!Run
      <4> QED
        BY <1>3, <4>1, <4>2, <4>3 DEF RunSteps, Python!Progress, Python!HelloFails, Python!DialFails
    <3>3. TasksKnown'
      BY <1>0, <2>1, <3>2, TasksGoOn
    <3> QED
      BY <1>0, <1>1, <3>1, <3>3 DEF TasksEnded
  <2> QED
    BY <2>2, <2>3
<1> QED
  BY <1>1, <1>2, <1>3

\* Nobody runs where connect() or start() may be called: they wait for a
\* connect() or close() before them, and look at the other tasks themselves.
LEMMA NobodyWhereCalled ==
  ASSUME PythonIInv, ~Impatient, NEW i \in Python!Runs, Python!Connect(i) \/ Python!Start(i)
  PROVE  /\ \A k \in Python!Runs : ~Python!Alive(k)
         /\ ~pyClosing
<1>1. ~Python!Awaited /\ ~Python!Supervised /\ ~pyClosing /\ (used = "start" => ~Python!Starting)
  BY DEF Python!Connect, Python!Start, Python!MayCall
<1>2. ASSUME NEW k \in Python!Runs, Python!Alive(k) PROVE FALSE
  <2>1. k # 0
    BY DEF Python!Runs
  <2>2. CASE runs[k].task = "connect"
    BY <1>1, <2>2 DEF Python!Awaited
  <2>3. CASE runs[k].task = "start"
    BY <1>1, <1>2, <2>1, <2>3 DEF Python!Starting, PythonIInv, TasksKnown
  <2>4. CASE runs[k].task = "supervise"
    BY <1>1, <1>2, <2>1, <2>4 DEF Python!Supervised, PythonIInv, TasksKnown
  <2> QED
    BY <1>2, <2>2, <2>3, <2>4 DEF Python!Alive
<1> QED
  BY <1>1, <1>2

LEMMA CallsBegin ==
  ASSUME PythonIInv, ~Impatient, NEW i \in Python!Runs, Python!Connect(i) \/ Python!Start(i)
  PROVE  PythonIInv' /\ ~pyClosed' /\ Python!NextRun(i) /\ runs'[i].task # "none"
<1>0. /\ Python!PythonTypeOK /\ TasksKnown /\ ~pyClosing /\ runs[i] \in Python!Run
      /\ \A k \in Python!Runs : ~Python!Alive(k) /\ runs[k].link = "none"
      /\ i \in 0..MaxRuns
  BY NobodyWhereCalled, PythonConstants DEF PythonIInv, Python!PythonTypeOK, TasksKnown, Python!Runs
<1>1. PICK task \in {"connect", "start"} :
        /\ Python!Begin(i, task)
        /\ task = "start" => used' = "start" /\ starter' = i
        /\ task = "connect" => used' = used /\ starter' = starter
        /\ UNCHANGED <<pyClosing, ws, reader, supervisor, pyFaults>>
  <2>1. CASE Python!Connect(i)
    BY <2>1 DEF Python!Connect
  <2>2. CASE Python!Start(i)
    BY <2>2 DEF Python!Start
  <2> QED
    BY <2>1, <2>2
<1>2. /\ pyClosed' = FALSE /\ event' = FALSE /\ pyFailure' = "none" /\ pyState' = "connecting"
      /\ Python!NextRun(i)
      /\ runs' = [runs EXCEPT ![i] = [runs[i] EXCEPT !.task = task]]
  BY <1>0, <1>1 DEF Python!Begin, Python!PythonTypeOK
<1>3. [runs[i] EXCEPT !.task = task] \in Python!Run
  BY <1>0, <1>1 DEF Python!Run
<1>4. /\ runs' \in [Python!Runs -> Python!Run]
      /\ \A k \in Python!Runs : runs'[k].step = "sleep" => runs'[k].link = "none"
  <2>1. [runs[i] EXCEPT !.task = task].link = "none"
    BY <1>0 DEF Python!Run
  <2> QED
    BY <1>0, <1>2, <1>3, <2>1, RunChanges
<1>5. used' \in {"none", "connect", "start"} /\ starter' \in 0..MaxRuns
  BY <1>0, <1>1 DEF Python!PythonTypeOK
<1>6. Python!PythonTypeOK'
  BY <1>0, <1>1, <1>2, <1>4, <1>5 DEF Python!PythonTypeOK
<1>7. /\ \A k \in Python!Runs \ {i} : runs'[k] = runs[k]
      /\ runs'[i].task = task
  BY <1>0, <1>2 DEF Python!PythonTypeOK, Python!Run
<1>8. \A k \in Python!Runs \ {i} : ~Python!Alive(k)' /\ runs'[k].link = "none"
  BY <1>0, <1>7 DEF Python!Alive
<1>9. TasksKnown'
  <2>1. Python!Alive(i)' /\ runs'[i].task # "supervise"
    BY <1>1, <1>7 DEF Python!Alive
  <2>2. \A k \in Python!Runs \ {i} : runs'[k].task \notin {"start", "supervise"}
    BY <1>8 DEF Python!Alive
  <2>3. runs'[i].task = "start" => starter' = i /\ used' = "start"
    BY <1>1, <1>7
  <2> QED
    BY <1>8, <2>1, <2>2, <2>3 DEF TasksKnown
<1>10. TasksEnded'
  BY <1>0, <1>1, <1>2 DEF TasksEnded
<1> QED
  BY <1>1, <1>2, <1>6, <1>7, <1>9, <1>10 DEF PythonIInv

LEMMA CloseBeginsEnds ==
  ASSUME PythonIInv, ~Impatient, Python!CloseBegins
  PROVE  PythonIInv' /\ pyFailure' = pyFailure /\ (pyState = "closed" => pyState' = "closed")
<1>0. /\ Python!PythonTypeOK /\ TasksKnown /\ ~Python!Awaited /\ 0 \in 0..MaxRuns
      /\ runs \in [Python!Runs -> Python!Run]
  BY PythonConstants DEF PythonIInv, Python!CloseBegins, Python!PythonTypeOK
<1>1. \A k \in Python!Runs : Python!Alive(k) => k \in {supervisor, starter}
  BY <1>0 DEF TasksKnown, Python!Awaited, Python!Alive
<1>2. runs' = [k \in Python!Runs |-> IF Python!Alive(k) THEN Python!Over(k) ELSE runs[k]]
  BY <1>1 DEF Python!CloseBegins
<1>3. /\ runs' \in [Python!Runs -> Python!Run]
      /\ \A k \in Python!Runs : runs'[k].step = "sleep" => runs'[k].link = "none"
  <2>1. \A k \in Python!Runs : Python!Over(k) \in Python!Run /\ Python!Over(k).link = "none"
    BY <1>0, OverTyped DEF Python!Over, Python!Run
  <2>2. ASSUME NEW k \in Python!Runs
        PROVE  runs'[k] \in Python!Run /\ (runs'[k].step = "sleep" => runs'[k].link = "none")
    BY <1>0, <1>2, <2>1 DEF Python!PythonTypeOK
  <2> QED
    BY <1>2, <2>2
<1>4. \A k \in Python!Runs : runs'[k].task \notin {"connect", "start", "supervise"}
                             /\ runs'[k].link = "none"
  <2>1. \A k \in Python!Runs : Python!Over(k).task = "over" /\ Python!Over(k).link = "none"
    BY <1>0 DEF Python!Over, Python!Run
  <2>2. ASSUME NEW k \in Python!Runs
        PROVE  runs'[k].task \notin {"connect", "start", "supervise"} /\ runs'[k].link = "none"
    <3>1. CASE Python!Alive(k)
      <4>1. runs'[k] = Python!Over(k)
        BY <1>2, <3>1
      <4> QED
        BY <2>1, <4>1
    <3>2. CASE ~Python!Alive(k)
      <4>1. runs'[k] = runs[k]
        BY <1>2, <3>2
      <4> QED
        BY <1>0, <3>2, <4>1 DEF TasksKnown, Python!Alive
    <3> QED
      BY <3>1, <3>2
  <2> QED
    BY <2>2
<1>5. /\ pyClosed' = TRUE /\ event' = TRUE /\ UNCHANGED <<pyFailure, reader, used, pyFaults>>
      /\ supervisor' = 0 /\ starter' = 0
  BY DEF Python!CloseBegins
<1>6. ws' \in 0..MaxRuns
  BY <1>0 DEF Python!CloseBegins, Python!PythonTypeOK
<1>7. pyClosing' \in BOOLEAN
  BY DEF Python!CloseBegins, Python!Awaits
<1>8. pyState' \in {pyState, "closed"}
  BY DEF Python!CloseBegins
<1>9. Python!PythonTypeOK'
  BY <1>0, <1>3, <1>5, <1>6, <1>7, <1>8 DEF Python!PythonTypeOK
<1>10. TasksKnown' /\ TasksEnded'
  BY <1>4, <1>5 DEF TasksKnown, TasksEnded, Python!Alive
<1> QED
  BY <1>5, <1>8, <1>9, <1>10 DEF PythonIInv

\* When close() ends there is no task left for the reader to take with it.
LEMMA CloseEndsEnds ==
  ASSUME PythonIInv, Python!CloseEnds
  PROVE  PythonIInv' /\ pyFailure' = pyFailure /\ pyState' = "closed"
<1>0. /\ Python!PythonTypeOK /\ TasksKnown /\ pyClosed /\ 0 \in 0..MaxRuns
      /\ runs \in [Python!Runs -> Python!Run]
      /\ \A k \in Python!Runs : ~Python!Alive(k) /\ runs[k].link = "none"
  BY PythonConstants DEF PythonIInv, Python!CloseEnds, Python!PythonTypeOK, TasksEnded, TasksKnown
<1>1. ASSUME NEW k \in Python!Runs
      PROVE  /\ runs'[k] \in Python!Run /\ runs'[k].link = "none"
             /\ runs'[k].task \notin {"connect", "start", "supervise"}
  <2>1. runs'[k] \in {runs[k], [runs[k] EXCEPT !.task = "over"]}
    BY DEF Python!CloseEnds
  <2>2. CASE runs'[k] = runs[k]
    BY <1>0, <2>2 DEF Python!Alive
  <2>3. CASE runs'[k] = [runs[k] EXCEPT !.task = "over"]
    BY <1>0, <2>3 DEF Python!Run
  <2> QED
    BY <2>1, <2>2, <2>3
<1>2. runs' \in [Python!Runs -> Python!Run]
  <2>1. runs' = [k \in Python!Runs |-> runs'[k]]
    BY DEF Python!CloseEnds
  <2> QED
    BY <1>1, <2>1
<1>3. /\ pyClosing' = FALSE /\ pyState' = "closed" /\ ws' = 0 /\ reader' = 0
      /\ UNCHANGED <<pyClosed, event, pyFailure, supervisor, starter, used, pyFaults>>
  BY DEF Python!CloseEnds
<1>4. Python!PythonTypeOK'
  BY <1>0, <1>1, <1>2, <1>3 DEF Python!PythonTypeOK
<1>5. TasksKnown' /\ TasksEnded'
  BY <1>0, <1>1, <1>3 DEF TasksKnown, TasksEnded, Python!Alive
<1> QED
  BY <1>3, <1>4, <1>5 DEF PythonIInv

LEMMA PythonInductive ==
  ASSUME PythonIInv, ~Impatient, Python!Next
  PROVE  PythonIInv'
<1>1. ASSUME NEW i \in Python!Runs, RunSteps(i) PROVE PythonIInv'
  BY <1>1, RunStepTyped, RunStepTasks DEF PythonIInv
<1> QED
  BY <1>1, CallsBegin, CloseBeginsEnds, CloseEndsEnds DEF Python!Next, RunSteps

LEMMA PythonKept == PythonIInv /\ UNCHANGED pythonVars => PythonIInv'
BY DEF PythonIInv, pythonVars, Python!PythonTypeOK, TasksKnown, TasksEnded, Python!Alive

LEMMA AtMostOneRun ==
  ASSUME NEW A \in SUBSET Python!Runs, \A i, j \in A : i = j
  PROVE  Python!Cardinality(A) <= 1
<1>0. Python!Cardinality(A) = Cardinality(A)
  BY DEF Python!Cardinality, Cardinality
<1>1. CASE A = {}
  BY <1>0, <1>1, FS_EmptySet
<1>2. ASSUME NEW i \in A PROVE Cardinality(A) = 1
  <2>1. A = {i}
    OBVIOUS
  <2> QED
    BY <2>1, FS_Singleton
<1> QED
  BY <1>0, <1>1, <1>2

LEMMA PythonIInvIs ==
  ASSUME PythonIInv
  PROVE  Python!PythonInv
<1>1. Python!OneRun
  <2>1. Python!Cardinality({i \in Python!Runs : Python!Alive(i)}) <= 1
    BY AtMostOneRun DEF PythonIInv, TasksKnown
  <2>2. Python!Cardinality({i \in Python!Runs : runs[i].link \in {"open", "up"}}) <= 1
    BY AtMostOneRun DEF PythonIInv, TasksKnown
  <2> QED
    BY <2>1, <2>2 DEF Python!OneRun
<1>2. Python!NothingUpAfterClose
  BY DEF PythonIInv, TasksEnded, TasksKnown, Python!NothingUpAfterClose
<1> QED
  BY <1>1, <1>2 DEF PythonIInv, Python!PythonInv

\* What Python!PythonStaysDown says of a step.
PythonDown ==
    /\ pyState = "closed" /\ pyFailure = "replaced" /\ pyState' # "closed" =>
         \E i \in Python!Runs : Python!NextRun(i) /\ runs'[i].task # "none"
    /\ pyClosed /\ pyClosed' => pyFailure' = pyFailure

LEMMA PythonStepsDown == ASSUME PythonIInv, ~Impatient, Python!Next PROVE PythonDown
<1>1. ASSUME NEW i \in Python!Runs, RunSteps(i) PROVE PythonDown
  BY <1>1, RunsAlive DEF PythonDown
<1>2. ASSUME NEW i \in Python!Runs, Python!Connect(i) \/ Python!Start(i) PROVE PythonDown
  BY <1>2, CallsBegin DEF PythonDown
<1> QED
  BY <1>1, <1>2, CloseBeginsEnds, CloseEndsEnds DEF PythonDown, Python!Next, RunSteps

-----------------------------------------------------------------------------
(***************************************************************************)
(* The client SDK.  Timers, attempts of timers, and sockets that close()   *)
(* is closing can each become a timer; only a failure, a connect() and the *)
(* close() of a client that is wanted add one.                             *)
(***************************************************************************)

Tries(k) == k.phase \in {"opening", "hello"}
Works(k) == Tries(k) \/ k.phase = "live"
Retries(k) == Tries(k) /\ k.origin = "timer"
Ends(k) == Works(k) /\ k.link = "closing"

Busy == {s \in Slots : Works(sockets[s])}
Retrying == {s \in Slots : Retries(sockets[s])}
Ending == {s \in Slots : Ends(sockets[s])}
Wanted == ~userClosed /\ connects # 0

One(b) == IF b THEN 1 ELSE 0

ClientTyped ==
    /\ clClosing \in BOOLEAN /\ slow \in BOOLEAN /\ userClosed \in BOOLEAN
    /\ clState \in {"idle", "connecting", "connected", "closed"}
    /\ clSocket \in Slots \cup {NoSlot}
    /\ sockets \in [Slots -> Client!Socket]
    /\ clTimers \in Nat
    /\ channels \in SUBSET {s \in Slots : sockets[s].phase = "live"}
    /\ clRejected \in BOOLEAN
    /\ connects \in 0..MaxClientConnects /\ clFaults \in 0..MaxFaults

\* The client has been idle until the first connect().
ClientIdles ==
    /\ clState = "idle" <=> connects = 0
    /\ clState = "idle" => clTimers = 0 /\ \A s \in Slots : sockets[s].phase = "free"

ClientBudget ==
    clTimers + Cardinality(Retrying) + Cardinality(Ending) + One(Wanted) <= clFaults + connects

ClientTries ==
    /\ Client!ConnectingIsTrying
    /\ userClosed => clState # "connecting"
    /\ \A s \in Slots : Client!Running(s) => sockets[s].origin \in {"connect", "timer"}

\* With answers in time and no close() there is one thread, on the socket the
\* client holds.
ClientLineage ==
    Client!Undisturbed =>
        /\ ~userClosed /\ clState # "closed"
        /\ Cardinality(Busy) + clTimers <= 1
        /\ clState = "connected" => clSocket # NoSlot /\ sockets[clSocket].phase = "live"
        /\ \A s \in Slots :
              /\ sockets[s].phase # "failed" /\ sockets[s].link # "closing"
              /\ s \in Busy => clSocket = s
              /\ s \notin Busy => sockets[s].link = "none"

ClientIInv == ClientTyped /\ ClientIdles /\ ClientBudget /\ ClientTries /\ ClientLineage

\* A set that differs from another in at most one slot.
LEMMA CountMoves ==
  ASSUME NEW A \in SUBSET Slots, NEW B \in SUBSET Slots, NEW s \in Slots, A \ {s} = B \ {s}
  PROVE  /\ Cardinality(A) \in Nat /\ Cardinality(B) \in Nat
         /\ Cardinality(B) - One(s \in B) = Cardinality(A) - One(s \in A)
<1>1. /\ Cardinality(A) \in Nat /\ Cardinality(B) \in Nat
      /\ Cardinality(A \ {s}) = IF s \in A THEN Cardinality(A) - 1 ELSE Cardinality(A)
      /\ Cardinality(B \ {s}) = IF s \in B THEN Cardinality(B) - 1 ELSE Cardinality(B)
  BY CountOfSlots
<1> QED
  BY <1>1 DEF One

LEMMA ClientFreeTyped == Client!Free \in Client!Socket
BY DEF Client!Free, Client!Socket

LEMMA ClientInitCorrect == Client!Init => ClientIInv
<1> SUFFICES ASSUME Client!Init PROVE ClientIInv
  OBVIOUS
<1>1. /\ sockets = [s \in Slots |-> Client!Free] /\ clSocket = NoSlot /\ clTimers = 0
      /\ connects = 0 /\ clFaults = 0 /\ clState = "idle" /\ userClosed = FALSE
      /\ channels = {} /\ clRejected = FALSE
      /\ clClosing \in BOOLEAN /\ slow \in BOOLEAN
  BY DEF Client!Init
<1>2. 0 \in Nat /\ 0 \in 0..MaxClientConnects /\ 0 \in 0..MaxFaults
  BY BackendConstants
<1>3. sockets \in [Slots -> Client!Socket]
  BY <1>1, ClientFreeTyped
<1>4. ClientTyped
  BY <1>1, <1>2, <1>3 DEF ClientTyped
<1>5. \A s \in Slots : sockets[s].phase = "free" /\ sockets[s].link = "none"
  BY <1>1 DEF Client!Free
<1>6. Busy = {} /\ Retrying = {} /\ Ending = {}
  BY <1>5 DEF Busy, Retrying, Ending, Works, Retries, Ends, Tries
<1>7. ClientIdles
  BY <1>1, <1>5 DEF ClientIdles
<1>8. ClientBudget
  BY <1>1, <1>6, FS_EmptySet DEF ClientBudget, Wanted, One
<1>9. ClientTries
  BY <1>1, <1>5 DEF ClientTries, Client!ConnectingIsTrying, Client!Running
<1>10. ClientLineage
  BY <1>1, <1>5, <1>6, FS_EmptySet DEF ClientLineage
<1> QED
  BY <1>4, <1>7, <1>8, <1>9, <1>10 DEF ClientIInv

\* What the steps of one slot are to timers, attempts and connections.
SlotOnly(s) ==
    /\ sockets' \in [Slots -> Client!Socket]
    /\ \A r \in Slots \ {s} : sockets'[r] = sockets[r]
    /\ clFaults' \in 0..MaxFaults /\ clFaults' >= clFaults
    /\ UNCHANGED <<clClosing, slow>>

SlotGoesOn(s) ==
    /\ SlotOnly(s)
    /\ sockets[s].phase \in {"opening", "hello", "failed"}
    /\ sockets'[s].phase \in {"opening", "hello", "failed"}
    /\ sockets'[s].phase = "failed" <=> sockets[s].phase = "failed"
    /\ sockets'[s].origin = sockets[s].origin
    /\ sockets'[s].link = "closing" => sockets[s].link = "closing"
    /\ sockets[s].phase = "failed" => sockets'[s].link = sockets[s].link
    /\ UNCHANGED <<userClosed, clState, clSocket, clTimers, channels, clRejected, connects>>

SlotRejects(s) ==
    /\ SlotOnly(s)
    /\ Tries(sockets[s])
    /\ sockets'[s].phase \in {"free", "failed"} /\ sockets'[s].link # "closing"
    /\ sockets'[s].phase = "failed" => slow
    /\ sockets'[s].phase = "free" => sockets'[s].link = "none"
    /\ clTimers' = clTimers + One(sockets[s].origin = "timer")
    /\ sockets[s].origin = "connect" => clRejected'
    /\ clRejected => clRejected'
    /\ clRejected' \in BOOLEAN
    /\ UNCHANGED <<userClosed, clState, clSocket, channels, connects>>

SlotLives(s) ==
    /\ SlotOnly(s)
    /\ Tries(sockets[s]) /\ sockets'[s].phase = "live"
    /\ sockets'[s].link = sockets[s].link /\ sockets'[s].origin = sockets[s].origin
    /\ clState' = "connected"
    /\ UNCHANGED <<userClosed, clSocket, clTimers, channels, clRejected, connects, clFaults>>

SlotCloses(s) ==
    /\ SlotOnly(s)
    /\ sockets[s].phase = "live" /\ sockets'[s] = Client!Free
    /\ clFaults' > clFaults \/ sockets[s].link = "closing"
    /\ clSocket' = NoSlot /\ channels' = {}
    /\ clTimers' \in {clTimers, clTimers + 1}
    /\ userClosed => (clState' = "closed" /\ clTimers' = clTimers)
    /\ ~userClosed /\ clState \in {"connected", "connecting"} =>
         clState' = "connecting" /\ clTimers' = clTimers + 1
    /\ ~userClosed /\ clState \notin {"connected", "connecting"} =>
         clState' = clState /\ clTimers' = clTimers
    /\ UNCHANGED <<userClosed, clRejected, connects>>

SlotIsForgotten(s) ==
    /\ SlotOnly(s)
    /\ sockets[s].phase = "failed" /\ sockets'[s] = Client!Free
    /\ UNCHANGED <<userClosed, clState, clSocket, clTimers, channels, clRejected, connects>>

SlotBegins(s, origin) ==
    /\ SlotOnly(s)
    /\ sockets[s].phase = "free"
    /\ sockets'[s].phase = "opening" /\ sockets'[s].origin = origin
    /\ sockets'[s].link = "none"
    /\ clState' = "connecting" /\ clSocket' = s
    /\ UNCHANGED <<channels, clFaults>>

TimerBegins(s) ==
    /\ SlotBegins(s, "timer")
    /\ clTimers > 0 /\ clTimers' = clTimers - 1 /\ ~userClosed
    /\ UNCHANGED <<userClosed, clRejected, connects>>

TimerIsSpent ==
    /\ userClosed
    /\ clTimers > 0 /\ clTimers' = clTimers - 1
    /\ UNCHANGED <<clClosing, slow, userClosed, clState, clSocket, sockets, channels, clRejected,
                   connects, clFaults>>

ConnectBegins(s) ==
    /\ SlotBegins(s, "connect")
    /\ clState \in {"idle", "closed"}
    /\ userClosed' = FALSE /\ clRejected' = FALSE
    /\ connects' = connects + 1 /\ connects' \in 0..MaxClientConnects
    /\ UNCHANGED clTimers

LEMMA SlotSet ==
  ASSUME ClientTyped, NEW s \in Slots, NEW r \in Client!Socket,
         sockets' = [sockets EXCEPT ![s] = r],
         clFaults' = clFaults \/ (clFaults < MaxFaults /\ clFaults' = clFaults + 1),
         UNCHANGED <<clClosing, slow>>
  PROVE  SlotOnly(s) /\ sockets'[s] = r
<1>1. clFaults' \in 0..MaxFaults /\ clFaults' >= clFaults
  BY BackendConstants DEF ClientTyped
<1> QED
  BY <1>1 DEF SlotOnly, ClientTyped

LEMMA RejectedSlot ==
  ASSUME ClientTyped, NEW s \in Slots, Tries(sockets[s]), NEW link \in {"none", "open", "closing", "lost"},
         Client!Rejected(s, link), link = "open" => slow,
         clFaults' = clFaults \/ (clFaults < MaxFaults /\ clFaults' = clFaults + 1)
  PROVE  SlotRejects(s)
<1> DEFINE r == IF link = "open" THEN [sockets[s] EXCEPT !.phase = "failed", !.link = "open"]
                ELSE Client!Free
<1>0. sockets[s] \in Client!Socket
  BY DEF ClientTyped
<1>1. r \in Client!Socket /\ r.phase \in {"free", "failed"} /\ r.link # "closing"
      /\ (r.phase = "failed" => link = "open") /\ (r.phase = "free" => r.link = "none")
  BY <1>0, ClientFreeTyped DEF Client!Socket, Client!Free
<1>2. sockets' = [sockets EXCEPT ![s] = r]
  <2>1. CASE link = "open"
    BY <2>1 DEF Client!Rejected, ClientTyped
  <2>2. CASE link # "open"
    BY <2>2 DEF Client!Rejected, ClientTyped
  <2> QED
    BY <2>1, <2>2
<1>3. SlotOnly(s) /\ sockets'[s] = r
  <2>1. UNCHANGED <<clClosing, slow>>
    BY DEF Client!Rejected, Client!settings
  <2> QED
    BY <1>1, <1>2, <2>1, SlotSet
<1>4. clTimers' = clTimers + One(sockets[s].origin = "timer")
  BY DEF Client!Rejected, Client!Rescheduled, One, ClientTyped
<1>5. /\ UNCHANGED <<userClosed, clState, clSocket, channels, connects>>
      /\ clRejected' = (clRejected \/ sockets[s].origin = "connect")
  BY DEF Client!Rejected
<1> HIDE DEF r
<1> QED
  BY <1>1, <1>3, <1>4, <1>5 DEF SlotRejects

\* Every step of the client SDK is one of these.
ClientMoves ==
    \/ Client!Close \/ Client!OpenChannel \/ TimerIsSpent
    \/ \E s \in Slots :
          \/ SlotGoesOn(s) \/ SlotRejects(s) \/ SlotLives(s) \/ SlotCloses(s)
          \/ SlotIsForgotten(s) \/ TimerBegins(s) \/ ConnectBegins(s)

LEMMA ClientSteps ==
  ASSUME ClientTyped, Client!Next
  PROVE  ClientMoves
<1> USE DEF Client!settings
<1>0. \A s \in Slots : sockets[s] \in Client!Socket
  BY DEF ClientTyped
<1>1. ASSUME NEW s \in Slots, Client!SocketOpens(s) PROVE SlotGoesOn(s)
  <2> DEFINE r == [sockets[s] EXCEPT !.phase = "hello", !.link = "open"]
  <2>1. r \in Client!Socket /\ r.phase = "hello" /\ r.link = "open" /\ r.origin = sockets[s].origin
    BY <1>0 DEF Client!Socket
  <2>2. sockets' = [sockets EXCEPT ![s] = r]
    BY <1>1 DEF Client!SocketOpens, ClientTyped
  <2> HIDE DEF r
  <2>3. SlotOnly(s) /\ sockets'[s] = r
    BY <1>1, <2>1, <2>2, SlotSet DEF Client!SocketOpens
  <2> QED
    BY <1>1, <2>1, <2>3 DEF SlotGoesOn, Client!SocketOpens
<1>2. ASSUME NEW s \in Slots, Client!GatewayAnswers(s) PROVE SlotGoesOn(s)
  <2>1. PICK answer \in {"ready", "refused"} :
          /\ sockets' = [sockets EXCEPT ![s] = [sockets[s] EXCEPT !.answer = answer]]
          /\ clFaults' = clFaults \/ (clFaults < MaxFaults /\ clFaults' = clFaults + 1)
    <3>1. \/ /\ sockets' = [sockets EXCEPT ![s] = [sockets[s] EXCEPT !.answer = "ready"]]
             /\ clFaults' = clFaults
          \/ /\ sockets' = [sockets EXCEPT ![s] = [sockets[s] EXCEPT !.answer = "refused"]]
             /\ clFaults < MaxFaults /\ clFaults' = clFaults + 1
      BY <1>2 DEF Client!GatewayAnswers, Client!Fault, ClientTyped
    <3>2. CASE clFaults' = clFaults
      BY <3>1, <3>2
    <3>3. CASE clFaults' # clFaults
      BY <3>1, <3>3
    <3> QED
      BY <3>2, <3>3
  <2> DEFINE r == [sockets[s] EXCEPT !.answer = answer]
  <2>2. r \in Client!Socket /\ r.phase = sockets[s].phase /\ r.link = sockets[s].link
        /\ r.origin = sockets[s].origin
    BY <1>0 DEF Client!Socket
  <2>4. sockets' = [sockets EXCEPT ![s] = r]
    BY <2>1
  <2> HIDE DEF r
  <2>3. SlotOnly(s) /\ sockets'[s] = r
    BY <1>2, <2>1, <2>2, <2>4, SlotSet DEF Client!GatewayAnswers
  <2> QED
    BY <1>2, <2>2, <2>3 DEF SlotGoesOn, Client!GatewayAnswers
<1>3. ASSUME NEW s \in Slots, Client!LostUnnoticed(s) PROVE SlotGoesOn(s)
  <2> DEFINE r == [sockets[s] EXCEPT !.link = "lost"]
  <2>1. r \in Client!Socket /\ r.phase = sockets[s].phase /\ r.link = "lost"
        /\ r.origin = sockets[s].origin
    BY <1>0 DEF Client!Socket
  <2>2. sockets' = [sockets EXCEPT ![s] = r]
    BY <1>3 DEF Client!LostUnnoticed, ClientTyped
  <2>3. clFaults' = clFaults \/ (clFaults < MaxFaults /\ clFaults' = clFaults + 1)
    BY <1>3 DEF Client!LostUnnoticed, Client!Fault
  <2> HIDE DEF r
  <2>4. SlotOnly(s) /\ sockets'[s] = r
    BY <1>3, <2>1, <2>2, <2>3, SlotSet DEF Client!LostUnnoticed
  <2> QED
    BY <1>3, <2>1, <2>4 DEF SlotGoesOn, Client!LostUnnoticed
<1>4. ASSUME NEW s \in Slots, Client!SocketFails(s) PROVE SlotRejects(s)
  <2>1. clFaults' = clFaults \/ (clFaults < MaxFaults /\ clFaults' = clFaults + 1)
    BY <1>4 DEF Client!SocketFails, Client!Fault
  <2> QED
    BY <1>4, <2>1, RejectedSlot DEF Client!SocketFails, Tries
<1>5. ASSUME NEW s \in Slots, Client!HelloRefused(s) PROVE SlotRejects(s)
  BY <1>5, RejectedSlot DEF Client!HelloRefused, Tries
<1>6. ASSUME NEW s \in Slots, Client!HandshakeTimeout(s) PROVE SlotRejects(s)
  <2>1. sockets[s].link \in {"none", "open", "closing", "lost"} /\ (sockets[s].link = "open" => slow)
    BY <1>0, <1>6 DEF Client!HandshakeTimeout, Client!Socket
  <2> QED
    BY <1>6, <2>1, RejectedSlot DEF Client!HandshakeTimeout, Tries
<1>7. ASSUME NEW s \in Slots, Client!PeerReady(s) PROVE SlotLives(s)
  <2> DEFINE r == [sockets[s] EXCEPT !.phase = "live"]
  <2>1. r \in Client!Socket /\ r.phase = "live" /\ r.link = sockets[s].link
        /\ r.origin = sockets[s].origin
    BY <1>0 DEF Client!Socket
  <2>2. sockets' = [sockets EXCEPT ![s] = r]
    BY <1>7 DEF Client!PeerReady, ClientTyped
  <2> HIDE DEF r
  <2>3. SlotOnly(s) /\ sockets'[s] = r
    BY <1>7, <2>1, <2>2, SlotSet DEF Client!PeerReady
  <2> QED
    BY <1>7, <2>1, <2>3 DEF SlotLives, Client!PeerReady, Tries
<1>8. ASSUME NEW s \in Slots, Client!SocketCloses(s) PROVE SlotCloses(s)
  <2>1. clFaults' = clFaults \/ (clFaults < MaxFaults /\ clFaults' = clFaults + 1)
    BY <1>8 DEF Client!SocketCloses, Client!Fault
  <2>2. SlotOnly(s) /\ sockets'[s] = Client!Free
    BY <1>8, <2>1, SlotSet, ClientFreeTyped DEF Client!SocketCloses
  <2>3. clFaults' > clFaults \/ sockets[s].link = "closing"
    BY <1>8 DEF Client!SocketCloses, Client!Fault, ClientTyped
  <2>4. /\ clTimers' \in {clTimers, clTimers + 1}
        /\ userClosed => (clState' = "closed" /\ clTimers' = clTimers)
        /\ ~userClosed /\ clState \in {"connected", "connecting"} =>
             clState' = "connecting" /\ clTimers' = clTimers + 1
        /\ ~userClosed /\ clState \notin {"connected", "connecting"} =>
             clState' = clState /\ clTimers' = clTimers
    BY <1>8 DEF Client!SocketCloses, Client!HandleClose
  <2> QED
    BY <1>8, <2>2, <2>3, <2>4 DEF SlotCloses, Client!SocketCloses
<1>9. ASSUME NEW s \in Slots, Client!FailedCloses(s) PROVE SlotIsForgotten(s)
  <2>1. clFaults' = clFaults \/ (clFaults < MaxFaults /\ clFaults' = clFaults + 1)
    BY <1>9 DEF Client!FailedCloses, Client!Fault
  <2>2. SlotOnly(s) /\ sockets'[s] = Client!Free
    BY <1>9, <2>1, SlotSet, ClientFreeTyped DEF Client!FailedCloses
  <2> QED
    BY <1>9, <2>2 DEF SlotIsForgotten, Client!FailedCloses
<1>10. ASSUME NEW s \in Slots, NEW origin \in {"connect", "timer"}, Client!Establish(s, origin),
              UNCHANGED <<clClosing, slow, channels, clFaults>>
       PROVE  SlotBegins(s, origin)
  <2> DEFINE r == [Client!Free EXCEPT !.phase = "opening", !.origin = origin]
  <2>1. r \in Client!Socket /\ r.phase = "opening" /\ r.link = "none" /\ r.origin = origin
    BY DEF Client!Socket, Client!Free
  <2>3. sockets' = [sockets EXCEPT ![s] = r]
    BY <1>10 DEF Client!Establish
  <2> HIDE DEF r
  <2>2. SlotOnly(s) /\ sockets'[s] = r
    BY <1>10, <2>1, <2>3, SlotSet
  <2> QED
    BY <1>10, <2>1, <2>2 DEF SlotBegins, Client!Establish
<1>11. ASSUME NEW s \in Slots, Client!TimerFires(s) PROVE TimerBegins(s) \/ TimerIsSpent
  BY <1>10, <1>11 DEF Client!TimerFires, TimerBegins, TimerIsSpent
<1>12. ASSUME NEW s \in Slots, Client!Connect(s) PROVE ConnectBegins(s)
  <2>1. connects' \in 0..MaxClientConnects /\ connects' = connects + 1
    BY <1>12, BackendConstants DEF Client!Connect, ClientTyped
  <2> QED
    BY <1>10, <1>12, <2>1 DEF Client!Connect, ConnectBegins
<1> QED
  BY <1>1, <1>2, <1>3, <1>4, <1>5, <1>6, <1>7, <1>8, <1>9, <1>11, <1>12
  DEF Client!Next, ClientMoves

LEMMA SlotCounts ==
  ASSUME NEW s \in Slots, \A r \in Slots \ {s} : sockets'[r] = sockets[r]
  PROVE  /\ Cardinality(Busy) \in Nat /\ Cardinality(Busy') \in Nat
         /\ Cardinality(Retrying) \in Nat /\ Cardinality(Retrying') \in Nat
         /\ Cardinality(Ending) \in Nat /\ Cardinality(Ending') \in Nat
         /\ Cardinality(Busy') - One(Works(sockets'[s])) = Cardinality(Busy) - One(Works(sockets[s]))
         /\ Cardinality(Retrying') - One(Retries(sockets'[s])) =
              Cardinality(Retrying) - One(Retries(sockets[s]))
         /\ Cardinality(Ending') - One(Ends(sockets'[s])) = Cardinality(Ending) - One(Ends(sockets[s]))
<1>1. /\ Busy \in SUBSET Slots /\ Busy' \in SUBSET Slots /\ Busy \ {s} = Busy' \ {s}
      /\ s \in Busy <=> Works(sockets[s])
      /\ s \in Busy' <=> Works(sockets'[s])
  BY DEF Busy
<1>2. /\ Retrying \in SUBSET Slots /\ Retrying' \in SUBSET Slots /\ Retrying \ {s} = Retrying' \ {s}
      /\ s \in Retrying <=> Retries(sockets[s])
      /\ s \in Retrying' <=> Retries(sockets'[s])
  BY DEF Retrying
<1>3. /\ Ending \in SUBSET Slots /\ Ending' \in SUBSET Slots /\ Ending \ {s} = Ending' \ {s}
      /\ s \in Ending <=> Ends(sockets[s])
      /\ s \in Ending' <=> Ends(sockets'[s])
  BY DEF Ending
<1>4. /\ One(s \in Busy) = One(Works(sockets[s])) /\ One(s \in Busy') = One(Works(sockets'[s]))
      /\ One(s \in Retrying) = One(Retries(sockets[s]))
      /\ One(s \in Retrying') = One(Retries(sockets'[s]))
      /\ One(s \in Ending) = One(Ends(sockets[s])) /\ One(s \in Ending') = One(Ends(sockets'[s]))
  BY <1>1, <1>2, <1>3 DEF One
<1>5. /\ Cardinality(Busy) \in Nat /\ Cardinality(Busy') \in Nat
      /\ Cardinality(Busy') - One(s \in Busy') = Cardinality(Busy) - One(s \in Busy)
  BY <1>1, CountMoves
<1>6. /\ Cardinality(Retrying) \in Nat /\ Cardinality(Retrying') \in Nat
      /\ Cardinality(Retrying') - One(s \in Retrying') = Cardinality(Retrying) - One(s \in Retrying)
  BY <1>2, CountMoves
<1>7. /\ Cardinality(Ending) \in Nat /\ Cardinality(Ending') \in Nat
      /\ Cardinality(Ending') - One(s \in Ending') = Cardinality(Ending) - One(s \in Ending)
  BY <1>3, CountMoves
<1> QED
  BY <1>4, <1>5, <1>6, <1>7

LEMMA CountsKept ==
  ASSUME UNCHANGED sockets
  PROVE  /\ Busy' = Busy /\ Retrying' = Retrying /\ Ending' = Ending
         /\ Cardinality(Busy) \in Nat /\ Cardinality(Retrying) \in Nat /\ Cardinality(Ending) \in Nat
<1>1. Busy' = Busy /\ Retrying' = Retrying /\ Ending' = Ending
  BY DEF Busy, Retrying, Ending
<1>2. Busy \in SUBSET Slots /\ Retrying \in SUBSET Slots /\ Ending \in SUBSET Slots
  BY DEF Busy, Retrying, Ending
<1>3. \A A \in SUBSET Slots : Cardinality(A) \in Nat
  BY BackendConstants, FS_Subset, FS_CardinalityType
<1> QED
  BY <1>1, <1>2, <1>3

\* What close() does to the socket it closes.
LEMMA CloseMoves ==
  ASSUME ClientTyped, Client!Close
  PROVE  /\ sockets' \in [Slots -> Client!Socket]
         /\ \A r \in Slots \ {clSocket} : sockets'[r] = sockets[r]
         /\ clSocket \in Slots =>
              \/ sockets'[clSocket] = Client!Free /\ sockets[clSocket].phase \in {"failed", "free"}
              \/ /\ sockets'[clSocket].phase = sockets[clSocket].phase
                 /\ sockets'[clSocket].origin = sockets[clSocket].origin
<1>1. CASE clSocket = NoSlot
  <2>1. sockets' = sockets
    BY <1>1 DEF Client!Close
  <2> QED
    BY <1>1, <2>1, BackendConstants DEF ClientTyped
<1>2. CASE clSocket # NoSlot /\ sockets[clSocket].phase \in {"failed", "free"}
  <2>1. sockets' = [sockets EXCEPT ![clSocket] = Client!Free]
    BY <1>2 DEF Client!Close
  <2> QED
    BY <1>2, <2>1, ClientFreeTyped DEF ClientTyped
<1>3. CASE clSocket # NoSlot /\ sockets[clSocket].phase \notin {"failed", "free"}
  <2> DEFINE r == [sockets[clSocket] EXCEPT !.link = "closing"]
  <2>1. sockets' = [sockets EXCEPT ![clSocket] = r]
    BY <1>3 DEF Client!Close, ClientTyped
  <2>2. /\ clSocket \in Slots /\ r \in Client!Socket /\ r.phase = sockets[clSocket].phase
        /\ r.origin = sockets[clSocket].origin
    BY <1>3 DEF ClientTyped, Client!Socket
  <2> HIDE DEF r
  <2>3. sockets'[clSocket] = r /\ sockets' \in [Slots -> Client!Socket]
    BY <2>1, <2>2 DEF ClientTyped
  <2> QED
    BY <2>1, <2>2, <2>3 DEF ClientTyped
<1> QED
  BY <1>1, <1>2, <1>3

LEMMA ClientTypes ==
  ASSUME ClientTyped, ClientMoves
  PROVE  ClientTyped'
<1> USE BackendConstants
<1>1. ASSUME NEW s \in Slots, SlotGoesOn(s) \/ SlotRejects(s) \/ SlotIsForgotten(s)
      PROVE  ClientTyped'
  <2>1. /\ SlotOnly(s) /\ sockets[s].phase # "live"
        /\ UNCHANGED <<userClosed, clState, clSocket, channels, connects>>
        /\ clTimers' \in {clTimers, clTimers + 1} /\ clRejected' \in BOOLEAN
    BY <1>1 DEF SlotGoesOn, SlotRejects, SlotIsForgotten, Tries, One, ClientTyped
  <2>2. channels \in SUBSET {r \in Slots : sockets'[r].phase = "live"}
    BY <2>1 DEF SlotOnly, ClientTyped
  <2> QED
    BY <2>1, <2>2 DEF SlotOnly, ClientTyped
<1>2. ASSUME NEW s \in Slots, SlotLives(s)
      PROVE  ClientTyped'
  <2>1. channels \in SUBSET {r \in Slots : sockets'[r].phase = "live"}
    BY <1>2 DEF SlotLives, SlotOnly, ClientTyped
  <2> QED
    BY <1>2, <2>1 DEF SlotLives, SlotOnly, ClientTyped
<1>3. ASSUME NEW s \in Slots, SlotCloses(s)
      PROVE  ClientTyped'
  <2>1. clState' \in {"idle", "connecting", "connected", "closed"}
    BY <1>3 DEF SlotCloses, ClientTyped
  <2> QED
    BY <1>3, <2>1 DEF SlotCloses, SlotOnly, ClientTyped
<1>4. ASSUME NEW s \in Slots, TimerBegins(s) \/ ConnectBegins(s)
      PROVE  ClientTyped'
  <2>1. /\ SlotOnly(s) /\ sockets[s].phase = "free" /\ clSocket' = s /\ clState' = "connecting"
        /\ channels' = channels /\ userClosed' \in BOOLEAN /\ clRejected' \in BOOLEAN
        /\ connects' \in 0..MaxClientConnects /\ clTimers' \in Nat
    <3>1. CASE TimerBegins(s)
      BY <3>1 DEF TimerBegins, SlotBegins, ClientTyped
    <3>2. CASE ConnectBegins(s)
      BY <3>2 DEF ConnectBegins, SlotBegins, ClientTyped
    <3> QED
      BY <1>4, <3>1, <3>2
  <2>2. channels' \in SUBSET {r \in Slots : sockets'[r].phase = "live"}
    BY <2>1 DEF SlotOnly, ClientTyped
  <2> QED
    BY <2>1, <2>2 DEF SlotOnly, ClientTyped
<1>5. CASE Client!Close
  BY <1>5, CloseMoves DEF Client!Close, Client!settings, ClientTyped
<1>6. CASE Client!OpenChannel
  BY <1>6 DEF Client!OpenChannel, Client!settings, ClientTyped
<1>7. CASE TimerIsSpent
  BY <1>7 DEF TimerIsSpent, ClientTyped
<1> QED
  BY <1>1, <1>2, <1>3, <1>4, <1>5, <1>6, <1>7 DEF ClientMoves

LEMMA IdlesKept ==
  ASSUME ClientTyped, ClientIdles, ClientMoves
  PROVE  ClientIdles'
<1> USE BackendConstants
<1>1. ASSUME NEW s \in Slots, SlotGoesOn(s) \/ SlotRejects(s) \/ SlotIsForgotten(s)
      PROVE  ClientIdles'
  <2>1. sockets[s].phase # "free" /\ UNCHANGED <<clState, connects>>
    BY <1>1 DEF SlotGoesOn, SlotRejects, SlotIsForgotten, Tries
  <2> QED
    BY <2>1 DEF ClientIdles
<1>2. ASSUME NEW s \in Slots, SlotLives(s) \/ SlotCloses(s)
      PROVE  ClientIdles'
  <2>1. clState # "idle" /\ clState' # "idle" /\ UNCHANGED connects
    BY <1>2 DEF SlotLives, SlotCloses, Tries, ClientIdles
  <2> QED
    BY <2>1 DEF ClientIdles
<1>3. ASSUME NEW s \in Slots, TimerBegins(s) \/ ConnectBegins(s)
      PROVE  ClientIdles'
  <2>1. clState' # "idle" /\ connects' # 0
    BY <1>3 DEF TimerBegins, ConnectBegins, SlotBegins, ClientIdles, ClientTyped
  <2> QED
    BY <2>1 DEF ClientIdles
<1>4. CASE Client!Close
  BY <1>4 DEF Client!Close, ClientIdles
<1>5. CASE Client!OpenChannel \/ TimerIsSpent
  BY <1>5 DEF Client!OpenChannel, TimerIsSpent, ClientIdles, ClientTyped
<1> QED
  BY <1>1, <1>2, <1>3, <1>4, <1>5 DEF ClientMoves

LEMMA ClientBudgetKept ==
  ASSUME ClientTyped, ClientIdles, ClientBudget, ClientMoves
  PROVE  ClientBudget'
<1>0. /\ clTimers \in Nat /\ clFaults \in Nat /\ connects \in Nat
      /\ One(Wanted) \in {0, 1} /\ One(Wanted') \in {0, 1}
  BY BackendConstants DEF ClientTyped, One
<1>1. ASSUME NEW s \in Slots, SlotOnly(s),
             clTimers' \in Nat, connects' \in Nat, clFaults' \in Nat,
             clTimers' + One(Retries(sockets'[s])) + One(Ends(sockets'[s])) + One(Wanted')
               - clFaults' - connects'
             <= clTimers + One(Retries(sockets[s])) + One(Ends(sockets[s])) + One(Wanted)
                  - clFaults - connects
      PROVE  ClientBudget'
  <2>1. /\ Cardinality(Retrying) \in Nat /\ Cardinality(Retrying') \in Nat
        /\ Cardinality(Ending) \in Nat /\ Cardinality(Ending') \in Nat
        /\ Cardinality(Retrying') - One(Retries(sockets'[s])) =
             Cardinality(Retrying) - One(Retries(sockets[s]))
        /\ Cardinality(Ending') - One(Ends(sockets'[s])) = Cardinality(Ending) - One(Ends(sockets[s]))
    BY <1>1, SlotCounts DEF SlotOnly
  <2>2. /\ One(Retries(sockets'[s])) \in {0, 1} /\ One(Retries(sockets[s])) \in {0, 1}
        /\ One(Ends(sockets'[s])) \in {0, 1} /\ One(Ends(sockets[s])) \in {0, 1}
    BY DEF One
  <2> QED
    BY <1>0, <1>1, <2>1, <2>2 DEF ClientBudget
<1>2. ASSUME NEW s \in Slots, SlotOnly(s) PROVE clFaults' \in Nat /\ clFaults' >= clFaults
  BY <1>2, BackendConstants DEF SlotOnly
<1>3. ASSUME NEW s \in Slots, SlotGoesOn(s) PROVE ClientBudget'
  <2>1. /\ SlotOnly(s) /\ UNCHANGED <<clTimers, connects>> /\ (Wanted' <=> Wanted)
        /\ Retries(sockets'[s]) <=> Retries(sockets[s])
        /\ Ends(sockets'[s]) => Ends(sockets[s])
    BY <1>3 DEF SlotGoesOn, Wanted, Retries, Ends, Works, Tries
  <2>2. /\ One(Retries(sockets'[s])) = One(Retries(sockets[s]))
        /\ One(Ends(sockets'[s])) <= One(Ends(sockets[s])) /\ One(Wanted') = One(Wanted)
        /\ One(Ends(sockets'[s])) \in {0, 1} /\ One(Ends(sockets[s])) \in {0, 1}
        /\ One(Retries(sockets[s])) \in {0, 1}
    BY <2>1 DEF One
  <2> QED
    BY <1>0, <1>1, <1>2, <2>1, <2>2
<1>4. ASSUME NEW s \in Slots, SlotRejects(s) PROVE ClientBudget'
  <2>1. /\ SlotOnly(s) /\ UNCHANGED connects /\ (Wanted' <=> Wanted)
        /\ ~Retries(sockets'[s]) /\ ~Ends(sockets'[s])
        /\ Retries(sockets[s]) <=> sockets[s].origin = "timer"
        /\ clTimers' = clTimers + One(sockets[s].origin = "timer")
    BY <1>4 DEF SlotRejects, Wanted, Retries, Ends, Works, Tries
  <2>2. /\ One(Retries(sockets'[s])) = 0 /\ One(Ends(sockets'[s])) = 0
        /\ clTimers' = clTimers + One(Retries(sockets[s])) /\ One(Wanted') = One(Wanted)
        /\ One(Ends(sockets[s])) \in {0, 1}
        /\ One(Retries(sockets[s])) \in {0, 1}
    BY <2>1 DEF One
  <2> QED
    BY <1>0, <1>1, <1>2, <2>1, <2>2
<1>5. ASSUME NEW s \in Slots, SlotLives(s) PROVE ClientBudget'
  <2>1. /\ SlotOnly(s) /\ UNCHANGED <<clTimers, connects>> /\ (Wanted' <=> Wanted)
        /\ ~Retries(sockets'[s])
        /\ Ends(sockets'[s]) <=> Ends(sockets[s])
    BY <1>5 DEF SlotLives, Wanted, Retries, Ends, Works, Tries
  <2>2. /\ One(Retries(sockets'[s])) = 0
        /\ One(Ends(sockets'[s])) = One(Ends(sockets[s])) /\ One(Wanted') = One(Wanted)
        /\ One(Ends(sockets[s])) \in {0, 1}
        /\ One(Retries(sockets[s])) \in {0, 1}
    BY <2>1 DEF One
  <2> QED
    BY <1>0, <1>1, <1>2, <2>1, <2>2
<1>6. ASSUME NEW s \in Slots, SlotCloses(s) PROVE ClientBudget'
  <2>1. /\ SlotOnly(s) /\ UNCHANGED connects /\ (Wanted' <=> Wanted)
        /\ clTimers' \in {clTimers, clTimers + 1}
        /\ ~Retries(sockets'[s]) /\ ~Ends(sockets'[s]) /\ ~Retries(sockets[s])
        /\ clFaults' > clFaults \/ Ends(sockets[s])
    BY <1>6 DEF SlotCloses, Wanted, Retries, Ends, Works, Tries, Client!Free
  <2>2. /\ One(Retries(sockets'[s])) = 0 /\ One(Ends(sockets'[s])) = 0
        /\ One(Wanted') = One(Wanted) /\ One(Retries(sockets[s])) = 0
        /\ One(Ends(sockets[s])) \in {0, 1}
        /\ clFaults' > clFaults \/ One(Ends(sockets[s])) = 1
    BY <2>1 DEF One
  <2> QED
    BY <1>0, <1>1, <1>2, <2>1, <2>2
<1>7. ASSUME NEW s \in Slots, SlotIsForgotten(s) PROVE ClientBudget'
  <2>1. /\ SlotOnly(s) /\ UNCHANGED <<clTimers, connects>> /\ (Wanted' <=> Wanted)
        /\ ~Retries(sockets'[s]) /\ ~Ends(sockets'[s])
    BY <1>7 DEF SlotIsForgotten, Wanted, Retries, Ends, Works, Tries, Client!Free
  <2>2. /\ One(Retries(sockets'[s])) = 0 /\ One(Ends(sockets'[s])) = 0
        /\ One(Wanted') = One(Wanted)
        /\ One(Retries(sockets[s])) \in {0, 1} /\ One(Ends(sockets[s])) \in {0, 1}
    BY <2>1 DEF One
  <2> QED
    BY <1>0, <1>1, <1>2, <2>1, <2>2
<1>8. ASSUME NEW s \in Slots, TimerBegins(s) PROVE ClientBudget'
  <2>1. /\ SlotOnly(s) /\ UNCHANGED connects /\ (Wanted' <=> Wanted)
        /\ clTimers > 0 /\ clTimers' = clTimers - 1
        /\ ~Retries(sockets[s]) /\ ~Ends(sockets'[s])
    BY <1>8 DEF TimerBegins, SlotBegins, Wanted, Retries, Ends, Works, Tries
  <2>2. /\ One(Retries(sockets[s])) = 0 /\ One(Ends(sockets'[s])) = 0
        /\ One(Wanted') = One(Wanted)
        /\ One(Retries(sockets'[s])) \in {0, 1} /\ One(Ends(sockets[s])) \in {0, 1}
    BY <2>1 DEF One
  <2> QED
    BY <1>0, <1>1, <1>2, <2>1, <2>2
<1>9. ASSUME NEW s \in Slots, ConnectBegins(s) PROVE ClientBudget'
  <2>1. /\ SlotOnly(s) /\ connects' = connects + 1 /\ clTimers' = clTimers
        /\ ~Retries(sockets'[s]) /\ ~Ends(sockets'[s])
    BY <1>9 DEF ConnectBegins, SlotBegins, Retries, Ends, Works, Tries
  <2>2. /\ One(Retries(sockets'[s])) = 0 /\ One(Ends(sockets'[s])) = 0
        /\ One(Retries(sockets[s])) \in {0, 1} /\ One(Ends(sockets[s])) \in {0, 1}
    BY <2>1 DEF One
  <2> QED
    BY <1>0, <1>1, <1>2, <2>1, <2>2
<1>10. CASE Client!Close
  <2>1. UNCHANGED <<clTimers, connects, clFaults>>
    BY <1>10 DEF Client!Close
  <2>2. One(Wanted) = 1 /\ One(Wanted') = 0
    BY <1>10 DEF Client!Close, Wanted, ClientIdles, One
  <2>3. CASE clSocket = NoSlot
    <3>1. sockets' = sockets
      BY <1>10, <2>3 DEF Client!Close
    <3>2. Retrying' = Retrying /\ Ending' = Ending
          /\ Cardinality(Retrying) \in Nat /\ Cardinality(Ending) \in Nat
      BY <3>1, CountsKept
    <3> QED
      BY <1>0, <2>1, <2>2, <3>2 DEF ClientBudget
  <2>4. CASE clSocket # NoSlot
    <3>1. clSocket \in Slots
      BY <2>4 DEF ClientTyped
    <3>2. /\ \A r \in Slots \ {clSocket} : sockets'[r] = sockets[r]
          /\ Retries(sockets'[clSocket]) <=> Retries(sockets[clSocket])
      BY <1>10, <3>1, CloseMoves DEF Retries, Tries, Client!Free
    <3>3. /\ Cardinality(Retrying) \in Nat /\ Cardinality(Retrying') \in Nat
          /\ Cardinality(Ending) \in Nat /\ Cardinality(Ending') \in Nat
          /\ Cardinality(Retrying') - One(Retries(sockets'[clSocket])) =
               Cardinality(Retrying) - One(Retries(sockets[clSocket]))
          /\ Cardinality(Ending') - One(Ends(sockets'[clSocket])) =
               Cardinality(Ending) - One(Ends(sockets[clSocket]))
      BY <3>1, <3>2, SlotCounts
    <3>4. /\ One(Retries(sockets'[clSocket])) = One(Retries(sockets[clSocket]))
          /\ One(Retries(sockets[clSocket])) \in {0, 1}
          /\ One(Ends(sockets'[clSocket])) \in {0, 1} /\ One(Ends(sockets[clSocket])) \in {0, 1}
      BY <3>2 DEF One
    <3> QED
      BY <1>0, <2>1, <2>2, <3>3, <3>4 DEF ClientBudget
  <2> QED
    BY <2>3, <2>4
<1>11. CASE Client!OpenChannel \/ TimerIsSpent
  <2>1. /\ UNCHANGED <<connects, clFaults, sockets>> /\ (Wanted' <=> Wanted)
        /\ clTimers' \in {clTimers, clTimers - 1}
    BY <1>11 DEF Client!OpenChannel, TimerIsSpent, Wanted, ClientTyped
  <2>2. Retrying' = Retrying /\ Ending' = Ending
        /\ Cardinality(Retrying) \in Nat /\ Cardinality(Ending) \in Nat
    BY <2>1, CountsKept
  <2>3. One(Wanted') = One(Wanted)
    BY <2>1 DEF One
  <2> QED
    BY <1>0, <2>1, <2>2, <2>3 DEF ClientBudget
<1> QED
  BY <1>3, <1>4, <1>5, <1>6, <1>7, <1>8, <1>9, <1>10, <1>11 DEF ClientMoves

LEMMA ClientTriesKept ==
  ASSUME ClientTyped, ClientIdles, ClientTries, ClientMoves
  PROVE  ClientTries'
<1> DEFINE Something == clTimers > 0 \/ \E r \in Slots : Tries(sockets[r])
<1>0. /\ clState = "connecting" /\ ~clRejected => Something
      /\ userClosed => clState # "connecting"
      /\ \A r \in Slots : Tries(sockets[r]) => sockets[r].origin \in {"connect", "timer"}
      /\ clTimers \in Nat
  BY DEF ClientTries, Client!ConnectingIsTrying, Client!Running, Tries, ClientTyped
<1>1. ASSUME /\ clState' = "connecting" /\ ~clRejected' => Something'
             /\ userClosed' => clState' # "connecting"
             /\ \A r \in Slots : Tries(sockets'[r]) => sockets'[r].origin \in {"connect", "timer"}
      PROVE  ClientTries'
  BY <1>1 DEF ClientTries, Client!ConnectingIsTrying, Client!Running, Tries
<1>2. ASSUME NEW s \in Slots, SlotOnly(s) PROVE \A r \in Slots \ {s} : sockets'[r] = sockets[r]
  BY <1>2 DEF SlotOnly
<1>3. ASSUME NEW s \in Slots, SlotGoesOn(s) \/ SlotIsForgotten(s) PROVE ClientTries'
  <2>1. /\ \A r \in Slots \ {s} : sockets'[r] = sockets[r]
        /\ UNCHANGED <<userClosed, clState, clTimers, clRejected>>
        /\ Tries(sockets'[s]) <=> Tries(sockets[s])
        /\ Tries(sockets[s]) => sockets'[s].origin = sockets[s].origin
    BY <1>2, <1>3 DEF SlotGoesOn, SlotIsForgotten, Tries, Client!Free
  <2>2. \A r \in Slots : Tries(sockets'[r]) <=> Tries(sockets[r])
    BY <2>1
  <2> QED
    BY <1>0, <1>1, <2>1, <2>2
<1>4. ASSUME NEW s \in Slots, SlotRejects(s) PROVE ClientTries'
  <2>1. /\ \A r \in Slots \ {s} : sockets'[r] = sockets[r]
        /\ UNCHANGED <<userClosed, clState>> /\ ~Tries(sockets'[s])
        /\ sockets[s].origin = "timer" => clTimers' > 0
        /\ sockets[s].origin = "connect" => clRejected'
    BY <1>0, <1>2, <1>4 DEF SlotRejects, Tries, One
  <2>2. sockets[s].origin \in {"connect", "timer"}
    BY <1>0, <1>4 DEF SlotRejects
  <2> QED
    BY <1>0, <1>1, <2>1, <2>2
<1>5. ASSUME NEW s \in Slots, SlotLives(s) PROVE ClientTries'
  <2>1. /\ \A r \in Slots \ {s} : sockets'[r] = sockets[r]
        /\ clState' = "connected" /\ ~Tries(sockets'[s])
    BY <1>2, <1>5 DEF SlotLives, Tries
  <2> QED
    BY <1>0, <1>1, <2>1
<1>6. ASSUME NEW s \in Slots, SlotCloses(s) PROVE ClientTries'
  <2>1. /\ \A r \in Slots \ {s} : sockets'[r] = sockets[r]
        /\ ~Tries(sockets'[s])
        /\ userClosed' => clState' # "connecting"
        /\ clState' = "connecting" => clTimers' > 0
    BY <1>0, <1>2, <1>6 DEF SlotCloses, Tries, Client!Free
  <2> QED
    BY <1>0, <1>1, <2>1
<1>7. ASSUME NEW s \in Slots, TimerBegins(s) \/ ConnectBegins(s) PROVE ClientTries'
  <2>1. /\ SlotOnly(s) /\ ~userClosed'
        /\ Tries(sockets'[s]) /\ sockets'[s].origin \in {"connect", "timer"}
    BY <1>7 DEF TimerBegins, ConnectBegins, SlotBegins, Tries
  <2> QED
    BY <1>0, <1>1, <1>2, <2>1
<1>8. CASE Client!Close
  <2>1. clState' = "closed"
    BY <1>8 DEF Client!Close
  <2>2. ASSUME NEW r \in Slots, Tries(sockets'[r])
        PROVE  Tries(sockets[r]) /\ sockets'[r].origin = sockets[r].origin
    <3>1. CASE r = clSocket
      BY <1>8, <2>2, <3>1, CloseMoves DEF Tries, Client!Free
    <3>2. CASE r # clSocket
      <4>1. sockets'[r] = sockets[r]
        BY <1>8, <3>2, CloseMoves
      <4> QED
        BY <2>2, <4>1
    <3> QED
      BY <3>1, <3>2
  <2> QED
    BY <1>0, <1>1, <2>1, <2>2
<1>9. CASE Client!OpenChannel \/ TimerIsSpent
  <2>1. /\ UNCHANGED <<userClosed, clState, clRejected, sockets>>
        /\ clTimers' = clTimers \/ userClosed
    BY <1>9 DEF Client!OpenChannel, TimerIsSpent
  <2> QED
    BY <1>0, <1>1, <2>1
<1> QED
  BY <1>3, <1>4, <1>5, <1>6, <1>7, <1>8, <1>9 DEF ClientMoves

LEMMA OneBusy ==
  ASSUME ClientTyped, ClientLineage, Client!Undisturbed, NEW s \in Slots, Works(sockets[s])
  PROVE  /\ \A r \in Slots : Works(sockets[r]) <=> r = s
         /\ clSocket = s /\ clTimers = 0 /\ Cardinality(Busy) = 1
<1>1. Busy \in SUBSET Slots /\ s \in Busy
  BY DEF Busy
<1>2. Cardinality(Busy) \in Nat /\ Cardinality(Busy) >= 1
  BY <1>1, CountOfSlots
<1>3. clTimers = 0 /\ Cardinality(Busy) = 1 /\ clSocket = s
  BY <1>1, <1>2 DEF ClientTyped, ClientLineage
<1>4. \A r \in Busy : r = s
  BY <1>1, <1>3, OneOfSlots
<1> QED
  BY <1>1, <1>3, <1>4 DEF Busy

LEMMA NoneBusy ==
  ASSUME ClientTyped, ClientIdles, ClientLineage, Client!Undisturbed,
         clTimers > 0 \/ clState = "idle"
  PROVE  \A r \in Slots : ~Works(sockets[r])
<1>1. CASE clState = "idle"
  BY <1>1 DEF ClientIdles, Works, Tries
<1>2. CASE clTimers > 0
  BY <1>2, OneBusy DEF ClientTyped
<1> QED
  BY <1>1, <1>2

\* A step that begins no thread but in place of another, or where there is none.
NoMoreThreads(s) ==
    \/ clTimers' + One(Works(sockets'[s])) <= clTimers + One(Works(sockets[s]))
    \/ (\A r \in Slots : ~Works(sockets[r])) /\ clTimers' = 0

LEMMA ClientLineageKept ==
  ASSUME ClientTyped, ClientIdles, ClientLineage, ClientMoves
  PROVE  ClientLineage'
<1> SUFFICES ASSUME Client!Undisturbed' PROVE ClientLineage'
  BY DEF ClientLineage
<1>0. Client!Undisturbed
  BY DEF ClientMoves, Client!Close, Client!OpenChannel, Client!settings, TimerIsSpent, SlotGoesOn,
     SlotRejects, SlotLives, SlotCloses, SlotIsForgotten, TimerBegins, ConnectBegins, SlotBegins,
     SlotOnly, Client!Undisturbed
<1>1. /\ ~userClosed /\ clState # "closed" /\ clTimers \in Nat
      /\ Cardinality(Busy) + clTimers <= 1
      /\ clState = "connected" => clSocket # NoSlot /\ sockets[clSocket].phase = "live"
      /\ \A r \in Slots : /\ sockets[r].phase # "failed" /\ sockets[r].link # "closing"
                          /\ Works(sockets[r]) => clSocket = r
                          /\ ~Works(sockets[r]) => sockets[r].link = "none"
  BY <1>0 DEF ClientLineage, ClientTyped, Busy
<1>2. ASSUME NEW s \in Slots, SlotOnly(s), ~userClosed', clState' # "closed", clTimers' \in Nat, NoMoreThreads(s),
             clState' = "connected" => clSocket' # NoSlot /\ sockets'[clSocket'].phase = "live",
             sockets'[s].phase # "failed", sockets'[s].link # "closing",
             Works(sockets'[s]) => clSocket' = s,
             ~Works(sockets'[s]) => sockets'[s].link = "none",
             clSocket' = clSocket \/ \A r \in Slots \ {s} : ~Works(sockets[r])
      PROVE  ClientLineage'
  <2>1. /\ Cardinality(Busy) \in Nat /\ Cardinality(Busy') \in Nat
        /\ Cardinality(Busy') - One(Works(sockets'[s])) = Cardinality(Busy) - One(Works(sockets[s]))
    BY <1>2, SlotCounts DEF SlotOnly
  <2>2. One(Works(sockets'[s])) \in {0, 1} /\ One(Works(sockets[s])) \in {0, 1}
    BY DEF One
  <2>3. Cardinality(Busy') + clTimers' <= 1
    <3>1. CASE clTimers' + One(Works(sockets'[s])) <= clTimers + One(Works(sockets[s]))
      BY <1>1, <1>2, <2>1, <2>2, <3>1
    <3>2. CASE (\A r \in Slots : ~Works(sockets[r])) /\ clTimers' = 0
      <4>1. Busy = {} /\ ~Works(sockets[s])
        BY <3>2 DEF Busy
      <4>2. Cardinality(Busy) = 0 /\ One(Works(sockets[s])) = 0
        BY <4>1, FS_EmptySet DEF One
      <4> QED
        BY <2>1, <2>2, <3>2, <4>2
    <3> QED
      BY <1>2, <3>1, <3>2 DEF NoMoreThreads
  <2>4. ASSUME NEW r \in Slots
        PROVE  /\ sockets'[r].phase # "failed" /\ sockets'[r].link # "closing"
               /\ Works(sockets'[r]) => clSocket' = r
               /\ ~Works(sockets'[r]) => sockets'[r].link = "none"
    <3>1. CASE r = s
      BY <1>2, <3>1
    <3>2. CASE r # s
      <4>1. sockets'[r] = sockets[r]
        BY <1>2, <3>2 DEF SlotOnly
      <4> QED
        BY <1>1, <1>2, <3>2, <4>1
    <3> QED
      BY <3>1, <3>2
  <2> QED
    BY <1>2, <2>3, <2>4 DEF ClientLineage, Busy
<1>3. ASSUME NEW s \in Slots, SlotGoesOn(s) PROVE ClientLineage'
  <2>1. /\ SlotOnly(s) /\ Works(sockets[s]) /\ Works(sockets'[s])
        /\ sockets'[s].phase # "failed" /\ sockets'[s].link # "closing"
        /\ UNCHANGED <<userClosed, clState, clTimers, clSocket>>
        /\ sockets[s].phase # "live" /\ clSocket = s
    BY <1>1, <1>3 DEF SlotGoesOn, Works, Tries
  <2>2. One(Works(sockets'[s])) = One(Works(sockets[s])) /\ One(Works(sockets[s])) \in {0, 1}
    BY <2>1 DEF One
  <2>3. clState' # "connected"
    BY <1>1, <2>1
  <2>4. clTimers' = clTimers
    BY <2>1
  <2>5. NoMoreThreads(s)
    BY <1>1, <2>2, <2>4 DEF NoMoreThreads
  <2> QED
    BY <1>1, <1>2, <2>1, <2>3, <2>5
<1>4. ASSUME NEW s \in Slots, SlotRejects(s) PROVE ClientLineage'
  <2>1. /\ SlotOnly(s) /\ Works(sockets[s]) /\ ~Works(sockets'[s])
        /\ sockets'[s].phase # "failed" /\ sockets'[s].link = "none"
        /\ UNCHANGED <<userClosed, clState, clSocket>>
        /\ sockets[s].phase # "live" /\ clSocket = s
        /\ clTimers' \in {clTimers, clTimers + 1}
    BY <1>0, <1>1, <1>4 DEF SlotRejects, Works, Tries, One, Client!Undisturbed
  <2>2. One(Works(sockets'[s])) = 0 /\ One(Works(sockets[s])) = 1
    BY <2>1 DEF One
  <2>3. clState' # "connected"
    BY <1>1, <2>1
  <2>4. clTimers' \in {clTimers, clTimers + 1}
    BY <2>1
  <2>5. NoMoreThreads(s) /\ clTimers' \in Nat
    BY <1>1, <2>2, <2>4 DEF NoMoreThreads
  <2> QED
    BY <1>1, <1>2, <2>1, <2>3, <2>5
<1>5. ASSUME NEW s \in Slots, SlotLives(s) PROVE ClientLineage'
  <2>1. /\ SlotOnly(s) /\ Works(sockets[s]) /\ Works(sockets'[s])
        /\ sockets'[s].phase = "live" /\ sockets'[s].link = sockets[s].link
        /\ UNCHANGED <<userClosed, clSocket, clTimers>> /\ clState' = "connected"
        /\ clSocket = s
    BY <1>1, <1>5 DEF SlotLives, Works
  <2>2. One(Works(sockets'[s])) = 1 /\ One(Works(sockets[s])) = 1
    BY <2>1 DEF One
  <2>3. clTimers' = clTimers
    BY <2>1
  <2>4. NoMoreThreads(s)
    BY <1>1, <2>2, <2>3 DEF NoMoreThreads
  <2> QED
    BY <1>1, <1>2, <2>1, <2>4, BackendConstants
<1>6. ASSUME NEW s \in Slots, SlotCloses(s) PROVE ClientLineage'
  <2>1. /\ SlotOnly(s) /\ Works(sockets[s]) /\ ~Works(sockets'[s])
        /\ sockets'[s].phase = "free" /\ sockets'[s].link = "none"
        /\ UNCHANGED userClosed /\ clSocket' = NoSlot
        /\ clTimers' \in {clTimers, clTimers + 1}
    BY <1>6 DEF SlotCloses, Works, Tries, Client!Free
  <2>2. One(Works(sockets'[s])) = 0 /\ One(Works(sockets[s])) = 1
    BY <2>1 DEF One
  <2>3. \A r \in Slots \ {s} : ~Works(sockets[r])
    BY <1>0, <2>1, OneBusy
  <2>4. clState' # "connected" /\ clState' # "closed"
    BY <1>1, <1>6 DEF SlotCloses
  <2>5. clTimers' \in {clTimers, clTimers + 1}
    BY <2>1
  <2>6. NoMoreThreads(s) /\ clTimers' \in Nat
    <3>1. clTimers \in Nat
      BY <1>1
    <3>2. CASE clTimers' = clTimers
      BY <2>2, <3>1, <3>2 DEF NoMoreThreads
    <3>3. CASE clTimers' = clTimers + 1
      BY <2>2, <3>1, <3>3 DEF NoMoreThreads
    <3> QED
      BY <2>5, <3>2, <3>3
  <2> QED
    BY <1>1, <1>2, <2>1, <2>3, <2>4, <2>6
<1>7. ASSUME NEW s \in Slots, SlotIsForgotten(s) PROVE ClientLineage'
  BY <1>1, <1>7 DEF SlotIsForgotten
<1>8. ASSUME NEW s \in Slots, TimerBegins(s) \/ ConnectBegins(s) PROVE ClientLineage'
  <2>1. /\ SlotOnly(s) /\ Works(sockets'[s]) /\ sockets'[s].phase = "opening"
        /\ sockets'[s].link = "none" /\ clSocket' = s /\ clState' = "connecting"
        /\ ~userClosed'
    BY <1>8 DEF TimerBegins, ConnectBegins, SlotBegins, Works, Tries
  <2>2. clTimers > 0 \/ clState = "idle"
    BY <1>1, <1>8 DEF TimerBegins, ConnectBegins
  <2>3. \A r \in Slots : ~Works(sockets[r])
    BY <1>0, <2>2, NoneBusy
  <2>4. Cardinality(Busy) \in Nat
    BY <2>1, SlotCounts DEF SlotOnly
  <2>5. clTimers' = 0
    <3>1. CASE TimerBegins(s)
      BY <1>1, <2>4, <3>1 DEF TimerBegins
    <3>2. CASE ConnectBegins(s)
      BY <1>1, <3>2 DEF ConnectBegins, ClientIdles
    <3> QED
      BY <1>8, <3>1, <3>2
  <2>6. NoMoreThreads(s)
    BY <2>3, <2>5 DEF NoMoreThreads
  <2> QED
    BY <1>2, <2>1, <2>3, <2>5, <2>6
<1>9. CASE Client!Close
  BY <1>0, <1>9 DEF Client!Close, Client!Undisturbed
<1>10. CASE TimerIsSpent
  BY <1>1, <1>10 DEF TimerIsSpent
<1>11. CASE Client!OpenChannel
  <2>1. UNCHANGED <<userClosed, clState, clTimers, clSocket, sockets>>
    BY <1>11 DEF Client!OpenChannel
  <2>2. Busy' = Busy
    BY <2>1, CountsKept
  <2> QED
    BY <1>1, <2>1, <2>2 DEF ClientLineage, Busy
<1> QED
  BY <1>3, <1>4, <1>5, <1>6, <1>7, <1>8, <1>9, <1>10, <1>11 DEF ClientMoves

LEMMA ClientInductive ==
  ASSUME ClientIInv, Client!Next
  PROVE  ClientIInv'
<1>1. ClientMoves
  BY ClientSteps DEF ClientIInv
<1> QED
  BY <1>1, ClientTypes, IdlesKept, ClientBudgetKept, ClientTriesKept, ClientLineageKept DEF ClientIInv

LEMMA ClientKept == ClientIInv /\ UNCHANGED clientVars => ClientIInv'
<1> SUFFICES ASSUME ClientIInv, UNCHANGED clientVars PROVE ClientIInv'
  OBVIOUS
<1>0. UNCHANGED <<clClosing, slow, userClosed, clState, clSocket, sockets, clTimers,
                  channels, clRejected, connects, clFaults>>
  BY DEF clientVars
<1>1. Busy' = Busy /\ Retrying' = Retrying /\ Ending' = Ending
  BY <1>0, CountsKept
<1>2. ClientTyped' /\ ClientIdles' /\ ClientTries'
  BY <1>0 DEF ClientIInv, ClientTyped, ClientIdles, ClientTries, Client!ConnectingIsTrying,
     Client!Running
<1>3. One(Wanted') = One(Wanted)
  BY <1>0 DEF Wanted
<1>4. ClientBudget'
  BY <1>0, <1>1, <1>3 DEF ClientIInv, ClientBudget
<1>5. ClientLineage'
  BY <1>0, <1>1 DEF ClientIInv, ClientLineage, Client!Undisturbed
<1> QED
  BY <1>2, <1>4, <1>5 DEF ClientIInv

LEMMA ClientIInvIs ==
  ASSUME ClientIInv
  PROVE  Client!ClientInv
<1>0. ASSUME NEW P PROVE Client!Cardinality(P) = Cardinality(P)
  BY DEF Client!Cardinality, Cardinality
<1>1. /\ Cardinality(Busy) \in Nat /\ Cardinality(Retrying) \in Nat /\ Cardinality(Ending) \in Nat
  <2>1. Busy \in SUBSET Slots /\ Retrying \in SUBSET Slots /\ Ending \in SUBSET Slots
    BY DEF Busy, Retrying, Ending
  <2> QED
    BY <2>1, BackendConstants, FS_Subset, FS_CardinalityType
<1>2. Client!ClientTypeOK
  <2>1. One(Wanted) \in {0, 1}
    BY DEF One
  <2>2. clTimers <= clFaults + connects
    BY <1>1, <2>1, BackendConstants DEF ClientIInv, ClientTyped, ClientBudget
  <2>3. clTimers \in 0..MaxFaults + MaxClientConnects
    BY <2>2, BackendConstants DEF ClientIInv, ClientTyped
  <2> QED
    BY <2>3 DEF ClientIInv, ClientTyped, Client!ClientTypeOK
<1>3. Client!OneThread
  <2>1. Busy = {s \in Slots : Client!Running(s) \/ sockets[s].phase = "live"}
    BY DEF Busy, Works, Tries, Client!Running
  <2> QED
    BY <1>0, <2>1 DEF ClientIInv, ClientLineage, Client!OneThread
<1>4. Client!OneSession
  <2> SUFFICES ASSUME Client!Undisturbed
               PROVE  Cardinality({s \in Slots : sockets[s].link = "open"
                                                 /\ sockets[s].answer = "ready"}) <= 1
    BY <1>0 DEF Client!OneSession
  <2> DEFINE A == {s \in Slots : sockets[s].link = "open" /\ sockets[s].answer = "ready"}
  <2>1. \A s \in A : s = clSocket
    BY DEF ClientIInv, ClientLineage, Busy
  <2> HIDE DEF A
  <2>2. ASSUME A = {} PROVE Cardinality(A) <= 1
    BY <2>2, FS_EmptySet
  <2>3. ASSUME A # {} PROVE Cardinality(A) <= 1
    <3>1. A = {clSocket}
      BY <2>1, <2>3
    <3> QED
      BY <3>1, FS_Singleton
  <2>4. Cardinality(A) <= 1
    BY <2>2, <2>3
  <2> QED
    BY <2>4 DEF A
<1>5. Client!ConnectedHasSocket
  BY DEF ClientIInv, ClientLineage, Client!ConnectedHasSocket
<1>6. Client!ConnectingIsTrying
  BY DEF ClientIInv, ClientTries
<1> QED
  BY <1>2, <1>3, <1>4, <1>5, <1>6 DEF Client!ClientInv

\* What Client!ClientSteps says of a step.
ClientDown ==
    /\ Client!Undisturbed =>
         \A s \in channels \ channels' : userClosed' \/ sockets'[s].phase # "live"
    /\ Client!Undisturbed /\ clTimers' > clTimers =>
         clSocket # NoSlot /\ sockets'[clSocket].phase \in {"free", "failed"}
    /\ userClosed /\ userClosed' =>
         \A s \in Slots : sockets[s].phase = "free" => sockets'[s].phase = "free"

LEMMA ClientStepsDown ==
  ASSUME ClientIInv, Client!Next
  PROVE  ClientDown
<1>0. ClientMoves /\ ClientTyped /\ ClientIdles /\ ClientLineage
  BY ClientSteps DEF ClientIInv
<1>1. ASSUME NEW s \in Slots, SlotGoesOn(s) \/ SlotLives(s) \/ SlotIsForgotten(s) PROVE ClientDown
  <2>1. /\ \A r \in Slots \ {s} : sockets'[r] = sockets[r]
        /\ sockets[s].phase # "free" /\ UNCHANGED <<channels, clTimers>>
    BY <1>1 DEF SlotGoesOn, SlotLives, SlotIsForgotten, SlotOnly, Tries
  <2>2. clTimers \in Nat
    BY <1>0 DEF ClientTyped
  <2> QED
    BY <2>1, <2>2 DEF ClientDown
<1>2. ASSUME NEW s \in Slots, SlotRejects(s) PROVE ClientDown
  <2>1. /\ \A r \in Slots \ {s} : sockets'[r] = sockets[r]
        /\ sockets[s].phase # "free" /\ UNCHANGED channels
        /\ sockets'[s].phase \in {"free", "failed"} /\ Works(sockets[s])
    BY <1>2 DEF SlotRejects, SlotOnly, Works, Tries
  <2>2. Client!Undisturbed => clSocket = s /\ clSocket # NoSlot
    BY <1>0, <2>1, OneBusy, BackendConstants
  <2> QED
    BY <2>1, <2>2 DEF ClientDown
<1>3. ASSUME NEW s \in Slots, SlotCloses(s) PROVE ClientDown
  <2>1. /\ \A r \in Slots \ {s} : sockets'[r] = sockets[r]
        /\ sockets[s].phase = "live" /\ sockets'[s].phase = "free" /\ Works(sockets[s])
    BY <1>3 DEF SlotCloses, SlotOnly, Works, Client!Free
  <2>2. Client!Undisturbed => clSocket = s /\ clSocket # NoSlot
    BY <1>0, <2>1, OneBusy, BackendConstants
  <2>3. ASSUME Client!Undisturbed, NEW r \in channels PROVE sockets'[r].phase # "live"
    <3>1. r \in Slots /\ Works(sockets[r])
      BY <1>0, <2>3 DEF ClientTyped, Works
    <3>2. r = s
      BY <1>0, <2>1, <2>3, <3>1, OneBusy
    <3> QED
      BY <2>1, <3>2
  <2> QED
    BY <2>1, <2>2, <2>3 DEF ClientDown
<1>4. ASSUME NEW s \in Slots, TimerBegins(s) \/ ConnectBegins(s) PROVE ClientDown
  <2>1. UNCHANGED channels /\ ~userClosed' /\ clTimers' \in {clTimers, clTimers - 1}
    BY <1>4 DEF TimerBegins, ConnectBegins, SlotBegins
  <2>2. clTimers \in Nat
    BY <1>0 DEF ClientTyped
  <2> QED
    BY <2>1, <2>2 DEF ClientDown
<1>5. CASE Client!Close
  <2>1. ~userClosed /\ userClosed' /\ clTimers' = clTimers /\ clTimers \in Nat
    BY <1>0, <1>5 DEF Client!Close, ClientTyped
  <2> QED
    BY <2>1 DEF ClientDown
<1>6. CASE Client!OpenChannel \/ TimerIsSpent
  <2>1. UNCHANGED sockets /\ channels \ channels' = {} /\ clTimers' \in {clTimers, clTimers - 1}
    BY <1>6 DEF Client!OpenChannel, TimerIsSpent
  <2>2. clTimers \in Nat
    BY <1>0 DEF ClientTyped
  <2> QED
    BY <2>1, <2>2 DEF ClientDown
<1> QED
  BY <1>0, <1>1, <1>2, <1>3, <1>4, <1>5, <1>6 DEF ClientMoves

-----------------------------------------------------------------------------
(***************************************************************************)
(* The server.  After the first close() nothing comes in, so what the      *)
(* closers have waited for stays true: without control connections the     *)
(* storage is not used, without sockets the HTTP server has ended.         *)
(***************************************************************************)

ServerSocket ==
    [at : Server!Control \cup {"none", "http", "data", "dying"},
     ip : Ips \cup {"none"}, admitted : BOOLEAN, timer : BOOLEAN, session : BOOLEAN]

\* What the record of a connection is: only a control connection is counted or
\* has a peer, and an open one without a peer is watched.
Here(k) ==
    /\ k.at = "none" => k = Server!NoSocket
    /\ k.at # "none" => k.ip \in Ips
    /\ k.at = "http" => ~k.admitted /\ ~k.session
    /\ k.at = "open" /\ ~k.session => k.timer
    /\ k.timer => k.at \in Server!Control

AllHere == \A c \in Sockets : Here(socket[c])

AllGone == \A c \in Sockets : socket[c] = Server!NoSocket

PeersHere == peers \subseteq {c \in Sockets : socket[c].session}

Stopped ==
    /\ closes # <<>> => ~listening
    /\ cleanedUp => ~listening /\ peers = {}
    /\ ~listening => \A c \in Sockets : socket[c].at \in {"none", "closing", "dying"}
    /\ cleanedUp /\ ~vitest => \A c \in Sockets : socket[c].at \notin Server!Control

Call == [waits : SUBSET {"wss", "http"}, timer : BOOLEAN, told : 0..2]

\* A closer that a call does not wait for any more has ended; in a test the
\* timer may have given up on it.
CallSound(call) ==
    /\ call.told \in {0, 1}
    /\ call.timer => vitest
    /\ call.told = 1 => call.waits = {}
    /\ "wss" \notin call.waits => cleanedUp
    /\ "http" \notin call.waits => vitest \/ AllGone

CallsSound == \A k \in DOMAIN closes : CallSound(closes[k])

Counted(ip) == {c \in Sockets : socket[c].admitted /\ socket[c].ip = ip}

CountedExactly == \A ip \in Ips : perIp[ip] = Cardinality(Counted(ip))

ServerIInv ==
    /\ Server!LifecycleTypeOK /\ AllHere /\ PeersHere /\ Stopped /\ CallsSound
    /\ CountedExactly /\ Server!StorageOutlivesUse

LEMMA ServerConstants == MaxPerIp \in Nat /\ MaxPerIp > 0 /\ MaxCalls \in Nat /\ IsFiniteSet(Sockets)
BY SessionsConstants DEF SessionsConstants, Server!ConstantsOK, Server!IsFiniteSet, IsFiniteSet

LEMMA SocketTyped ==
  ASSUME Server!LifecycleTypeOK
  PROVE  socket \in [Sockets -> ServerSocket] /\ closes \in Seq(Call)
BY DEF Server!LifecycleTypeOK, ServerSocket, Call

LEMMA NoSocketTyped == Server!NoSocket \in ServerSocket /\ Here(Server!NoSocket)
BY DEF Server!NoSocket, ServerSocket, Here

LEMMA ServerInitCorrect == Server!Init => ServerIInv
<1> SUFFICES ASSUME Server!Init PROVE ServerIInv
  OBVIOUS
<1>1. /\ vitest \in BOOLEAN /\ socket = [c \in Sockets |-> Server!NoSocket]
      /\ perIp = [ip \in Ips |-> 0] /\ peers = {} /\ listening = TRUE /\ cleanedUp = FALSE
      /\ closes = <<>> /\ lateUse = FALSE
  BY DEF Server!Init
<1>2. socket \in [Sockets -> ServerSocket] /\ AllHere
  BY <1>1, NoSocketTyped DEF AllHere
<1>3. perIp \in [Ips -> 0..MaxPerIp]
  BY <1>1, ServerConstants
<1>4. closes \in Seq(Call)
  BY <1>1
<1>5. Server!LifecycleTypeOK
  BY <1>1, <1>2, <1>3, <1>4 DEF Server!LifecycleTypeOK, ServerSocket, Call
<1>6. PeersHere /\ CallsSound /\ Server!StorageOutlivesUse
  BY <1>1 DEF PeersHere, CallsSound, Server!StorageOutlivesUse
<1>7. Stopped
  BY <1>1 DEF Stopped
<1>8. ASSUME NEW ip \in Ips PROVE perIp[ip] = Cardinality(Counted(ip))
  <2>1. Counted(ip) = {}
    BY <1>1 DEF Counted, Server!NoSocket
  <2> QED
    BY <1>1, <2>1, FS_EmptySet
<1> QED
  BY <1>2, <1>5, <1>6, <1>7, <1>8 DEF ServerIInv, CountedExactly

-----------------------------------------------------------------------------
\* What the steps of one connection are to the server: its record, the place it
\* takes or gives back, its peer, and the storage it uses.
PlaceKept(c) ==
    /\ socket'[c].admitted = socket[c].admitted
    /\ socket[c].admitted => socket'[c].ip = socket[c].ip
    /\ perIp' = perIp

PlaceTaken(c) ==
    /\ ~socket[c].admitted /\ socket'[c].admitted
    /\ socket[c].ip \in Ips /\ socket'[c].ip = socket[c].ip
    /\ perIp[socket[c].ip] < MaxPerIp
    /\ perIp' = [perIp EXCEPT ![socket[c].ip] = perIp[socket[c].ip] + 1]

PlaceBack(c) ==
    /\ socket[c].admitted /\ ~socket'[c].admitted
    /\ socket[c].ip \in Ips
    /\ perIp' = [perIp EXCEPT ![socket[c].ip] =
                    IF perIp[socket[c].ip] <= 1 THEN 0 ELSE perIp[socket[c].ip] - 1]

SocketMoves(c) ==
    /\ socket' \in [Sockets -> ServerSocket]
    /\ \A d \in Sockets \ {c} : socket'[d] = socket[d]
    /\ Here(socket'[c])
    /\ ~listening => socket[c] # Server!NoSocket
    /\ socket[c].at \in {"none", "closing", "dying"} =>
         socket'[c].at \in {"none", "closing", "dying"} \/ listening
    /\ socket[c].at \in {"none", "dying"} => socket'[c].at \notin Server!Control
    /\ PlaceKept(c) \/ PlaceTaken(c) \/ PlaceBack(c)
    /\ peers' \subseteq {d \in Sockets : socket'[d].session}
    /\ cleanedUp => peers' \subseteq peers
    /\ lateUse' \in BOOLEAN
    /\ lateUse' => lateUse \/ (cleanedUp /\ (socket[c].at \in Server!Control \/ c \in peers))
    /\ UNCHANGED <<vitest, listening, cleanedUp, closes>>

LEMMA SocketPut ==
  ASSUME Server!LifecycleTypeOK, NEW c \in Sockets, NEW r \in ServerSocket, Server!Put(c, r)
  PROVE  /\ socket' \in [Sockets -> ServerSocket]
         /\ \A d \in Sockets \ {c} : socket'[d] = socket[d]
         /\ socket'[c] = r
BY SocketTyped DEF Server!Put

LEMMA ClosingTyped ==
  ASSUME NEW k \in ServerSocket, NEW timer \in BOOLEAN, k.at # "none", Here(k)
  PROVE  LET r == Server!Closing([k EXCEPT !.timer = timer]) IN
         /\ r \in ServerSocket /\ Here(r) /\ r.at = "closing"
         /\ r.ip = k.ip /\ r.admitted = k.admitted /\ r.session = k.session
<1> DEFINE r == Server!Closing([k EXCEPT !.timer = timer])
<1>1. r = [k EXCEPT !.timer = timer, !.at = "closing"]
  BY DEF Server!Closing, ServerSocket
<1>2. r \in ServerSocket /\ r.at = "closing" /\ r.ip = k.ip /\ r.admitted = k.admitted
      /\ r.session = k.session
  BY <1>1 DEF ServerSocket, Server!Control
<1> HIDE DEF r
<1>3. Here(r)
  BY <1>2 DEF Here, Server!Control
<1> QED
  BY <1>2, <1>3 DEF r

LEMMA AcceptMoves ==
  ASSUME Server!LifecycleTypeOK, PeersHere, NEW c \in Sockets, NEW ip \in Ips, Server!Accept(c, ip)
  PROVE  SocketMoves(c)
<1> DEFINE r == [Server!NoSocket EXCEPT !.at = "http", !.ip = ip]
<1>1. /\ r \in ServerSocket /\ Here(r) /\ r.at = "http" /\ ~r.admitted /\ ~r.session
  BY DEF Server!NoSocket, ServerSocket, Here
<1>2. Server!Put(c, r)
  BY DEF Server!Accept
<1> HIDE DEF r
<1>3. /\ socket' \in [Sockets -> ServerSocket] /\ socket'[c] = r
      /\ \A d \in Sockets \ {c} : socket'[d] = socket[d]
  BY <1>1, <1>2, SocketPut
<1>4. socket[c] = Server!NoSocket /\ listening
      /\ UNCHANGED <<vitest, perIp, peers, listening, cleanedUp, closes, lateUse>>
  BY DEF Server!Accept
<1>5. ~socket[c].admitted /\ ~socket[c].session
  BY <1>4 DEF Server!NoSocket
<1>6. PlaceKept(c)
  BY <1>1, <1>3, <1>4, <1>5, SocketTyped DEF PlaceKept, ServerSocket
<1>7. peers' \subseteq {d \in Sockets : socket'[d].session}
  BY <1>3, <1>4, <1>5 DEF PeersHere
<1>8. lateUse' \in BOOLEAN
  BY <1>4 DEF Server!LifecycleTypeOK
<1> QED
  BY <1>1, <1>3, <1>4, <1>6, <1>7, <1>8 DEF SocketMoves, Server!Control

\* Upgrades are of connections that have not been destroyed.
LEMMA UpgradeMoves ==
  ASSUME Server!LifecycleTypeOK, AllHere, PeersHere, NEW c \in Sockets,
         Server!UpgradeElsewhere(c) \/ Server!Admit(c)
  PROVE  SocketMoves(c)
<1>0. /\ socket[c] \in ServerSocket /\ socket[c].at = "http" /\ socket[c].ip \in Ips
      /\ ~socket[c].timer /\ ~socket[c].admitted /\ ~socket[c].session /\ socket[c] # Server!NoSocket
  BY SocketTyped DEF Server!UpgradeElsewhere, Server!Admit, AllHere, Here, Server!NoSocket,
     Server!Control
<1>1. UNCHANGED <<vitest, peers, listening, cleanedUp, closes, lateUse>>
  BY DEF Server!UpgradeElsewhere, Server!Admit
<1>2. lateUse' \in BOOLEAN /\ perIp[socket[c].ip] \in 0..MaxPerIp
  BY <1>0, <1>1 DEF Server!LifecycleTypeOK
<1>3. ASSUME NEW r \in ServerSocket, Server!Put(c, r), Here(r), ~r.session,
             \/ ~r.admitted /\ perIp' = perIp
             \/ /\ r.admitted /\ r.ip = socket[c].ip /\ perIp[socket[c].ip] < MaxPerIp
                /\ perIp' = [perIp EXCEPT ![socket[c].ip] = perIp[socket[c].ip] + 1]
      PROVE  SocketMoves(c)
  <2>1. /\ socket' \in [Sockets -> ServerSocket] /\ socket'[c] = r
        /\ \A d \in Sockets \ {c} : socket'[d] = socket[d]
    BY <1>3, SocketPut
  <2>2. PlaceKept(c) \/ PlaceTaken(c)
    <3>1. CASE ~r.admitted /\ perIp' = perIp
      BY <1>0, <1>3, <2>1, <3>1 DEF PlaceKept, ServerSocket
    <3>2. CASE ~(~r.admitted /\ perIp' = perIp)
      BY <1>0, <1>3, <2>1, <3>2 DEF PlaceTaken
    <3> QED
      BY <3>1, <3>2
  <2>3. peers' \subseteq {d \in Sockets : socket'[d].session}
    BY <1>0, <1>1, <2>1 DEF PeersHere
  <2> QED
    BY <1>0, <1>1, <1>2, <1>3, <2>1, <2>2, <2>3 DEF SocketMoves
<1>4. CASE Server!UpgradeElsewhere(c)
  <2>1. PICK at \in {"data", "dying"} : Server!Put(c, [socket[c] EXCEPT !.at = at])
    BY <1>4 DEF Server!UpgradeElsewhere
  <2> DEFINE r == [socket[c] EXCEPT !.at = at]
  <2>2. /\ r \in ServerSocket /\ Here(r) /\ ~r.session /\ ~r.admitted
    BY <1>0 DEF ServerSocket, Here, Server!Control
  <2>3. perIp' = perIp
    BY <1>4 DEF Server!UpgradeElsewhere
  <2> HIDE DEF r
  <2> QED
    BY <1>3, <2>1, <2>2, <2>3 DEF r
<1>5. CASE Server!Admit(c) /\ perIp[socket[c].ip] >= MaxPerIp
  <2> DEFINE r == [socket[c] EXCEPT !.at = "closing"]
  <2>1. /\ r \in ServerSocket /\ Here(r) /\ ~r.session /\ ~r.admitted
    BY <1>0 DEF ServerSocket, Here, Server!Control
  <2>2. Server!Put(c, r) /\ perIp' = perIp
    BY <1>5 DEF Server!Admit
  <2> HIDE DEF r
  <2> QED
    BY <1>3, <2>1, <2>2
<1>6. CASE Server!Admit(c) /\ ~(perIp[socket[c].ip] >= MaxPerIp)
  <2> DEFINE r == [socket[c] EXCEPT !.at = "open", !.admitted = TRUE, !.timer = TRUE]
  <2>1. /\ r \in ServerSocket /\ Here(r) /\ ~r.session /\ r.admitted /\ r.ip = socket[c].ip
    BY <1>0 DEF ServerSocket, Here, Server!Control
  <2>2. Server!Put(c, r)
        /\ perIp' = [perIp EXCEPT ![socket[c].ip] = perIp[socket[c].ip] + 1]
    BY <1>2, <1>6 DEF Server!Admit, Server!LifecycleTypeOK
  <2>3. perIp[socket[c].ip] < MaxPerIp
    BY <1>2, <1>6, ServerConstants
  <2> HIDE DEF r
  <2> QED
    BY <1>3, <2>1, <2>2, <2>3
<1> QED
  BY <1>4, <1>5, <1>6

\* What stays of a connection while its hello, timer or errors are handled.
LEMMA RecordMoves ==
  ASSUME Server!LifecycleTypeOK, PeersHere, NEW c \in Sockets, NEW r \in ServerSocket,
         Server!Put(c, r), Here(r),
         r.admitted = socket[c].admitted, r.ip = socket[c].ip,
         socket[c].session => r.session,
         socket[c].at \in Server!Control, r.at \in {socket[c].at, "closing"},
         socket[c] # Server!NoSocket,
         peers' \subseteq peers \cup {c}, c \in peers' => r.session, cleanedUp => peers' \subseteq peers,
         lateUse' = (lateUse \/ cleanedUp) \/ lateUse' = lateUse,
         UNCHANGED <<vitest, perIp, listening, cleanedUp, closes>>
  PROVE  SocketMoves(c)
<1>1. /\ socket' \in [Sockets -> ServerSocket] /\ socket'[c] = r
      /\ \A d \in Sockets \ {c} : socket'[d] = socket[d]
  BY SocketPut
<1>2. PlaceKept(c)
  BY <1>1 DEF PlaceKept
<1>3. peers' \subseteq {d \in Sockets : socket'[d].session}
  BY <1>1 DEF PeersHere
<1>4. lateUse' \in BOOLEAN
  BY DEF Server!LifecycleTypeOK
<1> QED
  BY <1>1, <1>2, <1>3, <1>4 DEF SocketMoves, Server!Control

LEMMA HandledMoves ==
  ASSUME Server!LifecycleTypeOK, AllHere, PeersHere, NEW c \in Sockets,
         Server!BadHello(c) \/ Server!Hello(c) \/ Server!AuthTimeout(c)
  PROVE  SocketMoves(c)
<1>0. /\ socket[c] \in ServerSocket /\ Here(socket[c]) /\ socket[c].at \in Server!Control
      /\ socket[c].at # "none" /\ socket[c] # Server!NoSocket
  BY SocketTyped DEF Server!BadHello, Server!Hello, Server!AuthTimeout, AllHere, Here,
     Server!NoSocket, Server!Control
<1>1. CASE Server!BadHello(c)
  <2> DEFINE r == Server!Closing([socket[c] EXCEPT !.timer = socket[c].timer])
  <2>1. socket[c] = [socket[c] EXCEPT !.timer = socket[c].timer] /\ socket[c].timer \in BOOLEAN
    BY <1>0 DEF ServerSocket
  <2>2. Server!Put(c, r) /\ UNCHANGED <<vitest, perIp, peers, listening, cleanedUp, closes, lateUse>>
    BY <1>1, <2>1 DEF Server!BadHello
  <2>3. /\ r \in ServerSocket /\ Here(r) /\ r.at = "closing"
        /\ r.ip = socket[c].ip /\ r.admitted = socket[c].admitted /\ r.session = socket[c].session
    BY <1>0, <2>1, ClosingTyped
  <2> HIDE DEF r
  <2>4. c \in peers' => r.session
    BY <2>2, <2>3 DEF PeersHere
  <2> QED
    BY <1>0, <2>2, <2>3, <2>4, RecordMoves
<1>2. ASSUME Server!Put(c, Server!Closing([socket[c] EXCEPT !.timer = FALSE])), UNCHANGED peers,
             lateUse' = (lateUse \/ cleanedUp) \/ lateUse' = lateUse,
             UNCHANGED <<vitest, perIp, listening, cleanedUp, closes>>
      PROVE  SocketMoves(c)
  <2> DEFINE r == Server!Closing([socket[c] EXCEPT !.timer = FALSE])
  <2>3. /\ r \in ServerSocket /\ Here(r) /\ r.at = "closing"
        /\ r.ip = socket[c].ip /\ r.admitted = socket[c].admitted /\ r.session = socket[c].session
    BY <1>0, ClosingTyped
  <2>4. Server!Put(c, r)
    BY <1>2
  <2> HIDE DEF r
  <2>5. c \in peers' => r.session
    BY <1>2, <2>3 DEF PeersHere
  <2> QED
    BY <1>0, <1>2, <2>3, <2>4, <2>5, RecordMoves
<1>3. CASE Server!AuthTimeout(c)
  BY <1>2, <1>3 DEF Server!AuthTimeout
<1>4. CASE Server!Hello(c) /\ Server!Refuse(c)
  BY <1>2, <1>4 DEF Server!Hello, Server!Refuse, Server!UseStorage
<1>5. CASE Server!Hello(c) /\ Server!Accepted(c)
  <2> DEFINE r == [socket[c] EXCEPT !.timer = FALSE, !.session = TRUE]
  <2>1. /\ Server!Put(c, r) /\ ~cleanedUp /\ peers' = peers \cup {c}
        /\ lateUse' = (lateUse \/ cleanedUp)
        /\ UNCHANGED <<vitest, perIp, listening, cleanedUp, closes>>
    BY <1>5 DEF Server!Hello, Server!Accepted, Server!UseStorage
  <2>2. /\ r \in ServerSocket /\ Here(r) /\ r.at = socket[c].at /\ r.session
        /\ r.ip = socket[c].ip /\ r.admitted = socket[c].admitted
    BY <1>0 DEF ServerSocket, Here, Server!Control
  <2> HIDE DEF r
  <2> QED
    BY <1>0, <2>1, <2>2, RecordMoves
<1> QED
  BY <1>1, <1>3, <1>4, <1>5 DEF Server!Hello

LEMMA GoneMoves ==
  ASSUME Server!LifecycleTypeOK, AllHere, PeersHere, NEW c \in Sockets, Server!Gone(c)
  PROVE  SocketMoves(c)
<1>0. /\ socket[c] \in ServerSocket /\ Here(socket[c]) /\ socket[c] # Server!NoSocket
      /\ socket[c].ip \in Ips
  BY SocketTyped DEF Server!Gone, AllHere, Here
<1>1. /\ Server!Put(c, Server!NoSocket) /\ Server!GivenBack(c) /\ peers' = peers \ {c}
      /\ UNCHANGED <<vitest, listening, cleanedUp, closes>>
      /\ lateUse' = lateUse \/ (c \in peers /\ lateUse' = (lateUse \/ cleanedUp))
  BY DEF Server!Gone, Server!UseStorage
<1>2. /\ socket' \in [Sockets -> ServerSocket] /\ socket'[c] = Server!NoSocket
      /\ \A d \in Sockets \ {c} : socket'[d] = socket[d]
  BY <1>1, SocketPut, NoSocketTyped
<1>3. socket'[c].at = "none" /\ ~socket'[c].admitted /\ Here(socket'[c])
  BY <1>2, NoSocketTyped DEF Server!NoSocket
<1>4. PlaceKept(c) \/ PlaceBack(c)
  <2>1. CASE socket[c].admitted
    BY <1>0, <1>1, <1>3, <2>1 DEF Server!GivenBack, PlaceBack, Server!LifecycleTypeOK
  <2>2. CASE ~socket[c].admitted
    <3>1. socket'[c].admitted = FALSE /\ socket[c].admitted = FALSE /\ perIp' = perIp
      BY <1>0, <1>1, <1>2, <2>2 DEF Server!GivenBack, Server!NoSocket, ServerSocket
    <3> QED
      BY <2>2, <3>1 DEF PlaceKept
  <2> QED
    BY <2>1, <2>2
<1>5. peers' \subseteq {d \in Sockets : socket'[d].session}
  BY <1>1, <1>2 DEF PeersHere
<1>6. lateUse' \in BOOLEAN
  BY <1>1 DEF Server!LifecycleTypeOK
<1>7. lateUse' => lateUse \/ (cleanedUp /\ c \in peers)
  BY <1>1
<1>8. peers' \subseteq peers
  BY <1>1
<1> QED
  BY <1>0, <1>1, <1>2, <1>3, <1>4, <1>5, <1>6, <1>7, <1>8 DEF SocketMoves, Server!Control

LEMMA CountedFinite ==
  ASSUME NEW ip \in Ips
  PROVE  /\ IsFiniteSet(Counted(ip)) /\ Cardinality(Counted(ip)) \in Nat
         /\ \A c \in Counted(ip) : Cardinality(Counted(ip)) >= 1
<1>1. Counted(ip) \in SUBSET Sockets
  BY DEF Counted
<1>2. IsFiniteSet(Counted(ip)) /\ Cardinality(Counted(ip)) \in Nat
  BY <1>1, ServerConstants, FS_Subset, FS_CardinalityType
<1>3. Cardinality(Counted(ip)) = 0 => Counted(ip) = {}
  BY <1>2, FS_EmptySet
<1> QED
  BY <1>2, <1>3

\* The number kept for an address follows its connections.
LEMMA PlacesFollow ==
  ASSUME ServerIInv, NEW c \in Sockets, SocketMoves(c)
  PROVE  CountedExactly' /\ perIp' \in [Ips -> 0..MaxPerIp]
<1>0. /\ perIp \in [Ips -> 0..MaxPerIp]
      /\ \A ip \in Ips : perIp[ip] = Cardinality(Counted(ip))
      /\ \A d \in Sockets \ {c} : socket'[d] = socket[d]
  BY DEF ServerIInv, Server!LifecycleTypeOK, CountedExactly, SocketMoves
<1>1. ASSUME NEW ip \in Ips PROVE Counted(ip)' \ {c} = Counted(ip) \ {c}
  BY <1>0 DEF Counted
<1>2. ASSUME NEW ip \in Ips
      PROVE  /\ c \in Counted(ip) <=> socket[c].admitted /\ socket[c].ip = ip
             /\ c \in Counted(ip)' <=> socket'[c].admitted /\ socket'[c].ip = ip
  BY DEF Counted
<1>3. CASE PlaceKept(c)
  <2>1. ASSUME NEW ip \in Ips PROVE Counted(ip)' = Counted(ip)
    BY <1>1, <1>2, <1>3 DEF PlaceKept
  <2> QED
    BY <1>0, <1>3, <2>1 DEF PlaceKept, CountedExactly
<1>4. CASE PlaceTaken(c)
  <2>0. PICK at \in Ips : at = socket[c].ip
    BY <1>4 DEF PlaceTaken
  <2>1. /\ perIp[at] < MaxPerIp /\ perIp' = [perIp EXCEPT ![at] = perIp[at] + 1]
        /\ c \notin Counted(at) /\ c \in Counted(at)'
        /\ \A ip \in Ips \ {at} : c \notin Counted(ip) /\ c \notin Counted(ip)'
    BY <1>2, <1>4, <2>0 DEF PlaceTaken
  <2>2. perIp[at] + 1 \in 0..MaxPerIp
    BY <1>0, <2>1, ServerConstants
  <2>3. ASSUME NEW ip \in Ips, ip # at PROVE Counted(ip)' = Counted(ip) /\ perIp'[ip] = perIp[ip]
    <3>1. Counted(ip)' \ {c} = Counted(ip) \ {c} /\ c \notin Counted(ip) /\ c \notin Counted(ip)'
      BY <1>1, <2>1, <2>3
    <3>2. Counted(ip)' = Counted(ip)
      BY <3>1
    <3>3. perIp'[ip] = perIp[ip]
      BY <1>0, <2>1, <2>3
    <3> QED
      BY <3>2, <3>3
  <2>4. Counted(at)' = Counted(at) \cup {c}
    BY <1>1, <2>1
  <2>5. Cardinality(Counted(at)') = Cardinality(Counted(at)) + 1
    BY <2>1, <2>4, CountedFinite, FS_AddElement
  <2>6. perIp'[at] = perIp[at] + 1
    BY <1>0, <2>1
  <2>7. \A ip \in Ips : perIp'[ip] = Cardinality(Counted(ip)')
    BY <1>0, <2>3, <2>5, <2>6
  <2> QED
    BY <1>0, <2>1, <2>2, <2>7 DEF CountedExactly
<1>5. CASE PlaceBack(c)
  <2>0. PICK at \in Ips : at = socket[c].ip
    BY <1>5 DEF PlaceBack
  <2>1. /\ perIp' = [perIp EXCEPT ![at] = IF perIp[at] <= 1 THEN 0 ELSE perIp[at] - 1]
        /\ c \in Counted(at) /\ c \notin Counted(at)'
        /\ \A ip \in Ips \ {at} : c \notin Counted(ip) /\ c \notin Counted(ip)'
    BY <1>2, <1>5, <2>0 DEF PlaceBack
  <2>2. perIp[at] >= 1 /\ perIp[at] \in 0..MaxPerIp
    BY <1>0, <2>1, CountedFinite
  <2>3. ASSUME NEW ip \in Ips, ip # at PROVE Counted(ip)' = Counted(ip) /\ perIp'[ip] = perIp[ip]
    <3>1. Counted(ip)' \ {c} = Counted(ip) \ {c} /\ c \notin Counted(ip) /\ c \notin Counted(ip)'
      BY <1>1, <2>1, <2>3
    <3>2. Counted(ip)' = Counted(ip)
      BY <3>1
    <3>3. perIp'[ip] = perIp[ip]
      BY <1>0, <2>1, <2>3
    <3> QED
      BY <3>2, <3>3
  <2>4. Counted(at)' = Counted(at) \ {c}
    BY <1>1, <2>1
  <2>5. Cardinality(Counted(at)') = Cardinality(Counted(at)) - 1
    BY <2>1, <2>4, CountedFinite, FS_RemoveElement
  <2>6. perIp'[at] = perIp[at] - 1 /\ perIp[at] - 1 \in 0..MaxPerIp
    BY <1>0, <2>1, <2>2, ServerConstants
  <2>7. \A ip \in Ips : perIp'[ip] = Cardinality(Counted(ip)')
    BY <1>0, <2>3, <2>5, <2>6
  <2>8. perIp' \in [Ips -> 0..MaxPerIp]
    BY <1>0, <2>1, <2>6
  <2> QED
    BY <2>7, <2>8 DEF CountedExactly
<1> QED
  BY <1>3, <1>4, <1>5 DEF SocketMoves

LEMMA ConnectionKeeps ==
  ASSUME ServerIInv, NEW c \in Sockets, SocketMoves(c)
  PROVE  ServerIInv'
<1>0. /\ Server!LifecycleTypeOK /\ AllHere /\ PeersHere /\ Stopped /\ CallsSound
      /\ Server!StorageOutlivesUse
      /\ \A d \in Sockets \ {c} : socket'[d] = socket[d]
      /\ UNCHANGED <<vitest, listening, cleanedUp, closes>>
  BY DEF ServerIInv, SocketMoves
<1>1. Server!LifecycleTypeOK'
  <2>1. peers' \subseteq Sockets
    BY DEF SocketMoves
  <2>2. socket' \in [Sockets -> ServerSocket] /\ lateUse' \in BOOLEAN
    BY DEF SocketMoves
  <2>3. perIp' \in [Ips -> 0..MaxPerIp]
    BY PlacesFollow
  <2> QED
    BY <1>0, <2>1, <2>2, <2>3 DEF Server!LifecycleTypeOK, ServerSocket
<1>2. AllHere'
  BY <1>0 DEF AllHere, SocketMoves
<1>3. PeersHere'
  BY DEF PeersHere, SocketMoves
<1>4. Stopped'
  <2>1. cleanedUp => peers' = {}
    BY <1>0 DEF Stopped, SocketMoves
  <2>2. ~listening => \A d \in Sockets : socket'[d].at \in {"none", "closing", "dying"}
    BY <1>0 DEF Stopped, SocketMoves
  <2>3. ASSUME cleanedUp, ~vitest, NEW d \in Sockets PROVE socket'[d].at \notin Server!Control
    <3>1. socket[d].at \in {"none", "dying"}
      BY <1>0, <2>3 DEF Stopped, Server!Control
    <3> QED
      BY <1>0, <2>3, <3>1 DEF Stopped, SocketMoves
  <2> QED
    BY <1>0, <2>1, <2>2, <2>3 DEF Stopped
<1>5. CallsSound'
  <2>1. ASSUME AllGone, ~listening PROVE FALSE
    BY <2>1 DEF AllGone, SocketMoves
  <2>2. closes # <<>> => ~AllGone
    BY <1>0, <2>1 DEF Stopped
  <2>3. ASSUME NEW k \in DOMAIN closes PROVE CallSound(closes[k])'
    <3>1. closes # <<>>
      BY <2>3
    <3> QED
      BY <1>0, <2>2, <3>1 DEF CallsSound, CallSound
  <2> QED
    BY <1>0, <2>3 DEF CallsSound
<1>6. Server!StorageOutlivesUse'
  <2>1. cleanedUp /\ ~vitest => socket[c].at \notin Server!Control /\ c \notin peers
    BY <1>0 DEF Stopped
  <2> QED
    BY <1>0, <2>1 DEF Server!StorageOutlivesUse, SocketMoves
<1> QED
  BY <1>1, <1>2, <1>3, <1>4, <1>5, <1>6, PlacesFollow DEF ServerIInv

\* A request of the HTTP API and an interval find the storage open.
LEMMA UseKeeps ==
  ASSUME ServerIInv, ~cleanedUp, Server!UseStorage,
         UNCHANGED <<vitest, socket, perIp, peers, listening, cleanedUp, closes>>
  PROVE  ServerIInv'
<1>1. lateUse' = (lateUse \/ FALSE) /\ lateUse \in BOOLEAN
  BY DEF Server!UseStorage, ServerIInv, Server!LifecycleTypeOK
<1>2. lateUse' = lateUse
  BY <1>1
<1>3. \A ip \in Ips : Counted(ip)' = Counted(ip)
  BY DEF Counted
<1>4. CountedExactly'
  BY <1>3 DEF ServerIInv, CountedExactly
<1>5. (AllGone' <=> AllGone) /\ AllHere' /\ PeersHere' /\ Stopped'
  BY DEF ServerIInv, AllGone, AllHere, PeersHere, Stopped
<1>6. CallsSound'
  BY <1>5 DEF ServerIInv, CallsSound, CallSound
<1> QED
  BY <1>2, <1>4, <1>5, <1>6 DEF ServerIInv, Server!LifecycleTypeOK, Server!StorageOutlivesUse

-----------------------------------------------------------------------------
LEMMA DestroyedHere ==
  ASSUME NEW k \in ServerSocket, Here(k)
  PROVE  LET r == Server!Destroyed(k) IN
         /\ r \in ServerSocket /\ Here(r) /\ r.at \in {"none", "closing", "dying"}
         /\ r.at \in Server!Control => k.at \in Server!Control
         /\ r.ip = k.ip /\ r.admitted = k.admitted /\ r.session = k.session
         /\ k = Server!NoSocket => r = Server!NoSocket
<1> DEFINE at == CASE k.at \in Server!Control -> "closing" [] k.at = "none" -> "none"
                   [] OTHER -> "dying"
           r == Server!Destroyed(k)
<1>1. r = [k EXCEPT !.at = at]
  BY DEF Server!Destroyed, ServerSocket
<1>2. /\ k.at \in Server!Control => at = "closing"
      /\ k.at = "none" => at = "none"
      /\ k.at \notin Server!Control /\ k.at # "none" => at = "dying"
  BY DEF Server!Control
<1> HIDE DEF at, r
<1>3. /\ r \in ServerSocket /\ r.at = at /\ r.ip = k.ip /\ r.admitted = k.admitted
      /\ r.session = k.session /\ r.timer = k.timer
  BY <1>1, <1>2 DEF ServerSocket, Server!Control
<1>4. k.at = "none" => r = k
  BY <1>1, <1>2 DEF ServerSocket
<1>5. Here(r)
  BY <1>2, <1>3, <1>4 DEF Here, Server!Control
<1>6. k = Server!NoSocket => r = Server!NoSocket
  BY <1>4 DEF Server!NoSocket
<1> QED
  BY <1>2, <1>3, <1>5, <1>6 DEF Server!Control, r

LEMMA CloseKeeps ==
  ASSUME ServerIInv, Server!Close
  PROVE  ServerIInv'
<1>0. /\ Server!LifecycleTypeOK /\ AllHere /\ PeersHere /\ Stopped /\ CallsSound /\ CountedExactly
      /\ Server!StorageOutlivesUse
      /\ socket \in [Sockets -> ServerSocket] /\ closes \in Seq(Call) /\ vitest \in BOOLEAN
  BY SocketTyped DEF ServerIInv, Server!LifecycleTypeOK
<1>a. PICK call : call = [waits |-> {"wss", "http"}, timer |-> vitest, told |-> 0]
  OBVIOUS
<1>1. /\ listening' = FALSE /\ socket' = [c \in Sockets |-> Server!Destroyed(socket[c])]
      /\ closes' = Append(closes, call)
      /\ UNCHANGED <<vitest, perIp, peers, cleanedUp, lateUse>>
  BY <1>a DEF Server!Close
<1>2. call \in Call /\ CallSound(call)'
  BY <1>0, <1>1, <1>a DEF Call, CallSound
<1>3. ASSUME NEW c \in Sockets
      PROVE  /\ socket'[c] \in ServerSocket /\ Here(socket'[c])
             /\ socket'[c].at \in {"none", "closing", "dying"}
             /\ socket'[c].at \in Server!Control => socket[c].at \in Server!Control
             /\ socket'[c].ip = socket[c].ip /\ socket'[c].admitted = socket[c].admitted
             /\ socket'[c].session = socket[c].session
             /\ socket[c] = Server!NoSocket => socket'[c] = Server!NoSocket
  <2>1. socket[c] \in ServerSocket /\ Here(socket[c]) /\ socket'[c] = Server!Destroyed(socket[c])
    BY <1>0, <1>1 DEF AllHere
  <2> QED
    BY <2>1, DestroyedHere
<1>4. socket' \in [Sockets -> ServerSocket]
  BY <1>1, <1>3
<1>5. closes' \in Seq(Call)
  BY <1>0, <1>1, <1>2
<1>6. Server!LifecycleTypeOK'
  BY <1>0, <1>1, <1>4, <1>5 DEF Server!LifecycleTypeOK, ServerSocket, Call
<1>7. AllHere' /\ PeersHere'
  BY <1>0, <1>1, <1>3 DEF AllHere, PeersHere
<1>8. Stopped'
  BY <1>0, <1>1, <1>3 DEF Stopped
<1>9. CallsSound'
  <2>1. AllGone => AllGone'
    BY <1>3 DEF AllGone
  <2>2. ASSUME NEW k \in DOMAIN closes' PROVE CallSound(closes[k])'
    <3>1. k \in 1..Len(closes) + 1
      BY <1>0, <1>1, <2>2
    <3>2. CASE k = Len(closes) + 1
      <4>1. closes'[k] = call
        BY <1>0, <1>1, <3>2
      <4> QED
        BY <1>2, <4>1
    <3>3. CASE k # Len(closes) + 1
      <4>1. k \in DOMAIN closes /\ closes'[k] = closes[k]
        BY <1>0, <1>1, <3>1, <3>3
      <4>2. CallSound(closes[k])
        BY <1>0, <4>1 DEF CallsSound
      <4> QED
        BY <1>1, <2>1, <4>1, <4>2 DEF CallSound
    <3> QED
      BY <3>2, <3>3
  <2> QED
    BY <2>2 DEF CallsSound
<1>10. CountedExactly'
  <2>1. \A ip \in Ips : Counted(ip)' = Counted(ip)
    BY <1>3 DEF Counted
  <2> QED
    BY <1>0, <1>1, <2>1 DEF CountedExactly
<1>11. Server!StorageOutlivesUse'
  BY <1>0, <1>1 DEF Server!StorageOutlivesUse
<1> QED
  BY <1>6, <1>7, <1>8, <1>9, <1>10, <1>11 DEF ServerIInv

LEMMA FinishIs ==
  ASSUME NEW call \in Call
  PROVE  /\ Server!Finish(call) \in Call
         /\ Server!Finish(call).waits = call.waits /\ Server!Finish(call).timer = call.timer
         /\ \/ Server!Finish(call).told = call.told
            \/ Server!Finish(call).told = 1 /\ call.waits = {}
<1>1. CASE call.waits = {} /\ call.told = 0
  <2>1. Server!Finish(call) = [call EXCEPT !.told = 1]
    BY <1>1 DEF Server!Finish
  <2> QED
    BY <1>1, <2>1 DEF Call
<1>2. CASE ~(call.waits = {} /\ call.told = 0)
  <2>1. Server!Finish(call) = call
    BY <1>2 DEF Server!Finish
  <2> QED
    BY <2>1
<1> QED
  BY <1>1, <1>2

\* The calls after a step in which closers end: each stays sound.
LEMMA CallsKept ==
  ASSUME Server!LifecycleTypeOK, CallsSound, Stopped,
         DOMAIN closes' = DOMAIN closes, closes # <<>>,
         closes' = [k \in DOMAIN closes |-> closes'[k]],
         UNCHANGED <<vitest, socket, perIp, listening, lateUse>>,
         \/ cleanedUp' = TRUE /\ peers' = {}
         \/ UNCHANGED <<cleanedUp, peers>>,
         cleanedUp' /\ ~vitest => \A c \in Sockets : socket[c].at \notin Server!Control,
         AllHere, PeersHere, CountedExactly, Server!StorageOutlivesUse,
         ASSUME NEW k \in DOMAIN closes
         PROVE  closes'[k] \in Call /\ CallSound(closes[k])'
  PROVE  ServerIInv'
<1>0. closes \in Seq(Call) /\ cleanedUp' \in BOOLEAN
  BY SocketTyped DEF Server!LifecycleTypeOK
<1>1. closes' \in Seq(Call)
  <2>1. DOMAIN closes = 1..Len(closes) /\ Len(closes) \in Nat
    BY <1>0
  <2>2. closes' \in [1..Len(closes) -> Call]
    BY <2>1
  <2> QED
    BY <2>1, <2>2
<1>2. Server!LifecycleTypeOK'
  BY <1>0, <1>1 DEF Server!LifecycleTypeOK, Call
<1>3. CallsSound'
  BY DEF CallsSound
<1>4. CountedExactly'
  <2>1. \A ip \in Ips : Counted(ip)' = Counted(ip)
    BY DEF Counted
  <2> QED
    BY <2>1 DEF CountedExactly
<1>5. AllHere' /\ PeersHere'
  BY DEF AllHere, PeersHere
<1>6. Stopped'
  BY DEF Stopped
<1>7. Server!StorageOutlivesUse'
  BY DEF Server!StorageOutlivesUse
<1> QED
  BY <1>2, <1>3, <1>4, <1>5, <1>6, <1>7 DEF ServerIInv

LEMMA DoneCalls ==
  ASSUME Server!LifecycleTypeOK, CallsSound, NEW closer \in {"wss", "http"}, Server!Done(closer),
         UNCHANGED <<vitest, socket>>, cleanedUp => cleanedUp',
         closer = "wss" => cleanedUp', closer = "http" => AllGone,
         NEW k \in DOMAIN closes
  PROVE  closes'[k] \in Call /\ CallSound(closes[k])'
<1>0. closes \in Seq(Call)
  BY SocketTyped
<1>1. PICK call \in Call : call = closes[k]
  BY <1>0
<1>2. PICK r \in Call : r = [call EXCEPT !.waits = call.waits \ {closer}]
  BY DEF Call
<1>3. r.waits = call.waits \ {closer} /\ r.timer = call.timer /\ r.told = call.told
  BY <1>2 DEF Call
<1>4. closes'[k] = Server!Finish(r)
  <2>1. [closes[k] EXCEPT !.waits = @ \ {closer}] = r
    BY <1>1, <1>2
  <2> QED
    BY <2>1 DEF Server!Done
<1>5. PICK f \in Call : f = Server!Finish(r)
  BY FinishIs
<1>6. /\ f.waits = call.waits \ {closer} /\ f.timer = call.timer
      /\ f.told = call.told \/ (f.told = 1 /\ f.waits = {})
  BY <1>3, <1>5, FinishIs
<1>7. CallSound(call)
  BY <1>1 DEF CallsSound
<1>8. AllGone' <=> AllGone
  BY DEF AllGone
<1>9. CallSound(f)'
  BY <1>6, <1>7, <1>8 DEF CallSound
<1>10. closes'[k] = f
  BY <1>4, <1>5
<1> QED
  BY <1>9, <1>10 DEF CallSound

LEMMA ShutdownKeeps ==
  ASSUME ServerIInv, Server!WssClosed \/ Server!HttpClosed \/ Server!TestTimer
  PROVE  ServerIInv'
<1>0. /\ Server!LifecycleTypeOK /\ AllHere /\ PeersHere /\ Stopped /\ CallsSound /\ CountedExactly
      /\ Server!StorageOutlivesUse /\ closes \in Seq(Call)
  BY SocketTyped DEF ServerIInv
<1>1. CASE Server!WssClosed
  <2>1. /\ cleanedUp' = TRUE /\ peers' = {} /\ Server!Done("wss")
        /\ UNCHANGED <<vitest, socket, perIp, listening, lateUse>>
        /\ \A c \in Sockets : socket[c].at \notin Server!Control
        /\ closes # <<>>
    BY <1>1 DEF Server!WssClosed, Server!Cleanup
  <2>2. /\ DOMAIN closes' = DOMAIN closes
        /\ closes' = [k \in DOMAIN closes |-> closes'[k]]
    BY <2>1 DEF Server!Done
  <2>3. ASSUME NEW k \in DOMAIN closes PROVE closes'[k] \in Call /\ CallSound(closes[k])'
    BY <1>0, <2>1, DoneCalls
  <2> QED
    BY <1>0, <2>1, <2>2, <2>3, CallsKept
<1>2. CASE Server!HttpClosed
  <2>1. /\ AllGone /\ Server!Done("http")
        /\ UNCHANGED <<vitest, socket, perIp, peers, listening, cleanedUp, lateUse>>
        /\ closes # <<>>
    BY <1>2 DEF Server!HttpClosed, AllGone
  <2>2. /\ DOMAIN closes' = DOMAIN closes
        /\ closes' = [k \in DOMAIN closes |-> closes'[k]]
    BY <2>1 DEF Server!Done
  <2>3. ASSUME NEW k \in DOMAIN closes PROVE closes'[k] \in Call /\ CallSound(closes[k])'
    BY <1>0, <2>1, DoneCalls
  <2>4. cleanedUp' /\ ~vitest => \A c \in Sockets : socket[c].at \notin Server!Control
    BY <1>0, <2>1 DEF Stopped
  <2> QED
    BY <1>0, <2>1, <2>2, <2>3, <2>4, CallsKept
<1>3. CASE Server!TestTimer
  <2>1. PICK k \in DOMAIN closes :
          /\ closes[k].timer
          /\ closes' = [closes EXCEPT ![k] =
                           Server!Finish([closes[k] EXCEPT !.waits = {}, !.timer = FALSE])]
          /\ IF closes[k].told = 0 THEN Server!Cleanup ELSE UNCHANGED <<cleanedUp, peers>>
          /\ UNCHANGED <<vitest, socket, perIp, listening, lateUse>>
    BY <1>3 DEF Server!TestTimer
  <2>2. PICK call \in Call : call = closes[k]
    BY <1>0, <2>1
  <2>3. CallSound(call) /\ vitest
    BY <1>0, <2>1, <2>2 DEF CallsSound, CallSound
  <2>4. PICK r \in Call : r = [call EXCEPT !.waits = {}, !.timer = FALSE]
    BY DEF Call
  <2>5. r.waits = {} /\ r.timer = FALSE /\ r.told = call.told
    BY <2>4 DEF Call
  <2>6. PICK f \in Call : f = Server!Finish(r)
    BY FinishIs
  <2>7. /\ closes' = [closes EXCEPT ![k] = f]
        /\ f.waits = {} /\ f.timer = FALSE /\ f.told \in {call.told, 1}
    BY <2>1, <2>2, <2>4, <2>5, <2>6, FinishIs
  <2>8. /\ \/ cleanedUp' = TRUE /\ peers' = {}
           \/ UNCHANGED <<cleanedUp, peers>>
        /\ cleanedUp => cleanedUp'
        /\ cleanedUp'
    <3>1. CASE call.told = 0
      BY <2>1, <2>2, <3>1 DEF Server!Cleanup
    <3>2. CASE call.told # 0
      BY <2>1, <2>2, <2>3, <3>2 DEF CallSound
    <3> QED
      BY <3>1, <3>2
  <2>9. /\ DOMAIN closes' = DOMAIN closes /\ closes # <<>>
        /\ closes' = [j \in DOMAIN closes |-> closes'[j]]
    <3>1. DOMAIN closes' = DOMAIN closes
      BY <2>7
    <3>2. closes' = [j \in DOMAIN closes |-> IF j = k THEN f ELSE closes[j]]
      BY <1>0, <2>7
    <3>3. closes' = [j \in DOMAIN closes |-> closes'[j]]
      BY <3>2
    <3>4. closes # <<>>
      BY <2>1
    <3> QED
      BY <3>1, <3>3, <3>4
  <2>10. ASSUME NEW j \in DOMAIN closes PROVE closes'[j] \in Call /\ CallSound(closes[j])'
    <3>1. CASE j = k
      <4>1. closes'[j] = f
        BY <2>7, <3>1
      <4>2. CallSound(f)'
        BY <2>1, <2>3, <2>7, <2>8 DEF CallSound
      <4> QED
        BY <4>1, <4>2 DEF CallSound
    <3>2. CASE j # k
      <4>1. closes'[j] = closes[j] /\ closes[j] \in Call /\ CallSound(closes[j])
        BY <1>0, <2>7, <3>2 DEF CallsSound
      <4>2. AllGone' <=> AllGone
        BY <2>1 DEF AllGone
      <4> QED
        BY <2>1, <2>8, <4>1, <4>2 DEF CallSound
    <3> QED
      BY <3>1, <3>2
  <2> QED
    BY <1>0, <2>1, <2>3, <2>8, <2>9, <2>10, CallsKept
<1> QED
  BY <1>1, <1>2, <1>3

LEMMA ServerInductive ==
  ASSUME ServerIInv, Server!Next
  PROVE  ServerIInv'
<1>0. Server!LifecycleTypeOK /\ AllHere /\ PeersHere /\ Stopped
  BY DEF ServerIInv
<1>1. ASSUME NEW c \in Sockets, NEW ip \in Ips, Server!Accept(c, ip) PROVE ServerIInv'
  BY <1>0, <1>1, AcceptMoves, ConnectionKeeps
<1>2. ASSUME NEW c \in Sockets, Server!Serve(c) PROVE ServerIInv'
  <2>1. ~cleanedUp
    BY <1>0, <1>2 DEF Server!Serve, Stopped
  <2> QED
    BY <1>2, <2>1, UseKeeps DEF Server!Serve
<1>3. ASSUME NEW c \in Sockets, Server!UpgradeElsewhere(c) \/ Server!Admit(c) PROVE ServerIInv'
  BY <1>0, <1>3, UpgradeMoves, ConnectionKeeps
<1>4. ASSUME NEW c \in Sockets, Server!BadHello(c) \/ Server!Hello(c) \/ Server!AuthTimeout(c)
      PROVE  ServerIInv'
  BY <1>0, <1>4, HandledMoves, ConnectionKeeps
<1>5. ASSUME NEW c \in Sockets, Server!Gone(c) PROVE ServerIInv'
  BY <1>0, <1>5, GoneMoves, ConnectionKeeps
<1>6. CASE Server!Tick
  BY <1>6, UseKeeps DEF Server!Tick
<1> QED
  BY <1>1, <1>2, <1>3, <1>4, <1>5, <1>6, CloseKeeps, ShutdownKeeps DEF Server!Next

LEMMA ServerKept == ServerIInv /\ UNCHANGED serverVars => ServerIInv'
<1> SUFFICES ASSUME ServerIInv, UNCHANGED serverVars PROVE ServerIInv'
  OBVIOUS
<1>0. UNCHANGED <<vitest, socket, perIp, peers, listening, cleanedUp, closes, lateUse>>
  BY DEF serverVars
<1>1. AllGone' <=> AllGone
  BY <1>0 DEF AllGone
<1>2. \A ip \in Ips : Counted(ip)' = Counted(ip)
  BY <1>0 DEF Counted
<1>3. CallsSound' /\ CountedExactly'
  BY <1>0, <1>1, <1>2 DEF ServerIInv, CallsSound, CallSound, CountedExactly
<1>4. AllHere' /\ PeersHere' /\ Stopped'
  BY <1>0 DEF ServerIInv, AllHere, PeersHere, Stopped
<1>5. Server!LifecycleTypeOK' /\ Server!StorageOutlivesUse'
  BY <1>0 DEF ServerIInv, Server!LifecycleTypeOK, Server!StorageOutlivesUse
<1> QED
  BY <1>3, <1>4, <1>5 DEF ServerIInv

LEMMA ServerIInvIs ==
  ASSUME ServerIInv
  PROVE  Server!LifecycleInv
<1>1. Server!PlacesExact
  <2>1. ASSUME NEW ip \in Ips
        PROVE  perIp[ip] = Server!Quantify(Sockets, LAMBDA c : socket[c].admitted /\ socket[c].ip = ip)
    <3>1. perIp[ip] = Cardinality(Counted(ip))
      BY DEF ServerIInv, CountedExactly
    <3>2. Server!Cardinality(Counted(ip)) = Cardinality(Counted(ip))
      BY DEF Server!Cardinality, Cardinality
    <3> QED
      BY <3>1, <3>2 DEF Server!Quantify, Counted
  <2> QED
    BY <2>1 DEF Server!PlacesExact
<1>2. Server!StrangersWatched
  BY DEF ServerIInv, AllHere, Here, Server!StrangersWatched
<1>3. Server!CalledBackLast
  <2>1. ASSUME NEW k \in DOMAIN closes, closes[k].told > 0
        PROVE  closes[k].told = 1 /\ cleanedUp /\ peers = {} /\ (vitest \/ AllGone)
    BY <2>1 DEF ServerIInv, CallsSound, CallSound, Stopped
  <2> QED
    BY <2>1 DEF Server!CalledBackLast, AllGone
<1> QED
  BY <1>1, <1>2, <1>3 DEF ServerIInv, Server!LifecycleInv

-----------------------------------------------------------------------------
(***************************************************************************)
(* The four parts together.                                                *)
(***************************************************************************)

everything == <<part, backendVars, pythonVars, clientVars, serverVars>>

\* The tasks of the Python SDK are those that its fields know of only if the
\* application waits for a call before it makes the next.
SessionsIInv ==
    /\ BackendIInv /\ ClientIInv /\ ServerIInv
    /\ ~Impatient => PythonIInv

LEMMA SessionsInit == Init => SessionsIInv
BY BackendInitCorrect, PythonInitCorrect, ClientInitCorrect, ServerInitCorrect DEF Init, SessionsIInv

LEMMA SessionsInductive == SessionsIInv /\ [Next]_everything => SessionsIInv'
<1> SUFFICES ASSUME SessionsIInv, [Next]_everything PROVE SessionsIInv'
  OBVIOUS
<1>1. BackendIInv'
  <2>1. Backend!Next \/ UNCHANGED backendVars
    BY DEF Next, everything
  <2> QED
    BY <2>1, BackendInductive, BackendKept DEF SessionsIInv
<1>2. ~Impatient => PythonIInv'
  <2>1. Python!Next \/ UNCHANGED pythonVars
    BY DEF Next, everything
  <2> QED
    BY <2>1, PythonInductive, PythonKept DEF SessionsIInv
<1>3. ClientIInv'
  <2>1. Client!Next \/ UNCHANGED clientVars
    BY DEF Next, everything
  <2> QED
    BY <2>1, ClientInductive, ClientKept DEF SessionsIInv
<1>4. ServerIInv'
  <2>1. Server!Next \/ UNCHANGED serverVars
    BY DEF Next, everything
  <2> QED
    BY <2>1, ServerInductive, ServerKept DEF SessionsIInv
<1> QED
  BY <1>1, <1>2, <1>3, <1>4 DEF SessionsIInv

LEMMA SessionsAlways == Spec => []SessionsIInv
BY SessionsInit, SessionsInductive, PTL DEF Spec, everything

\* Between two callbacks of a backend SDK.  TypeScript: of attempts under way,
\* reconnect timers and connections there is one if nobody calls close(), no
\* socket is left half open, and "connecting" means that something is under way.
\* Python, if every call waits for a connect() or close() before it: one run of
\* tasks, and nothing up after close().
THEOREM BackendsCorrect == ~Impatient => (Spec => []BackendsInv)
<1> SUFFICES ASSUME ~Impatient PROVE Spec => []BackendsInv
  OBVIOUS
<1>1. SessionsIInv => BackendsInv
  BY BackendIInvIs, PythonIInvIs DEF SessionsIInv, BackendsInv
<1> QED
  BY <1>1, SessionsAlways, PTL

\* Between two callbacks of the client SDK: one thread of attempts and one
\* session at the gateway if nobody calls close() and answers come in time, a
\* connected client has the live socket, "connecting" means that something is
\* under way, and timers do not pile up beyond the failures and the calls.
THEOREM ClientCorrect == Spec => []ClientInv
<1>1. SessionsIInv => ClientInv
  BY ClientIInvIs DEF SessionsIInv, ClientInv
<1> QED
  BY <1>1, SessionsAlways, PTL

\* Between two events of the server: the places of an address are counted
\* exactly, an open connection without a peer is watched, the storage outlives
\* its use, and every close() calls back at most once and last.
THEOREM LifecycleCorrect == Spec => []LifecycleInv
<1>1. SessionsIInv => LifecycleInv
  BY ServerIInvIs DEF SessionsIInv, LifecycleInv
<1> QED
  BY <1>1, SessionsAlways, PTL

\* No callback of an SDK revives a peer that was replaced or closed, ends the
\* channels of another connection or reconnects without a loss.
THEOREM StaysDownHolds == ~Impatient => (Spec => StaysDown)
<1> SUFFICES ASSUME ~Impatient PROVE Spec => StaysDown
  OBVIOUS
<1>1. SessionsIInv /\ [Next]_everything =>
        /\ [~closing /\ state = "closed" /\ failure = "replaced" /\ state' # "closed"
              => calls' # calls]_(Backend!vars)
        /\ [closed /\ closed' =>
              \A s \in Slots : attempts[s].phase = "free" => attempts'[s].phase = "free"]_(Backend!vars)
  <2> SUFFICES ASSUME SessionsIInv, [Next]_everything PROVE BackendDown \/ UNCHANGED Backend!vars
    BY DEF BackendDown
  <2>1. Backend!Next \/ UNCHANGED backendVars
    BY DEF Next, everything
  <2> QED
    BY <2>1, BackendStepsDown DEF SessionsIInv, backendVars, Backend!vars
<1>2. SessionsIInv /\ [Next]_everything =>
        /\ [pyState = "closed" /\ pyFailure = "replaced" /\ pyState' # "closed"
              => \E i \in Python!Runs : Python!NextRun(i) /\ runs'[i].task # "none"]_(Python!vars)
        /\ [pyClosed /\ pyClosed' => pyFailure' = pyFailure]_(Python!vars)
  <2> SUFFICES ASSUME SessionsIInv, [Next]_everything PROVE PythonDown \/ UNCHANGED Python!vars
    BY DEF PythonDown
  <2>1. Python!Next \/ UNCHANGED pythonVars
    BY DEF Next, everything
  <2> QED
    BY <2>1, PythonStepsDown DEF SessionsIInv, pythonVars, Python!vars
<1>3. SessionsIInv /\ [Next]_everything =>
        /\ [Client!Undisturbed =>
              \A s \in channels \ channels' : userClosed' \/ sockets'[s].phase # "live"]_(Client!vars)
        /\ [Client!Undisturbed /\ clTimers' > clTimers =>
              clSocket # NoSlot /\ sockets'[clSocket].phase \in {"free", "failed"}]_(Client!vars)
        /\ [userClosed /\ userClosed' =>
              \A s \in Slots : sockets[s].phase = "free" => sockets'[s].phase = "free"]_(Client!vars)
  <2> SUFFICES ASSUME SessionsIInv, [Next]_everything PROVE ClientDown \/ UNCHANGED Client!vars
    BY DEF ClientDown
  <2>1. Client!Next \/ UNCHANGED clientVars
    BY DEF Next, everything
  <2> QED
    BY <2>1, ClientStepsDown DEF SessionsIInv, clientVars, Client!vars, Client!settings
<1> QED
  BY <1>1, <1>2, <1>3, SessionsAlways, PTL
  DEF Spec, everything, StaysDown, Backend!StaysDown, Backend!ReplacedStandsDown,
      Backend!NoAttemptAfterClose, Python!PythonStaysDown, Python!PythonStandsDown,
      Python!FailureKept, Client!ClientSteps, Client!ChannelsDieWithTheirs,
      Client!ReconnectsAfterLoss, Client!NoAttemptAfterClose

=============================================================================
