---------------------------- MODULE AccessProofs ----------------------------
(***************************************************************************)
(* Proofs about AdminAccess, for every window, quota, set of addresses,    *)
(* tenants and sessions: a fixed window lets in at most twice its quota in *)
(* an interval as long as itself, a refusal was earned by the one who is   *)
(* refused, and a session lasts for its time and not longer.               *)
(***************************************************************************)
EXTENDS AdminAccess, FiniteSetTheorems, TLAPS

-----------------------------------------------------------------------------
(***************************************************************************)
(* How many requests a history counts at some ticks.                       *)
(***************************************************************************)

Size(h, S) == Cardinality(Requests(h, S))

Histories == [Time -> Nat]

LEMMA RequestsAre ==
  ASSUME NEW h, NEW S, NEW p
  PROVE  p \in Requests(h, S) <=> \E x \in S : \E k \in 1..h[x] : p = <<x, k>>
BY DEF Requests

LEMMA SizeNat ==
  ASSUME NEW h \in Histories, NEW S \in SUBSET Time
  PROVE  IsFiniteSet(Requests(h, S)) /\ Size(h, S) \in Nat
<1> DEFINE Of(x) == {x} \X (1..h[x])
           f == [x \in S |-> Of(x)]
           Image == {Of(x) : x \in S}
<1>1. IsFiniteSet(S)
  <2>1. MaxNow \in Nat
    BY AccessAssumption
  <2>2. IsFiniteSet(Time)
    BY <2>1, FS_Interval DEF Time
  <2> QED
    BY <2>2, FS_Subset
<1>2. IsFiniteSet(Image)
  <2>1. f \in Surjection(S, Image)
    BY DEF Surjection
  <2> QED
    BY <1>1, <2>1, FS_Surjection
<1>3. ASSUME NEW T \in Image PROVE IsFiniteSet(T)
  <2>1. PICK x \in S : T = {x} \X (1..h[x])
    OBVIOUS
  <2>2. IsFiniteSet({x}) /\ IsFiniteSet(1..h[x])
    <3>1. h[x] \in Int /\ 1 \in Int
      BY DEF Histories
    <3>2. IsFiniteSet(1..h[x])
      BY <3>1, FS_Interval
    <3>3. IsFiniteSet({x})
      BY FS_Singleton
    <3> QED
      BY <3>2, <3>3
  <2> QED
    BY <2>1, <2>2, FS_Product
<1>4. IsFiniteSet(UNION Image)
  BY <1>2, <1>3, FS_UNION
<1>5. Requests(h, S) = UNION Image
  BY DEF Requests
<1> QED
  BY <1>4, <1>5, FS_CardinalityType DEF Size

LEMMA SizeSubset ==
  ASSUME NEW h \in Histories, NEW T \in SUBSET Time, NEW S \in SUBSET T
  PROVE  Size(h, S) <= Size(h, T)
<1>1. Requests(h, S) \subseteq Requests(h, T)
  BY RequestsAre
<1> QED
  BY <1>1, SizeNat, FS_Subset DEF Size

\* Where nothing happened nothing is counted.
LEMMA SizeQuiet ==
  ASSUME NEW h \in Histories, NEW T \in SUBSET Time, NEW S \in SUBSET Time,
         \A x \in T \ S : h[x] = 0
  PROVE  Size(h, T) <= Size(h, S)
<1>1. Requests(h, T) \subseteq Requests(h, S)
  <2> SUFFICES ASSUME NEW p \in Requests(h, T) PROVE p \in Requests(h, S)
    OBVIOUS
  <2>1. PICK x \in T : \E k \in 1..h[x] : p = <<x, k>>
    BY RequestsAre
  <2>2. h[x] # 0
    BY <2>1
  <2> QED
    BY <2>1, <2>2, RequestsAre
<1> QED
  BY <1>1, SizeNat, FS_Subset DEF Size

LEMMA SizeUnion ==
  ASSUME NEW h \in Histories, NEW S \in SUBSET Time, NEW T \in SUBSET Time
  PROVE  Size(h, S \cup T) <= Size(h, S) + Size(h, T)
<1>1. Requests(h, S \cup T) = Requests(h, S) \cup Requests(h, T)
  BY DEF Requests
<1>2. /\ IsFiniteSet(Requests(h, S)) /\ IsFiniteSet(Requests(h, T))
      /\ Size(h, S) \in Nat /\ Size(h, T) \in Nat
  BY SizeNat
<1>3. IsFiniteSet(Requests(h, S) \cap Requests(h, T))
  BY <1>2, FS_Intersection
<1>4. Cardinality(Requests(h, S) \cap Requests(h, T)) \in Nat
  BY <1>3, FS_CardinalityType
<1>5. Cardinality(Requests(h, S) \cup Requests(h, T))
        = Cardinality(Requests(h, S)) + Cardinality(Requests(h, T))
            - Cardinality(Requests(h, S) \cap Requests(h, T))
  BY <1>2, FS_Union
<1> DEFINE s == Size(h, S)
           t == Size(h, T)
           both == Cardinality(Requests(h, S) \cap Requests(h, T))
<1>6. s \in Nat /\ t \in Nat /\ both \in Nat /\ Size(h, S \cup T) = s + t - both
  BY <1>1, <1>2, <1>4, <1>5 DEF Size
<1> HIDE DEF s, t, both
<1>7. Size(h, S \cup T) <= s + t
  BY <1>6
<1> QED
  BY <1>7 DEF s, t

\* One more at tick n.
More(h, n) == [h EXCEPT ![n] = @ + 1]

LEMMA SizeMore ==
  ASSUME NEW h \in Histories, NEW n \in Time, NEW S \in SUBSET Time
  PROVE  /\ More(h, n) \in Histories
         /\ More(h, n)[n] = h[n] + 1
         /\ \A x \in Time \ {n} : More(h, n)[x] = h[x]
         /\ Size(More(h, n), S) = IF n \in S THEN Size(h, S) + 1 ELSE Size(h, S)
<1> DEFINE g == More(h, n)
           new == <<n, h[n] + 1>>
<1>1. h[n] \in Nat /\ g \in Histories /\ g[n] = h[n] + 1 /\ \A x \in Time \ {n} : g[x] = h[x]
  BY DEF More, Histories
<1> HIDE DEF g
<1>2. 1..g[n] = (1..h[n]) \cup {h[n] + 1} /\ h[n] + 1 \notin 1..h[n]
  BY <1>1
<1>3. CASE n \in S
  <2>1. ASSUME NEW p PROVE p \in Requests(g, S) <=> (p \in Requests(h, S) \/ p = new)
    <3>1. p \in Requests(g, S) <=> \E x \in S : \E k \in 1..g[x] : p = <<x, k>>
      BY RequestsAre
    <3>2. p \in Requests(h, S) <=> \E x \in S : \E k \in 1..h[x] : p = <<x, k>>
      BY RequestsAre
    <3> QED
      BY <1>1, <1>2, <1>3, <3>1, <3>2
  <2>2. Requests(g, S) = Requests(h, S) \cup {new}
    BY <2>1
  <2>3. new \notin Requests(h, S)
    BY <1>2, RequestsAre
  <2>4. IsFiniteSet(Requests(h, S))
    BY SizeNat
  <2>5. Cardinality(Requests(h, S) \cup {new}) = Cardinality(Requests(h, S)) + 1
    BY <2>3, <2>4, FS_AddElement
  <2>6. Size(g, S) = Size(h, S) + 1
    BY <2>2, <2>5 DEF Size
  <2> QED
    BY <1>1, <1>3, <2>6 DEF g
<1>4. CASE n \notin S
  <2>1. Requests(g, S) = Requests(h, S)
    BY <1>1, <1>4 DEF Requests
  <2> QED
    BY <1>1, <1>4, <2>1 DEF Size, g
<1> QED
  BY <1>3, <1>4

LEMMA SizeAtLeast ==
  ASSUME NEW h \in Histories, NEW S \in SUBSET Time, NEW n \in S
  PROVE  h[n] <= Size(h, S)
<1>1. h[n] \in Nat
  BY DEF Histories
<1>2. {n} \X (1..h[n]) \subseteq Requests(h, S)
  BY DEF Requests
<1>3. IsFiniteSet({n}) /\ Cardinality({n}) = 1
  BY FS_Singleton
<1>4. IsFiniteSet(1..h[n]) /\ Cardinality(1..h[n]) = h[n]
  BY <1>1, FS_Interval
<1>5. Cardinality({n} \X (1..h[n])) = 1 * h[n]
  BY <1>3, <1>4, FS_Product, ZenonT(40)
<1>6. Cardinality({n} \X (1..h[n])) <= Cardinality(Requests(h, S))
  BY <1>2, SizeNat, FS_Subset
<1> QED
  BY <1>1, <1>5, <1>6 DEF Size

-----------------------------------------------------------------------------
(***************************************************************************)
(* One quota: a bucket b with its limit l, and a history h of what it let  *)
(* in, at tick n.                                                          *)
(***************************************************************************)

Records(l) == [count : 1..(l + 1), resetAt : Nat]

\* The ticks of a window that began at w, and those before it from a on.
Before(a, w) == Ticks(a, w) \ {w}

Fits(h, b, l, n) ==
    /\ \A x \in Time : x > n => h[x] = 0
    /\ b = None =>
          /\ h[n] = 0
          /\ \A a \in Time : a + Window >= n => Size(h, Ticks(a, n)) <= l
    /\ b # None =>
          /\ \A x \in Time : x > b.resetAt => h[x] = 0
          /\ \E w \in Time :
                /\ w <= n /\ b.resetAt = w + Window
                /\ Size(h, Ticks(w, n)) <= b.count
                /\ Size(h, Ticks(w, n)) <= l
                /\ \A a \in Time : a + Window >= w => Size(h, Before(a, w)) <= l

Earned(h, b, l, n) ==
    b # None =>
        \A w \in Time : b.resetAt = w + Window =>
            Size(h, Ticks(w, n)) >= IF b.count < l THEN b.count ELSE l

Burst(h, l) == \A a \in Time : Size(h, Ticks(a, a + Window)) <= 2 * l

BucketOver(b, n) == b = None \/ n > b.resetAt

BucketAllows(b, l, n) == BucketOver(b, n) \/ b.count < l

BucketCharged(b, l, n) ==
    IF BucketOver(b, n) THEN [count |-> 1, resetAt |-> n + Window]
    ELSE [b EXCEPT !.count = IF @ > l THEN l + 1 ELSE @ + 1]

LEMMA TimeIs ==
  /\ MaxNow \in Nat /\ Window \in Nat /\ Time \subseteq Nat
  /\ \A a, b : Ticks(a, b) \in SUBSET Time /\ Before(a, b) \in SUBSET Time
  /\ \A a, b : \A x \in Time : x \in Ticks(a, b) <=> (a <= x /\ x <= b)
  /\ \A a, b : \A x \in Time : x \in Before(a, b) <=> (a <= x /\ x <= b /\ x # b)
BY AccessAssumption DEF Time, Ticks, Before

LEMMA BucketNone ==
  ASSUME NEW l \in Nat
  PROVE  /\ None \notin Records(l)
         /\ \A b \in Records(l) : b.count \in Nat /\ b.resetAt \in Nat /\ b.count >= 1
                                  /\ b.count <= l + 1
<1>1. Records(l) \subseteq [count : Nat, resetAt : Nat]
  BY DEF Records
<1>2. None \notin [count : Nat, resetAt : Nat]
  BY AccessAssumption
<1> QED
  BY <1>1, <1>2 DEF Records

LEMMA ChargedIs ==
  ASSUME NEW l \in Nat, NEW n \in Nat, NEW b \in Records(l) \cup {None}
  PROVE  /\ BucketCharged(b, l, n) \in Records(l) /\ BucketCharged(b, l, n) # None
         /\ BucketOver(b, n) => /\ BucketCharged(b, l, n).count = 1
                                /\ BucketCharged(b, l, n).resetAt = n + Window
         /\ ~BucketOver(b, n) =>
               /\ b \in Records(l) /\ b # None /\ n <= b.resetAt
               /\ BucketCharged(b, l, n).resetAt = b.resetAt
               /\ BucketCharged(b, l, n).count = IF b.count > l THEN l + 1 ELSE b.count + 1
               /\ BucketCharged(b, l, n).count >= b.count
<1>1. Window \in Nat
  BY TimeIs
<1>2. CASE BucketOver(b, n)
  <2>1. BucketCharged(b, l, n) = [count |-> 1, resetAt |-> n + Window]
    BY <1>2 DEF BucketCharged
  <2>2. BucketCharged(b, l, n) \in Records(l)
    BY <1>1, <2>1 DEF Records
  <2> QED
    BY <1>2, <2>1, <2>2, BucketNone
<1>3. CASE ~BucketOver(b, n)
  <2>1. b \in Records(l) /\ b # None /\ ~(n > b.resetAt)
    BY <1>3 DEF BucketOver
  <2>2. b.count \in Nat /\ b.resetAt \in Nat /\ b.count <= l + 1 /\ b.count >= 1
    BY <2>1, BucketNone
  <2>3. BucketCharged(b, l, n) = [b EXCEPT !.count = IF @ > l THEN l + 1 ELSE @ + 1]
    BY <1>3 DEF BucketCharged
  <2>4. /\ BucketCharged(b, l, n).resetAt = b.resetAt
        /\ BucketCharged(b, l, n).count = IF b.count > l THEN l + 1 ELSE b.count + 1
    BY <2>1, <2>3 DEF Records
  <2>5. BucketCharged(b, l, n).count \in 1..(l + 1)
    BY <2>2, <2>4
  <2>6. BucketCharged(b, l, n) \in Records(l)
    BY <2>1, <2>3, <2>4, <2>5 DEF Records
  <2>7. BucketCharged(b, l, n).count >= b.count /\ n <= b.resetAt
    BY <2>1, <2>2, <2>4
  <2> QED
    BY <1>3, <2>1, <2>4, <2>6, <2>7, BucketNone
<1> QED
  BY <1>2, <1>3

\* Twice the quota covers an interval that ends in the present window.
LEMMA BurstNow ==
  ASSUME NEW l \in Nat, NEW h \in Histories, NEW n \in Time, NEW b, b # None,
         Fits(h, b, l, n), NEW a \in Time, a + Window >= n
  PROVE  Size(h, Ticks(a, a + Window)) <= 2 * l
<1>1. PICK w \in Time : /\ w <= n /\ Size(h, Ticks(w, n)) <= l
                        /\ \A c \in Time : c + Window >= w => Size(h, Before(c, w)) <= l
  BY DEF Fits
<1>2. a + Window >= w
  BY <1>1, TimeIs
<1>3. Size(h, Before(a, w)) <= l
  BY <1>1, <1>2
<1>4. \A x \in Ticks(a, a + Window) \ (Before(a, w) \cup Ticks(w, n)) : h[x] = 0
  <2> SUFFICES ASSUME NEW x \in Ticks(a, a + Window), x \notin Before(a, w), x \notin Ticks(w, n)
               PROVE  h[x] = 0
    OBVIOUS
  <2>1. x \in Time /\ a <= x /\ x \in Nat /\ w \in Nat /\ n \in Nat
    BY TimeIs
  <2>2. x > n
    BY <2>1, TimeIs
  <2> QED
    BY <2>1, <2>2 DEF Fits
<1>5. Size(h, Ticks(a, a + Window)) <= Size(h, Before(a, w) \cup Ticks(w, n))
  BY <1>4, TimeIs, SizeQuiet
<1>6. Size(h, Before(a, w) \cup Ticks(w, n)) <= Size(h, Before(a, w)) + Size(h, Ticks(w, n))
  BY TimeIs, SizeUnion
<1>7. /\ Size(h, Ticks(a, a + Window)) \in Nat /\ Size(h, Before(a, w)) \in Nat
      /\ Size(h, Ticks(w, n)) \in Nat /\ Size(h, Before(a, w) \cup Ticks(w, n)) \in Nat
  <2>1. Before(a, w) \cup Ticks(w, n) \in SUBSET Time
    BY TimeIs
  <2> QED
    BY <2>1, TimeIs, SizeNat
<1> QED
  BY <1>1, <1>3, <1>5, <1>6, <1>7

\* Nobody asks, and the clock goes on.
LEMMA TickFits ==
  ASSUME NEW l \in Nat, NEW h \in Histories, NEW n \in Time, n + 1 \in Time,
         NEW b \in Records(l) \cup {None}, Fits(h, b, l, n)
  PROVE  Fits(h, b, l, n + 1)
<1>1. \A x \in Time : x > n => h[x] = 0
  BY DEF Fits
<1>2. n \in Nat /\ \A x \in Time : x > n + 1 => h[x] = 0
  BY <1>1, TimeIs
<1>3. ASSUME NEW a \in Time PROVE Size(h, Ticks(a, n + 1)) <= Size(h, Ticks(a, n))
  <2>1. \A x \in Ticks(a, n + 1) \ Ticks(a, n) : h[x] = 0
    <3> SUFFICES ASSUME NEW x \in Ticks(a, n + 1), x \notin Ticks(a, n) PROVE h[x] = 0
      OBVIOUS
    <3>1. x \in Time /\ x \in Nat /\ a <= x /\ ~(x <= n)
      BY TimeIs
    <3> QED
      BY <1>1, <1>2, <3>1
  <2> QED
    BY <2>1, TimeIs, SizeQuiet
<1>4. \A a \in Time : Size(h, Ticks(a, n + 1)) \in Nat /\ Size(h, Ticks(a, n)) \in Nat
  BY TimeIs, SizeNat
<1>5. CASE b = None
  <2>1. h[n + 1] = 0
    BY <1>1, <1>2
  <2>2. ASSUME NEW a \in Time, a + Window >= n + 1 PROVE Size(h, Ticks(a, n + 1)) <= l
    <3>1. a + Window >= n
      BY <1>2, <2>2, TimeIs
    <3>2. Size(h, Ticks(a, n)) <= l
      BY <1>5, <3>1 DEF Fits
    <3> QED
      BY <1>3, <1>4, <3>2
  <2> QED
    BY <1>2, <1>5, <2>1, <2>2 DEF Fits
<1>6. CASE b # None
  <2>1. PICK w \in Time : /\ w <= n /\ b.resetAt = w + Window
                          /\ Size(h, Ticks(w, n)) <= b.count
                          /\ Size(h, Ticks(w, n)) <= l
                          /\ \A a \in Time : a + Window >= w => Size(h, Before(a, w)) <= l
    BY <1>6 DEF Fits
  <2>2. w <= n + 1
    BY <1>2, <2>1, TimeIs
  <2>3. b.count \in Nat
    BY <1>6, BucketNone
  <2>4. Size(h, Ticks(w, n + 1)) <= b.count /\ Size(h, Ticks(w, n + 1)) <= l
    BY <1>3, <1>4, <2>1, <2>3
  <2>5. \A x \in Time : x > b.resetAt => h[x] = 0
    BY <1>6 DEF Fits
  <2> QED
    BY <1>2, <1>6, <2>1, <2>2, <2>4, <2>5 DEF Fits
<1> QED
  BY <1>5, <1>6

\* A window that is over can be forgotten.
LEMMA OverFits ==
  ASSUME NEW l \in Nat, NEW h \in Histories, NEW n \in Time,
         NEW b \in Records(l) \cup {None}, Fits(h, b, l, n), BucketOver(b, n)
  PROVE  Fits(h, None, l, n)
<1>1. CASE b = None
  BY <1>1
<1>2. CASE b # None
  <2>1. n > b.resetAt /\ b.resetAt \in Nat /\ n \in Nat
    BY <1>2, BucketNone, TimeIs DEF BucketOver
  <2>2. PICK w \in Time : /\ w <= n /\ b.resetAt = w + Window
                          /\ Size(h, Ticks(w, n)) <= l
    BY <1>2 DEF Fits
  <2>3. h[n] = 0
    BY <1>2, <2>1 DEF Fits
  <2>4. ASSUME NEW a \in Time, a + Window >= n PROVE Size(h, Ticks(a, n)) <= l
    <3>1. a >= w
      BY <2>1, <2>2, <2>4, TimeIs
    <3>2. Ticks(a, n) \subseteq Ticks(w, n)
      <4> SUFFICES ASSUME NEW x \in Ticks(a, n) PROVE x \in Ticks(w, n)
        OBVIOUS
      <4>1. x \in Time /\ a <= x /\ x <= n
        BY DEF Ticks
      <4>2. a \in Nat /\ w \in Nat /\ x \in Nat
        BY <4>1, TimeIs
      <4>3. w <= x
        BY <3>1, <4>1, <4>2
      <4> QED
        BY <4>1, <4>3 DEF Ticks
    <3>3. Size(h, Ticks(a, n)) <= Size(h, Ticks(w, n))
      BY <3>2, TimeIs, SizeSubset
    <3>4. Size(h, Ticks(a, n)) \in Nat /\ Size(h, Ticks(w, n)) \in Nat
      BY TimeIs, SizeNat
    <3> QED
      BY <2>2, <3>3, <3>4
  <2>5. \A x \in Time : x > n => h[x] = 0
    BY DEF Fits
  <2> QED
    BY <2>3, <2>4, <2>5 DEF Fits
<1> QED
  BY <1>1, <1>2

\* A request that is let in after a window was over begins the next; the one
\* before is all that can be in reach of it.
LEMMA NewWindowFits ==
  ASSUME NEW l \in Nat \ {0}, NEW h \in Histories, NEW n \in Time,
         NEW b \in Records(l) \cup {None}, Fits(h, b, l, n), BucketOver(b, n),
         NEW g, g = h \/ g = More(h, n)
  PROVE  Fits(g, BucketCharged(b, l, n), l, n)
<1>1. Fits(h, None, l, n) /\ n \in Nat
  BY OverFits, TimeIs
<1>2. /\ h[n] = 0 /\ \A x \in Time : x > n => h[x] = 0
      /\ \A a \in Time : a + Window >= n => Size(h, Ticks(a, n)) <= l
  BY <1>1 DEF Fits
<1>3. /\ g \in Histories /\ \A x \in Time \ {n} : g[x] = h[x]
      /\ \A S \in SUBSET Time : Size(g, S) <= IF n \in S THEN Size(h, S) + 1 ELSE Size(h, S)
  <2>1. \A S \in SUBSET Time : Size(h, S) \in Nat
    BY SizeNat
  <2>2. CASE g = h
    BY <2>1, <2>2
  <2>3. CASE g = More(h, n)
    <3>1. \A S \in SUBSET Time : Size(g, S) = IF n \in S THEN Size(h, S) + 1 ELSE Size(h, S)
      BY <2>3, SizeMore
    <3>2. g \in Histories /\ \A x \in Time \ {n} : g[x] = h[x]
      BY <2>3, SizeMore
    <3> QED
      BY <2>1, <3>1, <3>2
  <2> QED
    BY <2>2, <2>3
<1>4. /\ BucketCharged(b, l, n) # None /\ BucketCharged(b, l, n).count = 1
      /\ BucketCharged(b, l, n).resetAt = n + Window
  BY <1>1, ChargedIs
<1>5. Size(h, Ticks(n, n)) = 0
  <2>1. \A x \in Ticks(n, n) \ {} : h[x] = 0
    BY <1>1, <1>2, TimeIs DEF Ticks
  <2>2. Size(h, Ticks(n, n)) <= Size(h, {})
    BY <2>1, TimeIs, SizeQuiet
  <2>3. Size(h, {}) = 0
    BY FS_EmptySet DEF Size, Requests
  <2>4. Size(h, Ticks(n, n)) \in Nat
    BY TimeIs, SizeNat
  <2> QED
    BY <2>2, <2>3, <2>4
<1>6. Size(g, Ticks(n, n)) <= 1
  <2>1. Size(g, Ticks(n, n)) \in Nat
    BY <1>3, TimeIs, SizeNat
  <2>2. Size(g, Ticks(n, n)) <= Size(h, Ticks(n, n)) + 1 \/ Size(g, Ticks(n, n)) <= Size(h, Ticks(n, n))
    BY <1>3, TimeIs
  <2> QED
    BY <1>5, <2>1, <2>2
<1>7. ASSUME NEW a \in Time, a + Window >= n PROVE Size(g, Before(a, n)) <= l
  <2>1. n \notin Before(a, n) /\ Before(a, n) \subseteq Ticks(a, n)
    BY DEF Before
  <2>2. Size(g, Before(a, n)) <= Size(h, Before(a, n))
    BY <1>3, <2>1, TimeIs
  <2>3. Size(h, Before(a, n)) <= Size(h, Ticks(a, n))
    BY <2>1, TimeIs, SizeSubset
  <2>4. /\ Size(g, Before(a, n)) \in Nat /\ Size(h, Before(a, n)) \in Nat
        /\ Size(h, Ticks(a, n)) \in Nat
    BY <1>3, TimeIs, SizeNat
  <2> QED
    BY <1>2, <1>7, <2>2, <2>3, <2>4
<1>8. \A x \in Time : x > n => g[x] = 0
  BY <1>1, <1>2, <1>3, TimeIs
<1>9. \A x \in Time : x > n + Window => g[x] = 0
  BY <1>1, <1>8, TimeIs
<1>10. Size(g, Ticks(n, n)) <= l
  <2>1. Size(g, Ticks(n, n)) \in Nat
    BY <1>3, TimeIs, SizeNat
  <2> QED
    BY <1>6, <2>1
<1>11. n <= n
  BY <1>1
<1> QED
  BY <1>4, <1>6, <1>7, <1>8, <1>9, <1>10, <1>11 DEF Fits

\* A request inside a window is let in while the window has quota left.
LEMMA SameWindowFits ==
  ASSUME NEW l \in Nat \ {0}, NEW h \in Histories, NEW n \in Time,
         NEW b \in Records(l) \cup {None}, Fits(h, b, l, n), ~BucketOver(b, n),
         NEW g, g = h \/ (b.count < l /\ g = More(h, n))
  PROVE  Fits(g, BucketCharged(b, l, n), l, n)
<1> DEFINE c == BucketCharged(b, l, n)
<1>1. n \in Nat /\ l \in Nat
  BY TimeIs
<1>2. /\ b \in Records(l) /\ b # None /\ n <= b.resetAt /\ c \in Records(l) /\ c # None
      /\ c.resetAt = b.resetAt /\ c.count = (IF b.count > l THEN l + 1 ELSE b.count + 1)
      /\ c.count >= b.count
  BY <1>1, ChargedIs
<1>3. b.count \in Nat /\ c.count \in Nat /\ b.resetAt \in Nat
  BY <1>1, <1>2, BucketNone
<1> HIDE DEF c
<1>4. PICK w \in Time : /\ w <= n /\ b.resetAt = w + Window
                        /\ Size(h, Ticks(w, n)) <= b.count
                        /\ Size(h, Ticks(w, n)) <= l
                        /\ \A a \in Time : a + Window >= w => Size(h, Before(a, w)) <= l
  BY <1>2 DEF Fits
<1>5. (\A x \in Time : x > n => h[x] = 0) /\ (\A x \in Time : x > b.resetAt => h[x] = 0)
  BY <1>2 DEF Fits
<1>6. Size(h, Ticks(w, n)) \in Nat /\ w \in Nat
  BY TimeIs, SizeNat
<1>7. CASE g = h
  <2>1. Size(g, Ticks(w, n)) <= c.count
    BY <1>2, <1>3, <1>4, <1>6, <1>7
  <2> QED
    BY <1>2, <1>4, <1>5, <1>7, <2>1 DEF Fits, c
<1>8. CASE b.count < l /\ g = More(h, n)
  <2>1. n \in Ticks(w, n) /\ \A a \in Time : n \notin Before(a, w)
    <3>1. n \in Ticks(w, n)
      BY <1>1, <1>4, <1>6, TimeIs
    <3>2. ASSUME NEW a \in Time PROVE n \notin Before(a, w)
      BY <1>1, <1>4, <1>6, TimeIs
    <3> QED
      BY <3>1, <3>2
  <2>2. Size(g, Ticks(w, n)) = Size(h, Ticks(w, n)) + 1
    BY <1>8, <2>1, TimeIs, SizeMore
  <2>3. \A a \in Time : Size(g, Before(a, w)) = Size(h, Before(a, w))
    BY <1>8, <2>1, TimeIs, SizeMore
  <2>4. c.count = b.count + 1
    BY <1>1, <1>2, <1>3, <1>8
  <2>5. Size(g, Ticks(w, n)) <= c.count /\ Size(g, Ticks(w, n)) <= l
    BY <1>1, <1>3, <1>4, <1>6, <1>8, <2>2, <2>4
  <2>6. \A x \in Time \ {n} : g[x] = h[x]
    BY <1>8, SizeMore
  <2>7. /\ \A x \in Time : x > n => g[x] = 0
        /\ \A x \in Time : x > c.resetAt => g[x] = 0
    BY <1>1, <1>2, <1>3, <1>5, <2>6, TimeIs
  <2>8. \A a \in Time : a + Window >= w => Size(g, Before(a, w)) <= l
    BY <1>4, <2>3
  <2>9. c.resetAt = w + Window /\ w <= n
    BY <1>2, <1>4
  <2> QED
    BY <1>2, <2>5, <2>7, <2>8, <2>9 DEF Fits, c
<1> QED
  BY <1>7, <1>8

\* What a quota promises at tick n.
Kept(h, b, l, n) == Fits(h, b, l, n) /\ Burst(h, l)

\* A quota is kept by a request it lets in, and by one it does not.
LEMMA ChargeKept ==
  ASSUME NEW l \in Nat \ {0}, NEW h \in Histories, NEW n \in Time,
         NEW b \in Records(l) \cup {None}, Kept(h, b, l, n),
         NEW g, g = h \/ (BucketAllows(b, l, n) /\ g = More(h, n))
  PROVE  g \in Histories /\ Kept(g, BucketCharged(b, l, n), l, n)
<1> DEFINE c == BucketCharged(b, l, n)
<1>1. Fits(g, c, l, n) /\ c # None
  <2>1. CASE BucketOver(b, n)
    BY <2>1, NewWindowFits, ChargedIs, TimeIs DEF Kept
  <2>2. CASE ~BucketOver(b, n)
    BY <2>2, SameWindowFits, ChargedIs, TimeIs DEF Kept, BucketAllows
  <2> QED
    BY <2>1, <2>2
<1> HIDE DEF c
<1>2. g \in Histories
  BY SizeMore
<1>3. Burst(g, l)
  <2> SUFFICES ASSUME NEW a \in Time PROVE Size(g, Ticks(a, a + Window)) <= 2 * l
    BY DEF Burst
  <2>1. CASE a + Window >= n
    BY <1>1, <1>2, <2>1, BurstNow
  <2>2. CASE ~(a + Window >= n)
    <3>1. n \notin Ticks(a, a + Window)
      <4>1. n \in Nat /\ a \in Nat /\ Window \in Nat
        BY TimeIs
      <4>2. ~(n <= a + Window)
        BY <2>2, <4>1
      <4> QED
        BY <4>2 DEF Ticks
    <3>2. Size(g, Ticks(a, a + Window)) = Size(h, Ticks(a, a + Window))
      BY <3>1, TimeIs, SizeMore
    <3> QED
      BY <3>2 DEF Kept, Burst
  <2> QED
    BY <2>1, <2>2
<1> QED
  BY <1>1, <1>2, <1>3 DEF Kept, c

\* Neither the clock nor the clean-up gives anything away.
LEMMA TickKept ==
  ASSUME NEW l \in Nat, NEW h \in Histories, NEW n \in Time, n + 1 \in Time,
         NEW b \in Records(l) \cup {None}, Kept(h, b, l, n)
  PROVE  Kept(h, b, l, n + 1)
BY TickFits DEF Kept

LEMMA SweptKept ==
  ASSUME NEW l \in Nat, NEW h \in Histories, NEW n \in Time,
         NEW b \in Records(l) \cup {None}, Kept(h, b, l, n)
  PROVE  Kept(h, IF BucketOver(b, n) THEN None ELSE b, l, n)
BY OverFits DEF Kept

Zero == [x \in Time |-> 0]

LEMMA FreshKept ==
  ASSUME NEW l \in Nat, NEW n \in Time
  PROVE  Zero \in Histories /\ Kept(Zero, None, l, n)
<1>1. Zero \in Histories
  BY DEF Zero, Histories
<1>2. \A S \in SUBSET Time : Size(Zero, S) = 0
  <2> SUFFICES ASSUME NEW S \in SUBSET Time PROVE Size(Zero, S) = 0
    OBVIOUS
  <2>1. \A x \in S \ {} : Zero[x] = 0
    BY DEF Zero
  <2>2. Size(Zero, S) <= Size(Zero, {})
    BY <1>1, <2>1, SizeQuiet
  <2>3. Size(Zero, {}) = 0
    BY FS_EmptySet DEF Size, Requests
  <2>4. Size(Zero, S) \in Nat
    BY <1>1, SizeNat
  <2> QED
    BY <2>2, <2>3, <2>4
<1>3. \A x \in Time : Zero[x] = 0
  BY DEF Zero
<1>4. \A a, b : Size(Zero, Ticks(a, b)) = 0
  BY <1>2, TimeIs
<1>5. Fits(Zero, None, l, n)
  <2>1. 0 <= l
    OBVIOUS
  <2> QED
    BY <1>3, <1>4, <2>1 DEF Fits
<1>6. Burst(Zero, l)
  <2>1. 0 <= 2 * l
    OBVIOUS
  <2> QED
    BY <1>4, <2>1 DEF Burst
<1> QED
  BY <1>1, <1>5, <1>6 DEF Kept

-----------------------------------------------------------------------------
(***************************************************************************)
(* What a bucket counts was there to be counted.                           *)
(***************************************************************************)

LEMMA EarnedTick ==
  ASSUME NEW l \in Nat, NEW h \in Histories, NEW n \in Time,
         NEW b \in Records(l) \cup {None}, Earned(h, b, l, n)
  PROVE  Earned(h, b, l, n + 1)
<1> SUFFICES ASSUME b # None, NEW w \in Time, b.resetAt = w + Window
             PROVE  Size(h, Ticks(w, n + 1)) >= IF b.count < l THEN b.count ELSE l
  BY DEF Earned
<1>1. Size(h, Ticks(w, n)) >= IF b.count < l THEN b.count ELSE l
  BY DEF Earned
<1>2. Ticks(w, n) \subseteq Ticks(w, n + 1)
  <2> SUFFICES ASSUME NEW x \in Ticks(w, n) PROVE x \in Ticks(w, n + 1)
    OBVIOUS
  <2>1. x \in Time /\ w <= x /\ x <= n
    BY DEF Ticks
  <2>2. x \in Nat /\ n \in Nat
    BY <2>1, TimeIs
  <2>3. x <= n + 1
    BY <2>1, <2>2
  <2> QED
    BY <2>1, <2>3 DEF Ticks
<1>3. Size(h, Ticks(w, n)) <= Size(h, Ticks(w, n + 1))
  BY <1>2, TimeIs, SizeSubset
<1>4. Size(h, Ticks(w, n)) \in Nat /\ Size(h, Ticks(w, n + 1)) \in Nat /\ b.count \in Nat
  BY TimeIs, SizeNat, BucketNone
<1> QED
  BY <1>1, <1>3, <1>4

\* A charge is counted, unless the quota is spent or the history is full.
LEMMA EarnedCharge ==
  ASSUME NEW l \in Nat \ {0}, NEW h \in Histories, NEW n \in Time,
         NEW b \in Records(l) \cup {None}, Earned(h, b, l, n),
         NEW g, \/ g = More(h, n)
                \/ g = h /\ (~BucketAllows(b, l, n) \/ h[n] >= l)
  PROVE  Earned(g, BucketCharged(b, l, n), l, n)
<1> DEFINE c == BucketCharged(b, l, n)
<1>1. /\ n \in Nat /\ l \in Nat /\ h[n] \in Nat /\ g \in Histories /\ Window \in Nat
      /\ c \in Records(l) /\ c # None
  BY TimeIs, SizeMore, ChargedIs DEF Histories
<1>2. BucketOver(b, n) => c.count = 1 /\ c.resetAt = n + Window
  BY <1>1, ChargedIs
<1>3. ~BucketOver(b, n) =>
        /\ b \in Records(l) /\ b # None /\ c.resetAt = b.resetAt
        /\ c.count = IF b.count > l THEN l + 1 ELSE b.count + 1
  BY <1>1, ChargedIs
<1>4. c.count \in Nat
  BY <1>1, BucketNone
<1> HIDE DEF c
<1> SUFFICES ASSUME NEW w \in Time, c.resetAt = w + Window
             PROVE  Size(g, Ticks(w, n)) >= IF c.count < l THEN c.count ELSE l
  BY DEF Earned, c
<1>5. /\ Size(g, Ticks(w, n)) \in Nat /\ Size(h, Ticks(w, n)) \in Nat /\ w \in Nat
  BY <1>1, TimeIs, SizeNat
<1>6. CASE BucketOver(b, n)
  <2>1. w = n
    BY <1>1, <1>2, <1>5, <1>6
  <2>2. n \in Ticks(w, n)
    BY <1>1, <2>1 DEF Ticks
  <2>3. g[n] <= Size(g, Ticks(w, n))
    BY <1>1, <2>2, TimeIs, SizeAtLeast
  <2>4. g[n] \in Nat /\ g[n] >= 1
    <3>1. CASE g = More(h, n)
      BY <1>1, <3>1, SizeMore
    <3>2. CASE g = h /\ (~BucketAllows(b, l, n) \/ h[n] >= l)
      BY <1>1, <1>6, <3>2 DEF BucketAllows
    <3> QED
      BY <3>1, <3>2
  <2> QED
    BY <1>1, <1>2, <1>5, <1>6, <2>3, <2>4
<1>7. CASE ~BucketOver(b, n)
  <2>1. Size(h, Ticks(w, n)) >= IF b.count < l THEN b.count ELSE l
    BY <1>3, <1>7 DEF Earned
  <2>2. b.count \in Nat /\ b.count >= 1
    BY <1>1, <1>3, <1>7, BucketNone
  <2>3. n \in Ticks(w, n)
    <3>1. w <= n
      <4> SUFFICES ASSUME ~(w <= n) PROVE FALSE
        OBVIOUS
      <4>1. Ticks(w, n) = {}
        <5> SUFFICES ASSUME NEW x \in Ticks(w, n) PROVE FALSE
          OBVIOUS
        <5>1. x \in Time /\ w <= x /\ x <= n
          BY DEF Ticks
        <5>2. x \in Nat
          BY <5>1, TimeIs
        <5> QED
          BY <1>1, <1>5, <5>1, <5>2
      <4>2. Size(h, {}) = 0
        BY FS_EmptySet DEF Size, Requests
      <4> QED
        BY <1>1, <2>1, <2>2, <4>1, <4>2
    <3> QED
      BY <1>1, <3>1 DEF Ticks
  <2>4. CASE g = More(h, n)
    <3>1. Size(g, Ticks(w, n)) = Size(h, Ticks(w, n)) + 1
      BY <2>3, <2>4, TimeIs, SizeMore
    <3> QED
      BY <1>1, <1>3, <1>4, <1>5, <1>7, <2>1, <2>2, <3>1
  <2>5. CASE g = h /\ ~BucketAllows(b, l, n)
    <3>1. ~(b.count < l)
      BY <2>5 DEF BucketAllows
    <3> QED
      BY <1>1, <1>4, <1>5, <2>1, <2>2, <2>5, <3>1
  <2>6. CASE g = h /\ h[n] >= l
    <3>1. h[n] <= Size(h, Ticks(w, n))
      BY <2>3, TimeIs, SizeAtLeast
    <3> QED
      BY <1>1, <1>4, <1>5, <2>6, <3>1
  <2> QED
    BY <2>4, <2>5, <2>6
<1> QED
  BY <1>6, <1>7

Since(n) == IF n < Window THEN 0 ELSE n - Window

\* A bucket refuses when its window has let in the whole quota.
LEMMA RefusedEarned ==
  ASSUME NEW l \in Nat \ {0}, NEW h \in Histories, NEW n \in Time,
         NEW b \in Records(l) \cup {None}, Earned(h, b, l, n), ~BucketAllows(b, l, n),
         NEW w \in Time, b.resetAt = w + Window
  PROVE  Size(h, Ticks(Since(n), n)) >= l
<1>1. b # None /\ ~(n > b.resetAt) /\ ~(b.count < l)
  BY DEF BucketAllows, BucketOver
<1>2. b.count \in Nat /\ n \in Nat /\ w \in Nat /\ Window \in Nat /\ l \in Nat
  BY <1>1, BucketNone, TimeIs
<1>3. Size(h, Ticks(w, n)) >= l
  BY <1>1, <1>2 DEF Earned
<1>4. Since(n) <= w /\ Since(n) \in Nat
  BY <1>1, <1>2 DEF Since
<1>5. Ticks(w, n) \subseteq Ticks(Since(n), n)
  <2> SUFFICES ASSUME NEW x \in Ticks(w, n) PROVE x \in Ticks(Since(n), n)
    OBVIOUS
  <2>1. x \in Time /\ w <= x /\ x <= n
    BY DEF Ticks
  <2>2. x \in Nat
    BY <2>1, TimeIs
  <2>3. Since(n) <= x
    BY <1>2, <1>4, <2>1, <2>2
  <2> QED
    BY <2>1, <2>3 DEF Ticks
<1>6. Size(h, Ticks(w, n)) <= Size(h, Ticks(Since(n), n))
  BY <1>5, TimeIs, SizeSubset
<1>7. Size(h, Ticks(w, n)) \in Nat /\ Size(h, Ticks(Since(n), n)) \in Nat
  BY TimeIs, SizeNat
<1> QED
  BY <1>2, <1>3, <1>6, <1>7

-----------------------------------------------------------------------------
(***************************************************************************)
(* The buckets and histories of the gateway.                               *)
(***************************************************************************)

LEMMA LimitsAre ==
  /\ AuthFailLimit \in Nat \ {0} /\ ProxyLimit \in Nat \ {0} /\ IpLimit \in Nat
  /\ IpLimit > 0 => IpLimit \in Nat \ {0}
  /\ \A l : Bucket(l) = Records(l) \cup {None}
BY AccessAssumption DEF Bucket, Records

\* A request charges the bucket of its key and no other.
LEMMA ChargedMap ==
  ASSUME NEW K, NEW l \in Nat, now \in Time, NEW map \in [K -> Bucket(l)], NEW key \in K
  PROVE  /\ Over(map, key) <=> BucketOver(map[key], now)
         /\ Allowed(map, key, l) <=> BucketAllows(map[key], l, now)
         /\ Charged(map, key, l) \in [K -> Bucket(l)]
         /\ Charged(map, key, l)[key] = BucketCharged(map[key], l, now)
         /\ \A k \in K \ {key} : Charged(map, key, l)[k] = map[k]
<1>1. Over(map, key) <=> BucketOver(map[key], now)
  BY DEF Over, BucketOver
<1>2. Allowed(map, key, l) <=> BucketAllows(map[key], l, now)
  BY <1>1 DEF Allowed, BucketAllows
<1>3. Charged(map, key, l) = [map EXCEPT ![key] = BucketCharged(map[key], l, now)]
  <2>1. CASE BucketOver(map[key], now)
    BY <1>1, <2>1 DEF Charged, BucketCharged
  <2>2. CASE ~BucketOver(map[key], now)
    BY <1>1, <2>2 DEF Charged, BucketCharged
  <2> QED
    BY <2>1, <2>2
<1>4. BucketCharged(map[key], l, now) \in Bucket(l)
  <2>1. map[key] \in Records(l) \cup {None} /\ now \in Nat
    BY LimitsAre, TimeIs
  <2> QED
    BY <2>1, ChargedIs, LimitsAre
<1> QED
  BY <1>1, <1>2, <1>3, <1>4

LEMMA SweptMap ==
  ASSUME NEW K, NEW l \in Nat, NEW map \in [K -> Bucket(l)]
  PROVE  /\ Swept(map) \in [K -> Bucket(l)]
         /\ \A k \in K : Swept(map)[k] = IF BucketOver(map[k], now) THEN None ELSE map[k]
BY LimitsAre DEF Swept, Over, BucketOver

LEMMA NoneKept ==
  ASSUME NEW K, NEW l
  PROVE  [k \in K |-> None] \in [K -> Bucket(l)]
BY LimitsAre

LEMMA OneMore ==
  ASSUME NEW K, NEW f \in [K -> [Time -> Nat]], NEW k \in K, NEW n \in Time,
         NEW g, g = [f EXCEPT ![k][n] = @ + 1]
  PROVE  /\ g \in [K -> [Time -> Nat]]
         /\ g[k] = More(f[k], n)
         /\ \A j \in K \ {k} : g[j] = f[j]
<1>1. g = [f EXCEPT ![k] = More(f[k], n)]
  BY DEF More
<1>2. More(f[k], n) \in [Time -> Nat]
  BY SizeMore DEF Histories
<1> QED
  BY <1>1, <1>2

\* A login, a logout, a look at a session: nothing of the quotas of the proxy.
ProxyIdle == UNCHANGED <<now, proxyRequests, proxyIpRequests, admitted, admittedFrom, askedFrom>>

\* A request with a valid credential: nothing of the quota of the failures.
RejectIdle == UNCHANGED <<now, authFailures, rejected>>

\* Every step is one of these, as far as the quotas are concerned.
LEMMA QuotaSteps ==
  ASSUME AccessTypeOK, [Next]_vars
  PROVE  \/ \E t \in Tenants, ip \in Ips : Proxy(t, ip) /\ RejectIdle
         \/ ProxyIdle /\ (RejectIdle \/ Probing \/ \E ip \in Ips : DenyUnauthorized(ip) /\ UNCHANGED now)
         \/ Tick \/ CleanUp \/ Restart
<1>1. ASSUME NEW ip \in Ips, Reject(ip) PROVE ProxyIdle /\ DenyUnauthorized(ip) /\ UNCHANGED now
  BY <1>1 DEF Reject, ProxyIdle
<1>2. ASSUME NEW t \in Tenants, NEW ip \in Ips, Proxy(t, ip) PROVE RejectIdle
  BY <1>2 DEF Proxy, RejectIdle
<1>3. ASSUME NEW ip \in Ips, NEW s \in SessionIds, Login(ip, s) \/ Logout(ip, s)
      PROVE  ProxyIdle /\ RejectIdle
  BY <1>3 DEF Login, Logout, limits, counts, ProxyIdle, RejectIdle
<1>4. ASSUME NEW ip \in Ips, NEW s \in SessionIds, ProbeSession(ip, s)
      PROVE  ProxyIdle /\ (RejectIdle \/ Probing)
  BY <1>4 DEF ProbeSession, limits, ProxyIdle, RejectIdle
<1>5. ASSUME NEW ip \in Ips, NEW s \in SessionIds,
             \E mutating, trusted \in BOOLEAN : ByCookie(ip, s, mutating, trusted)
      PROVE  ProxyIdle /\ (RejectIdle \/ (DenyUnauthorized(ip) /\ UNCHANGED now))
  <2>1. PICK mutating, trusted \in BOOLEAN : ByCookie(ip, s, mutating, trusted)
    BY <1>5
  <2>2. ProxyIdle /\ UNCHANGED now
    BY <2>1 DEF ByCookie, ProxyIdle
  <2>3. CASE ~Valid(s)
    BY <2>1, <2>2, <2>3 DEF ByCookie
  <2>4. CASE Valid(s)
    BY <2>1, <2>2, <2>4 DEF ByCookie, RejectIdle
  <2> QED
    BY <2>2, <2>3, <2>4
<1>6. Sweep => ProxyIdle /\ RejectIdle
  BY DEF Sweep, limits, counts, ProxyIdle, RejectIdle
<1>7. UNCHANGED vars => ProxyIdle /\ RejectIdle
  BY DEF vars, limits, counts, ProxyIdle, RejectIdle
<1> QED
  BY <1>1, <1>2, <1>3, <1>4, <1>5, <1>6, <1>7 DEF Next

-----------------------------------------------------------------------------
(***************************************************************************)
(* Types.                                                                  *)
(***************************************************************************)

LEMMA InitTyped == Init => AccessTypeOK
<1> SUFFICES ASSUME Init PROVE AccessTypeOK
  OBVIOUS
<1>1. now \in Time
  BY AccessAssumption DEF Init, Time
<1>2. /\ authFailures \in [Ips -> Bucket(AuthFailLimit)]
      /\ proxyRequests \in [Tenants -> Bucket(ProxyLimit)]
      /\ proxyIpRequests \in [Ips -> Bucket(IpLimit)]
  BY NoneKept DEF Init
<1>3. askedFrom \in [Ips -> [Time -> 0..IpLimit]]
  BY AccessAssumption DEF Init
<1>4. answer.code = 0
  BY DEF Init, NoAnswer
<1> QED
  BY <1>1, <1>2, <1>3, <1>4 DEF Init, AccessTypeOK

\* What an attempt that fails does.
LEMMA DenyTyped ==
  ASSUME AccessTypeOK, NEW ip \in Ips, DenyUnauthorized(ip)
  PROVE  /\ authFailures' \in [Ips -> Bucket(AuthFailLimit)]
         /\ rejected' \in [Ips -> [Time -> Nat]]
         /\ answer'.code \in {401, 429} /\ answer'.who = None
<1>1. /\ authFailures \in [Ips -> Bucket(AuthFailLimit)] /\ now \in Time
      /\ rejected \in [Ips -> [Time -> Nat]]
  BY DEF AccessTypeOK
<1>2. authFailures' \in [Ips -> Bucket(AuthFailLimit)]
  BY <1>1, ChargedMap, LimitsAre DEF DenyUnauthorized
<1>3. rejected' = rejected \/ rejected' = [rejected EXCEPT ![ip][now] = @ + 1]
  BY DEF DenyUnauthorized
<1>5. rejected' \in [Ips -> [Time -> Nat]]
  BY <1>1, <1>3, OneMore
<1> QED
  BY <1>2, <1>5 DEF DenyUnauthorized, Answer

LEMMA ValidateTyped ==
  ASSUME AccessTypeOK, NEW s \in SessionIds, Validate(s)
  PROVE  sessions' \in [SessionIds -> [expiresAt : Nat] \cup {None}]
BY DEF AccessTypeOK, Validate

LEMMA TypeStep ==
  ASSUME AccessTypeOK, [Next]_vars
  PROVE  AccessTypeOK'
<1> USE DEF AccessTypeOK
<1>1. ASSUME NEW ip \in Ips, Reject(ip) PROVE AccessTypeOK'
  <2>1. UNCHANGED <<now, proxyRequests, proxyIpRequests, sessions, created,
                    admitted, admittedFrom, askedFrom>>
    BY <1>1 DEF Reject
  <2> QED
    BY <1>1, <2>1, DenyTyped DEF Reject
<1>2. ASSUME NEW t \in Tenants, NEW ip \in Ips, Proxy(t, ip) PROVE AccessTypeOK'
  <2>1. UNCHANGED <<now, authFailures, sessions, created, rejected>>
    BY <1>2 DEF Proxy
  <2>2. proxyIpRequests' \in [Ips -> Bucket(IpLimit)]
    BY <1>2, ChargedMap, LimitsAre DEF Proxy
  <2>3. proxyRequests' \in [Tenants -> Bucket(ProxyLimit)]
    BY <1>2, ChargedMap, LimitsAre DEF Proxy, TenantCharge
  <2>4. askedFrom' \in [Ips -> [Time -> 0..IpLimit]]
    <3>1. askedFrom[ip][now] \in 0..IpLimit
      OBVIOUS
    <3>2. (IF askedFrom[ip][now] < IpLimit THEN askedFrom[ip][now] + 1 ELSE askedFrom[ip][now])
             \in 0..IpLimit
      BY <3>1, LimitsAre
    <3> QED
      BY <1>2, <3>2 DEF Proxy
  <2>5. /\ admitted' = admitted \/ admitted' = [admitted EXCEPT ![t][now] = @ + 1]
        /\ \/ admittedFrom' = admittedFrom
           \/ admittedFrom' = [admittedFrom EXCEPT ![ip][now] = @ + 1]
        /\ answer'.code \in {200, 429}
    BY <1>2 DEF Proxy, Answer
  <2>6. admitted' \in [Tenants -> [Time -> Nat]]
    <3>1. now \in Time /\ admitted \in [Tenants -> [Time -> Nat]]
      OBVIOUS
    <3> HIDE DEF AccessTypeOK
    <3> QED
      BY <2>5, <3>1, OneMore
  <2>7. admittedFrom' \in [Ips -> [Time -> Nat]]
    <3>1. now \in Time /\ admittedFrom \in [Ips -> [Time -> Nat]]
      OBVIOUS
    <3> HIDE DEF AccessTypeOK
    <3> QED
      BY <2>5, <3>1, OneMore
  <2> QED
    BY <2>1, <2>2, <2>3, <2>4, <2>5, <2>6, <2>7
<1>3. ASSUME NEW ip \in Ips, NEW s \in SessionIds, Login(ip, s) PROVE AccessTypeOK'
  <2>1. now + Ttl \in Nat
    BY AccessAssumption, TimeIs
  <2>2. /\ sessions' \in [SessionIds -> [expiresAt : Nat] \cup {None}]
        /\ created' \in [SessionIds -> Time \cup {None}]
    BY <1>3, <2>1 DEF Login
  <2>3. UNCHANGED <<now, limits, counts>> /\ answer'.code = 200
    BY <1>3 DEF Login, Answer
  <2> QED
    BY <2>2, <2>3 DEF limits, counts
<1>4. ASSUME NEW ip \in Ips, NEW s \in SessionIds, ProbeSession(ip, s) PROVE AccessTypeOK'
  <2>1. rejected' = rejected \/ rejected' = [rejected EXCEPT ![ip][now] = @ + 1]
    BY <1>4 DEF ProbeSession
  <2>3. rejected' \in [Ips -> [Time -> Nat]]
    <3>1. now \in Time /\ rejected \in [Ips -> [Time -> Nat]]
      OBVIOUS
    <3> HIDE DEF AccessTypeOK
    <3> DEFINE g == rejected'
    <3>2. CASE g = rejected
      BY <3>1, <3>2
    <3>3. CASE g = [rejected EXCEPT ![ip][now] = @ + 1]
      <4> HIDE DEF g
      <4>1. g \in [Ips -> [Time -> Nat]]
        BY <3>1, <3>3, OneMore
      <4> QED
        BY <4>1 DEF g
    <3> QED
      BY <2>1, <3>2, <3>3
  <2>4. answer'.code \in {200, 401}
    BY <1>4 DEF ProbeSession, Answer
  <2>5. UNCHANGED <<now, limits, created, admitted, admittedFrom, askedFrom>>
    BY <1>4 DEF ProbeSession
  <2> QED
    BY <1>4, <2>3, <2>4, <2>5, ValidateTyped DEF ProbeSession, limits
<1>5. ASSUME NEW ip \in Ips, NEW s \in SessionIds, Logout(ip, s) PROVE AccessTypeOK'
  <2>1. UNCHANGED <<now, limits, counts>> /\ answer'.code = 200
    BY <1>5 DEF Logout, Answer
  <2> QED
    BY <1>5, <2>1 DEF Logout, limits, counts
<1>6. ASSUME NEW ip \in Ips, NEW s \in SessionIds, NEW mutating \in BOOLEAN, NEW trusted \in BOOLEAN,
             ByCookie(ip, s, mutating, trusted)
      PROVE  AccessTypeOK'
  <2>1. UNCHANGED <<now, proxyRequests, proxyIpRequests, created, admitted, admittedFrom, askedFrom>>
    BY <1>6 DEF ByCookie
  <2>2. sessions' \in [SessionIds -> [expiresAt : Nat] \cup {None}]
    BY <1>6, ValidateTyped DEF ByCookie
  <2>3. CASE ~Valid(s)
    BY <1>6, <2>1, <2>2, <2>3, DenyTyped DEF ByCookie
  <2>4. CASE Valid(s)
    <3>1. UNCHANGED <<authFailures, rejected>> /\ answer'.code \in {200, 403}
      BY <1>6, <2>4 DEF ByCookie, Answer
    <3> QED
      BY <2>1, <2>2, <3>1
  <2> QED
    BY <2>3, <2>4
<1>7. CASE Tick
  <2>1. now' \in Time
    <3>1. now \in Nat /\ now < MaxNow /\ now' = now + 1
      BY <1>7, TimeIs DEF Tick
    <3> QED
      BY <3>1, TimeIs DEF Time
  <2>2. UNCHANGED <<limits, sessions, created, counts>> /\ answer'.code = 0
    BY <1>7 DEF Tick, NoAnswer
  <2> QED
    BY <2>1, <2>2 DEF limits, counts
<1>8. CASE CleanUp
  <2>1. UNCHANGED <<now, sessions, created, counts>> /\ answer'.code = 0
    BY <1>8 DEF CleanUp, NoAnswer
  <2>2. /\ authFailures' \in [Ips -> Bucket(AuthFailLimit)]
        /\ proxyRequests' \in [Tenants -> Bucket(ProxyLimit)]
        /\ proxyIpRequests' \in [Ips -> Bucket(IpLimit)]
    BY <1>8, SweptMap, LimitsAre DEF CleanUp
  <2> QED
    BY <2>1, <2>2 DEF counts
<1>9. CASE Sweep
  <2>1. UNCHANGED <<now, limits, created, counts>> /\ answer'.code = 0
    BY <1>9 DEF Sweep, NoAnswer
  <2>2. sessions' \in [SessionIds -> [expiresAt : Nat] \cup {None}]
    BY <1>9 DEF Sweep
  <2> QED
    BY <2>1, <2>2 DEF limits, counts
<1>10. CASE Restart
  <2>1. UNCHANGED now /\ answer'.code = 0
    BY <1>10 DEF Restart, Fresh, NoAnswer
  <2>2. /\ authFailures' \in [Ips -> Bucket(AuthFailLimit)]
        /\ proxyRequests' \in [Tenants -> Bucket(ProxyLimit)]
        /\ proxyIpRequests' \in [Ips -> Bucket(IpLimit)]
    BY <1>10, NoneKept DEF Restart, Fresh
  <2>3. askedFrom' \in [Ips -> [Time -> 0..IpLimit]]
    BY <1>10, AccessAssumption DEF Restart, Fresh
  <2> QED
    BY <1>10, <2>1, <2>2, <2>3 DEF Restart, Fresh
<1>11. CASE UNCHANGED vars
  BY <1>11 DEF vars, limits, counts
<1> QED
  BY <1>1, <1>2, <1>3, <1>4, <1>5, <1>6, <1>7, <1>8, <1>9, <1>10, <1>11 DEF Next

-----------------------------------------------------------------------------
(***************************************************************************)
(* The quotas.                                                             *)
(***************************************************************************)

\* The quotas of the proxy: what they let in, and what they count.
ProxyKept ==
    /\ \A t \in Tenants :
          /\ Kept(admitted[t], proxyRequests[t], ProxyLimit, now)
          /\ Earned(admitted[t], proxyRequests[t], ProxyLimit, now)
    /\ IpLimit > 0 =>
          \A i \in Ips :
             /\ Kept(admittedFrom[i], proxyIpRequests[i], IpLimit, now)
             /\ Earned(askedFrom[i], proxyIpRequests[i], IpLimit, now)

\* The quotas of the failed attempts.
RejectKept ==
    \A i \in Ips : Kept(rejected[i], authFailures[i], AuthFailLimit, now)

\* The pieces of a state the lemmas about one quota ask for.
LEMMA Pieces ==
  ASSUME AccessTypeOK
  PROVE  /\ now \in Time /\ now \in Nat
         /\ \A t \in Tenants : /\ admitted[t] \in Histories
                               /\ proxyRequests[t] \in Records(ProxyLimit) \cup {None}
         /\ \A i \in Ips : /\ admittedFrom[i] \in Histories /\ rejected[i] \in Histories
                           /\ askedFrom[i] \in Histories
                           /\ proxyIpRequests[i] \in Records(IpLimit) \cup {None}
                           /\ authFailures[i] \in Records(AuthFailLimit) \cup {None}
<1>1. now \in Time /\ now \in Nat
  BY TimeIs DEF AccessTypeOK
<1>2. \A i \in Ips : askedFrom[i] \in Histories
  <2> SUFFICES ASSUME NEW i \in Ips PROVE askedFrom[i] \in Histories
    OBVIOUS
  <2>1. askedFrom[i] \in [Time -> 0..IpLimit] /\ 0..IpLimit \subseteq Nat
    BY LimitsAre DEF AccessTypeOK
  <2> QED
    BY <2>1 DEF Histories
<1> QED
  BY <1>1, <1>2, LimitsAre DEF AccessTypeOK, Histories

LEMMA EarnedNone ==
  ASSUME NEW h, NEW l, NEW n
  PROVE  Earned(h, None, l, n)
BY DEF Earned

LEMMA TickQuotas ==
  ASSUME AccessTypeOK, AccessTypeOK', Tick
  PROVE  /\ ProxyKept => ProxyKept'
         /\ RejectKept => RejectKept'
<1>1. /\ now' = now + 1
      /\ UNCHANGED <<authFailures, proxyRequests, proxyIpRequests, rejected, admitted,
                     admittedFrom, askedFrom>>
  BY DEF Tick, limits, counts
<1>2. now + 1 \in Time
  BY <1>1 DEF AccessTypeOK
<1>3. ASSUME ProxyKept PROVE ProxyKept'
  <2>1. ASSUME NEW t \in Tenants
        PROVE  /\ Kept(admitted[t], proxyRequests[t], ProxyLimit, now + 1)
               /\ Earned(admitted[t], proxyRequests[t], ProxyLimit, now + 1)
    BY <1>2, <1>3, Pieces, LimitsAre, TickKept, EarnedTick DEF ProxyKept
  <2>2. ASSUME IpLimit > 0, NEW i \in Ips
        PROVE  /\ Kept(admittedFrom[i], proxyIpRequests[i], IpLimit, now + 1)
               /\ Earned(askedFrom[i], proxyIpRequests[i], IpLimit, now + 1)
    BY <1>2, <1>3, <2>2, Pieces, LimitsAre, TickKept, EarnedTick DEF ProxyKept
  <2> QED
    BY <1>1, <2>1, <2>2 DEF ProxyKept
<1>4. ASSUME RejectKept PROVE RejectKept'
  <2>1. ASSUME NEW i \in Ips
        PROVE  Kept(rejected[i], authFailures[i], AuthFailLimit, now + 1)
    BY <1>2, <1>4, Pieces, LimitsAre, TickKept DEF RejectKept
  <2> QED
    BY <1>1, <2>1 DEF RejectKept
<1> QED
  BY <1>3, <1>4

LEMMA CleanUpQuotas ==
  ASSUME AccessTypeOK, CleanUp
  PROVE  /\ ProxyKept => ProxyKept'
         /\ RejectKept => RejectKept'
<1>1. /\ UNCHANGED <<now, rejected, admitted, admittedFrom, askedFrom>>
      /\ authFailures' = Swept(authFailures) /\ proxyRequests' = Swept(proxyRequests)
      /\ proxyIpRequests' = Swept(proxyIpRequests)
  BY DEF CleanUp, counts
<1>2. /\ \A t \in Tenants : proxyRequests'[t] =
            IF BucketOver(proxyRequests[t], now) THEN None ELSE proxyRequests[t]
      /\ \A i \in Ips :
            /\ proxyIpRequests'[i] =
                 IF BucketOver(proxyIpRequests[i], now) THEN None ELSE proxyIpRequests[i]
            /\ authFailures'[i] =
                 IF BucketOver(authFailures[i], now) THEN None ELSE authFailures[i]
  <2>1. /\ proxyRequests \in [Tenants -> Bucket(ProxyLimit)]
        /\ proxyIpRequests \in [Ips -> Bucket(IpLimit)]
        /\ authFailures \in [Ips -> Bucket(AuthFailLimit)]
    BY DEF AccessTypeOK
  <2>2. \A t \in Tenants : Swept(proxyRequests)[t] =
            IF BucketOver(proxyRequests[t], now) THEN None ELSE proxyRequests[t]
    BY <2>1, SweptMap, LimitsAre
  <2>3. \A i \in Ips : Swept(proxyIpRequests)[i] =
            IF BucketOver(proxyIpRequests[i], now) THEN None ELSE proxyIpRequests[i]
    BY <2>1, SweptMap, LimitsAre
  <2>4. \A i \in Ips : Swept(authFailures)[i] =
            IF BucketOver(authFailures[i], now) THEN None ELSE authFailures[i]
    BY <2>1, SweptMap, LimitsAre
  <2> QED
    BY <1>1, <2>2, <2>3, <2>4
<1>3. ASSUME ProxyKept PROVE ProxyKept'
  <2>1. ASSUME NEW t \in Tenants
        PROVE  /\ Kept(admitted[t], proxyRequests'[t], ProxyLimit, now)
               /\ Earned(admitted[t], proxyRequests'[t], ProxyLimit, now)
    BY <1>2, <1>3, Pieces, LimitsAre, SweptKept, EarnedNone DEF ProxyKept
  <2>2. ASSUME IpLimit > 0, NEW i \in Ips
        PROVE  /\ Kept(admittedFrom[i], proxyIpRequests'[i], IpLimit, now)
               /\ Earned(askedFrom[i], proxyIpRequests'[i], IpLimit, now)
    BY <1>2, <1>3, <2>2, Pieces, LimitsAre, SweptKept, EarnedNone DEF ProxyKept
  <2> QED
    BY <1>1, <2>1, <2>2 DEF ProxyKept
<1>4. ASSUME RejectKept PROVE RejectKept'
  <2>1. ASSUME NEW i \in Ips
        PROVE  Kept(rejected[i], authFailures'[i], AuthFailLimit, now)
    BY <1>2, <1>4, Pieces, LimitsAre, SweptKept DEF RejectKept
  <2> QED
    BY <1>1, <2>1 DEF RejectKept
<1> QED
  BY <1>3, <1>4

\* At the start, and after a restart, nothing was let in and nothing counted.
LEMMA FreshQuotas ==
  /\ Init => ProxyKept /\ RejectKept
  /\ AccessTypeOK /\ Restart => ProxyKept' /\ RejectKept'
<1>1. ASSUME NEW n \in Time, NEW l \in Nat
      PROVE  Kept([x \in Time |-> 0], None, l, n) /\ \A h : Earned(h, None, l, n)
  BY <1>1, FreshKept, EarnedNone DEF Zero
<1>2. ASSUME Init PROVE ProxyKept /\ RejectKept
  <2>1. now \in Time
    BY <1>2, InitTyped DEF AccessTypeOK
  <2> QED
    BY <1>1, <1>2, <2>1, LimitsAre DEF Init, ProxyKept, RejectKept
<1>3. ASSUME AccessTypeOK, Restart PROVE ProxyKept' /\ RejectKept'
  <2>1. now \in Time /\ now' = now
    BY <1>3 DEF AccessTypeOK, Restart
  <2> QED
    BY <1>1, <1>3, <2>1, LimitsAre DEF Restart, Fresh, ProxyKept, RejectKept
<1> QED
  BY <1>2, <1>3

\* A failed attempt spends the quota of its address.
LEMMA DenyQuotas ==
  ASSUME AccessTypeOK, RejectKept, NEW ip \in Ips, DenyUnauthorized(ip), now' = now
  PROVE  RejectKept'
<1>1. /\ now \in Time /\ authFailures \in [Ips -> Bucket(AuthFailLimit)]
      /\ rejected \in [Ips -> [Time -> Nat]] /\ AuthFailLimit \in Nat
  BY LimitsAre DEF AccessTypeOK
<1>2. /\ authFailures'[ip] = BucketCharged(authFailures[ip], AuthFailLimit, now)
      /\ \A j \in Ips \ {ip} : authFailures'[j] = authFailures[j]
      /\ Allowed(authFailures, ip, AuthFailLimit) <=> BucketAllows(authFailures[ip], AuthFailLimit, now)
  BY <1>1, ChargedMap DEF DenyUnauthorized
<1>3. /\ \/ rejected'[ip] = rejected[ip]
         \/ /\ BucketAllows(authFailures[ip], AuthFailLimit, now)
            /\ rejected'[ip] = More(rejected[ip], now)
      /\ \A j \in Ips \ {ip} : rejected'[j] = rejected[j]
  <2>1. CASE Allowed(authFailures, ip, AuthFailLimit)
    <3>1. rejected' = [rejected EXCEPT ![ip][now] = @ + 1]
      BY <2>1 DEF DenyUnauthorized
    <3>2. /\ rejected'[ip] = More(rejected[ip], now)
          /\ \A j \in Ips \ {ip} : rejected'[j] = rejected[j]
      <4>1. now \in Time /\ rejected \in [Ips -> [Time -> Nat]]
        BY <1>1
      <4> DEFINE g == rejected'
      <4>2. g = [rejected EXCEPT ![ip][now] = @ + 1]
        BY <3>1
      <4> HIDE DEF g
      <4>3. g[ip] = More(rejected[ip], now) /\ \A j \in Ips \ {ip} : g[j] = rejected[j]
        BY <4>1, <4>2, OneMore
      <4> QED
        BY <4>3 DEF g
    <3> QED
      BY <1>2, <2>1, <3>2
  <2>2. CASE ~Allowed(authFailures, ip, AuthFailLimit)
    BY <2>2 DEF DenyUnauthorized
  <2> QED
    BY <2>1, <2>2
<1>4. Kept(rejected'[ip], authFailures'[ip], AuthFailLimit, now)
  BY <1>2, <1>3, Pieces, LimitsAre, ChargeKept DEF RejectKept
<1> QED
  BY <1>2, <1>3, <1>4 DEF RejectKept

\* A proxy request is counted with its address, up to the quota of the address.
LEMMA Asked ==
  ASSUME AccessTypeOK, NEW t \in Tenants, NEW ip \in Ips, Proxy(t, ip)
  PROVE  /\ \/ askedFrom'[ip] = More(askedFrom[ip], now)
            \/ askedFrom'[ip] = askedFrom[ip] /\ askedFrom[ip][now] >= IpLimit
         /\ \A k \in Ips \ {ip} : askedFrom'[k] = askedFrom[k]
<1>1. now \in Time /\ askedFrom \in [Ips -> [Time -> 0..IpLimit]] /\ IpLimit \in Nat
  BY LimitsAre DEF AccessTypeOK
<1>2. askedFrom' = [askedFrom EXCEPT ![ip][now] = IF @ < IpLimit THEN @ + 1 ELSE @]
  BY DEF Proxy
<1>3. \A k \in Ips \ {ip} : askedFrom'[k] = askedFrom[k]
  BY <1>1, <1>2
<1>4. askedFrom[ip] \in [Time -> 0..IpLimit] /\ askedFrom[ip][now] \in Nat
  BY <1>1
<1>5. CASE askedFrom[ip][now] < IpLimit
  <2>1. askedFrom'[ip] = [askedFrom[ip] EXCEPT ![now] = askedFrom[ip][now] + 1]
    BY <1>1, <1>2, <1>5
  <2> QED
    BY <1>3, <2>1 DEF More
<1>6. CASE ~(askedFrom[ip][now] < IpLimit)
  <2>1. askedFrom'[ip] = [askedFrom[ip] EXCEPT ![now] = askedFrom[ip][now]]
    BY <1>1, <1>2, <1>6
  <2>2. askedFrom'[ip] = askedFrom[ip]
    BY <1>4, <2>1
  <2> QED
    BY <1>1, <1>3, <1>4, <1>6, <2>2
<1> QED
  BY <1>5, <1>6

\* A proxy request spends the quota of its address and, if that one had some
\* left, the quota of its tenant.
LEMMA ProxyQuotas ==
  ASSUME AccessTypeOK, ProxyKept, NEW t \in Tenants, NEW ip \in Ips, Proxy(t, ip)
  PROVE  ProxyKept'
<1> DEFINE open == IpLimit > 0 => Allowed(proxyIpRequests, ip, IpLimit)
           fits == Allowed(proxyRequests, t, ProxyLimit)
<1>1. /\ now \in Time /\ now' = now
      /\ proxyRequests \in [Tenants -> Bucket(ProxyLimit)] /\ proxyIpRequests \in [Ips -> Bucket(IpLimit)]
      /\ admitted \in [Tenants -> [Time -> Nat]] /\ admittedFrom \in [Ips -> [Time -> Nat]]
      /\ askedFrom \in [Ips -> [Time -> 0..IpLimit]]
      /\ ProxyLimit \in Nat /\ IpLimit \in Nat
  BY LimitsAre DEF AccessTypeOK, Proxy
<1>2. /\ fits <=> BucketAllows(proxyRequests[t], ProxyLimit, now)
      /\ Charged(proxyRequests, t, ProxyLimit)[t] = BucketCharged(proxyRequests[t], ProxyLimit, now)
      /\ \A k \in Tenants \ {t} : Charged(proxyRequests, t, ProxyLimit)[k] = proxyRequests[k]
  <2>1. now \in Time /\ ProxyLimit \in Nat /\ proxyRequests \in [Tenants -> Bucket(ProxyLimit)]
    BY <1>1
  <2> QED
    BY <2>1, ChargedMap
<1>3. /\ Allowed(proxyIpRequests, ip, IpLimit) <=> BucketAllows(proxyIpRequests[ip], IpLimit, now)
      /\ Charged(proxyIpRequests, ip, IpLimit)[ip] = BucketCharged(proxyIpRequests[ip], IpLimit, now)
      /\ \A k \in Ips \ {ip} : Charged(proxyIpRequests, ip, IpLimit)[k] = proxyIpRequests[k]
  <2>1. now \in Time /\ IpLimit \in Nat /\ proxyIpRequests \in [Ips -> Bucket(IpLimit)]
    BY <1>1
  <2> QED
    BY <2>1, ChargedMap
<1>4. proxyRequests' = IF open THEN Charged(proxyRequests, t, ProxyLimit) ELSE proxyRequests
  BY DEF Proxy, TenantCharge
<1>5. /\ open /\ fits => /\ admitted' = [admitted EXCEPT ![t][now] = @ + 1]
                         /\ admittedFrom' = [admittedFrom EXCEPT ![ip][now] = @ + 1]
      /\ ~(open /\ fits) => admitted' = admitted /\ admittedFrom' = admittedFrom
  BY DEF Proxy
<1> HIDE DEF open, fits
<1>6. /\ open /\ fits => admitted'[t] = More(admitted[t], now)
      /\ ~(open /\ fits) => admitted'[t] = admitted[t]
      /\ \A k \in Tenants \ {t} : admitted'[k] = admitted[k]
  <2> DEFINE g == admitted'
  <2>1. CASE open /\ fits
    <3>1. now \in Time /\ admitted \in [Tenants -> [Time -> Nat]]
      BY <1>1
    <3>2. g = [admitted EXCEPT ![t][now] = @ + 1]
      BY <1>5, <2>1
    <3> HIDE DEF g
    <3>3. g[t] = More(admitted[t], now)
      BY <3>1, <3>2, OneMore, SMTT(30)
    <3>4. \A k \in Tenants \ {t} : g[k] = admitted[k]
      BY <3>1, <3>2, OneMore
    <3> QED
      BY <2>1, <3>3, <3>4 DEF g
  <2>2. CASE ~(open /\ fits)
    BY <1>5, <2>2
  <2> QED
    BY <2>1, <2>2
<1>7. /\ open /\ fits => admittedFrom'[ip] = More(admittedFrom[ip], now)
      /\ ~(open /\ fits) => admittedFrom'[ip] = admittedFrom[ip]
      /\ \A k \in Ips \ {ip} : admittedFrom'[k] = admittedFrom[k]
  <2> DEFINE g == admittedFrom'
  <2>1. CASE open /\ fits
    <3>1. now \in Time /\ admittedFrom \in [Ips -> [Time -> Nat]]
      BY <1>1
    <3>2. g = [admittedFrom EXCEPT ![ip][now] = @ + 1]
      BY <1>5, <2>1
    <3> HIDE DEF g
    <3>3. g[ip] = More(admittedFrom[ip], now)
      BY <3>1, <3>2, OneMore, SMTT(30)
    <3>4. \A k \in Ips \ {ip} : g[k] = admittedFrom[k]
      BY <3>1, <3>2, OneMore
    <3> QED
      BY <2>1, <3>3, <3>4 DEF g
  <2>2. CASE ~(open /\ fits)
    BY <1>5, <2>2
  <2> QED
    BY <2>1, <2>2
<1>8. /\ \/ askedFrom'[ip] = More(askedFrom[ip], now)
         \/ askedFrom'[ip] = askedFrom[ip] /\ askedFrom[ip][now] >= IpLimit
      /\ \A k \in Ips \ {ip} : askedFrom'[k] = askedFrom[k]
  BY Asked
<1>9. ASSUME NEW k \in Tenants
      PROVE  /\ Kept(admitted'[k], proxyRequests'[k], ProxyLimit, now)
             /\ Earned(admitted'[k], proxyRequests'[k], ProxyLimit, now)
  <2>1. CASE k # t \/ ~open
    BY <1>2, <1>4, <1>6, <2>1 DEF ProxyKept
  <2>2. CASE k = t /\ open
    <3>1. proxyRequests'[t] = BucketCharged(proxyRequests[t], ProxyLimit, now)
      BY <1>2, <1>4, <2>2
    <3>2. \/ /\ BucketAllows(proxyRequests[t], ProxyLimit, now)
             /\ admitted'[t] = More(admitted[t], now)
          \/ /\ ~BucketAllows(proxyRequests[t], ProxyLimit, now)
             /\ admitted'[t] = admitted[t]
      BY <1>2, <1>6, <2>2
    <3>3. Kept(admitted'[t], proxyRequests'[t], ProxyLimit, now)
      BY <3>1, <3>2, Pieces, LimitsAre, ChargeKept DEF ProxyKept
    <3>4. Earned(admitted'[t], proxyRequests'[t], ProxyLimit, now)
      BY <3>1, <3>2, Pieces, LimitsAre, EarnedCharge DEF ProxyKept
    <3> QED
      BY <2>2, <3>3, <3>4
  <2> QED
    BY <2>1, <2>2
<1>10. ASSUME IpLimit > 0, NEW i \in Ips
       PROVE  /\ Kept(admittedFrom'[i], proxyIpRequests'[i], IpLimit, now)
              /\ Earned(askedFrom'[i], proxyIpRequests'[i], IpLimit, now)
  <2>1. proxyIpRequests' = Charged(proxyIpRequests, ip, IpLimit)
    BY <1>10 DEF Proxy
  <2>2. CASE i # ip
    BY <1>3, <1>7, <1>8, <1>10, <2>1, <2>2 DEF ProxyKept
  <2>3. CASE i = ip
    <3>1. proxyIpRequests'[ip] = BucketCharged(proxyIpRequests[ip], IpLimit, now)
      BY <1>3, <2>1
    <3>2. \/ /\ BucketAllows(proxyIpRequests[ip], IpLimit, now)
             /\ admittedFrom'[ip] = More(admittedFrom[ip], now)
          \/ admittedFrom'[ip] = admittedFrom[ip]
      BY <1>3, <1>7, <1>10 DEF open
    <3>3. Kept(admittedFrom'[ip], proxyIpRequests'[ip], IpLimit, now)
      BY <1>10, <3>1, <3>2, Pieces, LimitsAre, ChargeKept DEF ProxyKept
    <3>4. Earned(askedFrom'[ip], proxyIpRequests'[ip], IpLimit, now)
      BY <1>8, <1>10, <3>1, Pieces, LimitsAre, EarnedCharge DEF ProxyKept
    <3> QED
      BY <2>3, <3>3, <3>4
  <2> QED
    BY <2>2, <2>3
<1> QED
  BY <1>1, <1>9, <1>10 DEF ProxyKept

LEMMA ProxyStep ==
  ASSUME AccessTypeOK, AccessTypeOK', [Next]_vars, ProxyKept
  PROVE  ProxyKept'
<1>1. ProxyIdle => ProxyKept'
  BY DEF ProxyIdle, ProxyKept
<1> QED
  BY <1>1, QuotaSteps, ProxyQuotas, TickQuotas, CleanUpQuotas, FreshQuotas

LEMMA RejectStep ==
  ASSUME AccessTypeOK, AccessTypeOK', [Next]_vars, RejectKept, ~Probing
  PROVE  RejectKept'
<1>1. RejectIdle => RejectKept'
  BY DEF RejectIdle, RejectKept
<1> QED
  BY <1>1, QuotaSteps, DenyQuotas, TickQuotas, CleanUpQuotas, FreshQuotas

-----------------------------------------------------------------------------
(***************************************************************************)
(* Refusals.                                                               *)
(***************************************************************************)

LEMMA Began ==
  ASSUME NEW h, NEW b, b # None, NEW l, NEW n, Kept(h, b, l, n)
  PROVE  \E w \in Time : b.resetAt = w + Window
BY DEF Kept, Fits

LEMMA RefusalEarned ==
  ASSUME AccessTypeOK, ProxyKept, NEW t \in Tenants, NEW ip \in Ips, Proxy(t, ip)
  PROVE  RefusalsEarned'
<1> DEFINE T == Ticks(Since(now), now)
<1>1. now' = now /\ now \in Time
  BY DEF Proxy, AccessTypeOK
<1>2. CASE answer'.code = 200
  BY <1>2 DEF RefusalsEarned
<1>3. CASE answer'.code = 429
  <2>1. /\ answer'.who = t /\ answer'.from = ip
        /\ ~(/\ IpLimit > 0 => Allowed(proxyIpRequests, ip, IpLimit)
             /\ Allowed(proxyRequests, t, ProxyLimit))
    BY <1>3 DEF Proxy, Answer
  <2>2. CASE IpLimit > 0 /\ ~Allowed(proxyIpRequests, ip, IpLimit)
    <3>1. IpLimit \in Nat \ {0} /\ proxyIpRequests \in [Ips -> Bucket(IpLimit)]
      BY <2>2, LimitsAre DEF AccessTypeOK
    <3>2. ~BucketAllows(proxyIpRequests[ip], IpLimit, now)
      BY <1>1, <2>2, <3>1, ChargedMap
    <3>3. proxyIpRequests[ip] # None
      BY <3>2 DEF BucketAllows, BucketOver
    <3>4. /\ Kept(admittedFrom[ip], proxyIpRequests[ip], IpLimit, now)
          /\ Earned(askedFrom[ip], proxyIpRequests[ip], IpLimit, now)
      BY <2>2 DEF ProxyKept
    <3>5. \E w \in Time : proxyIpRequests[ip].resetAt = w + Window
      BY <3>3, <3>4, Began
    <3>6. Size(askedFrom[ip], T) >= IpLimit
      BY <1>1, <3>1, <3>2, <3>4, <3>5, Pieces, RefusedEarned
    <3>7. Size(askedFrom[ip], T) \in Nat
      BY Pieces, TimeIs, SizeNat
    <3>8. \/ Size(askedFrom'[ip], T) = Size(askedFrom[ip], T)
          \/ Size(askedFrom'[ip], T) = Size(askedFrom[ip], T) + 1
      BY <1>1, Asked, Pieces, TimeIs, SizeMore
    <3>9. Size(askedFrom'[ip], T) >= IpLimit
      BY <3>1, <3>6, <3>7, <3>8
    <3> QED
      BY <1>1, <2>1, <2>2, <3>9 DEF RefusalsEarned, Counted, Size, Since
  <2>3. CASE ~Allowed(proxyRequests, t, ProxyLimit)
    <3>1. ProxyLimit \in Nat \ {0} /\ proxyRequests \in [Tenants -> Bucket(ProxyLimit)]
      BY LimitsAre DEF AccessTypeOK
    <3>2. ~BucketAllows(proxyRequests[t], ProxyLimit, now)
      BY <1>1, <2>3, <3>1, ChargedMap
    <3>3. proxyRequests[t] # None
      BY <3>2 DEF BucketAllows, BucketOver
    <3>4. /\ Kept(admitted[t], proxyRequests[t], ProxyLimit, now)
          /\ Earned(admitted[t], proxyRequests[t], ProxyLimit, now)
      BY DEF ProxyKept
    <3>5. \E w \in Time : proxyRequests[t].resetAt = w + Window
      BY <3>3, <3>4, Began
    <3>6. Size(admitted[t], T) >= ProxyLimit
      BY <1>1, <3>1, <3>2, <3>4, <3>5, Pieces, RefusedEarned
    <3>7. admitted' = admitted
      BY <2>3 DEF Proxy
    <3> QED
      BY <1>1, <2>1, <3>6, <3>7 DEF RefusalsEarned, Counted, Size, Since
  <2> QED
    BY <2>1, <2>2, <2>3
<1> QED
  BY <1>2, <1>3 DEF Proxy, Answer

\* Nobody but a proxy request is refused in the name of a tenant.
LEMMA OtherAnswers ==
  ASSUME AccessTypeOK, Next
  PROVE  \/ \E t \in Tenants, ip \in Ips : Proxy(t, ip)
         \/ answer'.code # 429 \/ answer'.who \notin Tenants
<1>1. ASSUME NEW ip \in Ips, Reject(ip) PROVE answer'.who = None
  BY <1>1, DenyTyped DEF Reject
<1>2. ASSUME NEW ip \in Ips, NEW s \in SessionIds, Login(ip, s) \/ Logout(ip, s) \/ ProbeSession(ip, s)
      PROVE  answer'.code # 429
  BY <1>2 DEF Login, Logout, ProbeSession, Answer
<1>3. ASSUME NEW ip \in Ips, NEW s \in SessionIds, NEW mutating \in BOOLEAN, NEW trusted \in BOOLEAN,
             ByCookie(ip, s, mutating, trusted)
      PROVE  answer'.code # 429 \/ answer'.who = None
  BY <1>3, DenyTyped DEF ByCookie, Answer
<1>4. Tick \/ CleanUp \/ Sweep \/ Restart => answer'.code # 429
  BY DEF Tick, CleanUp, Sweep, Restart, Fresh, NoAnswer
<1>5. None \notin Tenants
  BY AccessAssumption
<1> QED
  BY <1>1, <1>2, <1>3, <1>4, <1>5 DEF Next

LEMMA RefusalStep ==
  ASSUME AccessTypeOK, ProxyKept, RefusalsEarned, [Next]_vars
  PROVE  RefusalsEarned'
<1>1. CASE UNCHANGED vars
  <2>1. UNCHANGED <<now, admitted, askedFrom, answer>>
    BY <1>1 DEF vars, counts
  <2> QED
    BY <2>1 DEF RefusalsEarned, Counted
<1>2. ASSUME answer'.code # 429 \/ answer'.who \notin Tenants PROVE RefusalsEarned'
  BY <1>2 DEF RefusalsEarned
<1> QED
  BY <1>1, <1>2, OtherAnswers, RefusalEarned

-----------------------------------------------------------------------------
(***************************************************************************)
(* Sessions.                                                               *)
(***************************************************************************)

LEMMA SessionSteps ==
  ASSUME AccessTypeOK, SessionsAccounted, [Next]_vars
  PROVE  SessionsAccounted'
<1>1. ASSUME NEW s \in SessionIds, Validate(s), created' = created PROVE SessionsAccounted'
  <2>1. \A r \in SessionIds : sessions'[r] = sessions[r] \/ sessions'[r] = None
    BY <1>1 DEF Validate, AccessTypeOK
  <2> QED
    BY <1>1, <2>1 DEF SessionsAccounted
<1>2. UNCHANGED <<sessions, created>> => SessionsAccounted'
  BY DEF SessionsAccounted
<1>3. ASSUME NEW ip \in Ips, NEW s \in SessionIds, Login(ip, s) PROVE SessionsAccounted'
  <2>1. /\ sessions'[s] = [expiresAt |-> now + Ttl] /\ created'[s] = now
        /\ \A r \in SessionIds \ {s} : sessions'[r] = sessions[r] /\ created'[r] = created[r]
    BY <1>3 DEF Login, AccessTypeOK
  <2>2. now # None
    BY AccessAssumption, TimeIs DEF AccessTypeOK
  <2> QED
    BY <2>1, <2>2 DEF SessionsAccounted
<1>4. ASSUME NEW ip \in Ips, NEW s \in SessionIds, Logout(ip, s) PROVE SessionsAccounted'
  <2>1. /\ sessions'[s] = None
        /\ \A r \in SessionIds \ {s} : sessions'[r] = sessions[r] /\ created'[r] = created[r]
    BY <1>4 DEF Logout, AccessTypeOK
  <2> QED
    BY <2>1 DEF SessionsAccounted
<1>5. CASE Sweep
  <2>1. created' = created /\ \A r \in SessionIds : sessions'[r] = sessions[r] \/ sessions'[r] = None
    BY <1>5 DEF Sweep
  <2> QED
    BY <2>1 DEF SessionsAccounted
<1>6. CASE Restart
  BY <1>6 DEF Restart, Fresh, SessionsAccounted
<1>7. ASSUME NEW ip \in Ips, Reject(ip) PROVE UNCHANGED <<sessions, created>>
  BY <1>7 DEF Reject
<1>8. ASSUME NEW t \in Tenants, NEW ip \in Ips, Proxy(t, ip) PROVE UNCHANGED <<sessions, created>>
  BY <1>8 DEF Proxy
<1>9. Tick \/ CleanUp => UNCHANGED <<sessions, created>>
  BY DEF Tick, CleanUp
<1>10. ASSUME NEW ip \in Ips, NEW s \in SessionIds, ProbeSession(ip, s)
       PROVE  Validate(s) /\ created' = created
  BY <1>10 DEF ProbeSession
<1>11. ASSUME NEW ip \in Ips, NEW s \in SessionIds, NEW mutating \in BOOLEAN, NEW trusted \in BOOLEAN,
              ByCookie(ip, s, mutating, trusted)
       PROVE  Validate(s) /\ created' = created
  BY <1>11 DEF ByCookie
<1>12. CASE UNCHANGED vars
  BY <1>2, <1>12 DEF vars
<1> QED
  BY <1>1, <1>2, <1>3, <1>4, <1>5, <1>6, <1>7, <1>8, <1>9, <1>10, <1>11, <1>12 DEF Next

\* A session that lets in is one that is valid now.
LEMMA FixedStep ==
  ASSUME AccessTypeOK, SessionsAccounted, SessionsFixed, [Next]_vars
  PROVE  SessionsFixed'
<1> DEFINE Quiet == answer'.code \notin {200, 403} \/ answer'.who \notin SessionIds
<1>1. Quiet => SessionsFixed'
  BY DEF SessionsFixed
<1>2. None \notin SessionIds /\ Tenants \cap SessionIds = {}
  BY AccessAssumption
<1>3. ASSUME NEW s \in SessionIds, Valid(s), created' = created, now' = now, answer'.who = s
      PROVE  SessionsFixed'
  <2>1. created[s] # None /\ sessions[s].expiresAt = created[s] + Ttl /\ ~(now > sessions[s].expiresAt)
    BY <1>3 DEF Valid, SessionsAccounted
  <2>2. created[s] \in Time /\ now \in Nat /\ Ttl \in Nat
    BY <2>1, AccessAssumption, TimeIs DEF AccessTypeOK
  <2>3. now <= created[s] + Ttl
    <3> DEFINE c == created[s]
    <3>1. c \in Nat /\ ~(now > c + Ttl)
      BY <2>1, <2>2, TimeIs
    <3> HIDE DEF c
    <3>2. now <= c + Ttl
      BY <2>2, <3>1
    <3> QED
      BY <3>2 DEF c
  <2> QED
    BY <1>3, <2>1, <2>3 DEF SessionsFixed
<1>4. ASSUME NEW ip \in Ips, Reject(ip) PROVE Quiet
  BY <1>2, <1>4, DenyTyped DEF Reject
<1>5. ASSUME NEW t \in Tenants, NEW ip \in Ips, Proxy(t, ip) PROVE Quiet
  <2>1. answer'.who = t
    BY <1>5 DEF Proxy, Answer
  <2> QED
    BY <1>2, <2>1
<1>6. ASSUME NEW ip \in Ips, NEW s \in SessionIds, Login(ip, s) \/ Logout(ip, s) PROVE Quiet
  <2>1. answer'.who = None
    BY <1>6 DEF Login, Logout, Answer
  <2> QED
    BY <1>2, <2>1
<1>7. ASSUME NEW ip \in Ips, NEW s \in SessionIds, ProbeSession(ip, s) PROVE SessionsFixed'
  <2>1. created' = created /\ now' = now
    BY <1>7 DEF ProbeSession
  <2>2. CASE Valid(s)
    <3>1. answer'.who = s
      BY <1>7, <2>2 DEF ProbeSession, Answer
    <3> QED
      BY <1>3, <2>1, <2>2, <3>1
  <2>3. CASE ~Valid(s)
    <3>1. answer'.code = 401
      BY <1>7, <2>3 DEF ProbeSession, Answer
    <3> QED
      BY <1>1, <3>1
  <2> QED
    BY <2>2, <2>3
<1>8. ASSUME NEW ip \in Ips, NEW s \in SessionIds, NEW mutating \in BOOLEAN, NEW trusted \in BOOLEAN,
             ByCookie(ip, s, mutating, trusted)
      PROVE  SessionsFixed'
  <2>1. created' = created /\ now' = now
    BY <1>8 DEF ByCookie
  <2>2. CASE Valid(s)
    <3>1. answer'.who = s
      BY <1>8, <2>2 DEF ByCookie, Answer
    <3> QED
      BY <1>3, <2>1, <2>2, <3>1
  <2>3. CASE ~Valid(s)
    <3>1. answer'.who = None
      BY <1>8, <2>3, DenyTyped DEF ByCookie
    <3> QED
      BY <1>1, <1>2, <3>1
  <2> QED
    BY <2>2, <2>3
<1>9. Tick \/ CleanUp \/ Sweep \/ Restart => Quiet
  BY DEF Tick, CleanUp, Sweep, Restart, Fresh, NoAnswer
<1>10. CASE UNCHANGED vars
  BY <1>10 DEF vars, SessionsFixed
<1> HIDE DEF Quiet
<1> QED
  BY <1>1, <1>4, <1>5, <1>6, <1>7, <1>8, <1>9, <1>10 DEF Next

-----------------------------------------------------------------------------
(***************************************************************************)
(* Theorems.                                                               *)
(***************************************************************************)

\* What carries itself from request to request.
AccessCore == AccessTypeOK /\ SessionsAccounted /\ SessionsFixed /\ ProxyKept

LEMMA InitCore == Init => AccessCore /\ RejectKept /\ RefusalsEarned
<1>1. Init => SessionsAccounted /\ SessionsFixed /\ RefusalsEarned
  BY DEF Init, NoAnswer, SessionsAccounted, SessionsFixed, RefusalsEarned
<1> QED
  BY <1>1, InitTyped, FreshQuotas DEF AccessCore

LEMMA CoreStep == AccessCore /\ [Next]_vars => AccessCore'
BY TypeStep, SessionSteps, FixedStep, ProxyStep DEF AccessCore

LEMMA CoreHolds == Spec => []AccessCore
<1>1. Init => AccessCore
  BY InitCore
<1> QED
  BY <1>1, CoreStep, PTL DEF Spec

LEMMA WindowIs ==
  ASSUME NEW h, NEW b, NEW l, Kept(h, b, l, now)
  PROVE  WindowFits(h, b, l) /\ \A a \in Time : Counted(h, a, a + Window) <= 2 * l
BY DEF Kept, Fits, Burst, WindowFits, Counted, Size, Before

LEMMA EarnedIs ==
  ASSUME NEW h, NEW b, NEW l, Earned(h, b, l, now)
  PROVE  WindowEarned(h, b, l)
BY DEF Earned, WindowEarned, Counted, Size

\* The quotas let in at most twice what they say in any interval of the length
\* of their window (checkLimit), whatever the clock, the clean-up and the
\* restarts do, every failure counts, and a session lasts for its time.
THEOREM AccessCorrect == ~Probing => (Spec => []AccessInv)
<1> SUFFICES ASSUME ~Probing PROVE Spec => []AccessInv
  OBVIOUS
<1>1. Init => AccessCore /\ RejectKept
  BY InitCore
<1>2. (AccessCore /\ RejectKept) /\ [Next]_vars => (AccessCore /\ RejectKept)'
  BY CoreStep, RejectStep DEF AccessCore
<1>3. AccessCore /\ RejectKept => AccessInv
  <2> SUFFICES ASSUME AccessCore, RejectKept PROVE AccessInv
    OBVIOUS
  <2>1. ASSUME NEW t \in Tenants
        PROVE  /\ WindowFits(admitted[t], proxyRequests[t], ProxyLimit)
               /\ \A a \in Time : Counted(admitted[t], a, a + Window) <= 2 * ProxyLimit
               /\ WindowEarned(admitted[t], proxyRequests[t], ProxyLimit)
    BY WindowIs, EarnedIs DEF AccessCore, ProxyKept
  <2>2. ASSUME IpLimit > 0, NEW i \in Ips
        PROVE  /\ WindowFits(admittedFrom[i], proxyIpRequests[i], IpLimit)
               /\ \A a \in Time : Counted(admittedFrom[i], a, a + Window) <= 2 * IpLimit
               /\ WindowEarned(askedFrom[i], proxyIpRequests[i], IpLimit)
    BY <2>2, WindowIs, EarnedIs DEF AccessCore, ProxyKept
  <2>3. ASSUME NEW i \in Ips
        PROVE  /\ WindowFits(rejected[i], authFailures[i], AuthFailLimit)
               /\ \A a \in Time : Counted(rejected[i], a, a + Window) <= 2 * AuthFailLimit
    BY WindowIs DEF RejectKept
  <2>4. BurstBounded /\ EveryRejectionCounts /\ WindowsAccounted
    BY <2>1, <2>2, <2>3 DEF BurstBounded, EveryRejectionCounts, WindowsAccounted
  <2> QED
    BY <2>4 DEF AccessCore, AccessInv
<1> QED
  BY <1>1, <1>2, <1>3, PTL DEF Spec

\* A tenant is refused only for what it was let in itself, or for what its
\* address asked (refuseProxyRequest): the refusal of an address costs no
\* tenant its quota.
THEOREM RefusalsEarnedHolds == Spec => []RefusalsEarned
<1>1. Init => RefusalsEarned
  BY InitCore
<1>2. AccessCore /\ RefusalsEarned /\ [Next]_vars => RefusalsEarned'
  BY RefusalStep DEF AccessCore
<1> QED
  BY <1>1, <1>2, CoreHolds, PTL DEF Spec

\* With or without requests that only ask whether there is a session: the
\* bursts of the proxy are bounded, and sessions are fixed.
THEOREM BurstsAndSessionsBounded == Spec => [](BurstBounded /\ SessionsFixed)
<1>1. AccessCore => BurstBounded /\ SessionsFixed
  <2> SUFFICES ASSUME AccessCore PROVE BurstBounded /\ SessionsFixed
    OBVIOUS
  <2>1. ASSUME NEW t \in Tenants, NEW a \in Time
        PROVE  Counted(admitted[t], a, a + Window) <= 2 * ProxyLimit
    BY WindowIs DEF AccessCore, ProxyKept
  <2>2. ASSUME IpLimit > 0, NEW i \in Ips, NEW a \in Time
        PROVE  Counted(admittedFrom[i], a, a + Window) <= 2 * IpLimit
    BY <2>2, WindowIs DEF AccessCore, ProxyKept
  <2> QED
    BY <2>1, <2>2 DEF BurstBounded, AccessCore
<1> QED
  BY <1>1, CoreHolds, PTL

=============================================================================
