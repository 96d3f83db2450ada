-------------------------- MODULE SequenceStatsProofs --------------------------
(***************************************************************************)
(* Theorems about SequenceStats, for every window size, data_every and     *)
(* bound: the types of the store; the sizes of the open gaps, computed by  *)
(* division from their segments, are those of sets of missing frames; no   *)
(* evidence is spent twice; windows that were reported leave no gap        *)
(* unexplained.                                                            *)
(*                                                                         *)
(* The first sections translate the arithmetic of segments into sets of    *)
(* numbers: what each operation takes is a subset of the numbers that were *)
(* open, as large as it says (Took).  The invariant and the proofs of the  *)
(* operations are about those sets.                                        *)
(***************************************************************************)
EXTENDS SequenceStats, SequenceTheorems, FiniteSetTheorems, FunctionTheorems, TLAPS

-----------------------------------------------------------------------------
(* Induction over numbers, and functions defined by recursion.             *)

\* A set of naturals that is not empty has a least member.
LEMMA LeastNumber ==
  ASSUME NEW T \in SUBSET Nat, T # {}
  PROVE  \E m \in T : \A k \in T : m <= k
<1> DEFINE R == OpToRel(<, Nat)
<1>1. IsWellFoundedOn(R, Nat)
  BY NatLessThanWellFounded
<1>2. \A k, m \in Nat : k < m => <<k, m>> \in R
  BY DEF OpToRel
<1> HIDE DEF R
<1>3. PICK m \in T : \A k \in T : <<k, m>> \notin R
  BY <1>1, WFMin
<1>4. \A k \in T : ~(k < m)
  BY <1>2, <1>3
<1> QED
  BY <1>4

\* Induction over the naturals, stated with a set: the form with a predicate as a
\* parameter cannot be instantiated by the provers.
LEMMA SetInduction ==
  ASSUME NEW T \in SUBSET Nat, 0 \in T, \A n \in T : n + 1 \in T
  PROVE  T = Nat
<1> SUFFICES ASSUME Nat \ T # {} PROVE FALSE
  OBVIOUS
<1>1. PICK m \in Nat \ T : \A k \in Nat \ T : m <= k
  <2>1. Nat \ T \in SUBSET Nat
    OBVIOUS
  <2> QED BY <2>1, LeastNumber
<1>2. m # 0 /\ m - 1 \in Nat
  OBVIOUS
<1>3. m - 1 \in T
  BY <1>1, <1>2
<1> QED BY <1>1, <1>2, <1>3

\* The functions of the model that are defined by recursion do what their definitions
\* say: there is a function that does, by induction on its domain.
LEMMA GapStepsDef ==
  ASSUME NEW g, Len(g) \in Nat, NEW lower, NEW upper, NEW limit
  PROVE  LET f == GapSteps(g, lower, upper, limit)
         IN f = [i \in 0 .. Len(g) |-> IF i = 0 THEN Nothing
                   ELSE Then(f[i - 1], ConsumeSegment(g[i], lower, upper, limit - f[i - 1].taken))]
<1> DEFINE Next_(i, p) == Then(p, ConsumeSegment(g[i], lower, upper, limit - p.taken))
           Goes(f, n) == f = [i \in 0 .. n |-> IF i = 0 THEN Nothing ELSE Next_(i, f[i - 1])]
           T == {n \in Nat : \E f : Goes(f, n)}
<1> HIDE DEF Next_
<1>1. 0 \in T
  <2>1. Goes([i \in 0 .. 0 |-> Nothing], 0)
    OBVIOUS
  <2> QED BY <2>1
<1>2. ASSUME NEW n \in T PROVE n + 1 \in T
  <2>1. PICK f : Goes(f, n)
    BY <1>2
  <2> DEFINE h == [i \in 0 .. (n + 1) |-> IF i = n + 1 THEN Next_(n + 1, f[n]) ELSE f[i]]
  <2>2. \A i \in 0 .. (n + 1) : h[i] = IF i = 0 THEN Nothing ELSE Next_(i, h[i - 1])
    BY <2>1
  <2>3. Goes(h, n + 1)
    <3> DOMAIN h = 0 .. (n + 1) OBVIOUS
    <3> QED BY <2>2
  <2> HIDE DEF h, Goes
  <2> QED BY <2>3
<1>3. T = Nat
  <2>1. T \in SUBSET Nat
    OBVIOUS
  <2> HIDE DEF T
  <2> QED BY <1>1, <1>2, <2>1, SetInduction
<1>4. \E f : Goes(f, Len(g))
  <2> HIDE DEF Goes
  <2> QED BY <1>3
<1> QED
  BY <1>4 DEF GapSteps, Next_

LEMMA GapsStepsDef ==
  ASSUME NEW gs, Len(gs) \in Nat, NEW lower, NEW upper, NEW limit
  PROVE  LET f == GapsSteps(gs, lower, upper, limit)
         IN f = [i \in 0 .. Len(gs) |-> IF i = 0 THEN Nothing
                   ELSE Then(f[i - 1], Pruned(ConsumeGap(gs[i], lower, upper, limit - f[i - 1].taken)))]
<1> DEFINE Next_(i, p) == Then(p, Pruned(ConsumeGap(gs[i], lower, upper, limit - p.taken)))
           Goes(f, n) == f = [i \in 0 .. n |-> IF i = 0 THEN Nothing ELSE Next_(i, f[i - 1])]
           T == {n \in Nat : \E f : Goes(f, n)}
<1> HIDE DEF Next_
<1>1. 0 \in T
  <2>1. Goes([i \in 0 .. 0 |-> Nothing], 0)
    OBVIOUS
  <2> QED BY <2>1
<1>2. ASSUME NEW n \in T PROVE n + 1 \in T
  <2>1. PICK f : Goes(f, n)
    BY <1>2
  <2> DEFINE h == [i \in 0 .. (n + 1) |-> IF i = n + 1 THEN Next_(n + 1, f[n]) ELSE f[i]]
  <2>2. \A i \in 0 .. (n + 1) : h[i] = IF i = 0 THEN Nothing ELSE Next_(i, h[i - 1])
    BY <2>1
  <2>3. Goes(h, n + 1)
    <3> DOMAIN h = 0 .. (n + 1) OBVIOUS
    <3> QED BY <2>2
  <2> HIDE DEF h, Goes
  <2> QED BY <2>3
<1>3. T = Nat
  <2>1. T \in SUBSET Nat
    OBVIOUS
  <2> HIDE DEF T
  <2> QED BY <1>1, <1>2, <2>1, SetInduction
<1>4. \E f : Goes(f, Len(gs))
  <2> HIDE DEF Goes
  <2> QED BY <1>3
<1> QED
  BY <1>4 DEF GapsSteps, Next_

LEMMA WindowStepsDef ==
  ASSUME NEW g, NEW ws
  PROVE  LET f == WindowSteps(g, ws)
         IN f = [i \in 0 .. MaxSeq |-> IF i = 0 THEN [gap |-> g, taken |-> 0, windows |-> ws]
                   ELSE IF i \in DOMAIN ws THEN Reconciled(f[i - 1], i) ELSE f[i - 1]]
<1> DEFINE first == [gap |-> g, taken |-> 0, windows |-> ws]
           Next_(i, p) == IF i \in DOMAIN ws THEN Reconciled(p, i) ELSE p
           Goes(f, n) == f = [i \in 0 .. n |-> IF i = 0 THEN first ELSE Next_(i, f[i - 1])]
           T == {n \in Nat : \E f : Goes(f, n)}
<1> HIDE DEF Next_, first
<1>1. 0 \in T
  <2>1. Goes([i \in 0 .. 0 |-> first], 0)
    OBVIOUS
  <2> QED BY <2>1
<1>2. ASSUME NEW n \in T PROVE n + 1 \in T
  <2>1. PICK f : Goes(f, n)
    BY <1>2
  <2> DEFINE h == [i \in 0 .. (n + 1) |-> IF i = n + 1 THEN Next_(n + 1, f[n]) ELSE f[i]]
  <2>2. \A i \in 0 .. (n + 1) : h[i] = IF i = 0 THEN first ELSE Next_(i, h[i - 1])
    BY <2>1
  <2>3. Goes(h, n + 1)
    <3> DOMAIN h = 0 .. (n + 1) OBVIOUS
    <3> QED BY <2>2
  <2> HIDE DEF h, Goes
  <2> QED BY <2>3
<1>3. T = Nat
  <2>1. T \in SUBSET Nat
    OBVIOUS
  <2> HIDE DEF T
  <2> QED BY <1>1, <1>2, <2>1, SetInduction
<1>4. \E f : Goes(f, MaxSeq)
  <2> HIDE DEF Goes
  <2> QED BY <1>3, BoundsAssumption
<1> QED
  BY <1>4 DEF WindowSteps, Next_, first

LEMMA SumDef ==
  ASSUME NEW v, Len(v) \in Nat
  PROVE  \E f : /\ Sum(v) = f[Len(v)]
                /\ f = [i \in 0 .. Len(v) |-> IF i = 0 THEN 0 ELSE f[i - 1] + v[i]]
<1> DEFINE Next_(i, p) == p + v[i]
           Goes(f, n) == f = [i \in 0 .. n |-> IF i = 0 THEN 0 ELSE Next_(i, f[i - 1])]
           T == {n \in Nat : \E f : Goes(f, n)}
<1> HIDE DEF Next_
<1>1. 0 \in T
  <2>1. Goes([i \in 0 .. 0 |-> 0], 0)
    OBVIOUS
  <2> QED BY <2>1
<1>2. ASSUME NEW n \in T PROVE n + 1 \in T
  <2>1. PICK f : Goes(f, n)
    BY <1>2
  <2> DEFINE h == [i \in 0 .. (n + 1) |-> IF i = n + 1 THEN Next_(n + 1, f[n]) ELSE f[i]]
  <2>2. \A i \in 0 .. (n + 1) : h[i] = IF i = 0 THEN 0 ELSE Next_(i, h[i - 1])
    BY <2>1
  <2>3. Goes(h, n + 1)
    <3> DOMAIN h = 0 .. (n + 1) OBVIOUS
    <3> QED BY <2>2
  <2> HIDE DEF h, Goes
  <2> QED BY <2>3
<1>3. T = Nat
  <2>1. T \in SUBSET Nat
    OBVIOUS
  <2> HIDE DEF T
  <2> QED BY <1>1, <1>2, <2>1, SetInduction
<1>4. \E f : Goes(f, Len(v))
  <2> HIDE DEF Goes
  <2> QED BY <1>3
<1> QED
  BY <1>4 DEF Sum, Next_

-----------------------------------------------------------------------------
(* Remainders, and the numbers of a range that have a given one.           *)

\* Quotient and remainder.
LEMMA Division ==
  ASSUME NEW n \in Int, NEW d \in Nat \ {0}
  PROVE  /\ n \div d \in Int /\ n % d \in 0 .. (d - 1)
         /\ n = (n \div d) * d + (n % d)
  OBVIOUS

LEMMA ProductMonotone ==
  ASSUME NEW a \in Int, NEW b \in Int, NEW d \in Nat, a <= b
  PROVE  a * d <= b * d /\ a * d \in Int
<1>1. (b - a) * d >= 0
  OBVIOUS
<1> QED BY <1>1

\* A number between multiples of d has their quotient.
LEMMA DivisionUnique ==
  ASSUME NEW q \in Int, NEW d \in Nat \ {0}, NEW r \in 0 .. (d - 1)
  PROVE  (q * d + r) \div d = q /\ (q * d + r) % d = r
<1> DEFINE n == q * d + r
           k == n \div d
           m == n % d
<1>1. n \in Int
  OBVIOUS
<1>2. k \in Int /\ m \in 0 .. (d - 1) /\ n = k * d + m
  BY <1>1, Division
<1>3. (k - q) * d = r - m /\ k - q \in Int
  BY <1>2
<1>4. ~(k - q >= 1)
  <2> SUFFICES ASSUME k - q >= 1 PROVE FALSE
    OBVIOUS
  <2> HIDE DEF k, m, n
  <2>1. 1 * d <= (k - q) * d
    BY <1>2, ProductMonotone
  <2> QED BY <2>1, <1>2, <1>3
<1>5. ~(k - q <= -1)
  <2> SUFFICES ASSUME k - q <= -1 PROVE FALSE
    OBVIOUS
  <2> HIDE DEF k, m, n
  <2>1. (k - q) * d <= (-1) * d
    BY <1>2, ProductMonotone
  <2> QED BY <2>1, <1>2, <1>3
<1>6. k = q
  <2> HIDE DEF k, m, n
  <2> QED BY <1>2, <1>4, <1>5
<1>7. m = r
  <2> HIDE DEF k, m
  <2> QED BY <1>2, <1>6
<1> QED BY <1>6, <1>7

\* Numbers of one remainder are a multiple apart, and conversely.
LEMMA SameRemainder ==
  ASSUME NEW n \in Int, NEW m \in Int, NEW d \in Nat \ {0}, n % d = m % d
  PROVE  \E k \in Int : n = m + k * d
<1> DEFINE x == n \div d
           y == m \div d
<1>1. n = x * d + (n % d) /\ m = y * d + (m % d) /\ x \in Int /\ y \in Int /\ m % d \in Int
  BY Division
<1> HIDE DEF x, y
<1>2. n = m + (x - y) * d /\ x - y \in Int
  BY <1>1
<1> QED
  BY <1>2

LEMMA Shifted ==
  ASSUME NEW m \in Int, NEW k \in Int, NEW d \in Nat \ {0}
  PROVE  (m + k * d) % d = m % d
<1> DEFINE y == m \div d
           r == m % d
<1>1. y \in Int /\ r \in 0 .. (d - 1) /\ m = y * d + r
  BY Division
<1> HIDE DEF y, r
<1>2. m + k * d = (y + k) * d + r /\ y + k \in Int
  BY <1>1
<1>3. ((y + k) * d + r) % d = r
  BY <1>1, <1>2, DivisionUnique
<1> QED BY <1>2, <1>3 DEF r

FirstAt(a, p, d) == a + ((p - a) % d)
Class(a, b, p, d) == {n \in a .. b : n % d = p % d}

\* The first number of a class at or behind a, and every other one by steps from it.
LEMMA FirstIs ==
  ASSUME NEW a \in Int, NEW p \in Int, NEW d \in Nat \ {0}
  PROVE  /\ FirstAt(a, p, d) \in a .. (a + d - 1)
         /\ FirstAt(a, p, d) % d = p % d
         /\ \A n \in Int : n >= a /\ n % d = p % d => \E k \in Nat : n = FirstAt(a, p, d) + k * d
<1> DEFINE r == (p - a) % d
           q == (p - a) \div d
<1>1. p - a = q * d + r /\ q \in Int /\ r \in 0 .. (d - 1)
  <2>1. p - a \in Int
    OBVIOUS
  <2> QED BY <2>1, Division
<1> HIDE DEF q, r
<1> DEFINE f == a + r
<1>2. f \in Int /\ f \in a .. (a + d - 1) /\ p = f + q * d
  BY <1>1
<1> HIDE DEF f
<1>3. f % d = p % d
  BY <1>1, <1>2, Shifted
<1>4. ASSUME NEW n \in Int, n >= a, n % d = p % d
      PROVE  \E k \in Nat : n = f + k * d
  <2>1. PICK k \in Int : n = f + k * d
    <3>1. f \in Int /\ n % d = f % d
      BY <1>2, <1>3, <1>4
    <3> QED BY <3>1, SameRemainder
  <2>2. ~(k <= -1)
    <3> SUFFICES ASSUME k <= -1 PROVE FALSE
      OBVIOUS
    <3>1. k * d <= (-1) * d
      BY ProductMonotone
    <3> QED BY <3>1, <2>1, <1>2, <1>4
  <2> QED BY <2>1, <2>2
<1> QED
  BY <1>2, <1>3, <1>4 DEF FirstAt, f, r

\* How many numbers of a residue class an interval has.
LEMMA ClassCount ==
  ASSUME NEW a \in Int, NEW b \in Int, NEW p \in Int, NEW d \in Nat \ {0}
  PROVE  LET f == FirstAt(a, p, d)
             K == IF f > b THEN 0 ELSE ((b - f) \div d) + 1
         IN /\ K \in Nat
            /\ IsFiniteSet(Class(a, b, p, d))
            /\ Cardinality(Class(a, b, p, d)) = K
            /\ \A j \in 1 .. K : f + (j - 1) * d \in Class(a, b, p, d)
<1> DEFINE f == FirstAt(a, p, d)
           K == IF f > b THEN 0 ELSE ((b - f) \div d) + 1
           C == Class(a, b, p, d)
           h == [j \in 1 .. K |-> f + (j - 1) * d]
<1>1. /\ f \in Int /\ f >= a /\ f % d = p % d
      /\ \A n \in C : \E k \in Nat : n = f + k * d
  <2>1. \A n \in C : n \in Int /\ n >= a /\ n % d = p % d
    BY DEF Class
  <2>2. f \in a .. (a + d - 1) /\ f % d = p % d
    BY FirstIs
  <2>3. \A n \in Int : n >= a /\ n % d = p % d => \E k \in Nat : n = f + k * d
    BY FirstIs
  <2> HIDE DEF f, C
  <2>4. f \in Int /\ f >= a /\ f % d = p % d
    BY <2>2
  <2>5. \A n \in C : \E k \in Nat : n = f + k * d
    BY <2>1, <2>3
  <2> QED BY <2>4, <2>5
<1>2. K \in Nat /\ (f <= b => /\ K >= 1
                             /\ \E r \in 0 .. (d - 1) : b - f = (K - 1) * d + r)
  <2>1. CASE f > b
    BY <2>1, <1>1
  <2>2. CASE ~(f > b)
    <3> DEFINE q == (b - f) \div d
               r == (b - f) % d
    <3>1. q \in Int /\ r \in 0 .. (d - 1) /\ b - f = q * d + r
      <4>1. b - f \in Int
        BY <1>1
      <4> HIDE DEF f
      <4> QED BY <4>1, Division
    <3> HIDE DEF q, r
    <3>2. ~(q <= -1)
      <4> SUFFICES ASSUME q <= -1 PROVE FALSE
        OBVIOUS
      <4>1. q * d <= (-1) * d
        BY <3>1, ProductMonotone
      <4> QED BY <4>1, <3>1, <2>2, <1>1
    <3>3. K = q + 1
      BY <2>2 DEF q
    <3> HIDE DEF K
    <3> QED BY <3>1, <3>2, <3>3, <2>2, <1>1
  <2> QED BY <2>1, <2>2
<1>3. f > b => K = 0
  OBVIOUS
<1>0. C = {n \in a .. b : n % d = p % d}
  BY DEF Class
<1> HIDE DEF f, K, C
<1>4. ASSUME NEW j \in 1 .. K
      PROVE  f + (j - 1) * d \in C
  <2>1. f <= b
    BY <1>1, <1>2, <1>3
  <2>2. PICK r \in 0 .. (d - 1) : b - f = (K - 1) * d + r
    BY <1>2, <2>1
  <2>3. (j - 1) * d <= (K - 1) * d /\ 0 * d <= (j - 1) * d /\ (j - 1) * d \in Int
    BY <1>2, ProductMonotone
  <2>4. f + (j - 1) * d \in a .. b
    <3> DEFINE x == (j - 1) * d
               y == (K - 1) * d
    <3> x \in Int /\ y \in Int
      BY <1>2
    <3> HIDE DEF x, y
    <3> x <= y /\ 0 <= x /\ b - f = y + r
      BY <2>2, <2>3 DEF x, y
    <3> f + x \in a .. b
      BY <1>1
    <3> QED BY DEF x
  <2>5. (f + (j - 1) * d) % d = p % d
    <3>1. j - 1 \in Int
      BY <1>2
    <3>2. (f + (j - 1) * d) % d = f % d
      BY <3>1, <1>1, Shifted
    <3> QED BY <3>2, <1>1
  <2> QED BY <2>4, <2>5, <1>0
<1>5. h \in [1 .. K -> C]
  BY <1>4
<1>6. \A i, j \in 1 .. K : h[i] = h[j] => i = j
  <2> SUFFICES ASSUME NEW i \in 1 .. K, NEW j \in 1 .. K, f + (i - 1) * d = f + (j - 1) * d, i < j
               PROVE  FALSE
    BY <1>2
  <2>1. 1 * d <= ((j - 1) - (i - 1)) * d
    BY <1>2, ProductMonotone
  <2>2. (i - 1) * d = (j - 1) * d
    BY <1>1, <1>2
  <2> QED BY <2>1, <2>2, <1>2
<1>7. \A n \in C : \E j \in 1 .. K : h[j] = n
  <2> SUFFICES ASSUME NEW n \in C PROVE \E j \in 1 .. K : h[j] = n
    OBVIOUS
  <2>1. PICK k \in Nat : n = f + k * d
    BY <1>1
  <2>2. n \in a .. b
    BY <1>0
  <2>3. 0 * d <= k * d /\ k * d \in Int
    BY ProductMonotone
  <2>4. f <= b
    BY <1>1, <2>1, <2>2, <2>3
  <2>5. PICK r \in 0 .. (d - 1) : b - f = (K - 1) * d + r
    BY <1>2, <2>4
  <2>6. ~(k >= K)
    <3> SUFFICES ASSUME k >= K PROVE FALSE
      OBVIOUS
    <3>1. K * d <= k * d
      BY <1>2, ProductMonotone
    <3>2. K * d = (K - 1) * d + d
      BY <1>2
    <3> QED BY <3>1, <3>2, <2>1, <2>2, <2>3, <2>5, <1>1, <1>2
  <2>7. k + 1 \in 1 .. K
    BY <2>6, <1>2
  <2> QED BY <2>1, <2>7
<1>8. IsFiniteSet(C) /\ Cardinality(C) = K
  <2>1. h \in Bijection(1 .. K, C)
    <3> HIDE DEF h
    <3>1. h \in Injection(1 .. K, C)
      BY <1>5, <1>6 DEF Injection, IsInjective
    <3>2. h \in Surjection(1 .. K, C)
      BY <1>5, <1>7 DEF Surjection
    <3> QED BY <3>1, <3>2 DEF Bijection
  <2>2. ExistsBijection(1 .. K, C)
    BY <2>1 DEF ExistsBijection
  <2> QED BY <2>2, <1>2, FS_CountingElements, FS_NatBijection
<1> QED
  BY <1>2, <1>4, <1>8 DEF f, K, C

-----------------------------------------------------------------------------
(* Segments.                                                               *)

\* Segments within the frames of the device.
Segs == [start : 1 .. MaxSeq, end : 1 .. MaxSeq, step : {1, Every}, phase : 0 .. Every]

\* Segments of a gap share no number, and neither do gaps.
Disjoint(g) == \A i, j \in DOMAIN g : i # j => Members(g[i]) \cap Members(g[j]) = {}
Apart(gs) == \A i, j \in DOMAIN gs : i # j => GapMembers(gs[i]) \cap GapMembers(gs[j]) = {}

\* Bounds of the fields of a segment.
LEMMA SegTypes ==
  \A s \in Segs : /\ s.start \in Int /\ s.end \in Int /\ s.phase \in Int /\ s.step \in Nat \ {0}
                  /\ s.start >= 1 /\ s.end <= MaxSeq
<1>1. MaxSeq \in Nat /\ Every \in Nat \ {0}
  BY BoundsAssumption, SizesAssumption
<1> QED
  BY <1>1 DEF Segs

\* Numbers of a segment, counted by Size and found by FirstFrom.
LEMMA SizeCounts ==
  ASSUME NEW s, s.start \in Int, s.end \in Int, s.phase \in Int, s.step \in Nat \ {0}
  PROVE  /\ Members(s) = Class(s.start, s.end, s.phase, s.step)
         /\ IsFiniteSet(Members(s))
         /\ Size(s) = Cardinality(Members(s))
         /\ Size(s) \in Nat
<1> DEFINE K(a, b) == IF FirstAt(a, s.phase, s.step) > b THEN 0
                      ELSE ((b - FirstAt(a, s.phase, s.step)) \div s.step) + 1
<1>1. Members(s) = Class(s.start, s.end, s.phase, s.step)
  BY DEF Members, Class
<1>2. /\ K(s.start, s.end) \in Nat
      /\ IsFiniteSet(Class(s.start, s.end, s.phase, s.step))
      /\ Cardinality(Class(s.start, s.end, s.phase, s.step)) = K(s.start, s.end)
  BY ClassCount
<1>3. AtLeast(s.start, s.start) = s.start /\ AtMost(s.end, s.end) = s.end
  BY DEF AtLeast, AtMost
<1>4. Size(s) = K(s.start, s.end)
  BY <1>3 DEF Size, Candidates, FirstFrom, FirstAt
<1> HIDE DEF K
<1> QED
  BY <1>1, <1>2, <1>4

\* What takes numbers out of a set M leaves R: between lower and upper, no more than
\* limit, and all there are when it stops short of that.
Took(M, R, lower, upper, limit, taken) ==
  \E E \in SUBSET (M \cap lower .. upper) :
    /\ IsFiniteSet(E) /\ Cardinality(E) = taken
    /\ R = M \ E
    /\ taken \in 0 .. limit
    /\ taken < limit => E = M \cap lower .. upper

\* Taking from no numbers, and from two sets one behind the other.
LEMMA TookNothing ==
  ASSUME NEW lower \in Int, NEW upper \in Int, NEW limit \in Nat
  PROVE  Took({}, {}, lower, upper, limit, 0)
<1>1. IsFiniteSet({}) /\ Cardinality({}) = 0
  BY FS_EmptySet
<1> QED
  BY <1>1 DEF Took

LEMMA TookBoth ==
  ASSUME NEW lower \in Int, NEW upper \in Int, NEW limit \in Nat,
         NEW M, NEW R, NEW t \in Nat, Took(M, R, lower, upper, limit, t),
         NEW N, NEW S, NEW u \in Nat, Took(N, S, lower, upper, limit - t, u),
         M \cap N = {}
  PROVE  /\ t + u \in 0 .. limit
         /\ Took(M \cup N, R \cup S, lower, upper, limit, t + u)
<1>1. PICK E \in SUBSET (M \cap lower .. upper) :
        /\ IsFiniteSet(E) /\ Cardinality(E) = t
        /\ R = M \ E /\ t \in 0 .. limit
        /\ t < limit => E = M \cap lower .. upper
  BY DEF Took
<1>2. PICK F \in SUBSET (N \cap lower .. upper) :
        /\ IsFiniteSet(F) /\ Cardinality(F) = u
        /\ S = N \ F /\ u \in 0 .. (limit - t)
        /\ u < limit - t => F = N \cap lower .. upper
  BY DEF Took
<1>3. E \cap F = {}
  BY <1>1, <1>2
<1>4. IsFiniteSet(E \cup F) /\ Cardinality(E \cup F) = t + u
  <2>1. Cardinality(E \cap F) = 0
    BY <1>3, FS_EmptySet
  <2>2. Cardinality(E \cup F) = t + u - Cardinality(E \cap F) /\ IsFiniteSet(E \cup F)
    BY <1>1, <1>2, FS_Union
  <2> QED BY <2>1, <2>2
<1>5. R \cup S = (M \cup N) \ (E \cup F)
  BY <1>1, <1>2
<1>6. t + u \in 0 .. limit
  BY <1>1, <1>2
<1>7. t + u < limit => E \cup F = (M \cup N) \cap lower .. upper
  <2> SUFFICES ASSUME t + u < limit PROVE E \cup F = (M \cup N) \cap lower .. upper
    OBVIOUS
  <2>1. t < limit /\ u < limit - t
    BY <1>1, <1>2
  <2> QED BY <2>1, <1>1, <1>2
<1>8. E \cup F \in SUBSET ((M \cup N) \cap lower .. upper)
  BY <1>1, <1>2
<1> QED
  BY <1>4, <1>5, <1>6, <1>7, <1>8 DEF Took

-----------------------------------------------------------------------------
(* Sequences of segments. *)

\* Numbers of the segments of sequences put together.
LEMMA MembersOfNone == GapMembers(<<>>) = {} /\ Disjoint(<<>>)
<1>1. DOMAIN <<>> = {}
  OBVIOUS
<1> QED
  BY <1>1 DEF GapMembers, Disjoint

LEMMA MembersOfBoth ==
  ASSUME NEW S, NEW g \in Seq(S), NEW h \in Seq(S), Disjoint(g), Disjoint(h),
         GapMembers(g) \cap GapMembers(h) = {}
  PROVE  /\ g \o h \in Seq(S)
         /\ GapMembers(g \o h) = GapMembers(g) \cup GapMembers(h)
         /\ Disjoint(g \o h)
<1> DEFINE c == g \o h
<1>1. /\ c \in Seq(S) /\ Len(c) = Len(g) + Len(h) /\ Len(g) \in Nat /\ Len(h) \in Nat
      /\ DOMAIN c = 1 .. Len(c) /\ DOMAIN g = 1 .. Len(g) /\ DOMAIN h = 1 .. Len(h)
      /\ \A i \in 1 .. Len(g) : c[i] = g[i]
      /\ \A i \in 1 .. Len(h) : c[Len(g) + i] = h[i]
  BY ConcatProperties
<1>2. \A i \in DOMAIN c : \/ i \in DOMAIN g /\ c[i] = g[i]
                          \/ i \notin DOMAIN g /\ i - Len(g) \in DOMAIN h /\ c[i] = h[i - Len(g)]
  <2> SUFFICES ASSUME NEW i \in DOMAIN c, i \notin DOMAIN g
               PROVE  i - Len(g) \in DOMAIN h /\ c[i] = h[i - Len(g)]
    BY <1>1
  <2>1. i - Len(g) \in 1 .. Len(h) /\ i = Len(g) + (i - Len(g))
    BY <1>1
  <2> QED BY <1>1, <2>1
<1>3. \A i \in DOMAIN g : i \in DOMAIN c /\ c[i] = g[i]
  BY <1>1
<1>4. \A i \in DOMAIN h : Len(g) + i \in DOMAIN c /\ c[Len(g) + i] = h[i]
  <2>1. \A i \in 1 .. Len(h) : Len(g) + i \in 1 .. Len(c)
    BY <1>1
  <2> QED BY <1>1, <2>1
<1> HIDE DEF c
<1>5. GapMembers(c) = GapMembers(g) \cup GapMembers(h)
  BY <1>2, <1>3, <1>4 DEF GapMembers
<1>6. ASSUME NEW i \in DOMAIN c, NEW j \in DOMAIN c, i # j
      PROVE  Members(c[i]) \cap Members(c[j]) = {}
  <2>1. CASE i \in DOMAIN g /\ j \in DOMAIN g
    BY <2>1, <1>3, <1>6 DEF Disjoint
  <2>2. CASE i \notin DOMAIN g /\ j \notin DOMAIN g
    <3>1. i - Len(g) # j - Len(g)
      BY <1>1, <1>6
    <3> QED BY <2>2, <3>1, <1>2 DEF Disjoint
  <2>3. CASE i \in DOMAIN g /\ j \notin DOMAIN g
    BY <2>3, <1>2 DEF GapMembers
  <2>4. CASE i \notin DOMAIN g /\ j \in DOMAIN g
    BY <2>4, <1>2 DEF GapMembers
  <2> QED BY <2>1, <2>2, <2>3, <2>4
<1> QED
  BY <1>1, <1>5, <1>6 DEF Disjoint, c

\* A part of a segment that is kept when it has candidates.
LEMMA PieceMembers ==
  ASSUME NEW s, s.start \in Int, s.end \in Int, s.phase \in Int, s.step \in Nat \ {0},
         Members(s) # {} => s \in Segs
  PROVE  /\ Piece(s) \in Seq(Segs)
         /\ GapMembers(Piece(s)) = Members(s)
         /\ Disjoint(Piece(s))
<1>1. CASE Size(s) > 0
  <2>1. Piece(s) = <<s>>
    BY <1>1 DEF Piece
  <2>2. Members(s) # {}
    BY <1>1, SizeCounts, FS_EmptySet
  <2>3. DOMAIN <<s>> = {1} /\ <<s>>[1] = s
    OBVIOUS
  <2>4. GapMembers(<<s>>) = Members(s) /\ Disjoint(<<s>>)
    BY <2>3 DEF GapMembers, Disjoint
  <2>5. <<s>> \in Seq(Segs)
    BY <2>2
  <2> QED BY <2>1, <2>4, <2>5
<1>2. CASE ~(Size(s) > 0)
  <2>1. Piece(s) = <<>>
    BY <1>2 DEF Piece
  <2>2. Cardinality(Members(s)) = 0 /\ IsFiniteSet(Members(s))
    BY <1>2, SizeCounts
  <2>3. Members(s) = {}
    BY <2>2, FS_EmptySet
  <2> QED BY <2>1, <2>3, MembersOfNone
<1> QED BY <1>1, <1>2

\* The first candidate behind a candidate is the candidate.
LEMMA FirstOfFirst ==
  ASSUME NEW f \in Int, NEW p \in Int, NEW d \in Nat \ {0}, f % d = p % d
  PROVE  FirstAt(f, p, d) = f
<1>1. PICK k \in Int : p = f + k * d
  BY SameRemainder
<1>2. k * d \in Int /\ p - f = k * d + 0
  BY <1>1
<1>3. (k * d + 0) % d = 0
  BY DivisionUnique
<1> QED
  BY <1>2, <1>3 DEF FirstAt

\* The candidates of a segment within bounds, and the arithmetic by which the code
\* counts and finds them.
LEMMA CandidatesCount ==
  ASSUME NEW s \in Segs, NEW lower \in Int, NEW upper \in Int
  PROVE  LET a == AtLeast(s.start, lower)
             b == AtMost(s.end, upper)
             C == Class(a, b, s.phase, s.step)
         IN /\ a \in Int /\ b \in Int /\ a >= s.start /\ b <= s.end
            /\ C = Members(s) \cap lower .. upper
            /\ IsFiniteSet(C)
            /\ Candidates(s, lower, upper) = Cardinality(C)
            /\ Candidates(s, lower, upper) \in Nat
            /\ FirstFrom(s, a) = FirstAt(a, s.phase, s.step)
            /\ \A j \in 1 .. Candidates(s, lower, upper) :
                 FirstFrom(s, a) + (j - 1) * s.step \in C
<1> DEFINE a == AtLeast(s.start, lower)
           b == AtMost(s.end, upper)
           K == IF FirstAt(a, s.phase, s.step) > b THEN 0
                ELSE ((b - FirstAt(a, s.phase, s.step)) \div s.step) + 1
<1>1. /\ s.start \in Int /\ s.end \in Int /\ s.phase \in Int /\ s.step \in Nat \ {0}
  BY SegTypes
<1>2. a \in Int /\ b \in Int /\ a >= s.start /\ b <= s.end
  BY <1>1 DEF AtLeast, AtMost
<1>3. \A n \in Int : n \in a .. b <=> n \in s.start .. s.end /\ n \in lower .. upper
  BY <1>1 DEF AtLeast, AtMost
<1>4. FirstFrom(s, a) = FirstAt(a, s.phase, s.step)
  BY DEF FirstFrom, FirstAt
<1>5. Candidates(s, lower, upper) = K
  BY <1>4 DEF Candidates
<1> HIDE DEF a, b
<1>6. Class(a, b, s.phase, s.step) = Members(s) \cap lower .. upper
  BY <1>1, <1>2, <1>3 DEF Class, Members
<1>7. /\ K \in Nat
      /\ IsFiniteSet(Class(a, b, s.phase, s.step))
      /\ Cardinality(Class(a, b, s.phase, s.step)) = K
      /\ \A j \in 1 .. K : FirstAt(a, s.phase, s.step) + (j - 1) * s.step \in Class(a, b, s.phase, s.step)
  BY <1>1, <1>2, ClassCount
<1> HIDE DEF K
<1> QED
  BY <1>2, <1>4, <1>5, <1>6, <1>7 DEF a, b

\* ConsumeSegment takes the first of the candidates.
LEMMA SegmentTook ==
  ASSUME NEW s \in Segs, NEW lower \in Int, NEW upper \in Int, NEW limit \in Nat
  PROVE  LET c == ConsumeSegment(s, lower, upper, limit)
         IN /\ c.taken \in 0 .. limit
            /\ c.rest \in Seq(Segs) /\ Disjoint(c.rest)
            /\ Took(Members(s), GapMembers(c.rest), lower, upper, limit, c.taken)
<1> DEFINE a == AtLeast(s.start, lower)
           b == AtMost(s.end, upper)
           d == s.step
           C == Class(a, b, s.phase, d)
           amount == AtMost(limit, Candidates(s, lower, upper))
           first == FirstFrom(s, a)
           e == first + (amount - 1) * d
           E == Class(first, e, s.phase, d)
<1>1. /\ s.start \in Int /\ s.end \in Int /\ s.phase \in Int /\ d \in Nat \ {0}
      /\ s.start >= 1 /\ s.end <= MaxSeq
  BY SegTypes
<1>2. /\ a \in Int /\ b \in Int /\ a >= s.start /\ b <= s.end
      /\ C = Members(s) \cap lower .. upper
      /\ IsFiniteSet(C) /\ Cardinality(C) \in Nat
      /\ Candidates(s, lower, upper) = Cardinality(C)
      /\ first = FirstAt(a, s.phase, d)
      /\ \A j \in 1 .. Cardinality(C) : first + (j - 1) * d \in C
  BY CandidatesCount
<1>3. amount \in 0 .. limit /\ amount <= Cardinality(C) /\ (amount < limit => amount = Cardinality(C))
  BY <1>2 DEF AtMost
<1>4. CASE amount = 0
  <2>1. ConsumeSegment(s, lower, upper, limit) = [taken |-> 0, rest |-> <<s>>]
    BY <1>4 DEF ConsumeSegment
  <2>2. DOMAIN <<s>> = {1} /\ <<s>>[1] = s /\ <<s>> \in Seq(Segs)
    OBVIOUS
  <2>3. GapMembers(<<s>>) = Members(s) /\ Disjoint(<<s>>)
    BY <2>2 DEF GapMembers, Disjoint
  <2>4. IsFiniteSet({}) /\ Cardinality({}) = 0
    BY FS_EmptySet
  <2>5. 0 < limit => {} = Members(s) \cap lower .. upper
    BY <1>2, <1>3, <1>4, FS_EmptySet
  <2>6. Took(Members(s), Members(s), lower, upper, limit, 0)
    BY <2>4, <2>5 DEF Took
  <2> QED BY <2>1, <2>2, <2>3, <2>6
<1>5. CASE amount # 0
  <2>1. ConsumeSegment(s, lower, upper, limit) = [taken |-> amount, rest |-> Remainder(s, first, e)]
    BY <1>5 DEF ConsumeSegment
  <2>2. amount \in 1 .. Cardinality(C) /\ 1 \in 1 .. Cardinality(C)
    BY <1>2, <1>3, <1>5
  <2>3. first \in C /\ e \in C
    <3>1. first + (1 - 1) * d \in C /\ e \in C
      BY <1>2, <2>2
    <3>2. first \in Int
      <4> HIDE DEF a, b, d, first
      <4>1. FirstAt(a, s.phase, d) \in a .. (a + d - 1)
        BY <1>1, <1>2, FirstIs
      <4> QED BY <4>1, <1>1, <1>2
    <3>3. first + (1 - 1) * d = first
      BY <3>2, <1>1
    <3> QED BY <3>1, <3>3
  <2> HIDE DEF a, b, amount
  <2>4. /\ first \in Int /\ first >= a /\ first <= b /\ first % d = s.phase % d
        /\ e \in Int /\ e <= b /\ e >= a
    BY <2>3, <1>2 DEF Class
  <2>5. first <= e
    <3>1. 0 * d <= (amount - 1) * d /\ (amount - 1) * d \in Int
      BY <1>1, <2>2, ProductMonotone
    <3> HIDE DEF first, d
    <3> QED BY <3>1, <2>4, <1>1 DEF e
  <2>6. IsFiniteSet(E) /\ Cardinality(E) = amount
    <3>1. FirstAt(first, s.phase, d) = first
      BY <2>4, <1>1, FirstOfFirst
    <3>2. ((amount - 1) * d + 0) \div d = amount - 1
      <4>1. amount - 1 \in Int /\ 0 \in 0 .. (d - 1)
        BY <1>1, <2>2
      <4> HIDE DEF d
      <4> QED BY <4>1, <1>1, DivisionUnique
    <3>3. e - first = (amount - 1) * d + 0
      <4>1. (amount - 1) * d \in Int
        BY <1>1, <2>2
      <4> HIDE DEF first, d
      <4> QED BY <4>1, <2>4 DEF e
    <3>4. /\ IsFiniteSet(Class(first, e, s.phase, d))
          /\ Cardinality(Class(first, e, s.phase, d)) =
               IF first > e THEN 0 ELSE ((e - first) \div d) + 1
      <4> HIDE DEF first, e, d
      <4> DEFINE x == FirstAt(first, s.phase, d)
      <4>1. /\ IsFiniteSet(Class(first, e, s.phase, d))
            /\ Cardinality(Class(first, e, s.phase, d)) = IF x > e THEN 0 ELSE ((e - x) \div d) + 1
        BY <1>1, <2>4, ClassCount
      <4>2. x = first
        BY <3>1
      <4> HIDE DEF x
      <4> QED BY <4>1, <4>2
    <3> HIDE DEF first, e, d
    <3>5. amount - 1 + 1 = amount
      BY <2>2, <1>2
    <3> QED BY <3>2, <3>3, <3>4, <3>5, <2>4, <2>5 DEF E
  <2> HIDE DEF first, e, d
  <2>7. \A n \in Int : n \in first .. e => n \in a .. b
    BY <2>4, <1>2
  <2>8. E \subseteq C
    BY <2>7, <2>4 DEF Class, E, C
  <2>9. amount < limit => E = C
    BY <2>6, <2>8, <1>2, <1>3, FS_Subset
  <2> DEFINE before == [s EXCEPT !.end = first - 1]
             behind == [s EXCEPT !.start = e + 1]
  <2>10. /\ before.start = s.start /\ before.end = first - 1
         /\ before.step = s.step /\ before.phase = s.phase
         /\ behind.start = e + 1 /\ behind.end = s.end
         /\ behind.step = s.step /\ behind.phase = s.phase
         /\ first - 1 \in 1 .. MaxSeq => before \in Segs
         /\ e + 1 \in 1 .. MaxSeq => behind \in Segs
    BY DEF Segs
  <2> HIDE DEF before, behind
  <2>11. /\ Members(before) = {n \in Members(s) : n < first}
         /\ Members(behind) = {n \in Members(s) : n > e}
    <3>1. \A n \in Int : n \in before.start .. before.end <=> n \in s.start .. s.end /\ n < first
      BY <2>10, <2>4, <1>1, <1>2
    <3>2. \A n \in Int : n \in behind.start .. behind.end <=> n \in s.start .. s.end /\ n > e
      BY <2>10, <2>4, <1>1, <1>2
    <3> QED BY <3>1, <3>2, <2>10, <2>4, <1>1 DEF Members
  <2>12. Members(before) # {} => before \in Segs
    <3> SUFFICES ASSUME NEW n \in Members(before) PROVE first - 1 \in 1 .. MaxSeq
      BY <2>10
    <3>1. n \in s.start .. s.end /\ n < first
      BY <2>11 DEF Members
    <3> QED BY <3>1, <2>4, <1>1, <1>2, BoundsAssumption
  <2>13. Members(behind) # {} => behind \in Segs
    <3> SUFFICES ASSUME NEW n \in Members(behind) PROVE e + 1 \in 1 .. MaxSeq
      BY <2>10
    <3>1. n \in s.start .. s.end /\ n > e
      BY <2>11 DEF Members
    <3> QED BY <3>1, <2>4, <1>1, <1>2, BoundsAssumption
  <2>14. /\ before.start \in Int /\ before.end \in Int /\ before.phase \in Int
         /\ before.step \in Nat \ {0}
         /\ behind.start \in Int /\ behind.end \in Int /\ behind.phase \in Int
         /\ behind.step \in Nat \ {0}
    BY <2>10, <2>4, <1>1 DEF d
  <2>15. /\ Piece(before) \in Seq(Segs) /\ GapMembers(Piece(before)) = Members(before)
         /\ Disjoint(Piece(before))
    BY <2>12, <2>14, PieceMembers
  <2>16. /\ Piece(behind) \in Seq(Segs) /\ GapMembers(Piece(behind)) = Members(behind)
         /\ Disjoint(Piece(behind))
    BY <2>13, <2>14, PieceMembers
  <2>17. Members(before) \cap Members(behind) = {}
    BY <2>11, <2>4, <2>5, <1>1 DEF Members
  <2>18. Remainder(s, first, e) = Piece(before) \o Piece(behind)
    BY DEF Remainder, before, behind
  <2>19. /\ Remainder(s, first, e) \in Seq(Segs) /\ Disjoint(Remainder(s, first, e))
         /\ GapMembers(Remainder(s, first, e)) = Members(before) \cup Members(behind)
    BY <2>15, <2>16, <2>17, <2>18, MembersOfBoth
  <2>20. Members(before) \cup Members(behind) = Members(s) \ E
    <3>1. \A n \in Members(s) : n \in Int /\ n % d = s.phase % d
      BY <1>1 DEF Members, d
    <3>2. \A n \in Members(s) : n \in E <=> n \in first .. e
      BY <3>1 DEF E, Class
    <3>3. \A n \in Members(s) : n \notin E <=> n < first \/ n > e
      BY <3>1, <3>2, <2>4
    <3> QED BY <3>3, <2>11
  <2>21. Took(Members(s), Members(s) \ E, lower, upper, limit, amount)
    <3> HIDE DEF E, C
    <3> QED BY <2>6, <2>8, <2>9, <1>2, <1>3 DEF Took
  <2>22. Took(Members(s), GapMembers(Remainder(s, first, e)), lower, upper, limit, amount)
    BY <2>19, <2>20, <2>21
  <2> DEFINE c == ConsumeSegment(s, lower, upper, limit)
             rest == Remainder(s, first, e)
  <2>23. c.taken = amount /\ c.rest = rest
    BY <2>1
  <2> HIDE DEF E, C, c, rest
  <2>24. /\ amount \in 0 .. limit /\ rest \in Seq(Segs) /\ Disjoint(rest)
         /\ Took(Members(s), GapMembers(rest), lower, upper, limit, amount)
    BY <2>19, <2>22, <1>3 DEF rest
  <2>25. /\ c.taken \in 0 .. limit /\ c.rest \in Seq(Segs) /\ Disjoint(c.rest)
         /\ Took(Members(s), GapMembers(c.rest), lower, upper, limit, c.taken)
    BY <2>23, <2>24
  <2> QED BY <2>25 DEF c
<1> QED BY <1>4, <1>5

-----------------------------------------------------------------------------
(* Gaps.                                                                   *)

AllMembers(gs) == UNION {GapMembers(gs[i]) : i \in DOMAIN gs}

Upto(g, n) == UNION {Members(g[i]) : i \in 1 .. n}
AllUpto(gs, n) == UNION {GapMembers(gs[i]) : i \in 1 .. n}

GoodGap(g) == g \in Seq(Segs) /\ Disjoint(g)
GoodGaps(gs) == /\ gs \in Seq(Seq(Segs)) /\ Apart(gs)
                /\ \A i \in DOMAIN gs : gs[i] # <<>> /\ Disjoint(gs[i])

\* What is left was there before.
LEMMA TookSubset ==
  ASSUME NEW M, NEW R, NEW lower, NEW upper, NEW limit, NEW t, Took(M, R, lower, upper, limit, t)
  PROVE  R \subseteq M
  BY DEF Took

\* ConsumeGap takes the numbers of the segments in turn.
LEMMA GapTook ==
  ASSUME NEW g, GoodGap(g), NEW lower \in Int, NEW upper \in Int, NEW limit \in Nat
  PROVE  LET c == ConsumeGap(g, lower, upper, limit)
         IN /\ c.taken \in 0 .. limit
            /\ GoodGap(c.rest)
            /\ Took(GapMembers(g), GapMembers(c.rest), lower, upper, limit, c.taken)
<1> DEFINE f == GapSteps(g, lower, upper, limit)
           Done(n) == /\ f[n].taken \in 0 .. limit
                      /\ GoodGap(f[n].rest)
                      /\ Took(Upto(g, n), GapMembers(f[n].rest), lower, upper, limit, f[n].taken)
           T == {n \in Nat : n <= Len(g) => Done(n)}
<1>1. g \in Seq(Segs) /\ Disjoint(g) /\ Len(g) \in Nat /\ DOMAIN g = 1 .. Len(g)
      /\ \A i \in 1 .. Len(g) : g[i] \in Segs
  BY DEF GoodGap
<1>2. f = [i \in 0 .. Len(g) |-> IF i = 0 THEN Nothing
             ELSE Then(f[i - 1], ConsumeSegment(g[i], lower, upper, limit - f[i - 1].taken))]
  BY <1>1, GapStepsDef
<1> HIDE DEF f
<1>3. 0 \in T
  <2>1. f[0] = Nothing
    BY <1>1, <1>2
  <2>2. Nothing.taken = 0 /\ Nothing.rest = <<>>
    BY DEF Nothing
  <2>3. Upto(g, 0) = {}
    BY DEF Upto
  <2>4. GapMembers(<<>>) = {} /\ Disjoint(<<>>) /\ <<>> \in Seq(Segs)
    BY MembersOfNone
  <2>5. Took({}, {}, lower, upper, limit, 0)
    BY TookNothing
  <2>6. f[0].taken = 0 /\ f[0].rest = <<>>
    BY <2>1, <2>2
  <2>7. Took(Upto(g, 0), GapMembers(f[0].rest), lower, upper, limit, f[0].taken)
    BY <2>3, <2>4, <2>5, <2>6
  <2>8. GoodGap(f[0].rest)
    BY <2>4, <2>6 DEF GoodGap
  <2>9. Done(0)
    BY <2>6, <2>7, <2>8
  <2> QED BY <2>9
<1>4. ASSUME NEW n \in T PROVE n + 1 \in T
  <2> SUFFICES ASSUME n + 1 <= Len(g) PROVE Done(n + 1)
    OBVIOUS
  <2>1. Done(n) /\ n + 1 \in 1 .. Len(g)
    BY <1>1, <1>4
  <2> DEFINE p == f[n]
             s == g[n + 1]
             c == ConsumeSegment(s, lower, upper, limit - p.taken)
  <2>2. f[n + 1] = Then(p, c)
    <3>1. n + 1 \in 0 .. Len(g) /\ n + 1 # 0 /\ (n + 1) - 1 = n
      BY <2>1
    <3>2. f[n + 1] = Then(f[(n + 1) - 1],
                          ConsumeSegment(g[n + 1], lower, upper, limit - f[(n + 1) - 1].taken))
      BY <1>2, <3>1
    <3> QED BY <3>1, <3>2
  <2>3. s \in Segs
    BY <1>1, <2>1
  <2>4. limit - p.taken \in Nat /\ p.taken \in Nat /\ GoodGap(p.rest)
        /\ Took(Upto(g, n), GapMembers(p.rest), lower, upper, limit, p.taken)
    BY <2>1
  <2> HIDE DEF p, s
  <2>5. /\ c.taken \in 0 .. (limit - p.taken)
        /\ c.rest \in Seq(Segs) /\ Disjoint(c.rest)
        /\ Took(Members(s), GapMembers(c.rest), lower, upper, limit - p.taken, c.taken)
    BY <2>3, <2>4, SegmentTook
  <2> HIDE DEF c
  <2>6. Upto(g, n + 1) = Upto(g, n) \cup Members(s)
    <3>1. 1 .. (n + 1) = (1 .. n) \cup {n + 1}
      OBVIOUS
    <3> QED BY <3>1 DEF Upto, s
  <2>7. Upto(g, n) \cap Members(s) = {}
    <3>1. \A i \in 1 .. n : i \in DOMAIN g /\ n + 1 \in DOMAIN g /\ i # n + 1
      BY <1>1, <2>1
    <3> QED BY <3>1, <1>1 DEF Upto, s, Disjoint
  <2>8. GapMembers(p.rest) \subseteq Upto(g, n) /\ GapMembers(c.rest) \subseteq Members(s)
    BY <2>4, <2>5, TookSubset
  <2>9. GapMembers(p.rest) \cap GapMembers(c.rest) = {}
    BY <2>7, <2>8
  <2>10. /\ GoodGap(p.rest \o c.rest)
         /\ GapMembers(p.rest \o c.rest) = GapMembers(p.rest) \cup GapMembers(c.rest)
    BY <2>4, <2>5, <2>9, MembersOfBoth DEF GoodGap
  <2>11. c.taken \in Nat
    BY <2>4, <2>5
  <2>12. /\ p.taken + c.taken \in 0 .. limit
         /\ Took(Upto(g, n) \cup Members(s), GapMembers(p.rest) \cup GapMembers(c.rest), lower, upper,
                 limit, p.taken + c.taken)
    BY <2>4, <2>5, <2>7, <2>11, TookBoth
  <2>13. f[n + 1].taken = p.taken + c.taken /\ f[n + 1].rest = p.rest \o c.rest
    <3>1. Then(p, c).taken = p.taken + c.taken /\ Then(p, c).rest = p.rest \o c.rest
      BY DEF Then
    <3> QED BY <2>2, <3>1
  <2> QED BY <2>6, <2>10, <2>12, <2>13
<1>5. T = Nat
  <2>1. T \in SUBSET Nat
    OBVIOUS
  <2> HIDE DEF T
  <2> QED BY <1>3, <1>4, <2>1, SetInduction
<1>6. Done(Len(g))
  <2> HIDE DEF Done
  <2> QED BY <1>1, <1>5
<1>7. Upto(g, Len(g)) = GapMembers(g)
  BY <1>1 DEF Upto, GapMembers
<1> QED
  BY <1>6, <1>7 DEF ConsumeGap, f

\* The numbers of sequences of gaps put together.
LEMMA NoGaps == AllMembers(<<>>) = {} /\ GoodGaps(<<>>)
<1>1. DOMAIN <<>> = {} /\ <<>> \in Seq(Seq(Segs))
  OBVIOUS
<1> QED
  BY <1>1 DEF AllMembers, GoodGaps, Apart

LEMMA ConcatIndices ==
  ASSUME NEW S, NEW g \in Seq(S), NEW h \in Seq(S)
  PROVE  LET c == g \o h
         IN /\ c \in Seq(S) /\ Len(g) \in Nat
            /\ \A i \in DOMAIN c :
                 \/ i \in DOMAIN g /\ c[i] = g[i]
                 \/ i \notin DOMAIN g /\ i - Len(g) \in DOMAIN h /\ c[i] = h[i - Len(g)]
            /\ \A i \in DOMAIN g : i \in DOMAIN c /\ c[i] = g[i]
            /\ \A i \in DOMAIN h : Len(g) + i \in DOMAIN c /\ c[Len(g) + i] = h[i]
            /\ \A i, j \in DOMAIN c : i # j => i - Len(g) # j - Len(g)
<1> DEFINE c == g \o h
<1>1. /\ c \in Seq(S) /\ Len(c) = Len(g) + Len(h) /\ Len(g) \in Nat /\ Len(h) \in Nat
      /\ DOMAIN c = 1 .. Len(c) /\ DOMAIN g = 1 .. Len(g) /\ DOMAIN h = 1 .. Len(h)
      /\ \A i \in 1 .. Len(g) : c[i] = g[i]
      /\ \A i \in 1 .. Len(h) : c[Len(g) + i] = h[i]
  BY ConcatProperties
<1> HIDE DEF c
<1>2. \A i \in DOMAIN c :
        \/ i \in DOMAIN g /\ c[i] = g[i]
        \/ i \notin DOMAIN g /\ i - Len(g) \in DOMAIN h /\ c[i] = h[i - Len(g)]
  <2> SUFFICES ASSUME NEW i \in DOMAIN c, i \notin DOMAIN g
               PROVE  i - Len(g) \in DOMAIN h /\ c[i] = h[i - Len(g)]
    BY <1>1
  <2>1. i - Len(g) \in 1 .. Len(h) /\ i = Len(g) + (i - Len(g))
    BY <1>1
  <2> QED BY <1>1, <2>1
<1>3. \A i \in DOMAIN g : i \in DOMAIN c /\ c[i] = g[i]
  BY <1>1
<1>4. \A i \in DOMAIN h : Len(g) + i \in DOMAIN c /\ c[Len(g) + i] = h[i]
  <2>1. \A i \in 1 .. Len(h) : Len(g) + i \in 1 .. Len(c)
    BY <1>1
  <2> QED BY <1>1, <2>1
<1>5. \A i, j \in DOMAIN c : i # j => i - Len(g) # j - Len(g)
  BY <1>1
<1> QED
  BY <1>1, <1>2, <1>3, <1>4, <1>5 DEF c

LEMMA GapsOfBoth ==
  ASSUME NEW g, NEW h, GoodGaps(g), GoodGaps(h), AllMembers(g) \cap AllMembers(h) = {}
  PROVE  GoodGaps(g \o h) /\ AllMembers(g \o h) = AllMembers(g) \cup AllMembers(h)
<1> DEFINE c == g \o h
<1>1. /\ c \in Seq(Seq(Segs))
      /\ \A i \in DOMAIN c :
           \/ i \in DOMAIN g /\ c[i] = g[i]
           \/ i \notin DOMAIN g /\ i - Len(g) \in DOMAIN h /\ c[i] = h[i - Len(g)]
      /\ \A i \in DOMAIN g : i \in DOMAIN c /\ c[i] = g[i]
      /\ \A i \in DOMAIN h : Len(g) + i \in DOMAIN c /\ c[Len(g) + i] = h[i]
      /\ \A i, j \in DOMAIN c : i # j => i - Len(g) # j - Len(g)
  BY ConcatIndices DEF GoodGaps
<1> HIDE DEF c
<1>2. AllMembers(c) = AllMembers(g) \cup AllMembers(h)
  BY <1>1 DEF AllMembers
<1>3. ASSUME NEW i \in DOMAIN c, NEW j \in DOMAIN c, i # j
      PROVE  GapMembers(c[i]) \cap GapMembers(c[j]) = {}
  <2>1. CASE i \in DOMAIN g /\ j \in DOMAIN g
    BY <2>1, <1>1, <1>3 DEF GoodGaps, Apart
  <2>2. CASE i \notin DOMAIN g /\ j \notin DOMAIN g
    BY <2>2, <1>1, <1>3 DEF GoodGaps, Apart
  <2>3. CASE i \in DOMAIN g /\ j \notin DOMAIN g
    BY <2>3, <1>1 DEF AllMembers
  <2>4. CASE i \notin DOMAIN g /\ j \in DOMAIN g
    BY <2>4, <1>1 DEF AllMembers
  <2> QED BY <2>1, <2>2, <2>3, <2>4
<1>4. \A i \in DOMAIN c : c[i] # <<>> /\ Disjoint(c[i])
  BY <1>1 DEF GoodGaps
<1>5. GoodGaps(c)
  BY <1>1, <1>3, <1>4 DEF GoodGaps, Apart
<1> QED
  BY <1>2, <1>5 DEF c

\* An emptied gap is dropped, and no number with it.
LEMMA PrunedIs ==
  ASSUME NEW c, GoodGap(c.rest)
  PROVE  /\ Pruned(c).taken = c.taken
         /\ GoodGaps(Pruned(c).rest)
         /\ AllMembers(Pruned(c).rest) = GapMembers(c.rest)
<1> DEFINE r == c.rest
<1>1. GoodGap(r)
  OBVIOUS
<1>2. Pruned(c).taken = c.taken /\ Pruned(c).rest = IF r = <<>> THEN <<>> ELSE <<r>>
  BY DEF Pruned
<1> HIDE DEF r
<1>3. CASE r = <<>>
  BY <1>2, <1>3, NoGaps, MembersOfNone DEF r
<1>4. CASE r # <<>>
  <2>1. DOMAIN <<r>> = {1} /\ <<r>>[1] = r /\ <<r>> \in Seq(Seq(Segs))
    BY <1>1 DEF GoodGap
  <2>2. GoodGaps(<<r>>) /\ AllMembers(<<r>>) = GapMembers(r)
    BY <2>1, <1>1, <1>4 DEF GoodGaps, Apart, AllMembers, GoodGap
  <2> QED BY <2>2, <1>2, <1>4 DEF r
<1> QED BY <1>3, <1>4

\* ConsumeGaps takes the numbers of the gaps in turn.
LEMMA GapsTook ==
  ASSUME NEW g, GoodGaps(g), NEW lower \in Int, NEW upper \in Int, NEW limit \in Nat
  PROVE  LET c == ConsumeGaps(g, lower, upper, limit)
         IN /\ c.taken \in 0 .. limit
            /\ GoodGaps(c.rest)
            /\ Took(AllMembers(g), AllMembers(c.rest), lower, upper, limit, c.taken)
<1> DEFINE f == GapsSteps(g, lower, upper, limit)
           Done(n) == /\ f[n].taken \in 0 .. limit
                      /\ GoodGaps(f[n].rest)
                      /\ Took(AllUpto(g, n), AllMembers(f[n].rest), lower, upper, limit, f[n].taken)
           T == {n \in Nat : n <= Len(g) => Done(n)}
<1>1. /\ g \in Seq(Seq(Segs)) /\ Apart(g) /\ Len(g) \in Nat /\ DOMAIN g = 1 .. Len(g)
      /\ \A i \in 1 .. Len(g) : GoodGap(g[i])
  BY DEF GoodGaps, GoodGap
<1>2. f = [i \in 0 .. Len(g) |-> IF i = 0 THEN Nothing
             ELSE Then(f[i - 1], Pruned(ConsumeGap(g[i], lower, upper, limit - f[i - 1].taken)))]
  <2>1. Len(g) \in Nat
    BY <1>1
  <2> QED BY ONLY <2>1, GapsStepsDef
<1> HIDE DEF f
<1>3. 0 \in T
  <2>1. f[0] = Nothing
    BY <1>1, <1>2
  <2>2. Nothing.taken = 0 /\ Nothing.rest = <<>>
    BY DEF Nothing
  <2>3. AllUpto(g, 0) = {}
    BY DEF AllUpto
  <2>4. AllMembers(<<>>) = {} /\ GoodGaps(<<>>)
    BY NoGaps
  <2>5. Took({}, {}, lower, upper, limit, 0)
    BY TookNothing
  <2>6. f[0].taken = 0 /\ f[0].rest = <<>>
    BY <2>1, <2>2
  <2>7. Took(AllUpto(g, 0), AllMembers(f[0].rest), lower, upper, limit, f[0].taken)
    BY <2>3, <2>4, <2>5, <2>6
  <2>8. GoodGaps(f[0].rest)
    BY <2>4, <2>6
  <2>9. Done(0)
    BY <2>6, <2>7, <2>8
  <2> QED BY <2>9
<1>4. ASSUME NEW n \in T PROVE n + 1 \in T
  <2> SUFFICES ASSUME n + 1 <= Len(g) PROVE Done(n + 1)
    OBVIOUS
  <2>1. Done(n) /\ n + 1 \in 1 .. Len(g)
    BY <1>1, <1>4
  <2> DEFINE p == f[n]
             s == g[n + 1]
             k == ConsumeGap(s, lower, upper, limit - p.taken)
             c == Pruned(k)
  <2>2. f[n + 1] = Then(p, c)
    <3>1. n + 1 \in 0 .. Len(g) /\ n + 1 # 0 /\ (n + 1) - 1 = n
      BY <2>1
    <3>2. f[n + 1] = Then(f[(n + 1) - 1],
                          Pruned(ConsumeGap(g[n + 1], lower, upper, limit - f[(n + 1) - 1].taken)))
      BY <1>2, <3>1
    <3> QED BY <3>1, <3>2
  <2>3. GoodGap(s)
    BY <1>1, <2>1
  <2>4. limit - p.taken \in Nat /\ p.taken \in Nat /\ GoodGaps(p.rest)
        /\ Took(AllUpto(g, n), AllMembers(p.rest), lower, upper, limit, p.taken)
    BY <2>1
  <2> HIDE DEF p, s
  <2>5. /\ c.taken \in 0 .. (limit - p.taken)
        /\ GoodGaps(c.rest)
        /\ Took(GapMembers(s), AllMembers(c.rest), lower, upper, limit - p.taken, c.taken)
    <3>1. /\ k.taken \in 0 .. (limit - p.taken) /\ GoodGap(k.rest)
          /\ Took(GapMembers(s), GapMembers(k.rest), lower, upper, limit - p.taken, k.taken)
      BY <2>3, <2>4, GapTook
    <3> HIDE DEF k
    <3>2. c.taken = k.taken /\ GoodGaps(c.rest) /\ AllMembers(c.rest) = GapMembers(k.rest)
      BY <3>1, PrunedIs
    <3> QED BY <3>1, <3>2
  <2> HIDE DEF c
  <2>6. AllUpto(g, n + 1) = AllUpto(g, n) \cup GapMembers(s)
    <3>1. 1 .. (n + 1) = (1 .. n) \cup {n + 1}
      OBVIOUS
    <3> QED BY <3>1 DEF AllUpto, s
  <2>7. AllUpto(g, n) \cap GapMembers(s) = {}
    <3>1. \A i \in 1 .. n : i \in DOMAIN g /\ n + 1 \in DOMAIN g /\ i # n + 1
      BY <1>1, <2>1
    <3> QED BY <3>1, <1>1 DEF AllUpto, s, Apart
  <2>8. AllMembers(p.rest) \subseteq AllUpto(g, n) /\ AllMembers(c.rest) \subseteq GapMembers(s)
    BY <2>4, <2>5, TookSubset
  <2>9. AllMembers(p.rest) \cap AllMembers(c.rest) = {}
    BY <2>7, <2>8
  <2>10. /\ GoodGaps(p.rest \o c.rest)
         /\ AllMembers(p.rest \o c.rest) = AllMembers(p.rest) \cup AllMembers(c.rest)
    BY <2>4, <2>5, <2>9, GapsOfBoth
  <2>11. c.taken \in Nat
    BY <2>4, <2>5
  <2>12. /\ p.taken + c.taken \in 0 .. limit
         /\ Took(AllUpto(g, n) \cup GapMembers(s), AllMembers(p.rest) \cup AllMembers(c.rest), lower, upper,
                 limit, p.taken + c.taken)
    BY <2>4, <2>5, <2>7, <2>11, TookBoth
  <2>13. f[n + 1].taken = p.taken + c.taken /\ f[n + 1].rest = p.rest \o c.rest
    <3>1. Then(p, c).taken = p.taken + c.taken /\ Then(p, c).rest = p.rest \o c.rest
      BY DEF Then
    <3> QED BY <2>2, <3>1
  <2> QED BY <2>6, <2>10, <2>12, <2>13
<1>5. T = Nat
  <2>1. T \in SUBSET Nat
    OBVIOUS
  <2> HIDE DEF T
  <2> QED BY <1>3, <1>4, <2>1, SetInduction
<1>6. Done(Len(g))
  <2> HIDE DEF Done
  <2> QED BY <1>1, <1>5
<1>7. AllUpto(g, Len(g)) = AllMembers(g)
  BY <1>1 DEF AllUpto, AllMembers
<1> QED
  BY <1>6, <1>7 DEF ConsumeGaps, f

-----------------------------------------------------------------------------
(* Sizes.                                                                  *)

UnionTo(S, n) == UNION {S[i] : i \in 1 .. n}

\* The sum of the sizes of sets that are apart is the size of their union.
LEMMA SumCounts ==
  ASSUME NEW n \in Nat, NEW v \in [1 .. n -> Nat], NEW S,
         \A i \in 1 .. n : IsFiniteSet(S[i]) /\ Cardinality(S[i]) = v[i],
         \A i, j \in 1 .. n : i # j => S[i] \cap S[j] = {}
  PROVE  IsFiniteSet(UnionTo(S, n)) /\ Sum(v) = Cardinality(UnionTo(S, n))
<1>1. v \in Seq(Nat) /\ Len(v) = n
  BY SeqDef, IsASeq
<1>2. PICK f : Sum(v) = f[n] /\ f = [i \in 0 .. n |-> IF i = 0 THEN 0 ELSE f[i - 1] + v[i]]
  BY <1>1, SumDef
<1> DEFINE T == {k \in Nat : k <= n => /\ IsFiniteSet(UnionTo(S, k)) /\ Cardinality(UnionTo(S, k)) = f[k]
                                      /\ f[k] \in Nat}
<1>3. 0 \in T
  <2>1. UnionTo(S, 0) = {} /\ f[0] = 0
    BY <1>2 DEF UnionTo
  <2>2. IsFiniteSet({}) /\ Cardinality({}) = 0
    BY FS_EmptySet
  <2>3. IsFiniteSet(UnionTo(S, 0)) /\ Cardinality(UnionTo(S, 0)) = f[0]
    BY ONLY <2>1, <2>2, Zenon
  <2>4. f[0] \in Nat
    BY ONLY <2>1
  <2> QED BY <2>3, <2>4
<1>4. ASSUME NEW k \in T PROVE k + 1 \in T
  <2> SUFFICES ASSUME k + 1 <= n
               PROVE  /\ IsFiniteSet(UnionTo(S, k + 1)) /\ Cardinality(UnionTo(S, k + 1)) = f[k + 1]
                      /\ f[k + 1] \in Nat
    OBVIOUS
  <2> DEFINE X == UnionTo(S, k)
             Y == S[k + 1]
  <2>1. IsFiniteSet(X) /\ Cardinality(X) = f[k] /\ f[k] \in Nat
    BY <1>4
  <2>2. k + 1 \in 1 .. n /\ (k + 1) - 1 = k
    OBVIOUS
  <2>3. f[k + 1] = f[k] + v[k + 1] /\ v[k + 1] \in Nat
    BY <1>2, <2>2
  <2>4. UnionTo(S, k + 1) = X \cup Y
    <3>1. 1 .. (k + 1) = (1 .. k) \cup {k + 1}
      OBVIOUS
    <3> QED BY <3>1 DEF UnionTo
  <2>5. X \cap Y = {}
    <3>1. \A i \in 1 .. k : i \in 1 .. n /\ i # k + 1
      OBVIOUS
    <3> QED BY <3>1, <2>2 DEF UnionTo
  <2>6. IsFiniteSet(Y) /\ Cardinality(Y) = v[k + 1]
    BY <2>2
  <2> HIDE DEF X, Y
  <2>7. /\ IsFiniteSet(X \cup Y)
        /\ Cardinality(X \cup Y) = Cardinality(X) + Cardinality(Y) - Cardinality(X \cap Y)
    BY <2>1, <2>6, FS_Union
  <2>8. Cardinality(X \cap Y) = 0
    BY <2>5, FS_EmptySet
  <2>9. f[k + 1] \in Nat
    BY <2>1, <2>3
  <2>10. IsFiniteSet(UnionTo(S, k + 1))
    BY <2>4, <2>7
  <2>11. Cardinality(UnionTo(S, k + 1)) = f[k + 1]
    <3> DEFINE fk == f[k]
               fl == f[k + 1]
               vk == v[k + 1]
               Z == UnionTo(S, k + 1)
    <3>1. /\ fl = fk + vk /\ Z = X \cup Y /\ Cardinality(X) = fk /\ Cardinality(Y) = vk
          /\ fk \in Nat /\ vk \in Nat
      BY <2>1, <2>3, <2>4, <2>6
    <3> HIDE DEF fk, fl, vk, Z
    <3>2. Cardinality(Z) = fl
      BY <3>1, <2>7, <2>8
    <3> QED BY <3>2 DEF fl, Z
  <2> QED BY <2>9, <2>10, <2>11
<1>5. T = Nat
  <2>1. T \in SUBSET Nat
    OBVIOUS
  <2> HIDE DEF T
  <2> QED BY <1>3, <1>4, <2>1, SetInduction
<1>6. n \in T
  BY <1>5
<1> QED
  BY <1>2, <1>6

\* What the counters of candidates add up to is a number of frames.
LEMMA GapSizeCounts ==
  ASSUME NEW g, GoodGap(g)
  PROVE  IsFiniteSet(GapMembers(g)) /\ GapSize(g) = Cardinality(GapMembers(g))
<1> DEFINE n == Len(g)
           v == [i \in DOMAIN g |-> Size(g[i])]
           S == [i \in 1 .. n |-> Members(g[i])]
<1>1. n \in Nat /\ DOMAIN g = 1 .. n /\ \A i \in 1 .. n : g[i] \in Segs
  BY DEF GoodGap
<1>2. \A i \in 1 .. n : /\ IsFiniteSet(Members(g[i])) /\ Cardinality(Members(g[i])) = Size(g[i])
                        /\ Size(g[i]) \in Nat
  BY <1>1, SizeCounts, SegTypes
<1>3. v \in [1 .. n -> Nat] /\ \A i \in 1 .. n : v[i] = Size(g[i])
  BY <1>1, <1>2
<1>4. \A i \in 1 .. n : IsFiniteSet(S[i]) /\ Cardinality(S[i]) = v[i]
  BY <1>2, <1>3
<1>5. \A i, j \in 1 .. n : i # j => S[i] \cap S[j] = {}
  BY <1>1 DEF GoodGap, Disjoint
<1>6. UnionTo(S, n) = GapMembers(g)
  BY <1>1 DEF GapMembers, UnionTo
<1>7. Sum(v) = GapSize(g)
  BY DEF GapSize
<1>8. IsFiniteSet(UnionTo(S, n)) /\ Sum(v) = Cardinality(UnionTo(S, n))
  <2> HIDE DEF v, S, n
  <2> QED BY <1>1, <1>3, <1>4, <1>5, SumCounts
<1> QED
  BY <1>6, <1>7, <1>8

\* The sizes of open gaps add up to the numbers that are open.
LEMMA SizesCount ==
  ASSUME NEW gs, GoodGaps(gs)
  PROVE  IsFiniteSet(AllMembers(gs)) /\ Sizes(gs) = Cardinality(AllMembers(gs))
<1> DEFINE n == Len(gs)
           v == [i \in DOMAIN gs |-> GapSize(gs[i])]
           S == [i \in 1 .. n |-> GapMembers(gs[i])]
<1>1. n \in Nat /\ DOMAIN gs = 1 .. n /\ \A i \in 1 .. n : GoodGap(gs[i])
  BY DEF GoodGaps, GoodGap
<1>2. \A i \in 1 .. n : /\ IsFiniteSet(GapMembers(gs[i])) /\ Cardinality(GapMembers(gs[i])) = GapSize(gs[i])
                        /\ GapSize(gs[i]) \in Nat
  <2>1. \A i \in 1 .. n : IsFiniteSet(GapMembers(gs[i])) /\ Cardinality(GapMembers(gs[i])) = GapSize(gs[i])
    BY <1>1, GapSizeCounts
  <2> QED BY <2>1, FS_CardinalityType
<1>3. v \in [1 .. n -> Nat] /\ \A i \in 1 .. n : v[i] = GapSize(gs[i])
  BY <1>1, <1>2
<1>4. \A i \in 1 .. n : IsFiniteSet(S[i]) /\ Cardinality(S[i]) = v[i]
  BY <1>2, <1>3
<1>5. \A i, j \in 1 .. n : i # j => S[i] \cap S[j] = {}
  BY <1>1 DEF GoodGaps, Apart
<1>6. UnionTo(S, n) = AllMembers(gs)
  BY <1>1 DEF AllMembers, UnionTo
<1>7. Sum(v) = Sizes(gs)
  BY DEF Sizes
<1>8. IsFiniteSet(UnionTo(S, n)) /\ Sum(v) = Cardinality(UnionTo(S, n))
  <2> HIDE DEF v, S, n
  <2> QED BY <1>1, <1>3, <1>4, <1>5, SumCounts
<1> QED
  BY <1>6, <1>7, <1>8

-----------------------------------------------------------------------------
\* A finite set has a subset of every smaller size.
LEMMA PickSome ==
  ASSUME NEW S, IsFiniteSet(S), NEW k \in 0 .. Cardinality(S)
  PROVE  \E F \in SUBSET S : IsFiniteSet(F) /\ Cardinality(F) = k
<1> DEFINE n == Cardinality(S)
<1>1. n \in Nat /\ ExistsBijection(1 .. n, S)
  BY FS_CardinalityType
<1>2. PICK h \in Bijection(1 .. n, S) : TRUE
  BY <1>1 DEF ExistsBijection
<1> HIDE DEF n
<1> DEFINE F == {h[i] : i \in 1 .. k}
           b == [i \in 1 .. k |-> h[i]]
<1>3. \A i \in 1 .. k : i \in 1 .. n
  BY <1>1 DEF n
<1>4. /\ \A i \in 1 .. n : h[i] \in S
      /\ \A i, j \in 1 .. n : h[i] = h[j] => i = j
  BY <1>2 DEF Bijection, Injection, IsInjective
<1>5. F \subseteq S /\ b \in Bijection(1 .. k, F)
  <2>1. b \in [1 .. k -> F] /\ F \subseteq S
    BY <1>3, <1>4
  <2>2. \A i, j \in 1 .. k : b[i] = b[j] => i = j
    BY <1>3, <1>4
  <2>3. \A t \in F : \E i \in 1 .. k : b[i] = t
    OBVIOUS
  <2> HIDE DEF b, F
  <2>4. b \in Injection(1 .. k, F)
    BY <2>1, <2>2 DEF Injection, IsInjective
  <2>5. b \in Surjection(1 .. k, F)
    BY <2>1, <2>3 DEF Surjection
  <2> QED BY <2>1, <2>4, <2>5 DEF Bijection
<1> HIDE DEF F, b
<1>6. IsFiniteSet(F) /\ Cardinality(F) = k
  <2>1. ExistsBijection(1 .. k, F) /\ k \in Nat
    BY <1>5 DEF ExistsBijection
  <2> QED BY <2>1, FS_CountingElements, FS_NatBijection
<1> QED
  BY <1>5, <1>6

-----------------------------------------------------------------------------
(* Windows.                                                                *)

\* First frames of windows, and the frames of a window.
Starts == {k \in 1 .. MaxSeq : (k - 1) % WindowSize = 0}
Span(start) == start .. (start + WindowSize - 1)

\* Two windows share no frame.
LEMMA SpansApart ==
  ASSUME NEW s \in Starts, NEW t \in Starts, s # t
  PROVE  Span(s) \cap Span(t) = {}
<1> USE BoundsAssumption, SizesAssumption
<1>1. \A a, b \in Starts : a < b => b >= a + WindowSize
  <2> SUFFICES ASSUME NEW a \in Starts, NEW b \in Starts, a < b PROVE b >= a + WindowSize
    OBVIOUS
  <2>1. /\ a \in Int /\ b \in Int /\ a - 1 \in Int /\ b - 1 \in Int
        /\ (a - 1) % WindowSize = 0 /\ (b - 1) % WindowSize = 0
    BY DEF Starts
  <2>2. PICK k \in Int : b - 1 = (a - 1) + k * WindowSize
    <3> DEFINE x == a - 1
               y == b - 1
    <3>1. x \in Int /\ y \in Int /\ y % WindowSize = x % WindowSize
      BY <2>1
    <3> HIDE DEF x, y
    <3>2. \E k \in Int : y = x + k * WindowSize
      BY <3>1, SameRemainder
    <3> QED BY <3>2 DEF x, y
  <2>3. ~(k <= 0)
    <3> SUFFICES ASSUME k <= 0 PROVE FALSE
      OBVIOUS
    <3>1. k * WindowSize <= 0 * WindowSize
      BY ProductMonotone
    <3> QED BY <3>1, <2>1, <2>2
  <2>4. 1 * WindowSize <= k * WindowSize
    BY <2>3, ProductMonotone
  <2> QED BY <2>1, <2>2, <2>4
<1>2. s \in Int /\ t \in Int
  BY DEF Starts
<1>3. s >= t + WindowSize \/ t >= s + WindowSize
  BY <1>1, <1>2
<1> QED
  BY <1>2, <1>3 DEF Span

PutAt(ws, s, w) == [t \in DOMAIN ws \cup {s} |-> IF t = s THEN w ELSE ws[t]]
UsedOf(ws, s) == IF s \in DOMAIN ws THEN ws[s].used ELSE 0

\* The frames that the windows have explained are among M.
Blame(M, ws) ==
  \E E \in [DOMAIN ws -> SUBSET M] : \A s \in DOMAIN ws :
    Cardinality(E[s]) = ws[s].used /\ E[s] \subseteq s .. ws[s].end

\* As many frames of St as were classified, where the windows had them.
Credit(St, n, ws) ==
  \E D \in SUBSET St :
    Cardinality(D) = n /\ \A s \in Starts : Cardinality(D \cap Span(s)) = UsedOf(ws, s)

\* Bounds of the numbers of a window.
LEMMA StartsType == \A s \in Starts : s \in Int /\ s >= 1 /\ s <= MaxSeq
  BY BoundsAssumption DEF Starts

\* More frames that may be blamed.
LEMMA BlameGrows ==
  ASSUME NEW M, NEW N, M \subseteq N, NEW ws, Blame(M, ws)
  PROVE  Blame(N, ws)
<1>1. PICK E \in [DOMAIN ws -> SUBSET M] : \A s \in DOMAIN ws :
        Cardinality(E[s]) = ws[s].used /\ E[s] \subseteq s .. ws[s].end
  BY DEF Blame
<1>2. E \in [DOMAIN ws -> SUBSET N]
  BY <1>1
<1> QED
  BY <1>1, <1>2 DEF Blame

\* A window explains frames that no window had explained before.
LEMMA BlameStep ==
  ASSUME NEW M, NEW ws, Blame(M, ws), NEW s \in Int, NEW w, w.end \in Int,
         s \in DOMAIN ws => ws[s].end \in Int /\ ws[s].end <= w.end /\ ws[s].used \in Nat,
         NEW F \in SUBSET (s .. w.end), F \cap M = {}, w.used = UsedOf(ws, s) + Cardinality(F)
  PROVE  Blame(M \cup F, PutAt(ws, s, w))
<1>1. PICK E \in [DOMAIN ws -> SUBSET M] : \A t \in DOMAIN ws :
        Cardinality(E[t]) = ws[t].used /\ E[t] \subseteq t .. ws[t].end
  BY DEF Blame
<1> DEFINE old == IF s \in DOMAIN ws THEN E[s] ELSE {}
           V == PutAt(ws, s, w)
           H == [t \in DOMAIN ws \cup {s} |-> IF t = s THEN old \cup F ELSE E[t]]
<1>2. old \subseteq M /\ old \subseteq s .. w.end /\ Cardinality(old) = UsedOf(ws, s)
  <2>1. CASE s \in DOMAIN ws
    <3>1. old = E[s] /\ UsedOf(ws, s) = ws[s].used /\ E[s] \subseteq M
      BY <2>1 DEF UsedOf
    <3>2. \A n \in s .. ws[s].end : n \in s .. w.end
      BY <2>1
    <3> QED BY <2>1, <3>1, <3>2, <1>1
  <2>2. CASE s \notin DOMAIN ws
    BY <2>2, FS_EmptySet DEF UsedOf
  <2> QED BY <2>1, <2>2
<1> HIDE DEF old
<1>3. Cardinality(old \cup F) = w.used
  <2>1. IsFiniteSet(s .. w.end)
    BY FS_Interval
  <2>2. IsFiniteSet(old) /\ IsFiniteSet(F)
    BY <1>2, <2>1, FS_Subset
  <2>3. Cardinality(old \cap F) = 0
    <3>1. old \cap F = {}
      BY <1>2
    <3> QED BY <3>1, FS_EmptySet
  <2>4. Cardinality(old \cup F) = Cardinality(old) + Cardinality(F) - Cardinality(old \cap F)
    BY <2>2, FS_Union
  <2>5. Cardinality(old) \in Nat /\ Cardinality(F) \in Nat
    BY <2>2, FS_CardinalityType
  <2> QED BY <1>2, <2>3, <2>4, <2>5
<1>4. DOMAIN V = DOMAIN ws \cup {s} /\ V[s] = w /\ \A t \in DOMAIN ws : t # s => V[t] = ws[t]
  BY DEF PutAt
<1>5. H \in [DOMAIN V -> SUBSET (M \cup F)]
  <2>1. \A t \in DOMAIN ws \cup {s} : H[t] \in SUBSET (M \cup F)
    BY <1>1, <1>2
  <2> QED BY <2>1, <1>4
<1>6. \A t \in DOMAIN V : Cardinality(H[t]) = V[t].used /\ H[t] \subseteq t .. V[t].end
  <2> SUFFICES ASSUME NEW t \in DOMAIN V
               PROVE  Cardinality(H[t]) = V[t].used /\ H[t] \subseteq t .. V[t].end
    OBVIOUS
  <2>1. CASE t = s
    BY <2>1, <1>2, <1>3, <1>4
  <2>2. CASE t # s
    BY <2>2, <1>1, <1>4
  <2> QED BY <2>1, <2>2
<1> HIDE DEF H, V
<1>7. Blame(M \cup F, V)
  BY <1>5, <1>6 DEF Blame
<1> QED
  BY <1>7 DEF V

\* A window classifies more frames, no more in all than it had.
LEMMA CreditStep ==
  ASSUME NEW St, IsFiniteSet(St), NEW n \in Nat, NEW ws, Credit(St, n, ws),
         NEW s \in Starts, NEW x \in Nat, NEW w, w.used = UsedOf(ws, s) + x,
         UsedOf(ws, s) \in Nat, w.used <= Cardinality(St \cap Span(s))
  PROVE  Credit(St, n + x, PutAt(ws, s, w))
<1>1. PICK D \in SUBSET St :
        Cardinality(D) = n /\ \A t \in Starts : Cardinality(D \cap Span(t)) = UsedOf(ws, t)
  BY DEF Credit
<1> DEFINE A == St \cap Span(s)
           B == D \cap Span(s)
           V == PutAt(ws, s, w)
<1>2. IsFiniteSet(D) /\ IsFiniteSet(A) /\ IsFiniteSet(B) /\ IsFiniteSet(A \ B)
  <2>1. D \in SUBSET St /\ A \in SUBSET St /\ B \in SUBSET St /\ A \ B \in SUBSET St
    OBVIOUS
  <2> HIDE DEF A, B
  <2> QED BY <2>1, FS_Subset
<1>3. Cardinality(A \ B) = Cardinality(A) - Cardinality(B) /\ Cardinality(A) \in Nat /\ Cardinality(B) \in Nat
  <2>1. A \cap B = B
    OBVIOUS
  <2> HIDE DEF A, B
  <2>2. Cardinality(A \ B) = Cardinality(A) - Cardinality(A \cap B)
    BY <1>2, FS_Difference
  <2> QED BY <2>1, <2>2, <1>2, FS_CardinalityType
<1>4. Cardinality(B) = UsedOf(ws, s)
  BY <1>1
<1>5. x \in 0 .. Cardinality(A \ B)
  BY <1>3, <1>4
<1>6. PICK F \in SUBSET (A \ B) : IsFiniteSet(F) /\ Cardinality(F) = x
  <2> DEFINE Y == A \ B
  <2>1. IsFiniteSet(Y) /\ x \in 0 .. Cardinality(Y)
    BY <1>2, <1>5
  <2> HIDE DEF Y
  <2>2. \E F \in SUBSET Y : IsFiniteSet(F) /\ Cardinality(F) = x
    BY <2>1, PickSome
  <2> QED BY <2>2 DEF Y
<1>7. F \cap D = {} /\ F \subseteq St /\ F \subseteq Span(s)
  OBVIOUS
<1>8. Cardinality(D \cup F) = n + x
  <2>1. Cardinality(D \cap F) = 0
    <3>1. D \cap F = {}
      BY <1>7
    <3> QED BY <3>1, FS_EmptySet
  <2>2. Cardinality(D \cup F) = Cardinality(D) + Cardinality(F) - Cardinality(D \cap F)
    BY <1>2, <1>6, FS_Union
  <2> QED BY <1>1, <1>6, <2>1, <2>2
<1>9. ASSUME NEW t \in Starts
      PROVE  Cardinality((D \cup F) \cap Span(t)) = UsedOf(V, t)
  <2>1. CASE t = s
    <3>1. (D \cup F) \cap Span(s) = B \cup F
      BY <1>7
    <3>2. UsedOf(V, s) = w.used
      BY DEF UsedOf, PutAt
    <3>3. Cardinality(B \cap F) = 0
      <4>1. B \cap F = {}
        BY <1>7
      <4> QED BY <4>1, FS_EmptySet
    <3> HIDE DEF A, B, V
    <3>4. Cardinality(B \cup F) = Cardinality(B) + Cardinality(F) - Cardinality(B \cap F)
      BY <1>2, <1>6, FS_Union
    <3>5. Cardinality(B \cup F) = w.used
      BY <3>3, <3>4, <1>3, <1>4, <1>6
    <3> QED BY <2>1, <3>1, <3>2, <3>5
  <2>2. CASE t # s
    <3>1. Span(s) \cap Span(t) = {}
      BY <2>2, SpansApart
    <3>2. (D \cup F) \cap Span(t) = D \cap Span(t)
      BY <3>1, <1>7
    <3>3. UsedOf(V, t) = UsedOf(ws, t)
      BY <2>2 DEF UsedOf, PutAt
    <3> QED BY <3>2, <3>3, <1>1
  <2> QED BY <2>1, <2>2
<1>10. D \cup F \in SUBSET St
  BY <1>7
<1> HIDE DEF V
<1>11. Credit(St, n + x, V)
  BY <1>8, <1>9, <1>10 DEF Credit
<1> QED
  BY <1>11 DEF V

-----------------------------------------------------------------------------
GoodWindows(ws, St) ==
  \A s \in DOMAIN ws :
    /\ s \in Starts
    /\ ws[s] \in [end : Span(s), invalid : Nat, used : Nat, drops : Nat]
    /\ ws[s].used <= ws[s].invalid
    /\ ws[s].invalid = Cardinality(St \cap s .. ws[s].end)

LEMMA SpanType == \A s \in Starts : \A e \in Span(s) : e \in Int /\ e >= s /\ s .. e \subseteq Span(s)
  BY SizesAssumption, StartsType DEF Span

\* One window explains what is left of a new gap.
LEMMA ReconciledTook ==
  ASSUME NEW St, NEW p, GoodGap(p.gap), GoodWindows(p.windows, St),
         NEW s \in DOMAIN p.windows
  PROVE  LET q == Reconciled(p, s)
             w == p.windows[s]
         IN \E F \in SUBSET (GapMembers(p.gap) \cap s .. w.end), x \in Nat :
              /\ IsFiniteSet(F) /\ Cardinality(F) = x
              /\ GoodGap(q.gap) /\ GapMembers(q.gap) = GapMembers(p.gap) \ F
              /\ q.taken = p.taken + x
              /\ q.windows = PutAt(p.windows, s, [w EXCEPT !.used = w.used + x])
              /\ w.used + x <= w.invalid
              /\ w.used + x < w.invalid => GapMembers(q.gap) \cap s .. w.end = {}
<1> DEFINE ws == p.windows
           w == ws[s]
           limit == AtLeast(0, w.invalid - w.used)
           c == ConsumeGap(p.gap, s, w.end, limit)
           q == Reconciled(p, s)
<1>1. /\ s \in Starts /\ w \in [end : Span(s), invalid : Nat, used : Nat, drops : Nat]
      /\ w.used <= w.invalid
  BY DEF GoodWindows
<1>2. s \in Int /\ w.end \in Int
  BY <1>1, StartsType, SpanType
<1>3. limit = w.invalid - w.used /\ limit \in Nat
  BY <1>1 DEF AtLeast
<1>4. q.gap = c.rest /\ q.taken = p.taken + c.taken
      /\ q.windows = [ws EXCEPT ![s].used = @ + c.taken]
  BY DEF Reconciled
<1> HIDE DEF limit, q, w
<1>5. /\ c.taken \in 0 .. limit /\ GoodGap(c.rest)
      /\ Took(GapMembers(p.gap), GapMembers(c.rest), s, w.end, limit, c.taken)
  BY <1>2, <1>3, GapTook
<1>6. PICK F \in SUBSET (GapMembers(p.gap) \cap s .. w.end) :
        /\ IsFiniteSet(F) /\ Cardinality(F) = c.taken
        /\ GapMembers(c.rest) = GapMembers(p.gap) \ F
        /\ c.taken < limit => F = GapMembers(p.gap) \cap s .. w.end
  BY <1>5 DEF Took
<1> HIDE DEF c
<1>7. q.windows = PutAt(ws, s, [w EXCEPT !.used = w.used + c.taken])
  BY <1>4 DEF PutAt, w
<1>8. c.taken \in Nat /\ w.used + c.taken <= w.invalid
  BY <1>1, <1>3, <1>5
<1>9. w.used + c.taken < w.invalid => GapMembers(q.gap) \cap s .. w.end = {}
  <2> SUFFICES ASSUME w.used + c.taken < w.invalid PROVE GapMembers(q.gap) \cap s .. w.end = {}
    OBVIOUS
  <2>1. c.taken < limit
    BY <1>1, <1>3, <1>8
  <2> QED BY <2>1, <1>4, <1>6
<1> HIDE DEF ws
<1>10. /\ IsFiniteSet(F) /\ Cardinality(F) = c.taken
       /\ GoodGap(q.gap) /\ GapMembers(q.gap) = GapMembers(p.gap) \ F
       /\ q.taken = p.taken + c.taken
  BY <1>4, <1>5, <1>6
<1> QED
  BY <1>7, <1>8, <1>9, <1>10 DEF q, w, ws

\* How windows may differ once they explained more.
MoreUsed(ws, vs) ==
  /\ DOMAIN vs = DOMAIN ws
  /\ \A s \in DOMAIN ws : vs[s].end = ws[s].end /\ vs[s].invalid = ws[s].invalid /\ vs[s].drops = ws[s].drops
                          /\ ws[s].used <= vs[s].used

Exhausted(G, s, w) == G \cap s .. w.end # {} => w.used = w.invalid

\* A window that explained x more frames.
LEMMA PutUsed ==
  ASSUME NEW St, NEW ws, GoodWindows(ws, St), NEW s \in DOMAIN ws, NEW x \in Nat,
         ws[s].used + x <= ws[s].invalid
  PROVE  LET vs == PutAt(ws, s, [ws[s] EXCEPT !.used = ws[s].used + x])
         IN /\ GoodWindows(vs, St) /\ MoreUsed(ws, vs)
            /\ vs[s].used = ws[s].used + x
            /\ \A t \in DOMAIN ws : t # s => vs[t] = ws[t]
<1> DEFINE w == [ws[s] EXCEPT !.used = ws[s].used + x]
           vs == PutAt(ws, s, w)
<1>1. \A t \in DOMAIN ws :
        /\ t \in Starts
        /\ ws[t] \in [end : Span(t), invalid : Nat, used : Nat, drops : Nat]
        /\ ws[t].used <= ws[t].invalid
        /\ ws[t].invalid = Cardinality(St \cap t .. ws[t].end)
  BY DEF GoodWindows
<1>2. /\ w \in [end : Span(s), invalid : Nat, used : Nat, drops : Nat]
      /\ w.used = ws[s].used + x /\ w.end = ws[s].end /\ w.invalid = ws[s].invalid /\ w.drops = ws[s].drops
  <2> DEFINE o == ws[s]
  <2>0. o \in [end : Span(s), invalid : Nat, used : Nat, drops : Nat]
    BY <1>1
  <2>1. o \in [end : Span(s), invalid : Nat, used : Nat, drops : Nat] /\ o.used + x \in Nat
    <3> HIDE DEF o
    <3> QED BY <2>0
  <2>2. w = [o EXCEPT !.used = o.used + x]
    OBVIOUS
  <2> HIDE DEF o, w
  <2>3. /\ w \in [end : Span(s), invalid : Nat, used : Nat, drops : Nat]
        /\ w.used = o.used + x /\ w.end = o.end /\ w.invalid = o.invalid /\ w.drops = o.drops
    BY <2>1, <2>2
  <2> QED BY <2>3 DEF o
<1> HIDE DEF w
<1>3. DOMAIN vs = DOMAIN ws /\ vs[s] = w /\ \A t \in DOMAIN ws : t # s => vs[t] = ws[t]
  BY DEF PutAt
<1> HIDE DEF vs
<1>4. ASSUME NEW t \in DOMAIN ws
      PROVE  /\ t \in Starts
             /\ vs[t] \in [end : Span(t), invalid : Nat, used : Nat, drops : Nat]
             /\ vs[t].used <= vs[t].invalid
             /\ vs[t].invalid = Cardinality(St \cap t .. vs[t].end)
             /\ vs[t].end = ws[t].end /\ vs[t].invalid = ws[t].invalid /\ vs[t].drops = ws[t].drops
             /\ ws[t].used <= vs[t].used
  <2>1. CASE t = s
    BY <2>1, <1>1, <1>2, <1>3
  <2>2. CASE t # s
    BY <2>2, <1>1, <1>3
  <2> QED BY <2>1, <2>2
<1>5. GoodWindows(vs, St) /\ MoreUsed(ws, vs)
  BY <1>3, <1>4 DEF GoodWindows, MoreUsed
<1> QED
  BY <1>2, <1>3, <1>5 DEF vs, w

LEMMA MoreUsedTransitive ==
  ASSUME NEW St, NEW ws, NEW vs, NEW us, MoreUsed(ws, vs), MoreUsed(vs, us),
         GoodWindows(ws, St), GoodWindows(vs, St), GoodWindows(us, St)
  PROVE  MoreUsed(ws, us)
<1>1. \A s \in DOMAIN ws : ws[s].used \in Nat /\ vs[s].used \in Nat /\ us[s].used \in Nat
  BY DEF MoreUsed, GoodWindows
<1> QED
  BY <1>1 DEF MoreUsed

\* What the windows reported before do to a new gap.
LEMMA WindowsTook ==
  ASSUME NEW St, IsFiniteSet(St), NEW g, GoodGap(g), NEW ws, GoodWindows(ws, St)
  PROVE  LET r == GapWithWindows(g, ws)
             G == GapMembers(g)
             R == GapMembers(r.gap)
         IN /\ r.taken \in Nat /\ GoodGap(r.gap) /\ R \subseteq G
            /\ IsFiniteSet(G) /\ Cardinality(R) + r.taken = Cardinality(G)
            /\ GoodWindows(r.windows, St) /\ MoreUsed(ws, r.windows)
            /\ \A s \in DOMAIN ws : Exhausted(R, s, r.windows[s])
            /\ \A M : M \cap G = {} /\ Blame(M, ws) => Blame(M \cup (G \ R), r.windows)
            /\ \A n \in Nat : Credit(St, n, ws) => Credit(St, n + r.taken, r.windows)
            /\ DOMAIN ws = {} => r.taken = 0 /\ r.windows = ws
<1> DEFINE f == WindowSteps(g, ws)
           G == GapMembers(g)
           R(n) == GapMembers(f[n].gap)
           Sets(n) == /\ f[n].taken \in Nat /\ GoodGap(f[n].gap) /\ R(n) \subseteq G
                      /\ Cardinality(R(n)) + f[n].taken = Cardinality(G)
           Wins(n) == /\ GoodWindows(f[n].windows, St) /\ MoreUsed(ws, f[n].windows)
                      /\ \A s \in DOMAIN ws : s <= n => Exhausted(R(n), s, f[n].windows[s])
           Blames(n) == \A M : M \cap G = {} /\ Blame(M, ws) => Blame(M \cup (G \ R(n)), f[n].windows)
           Credits(n) == \A k \in Nat : Credit(St, k, ws) => Credit(St, k + f[n].taken, f[n].windows)
           Nones(n) == DOMAIN ws = {} => f[n].taken = 0 /\ f[n].windows = ws
           Done(n) == Sets(n) /\ Wins(n) /\ Blames(n) /\ Credits(n) /\ Nones(n)
           T == {n \in Nat : n <= MaxSeq => Done(n)}
<1>1. f = [i \in 0 .. MaxSeq |-> IF i = 0 THEN [gap |-> g, taken |-> 0, windows |-> ws]
             ELSE IF i \in DOMAIN ws THEN Reconciled(f[i - 1], i) ELSE f[i - 1]]
  BY WindowStepsDef
<1>2. MaxSeq \in Nat /\ \A s \in DOMAIN ws : s \in Starts /\ s \in 1 .. MaxSeq
  <2>1. \A s \in DOMAIN ws : s \in Starts
    BY DEF GoodWindows
  <2> QED BY <2>1, BoundsAssumption DEF Starts
<1>3. IsFiniteSet(G) /\ Cardinality(G) \in Nat
  BY GapSizeCounts, FS_CardinalityType
<1> HIDE DEF f, G
<1>4. 0 \in T
  <2>1. f[0] = [gap |-> g, taken |-> 0, windows |-> ws]
    BY <1>1, <1>2
  <2>2. f[0].gap = g /\ f[0].taken = 0 /\ f[0].windows = ws /\ R(0) = G
    BY <2>1 DEF G
  <2>3. Sets(0)
    BY <2>2, <1>3
  <2>4. Wins(0)
    <3>1. MoreUsed(ws, ws)
      <4>1. \A s \in DOMAIN ws : ws[s].used \in Nat
        BY DEF GoodWindows
      <4> QED BY <4>1 DEF MoreUsed
    <3>2. \A s \in DOMAIN ws : ~(s <= 0)
      BY <1>2
    <3> QED BY <2>2, <3>1, <3>2
  <2>5. Blames(0)
    <3> SUFFICES ASSUME NEW M, Blame(M, ws) PROVE Blame(M \cup (G \ R(0)), f[0].windows)
      OBVIOUS
    <3>1. M \cup (G \ R(0)) = M
      BY <2>2
    <3> QED BY <3>1, <2>2
  <2>6. Credits(0)
    <3>1. \A k \in Nat : k + f[0].taken = k
      BY <2>2
    <3> QED BY <3>1, <2>2
  <2>7. Nones(0)
    BY <2>2
  <2> HIDE DEF Sets, Wins, Blames, Credits, Nones
  <2> QED BY <2>3, <2>4, <2>5, <2>6, <2>7
<1>5. ASSUME NEW n \in T PROVE n + 1 \in T
  <2> SUFFICES ASSUME n + 1 <= MaxSeq PROVE Done(n + 1)
    OBVIOUS
  <2> DEFINE p == f[n]
             q == f[n + 1]
             s == n + 1
  <2>1. Sets(n) /\ Wins(n) /\ Blames(n) /\ Credits(n) /\ Nones(n) /\ n \in Nat
    <3> HIDE DEF Sets, Wins, Blames, Credits, Nones
    <3> QED BY <1>2, <1>5
  <2>2. q = IF s \in DOMAIN ws THEN Reconciled(p, s) ELSE p
    <3>1. s \in 0 .. MaxSeq /\ s # 0 /\ s - 1 = n
      BY <2>1, <1>2
    <3> QED BY <1>1, <3>1
  <2>3. CASE s \notin DOMAIN ws
    <3>1. f[n + 1] = f[n]
      BY <2>2, <2>3
    <3>2. \A t \in DOMAIN ws : t <= n + 1 => t <= n
      BY <1>2, <2>1, <2>3
    <3> QED BY <3>1, <3>2, <2>1
  <2>4. CASE s \in DOMAIN ws
    <3> DEFINE w == p.windows[s]
    <3>1. s \in DOMAIN p.windows /\ GoodGap(p.gap) /\ GoodWindows(p.windows, St)
      BY <2>1, <2>4 DEF MoreUsed
    <3>2. q = Reconciled(p, s)
      BY <2>2, <2>4
    <3> HIDE DEF p, q, s
    <3>3. PICK F \in SUBSET (GapMembers(p.gap) \cap s .. w.end), x \in Nat :
              /\ IsFiniteSet(F) /\ Cardinality(F) = x
              /\ GoodGap(q.gap) /\ GapMembers(q.gap) = GapMembers(p.gap) \ F
              /\ q.taken = p.taken + x
              /\ q.windows = PutAt(p.windows, s, [w EXCEPT !.used = w.used + x])
              /\ w.used + x <= w.invalid
              /\ w.used + x < w.invalid => GapMembers(q.gap) \cap s .. w.end = {}
      <4> DEFINE r == Reconciled(p, s)
      <4>1. \E F \in SUBSET (GapMembers(p.gap) \cap s .. w.end), x \in Nat :
              /\ IsFiniteSet(F) /\ Cardinality(F) = x
              /\ GoodGap(r.gap) /\ GapMembers(r.gap) = GapMembers(p.gap) \ F
              /\ r.taken = p.taken + x
              /\ r.windows = PutAt(p.windows, s, [w EXCEPT !.used = w.used + x])
              /\ w.used + x <= w.invalid
              /\ w.used + x < w.invalid => GapMembers(r.gap) \cap s .. w.end = {}
        BY ONLY <3>1, ReconciledTook
      <4>2. r = q
        BY <3>2
      <4> HIDE DEF r, w
      <4> QED BY <4>1, <4>2
    <3>4. /\ p.taken \in Nat /\ GapMembers(p.gap) \subseteq G
          /\ Cardinality(GapMembers(p.gap)) + p.taken = Cardinality(G)
      BY <2>1 DEF p
    <3>5. /\ GoodWindows(q.windows, St) /\ MoreUsed(p.windows, q.windows)
          /\ q.windows[s].used = w.used + x
          /\ \A t \in DOMAIN p.windows : t # s => q.windows[t] = p.windows[t]
      BY <3>1, <3>3, PutUsed
    <3>6. w \in [end : Span(s), invalid : Nat, used : Nat, drops : Nat] /\ s \in Starts
          /\ w.invalid = Cardinality(St \cap s .. w.end)
      BY <3>1 DEF GoodWindows
    <3>7. s \in Int /\ w.end \in Int /\ s .. w.end \subseteq Span(s)
      BY <3>6, StartsType, SpanType
    <3>8. Sets(n + 1)
      <4>1. IsFiniteSet(GapMembers(p.gap))
        BY <3>4, <1>3, FS_Subset
      <4> DEFINE P == GapMembers(p.gap)
      <4>2. Cardinality(P \ F) = Cardinality(P) - x /\ Cardinality(P) \in Nat
        <5>1. P \cap F = F
          BY <3>3
        <5> HIDE DEF P
        <5>2. Cardinality(P \ F) = Cardinality(P) - Cardinality(P \cap F)
          BY <4>1, FS_Difference DEF P
        <5> QED BY <5>1, <5>2, <3>3, <4>1, FS_CardinalityType DEF P
      <4>3. GapMembers(q.gap) \subseteq G
        BY <3>3, <3>4
      <4>4. Cardinality(GapMembers(q.gap)) + q.taken = Cardinality(G)
        BY <4>2, <3>3, <3>4, <1>3
      <4>5. q.taken \in Nat
        BY <3>3, <3>4
      <4> QED BY <4>3, <4>4, <4>5, <3>3 DEF q
    <3>9. Wins(n + 1)
      <4>1. GoodWindows(p.windows, St) /\ MoreUsed(ws, p.windows)
            /\ \A t \in DOMAIN ws : t <= n => Exhausted(GapMembers(p.gap), t, p.windows[t])
        BY <2>1 DEF p
      <4>2. MoreUsed(ws, q.windows)
        BY <4>1, <3>5, MoreUsedTransitive
      <4>3. ASSUME NEW t \in DOMAIN ws, t <= n + 1
            PROVE  Exhausted(GapMembers(q.gap), t, q.windows[t])
        <5>1. CASE t = s
          <6>1. q.windows[s].end = w.end /\ q.windows[s].invalid = w.invalid
            BY <3>1, <3>5 DEF MoreUsed
          <6>2. w.used + x = w.invalid \/ w.used + x < w.invalid
            BY <3>3, <3>6
          <6> QED BY <5>1, <6>1, <6>2, <3>3, <3>5 DEF Exhausted
        <5>2. CASE t # s
          <6>1. t <= n
            BY <5>2, <4>3, <1>2, <2>1 DEF s
          <6>2. q.windows[t] = p.windows[t]
            BY <5>2, <3>5, <4>1 DEF MoreUsed
          <6> QED BY <6>1, <6>2, <4>1, <3>3 DEF Exhausted
        <5> QED BY <5>1, <5>2
      <4> QED BY <4>2, <4>3, <3>5 DEF q
    <3>10. Blames(n + 1)
      <4> SUFFICES ASSUME NEW M, M \cap G = {}, Blame(M, ws)
                   PROVE  Blame(M \cup (G \ GapMembers(q.gap)), q.windows)
        BY DEF q
      <4> DEFINE N == M \cup (G \ GapMembers(p.gap))
                 v == [w EXCEPT !.used = w.used + x]
      <4>1. Blame(N, p.windows)
        BY <2>1 DEF p
      <4>2. F \cap N = {}
        BY <3>3, <3>4
      <4>3. M \cup (G \ GapMembers(q.gap)) = N \cup F
        BY <3>3, <3>4
      <4>4. v.end = w.end /\ v.used = UsedOf(p.windows, s) + Cardinality(F)
        BY <3>1, <3>3, <3>6 DEF UsedOf
      <4>5. F \in SUBSET (s .. v.end)
        BY <3>3, <4>4
      <4>6. q.windows = PutAt(p.windows, s, v)
        BY <3>3
      <4>7. v.end \in Int /\ p.windows[s].end \in Int /\ p.windows[s].end <= v.end /\ p.windows[s].used \in Nat
        BY <4>4, <3>6, <3>7
      <4> HIDE DEF N, v, w
      <4>8. Blame(N \cup F, PutAt(p.windows, s, v))
        BY <4>1, <4>2, <4>4, <4>5, <4>7, <3>7, BlameStep
      <4> QED BY <4>3, <4>6, <4>8
    <3>11. Credits(n + 1)
      <4> SUFFICES ASSUME NEW k \in Nat, Credit(St, k, ws) PROVE Credit(St, k + q.taken, q.windows)
        BY DEF q
      <4> DEFINE v == [w EXCEPT !.used = w.used + x]
                 m == k + p.taken
      <4>1. Credit(St, m, p.windows) /\ m \in Nat
        BY <2>1, <3>4 DEF p
      <4>2. v.used = UsedOf(p.windows, s) + x /\ UsedOf(p.windows, s) \in Nat
        BY <3>1, <3>6 DEF UsedOf
      <4>3. v.used <= Cardinality(St \cap Span(s))
        <5>1. St \cap s .. w.end \in SUBSET (St \cap Span(s))
          BY <3>7
        <5>2. IsFiniteSet(St \cap Span(s))
          <6>1. St \cap Span(s) \in SUBSET St
            OBVIOUS
          <6> QED BY <6>1, FS_Subset
        <5>3. Cardinality(St \cap s .. w.end) <= Cardinality(St \cap Span(s))
              /\ Cardinality(St \cap Span(s)) \in Nat
          BY <5>1, <5>2, FS_Subset, FS_CardinalityType
        <5> QED BY <5>3, <3>3, <3>6
      <4>4. q.windows = PutAt(p.windows, s, v) /\ k + q.taken = m + x
        BY <3>3, <3>4
      <4> HIDE DEF v, m, w
      <4>5. Credit(St, m + x, PutAt(p.windows, s, v))
        BY <4>1, <4>2, <4>3, <3>6, CreditStep
      <4> QED BY <4>4, <4>5
    <3>12. Nones(n + 1)
      BY <2>4
    <3> QED BY <3>8, <3>9, <3>10, <3>11, <3>12
  <2> QED BY <2>3, <2>4
<1>6. T = Nat
  <2>1. T \in SUBSET Nat
    OBVIOUS
  <2> HIDE DEF T
  <2> QED BY <1>4, <1>5, <2>1, SetInduction
<1>7. Done(MaxSeq)
  <2> HIDE DEF Done
  <2> QED BY <1>2, <1>6
<1>8. \A s \in DOMAIN ws : s <= MaxSeq
  BY <1>2
<1> QED
  BY <1>3, <1>7, <1>8 DEF GapWithWindows, f, G

-----------------------------------------------------------------------------
(* The inductive invariant.                                                *)

\* Frames of one fate, the fates of frames that the host should have got, and the
\* frames whose numbers are missing on it: a later one was heard.
At(ft, f) == {n \in 1 .. Len(ft) : ft[n] = f}
Unsent == {"stale", "dropped", "lost"}
AllFates == Unsent \cup {"heard", "thinned", "unheard"}
Missing(ft) == {n \in 1 .. Len(ft) : ft[n] \in Unsent /\ \E m \in At(ft, "heard") : m > n}
\* Drops that windows have reported, and frames of one fate within a window.
ReportedTo(ws, ft) == {n \in At(ft, "dropped") : \E s \in DOMAIN ws : s <= n /\ n <= ws[s].end}
InPart(ft, f, s, e) == Cardinality(At(ft, f) \cap s .. e)

\* What became of the frames.
FateOK(ft) == ft \in Seq(AllFates) /\ Len(ft) <= MaxSeq

\* Behind the last number there is no frame that was heard, and none that was thinned
\* out under another policy or sent on another link: a gap has only missing frames.
LastOK(ft, l, up, db) ==
  l # None =>
    /\ l \in 1 .. Len(ft) /\ ft[l] = "heard"
    /\ db => l % Every = 0
    /\ \A k \in (l + 1) .. Len(ft) :
         /\ ft[k] # "heard"
         /\ ft[k] = "thinned" => db /\ k % Every # 0
         /\ up => ft[k] # "unheard"

\* Open numbers are missing frames, below the last number.
GapsOK(gs, ft, l) ==
  /\ GoodGaps(gs)
  /\ AllMembers(gs) \subseteq Missing(ft)
  /\ l # None => \A n \in AllMembers(gs) : n < l

\* A window holds what the device said of its frames, and when open numbers are left in
\* it, it has explained as many frames as it could.
WindowsOK(ws, P, ft) ==
  /\ GoodWindows(ws, At(ft, "stale"))
  /\ \A s \in DOMAIN ws : /\ ws[s].end <= Len(ft)
                          /\ ws[s].drops = InPart(ft, "dropped", s, ws[s].end)
                          /\ Exhausted(P, s, ws[s])

\* What the windows explained were missing frames that are open no more.
UsedOK(ws, P, ft) == Blame(Missing(ft) \ P, ws)

\* A report under way is true, and an SF50 line covers what its window had.
WindowReport(m, ft, ws) ==
  /\ m.start \in Starts /\ m.end \in Span(m.start) /\ m.end <= Len(ft)
  /\ m.invalid = InPart(ft, "stale", m.start, m.end)
  /\ m.drops = InPart(ft, "dropped", m.start, m.end)
  /\ m.start \in DOMAIN ws => ws[m.start].end <= m.end

PerfReport(m, ft, d) ==
  /\ m.frames \in Nat /\ m.fresh \in Nat /\ m.drops \in Nat
  /\ m.frames - m.fresh <= Cardinality(At(ft, "stale"))
  /\ m.drops <= Cardinality(At(ft, "dropped"))
  /\ d # None => d.total <= m.drops

Counts == [observed : Nat, intentional : Nat, unknown : Nat, suppressed : Nat, attributed : Nat,
           windowDrops : Nat, counterDrops : Nat]

\* Every missing number is in one account.
AccountOK(c, P) ==
  /\ c \in Counts
  /\ c.observed = c.intentional + c.unknown + c.suppressed + c.attributed
  /\ Cardinality(P) <= c.unknown

\* Drops are attributed by the totals that PERF reported.
DropsOK(c, d, ft) ==
  /\ c.attributed <= c.counterDrops
  /\ d = None => c.counterDrops = 0
  /\ d # None => /\ d \in [total : Nat, seq : Nat]
                 /\ c.counterDrops <= d.total
                 /\ d.total <= Cardinality(At(ft, "dropped"))

\* The last PERF.
ReportOK(r) == r # None => r \in [published : Nat, fresh : Nat, seq : Nat, classified : Nat]

\* With PERF alone, no more frames are classified than the last reply held back.
PerfOnly(c, r, m, ft) ==
  /\ c.suppressed <= Cardinality(At(ft, "stale"))
  /\ r # None => c.suppressed <= r.published - r.fresh
  /\ (m # None /\ m.kind = "PERF") => c.suppressed <= m.frames - m.fresh

\* The numbers that are open.
P0 == AllMembers(gaps)

Flags == link \in BOOLEAN /\ debug \in BOOLEAN /\ witness \subseteq {"SF50", "PERF", "epoch"}
DiagOK == diag # None => \/ diag.kind = "SF50" /\ WindowReport(diag, fate, windows)
                         \/ diag.kind = "PERF" /\ PerfReport(diag, fate, drop)
\* What holds while no link but the first has been up.
NoEpoch == "epoch" \notin witness =>
             /\ Cardinality(P0) = count.unknown
             /\ count.windowDrops = Cardinality(ReportedTo(windows, fate))
             /\ "SF50" \notin witness => windows = <<>> /\ PerfOnly(count, report, diag, fate)
             /\ "PERF" \notin witness => Credit(At(fate, "stale"), count.suppressed, windows)

IInv ==
  /\ FateOK(fate) /\ Flags
  /\ LastOK(fate, last, link, debug)
  /\ GapsOK(gaps, fate, last)
  /\ WindowsOK(windows, P0, fate)
  /\ UsedOK(windows, P0, fate)
  /\ DiagOK
  /\ AccountOK(count, P0)
  /\ DropsOK(count, drop, fate)
  /\ ReportOK(report)
  /\ NoEpoch

-----------------------------------------------------------------------------
(* What becomes of frames.                                                 *)

\* Frames of one fate are a finite set.
LEMMA AtFinite ==
  ASSUME NEW ft, Len(ft) \in Nat, NEW f
  PROVE  /\ IsFiniteSet(At(ft, f)) /\ Cardinality(At(ft, f)) \in Nat
         /\ At(ft, f) \subseteq 1 .. Len(ft)
<1>1. IsFiniteSet(1 .. Len(ft))
  BY FS_Interval
<1>2. At(ft, f) \in SUBSET (1 .. Len(ft))
  BY DEF At
<1> QED BY <1>1, <1>2, FS_Subset, FS_CardinalityType

\* One more frame changes nothing of the earlier ones, and makes frames missing only
\* when it is heard.
LEMMA FateGrows ==
  ASSUME NEW ft, FateOK(ft), Len(ft) < MaxSeq, NEW f \in AllFates
  PROVE  LET gt == Append(ft, f)
         IN /\ FateOK(gt) /\ Len(ft) \in Nat /\ Len(gt) = Len(ft) + 1 /\ gt[Len(gt)] = f
            /\ \A n \in 1 .. Len(ft) : gt[n] = ft[n] /\ ft[n] \in AllFates
            /\ \A x : At(ft, x) \subseteq At(gt, x)
            /\ \A x : Cardinality(At(ft, x)) <= Cardinality(At(gt, x))
            /\ \A x : \A s : \A e \in Int : e <= Len(ft) => At(gt, x) \cap s .. e = At(ft, x) \cap s .. e
            /\ Missing(ft) \subseteq Missing(gt)
            /\ f # "heard" => Missing(gt) = Missing(ft)
            /\ f = "heard" => Missing(gt) = {n \in 1 .. Len(ft) : ft[n] \in Unsent}
<1> DEFINE gt == Append(ft, f)
<1>1. ft \in Seq(AllFates) /\ Len(ft) \in Nat /\ Len(ft) <= MaxSeq /\ MaxSeq \in Nat
  BY BoundsAssumption DEF FateOK
<1>2. gt \in Seq(AllFates) /\ Len(gt) = Len(ft) + 1 /\ gt[Len(gt)] = f
      /\ \A n \in 1 .. Len(ft) : gt[n] = ft[n] /\ ft[n] \in AllFates
  BY <1>1
<1>3. FateOK(gt)
  BY <1>1, <1>2 DEF FateOK
<1> HIDE DEF gt
<1>4. ASSUME NEW x PROVE At(ft, x) \subseteq At(gt, x) /\ Cardinality(At(ft, x)) <= Cardinality(At(gt, x))
  <2>1. At(ft, x) \in SUBSET At(gt, x)
    BY <1>1, <1>2 DEF At
  <2>2. IsFiniteSet(At(gt, x))
    BY <1>1, <1>2, AtFinite
  <2> QED BY <2>1, <2>2, FS_Subset
<1>5. ASSUME NEW x, NEW s, NEW e \in Int, e <= Len(ft)
      PROVE  At(gt, x) \cap s .. e = At(ft, x) \cap s .. e
  <2>1. \A n \in s .. e : n \in Int /\ n <= e
    OBVIOUS
  <2> QED BY <1>1, <1>2, <1>5, <2>1 DEF At
<1>6. Missing(ft) \subseteq Missing(gt)
  BY <1>1, <1>2, <1>4 DEF Missing
<1>7. f # "heard" => Missing(gt) = Missing(ft)
  <2> SUFFICES ASSUME f # "heard" PROVE Missing(gt) \subseteq Missing(ft)
    BY <1>6
  <2>1. At(gt, "heard") = At(ft, "heard")
    BY <1>1, <1>2 DEF At
  <2>2. ASSUME NEW n \in Missing(gt) PROVE n \in Missing(ft)
    <3>1. PICK m \in At(ft, "heard") : m > n
      BY <2>1, <2>2 DEF Missing
    <3>2. n \in 1 .. Len(gt) /\ m \in 1 .. Len(ft) /\ gt[n] \in Unsent
      BY <3>1, <2>2 DEF Missing, At
    <3>3. n \in 1 .. Len(ft)
      BY <3>1, <3>2, <1>1, <1>2
    <3> QED BY <3>1, <3>2, <3>3, <1>2 DEF Missing
  <2> QED BY <2>2
<1>8. f = "heard" => Missing(gt) = {n \in 1 .. Len(ft) : ft[n] \in Unsent}
  <2> SUFFICES ASSUME f = "heard" PROVE Missing(gt) = {n \in 1 .. Len(ft) : ft[n] \in Unsent}
    OBVIOUS
  <2>1. Len(gt) \in At(gt, "heard")
    BY <1>1, <1>2 DEF At
  <2>2. ASSUME NEW n \in 1 .. Len(ft), ft[n] \in Unsent PROVE n \in Missing(gt)
    <3>1. n \in 1 .. Len(gt) /\ Len(gt) > n /\ gt[n] \in Unsent
      BY <2>2, <1>1, <1>2
    <3> QED BY <3>1, <2>1 DEF Missing
  <2>3. ASSUME NEW n \in Missing(gt) PROVE n \in 1 .. Len(ft) /\ ft[n] \in Unsent
    <3>1. n \in 1 .. Len(gt) /\ gt[n] \in Unsent
      BY <2>3 DEF Missing
    <3>2. n # Len(gt)
      BY <3>1, <1>2 DEF Unsent
    <3>3. n \in 1 .. Len(ft)
      BY <3>1, <3>2, <1>1, <1>2
    <3> QED BY <3>1, <3>3, <1>2
  <2> QED BY <2>2, <2>3
<1> QED
  BY <1>1, <1>2, <1>3, <1>4, <1>5, <1>6, <1>7, <1>8 DEF gt

\* Missing frames are frames of the device.
LEMMA MissingType ==
  ASSUME NEW ft, FateOK(ft)
  PROVE  /\ Len(ft) \in Nat /\ Len(ft) <= MaxSeq /\ IsFiniteSet(Missing(ft))
         /\ \A n \in Missing(ft) : n \in 1 .. Len(ft) /\ ft[n] \in Unsent
<1>1. Len(ft) \in Nat /\ Len(ft) <= MaxSeq
  BY DEF FateOK
<1>2. Missing(ft) \in SUBSET (1 .. Len(ft)) /\ IsFiniteSet(1 .. Len(ft))
  BY <1>1, FS_Interval DEF Missing
<1>3. IsFiniteSet(Missing(ft))
  BY <1>2, FS_Subset
<1> QED BY <1>1, <1>3 DEF Missing

\* More frames that may be classified.
LEMMA CreditGrows ==
  ASSUME NEW St, NEW Su, St \subseteq Su, NEW n, NEW ws, Credit(St, n, ws)
  PROVE  Credit(Su, n, ws)
  BY DEF Credit

\* The windows after a frame that they do not cover.
LEMMA WindowsKept ==
  ASSUME NEW ft, FateOK(ft), Len(ft) < MaxSeq, NEW f \in AllFates, NEW P, NEW ws, WindowsOK(ws, P, ft)
  PROVE  LET gt == Append(ft, f)
         IN /\ WindowsOK(ws, P, gt)
            /\ ReportedTo(ws, gt) = ReportedTo(ws, ft)
<1> DEFINE gt == Append(ft, f)
<1>1. /\ Len(ft) \in Nat /\ Len(gt) = Len(ft) + 1
      /\ \A x : \A s : \A e \in Int : e <= Len(ft) => At(gt, x) \cap s .. e = At(ft, x) \cap s .. e
  BY FateGrows
<1> HIDE DEF gt
<1>2. \A s \in DOMAIN ws : s \in Starts /\ ws[s].end \in Int /\ ws[s].end <= Len(ft)
  <2>1. \A s \in DOMAIN ws : s \in Starts /\ ws[s].end \in Span(s) /\ ws[s].end <= Len(ft)
    BY DEF WindowsOK, GoodWindows
  <2> QED BY <2>1, SpanType
<1>3. ASSUME NEW s \in DOMAIN ws, NEW x PROVE At(gt, x) \cap s .. ws[s].end = At(ft, x) \cap s .. ws[s].end
  BY <1>1, <1>2
<1>4. GoodWindows(ws, At(gt, "stale"))
  BY <1>3 DEF WindowsOK, GoodWindows
<1>5. \A s \in DOMAIN ws : /\ ws[s].end <= Len(gt)
                           /\ ws[s].drops = InPart(gt, "dropped", s, ws[s].end)
                           /\ Exhausted(P, s, ws[s])
  <2> SUFFICES ASSUME NEW s \in DOMAIN ws
               PROVE /\ ws[s].end <= Len(gt)
                     /\ ws[s].drops = InPart(gt, "dropped", s, ws[s].end)
                     /\ Exhausted(P, s, ws[s])
    OBVIOUS
  <2>1. ws[s].end <= Len(gt)
    BY <1>1, <1>2
  <2>2. ws[s].drops = InPart(ft, "dropped", s, ws[s].end) /\ Exhausted(P, s, ws[s])
    BY DEF WindowsOK
  <2> QED BY <2>1, <2>2, <1>3 DEF InPart
<1>6. ReportedTo(ws, gt) = ReportedTo(ws, ft)
  <2>0. \A t, n : (n \in ReportedTo(ws, t) <=>
            n \in Int /\ \E s \in DOMAIN ws : n \in At(t, "dropped") \cap s .. ws[s].end)
    <3>1. \A t : \A n \in At(t, "dropped") : n \in Int
      BY DEF At
    <3> SUFFICES ASSUME NEW t, NEW n
                 PROVE n \in ReportedTo(ws, t) <=>
                       n \in Int /\ \E s \in DOMAIN ws : n \in At(t, "dropped") \cap s .. ws[s].end
      OBVIOUS
    <3>2. n \in Int => \A s \in DOMAIN ws : (s <= n /\ n <= ws[s].end) <=> n \in s .. ws[s].end
      BY <1>2, StartsType
    <3> QED BY <3>1, <3>2 DEF ReportedTo
  <2>1. \A n : n \in ReportedTo(ws, gt) <=> n \in ReportedTo(ws, ft)
    <3> SUFFICES ASSUME NEW n PROVE n \in ReportedTo(ws, gt) <=> n \in ReportedTo(ws, ft)
      OBVIOUS
    <3>1. n \in ReportedTo(ws, gt) <=>
            n \in Int /\ \E s \in DOMAIN ws : n \in At(gt, "dropped") \cap s .. ws[s].end
      BY <2>0
    <3>2. n \in ReportedTo(ws, ft) <=>
            n \in Int /\ \E s \in DOMAIN ws : n \in At(ft, "dropped") \cap s .. ws[s].end
      BY <2>0
    <3> QED BY <3>1, <3>2, <1>3
  <2> QED BY <2>1
<1> QED
  BY <1>4, <1>5, <1>6 DEF WindowsOK, gt

-----------------------------------------------------------------------------
(* Init, and the steps that leave the frames and their accounts alone.     *)

\* A store without windows, as at the start and on a new link.
LEMMA NoWindows ==
  /\ DOMAIN <<>> = {}
  /\ \A P, ft : WindowsOK(<<>>, P, ft)
  /\ \A ft : ReportedTo(<<>>, ft) = {}
  /\ \A M : Blame(M, <<>>)
  /\ \A St : Credit(St, 0, <<>>)
<1> DEFINE e == <<>>
<1>1. DOMAIN e = {} /\ e \in [{} -> {}]
  OBVIOUS
<1> HIDE DEF e
<1>2. \A P, ft : WindowsOK(e, P, ft)
  BY <1>1 DEF WindowsOK, GoodWindows
<1>3. \A ft : ReportedTo(e, ft) = {}
  BY <1>1 DEF ReportedTo
<1>4. ASSUME NEW M PROVE Blame(M, e)
  <2> DEFINE E == [s \in DOMAIN e |-> {}]
  <2>1. E \in [DOMAIN e -> SUBSET M]
    OBVIOUS
  <2> HIDE DEF E
  <2> QED BY <1>1, <2>1 DEF Blame
<1>5. ASSUME NEW St PROVE Credit(St, 0, e)
  <2>1. {} \in SUBSET St /\ Cardinality({}) = 0
    BY FS_EmptySet
  <2>2. \A s \in Starts : Cardinality({} \cap Span(s)) = UsedOf(e, s)
    <3>1. \A S : {} \cap S = {}
      OBVIOUS
    <3> QED BY <1>1, <2>1, <3>1 DEF UsedOf
  <2> QED BY <2>1, <2>2 DEF Credit
<1> QED
  BY <1>1, <1>2, <1>3, <1>4, <1>5 DEF e

\* The invariant holds at first.
LEMMA InitInv == Init => IInv
<1> SUFFICES ASSUME Init PROVE IInv
  OBVIOUS
<1> USE DEF Init
<1>1. P0 = {} /\ Cardinality({}) = 0
  BY NoGaps, FS_EmptySet DEF P0
<1>2. \A f : At(fate, f) = {}
  BY DEF At
<1>3. FateOK(fate) /\ Flags
  <2>1. MaxSeq \in Nat
    BY BoundsAssumption
  <2>2. <<>> \in Seq(AllFates) /\ Len(<<>>) = 0
    OBVIOUS
  <2>3. FateOK(<<>>)
    BY ONLY <2>1, <2>2 DEF FateOK
  <2>4. Flags
    BY DEF Flags
  <2> QED BY <2>3, <2>4
<1>4. LastOK(fate, last, link, debug)
  BY DEF LastOK
<1>5. GapsOK(gaps, fate, last)
  BY NoGaps, <1>1 DEF GapsOK, P0
<1>6. WindowsOK(windows, P0, fate) /\ UsedOK(windows, P0, fate)
  BY NoWindows DEF UsedOK
<1>7. DiagOK /\ ReportOK(report)
  BY DEF DiagOK, ReportOK
<1>8. AccountOK(count, P0) /\ DropsOK(count, drop, fate)
  BY <1>1 DEF AccountOK, DropsOK, ZeroCounts, Counts
<1>9. NoEpoch
  <2>1. Cardinality(P0) = count.unknown /\ count.windowDrops = Cardinality(ReportedTo(windows, fate))
    BY <1>1, NoWindows DEF ZeroCounts
  <2>2. PerfOnly(count, report, diag, fate)
    <3>1. Cardinality(At(fate, "stale")) = 0 /\ count.suppressed = 0
      BY <1>1, <1>2 DEF ZeroCounts
    <3>2. report = None /\ diag = None
      OBVIOUS
    <3> QED BY ONLY <3>1, <3>2 DEF PerfOnly
  <2>3. Credit(At(fate, "stale"), count.suppressed, windows)
    BY NoWindows DEF ZeroCounts
  <2> QED BY <2>1, <2>2, <2>3 DEF NoEpoch
<1> QED
  BY <1>3, <1>4, <1>5, <1>6, <1>7, <1>8, <1>9 DEF IInv

\* It is kept by a step that changes nothing,
LEMMA StutterInv == IInv /\ UNCHANGED vars => IInv'
  BY DEF IInv, vars, device, store, Flags, DiagOK, NoEpoch, P0

\* by a change of the output policy, which forgets the last number and the last PERF,
LEMMA SetPolicyInv == IInv /\ SetPolicy => IInv'
<1> SUFFICES ASSUME IInv, SetPolicy PROVE IInv'
  OBVIOUS
<1>1. /\ UNCHANGED <<fate, link, diag, gaps, windows, drop, count, witness>> /\ P0' = P0
      /\ last' = None /\ report' = None /\ debug' \in BOOLEAN
  BY DEF SetPolicy, P0, IInv, Flags
<1>2. PerfOnly(count, report, diag, fate) => PerfOnly(count', report', diag', fate')
  BY <1>1 DEF PerfOnly
<1>3. NoEpoch'
  BY <1>1, <1>2 DEF IInv, NoEpoch
<1>4. LastOK(fate, last, link, debug)' /\ GapsOK(gaps, fate, last)' /\ ReportOK(report)'
  BY <1>1 DEF IInv, LastOK, GapsOK, ReportOK
<1> QED
  BY <1>1, <1>3, <1>4 DEF IInv, Flags, DiagOK

\* by a link that breaks, with the report under way,
LEMMA BreakInv == IInv /\ Break => IInv'
<1> SUFFICES ASSUME IInv, Break PROVE IInv'
  OBVIOUS
<1>1. /\ UNCHANGED <<fate, debug, last, gaps, windows, report, drop, count, witness>> /\ P0' = P0
      /\ link' = FALSE /\ diag' = None
  BY DEF Break, store, P0
<1>2. PerfOnly(count, report, diag, fate) => PerfOnly(count', report', diag', fate')
  BY <1>1 DEF PerfOnly
<1>3. NoEpoch'
  BY <1>1, <1>2 DEF IInv, NoEpoch
<1>4. LastOK(fate, last, link, debug)' /\ DiagOK'
  BY <1>1 DEF IInv, LastOK, DiagOK
<1> QED
  BY <1>1, <1>3, <1>4 DEF IInv, Flags

\* and by a new link, with which the store begins again but for its counters.
LEMMA ReconnectInv == IInv /\ Reconnect => IInv'
<1> SUFFICES ASSUME IInv, Reconnect PROVE IInv'
  OBVIOUS
<1>1. /\ UNCHANGED <<fate, debug, diag, drop, count>> /\ witness' = witness \cup {"epoch"}
      /\ last' = None /\ report' = None /\ gaps' = <<>> /\ windows' = <<>> /\ link' = TRUE
  BY DEF Reconnect
<1>2. P0' = {} /\ Cardinality({}) = 0
  BY <1>1, NoGaps, FS_EmptySet DEF P0
<1>3. Flags' /\ LastOK(fate, last, link, debug)' /\ ReportOK(report)' /\ NoEpoch'
  BY <1>1 DEF IInv, Flags, LastOK, ReportOK, NoEpoch
<1>4. GapsOK(gaps, fate, last)'
  BY <1>1, NoGaps DEF GapsOK
<1>5. WindowsOK(windows, P0, fate)' /\ UsedOK(windows, P0, fate)'
  BY <1>1, NoWindows DEF UsedOK
<1>6. DiagOK'
  <2>1. CASE diag = None
    BY <1>1, <2>1 DEF DiagOK
  <2>2. CASE diag # None /\ diag.kind = "SF50" /\ WindowReport(diag, fate, windows)
    BY <1>1, <2>2, NoWindows DEF DiagOK, WindowReport
  <2>3. CASE diag # None /\ diag.kind = "PERF" /\ PerfReport(diag, fate, drop)
    BY <1>1, <2>3 DEF DiagOK
  <2> QED BY <2>1, <2>2, <2>3 DEF IInv, DiagOK
<1>7. AccountOK(count, P0)'
  BY <1>1, <1>2 DEF IInv, AccountOK, Counts
<1> QED
  BY <1>1, <1>3, <1>4, <1>5, <1>6, <1>7 DEF IInv

\* The frames of the model and of the invariant.
LEMMA FramesAt == \A f : Frames(f) = At(fate, f)
  BY DEF Frames, At, Seq0

\* An SF50 line says what its window holds so far.
LEMMA SendWindowInv == IInv /\ SendWindow => IInv'
<1> SUFFICES ASSUME IInv, SendWindow PROVE IInv'
  OBVIOUS
<1> DEFINE n == Len(fate)
           r == (n - 1) % WindowSize
           start == n - r
<1>1. n \in Nat /\ n <= MaxSeq /\ n > 0 /\ WindowSize \in Nat \ {0}
  BY SizesAssumption DEF IInv, FateOK, SendWindow, Seq0
<1>2. start \in Starts /\ n \in Span(start)
  <2> HIDE DEF n
  <2> DEFINE q == (n - 1) \div WindowSize
  <2>1. n - 1 \in Int
    BY <1>1
  <2>2. q \in Int /\ r \in 0 .. (WindowSize - 1) /\ n - 1 = q * WindowSize + r
    BY <1>1, <2>1, Division
  <2>3. q * WindowSize \in Int
    BY <1>1, <2>2
  <2> DEFINE y == q * WindowSize
  <2>4. y >= 0
    <3>1. q >= 0
      <4>1. q < 0 => y <= (-1) * WindowSize
        BY <1>1, <2>2, ProductMonotone
      <4> HIDE DEF y, q, r
      <4>2. (-1) * WindowSize = - WindowSize
        BY <1>1
      <4>3. y \in Int /\ n - 1 = y + r
        BY <2>2, <2>3 DEF y
      <4> QED BY <1>1, <2>2, <4>1, <4>2, <4>3
    <3> QED BY <3>1, <1>1, <2>2, ProductMonotone
  <2>5. (0 + q * WindowSize) % WindowSize = 0 % WindowSize
    BY <1>1, <2>2, Shifted
  <2>6. 0 % WindowSize = 0
    BY <1>1
  <2>7. y % WindowSize = 0
    BY <2>3, <2>5, <2>6
  <2> HIDE DEF y, q, r
  <2>8. y \in Int /\ n - 1 = y + r
    BY <2>2, <2>3 DEF y
  <2>9. start - 1 = y /\ start \in 1 .. MaxSeq /\ n \in start .. (start + WindowSize - 1)
    <3>1. MaxSeq \in Nat
      BY BoundsAssumption
    <3> QED BY <1>1, <2>2, <2>4, <2>8, <3>1
  <2> HIDE DEF start
  <2> QED BY <2>7, <2>9 DEF Starts, Span
<1>3. \A f : InWindow(start, f) = InPart(fate, f, start, n)
  <2> HIDE DEF start
  <2>1. start \in Int
    BY <1>2, StartsType
  <2>2. ASSUME NEW f PROVE {k \in Frames(f) : k >= start} = At(fate, f) \cap start .. n
    BY <1>1, <2>1, FramesAt DEF At
  <2> QED BY <2>2 DEF InWindow, InPart
<1>4. /\ UNCHANGED <<fate, link, debug, last, gaps, windows, report, drop, count, witness>> /\ P0' = P0
      /\ diag = None
      /\ diag' = [kind |-> "SF50", start |-> start, end |-> n,
                  invalid |-> InWindow(start, "stale"), drops |-> InWindow(start, "dropped")]
  BY DEF SendWindow, Seq0, store, P0
<1> HIDE DEF start
<1>5. DiagOK'
  <2>1. \A s \in DOMAIN windows : windows[s].end <= n
    BY DEF IInv, WindowsOK
  <2>2. diag'.kind = "SF50" /\ WindowReport(diag', fate, windows)
    BY <1>2, <1>3, <1>4, <2>1 DEF WindowReport
  <2> QED BY <1>4, <2>2 DEF DiagOK
<1>6. PerfOnly(count, report, diag, fate) => PerfOnly(count', report', diag', fate')
  BY <1>4 DEF PerfOnly
<1>7. NoEpoch'
  BY <1>4, <1>6 DEF IInv, NoEpoch
<1> QED
  BY <1>4, <1>5, <1>7 DEF IInv, Flags

\* A PERF reply says what happened since boot.
LEMMA SendPerfInv == IInv /\ SendPerf => IInv'
<1> SUFFICES ASSUME IInv, SendPerf PROVE IInv'
  OBVIOUS
<1> DEFINE n == Len(fate)
           a == Cardinality(At(fate, "stale"))
           b == Cardinality(At(fate, "dropped"))
<1>1. n \in Nat
  BY DEF IInv, FateOK
<1>2. a \in Nat /\ b \in Nat /\ a <= n
  <2>1. At(fate, "stale") \in SUBSET (1 .. n)
    BY DEF At
  <2>2. IsFiniteSet(1 .. n) /\ Cardinality(1 .. n) = n
    <3> HIDE DEF n
    <3> QED BY ONLY <1>1, FS_Interval
  <2> QED BY <1>1, <2>1, <2>2, AtFinite, FS_Subset
<1>3. /\ UNCHANGED <<fate, link, debug, last, gaps, windows, report, drop, count, witness>> /\ P0' = P0
      /\ diag = None
      /\ diag' = [kind |-> "PERF", frames |-> n, fresh |-> n - a, drops |-> b]
  BY FramesAt DEF SendPerf, Seq0, store, P0
<1>4. drop # None => drop.total <= b
  BY DEF IInv, DropsOK
<1> HIDE DEF n, a, b
<1>5. n - a \in Nat /\ n - (n - a) = a /\ diag'.frames - diag'.fresh = a
  BY <1>1, <1>2, <1>3
<1>6. DiagOK'
  <2>1. /\ diag'.frames \in Nat /\ diag'.fresh \in Nat /\ diag'.drops \in Nat
        /\ diag'.frames - diag'.fresh <= a /\ diag'.drops <= b
        /\ drop # None => drop.total <= diag'.drops
    BY <1>1, <1>2, <1>3, <1>4, <1>5
  <2>2. diag'.kind = "PERF" /\ PerfReport(diag', fate, drop)
    BY <1>3, <2>1 DEF PerfReport, a, b
  <2> QED BY <1>3, <2>2 DEF DiagOK
<1>7. PerfOnly(count, report, diag, fate) => PerfOnly(count', report', diag', fate')
  <2> SUFFICES ASSUME PerfOnly(count, report, diag, fate) PROVE PerfOnly(count, report, diag', fate)
    BY <1>3
  <2> QED BY <1>5 DEF PerfOnly, a
<1>8. NoEpoch'
  BY <1>3, <1>7 DEF IInv, NoEpoch
<1> QED
  BY <1>3, <1>6, <1>8 DEF IInv, Flags

-----------------------------------------------------------------------------
(* Frames.                                                                 *)

\* What a report said stays true when more frames follow.
LEMMA ReportsKept ==
  ASSUME NEW ft, FateOK(ft), Len(ft) < MaxSeq, NEW f \in AllFates
  PROVE  LET gt == Append(ft, f)
         IN /\ \A m, ws : WindowReport(m, ft, ws) => WindowReport(m, gt, ws)
            /\ \A m, d : PerfReport(m, ft, d) => PerfReport(m, gt, d)
            /\ \A c, d : DropsOK(c, d, ft) => DropsOK(c, d, gt)
            /\ \A c \in Counts : \A p, m : PerfOnly(c, p, m, ft) => PerfOnly(c, p, m, gt)
<1> DEFINE gt == Append(ft, f)
<1>1. /\ Len(ft) \in Nat /\ Len(gt) = Len(ft) + 1
      /\ \A x : Cardinality(At(ft, x)) <= Cardinality(At(gt, x))
      /\ \A x : \A s : \A e \in Int : e <= Len(ft) => At(gt, x) \cap s .. e = At(ft, x) \cap s .. e
  BY FateGrows
<1> HIDE DEF gt
<1>2. \A x : Cardinality(At(ft, x)) \in Nat /\ Cardinality(At(gt, x)) \in Nat
  BY <1>1, AtFinite
<1>3. ASSUME NEW m, NEW ws, WindowReport(m, ft, ws) PROVE WindowReport(m, gt, ws)
  <2>1. m.end \in Int /\ m.end <= Len(ft) /\ m.end <= Len(gt)
    <3>1. m.start \in Starts /\ m.end \in Span(m.start) /\ m.end <= Len(ft)
      BY <1>3 DEF WindowReport
    <3>2. m.end \in Int
      BY <3>1, SpanType
    <3> QED BY <3>1, <3>2, <1>1
  <2>2. \A x : InPart(gt, x, m.start, m.end) = InPart(ft, x, m.start, m.end)
    BY <1>1, <2>1 DEF InPart
  <2> QED BY <1>3, <2>1, <2>2 DEF WindowReport
<1>4. ASSUME NEW m, NEW d, PerfReport(m, ft, d) PROVE PerfReport(m, gt, d)
  BY <1>1, <1>2, <1>4 DEF PerfReport
<1>5. ASSUME NEW c, NEW d, DropsOK(c, d, ft) PROVE DropsOK(c, d, gt)
  <2>1. d # None => d.total \in Nat
    BY <1>5 DEF DropsOK
  <2> QED BY <1>1, <1>2, <1>5, <2>1 DEF DropsOK
<1>6. ASSUME NEW c \in Counts, NEW p, NEW m, PerfOnly(c, p, m, ft) PROVE PerfOnly(c, p, m, gt)
  <2>1. c.suppressed \in Nat
    BY DEF Counts
  <2> QED BY <1>1, <1>2, <1>6, <2>1 DEF PerfOnly
<1> QED
  BY <1>3, <1>4, <1>5, <1>6 DEF gt

\* A frame that the host does not hear changes nothing of the store.
LEMMA UnheardFrameInv ==
  ASSUME IInv, Len(fate) < MaxSeq, NEW f \in Fates, f # "heard", fate' = Append(fate, f),
         UNCHANGED <<link, debug, diag, store, witness>>
  PROVE  IInv'
<1>1. f \in AllFates
  BY DEF Fates, Losses, AllFates, Unsent
<1>2. FateOK(fate)
  BY DEF IInv
<1>3. /\ FateOK(fate') /\ Len(fate) \in Nat /\ Len(fate') = Len(fate) + 1 /\ fate'[Len(fate')] = f
      /\ \A n \in 1 .. Len(fate) : fate'[n] = fate[n]
      /\ \A x : At(fate, x) \subseteq At(fate', x)
      /\ Missing(fate') = Missing(fate)
  BY <1>1, <1>2, FateGrows
<1>4. /\ UNCHANGED <<link, debug, diag, last, gaps, windows, report, drop, count, witness>> /\ P0' = P0
  BY DEF store, P0
<1>5. WindowsOK(windows, P0, fate') /\ ReportedTo(windows, fate') = ReportedTo(windows, fate)
  <2>1. WindowsOK(windows, P0, fate)
    BY DEF IInv
  <2> QED BY <2>1, <1>1, <1>2, WindowsKept
<1>6. /\ \A m, ws : WindowReport(m, fate, ws) => WindowReport(m, fate', ws)
      /\ \A m, d : PerfReport(m, fate, d) => PerfReport(m, fate', d)
      /\ \A c, d : DropsOK(c, d, fate) => DropsOK(c, d, fate')
      /\ \A c \in Counts : \A p, m : PerfOnly(c, p, m, fate) => PerfOnly(c, p, m, fate')
  BY <1>1, <1>2, ReportsKept
<1>7. LastOK(fate', last, link, debug)
  <2> SUFFICES ASSUME last # None PROVE LastOK(fate', last, link, debug)
    BY DEF LastOK
  <2>1. /\ last \in 1 .. Len(fate) /\ fate[last] = "heard"
        /\ \A k \in (last + 1) .. Len(fate) :
             /\ fate[k] # "heard" /\ (fate[k] = "thinned" => debug /\ k % Every # 0)
             /\ link => fate[k] # "unheard"
    BY DEF IInv, LastOK
  <2>2. f = "thinned" => debug /\ Len(fate') % Every # 0
    BY <1>3 DEF Fates, Losses, Seq0
  <2>3. link => f # "unheard"
    BY DEF Fates, Losses
  <2>4. ASSUME NEW k \in (last + 1) .. Len(fate')
        PROVE  /\ fate'[k] # "heard" /\ (fate'[k] = "thinned" => debug /\ k % Every # 0)
               /\ link => fate'[k] # "unheard"
    <3>1. CASE k = Len(fate')
      BY <3>1, <1>3, <2>2, <2>3
    <3>2. CASE k # Len(fate')
      <4>1. k \in (last + 1) .. Len(fate) /\ k \in 1 .. Len(fate)
        BY <3>2, <2>1, <1>3
      <4> QED BY <4>1, <2>1, <1>3
    <3> QED BY <3>1, <3>2
  <2>5. last \in 1 .. Len(fate') /\ fate'[last] = "heard" /\ (debug => last % Every = 0)
    <3>1. debug => last % Every = 0
      BY DEF IInv, LastOK
    <3> QED BY <1>3, <2>1, <3>1
  <2> QED BY <2>4, <2>5 DEF LastOK
<1>8. GapsOK(gaps, fate', last) /\ UsedOK(windows, P0, fate')
  BY <1>3 DEF IInv, GapsOK, UsedOK
<1>9. DiagOK' /\ DropsOK(count, drop, fate')
  BY <1>4, <1>6 DEF IInv, DiagOK
<1>10. NoEpoch'
  <2>1. Credit(At(fate, "stale"), count.suppressed, windows)
          => Credit(At(fate', "stale"), count.suppressed, windows)
    BY <1>3, CreditGrows
  <2>2. PerfOnly(count, report, diag, fate) => PerfOnly(count, report, diag, fate')
    BY <1>6 DEF IInv, AccountOK
  <2> QED BY <1>4, <1>5, <2>1, <2>2 DEF IInv, NoEpoch
<1> QED
  BY <1>3, <1>4, <1>5, <1>7, <1>8, <1>9, <1>10 DEF IInv, Flags

CandidatesOf(l, n, db) ==
  IF db THEN Segment(l + 1, n - 1, Every, l % Every) ELSE Segment(l + 1, n - 1, 1, 0)

\* The numbers of a new gap are frames that the device did not deliver.
LEMMA GapCandidates ==
  ASSUME NEW ft, FateOK(ft), NEW l, l # None, NEW up, up, NEW db \in BOOLEAN, LastOK(ft, l, up, db),
         l < Len(ft), Len(ft) < MaxSeq
  PROVE  LET n == Len(ft) + 1
             c == CandidatesOf(l, n, db)
         IN /\ GoodGap(<<c>>) /\ GapMembers(<<c>>) = Members(c)
            /\ IsFiniteSet(Members(c)) /\ Size(c) = Cardinality(Members(c))
            /\ Size(c) \in 0 .. (n - l - 1)
            /\ \A k \in Members(c) : k \in 1 .. Len(ft) /\ k > l /\ ft[k] \in Unsent
            /\ Members(c) \cap Missing(ft) = {}
<1> DEFINE n == Len(ft) + 1
           c == CandidatesOf(l, n, db)
<1>1. ft \in Seq(AllFates) /\ Len(ft) \in Nat /\ MaxSeq \in Nat /\ Every \in Nat \ {0, 1}
  BY BoundsAssumption, SizesAssumption DEF FateOK
<1>2. /\ l \in 1 .. Len(ft) /\ (db => l % Every = 0)
      /\ \A k \in (l + 1) .. Len(ft) : ft[k] # "heard" /\ (ft[k] = "thinned" => db /\ k % Every # 0)
                                       /\ ft[k] # "unheard"
  <2>1. db => l % Every = 0
    BY DEF LastOK
  <2> QED BY <2>1 DEF LastOK
<1>3. l % Every \in 0 .. Every
  BY <1>1, <1>2
<1>4. /\ c.start = l + 1 /\ c.end = n - 1
      /\ db => c.step = Every /\ c.phase = l % Every
      /\ ~db => c.step = 1 /\ c.phase = 0
  BY DEF Segment, CandidatesOf
<1>5. c \in Segs
  <2>1. l + 1 \in 1 .. MaxSeq /\ n - 1 \in 1 .. MaxSeq /\ 0 \in 0 .. Every
    BY <1>1, <1>2
  <2> QED BY <1>3, <2>1 DEF Segment, Segs, CandidatesOf
<1> HIDE DEF c
<1>6. c.start \in Int /\ c.end \in Int /\ c.phase \in Int /\ c.step \in Nat \ {0}
  BY <1>5, SegTypes
<1>7. IsFiniteSet(Members(c)) /\ Size(c) = Cardinality(Members(c)) /\ Size(c) \in Nat
  BY <1>6, SizeCounts
<1>8. GoodGap(<<c>>) /\ GapMembers(<<c>>) = Members(c)
  <2> DEFINE g == <<c>>
  <2>1. g \in Seq(Segs) /\ DOMAIN g = {1} /\ g[1] = c
    BY <1>5
  <2> HIDE DEF g
  <2>2. GoodGap(g) /\ GapMembers(g) = Members(c)
    BY <2>1 DEF GoodGap, Disjoint, GapMembers
  <2> QED BY <2>2 DEF g
<1>9. ASSUME NEW k \in Members(c)
      PROVE  k \in (l + 1) .. Len(ft) /\ k \in 1 .. Len(ft) /\ k > l /\ ft[k] \in Unsent
  <2>1. k \in (l + 1) .. (n - 1) /\ k % c.step = c.phase % c.step
    BY <1>4 DEF Members
  <2>2. k \in (l + 1) .. Len(ft) /\ k \in 1 .. Len(ft) /\ k > l
    BY <1>1, <1>2, <2>1
  <2>3. ft[k] # "thinned"
    <3>1. CASE db
      <4>1. l % Every = 0 /\ 0 % Every = 0
        BY <1>1, <1>2, <3>1
      <4>2. k % Every = 0
        BY <1>4, <2>1, <3>1, <4>1
      <4> QED BY <1>2, <2>2, <4>2
    <3>2. CASE ~db
      BY <1>2, <2>2, <3>2
    <3> QED BY <3>1, <3>2
  <2>4. ft[k] \in AllFates
    BY <1>1, <2>2
  <2> QED BY <1>2, <2>2, <2>3, <2>4 DEF AllFates
<1>10. Size(c) <= n - l - 1
  <2>1. Members(c) \in SUBSET ((l + 1) .. Len(ft))
    BY <1>9
  <2>2. IsFiniteSet((l + 1) .. Len(ft)) /\ Cardinality((l + 1) .. Len(ft)) = Len(ft) - l
    <3>1. l + 1 \in Int /\ Len(ft) \in Int /\ l + 1 <= Len(ft)
      BY <1>1, <1>2
    <3>2. Cardinality((l + 1) .. Len(ft)) = Len(ft) - (l + 1) + 1 /\ IsFiniteSet((l + 1) .. Len(ft))
      BY <3>1, FS_Interval
    <3> QED BY <3>1, <3>2, <1>2
  <2>3. Cardinality(Members(c)) <= Cardinality((l + 1) .. Len(ft))
    BY <2>1, <2>2, FS_Subset
  <2> QED BY <1>1, <1>2, <1>7, <2>2, <2>3
<1>11. Members(c) \cap Missing(ft) = {}
  <2> SUFFICES ASSUME NEW k \in Members(c), k \in Missing(ft) PROVE FALSE
    OBVIOUS
  <2>1. PICK m \in At(ft, "heard") : m > k
    BY DEF Missing
  <2>2. m \in 1 .. Len(ft) /\ ft[m] = "heard"
    BY DEF At
  <2>3. m \in (l + 1) .. Len(ft)
    BY <1>1, <1>2, <1>9, <2>1, <2>2
  <2> QED BY <1>2, <2>2, <2>3
<1>12. Size(c) \in 0 .. (n - l - 1)
  BY <1>1, <1>2, <1>7, <1>10
<1> QED
  BY <1>7, <1>8, <1>9, <1>11, <1>12 DEF c

\* A frame that is heard becomes the last one, on a link that is up.
LEMMA HeardLast ==
  ASSUME IInv, "heard" \in Fates, fate' = Append(fate, "heard"), last' = Len(fate) + 1,
         Len(fate) < MaxSeq, UNCHANGED <<link, debug>>
  PROVE  LastOK(fate', last', link', debug') /\ link
<1>1. link /\ (debug => Len(fate) + 1 \in Nat /\ (Len(fate) + 1) % Every = 0)
  <2>1. FateOK(fate)
    BY DEF IInv
  <2>2. Len(fate) \in Nat
    BY <2>1 DEF FateOK
  <2>3. Len(fate) + 1 \in Nat
    BY <2>2
  <2>4. "heard" \in IF debug /\ (Seq0 + 1) % Every # 0 THEN {"thinned"}
             ELSE IF ~link THEN {"unheard"} \cup (Losses \ {"lost"}) ELSE {"heard"} \cup Losses
    BY DEF Fates
  <2>5. Losses \subseteq {"lost", "dropped"}
    BY DEF Losses
  <2>6. ~(debug /\ (Seq0 + 1) % Every # 0) /\ link
    BY <2>4, <2>5
  <2> QED BY <2>3, <2>6 DEF Seq0
<1>2. Len(fate) \in Nat /\ Len(fate') = Len(fate) + 1 /\ fate'[Len(fate')] = "heard"
  <2>1. FateOK(fate) /\ "heard" \in AllFates
    BY DEF IInv, AllFates
  <2> QED BY <2>1, FateGrows
<1>3. last' \in 1 .. Len(fate') /\ fate'[last'] = "heard" /\ (last' + 1) .. Len(fate') = {}
  BY <1>2
<1> QED
  BY <1>1, <1>2, <1>3 DEF LastOK

\* A frame next to the last one, or the first one, opens no gap.
LEMMA HeardFrameInv ==
  ASSUME IInv, Len(fate) < MaxSeq, "heard" \in Fates, fate' = Append(fate, "heard"),
         last' = Len(fate) + 1, UNCHANGED <<link, debug, diag, report, drop, witness>>,
         UNCHANGED <<gaps, windows, count>>
  PROVE  IInv'
<1> DEFINE f == "heard"
<1>1. f \in AllFates /\ FateOK(fate) /\ P0' = P0
  BY DEF IInv, AllFates, P0
<1>2. /\ FateOK(fate') /\ Len(fate) \in Nat /\ Len(fate') = Len(fate) + 1
      /\ \A x : At(fate, x) \subseteq At(fate', x)
      /\ Missing(fate) \subseteq Missing(fate')
  BY <1>1, FateGrows
<1>3. WindowsOK(windows, P0, fate') /\ ReportedTo(windows, fate') = ReportedTo(windows, fate)
  <2>1. WindowsOK(windows, P0, fate)
    BY DEF IInv
  <2> QED BY <2>1, <1>1, WindowsKept
<1>4. /\ \A m, ws : WindowReport(m, fate, ws) => WindowReport(m, fate', ws)
      /\ \A m, d : PerfReport(m, fate, d) => PerfReport(m, fate', d)
      /\ \A c, d : DropsOK(c, d, fate) => DropsOK(c, d, fate')
      /\ \A c \in Counts : \A p, m : PerfOnly(c, p, m, fate) => PerfOnly(c, p, m, fate')
  BY <1>1, ReportsKept
<1>5. LastOK(fate', last', link', debug')
  BY HeardLast
<1>6. GapsOK(gaps, fate', last')
  <2>1. GapsOK(gaps, fate, last)
    BY DEF IInv
  <2>2. \A n \in Missing(fate) : n < last'
    BY <1>1, <1>2, MissingType
  <2> QED BY <1>2, <2>1, <2>2 DEF GapsOK
<1>7. UsedOK(windows, P0, fate')
  <2>1. Missing(fate) \ P0 \subseteq Missing(fate') \ P0
    BY <1>2
  <2> QED BY <2>1, BlameGrows DEF IInv, UsedOK
<1>8. DiagOK' /\ DropsOK(count, drop, fate')
  BY <1>4 DEF IInv, DiagOK
<1>9. NoEpoch'
  <2>1. Credit(At(fate, "stale"), count.suppressed, windows)
          => Credit(At(fate', "stale"), count.suppressed, windows)
    BY <1>2, CreditGrows
  <2>2. PerfOnly(count, report, diag, fate) => PerfOnly(count, report, diag, fate')
    BY <1>4 DEF IInv, AccountOK
  <2> QED BY <1>1, <1>3, <2>1, <2>2 DEF IInv, NoEpoch
<1> QED
  BY <1>1, <1>2, <1>3, <1>5, <1>6, <1>7, <1>8, <1>9 DEF IInv, Flags

\* A gap that the windows have been over is put behind the others.
LEMMA GapAppended ==
  ASSUME NEW gs, GoodGaps(gs), NEW g, GoodGap(g), GapMembers(g) \cap AllMembers(gs) = {}, NEW hs,
         \/ hs = gs /\ (g = <<>> \/ GapMembers(g) = {})
         \/ hs = Append(gs, g) /\ g # <<>>
  PROVE  GoodGaps(hs) /\ AllMembers(hs) = AllMembers(gs) \cup GapMembers(g)
<1>1. CASE hs = gs /\ (g = <<>> \/ GapMembers(g) = {})
  <2>1. GapMembers(g) = {}
    BY <1>1, MembersOfNone
  <2> QED BY <1>1, <2>1
<1>2. CASE hs = Append(gs, g) /\ g # <<>>
  <2> DEFINE h == <<g>>
  <2>1. h \in Seq(Seq(Segs)) /\ DOMAIN h = {1} /\ h[1] = g
    BY DEF GoodGap
  <2>2. hs = gs \o h
    <3>1. gs \in Seq(Seq(Segs)) /\ g \in Seq(Segs)
      BY DEF GoodGaps, GoodGap
    <3>2. Append(gs, g) = gs \o h
      BY ONLY <3>1, AppendIsConcat
    <3> QED BY <1>2, <3>2
  <2> HIDE DEF h
  <2>3. GoodGaps(h) /\ AllMembers(h) = GapMembers(g)
    BY <1>2, <2>1 DEF GoodGaps, Apart, AllMembers, GoodGap
  <2>4. GoodGaps(gs \o h) /\ AllMembers(gs \o h) = AllMembers(gs) \cup AllMembers(h)
    BY <2>3, GapsOfBoth
  <2> QED BY <2>2, <2>3, <2>4
<1> QED
  BY <1>1, <1>2

\* Explaining frames reports no drops.
LEMMA MoreUsedReported ==
  ASSUME NEW ws, NEW vs, MoreUsed(ws, vs), NEW ft
  PROVE  ReportedTo(vs, ft) = ReportedTo(ws, ft)
  BY DEF MoreUsed, ReportedTo

\* The counters after a gap of size u among the m missing numbers, x of them not fresh.
Opened(c, m, u) == [c EXCEPT !.observed = @ + m, !.intentional = @ + m - u, !.unknown = @ + u]

\* Counters c that became d when x of the new missing numbers were explained and R were left.
Accounted(c, d, P, R, x) ==
  /\ AccountOK(d, P \cup R)
  /\ d.attributed = c.attributed /\ d.counterDrops = c.counterDrops
  /\ d.windowDrops = c.windowDrops /\ d.suppressed = c.suppressed + x
  /\ d.unknown = c.unknown + Cardinality(R)
  /\ Cardinality(P \cup R) = Cardinality(P) + Cardinality(R)

\* The counters account for a new gap.
LEMMA GapCounted ==
  ASSUME NEW c, NEW P, NEW R, AccountOK(c, P), NEW m \in Nat, NEW u \in 0 .. m, NEW x \in Nat,
         IsFiniteSet(P), IsFiniteSet(R), P \cap R = {}, Cardinality(R) + x = u
  PROVE  Accounted(c, Suppressed(Opened(c, m, u), x), P, R, x)
<1> DEFINE b == Opened(c, m, u)
           d == Suppressed(b, x)
<1>1. c \in Counts /\ c.observed = c.intentional + c.unknown + c.suppressed + c.attributed
      /\ Cardinality(P) <= c.unknown
  BY DEF AccountOK
<1>2. Cardinality(P) \in Nat /\ Cardinality(R) \in Nat
  BY FS_CardinalityType
<1>3. Cardinality(P \cup R) = Cardinality(P) + Cardinality(R)
  <2>1. Cardinality(P \cup R) = Cardinality(P) + Cardinality(R) - Cardinality(P \cap R)
    BY FS_Union
  <2> QED BY <2>1, <1>2, FS_EmptySet
<1>4. /\ b \in Counts
      /\ b.observed = c.observed + m /\ b.intentional = c.intentional + m - u /\ b.unknown = c.unknown + u
      /\ b.suppressed = c.suppressed /\ b.attributed = c.attributed
      /\ b.windowDrops = c.windowDrops /\ b.counterDrops = c.counterDrops
  <2>1. /\ c.observed \in Nat /\ c.intentional \in Nat /\ c.unknown \in Nat /\ u \in Nat /\ u <= m
    BY <1>1 DEF Counts
  <2>2. c.observed + m \in Nat /\ c.intentional + m - u \in Nat /\ c.unknown + u \in Nat
    BY <2>1
  <2> QED BY <1>1, <2>2 DEF Counts, Opened
<1> HIDE DEF b
<1>5. b.unknown - x >= 0
  BY <1>1, <1>2, <1>4 DEF Counts
<1>6. /\ d \in Counts
      /\ d.observed = b.observed /\ d.intentional = b.intentional /\ d.unknown = b.unknown - x
      /\ d.suppressed = b.suppressed + x /\ d.attributed = b.attributed
      /\ d.windowDrops = b.windowDrops /\ d.counterDrops = b.counterDrops
  <2>1. AtLeast(0, b.unknown - x) = b.unknown - x
    BY <1>4, <1>5 DEF AtLeast, Counts
  <2>2. b.unknown - x \in Nat /\ b.suppressed + x \in Nat
    BY <1>4, <1>5 DEF Counts
  <2>3. d = [b EXCEPT !.unknown = b.unknown - x, !.suppressed = b.suppressed + x]
    BY <2>1 DEF Suppressed
  <2> QED BY <1>4, <2>2, <2>3 DEF Counts
<1> HIDE DEF d
<1>7. d.unknown = c.unknown + Cardinality(R) /\ d.suppressed = c.suppressed + x
  BY <1>1, <1>2, <1>4, <1>6 DEF Counts
<1>8. AccountOK(d, P \cup R)
  <2>1. d.observed = d.intentional + d.unknown + d.suppressed + d.attributed
    BY <1>1, <1>2, <1>4, <1>6, <1>7 DEF Counts
  <2>2. Cardinality(P \cup R) <= d.unknown
    BY <1>1, <1>2, <1>3, <1>7 DEF Counts
  <2> QED BY <1>6, <2>1, <2>2 DEF AccountOK
<1> QED
  BY <1>3, <1>4, <1>6, <1>7, <1>8 DEF b, d, Accounted

\* The windows after they have been over a new gap, of which R is left.
LEMMA WindowsAfterGap ==
  ASSUME NEW ft, NEW ws, NEW vs, NEW P, NEW R, WindowsOK(ws, P, ft), GoodWindows(vs, At(ft, "stale")),
         MoreUsed(ws, vs), \A s \in DOMAIN ws : Exhausted(R, s, vs[s])
  PROVE  WindowsOK(vs, P \cup R, ft)
<1>1. DOMAIN vs = DOMAIN ws
  BY DEF MoreUsed
<1> SUFFICES ASSUME NEW s \in DOMAIN ws
             PROVE  /\ vs[s].end <= Len(ft)
                    /\ vs[s].drops = InPart(ft, "dropped", s, vs[s].end)
                    /\ Exhausted(P \cup R, s, vs[s])
  BY <1>1 DEF WindowsOK
<1>2. /\ vs[s].end = ws[s].end /\ vs[s].invalid = ws[s].invalid /\ vs[s].drops = ws[s].drops
      /\ ws[s].used <= vs[s].used
  BY DEF MoreUsed
<1>3. /\ ws[s].end <= Len(ft)
      /\ ws[s].drops = InPart(ft, "dropped", s, ws[s].end)
      /\ Exhausted(P, s, ws[s])
  BY DEF WindowsOK
<1>4. vs[s].used \in Nat /\ vs[s].invalid \in Nat /\ vs[s].used <= vs[s].invalid /\ ws[s].used \in Nat
  BY <1>1 DEF GoodWindows, WindowsOK
<1>5. Exhausted(P \cup R, s, vs[s])
  <2>1. CASE P \cap s .. vs[s].end # {}
    <3>1. ws[s].used = ws[s].invalid
      BY <2>1, <1>2, <1>3 DEF Exhausted
    <3> QED BY <3>1, <1>2, <1>4 DEF Exhausted
  <2>2. CASE P \cap s .. vs[s].end = {}
    <3>1. (P \cup R) \cap s .. vs[s].end = R \cap s .. vs[s].end
      BY <2>2
    <3> QED BY <3>1 DEF Exhausted
  <2> QED BY <2>1, <2>2
<1> QED
  BY <1>2, <1>3, <1>5

\* record_frame behind a gap.
LEMMA GapFrameInv ==
  ASSUME IInv, last # None, last < Len(fate), Len(fate) < MaxSeq,
         "heard" \in Fates, fate' = Append(fate, "heard"), RecordFrame(Len(fate) + 1),
         UNCHANGED <<link, debug, diag, report, drop, witness>>
  PROVE  IInv'
<1> DEFINE n == Len(fate) + 1
           missing == n - last - 1
           c == CandidatesOf(last, n, debug)
           g == <<c>>
           G == Members(c)
           r == GapWithWindows(g, windows)
           R == GapMembers(r.gap)
           St == At(fate', "stale")
           f == "heard"
<1>1. /\ FateOK(fate) /\ Flags /\ LastOK(fate, last, link, debug) /\ GapsOK(gaps, fate, last)
      /\ WindowsOK(windows, P0, fate) /\ UsedOK(windows, P0, fate) /\ DiagOK /\ AccountOK(count, P0)
      /\ DropsOK(count, drop, fate) /\ ReportOK(report) /\ NoEpoch
  BY DEF IInv
<1>2. f \in AllFates
  BY DEF AllFates
<1>3. /\ FateOK(fate') /\ Len(fate) \in Nat /\ Len(fate') = n
      /\ \A x : At(fate, x) \subseteq At(fate', x)
      /\ Missing(fate) \subseteq Missing(fate')
      /\ Missing(fate') = {k \in 1 .. Len(fate) : fate[k] \in Unsent}
  BY <1>1, <1>2, FateGrows
<1>4. /\ last' = n
      /\ count' = Suppressed([count EXCEPT !.observed = @ + missing, !.intentional = @ + missing - Size(c),
                                           !.unknown = @ + Size(c)], r.taken)
      /\ gaps' = IF r.gap = <<>> \/ Size(c) = 0 THEN gaps ELSE Append(gaps, r.gap)
      /\ windows' = r.windows
  <2>1. last \in 1 .. Len(fate)
    BY <1>1 DEF LastOK
  <2>2. ~(last = None \/ n <= last + 1)
    BY <1>3, <2>1
  <2> QED BY <2>2 DEF RecordFrame, CandidatesOf
<1>5. LastOK(fate', last', link', debug') /\ link
  BY <1>4, HeardLast
<1>6. /\ GoodGap(g) /\ GapMembers(g) = G
      /\ IsFiniteSet(G) /\ Size(c) = Cardinality(G) /\ Size(c) \in 0 .. missing
      /\ \A k \in G : k \in 1 .. Len(fate) /\ k > last /\ fate[k] \in Unsent
      /\ G \cap Missing(fate) = {}
  <2>1. debug \in BOOLEAN /\ link
    BY <1>1, <1>5 DEF Flags
  <2> QED BY ONLY <1>1, <2>1, last # None, last < Len(fate), Len(fate) < MaxSeq, GapCandidates
<1> HIDE DEF c, g
<1>7. WindowsOK(windows, P0, fate') /\ ReportedTo(windows, fate') = ReportedTo(windows, fate)
  BY <1>1, <1>2, WindowsKept
<1>8. GoodWindows(windows, St) /\ IsFiniteSet(St)
  <2>1. Len(fate') \in Nat
    BY <1>3
  <2> QED BY <1>7, <2>1, AtFinite DEF WindowsOK
<1> HIDE DEF St
<1>9. /\ r.taken \in Nat /\ GoodGap(r.gap) /\ R \subseteq G /\ Cardinality(R) + r.taken = Cardinality(G)
      /\ GoodWindows(r.windows, St) /\ MoreUsed(windows, r.windows)
      /\ \A s \in DOMAIN windows : Exhausted(R, s, r.windows[s])
      /\ \A M : M \cap G = {} /\ Blame(M, windows) => Blame(M \cup (G \ R), r.windows)
      /\ \A k \in Nat : Credit(St, k, windows) => Credit(St, k + r.taken, r.windows)
      /\ DOMAIN windows = {} => r.taken = 0 /\ r.windows = windows
  <2> DEFINE H == GapMembers(g)
  <2>1. H = G
    BY <1>6
  <2>2. /\ r.taken \in Nat /\ GoodGap(r.gap) /\ R \subseteq H /\ Cardinality(R) + r.taken = Cardinality(H)
        /\ GoodWindows(r.windows, St) /\ MoreUsed(windows, r.windows)
        /\ \A s \in DOMAIN windows : Exhausted(R, s, r.windows[s])
        /\ \A M : M \cap H = {} /\ Blame(M, windows) => Blame(M \cup (H \ R), r.windows)
        /\ \A k \in Nat : Credit(St, k, windows) => Credit(St, k + r.taken, r.windows)
        /\ DOMAIN windows = {} => r.taken = 0 /\ r.windows = windows
    BY ONLY <1>6, <1>8, WindowsTook
  <2> HIDE DEF H, r, R, G
  <2> QED BY <2>1, <2>2
<1> HIDE DEF r, R, G
<1>10. P0 \subseteq Missing(fate) /\ (\A k \in P0 : k < last) /\ P0 \cap G = {} /\ P0 \cap R = {} /\ IsFiniteSet(R)
       /\ IsFiniteSet(P0) /\ GoodGaps(gaps)
  <2>1. P0 \subseteq Missing(fate) /\ GoodGaps(gaps)
    BY <1>1 DEF GapsOK, P0
  <2>2. \A k \in P0 : k < last
    BY <1>1 DEF GapsOK, P0
  <2>3. IsFiniteSet(P0)
    BY <2>1, SizesCount DEF P0
  <2>4. IsFiniteSet(R)
    BY <1>6, <1>9, FS_Subset
  <2> QED BY <2>1, <2>2, <2>3, <2>4, <1>6, <1>9
<1>11. GoodGaps(gaps') /\ P0' = P0 \cup R
  <2>1. Size(c) = 0 => R = {}
    <3>1. Size(c) = 0 => G = {}
      BY <1>6, FS_EmptySet
    <3> QED BY <3>1, <1>9
  <2>2. \/ gaps' = gaps /\ (r.gap = <<>> \/ R = {})
        \/ gaps' = Append(gaps, r.gap) /\ r.gap # <<>>
    BY <1>4, <2>1
  <2>3. GapMembers(r.gap) \cap AllMembers(gaps) = {}
    BY <1>10 DEF P0, R
  <2>4. GoodGaps(gaps') /\ AllMembers(gaps') = AllMembers(gaps) \cup GapMembers(r.gap)
    <3>1. \/ gaps' = gaps /\ (r.gap = <<>> \/ GapMembers(r.gap) = {})
          \/ gaps' = Append(gaps, r.gap) /\ r.gap # <<>>
      BY <2>2 DEF R
    <3> QED BY ONLY <3>1, <2>3, <1>9, <1>10, GapAppended
  <2> QED BY <2>4 DEF P0, R
<1>12. GapsOK(gaps', fate', last')
  <2>1. \A k \in P0' : k \in Missing(fate') /\ k < n
    <3>1. \A k \in R : k \in G
      BY <1>9
    <3>2. \A k \in R : k \in Missing(fate') /\ k < n
      BY <1>3, <1>6, <3>1
    <3>3. \A k \in P0 : k \in Missing(fate') /\ k < n
      BY <1>1, <1>3, <1>10, MissingType
    <3> QED BY <1>11, <3>2, <3>3
  <2> QED BY <1>4, <1>11, <2>1 DEF GapsOK, P0
<1>13. WindowsOK(windows', P0', fate')
  <2>1. WindowsOK(r.windows, P0 \cup R, fate')
    BY <1>7, <1>9, WindowsAfterGap DEF St
  <2> QED BY <2>1, <1>4, <1>11
<1>14. UsedOK(windows', P0', fate')
  <2> DEFINE M == Missing(fate) \ P0
  <2>1. Blame(M, windows) /\ M \cap G = {}
    BY <1>1, <1>6 DEF UsedOK
  <2>2. Blame(M \cup (G \ R), r.windows)
    BY <1>9, <2>1
  <2>3. M \cup (G \ R) \subseteq Missing(fate') \ P0'
    <3>1. G \subseteq Missing(fate')
      BY <1>3, <1>6
    <3> QED BY <3>1, <1>3, <1>6, <1>9, <1>10, <1>11
  <2> QED BY <2>2, <2>3, <1>4, BlameGrows DEF UsedOK
<1>15. /\ AccountOK(count', P0')
       /\ count'.attributed = count.attributed /\ count'.counterDrops = count.counterDrops
       /\ count'.windowDrops = count.windowDrops /\ count'.suppressed = count.suppressed + r.taken
       /\ Cardinality(P0) = count.unknown => Cardinality(P0') = count'.unknown
  <2>1. missing \in Nat
    BY <1>1, <1>3 DEF LastOK
  <2> DEFINE u == Size(c)
  <2>2. u \in 0 .. missing /\ Cardinality(R) + r.taken = u /\ r.taken \in Nat
    BY <1>6, <1>9
  <2> DEFINE x == r.taken
             d == Suppressed(Opened(count, missing, u), x)
  <2>3. count' = d
    BY <1>4 DEF Opened
  <2> HIDE DEF u, missing
  <2>4. Accounted(count, d, P0, R, x)
    BY ONLY <1>1, <1>10, <2>1, <2>2, GapCounted
  <2> HIDE DEF d
  <2> QED BY <2>3, <2>4, <1>11 DEF Accounted
<1>16. DropsOK(count', drop', fate')
  <2>1. DropsOK(count, drop, fate')
    BY <1>1, <1>2, ReportsKept
  <2> QED BY <2>1, <1>15 DEF DropsOK
<1>17. DiagOK'
  <2>1. /\ \A m, ws : WindowReport(m, fate, ws) => WindowReport(m, fate', ws)
        /\ \A m, d : PerfReport(m, fate, d) => PerfReport(m, fate', d)
    BY <1>1, <1>2, ReportsKept
  <2>2. \A m : WindowReport(m, fate', windows) => WindowReport(m, fate', windows')
    BY <1>4, <1>9 DEF WindowReport, MoreUsed
  <2> QED BY <1>1, <2>1, <2>2 DEF DiagOK
<1>18. NoEpoch'
  <2> SUFFICES ASSUME "epoch" \notin witness
               PROVE  /\ Cardinality(P0') = count'.unknown
                      /\ count'.windowDrops = Cardinality(ReportedTo(windows', fate'))
                      /\ "SF50" \notin witness => windows' = <<>> /\ PerfOnly(count', report, diag, fate')
                      /\ "PERF" \notin witness => Credit(St, count'.suppressed, windows')
    BY DEF NoEpoch, St
  <2>1. Cardinality(P0') = count'.unknown
    BY <1>1, <1>15 DEF NoEpoch
  <2>2. count'.windowDrops = Cardinality(ReportedTo(windows', fate'))
    BY <1>1, <1>4, <1>7, <1>9, <1>15, MoreUsedReported DEF NoEpoch
  <2>3. ASSUME "SF50" \notin witness PROVE windows' = <<>> /\ PerfOnly(count', report, diag, fate')
    <3>1. windows = <<>> /\ PerfOnly(count, report, diag, fate)
      BY <1>1, <2>3 DEF NoEpoch
    <3>2. DOMAIN windows = {}
      BY <3>1, NoWindows
    <3>3. r.taken = 0 /\ windows' = <<>>
      BY <1>4, <1>9, <3>1, <3>2
    <3>4. count.suppressed \in Nat /\ count \in Counts
      BY <1>1 DEF AccountOK, Counts
    <3>5. count'.suppressed = count.suppressed
      BY <1>15, <3>3, <3>4
    <3>6. PerfOnly(count, report, diag, fate')
      BY <1>1, <1>2, <3>1, <3>4, ReportsKept
    <3> QED BY <3>3, <3>5, <3>6 DEF PerfOnly
  <2>4. ASSUME "PERF" \notin witness PROVE Credit(St, count'.suppressed, windows')
    <3>1. Credit(At(fate, "stale"), count.suppressed, windows)
      BY <1>1, <2>4 DEF NoEpoch
    <3>2. Credit(St, count.suppressed, windows)
      BY <3>1, <1>3, CreditGrows DEF St
    <3>3. count.suppressed \in Nat
      BY <1>1 DEF AccountOK, Counts
    <3> QED BY <3>2, <3>3, <1>4, <1>9, <1>15
  <2> QED BY <2>1, <2>2, <2>3, <2>4
<1> QED
  BY <1>1, <1>3, <1>5, <1>12, <1>13, <1>14, <1>15, <1>16, <1>17, <1>18 DEF IInv, Flags

-----------------------------------------------------------------------------
(* SF50.                                                                   *)

\* Counters c that became d when x of the open numbers P were explained and R were left.
Moved(c, d, P, R, x) ==
  /\ AccountOK(d, R)
  /\ d.unknown = c.unknown - x /\ Cardinality(R) = Cardinality(P) - x
  /\ d.windowDrops = c.windowDrops /\ d.counterDrops = c.counterDrops

\* _reclassify and _attribute_firmware_drop move explained frames from one account to
\* another.
LEMMA FramesMoved ==
  ASSUME NEW c, NEW P, IsFiniteSet(P), AccountOK(c, P), NEW lower, NEW upper, NEW limit, NEW x,
         NEW R, Took(P, R, lower, upper, limit, x)
  PROVE  /\ Moved(c, Suppressed(c, x), P, R, x)
         /\ Suppressed(c, x).suppressed = c.suppressed + x /\ Suppressed(c, x).attributed = c.attributed
         /\ Moved(c, Attributed(c, x), P, R, x)
         /\ Attributed(c, x).suppressed = c.suppressed /\ Attributed(c, x).attributed = c.attributed + x
<1>1. PICK E \in SUBSET (P \cap lower .. upper) : IsFiniteSet(E) /\ Cardinality(E) = x /\ R = P \ E
  BY DEF Took
<1>2. Cardinality(R) = Cardinality(P) - x /\ Cardinality(R) \in Nat /\ Cardinality(P) \in Nat /\ x \in Nat
  <2>1. P \cap E = E
    OBVIOUS
  <2>2. Cardinality(P \ E) = Cardinality(P) - Cardinality(P \cap E)
    BY FS_Difference
  <2>3. IsFiniteSet(R)
    BY <1>1, FS_Difference
  <2> QED BY <1>1, <2>1, <2>2, <2>3, FS_CardinalityType
<1>3. c \in Counts /\ c.observed = c.intentional + c.unknown + c.suppressed + c.attributed
      /\ Cardinality(P) <= c.unknown
  BY DEF AccountOK
<1>4. c.unknown \in Nat /\ c.suppressed \in Nat /\ c.attributed \in Nat /\ c.intentional \in Nat
      /\ c.unknown - x \in Nat /\ AtLeast(0, c.unknown - x) = c.unknown - x
      /\ Cardinality(R) <= c.unknown - x
  BY <1>2, <1>3 DEF Counts, AtLeast
<1>5. Moved(c, Suppressed(c, x), P, R, x)
      /\ Suppressed(c, x).suppressed = c.suppressed + x /\ Suppressed(c, x).attributed = c.attributed
  <2> DEFINE d == Suppressed(c, x)
  <2>1. d = [c EXCEPT !.unknown = c.unknown - x, !.suppressed = c.suppressed + x]
    BY <1>4 DEF Suppressed
  <2>2. c.unknown - x \in Nat /\ c.suppressed + x \in Nat
    BY <1>2, <1>4
  <2> HIDE DEF d
  <2>3. /\ d \in Counts /\ d.unknown = c.unknown - x /\ d.suppressed = c.suppressed + x
        /\ d.observed = c.observed /\ d.intentional = c.intentional /\ d.attributed = c.attributed
        /\ d.windowDrops = c.windowDrops /\ d.counterDrops = c.counterDrops
    BY <1>3, <2>1, <2>2 DEF Counts
  <2>4. AccountOK(d, R)
    BY <1>2, <1>3, <1>4, <2>3 DEF AccountOK
  <2>5. Moved(c, d, P, R, x) /\ d.suppressed = c.suppressed + x /\ d.attributed = c.attributed
    BY <1>2, <2>3, <2>4 DEF Moved
  <2> QED BY <2>5 DEF d
<1>6. Moved(c, Attributed(c, x), P, R, x)
      /\ Attributed(c, x).suppressed = c.suppressed /\ Attributed(c, x).attributed = c.attributed + x
  <2> DEFINE d == Attributed(c, x)
  <2>1. d = [c EXCEPT !.unknown = c.unknown - x, !.attributed = c.attributed + x]
    BY <1>4 DEF Attributed
  <2>2. c.unknown - x \in Nat /\ c.attributed + x \in Nat
    BY <1>2, <1>4
  <2> HIDE DEF d
  <2>3. /\ d \in Counts /\ d.unknown = c.unknown - x /\ d.attributed = c.attributed + x
        /\ d.observed = c.observed /\ d.intentional = c.intentional /\ d.suppressed = c.suppressed
        /\ d.windowDrops = c.windowDrops /\ d.counterDrops = c.counterDrops
    BY <1>3, <2>1, <2>2 DEF Counts
  <2>4. AccountOK(d, R)
    BY <1>2, <1>3, <1>4, <2>3 DEF AccountOK
  <2>5. Moved(c, d, P, R, x) /\ d.suppressed = c.suppressed /\ d.attributed = c.attributed + x
    BY <1>2, <2>3, <2>4 DEF Moved
  <2> QED BY <2>5 DEF d
<1> QED
  BY <1>5, <1>6

\* What the store had of the window of a report, and what it has with the report.
Known(ws, m) == IF m.start \in DOMAIN ws THEN ws[m.start]
                ELSE [end |-> m.end, invalid |-> 0, used |-> 0, drops |-> 0]
Grown(ws, m) == [Known(ws, m) EXCEPT !.end = AtLeast(@, m.end), !.invalid = AtLeast(@, m.invalid),
                                     !.drops = AtLeast(@, m.drops)]

\* Fields of a window that were replaced.
LEMMA WindowFields ==
  ASSUME NEW S, NEW o \in [end : S, invalid : Nat, used : Nat, drops : Nat], NEW e, NEW i, NEW d
  PROVE  [o EXCEPT !.end = e, !.invalid = i, !.drops = d]
           = [end |-> e, invalid |-> i, used |-> o.used, drops |-> d]
<1> DEFINE v == [o EXCEPT !.end = e, !.invalid = i, !.drops = d]
           w == [end |-> e, invalid |-> i, used |-> o.used, drops |-> d]
<1>1. DOMAIN o = {"end", "invalid", "used", "drops"}
  OBVIOUS
<1>2. DOMAIN v = DOMAIN o /\ v = [k \in DOMAIN v |-> v[k]]
  OBVIOUS
<1>3. DOMAIN w = {"end", "invalid", "used", "drops"} /\ w = [k \in DOMAIN w |-> w[k]]
  OBVIOUS
<1>4. v["end"] = e /\ v["invalid"] = i /\ v["used"] = o.used /\ v["drops"] = d
  BY <1>1
<1>5. w["end"] = e /\ w["invalid"] = i /\ w["used"] = o.used /\ w["drops"] = d
  OBVIOUS
<1> HIDE DEF v, w
<1>6. DOMAIN v = DOMAIN w /\ \A k \in DOMAIN v : v[k] = w[k]
  BY <1>1, <1>2, <1>3, <1>4, <1>5
<1>7. v = w
  BY <1>2, <1>3, <1>6
<1> QED
  BY <1>7 DEF v, w

Growth(ft, ws, m) ==
  /\ Grown(ws, m) = [end |-> m.end, invalid |-> m.invalid, used |-> UsedOf(ws, m.start),
                     drops |-> m.drops]
  /\ m.start \in Starts /\ m.end \in Int /\ m.end \in Span(m.start) /\ m.end <= Len(ft)
  /\ m.invalid = Cardinality(At(ft, "stale") \cap m.start .. m.end)
  /\ m.invalid \in Nat /\ UsedOf(ws, m.start) \in Nat /\ UsedOf(ws, m.start) <= m.invalid
  /\ m.drops \in Nat /\ Known(ws, m).drops \in Nat /\ Known(ws, m).drops <= m.drops
  /\ m.drops = Cardinality(At(ft, "dropped") \cap m.start .. m.end)
  /\ m.start \in DOMAIN ws =>
       /\ ws[m.start].end \in Int /\ ws[m.start].end <= m.end /\ ws[m.start].used \in Nat
       /\ Known(ws, m).drops = Cardinality(At(ft, "dropped") \cap m.start .. ws[m.start].end)
  /\ m.start \notin DOMAIN ws => Known(ws, m).drops = 0

\* A repeated report of a window says more than the earlier ones: it replaces them.
LEMMA WindowGrown ==
  ASSUME NEW ft, FateOK(ft), NEW ws, NEW P, WindowsOK(ws, P, ft), NEW m, WindowReport(m, ft, ws)
  PROVE  Growth(ft, ws, m)
<1> DEFINE s == m.start
           St == At(ft, "stale")
           Dr == At(ft, "dropped")
<1>1. Len(ft) \in Nat
  BY DEF FateOK
<1>2. IsFiniteSet(St) /\ IsFiniteSet(Dr)
  BY <1>1, AtFinite
<1> HIDE DEF St, Dr
<1>3. \A a, b : /\ Cardinality(St \cap a .. b) \in Nat /\ IsFiniteSet(St \cap a .. b)
                /\ Cardinality(Dr \cap a .. b) \in Nat /\ IsFiniteSet(Dr \cap a .. b)
  <2> SUFFICES ASSUME NEW a, NEW b
               PROVE /\ Cardinality(St \cap a .. b) \in Nat /\ IsFiniteSet(St \cap a .. b)
                     /\ Cardinality(Dr \cap a .. b) \in Nat /\ IsFiniteSet(Dr \cap a .. b)
    OBVIOUS
  <2>1. St \cap a .. b \in SUBSET St /\ Dr \cap a .. b \in SUBSET Dr
    OBVIOUS
  <2> QED BY <1>2, <2>1, FS_Subset, FS_CardinalityType
<1>4. /\ s \in Starts /\ m.end \in Span(s) /\ m.end <= Len(ft)
      /\ m.invalid = Cardinality(St \cap s .. m.end) /\ m.drops = Cardinality(Dr \cap s .. m.end)
      /\ s \in DOMAIN ws => ws[s].end <= m.end
  BY DEF WindowReport, InPart, St, Dr
<1>5. m.end \in Int /\ s \in Int /\ m.invalid \in Nat /\ m.drops \in Nat
  BY <1>3, <1>4, SpanType, StartsType
<1> HIDE DEF s
<1>6. CASE s \in DOMAIN ws
  <2> DEFINE o == ws[s]
  <2>1. /\ o \in [end : Span(s), invalid : Nat, used : Nat, drops : Nat] /\ o.used <= o.invalid
        /\ o.invalid = Cardinality(St \cap s .. o.end) /\ o.drops = Cardinality(Dr \cap s .. o.end)
    BY <1>6 DEF WindowsOK, GoodWindows, InPart, St, Dr
  <2>2. Known(ws, m) = o /\ UsedOf(ws, s) = o.used
    BY <1>6 DEF Known, UsedOf, s
  <2> HIDE DEF o
  <2>3. o.end \in Int /\ o.end <= m.end
    BY <1>4, <1>6, <2>1, SpanType DEF o
  <2>4. o.invalid <= m.invalid /\ o.drops <= m.drops
    <3>1. St \cap s .. o.end \in SUBSET (St \cap s .. m.end)
          /\ Dr \cap s .. o.end \in SUBSET (Dr \cap s .. m.end)
      BY <1>5, <2>3
    <3>2. /\ Cardinality(St \cap s .. o.end) <= Cardinality(St \cap s .. m.end)
          /\ Cardinality(Dr \cap s .. o.end) <= Cardinality(Dr \cap s .. m.end)
      BY ONLY <3>1, <1>3, FS_Subset
    <3> QED BY ONLY <3>2, <1>4, <2>1
  <2>5. /\ AtLeast(o.end, m.end) = m.end /\ AtLeast(o.invalid, m.invalid) = m.invalid
        /\ AtLeast(o.drops, m.drops) = m.drops
    BY <1>5, <2>1, <2>3, <2>4 DEF AtLeast
  <2>6. Grown(ws, m) = [o EXCEPT !.end = m.end, !.invalid = m.invalid, !.drops = m.drops]
    BY <2>2, <2>5 DEF Grown
  <2>7. [o EXCEPT !.end = m.end, !.invalid = m.invalid, !.drops = m.drops]
          = [end |-> m.end, invalid |-> m.invalid, used |-> o.used, drops |-> m.drops]
    BY <2>1, WindowFields
  <2>8. o.used \in Nat /\ o.drops \in Nat /\ o.used <= m.invalid
    BY <1>5, <2>1, <2>4
  <2> QED BY <1>4, <1>5, <1>6, <2>1, <2>2, <2>3, <2>4, <2>6, <2>7, <2>8 DEF o, s, St, Dr, Growth
<1>7. CASE s \notin DOMAIN ws
  <2> DEFINE o == Known(ws, m)
  <2>1. o = [end |-> m.end, invalid |-> 0, used |-> 0, drops |-> 0] /\ UsedOf(ws, s) = 0
    BY <1>7 DEF Known, UsedOf, s
  <2> HIDE DEF o
  <2>2. /\ AtLeast(o.end, m.end) = m.end /\ AtLeast(o.invalid, m.invalid) = m.invalid
        /\ AtLeast(o.drops, m.drops) = m.drops /\ o.used = 0 /\ o.drops = 0
    BY <1>5, <2>1 DEF AtLeast
  <2>3. Grown(ws, m) = [o EXCEPT !.end = m.end, !.invalid = m.invalid, !.drops = m.drops]
    BY <2>2 DEF Grown, o
  <2>4. [o EXCEPT !.end = m.end, !.invalid = m.invalid, !.drops = m.drops]
          = [end |-> m.end, invalid |-> m.invalid, used |-> 0, drops |-> m.drops]
    <3>1. o \in [end : {m.end}, invalid : Nat, used : Nat, drops : Nat] /\ o.used = 0
      BY <2>1
    <3>2. [o EXCEPT !.end = m.end, !.invalid = m.invalid, !.drops = m.drops]
            = [end |-> m.end, invalid |-> m.invalid, used |-> o.used, drops |-> m.drops]
      BY ONLY <3>1, WindowFields
    <3> QED BY ONLY <3>1, <3>2
  <2>5. 0 \in Nat /\ 0 <= m.invalid /\ 0 <= m.drops
    BY <1>5
  <2> QED BY <1>4, <1>5, <1>7, <2>1, <2>2, <2>3, <2>4, <2>5 DEF o, s, St, Dr, Growth
<1> QED
  BY <1>6, <1>7

\* The drops that the windows have reported, after one more report.
LEMMA ReportedAfter ==
  ASSUME NEW ft, FateOK(ft), NEW ws, NEW P, WindowsOK(ws, P, ft), NEW m, WindowReport(m, ft, ws),
         NEW w, w.end = m.end
  PROVE  Cardinality(ReportedTo(PutAt(ws, m.start, w), ft))
           = Cardinality(ReportedTo(ws, ft)) + m.drops - Known(ws, m).drops
<1> DEFINE s == m.start
           Dr == At(ft, "dropped")
           vs == PutAt(ws, s, w)
           X == ReportedTo(ws, ft)
           Y == Dr \cap s .. m.end
           o == Known(ws, m)
<1>1. /\ s \in Starts /\ m.end \in Int /\ m.end \in Span(s) /\ m.drops = Cardinality(Y)
      /\ m.drops \in Nat /\ o.drops \in Nat
      /\ s \in DOMAIN ws => /\ ws[s].end \in Int /\ ws[s].end <= m.end
                            /\ o.drops = Cardinality(Dr \cap s .. ws[s].end)
      /\ s \notin DOMAIN ws => o.drops = 0
  <2>1. Growth(ft, ws, m)
    BY WindowGrown
  <2> QED BY <2>1 DEF Growth
<1>2. s \in Int /\ s .. m.end \subseteq Span(s)
  BY <1>1, StartsType, SpanType
<1>3. IsFiniteSet(Dr) /\ \A n \in Dr : n \in Int
  <2>1. Len(ft) \in Nat
    BY DEF FateOK
  <2>2. IsFiniteSet(Dr)
    BY <2>1, AtFinite
  <2>3. \A n \in Dr : n \in 1 .. Len(ft)
    BY DEF At
  <2> QED BY <2>1, <2>2, <2>3
<1>4. \A t \in DOMAIN ws : t \in Starts /\ t \in Int /\ ws[t].end \in Int /\ t .. ws[t].end \subseteq Span(t)
  <2>1. \A t \in DOMAIN ws : t \in Starts /\ ws[t].end \in Span(t)
    BY DEF WindowsOK, GoodWindows
  <2> QED BY <2>1, StartsType, SpanType
<1>5. DOMAIN vs = DOMAIN ws \cup {s} /\ vs[s] = w /\ \A t \in DOMAIN ws : t # s => vs[t] = ws[t]
  BY DEF PutAt
<1>6. /\ X = {n \in Dr : \E t \in DOMAIN ws : t <= n /\ n <= ws[t].end}
      /\ ReportedTo(vs, ft) = {n \in Dr : \E t \in DOMAIN vs : t <= n /\ n <= vs[t].end}
  BY DEF ReportedTo
<1>7. X \in SUBSET Dr /\ IsFiniteSet(X) /\ IsFiniteSet(Y) /\ Cardinality(X) \in Nat
  <2>1. X \in SUBSET Dr /\ Y \in SUBSET Dr
    BY <1>6
  <2> QED BY <1>3, <2>1, FS_Subset, FS_CardinalityType
<1> HIDE DEF s, Dr, vs, X, o
<1>8. ReportedTo(vs, ft) = X \cup Y
  <2>1. ASSUME NEW n \in ReportedTo(vs, ft) PROVE n \in X \cup Y
    <3>1. n \in Dr /\ n \in Int
      BY <1>3, <1>6
    <3>2. PICK t \in DOMAIN vs : t <= n /\ n <= vs[t].end
      BY <1>6
    <3>3. CASE t = s
      BY <1>1, <1>2, <1>5, <3>1, <3>2, <3>3
    <3>4. CASE t # s
      BY <1>5, <1>6, <3>1, <3>2, <3>4
    <3> QED BY <3>3, <3>4
  <2>2. ASSUME NEW n \in Y PROVE n \in ReportedTo(vs, ft)
    <3>1. n \in Dr /\ s <= n /\ n <= vs[s].end /\ s \in DOMAIN vs
      BY <1>1, <1>2, <1>5
    <3> QED BY <1>6, <3>1
  <2>3. ASSUME NEW n \in X PROVE n \in ReportedTo(vs, ft)
    <3>1. n \in Dr /\ n \in Int
      BY <1>3, <1>7
    <3>2. PICK t \in DOMAIN ws : t <= n /\ n <= ws[t].end
      BY <1>6
    <3>3. t <= n /\ n <= vs[t].end /\ t \in DOMAIN vs
      <4>1. CASE t # s
        BY <1>5, <3>2, <4>1
      <4>2. CASE t = s
        <5>1. ws[s].end \in Int /\ ws[s].end <= m.end /\ m.end \in Int
          BY <1>1, <4>2
        <5> QED BY <1>5, <3>1, <3>2, <4>2, <5>1
      <4> QED BY <4>1, <4>2
    <3> QED BY <1>6, <3>1, <3>3
  <2> QED BY <2>1, <2>2, <2>3
<1>9. Cardinality(X \cap Y) = o.drops
  <2>1. CASE s \in DOMAIN ws
    <3> DEFINE Z == Dr \cap s .. ws[s].end
    <3>1. ASSUME NEW n \in X \cap Y PROVE n \in Z
      <4>1. n \in Dr /\ n \in Int /\ s <= n /\ n <= m.end
        BY <1>1, <1>2, <1>3
      <4>2. PICK t \in DOMAIN ws : t <= n /\ n <= ws[t].end
        BY <1>6
      <4>3. n \in Span(t) /\ n \in Span(s)
        BY <1>1, <1>2, <1>4, <4>1, <4>2
      <4>4. t = s
        BY <1>1, <1>4, <4>3, SpansApart
      <4> QED BY <1>1, <1>2, <2>1, <4>1, <4>2, <4>4
    <3>2. ASSUME NEW n \in Z PROVE n \in X \cap Y
      <4>1. n \in Dr /\ n \in Int /\ s <= n /\ n <= ws[s].end
        BY <1>1, <1>2, <2>1
      <4> QED BY <1>1, <1>2, <1>6, <2>1, <4>1
    <3>3. X \cap Y = Z
      BY <3>1, <3>2
    <3> QED BY <1>1, <2>1, <3>3
  <2>2. CASE s \notin DOMAIN ws
    <3>1. ASSUME NEW n \in X \cap Y PROVE FALSE
      <4>1. n \in Dr /\ n \in Int /\ s <= n /\ n <= m.end
        BY <1>1, <1>2, <1>3
      <4>2. PICK t \in DOMAIN ws : t <= n /\ n <= ws[t].end
        BY <1>6
      <4>3. n \in Span(t) /\ n \in Span(s)
        BY <1>1, <1>2, <1>4, <4>1, <4>2
      <4>4. t = s
        BY <1>1, <1>4, <4>3, SpansApart
      <4> QED BY <2>2, <4>4
    <3>2. X \cap Y = {}
      BY <3>1
    <3> QED BY <1>1, <2>2, <3>2, FS_EmptySet
  <2> QED BY <2>1, <2>2
<1>10. Cardinality(X \cup Y) = Cardinality(X) + Cardinality(Y) - Cardinality(X \cap Y)
  BY <1>7, FS_Union
<1> QED
  BY <1>1, <1>7, <1>8, <1>9, <1>10 DEF vs, X, o, s

\* The windows after one more report, by which E was taken from the open numbers.
LEMMA WindowsAfterReport ==
  ASSUME NEW ft, FateOK(ft), NEW ws, NEW P, WindowsOK(ws, P, ft), NEW m, WindowReport(m, ft, ws),
         NEW w, NEW x \in Nat, w = [end |-> m.end, invalid |-> m.invalid, used |-> UsedOf(ws, m.start) + x,
                                    drops |-> m.drops],
         NEW R, Took(P, R, m.start, m.end, m.invalid - UsedOf(ws, m.start), x)
  PROVE  WindowsOK(PutAt(ws, m.start, w), R, ft)
<1> DEFINE s == m.start
           u == UsedOf(ws, s)
           vs == PutAt(ws, s, w)
<1>1. /\ s \in Starts /\ m.end \in Int /\ m.end \in Span(s) /\ m.end <= Len(ft)
      /\ m.invalid = Cardinality(At(ft, "stale") \cap s .. m.end)
      /\ m.invalid \in Nat /\ u \in Nat /\ u <= m.invalid
      /\ m.drops \in Nat
      /\ m.drops = Cardinality(At(ft, "dropped") \cap s .. m.end)
  <2>1. Growth(ft, ws, m)
    BY WindowGrown
  <2> QED BY <2>1 DEF Growth
<1>2. PICK E \in SUBSET (P \cap s .. m.end) :
        /\ R = P \ E /\ x \in 0 .. (m.invalid - u)
        /\ x < m.invalid - u => E = P \cap s .. m.end
  BY DEF Took
<1>3. w.end = m.end /\ w.invalid = m.invalid /\ w.used = u + x /\ w.drops = m.drops
  OBVIOUS
<1>4. DOMAIN vs = DOMAIN ws \cup {s} /\ vs[s] = w /\ \A t \in DOMAIN ws : t # s => vs[t] = ws[t]
  BY DEF PutAt
<1>5. w \in [end : Span(s), invalid : Nat, used : Nat, drops : Nat] /\ w.used <= w.invalid
  <2>1. u + x \in Nat /\ u + x <= m.invalid
    BY <1>1, <1>2
  <2> QED BY <1>1, <1>3, <2>1
<1>6. Exhausted(R, s, w)
  <2>1. CASE x < m.invalid - u
    <3>1. R \cap s .. w.end = {}
      BY <1>2, <1>3, <2>1
    <3> QED BY <3>1 DEF Exhausted
  <2>2. CASE ~(x < m.invalid - u)
    <3>1. u + x = m.invalid
      BY <1>1, <1>2, <2>2
    <3> QED BY <1>3, <3>1 DEF Exhausted
  <2> QED BY <2>1, <2>2
<1> HIDE DEF vs, s
<1>7. ASSUME NEW t \in DOMAIN vs
      PROVE  /\ t \in Starts
             /\ vs[t] \in [end : Span(t), invalid : Nat, used : Nat, drops : Nat]
             /\ vs[t].used <= vs[t].invalid
             /\ vs[t].invalid = Cardinality(At(ft, "stale") \cap t .. vs[t].end)
             /\ vs[t].end <= Len(ft)
             /\ vs[t].drops = InPart(ft, "dropped", t, vs[t].end)
             /\ Exhausted(R, t, vs[t])
  <2>1. CASE t = s
    BY <1>1, <1>3, <1>4, <1>5, <1>6, <2>1 DEF InPart
  <2>2. CASE t # s
    <3>1. t \in DOMAIN ws /\ vs[t] = ws[t]
      BY <1>4, <1>7, <2>2
    <3>2. /\ t \in Starts
          /\ ws[t] \in [end : Span(t), invalid : Nat, used : Nat, drops : Nat]
          /\ ws[t].used <= ws[t].invalid
          /\ ws[t].invalid = Cardinality(At(ft, "stale") \cap t .. ws[t].end)
          /\ ws[t].end <= Len(ft)
          /\ ws[t].drops = InPart(ft, "dropped", t, ws[t].end)
          /\ Exhausted(P, t, ws[t])
      BY <3>1 DEF WindowsOK, GoodWindows
    <3>3. Exhausted(R, t, ws[t])
      BY <1>2, <3>2 DEF Exhausted
    <3> QED BY <3>1, <3>2, <3>3
  <2> QED BY <2>1, <2>2
<1> QED
  BY <1>7 DEF WindowsOK, GoodWindows, vs, s

\* record_firmware_output_window keeps the invariant.
LEMMA ReceiveWindowInv == IInv /\ ReceiveWindow => IInv'
<1> SUFFICES ASSUME IInv, ReceiveWindow PROVE IInv'
  OBVIOUS
<1> DEFINE m == diag
           s == m.start
           u == UsedOf(windows, s)
           limit == m.invalid - u
           c == ConsumeGaps(gaps, s, m.end, limit)
           x == c.taken
           R == AllMembers(c.rest)
           w == [end |-> m.end, invalid |-> m.invalid, used |-> u + x, drops |-> m.drops]
           o == Known(windows, m)
           b == [count EXCEPT !.windowDrops = @ + m.drops - o.drops]
           St == At(fate, "stale")
<1>1. /\ FateOK(fate) /\ Flags /\ LastOK(fate, last, link, debug) /\ GapsOK(gaps, fate, last)
      /\ WindowsOK(windows, P0, fate) /\ UsedOK(windows, P0, fate) /\ DiagOK /\ AccountOK(count, P0)
      /\ DropsOK(count, drop, fate) /\ ReportOK(report) /\ NoEpoch
  BY DEF IInv
<1>2. WindowReport(m, fate, windows)
  BY <1>1 DEF ReceiveWindow, DiagOK
<1>3. Growth(fate, windows, m)
  BY <1>1, <1>2, WindowGrown
<1>4. /\ UNCHANGED <<fate, link, debug, last, report, drop>>
      /\ diag' = None /\ witness' = witness \cup {"SF50"}
  BY DEF ReceiveWindow
<1>5. limit \in Nat /\ s \in Int /\ m.end \in Int /\ m.invalid \in Nat /\ u \in Nat /\ m.drops \in Nat
      /\ o.drops \in Nat /\ s \in Starts /\ o.drops <= m.drops
  BY <1>3, StartsType DEF Growth
<1>6. windows' = PutAt(windows, s, w) /\ gaps' = c.rest /\ count' = Suppressed(b, x)
  <2> DEFINE grown == Grown(windows, m)
             d == ConsumeGaps(gaps, s, grown.end, AtLeast(0, grown.invalid - grown.used))
  <2>1. grown = [end |-> m.end, invalid |-> m.invalid, used |-> u, drops |-> m.drops]
    BY <1>3 DEF Growth
  <2>2. grown.end = m.end /\ grown.drops = m.drops /\ grown.invalid - grown.used = limit
    BY <2>1
  <2>3. AtLeast(0, limit) = limit
    BY <1>5 DEF AtLeast
  <2>4. /\ windows' = PutAt(windows, s, [grown EXCEPT !.used = @ + d.taken])
        /\ gaps' = d.rest
        /\ count' = Suppressed([count EXCEPT !.windowDrops = @ + grown.drops - o.drops], d.taken)
    BY DEF ReceiveWindow, RecordWindow, Grown, Known, PutAt
  <2>5. d = c
    BY <2>2, <2>3
  <2> HIDE DEF d, c, grown, u
  <2>6. [grown EXCEPT !.used = @ + c.taken] = w
    BY <2>1
  <2> QED BY <2>2, <2>4, <2>5, <2>6
<1>7. GoodGaps(gaps) /\ P0 = AllMembers(gaps) /\ P0 \subseteq Missing(fate) /\ IsFiniteSet(P0)
  <2>1. GoodGaps(gaps) /\ P0 = AllMembers(gaps) /\ P0 \subseteq Missing(fate)
    BY <1>1 DEF GapsOK, P0
  <2> QED BY <2>1, SizesCount
<1>8. x \in 0 .. limit /\ GoodGaps(c.rest) /\ Took(P0, R, s, m.end, limit, x)
  BY <1>5, <1>7, GapsTook
<1>9. P0' = R
  BY <1>6 DEF P0
<1> HIDE DEF c, R, u, St, w
<1>10. PICK E \in SUBSET (P0 \cap s .. m.end) : IsFiniteSet(E) /\ Cardinality(E) = x /\ R = P0 \ E
  BY <1>8 DEF Took
<1>11. x \in Nat /\ x <= limit
  BY <1>5, <1>8
<1>12. GapsOK(gaps', fate', last')
  <2>1. R \subseteq P0
    BY <1>10
  <2> QED BY <2>1, <1>1, <1>4, <1>6, <1>7, <1>8, <1>9 DEF GapsOK, P0
<1>13. WindowsOK(windows', P0', fate')
  <2>1. Took(P0, R, m.start, m.end, m.invalid - UsedOf(windows, m.start), x)
    BY <1>8 DEF u
  <2>2. w = [end |-> m.end, invalid |-> m.invalid, used |-> UsedOf(windows, m.start) + x, drops |-> m.drops]
    BY DEF w, u
  <2>3. WindowsOK(PutAt(windows, m.start, w), R, fate)
    BY ONLY <1>1, <1>2, <1>11, <2>1, <2>2, WindowsAfterReport
  <2> QED BY <2>3, <1>4, <1>6, <1>9
<1>14. UsedOK(windows', P0', fate')
  <2> DEFINE M == Missing(fate) \ P0
  <2>1. Blame(M, windows)
    BY <1>1 DEF UsedOK
  <2>2. E \cap M = {} /\ E \in SUBSET (s .. w.end) /\ w.end = m.end /\ w.used = u + Cardinality(E)
    BY <1>10 DEF w
  <2>3. s \in DOMAIN windows => windows[s].end \in Int /\ windows[s].end <= w.end /\ windows[s].used \in Nat
    BY <1>3, <2>2 DEF Growth
  <2>4. M \cup E = Missing(fate') \ P0'
    BY <1>4, <1>7, <1>9, <1>10
  <2> HIDE DEF M, s
  <2>5. Blame(M \cup E, PutAt(windows, s, w))
    BY <1>5, <2>1, <2>2, <2>3, BlameStep DEF u
  <2> QED BY <1>6, <2>4, <2>5 DEF UsedOK
<1>15. /\ AccountOK(b, P0) /\ b.windowDrops = count.windowDrops + m.drops - o.drops
       /\ b.unknown = count.unknown /\ b.suppressed = count.suppressed
       /\ b.attributed = count.attributed /\ b.counterDrops = count.counterDrops
  <2>1. /\ count \in Counts /\ Cardinality(P0) <= count.unknown
        /\ count.observed = count.intentional + count.unknown + count.suppressed + count.attributed
    BY <1>1 DEF AccountOK
  <2> DEFINE y == count.windowDrops + m.drops - o.drops
  <2>2. y \in Nat
    BY <1>5, <2>1 DEF Counts
  <2>3. b = [count EXCEPT !.windowDrops = y]
    OBVIOUS
  <2> HIDE DEF y, b, o
  <2>4. /\ b \in Counts /\ b.windowDrops = y /\ b.unknown = count.unknown
        /\ b.suppressed = count.suppressed /\ b.attributed = count.attributed
        /\ b.counterDrops = count.counterDrops /\ b.observed = count.observed
        /\ b.intentional = count.intentional
    BY <2>1, <2>2, <2>3 DEF Counts
  <2>5. AccountOK(b, P0)
    BY <2>1, <2>4 DEF AccountOK
  <2> QED BY <2>4, <2>5 DEF y, o
<1> HIDE DEF b
<1>16. /\ Moved(b, count', P0, R, x)
       /\ count'.suppressed = b.suppressed + x /\ count'.attributed = b.attributed
  <2> DEFINE d == Suppressed(b, x)
  <2>1. Moved(b, d, P0, R, x)
    BY <1>7, <1>8, <1>15, FramesMoved
  <2>2. d.suppressed = b.suppressed + x /\ d.attributed = b.attributed
    BY ONLY <1>7, <1>8, <1>15, FramesMoved
  <2> QED BY <1>6, <2>1, <2>2
<1>17. AccountOK(count', P0') /\ DropsOK(count', drop', fate')
  <2>1. count'.attributed = count.attributed /\ count'.counterDrops = count.counterDrops
    BY <1>15, <1>16 DEF Moved
  <2>2. DropsOK(count', drop', fate')
    BY <1>1, <1>4, <2>1 DEF DropsOK
  <2> QED BY <1>9, <1>16, <2>2 DEF Moved
<1>18. NoEpoch'
  <2> SUFFICES ASSUME "epoch" \notin witness
               PROVE  /\ Cardinality(P0') = count'.unknown
                      /\ count'.windowDrops = Cardinality(ReportedTo(windows', fate))
                      /\ "PERF" \notin witness => Credit(St, count'.suppressed, windows')
    BY <1>4 DEF NoEpoch, St
  <2>1. Cardinality(P0) = count.unknown /\ count.windowDrops = Cardinality(ReportedTo(windows, fate))
    BY <1>1 DEF NoEpoch
  <2>2. Cardinality(P0') = count'.unknown
    BY <1>9, <1>15, <1>16, <2>1 DEF Moved
  <2>3. Cardinality(ReportedTo(PutAt(windows, m.start, w), fate))
          = Cardinality(ReportedTo(windows, fate)) + m.drops - Known(windows, m).drops
    <3>1. w.end = m.end
      BY DEF w
    <3> QED BY <1>1, <1>2, <3>1, ReportedAfter
  <2>4. count'.windowDrops = Cardinality(ReportedTo(windows', fate))
    BY <1>6, <1>15, <1>16, <2>1, <2>3 DEF Moved
  <2>5. ASSUME "PERF" \notin witness PROVE Credit(St, count'.suppressed, windows')
    <3>1. Credit(St, count.suppressed, windows) /\ count.suppressed \in Nat
      BY <1>1, <2>5 DEF NoEpoch, St, AccountOK, Counts
    <3>2. IsFiniteSet(St)
      <4>1. Len(fate) \in Nat
        BY <1>1 DEF FateOK
      <4> QED BY <4>1, AtFinite DEF St
    <3>3. m.invalid <= Cardinality(St \cap Span(s))
      <4>1. m.end \in Span(s) /\ m.invalid = Cardinality(St \cap s .. m.end)
        BY <1>3 DEF Growth, St
      <4>2. St \cap s .. m.end \in SUBSET (St \cap Span(s))
        BY <1>5, <4>1, SpanType
      <4>3. St \cap Span(s) \in SUBSET St
        OBVIOUS
      <4>4. IsFiniteSet(St \cap Span(s))
        BY <3>2, <4>3, FS_Subset
      <4> QED BY <4>1, <4>2, <4>4, FS_Subset
    <3>4. Cardinality(St \cap Span(s)) \in Nat
      <4>1. St \cap Span(s) \in SUBSET St
        OBVIOUS
      <4> QED BY <3>2, <4>1, FS_Subset, FS_CardinalityType
    <3>5. w.used = u + x /\ w.used <= Cardinality(St \cap Span(s))
      BY <1>5, <1>11, <3>3, <3>4 DEF w
    <3>6. Credit(St, count.suppressed + x, PutAt(windows, s, w))
      BY <1>5, <1>11, <3>1, <3>2, <3>5, CreditStep DEF u
    <3> QED BY <1>6, <1>15, <1>16, <3>6
  <2> QED BY <2>2, <2>4, <2>5
<1>19. FateOK(fate') /\ Flags' /\ LastOK(fate', last', link', debug') /\ DiagOK' /\ ReportOK(report')
  BY <1>1, <1>4 DEF Flags, DiagOK
<1> QED
  BY <1>12, <1>13, <1>14, <1>17, <1>18, <1>19 DEF IInv

-----------------------------------------------------------------------------
(* PERF.                                                                   *)

\* What is taken is nothing when there is no evidence, and no more than the evidence otherwise.
LEMMA TookOrNot ==
  ASSUME NEW gs, GoodGaps(gs), NEW no \in BOOLEAN, NEW lower, NEW upper, NEW limit,
         ~no => lower \in Int /\ upper \in Int /\ limit \in Nat,
         NEW c, c = IF no THEN [taken |-> 0, rest |-> gs] ELSE ConsumeGaps(gs, lower, upper, limit)
  PROVE  /\ GoodGaps(c.rest) /\ c.taken \in Nat
         /\ no => c.taken = 0
         /\ ~no => c.taken <= limit
         /\ \E l, u, k : Took(AllMembers(gs), AllMembers(c.rest), l, u, k, c.taken)
<1>1. CASE no
  <2>1. c.taken = 0 /\ c.rest = gs
    BY <1>1
  <2> DEFINE A == AllMembers(gs)
  <2>2. {} \in SUBSET (A \cap 0 .. 0) /\ IsFiniteSet({}) /\ Cardinality({}) = 0 /\ A = A \ {}
    BY FS_EmptySet
  <2> HIDE DEF A
  <2>3. Took(A, A, 0, 0, 0, 0)
    BY <2>2 DEF Took
  <2> QED BY <1>1, <2>1, <2>3 DEF A
<1>2. CASE ~no
  <2> DEFINE d == ConsumeGaps(gs, lower, upper, limit)
  <2>1. lower \in Int /\ upper \in Int /\ limit \in Nat /\ GoodGaps(gs) /\ c = d
    BY <1>2
  <2>2. /\ d.taken \in 0 .. limit /\ GoodGaps(d.rest)
        /\ Took(AllMembers(gs), AllMembers(d.rest), lower, upper, limit, d.taken)
    BY ONLY <2>1, GapsTook
  <2> HIDE DEF d
  <2> QED BY <1>2, <2>1, <2>2
<1> QED
  BY <1>1, <1>2

\* What record_firmware_performance_counters did, if p is what it left and x the frames
\* it classified.
Closed(p, m, x) ==
  /\ GoodGaps(p.gaps) /\ AllMembers(p.gaps) \subseteq P0
  /\ Moved(count, p.count, P0, AllMembers(p.gaps), x)
  /\ p.count.suppressed = count.suppressed + x /\ p.count.attributed = count.attributed
  /\ p.seq \in Nat /\ ReportOK(p.report)
  /\ PerfOnly(count, report, m, fate) /\ m.kind = "PERF" /\ m # None
       => PerfOnly(p.count, p.report, None, fate)

\* It takes no more frames than PERF held back beyond those classified.
LEMMA Performance ==
  ASSUME NEW m, PerfReport(m, fate, drop), GoodGaps(gaps), AccountOK(count, P0), ReportOK(report),
         LastOK(fate, last, link, debug), FateOK(fate)
  PROVE  \E x \in Nat : Closed(AfterPerformance(m), m, x)
<1> DEFINE seq == IF last = None THEN m.frames ELSE AtMost(last, m.frames)
           restarted == report = None \/ m.frames < report.published \/ m.fresh < report.fresh
           more == AtLeast(0, count.suppressed - report.classified)
           delta == (m.frames - report.published) - (m.fresh - report.fresh) - more
           limit == AtLeast(0, delta)
           c == IF restarted THEN [taken |-> 0, rest |-> gaps]
                ELSE ConsumeGaps(gaps, report.seq + 1, seq, limit)
           x == c.taken
           d == Suppressed(count, x)
           p == AfterPerformance(m)
           R == AllMembers(c.rest)
<1>1. p = [gaps |-> c.rest, count |-> d, seq |-> seq,
           report |-> [published |-> m.frames, fresh |-> m.fresh, seq |-> seq, classified |-> d.suppressed]]
  BY DEF AfterPerformance
<1>2. m.frames \in Nat /\ m.fresh \in Nat /\ m.frames - m.fresh <= Cardinality(At(fate, "stale"))
  BY DEF PerfReport
<1>3. seq \in Nat
  <2>1. last # None => last \in 1 .. Len(fate) /\ Len(fate) \in Nat
    BY DEF LastOK, FateOK
  <2> QED BY <1>2, <2>1 DEF AtMost
<1>4. count \in Counts /\ count.suppressed \in Nat
  BY DEF AccountOK, Counts
<1>5. restarted \in BOOLEAN
  OBVIOUS
<1>6. ~restarted => /\ report \in [published : Nat, fresh : Nat, seq : Nat, classified : Nat]
                    /\ more \in Nat /\ delta \in Int /\ limit \in Nat /\ report.seq + 1 \in Int
  <2> SUFFICES ASSUME ~restarted
               PROVE  /\ report \in [published : Nat, fresh : Nat, seq : Nat, classified : Nat]
                      /\ more \in Nat /\ delta \in Int /\ limit \in Nat /\ report.seq + 1 \in Int
    OBVIOUS
  <2>1. report \in [published : Nat, fresh : Nat, seq : Nat, classified : Nat]
    BY DEF ReportOK
  <2>2. more \in Nat
    BY <1>4, <2>1 DEF AtLeast
  <2> HIDE DEF more
  <2>3. delta \in Int
    BY <1>2, <2>1, <2>2
  <2> HIDE DEF delta
  <2>4. limit \in Nat
    BY <2>3 DEF AtLeast
  <2> QED BY <2>1, <2>2, <2>3, <2>4
<1> HIDE DEF seq, restarted
<1>7. /\ GoodGaps(c.rest) /\ x \in Nat /\ (restarted => x = 0) /\ (~restarted => x <= limit)
      /\ \E l, u, k : Took(P0, R, l, u, k, x)
  <2> DEFINE l == report.seq + 1
  <2>0. c = IF restarted THEN [taken |-> 0, rest |-> gaps] ELSE ConsumeGaps(gaps, l, seq, limit)
    OBVIOUS
  <2>3. GoodGaps(gaps) /\ (~restarted => l \in Int /\ seq \in Int /\ limit \in Nat)
    BY <1>3, <1>6
  <2> HIDE DEF c, l, limit
  <2>1. \E a, b, k : Took(AllMembers(gaps), AllMembers(c.rest), a, b, k, c.taken)
    BY ONLY <1>5, <2>0, <2>3, TookOrNot
  <2>2. GoodGaps(c.rest) /\ c.taken \in Nat /\ (restarted => c.taken = 0) /\ (~restarted => c.taken <= limit)
    BY ONLY <1>5, <2>0, <2>3, TookOrNot
  <2> QED BY <2>1, <2>2 DEF P0
<1> HIDE DEF c
<1>8. IsFiniteSet(P0)
  BY SizesCount DEF P0
<1>9. Moved(count, d, P0, R, x) /\ d.suppressed = count.suppressed + x /\ d.attributed = count.attributed
      /\ R \subseteq P0
  <2>1. PICK l, u, k : Took(P0, R, l, u, k, x)
    BY <1>7
  <2>2. AccountOK(count, P0)
    OBVIOUS
  <2>3. /\ Moved(count, Suppressed(count, x), P0, R, x)
        /\ Suppressed(count, x).suppressed = count.suppressed + x
        /\ Suppressed(count, x).attributed = count.attributed
    BY ONLY <1>8, <2>1, <2>2, FramesMoved
  <2>4. R \subseteq P0
    BY <2>1, TookSubset
  <2> QED BY <2>3, <2>4
<1> HIDE DEF x, d
<1>10. d.suppressed \in Nat
  BY <1>4, <1>7, <1>9
<1>11. ReportOK(p.report) /\ p.report.published = m.frames /\ p.report.fresh = m.fresh
  <2> DEFINE q == [published |-> m.frames, fresh |-> m.fresh, seq |-> seq, classified |-> d.suppressed]
  <2>1. q \in [published : Nat, fresh : Nat, seq : Nat, classified : Nat]
    BY <1>2, <1>3, <1>10
  <2>2. p.report = q /\ q.published = m.frames /\ q.fresh = m.fresh
    BY <1>1
  <2> HIDE DEF q, p
  <2> QED BY <2>1, <2>2 DEF ReportOK
<1>12. ASSUME PerfOnly(count, report, m, fate), m.kind = "PERF", m # None
       PROVE  PerfOnly(d, p.report, None, fate)
  <2>1. count.suppressed <= m.frames - m.fresh
    BY <1>12 DEF PerfOnly
  <2>2. d.suppressed <= m.frames - m.fresh
    <3>1. CASE restarted
      <4>1. d.suppressed = count.suppressed
        BY <1>4, <1>7, <1>9, <3>1
      <4> QED BY <2>1, <4>1
    <3>2. CASE ~restarted
      <4>1. report # None
        BY <3>2 DEF restarted
      <4>2. count.suppressed <= report.published - report.fresh
        BY <1>12, <4>1 DEF PerfOnly
      <4>3. report.published \in Nat /\ report.fresh \in Nat /\ more \in Nat /\ delta \in Int
        BY <1>6, <3>2
      <4> HIDE DEF more
      <4>4. delta = (m.frames - report.published) - (m.fresh - report.fresh) - more
        OBVIOUS
      <4>5. x <= AtLeast(0, delta)
        BY <1>7, <3>2
      <4> HIDE DEF delta
      <4>6. x = 0 \/ x <= delta
        BY <1>7, <4>3, <4>5 DEF AtLeast
      <4>7. CASE x = 0
        <5>1. d.suppressed = count.suppressed
          BY <1>4, <1>9, <4>7
        <5> QED BY <2>1, <5>1
      <4>8. CASE x <= delta
        BY <1>2, <1>4, <1>7, <1>9, <4>2, <4>3, <4>4, <4>8
      <4> QED BY <4>6, <4>7, <4>8
    <3> QED BY <3>1, <3>2
  <2>3. Cardinality(At(fate, "stale")) \in Nat
    <3>1. Len(fate) \in Nat
      BY DEF FateOK
    <3> QED BY <3>1, AtFinite
  <2>4. d.suppressed <= Cardinality(At(fate, "stale"))
    BY <1>2, <1>10, <2>2, <2>3
  <2> QED BY <1>11, <2>2, <2>4 DEF PerfOnly
<1>13. p.gaps = c.rest /\ p.count = d /\ p.seq = seq
  BY <1>1
<1> HIDE DEF p
<1>14. Closed(p, m, x)
  BY <1>3, <1>7, <1>9, <1>11, <1>12, <1>13 DEF Closed
<1> QED
  BY <1>7, <1>14 DEF p

\* What record_firmware_drop_report did: y frames are attributed.
Charged(d, p, y) ==
  /\ GoodGaps(d.gaps) /\ AllMembers(d.gaps) \subseteq AllMembers(p.gaps)
  /\ AccountOK(d.count, AllMembers(d.gaps))
  /\ d.count.unknown = p.count.unknown - y
  /\ Cardinality(AllMembers(d.gaps)) = Cardinality(AllMembers(p.gaps)) - y
  /\ d.count.windowDrops = p.count.windowDrops /\ d.count.suppressed = p.count.suppressed
  /\ DropsOK(d.count, d.drop, fate)

\* It attributes no more frames than PERF counted drops.
LEMMA DropReport ==
  ASSUME NEW m, PerfReport(m, fate, drop), FateOK(fate), NEW p, GoodGaps(p.gaps), p.seq \in Nat,
         AccountOK(p.count, AllMembers(p.gaps)), DropsOK(p.count, drop, fate)
  PROVE  \E y \in Nat : Charged(AfterDrops(p, m), p, y)
<1> DEFINE delta == IF drop = None THEN 0 ELSE AtLeast(0, m.drops - drop.total)
           b == [p.count EXCEPT !.counterDrops = @ + delta]
           more == AtLeast(0, TransportDrop(b) - b.attributed)
           limit == AtMost(delta, more)
           lower == drop.seq + 1
           none == delta = 0
           c == IF none THEN [taken |-> 0, rest |-> p.gaps] ELSE ConsumeGaps(p.gaps, lower, p.seq, limit)
           y == c.taken
           e == Attributed(b, y)
           d == AfterDrops(p, m)
           Q == AllMembers(p.gaps)
           R == AllMembers(c.rest)
<1>1. d = [gaps |-> c.rest, count |-> e, drop |-> [total |-> m.drops, seq |-> p.seq]]
  BY DEF AfterDrops
<1>2. m.drops \in Nat /\ m.drops <= Cardinality(At(fate, "dropped")) /\ (drop # None => drop.total <= m.drops)
  BY DEF PerfReport
<1>3. /\ p.count \in Counts /\ Cardinality(Q) <= p.count.unknown
      /\ p.count.observed = p.count.intentional + p.count.unknown + p.count.suppressed + p.count.attributed
  BY DEF AccountOK
<1>4. /\ p.count.attributed <= p.count.counterDrops
      /\ drop = None => p.count.counterDrops = 0
      /\ drop # None => /\ drop.total \in Nat /\ drop.seq \in Nat /\ p.count.counterDrops <= drop.total
  <2>1. drop # None => drop \in [total : Nat, seq : Nat] /\ p.count.counterDrops <= drop.total
    BY DEF DropsOK
  <2>2. drop # None => drop.total \in Nat /\ drop.seq \in Nat
    BY <2>1
  <2> QED BY <2>1, <2>2 DEF DropsOK
<1>5. delta \in Nat /\ (drop = None => delta = 0) /\ (drop # None => delta = m.drops - drop.total)
  BY <1>2, <1>4 DEF AtLeast
<1>6. p.count.counterDrops \in Nat /\ p.count.attributed \in Nat /\ p.count.counterDrops + delta \in Nat
      /\ p.count.counterDrops + delta <= m.drops
  <2>1. p.count.counterDrops \in Nat /\ p.count.attributed \in Nat
    BY <1>3 DEF Counts
  <2> QED BY <2>1, <1>2, <1>4, <1>5
<1> HIDE DEF delta
<1>7. /\ b \in Counts /\ b.counterDrops = p.count.counterDrops + delta /\ b.windowDrops = p.count.windowDrops
      /\ b.attributed = p.count.attributed /\ b.unknown = p.count.unknown /\ b.suppressed = p.count.suppressed
      /\ AccountOK(b, Q)
  <2> DEFINE k == p.count.counterDrops + delta
             q == p.count
  <2>1. b = [q EXCEPT !.counterDrops = k]
    OBVIOUS
  <2>2. q \in Counts /\ k \in Nat
    BY <1>3, <1>6
  <2> HIDE DEF b, k, q
  <2>3. /\ b \in Counts /\ b.counterDrops = k /\ b.windowDrops = q.windowDrops /\ b.observed = q.observed
        /\ b.attributed = q.attributed /\ b.unknown = q.unknown /\ b.suppressed = q.suppressed
        /\ b.intentional = q.intentional
    BY <2>1, <2>2 DEF Counts
  <2>4. AccountOK(b, Q)
    BY <1>3, <2>3 DEF AccountOK, q
  <2> QED BY <2>3, <2>4 DEF k, q
<1> HIDE DEF b
<1>8. more \in Nat
  <2>1. b.windowDrops \in Nat /\ b.counterDrops \in Nat /\ b.attributed \in Nat
    BY <1>7 DEF Counts
  <2>2. TransportDrop(b) \in Nat
    BY <2>1 DEF TransportDrop, AtLeast
  <2> QED BY <2>1, <2>2 DEF AtLeast
<1> HIDE DEF more
<1>9. limit \in Nat /\ limit <= delta /\ (~none => lower \in Int)
  <2>1. limit \in Nat /\ limit <= delta
    BY <1>5, <1>8 DEF AtMost
  <2>2. ~none => lower \in Int
    BY <1>4, <1>5
  <2> QED BY <2>1, <2>2
<1>10. none \in BOOLEAN /\ p.seq \in Int /\ GoodGaps(p.gaps)
  OBVIOUS
<1>11. c = IF none THEN [taken |-> 0, rest |-> p.gaps] ELSE ConsumeGaps(p.gaps, lower, p.seq, limit)
  OBVIOUS
<1> HIDE DEF c, lower, limit, none
<1>12. GoodGaps(c.rest) /\ c.taken \in Nat /\ (none => c.taken = 0) /\ (~none => c.taken <= limit)
  BY ONLY <1>9, <1>10, <1>11, TookOrNot
<1>13. \E l, u, k : Took(AllMembers(p.gaps), AllMembers(c.rest), l, u, k, c.taken)
  BY ONLY <1>9, <1>10, <1>11, TookOrNot
<1>14. y \in Nat /\ y <= delta
  BY <1>5, <1>9, <1>12
<1>15. IsFiniteSet(Q)
  BY SizesCount
<1> HIDE DEF y, e, R, Q
<1>16. Moved(b, e, Q, R, y) /\ e.suppressed = b.suppressed /\ e.attributed = b.attributed + y /\ R \subseteq Q
  <2>1. PICK l, u, k : Took(Q, R, l, u, k, y)
    BY <1>13 DEF Q, R, y
  <2>2. /\ Moved(b, Attributed(b, y), Q, R, y)
        /\ Attributed(b, y).suppressed = b.suppressed
        /\ Attributed(b, y).attributed = b.attributed + y
    BY ONLY <1>7, <1>15, <2>1, FramesMoved
  <2>3. R \subseteq Q
    BY <2>1, TookSubset
  <2> QED BY <2>2, <2>3 DEF e
<1>17. e.counterDrops = p.count.counterDrops + delta /\ e.windowDrops = p.count.windowDrops
       /\ e.suppressed = p.count.suppressed /\ e.attributed = p.count.attributed + y
       /\ e.unknown = p.count.unknown - y /\ Cardinality(R) = Cardinality(Q) - y /\ AccountOK(e, R)
  BY <1>7, <1>16 DEF Moved
<1>18. Cardinality(At(fate, "dropped")) \in Nat
  <2>1. Len(fate) \in Nat
    BY DEF FateOK
  <2> QED BY <1>2, <2>1, AtFinite
<1>19. d.gaps = c.rest /\ d.count = e /\ d.drop = [total |-> m.drops, seq |-> p.seq]
  BY <1>1
<1> HIDE DEF d
<1>20. DropsOK(d.count, d.drop, fate)
  <2> DEFINE q == [total |-> m.drops, seq |-> p.seq]
  <2>1. q \in [total : Nat, seq : Nat] /\ q.total = m.drops
    BY <1>2
  <2>2. e.attributed <= e.counterDrops /\ e.counterDrops <= m.drops
    BY <1>4, <1>5, <1>6, <1>14, <1>17
  <2>3. d.drop = q
    BY <1>19
  <2>4. q # None
    BY <2>1, NoneAssumption
  <2> HIDE DEF q
  <2> QED BY <1>2, <1>19, <2>1, <2>2, <2>3, <2>4 DEF DropsOK
<1>21. Charged(d, p, y)
  BY <1>12, <1>16, <1>17, <1>19, <1>20 DEF Charged, Q, R
<1> QED
  BY <1>14, <1>21 DEF d

\* record_firmware_performance_counters and record_firmware_drop_report together.
LEMMA ReceivePerfInv == IInv /\ ReceivePerf => IInv'
<1> SUFFICES ASSUME IInv, ReceivePerf PROVE IInv'
  OBVIOUS
<1> DEFINE m == diag
           p == AfterPerformance(m)
           d == AfterDrops(p, m)
           Q == AllMembers(p.gaps)
           R == AllMembers(d.gaps)
<1>1. /\ FateOK(fate) /\ Flags /\ LastOK(fate, last, link, debug) /\ GapsOK(gaps, fate, last)
      /\ WindowsOK(windows, P0, fate) /\ UsedOK(windows, P0, fate) /\ DiagOK /\ AccountOK(count, P0)
      /\ DropsOK(count, drop, fate) /\ ReportOK(report) /\ NoEpoch
  BY DEF IInv
<1>2. PerfReport(m, fate, drop) /\ m # None /\ m.kind = "PERF"
  BY <1>1 DEF ReceivePerf, DiagOK
<1>3. /\ UNCHANGED <<fate, link, debug, last, windows>> /\ diag' = None
      /\ witness' = witness \cup {"PERF"}
      /\ report' = p.report /\ drop' = d.drop /\ gaps' = d.gaps /\ count' = d.count
  BY DEF ReceivePerf, RecordPerf
<1>4. GoodGaps(gaps)
  BY <1>1 DEF GapsOK
<1>5. PICK x \in Nat : Closed(p, m, x)
  BY <1>1, <1>2, <1>4, Performance
<1> HIDE DEF p
<1>6. /\ GoodGaps(p.gaps) /\ Q \subseteq P0
      /\ AccountOK(p.count, Q) /\ p.count.unknown = count.unknown - x /\ Cardinality(Q) = Cardinality(P0) - x
      /\ p.count.windowDrops = count.windowDrops /\ p.count.counterDrops = count.counterDrops
      /\ p.count.suppressed = count.suppressed + x /\ p.count.attributed = count.attributed
      /\ p.seq \in Nat /\ ReportOK(p.report)
      /\ PerfOnly(count, report, m, fate) => PerfOnly(p.count, p.report, None, fate)
  BY <1>2, <1>5 DEF Closed, Moved
<1>7. DropsOK(p.count, drop, fate)
  BY <1>1, <1>6 DEF DropsOK
<1>8. PICK y \in Nat : Charged(d, p, y)
  BY <1>1, <1>2, <1>6, <1>7, DropReport
<1> HIDE DEF d
<1>9. /\ GoodGaps(d.gaps) /\ R \subseteq P0 /\ AccountOK(d.count, R)
      /\ d.count.unknown = count.unknown - x - y /\ Cardinality(R) = Cardinality(P0) - x - y
      /\ d.count.windowDrops = count.windowDrops /\ d.count.suppressed = p.count.suppressed
      /\ DropsOK(d.count, d.drop, fate)
  BY <1>6, <1>8 DEF Charged
<1>10. P0' = R
  BY <1>3 DEF P0
<1>11. GapsOK(gaps', fate', last')
  <2>1. P0 \subseteq Missing(fate) /\ (last # None => \A n \in P0 : n < last)
    BY <1>1 DEF GapsOK, P0
  <2> QED BY <2>1, <1>3, <1>9 DEF GapsOK
<1>12. WindowsOK(windows', P0', fate')
  <2>1. \A s \in DOMAIN windows : Exhausted(P0, s, windows[s]) => Exhausted(R, s, windows[s])
    BY <1>9 DEF Exhausted
  <2> QED BY <2>1, <1>1, <1>3, <1>10 DEF WindowsOK
<1>13. UsedOK(windows', P0', fate')
  <2>1. Missing(fate) \ P0 \subseteq Missing(fate) \ R
    BY <1>9
  <2> QED BY <2>1, <1>1, <1>3, <1>10, BlameGrows DEF UsedOK
<1>14. AccountOK(count', P0') /\ DropsOK(count', drop', fate') /\ ReportOK(report')
  BY <1>3, <1>6, <1>9, <1>10
<1>15. NoEpoch'
  <2> SUFFICES ASSUME "epoch" \notin witness
               PROVE  /\ Cardinality(R) = d.count.unknown
                      /\ d.count.windowDrops = Cardinality(ReportedTo(windows, fate))
                      /\ "SF50" \notin witness => windows = <<>> /\ PerfOnly(d.count, p.report, None, fate)
    BY <1>3, <1>10 DEF NoEpoch
  <2>1. PerfOnly(p.count, p.report, None, fate) => PerfOnly(d.count, p.report, None, fate)
    BY <1>9 DEF PerfOnly
  <2> QED BY <1>1, <1>6, <1>9, <2>1 DEF NoEpoch
<1>16. FateOK(fate') /\ Flags' /\ LastOK(fate', last', link', debug') /\ DiagOK'
  BY <1>1, <1>3 DEF Flags, DiagOK
<1> QED
  BY <1>11, <1>12, <1>13, <1>14, <1>15, <1>16 DEF IInv

-----------------------------------------------------------------------------
(* The theorems.                                                           *)

\* A physical frame, heard or not.
LEMMA FrameInv == IInv /\ Frame => IInv'
<1> SUFFICES ASSUME IInv, Frame PROVE IInv'
  OBVIOUS
<1>1. PICK f \in Fates :
        /\ fate' = Append(fate, f)
        /\ IF f = "heard" THEN RecordFrame(Seq0 + 1) ELSE UNCHANGED <<last, gaps, windows, count>>
  BY DEF Frame
<1>2. Len(fate) < MaxSeq /\ UNCHANGED <<link, debug, diag, report, drop, witness>>
  BY DEF Frame, Seq0
<1>3. CASE f # "heard"
  <2>1. UNCHANGED <<link, debug, diag, store, witness>>
    BY <1>1, <1>2, <1>3 DEF store
  <2> QED BY <1>1, <1>2, <1>3, <2>1, UnheardFrameInv
<1>4. CASE f = "heard"
  <2>1. "heard" \in Fates /\ fate' = Append(fate, "heard") /\ RecordFrame(Len(fate) + 1)
    BY <1>1, <1>4 DEF Seq0
  <2>2. last # None => last \in 1 .. Len(fate) /\ Len(fate) \in Nat
    BY DEF IInv, LastOK, FateOK
  <2>3. CASE last # None /\ last < Len(fate)
    BY <1>2, <2>1, <2>3, GapFrameInv
  <2>4. CASE ~(last # None /\ last < Len(fate))
    <3>1. last = None \/ Len(fate) + 1 <= last + 1
      BY <2>2, <2>4
    <3>2. last' = Len(fate) + 1 /\ UNCHANGED <<gaps, windows, count>>
      BY <2>1, <3>1 DEF RecordFrame
    <3> QED BY <1>2, <2>1, <3>2, HeardFrameInv
  <2> QED BY <2>3, <2>4
<1> QED
  BY <1>3, <1>4

\* Every step keeps the invariant.
LEMMA NextInv == IInv /\ [Next]_vars => IInv'
<1> SUFFICES ASSUME IInv, [Next]_vars PROVE IInv'
  OBVIOUS
<1>1. CASE Frame
  BY <1>1, FrameInv
<1>2. CASE SendWindow
  BY <1>2, SendWindowInv
<1>3. CASE SendPerf
  BY <1>3, SendPerfInv
<1>4. CASE ReceiveWindow
  BY <1>4, ReceiveWindowInv
<1>5. CASE ReceivePerf
  BY <1>5, ReceivePerfInv
<1>6. CASE Break
  BY <1>6, BreakInv
<1>7. CASE Reconnect
  BY <1>7, ReconnectInv
<1>8. CASE SetPolicy
  BY <1>8, SetPolicyInv
<1>9. CASE UNCHANGED vars
  BY <1>9, StutterInv
<1> QED
  BY <1>1, <1>2, <1>3, <1>4, <1>5, <1>6, <1>7, <1>8, <1>9 DEF Next

\* The invariant holds in every reachable state of the device and the store.
THEOREM Inductive == Spec => []IInv
<1> QED BY InitInv, NextInv, PTL DEF Spec

\* What the invariant says of the types,
LEMMA TypeFromInv == IInv => TypeOK
<1> SUFFICES ASSUME IInv PROVE TypeOK
  OBVIOUS
<1>1. FateOK(fate) /\ LastOK(fate, last, link, debug) /\ GapsOK(gaps, fate, last) /\ WindowsOK(windows, P0, fate)
      /\ AccountOK(count, P0) /\ DropsOK(count, drop, fate) /\ ReportOK(report)
  BY DEF IInv
<1>2. Len(fate) \in Nat /\ Len(fate) <= MaxSeq /\ MaxSeq \in Nat /\ WindowSize \in Nat
  BY <1>1, BoundsAssumption, SizesAssumption DEF FateOK
<1>3. last \in {None} \cup 1 .. MaxSeq
  BY <1>1, <1>2 DEF LastOK
<1>4. \A i \in DOMAIN gaps : gaps[i] # <<>> /\ \A j \in DOMAIN gaps[i] : gaps[i][j] \in Segs
  <2>1. gaps \in Seq(Seq(Segs)) /\ \A i \in DOMAIN gaps : gaps[i] # <<>>
    BY <1>1 DEF GapsOK, GoodGaps
  <2>2. \A i \in DOMAIN gaps : gaps[i] \in Seq(Segs)
    BY <2>1
  <2>3. \A i \in DOMAIN gaps : \A j \in DOMAIN gaps[i] : gaps[i][j] \in Segs
    BY <2>2
  <2> QED BY <2>1, <2>3
<1>5. ASSUME NEW s \in DOMAIN windows
      PROVE  windows[s] \in [end : s .. MaxSeq, invalid : 0 .. WindowSize, used : 0 .. WindowSize,
                             drops : 0 .. WindowSize]
  <2> DEFINE w == windows[s]
             St == At(fate, "stale")
             Dr == At(fate, "dropped")
  <2>1. /\ s \in Starts /\ w \in [end : Span(s), invalid : Nat, used : Nat, drops : Nat]
        /\ w.used <= w.invalid /\ w.end <= Len(fate)
        /\ w.invalid = Cardinality(St \cap s .. w.end) /\ w.drops = Cardinality(Dr \cap s .. w.end)
    BY <1>1 DEF WindowsOK, GoodWindows, InPart
  <2>2. w.end \in Int /\ w.end >= s /\ s .. w.end \subseteq Span(s) /\ s \in Int
    BY <2>1, SpanType, StartsType
  <2>3. IsFiniteSet(Span(s)) /\ Cardinality(Span(s)) = WindowSize
    <3>1. s + WindowSize - 1 \in Int /\ (s + WindowSize - 1) - s + 1 = WindowSize
      BY <1>2, <2>2
    <3>2. s <= s + WindowSize - 1
      BY <1>2, <2>2, SizesAssumption
    <3> QED BY <2>2, <3>1, <3>2, FS_Interval DEF Span
  <2> HIDE DEF St, Dr
  <2>4. \A S : Cardinality(S \cap s .. w.end) <= WindowSize
    <3> SUFFICES ASSUME NEW S PROVE Cardinality(S \cap s .. w.end) <= WindowSize
      OBVIOUS
    <3>1. S \cap s .. w.end \in SUBSET Span(s)
      BY <2>2
    <3> QED BY <2>3, <3>1, FS_Subset
  <2>5. w.invalid <= WindowSize /\ w.drops <= WindowSize
    BY <2>1, <2>4
  <2> HIDE DEF w
  <2>6. w.end \in s .. MaxSeq /\ w.invalid \in 0 .. WindowSize /\ w.used \in 0 .. WindowSize
        /\ w.drops \in 0 .. WindowSize
    BY <1>2, <2>1, <2>2, <2>5
  <2>7. w \in [end : s .. MaxSeq, invalid : 0 .. WindowSize, used : 0 .. WindowSize, drops : 0 .. WindowSize]
    BY <2>1, <2>6
  <2> QED BY <2>7 DEF w
<1>6. count \in [DOMAIN ZeroCounts -> Nat]
  BY <1>1 DEF AccountOK, Counts, ZeroCounts
<1>7. /\ report # None => report \in [published : Nat, fresh : Nat, seq : Nat, classified : Nat]
      /\ drop # None => drop \in [total : Nat, seq : Nat]
  BY <1>1 DEF ReportOK, DropsOK
<1> QED
  BY <1>3, <1>4, <1>5, <1>6, <1>7 DEF TypeOK, Segs

\* of the open gaps,
LEMMA OpenFromInv == IInv => OpenGapsAreMissing
<1> SUFFICES ASSUME IInv PROVE OpenGapsAreMissing
  OBVIOUS
<1>1. GoodGaps(gaps) /\ P0 \subseteq Missing(fate) /\ AccountOK(count, P0) /\ NoEpoch
  BY DEF IInv, GapsOK, P0
<1>2. Pending = P0
  BY DEF Pending, P0, AllMembers
<1>3. Sizes(gaps) = Cardinality(P0)
  BY <1>1, SizesCount DEF P0
<1>4. \A n \in P0 : fate[n] \in Unsent
  BY <1>1 DEF Missing
<1> QED
  BY <1>1, <1>2, <1>3, <1>4 DEF OpenGapsAreMissing, AccountOK, NoEpoch, Unsent

\* of the evidence, where reports of one kind only came on the link,
LEMMA EvidenceFromInv == IInv => EvidenceSpentOnce
<1> SUFFICES ASSUME IInv PROVE EvidenceSpentOnce
  OBVIOUS
<1> DEFINE a == Cardinality(At(fate, "dropped"))
           b == Cardinality(At(fate, "stale"))
<1>1. FateOK(fate) /\ Flags /\ AccountOK(count, P0) /\ DropsOK(count, drop, fate) /\ NoEpoch
  BY DEF IInv
<1>2. a \in Nat /\ b \in Nat /\ IsFiniteSet(At(fate, "dropped")) /\ IsFiniteSet(At(fate, "stale"))
  <2>1. Len(fate) \in Nat
    BY <1>1 DEF FateOK
  <2> QED BY <2>1, AtFinite
<1>3. a = Cardinality(Frames("dropped")) /\ b = Cardinality(Frames("stale"))
  BY FramesAt
<1> HIDE DEF a, b
<1>4. /\ count.attributed \in Nat /\ count.counterDrops \in Nat
      /\ count.windowDrops \in Nat /\ count.suppressed \in Nat
  BY <1>1 DEF AccountOK, Counts
<1>5. count.attributed <= count.counterDrops /\ count.counterDrops <= a
  <2>1. drop # None => drop.total \in Nat
    BY <1>1 DEF DropsOK
  <2> QED BY <1>1, <1>2, <1>4, <2>1 DEF DropsOK, a
<1>6. count.attributed <= AtMost(TransportDrop(count), a)
  BY <1>2, <1>4, <1>5 DEF AtMost, AtLeast, TransportDrop
<1>7. ASSUME "epoch" \notin witness PROVE TransportDrop(count) <= a
  <2>1. ReportedTo(windows, fate) \in SUBSET At(fate, "dropped")
    BY DEF ReportedTo
  <2>2. count.windowDrops <= a
    BY <1>1, <1>2, <1>7, <2>1, FS_Subset DEF NoEpoch, a
  <2> QED BY <1>2, <1>4, <1>5, <2>2 DEF TransportDrop, AtLeast
<1>8. ASSUME "epoch" \notin witness, Cardinality(witness) <= 1 PROVE count.suppressed <= b
  <2>1. "SF50" \notin witness \/ "PERF" \notin witness
    <3> SUFFICES ASSUME "SF50" \in witness, "PERF" \in witness PROVE FALSE
      OBVIOUS
    <3>1. witness = {"SF50", "PERF"}
      BY <1>1, <1>8 DEF Flags
    <3>2. Cardinality({"SF50", "PERF"}) = 2
      <4>1. IsFiniteSet({"SF50"}) /\ Cardinality({"SF50"}) = 1
        BY FS_Singleton
      <4>2. "PERF" \notin {"SF50"} /\ {"SF50"} \cup {"PERF"} = {"SF50", "PERF"}
        OBVIOUS
      <4>3. Cardinality({"SF50"} \cup {"PERF"}) = Cardinality({"SF50"}) + 1
        BY <4>1, <4>2, FS_AddElement
      <4> QED BY <4>1, <4>2, <4>3
    <3> QED BY <1>8, <3>1, <3>2
  <2>2. CASE "SF50" \notin witness
    BY <1>1, <1>8, <2>2 DEF NoEpoch, PerfOnly, b
  <2>3. CASE "PERF" \notin witness
    <3>1. PICK D \in SUBSET At(fate, "stale") : Cardinality(D) = count.suppressed
      BY <1>1, <1>8, <2>3 DEF NoEpoch, Credit
    <3> QED BY <1>2, <3>1, FS_Subset DEF b
  <2> QED BY <2>1, <2>2, <2>3
<1> QED
  BY <1>3, <1>6, <1>7, <1>8 DEF EvidenceSpentOnce

\* and of windows that reported all that is missing: each has explained as many missing
\* frames as it held back, hence all of them.
LEMMA ExplainFromInv == IInv => WindowsExplain
<1> SUFFICES ASSUME IInv, "epoch" \notin witness,
                    \A n \in Missed : fate[n] = "thinned" \/ (fate[n] = "stale" /\ Reported(n))
             PROVE  count.unknown = 0
  BY DEF WindowsExplain
<1> DEFINE St == At(fate, "stale")
<1>1. /\ FateOK(fate) /\ P0 \subseteq Missing(fate) /\ WindowsOK(windows, P0, fate)
      /\ UsedOK(windows, P0, fate) /\ Cardinality(P0) = count.unknown
  BY DEF IInv, GapsOK, NoEpoch, P0
<1>2. \A n \in Missing(fate) : n \in St /\ Reported(n) /\ n \in Int
  <2> SUFFICES ASSUME NEW n \in Missing(fate) PROVE n \in St /\ Reported(n) /\ n \in Int
    OBVIOUS
  <2>1. n \in 1 .. Len(fate) /\ fate[n] \in Unsent /\ \E m \in At(fate, "heard") : m > n
    BY DEF Missing
  <2>2. n \in Missed
    BY <2>1, FramesAt DEF Missed, Seq0, Unsent
  <2>3. fate[n] = "stale" /\ Reported(n)
    BY <2>1, <2>2 DEF Unsent
  <2> QED BY <2>1, <2>3 DEF At
<1>3. ASSUME NEW n \in P0 PROVE FALSE
  <2>1. n \in St /\ Reported(n) /\ n \in Int
    BY <1>1, <1>2
  <2>2. PICK s \in DOMAIN windows : s <= n /\ n <= windows[s].end
    BY <2>1 DEF Reported
  <2> DEFINE I == s .. windows[s].end
  <2>3. s \in Int /\ windows[s].end \in Int /\ windows[s].invalid = Cardinality(St \cap I)
    <3>1. s \in Starts /\ windows[s].end \in Span(s) /\ windows[s].invalid = Cardinality(St \cap I)
      BY <1>1 DEF WindowsOK, GoodWindows
    <3> QED BY <3>1, StartsType, SpanType
  <2>4. n \in I
    BY <2>1, <2>2, <2>3
  <2>5. windows[s].used = windows[s].invalid
    BY <1>1, <2>4 DEF WindowsOK, Exhausted
  <2>6. PICK E \in [DOMAIN windows -> SUBSET (Missing(fate) \ P0)] : \A t \in DOMAIN windows :
          Cardinality(E[t]) = windows[t].used /\ E[t] \subseteq t .. windows[t].end
    BY <1>1 DEF UsedOK, Blame
  <2>7. E[s] \in SUBSET (Missing(fate) \ P0) /\ Cardinality(E[s]) = windows[s].used /\ E[s] \subseteq I
    BY <2>6
  <2>8. E[s] \in SUBSET (St \cap I) /\ n \notin E[s] /\ n \in St \cap I
    BY <1>2, <2>1, <2>4, <2>7
  <2>9. IsFiniteSet(St \cap I)
    <3>1. Len(fate) \in Nat
      BY <1>1 DEF FateOK
    <3>2. IsFiniteSet(St)
      BY <3>1, AtFinite
    <3>3. St \cap I \in SUBSET St
      OBVIOUS
    <3> QED BY <3>2, <3>3, FS_Subset
  <2> HIDE DEF St, I
  <2>10. E[s] = St \cap I
    BY <2>3, <2>5, <2>7, <2>8, <2>9, FS_Subset
  <2> QED BY <2>8, <2>10
<1>4. P0 = {}
  BY <1>3
<1> QED
  BY <1>1, <1>4, FS_EmptySet

\* The store keeps its types: segments stay within the frames of the device, and a
\* window never explains more frames than it has.
THEOREM TypeCorrect == Spec => []TypeOK
<1> QED BY Inductive, TypeFromInv, PTL
\* Every missing number is in exactly one account, the sizes of the open gaps are
\* those of sets of frames that the host never got, and on one link they are what is
\* unknown: for every window size, data_every and order of the reports.
THEOREM GapsAreMissing == Spec => []OpenGapsAreMissing
<1> QED BY Inductive, OpenFromInv, PTL
\* No drop is attributed or displayed twice, and repeated, growing reports of one kind
\* excuse no more frames than the firmware held back.
THEOREM EvidenceOnce == Spec => []EvidenceSpentOnce
<1> QED BY Inductive, EvidenceFromInv, PTL
\* On one link without losses no gap stays unexplained once the windows reported up to
\* it, whatever came first.
THEOREM WindowsSuffice == Spec => []WindowsExplain
<1> QED BY Inductive, ExplainFromInv, PTL
================================================================================
