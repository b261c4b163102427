---------------------------- MODULE SpeechProofs ----------------------------
(***************************************************************************)
(* Proofs about the general caches (SpeechCache), for any pipelines, texts,*)
(* wordings and sounds.                                                    *)
(***************************************************************************)
EXTENDS MCSpeech, FiniteSetTheorems, SequenceTheorems, WellFoundedInduction, TLAPS

-----------------------------------------------------------------------------
(* Numbers.                                                                *)

\* Numbers have a least one, and so there is induction over them.
LEMMA LeastNumber ==
  ASSUME NEW S \in SUBSET Nat, S # {}
  PROVE  \E x \in S : \A y \in S : x <= y
<1> DEFINE R == {p \in Nat \X Nat : p[1] < p[2]}
<1>1. IsWellFoundedOn(R, Nat)
  <2>1. OpToRel(<, Nat) = R
    BY Zenon DEF OpToRel
  <2> QED BY <2>1, NatLessThanWellFounded, Zenon
<1>2. \E x \in S : \A y \in S : ~ (<<y, x>> \in R)
  <2> HIDE DEF R
  <2> QED BY <1>1, WFMin
<1>3. \A x, y \in S : ~ (<<y, x>> \in R) => x <= y
  OBVIOUS
<1> HIDE DEF R
<1> QED BY <1>2, <1>3

LEMMA NatInductionSet ==
  ASSUME NEW S, 0 \in S, \A n \in Nat : n \in S => n + 1 \in S
  PROVE  \A n \in Nat : n \in S
<1> DEFINE Left == {n \in Nat : n \notin S}
<1>1. ASSUME Left # {} PROVE FALSE
  <2>1. PICK x \in Left : \A y \in Left : x <= y
    <3>1. Left \in SUBSET Nat
      OBVIOUS
    <3> HIDE DEF Left
    <3> QED BY <1>1, <3>1, LeastNumber
  <2>2. x \in Nat \ {0} /\ x - 1 \in Nat /\ ~ (x <= x - 1)
    OBVIOUS
  <2>3. x - 1 \in S
    BY <2>1, <2>2
  <2> QED BY <2>2, <2>3
<1> QED BY <1>1

\* A set of numbers with a bound has a greatest and a least one.
LEMMA GreatestAndLeast ==
  ASSUME NEW L \in Nat, NEW S \in SUBSET (1 .. L), S # {}
  PROVE  /\ Max(S) \in S /\ \A i \in S : i <= Max(S)
         /\ Min(S) \in S /\ \A i \in S : Min(S) <= i
<1> DEFINE Greatest(k) == \A U \in SUBSET (1 .. k) : U # {} => \E x \in U : \A y \in U : x >= y
           G == {k \in Nat : Greatest(k)}
<1>1. Greatest(0)
  <2>1. 1 .. 0 = {}
    OBVIOUS
  <2> QED BY <2>1
<1>2. ASSUME NEW k \in Nat, Greatest(k) PROVE Greatest(k + 1)
  <2> SUFFICES ASSUME NEW U \in SUBSET (1 .. k + 1), U # {}
               PROVE  \E x \in U : \A y \in U : x >= y
    OBVIOUS
  <2>1. CASE k + 1 \in U
    <3>1. \A y \in U : k + 1 >= y
      OBVIOUS
    <3> QED BY <2>1, <3>1
  <2>2. CASE k + 1 \notin U
    <3>1. U \in SUBSET (1 .. k)
      <4> SUFFICES ASSUME NEW y \in U PROVE y \in 1 .. k
        OBVIOUS
      <4>1. y \in 1 .. k + 1 /\ y # k + 1
        BY <2>2
      <4> QED BY <4>1
    <3> QED BY <1>2, <3>1
  <2> QED BY <2>1, <2>2
<1>3. \A k \in Nat : k \in G
  <2>1. 0 \in G
    <3> HIDE DEF Greatest
    <3> QED BY <1>1
  <2>2. ASSUME NEW k \in Nat, k \in G PROVE k + 1 \in G
    <3> HIDE DEF Greatest
    <3> QED BY <1>2, <2>2
  <2> HIDE DEF G
  <2> QED BY <2>1, <2>2, NatInductionSet
<1>4. \E x \in S : \A y \in S : x >= y
  BY <1>3
<1>5. \E x \in S : \A y \in S : x <= y
  <2>1. S \in SUBSET Nat
    OBVIOUS
  <2> QED BY <2>1, LeastNumber
<1>6. \A i, j \in S : i >= j <=> j <= i
  OBVIOUS
<1>7. Max(S) \in S /\ \A y \in S : Max(S) >= y
  BY <1>4, Zenon DEF Max
<1>8. Min(S) \in S /\ \A y \in S : Min(S) <= y
  BY <1>5, Zenon DEF Min
<1> QED BY <1>6, <1>7, <1>8

\* The greatest is the one that none exceeds.
LEMMA TheGreatest ==
  ASSUME NEW L \in Nat, NEW S \in SUBSET (1 .. L), NEW m \in S, \A i \in S : i <= m
  PROVE  Max(S) = m
<1> DEFINE x == Max(S)
<1>1. x \in S /\ m <= x
  BY GreatestAndLeast
<1> HIDE DEF x
<1>2. x <= m /\ x \in Nat /\ m \in Nat
  BY <1>1
<1> QED BY <1>1, <1>2 DEF x

-----------------------------------------------------------------------------
(* Numbers in their order.                                                 *)

\* How many numbers of a set come before one.
Rank(S, i) == Cardinality({j \in S : j < i})
Increasing(f, n) == \A k, m \in 1 .. n : k < m => f[k] < f[m]

LEMMA RanksRise ==
  ASSUME NEW S \in SUBSET Nat, IsFiniteSet(S)
  PROVE  /\ Cardinality(S) \in Nat
         /\ \A i \in S : Rank(S, i) \in 0 .. Cardinality(S) - 1
         /\ \A i, j \in S : i < j => Rank(S, i) < Rank(S, j)
<1> DEFINE Before(i) == {j \in S : j < i}
<1>0. Cardinality(S) \in Nat
  BY FS_CardinalityType
<1>1. ASSUME NEW i \in S
      PROVE  /\ IsFiniteSet(Before(i)) /\ Rank(S, i) \in Nat
             /\ IsFiniteSet(Before(i) \cup {i}) /\ Cardinality(Before(i) \cup {i}) = Rank(S, i) + 1
  <2>1. IsFiniteSet(Before(i))
    BY FS_Subset
  <2>2. Cardinality(Before(i)) \in Nat
    BY <2>1, FS_CardinalityType
  <2>3. i \notin Before(i)
    OBVIOUS
  <2>4. IsFiniteSet(Before(i) \cup {i}) /\ Cardinality(Before(i) \cup {i}) = Cardinality(Before(i)) + 1
    BY <2>1, <2>3, FS_AddElement
  <2> QED BY <2>1, <2>2, <2>4 DEF Rank
<1>2. ASSUME NEW i \in S PROVE Rank(S, i) \in 0 .. Cardinality(S) - 1
  <2>1. Before(i) \cup {i} \in SUBSET S
    OBVIOUS
  <2>2. Cardinality(Before(i) \cup {i}) <= Cardinality(S)
    BY <2>1, FS_Subset, Zenon
  <2>3. Rank(S, i) \in Nat /\ Rank(S, i) + 1 <= Cardinality(S)
    <3>1. Rank(S, i) \in Nat /\ Cardinality(Before(i) \cup {i}) = Rank(S, i) + 1
      BY <1>1, Zenon
    <3> HIDE DEF Before
    <3> QED BY <2>2, <3>1
  <2> QED BY <1>0, <2>3
<1>3. ASSUME NEW i \in S, NEW j \in S, i < j PROVE Rank(S, i) < Rank(S, j)
  <2>0. \A k \in S : k \in Nat
    OBVIOUS
  <2>1. Before(i) \cup {i} \in SUBSET Before(j)
    <3> SUFFICES ASSUME NEW k \in Before(i) \cup {i} PROVE k \in S /\ k < j
      OBVIOUS
    <3>1. k \in S /\ (k < i \/ k = i)
      OBVIOUS
    <3> HIDE DEF Before
    <3> QED BY <1>3, <2>0, <3>1
  <2>2. Cardinality(Before(i) \cup {i}) <= Cardinality(Before(j))
    BY <1>1, <2>1, FS_Subset, Zenon
  <2>3. Cardinality(Before(j)) = Rank(S, j)
    BY DEF Rank
  <2>4. /\ Rank(S, i) \in Nat /\ Rank(S, j) \in Nat
        /\ Cardinality(Before(i) \cup {i}) = Rank(S, i) + 1
    BY <1>1, Zenon
  <2> HIDE DEF Before
  <2> QED BY <2>2, <2>3, <2>4
<1> QED BY <1>0, <1>2, <1>3

\* Each number has its place: the numbers in order are all of them, rising.
LEMMA InOrderPlaces ==
  ASSUME NEW S \in SUBSET Nat, IsFiniteSet(S)
  PROVE  /\ InOrder(S) \in [1 .. Cardinality(S) -> S]
         /\ \A n \in 1 .. Cardinality(S) : Rank(S, InOrder(S)[n]) = n - 1
         /\ \A i \in S : InOrder(S)[Rank(S, i) + 1] = i
         /\ Increasing(InOrder(S), Cardinality(S))
<1> DEFINE c == Cardinality(S)
           r == [i \in S |-> Rank(S, i)]
           o == InOrder(S)
<1>1. c \in Nat
  BY RanksRise
<1>2. \A i \in S : r[i] \in 0 .. c - 1
  BY RanksRise
<1>3. \A i, j \in S : r[i] = r[j] => i = j
  <2> SUFFICES ASSUME NEW i \in S, NEW j \in S, r[i] = r[j] PROVE i = j
    OBVIOUS
  <2>1. ~ (i < j) /\ ~ (j < i)
    BY RanksRise
  <2> QED BY <2>1
<1>4. r \in Injection(S, 0 .. c - 1)
  <2>1. r \in [S -> 0 .. c - 1]
    BY <1>2
  <2> HIDE DEF r
  <2> QED BY <1>3, <2>1 DEF Injection, IsInjective
<1>5. IsFiniteSet(0 .. c - 1) /\ Cardinality(0 .. c - 1) = c
  <2> HIDE DEF c
  <2>1. 0 \in Int /\ c - 1 \in Int
    BY <1>1
  <2> QED BY <1>1, <2>1, FS_Interval
<1>6. r \in Surjection(S, 0 .. c - 1)
  <2> HIDE DEF r
  <2> QED BY <1>4, <1>5, FS_Injection
<1>7. \A n \in 1 .. c : \E i \in S : Rank(S, i) = n - 1
  <2> SUFFICES ASSUME NEW n \in 1 .. c PROVE \E i \in S : Rank(S, i) = n - 1
    OBVIOUS
  <2>1. n - 1 \in 0 .. c - 1
    BY <1>1
  <2>2. PICK i \in S : r[i] = n - 1
    <3> HIDE DEF r
    <3> QED BY <1>6, <2>1 DEF Surjection
  <2> QED BY <2>2
<1>8. /\ DOMAIN o = 1 .. c /\ o = [n \in 1 .. c |-> o[n]]
      /\ \A n \in 1 .. c : o[n] = CHOOSE i \in S : Rank(S, i) = n - 1
  BY SMTT(30) DEF InOrder, Rank
<1> HIDE DEF o, r
<1>9. \A n \in 1 .. c : o[n] \in S /\ Rank(S, o[n]) = n - 1
  BY <1>7, <1>8
<1>10. ASSUME NEW i \in S PROVE o[Rank(S, i) + 1] = i
  <2>1. Rank(S, i) + 1 \in 1 .. c /\ (Rank(S, i) + 1) - 1 = Rank(S, i)
    BY <1>1, RanksRise
  <2>2. o[Rank(S, i) + 1] \in S /\ Rank(S, o[Rank(S, i) + 1]) = Rank(S, i)
    BY <1>9, <2>1
  <2> QED BY <1>3, <2>2 DEF r
<1>11. ASSUME NEW k \in 1 .. c, NEW m \in 1 .. c, k < m PROVE o[k] < o[m]
  <2>1. /\ o[k] \in S /\ o[m] \in S /\ Rank(S, o[k]) = k - 1 /\ Rank(S, o[m]) = m - 1
    BY <1>9
  <2>2. ASSUME ~ (o[k] < o[m]) PROVE FALSE
    <3>0. o[k] \in Nat /\ o[m] \in Nat
      BY <2>1
    <3>1. o[k] = o[m] \/ o[m] < o[k]
      BY <2>2, <3>0
    <3>2. k - 1 = m - 1 \/ m - 1 < k - 1
      BY <2>1, <3>1, RanksRise
    <3> QED BY <1>1, <1>11, <3>2
  <2> QED BY <2>2
<1>12. o \in [1 .. c -> S]
  BY <1>8, <1>9
<1> QED BY <1>9, <1>10, <1>11, <1>12 DEF o, Increasing

\* There is one way only to count a set up.
LEMMA OneOrder ==
  ASSUME NEW S \in SUBSET Nat, NEW c \in Nat, NEW g \in [1 .. c -> S],
         Increasing(g, c), \A i \in S : \E n \in 1 .. c : g[n] = i
  PROVE  IsFiniteSet(S) /\ Cardinality(S) = c /\ InOrder(S) = g
<1>1. \A k, m \in 1 .. c : g[k] = g[m] => k = m
  <2> SUFFICES ASSUME NEW k \in 1 .. c, NEW m \in 1 .. c, g[k] = g[m] PROVE k = m
    OBVIOUS
  <2>1. g[k] \in Nat /\ g[m] \in Nat
    OBVIOUS
  <2>2. ~ (k < m) /\ ~ (m < k)
    BY <2>1 DEF Increasing
  <2> QED BY <2>2
<1>2. IsFiniteSet(1 .. c) /\ Cardinality(1 .. c) = c
  <2>1. 1 \in Int /\ c \in Int
    OBVIOUS
  <2> QED BY <2>1, FS_Interval
<1>3. g \in Bijection(1 .. c, S)
  BY <1>1 DEF Bijection, Injection, Surjection, IsInjective
<1>4. IsFiniteSet(S) /\ Cardinality(S) = c
  <2>1. ExistsBijection(1 .. c, S)
    BY <1>3, Zenon DEF ExistsBijection
  <2> QED BY <1>2, <2>1, FS_Bijection, Zenon
<1>5. ASSUME NEW n \in 1 .. c PROVE Rank(S, g[n]) = n - 1
  <2> DEFINE Low == {j \in S : j < g[n]}
             h == [k \in 1 .. n - 1 |-> g[k]]
  <2>1. n - 1 \in Nat /\ IsFiniteSet(1 .. n - 1) /\ Cardinality(1 .. n - 1) = n - 1
    <3>1. n - 1 \in Nat /\ 1 \in Int
      OBVIOUS
    <3> QED BY <3>1, FS_Interval
  <2>2. \A k \in 1 .. n - 1 : k \in 1 .. c /\ h[k] = g[k] /\ g[k] \in Low
    BY DEF Increasing
  <2>3. \A j \in Low : \E k \in 1 .. n - 1 : h[k] = j
    <3> SUFFICES ASSUME NEW j \in Low PROVE \E k \in 1 .. n - 1 : h[k] = j
      OBVIOUS
    <3>1. PICK k \in 1 .. c : g[k] = j
      OBVIOUS
    <3>2. ~ (n < k) /\ n # k
      <4>1. g[k] < g[n] /\ g[k] \in Nat /\ g[n] \in Nat
        BY <3>1 DEF Low
      <4>2. n < k => g[n] < g[k]
        BY DEF Increasing
      <4> HIDE DEF Low, h
      <4> QED BY <4>1, <4>2
    <3>3. k \in 1 .. n - 1
      BY <3>2
    <3> QED BY <2>2, <3>1, <3>3
  <2>4. h \in [1 .. n - 1 -> Low]
    BY <2>2
  <2> HIDE DEF h, Low
  <2>5. h \in Bijection(1 .. n - 1, Low)
    <3>1. \A k, m \in 1 .. n - 1 : h[k] = h[m] => k = m
      BY <1>1, <2>2
    <3> QED BY <2>3, <2>4, <3>1 DEF Bijection, Injection, Surjection, IsInjective
  <2>6. ExistsBijection(1 .. n - 1, Low)
    BY <2>5, Zenon DEF ExistsBijection
  <2>7. Cardinality(Low) = n - 1
    BY <2>1, <2>6, FS_Bijection, Zenon
  <2> QED BY <2>7 DEF Low, Rank
<1>6. \A n \in 1 .. c : InOrder(S)[n] = g[n]
  <2> TAKE n \in 1 .. c
  <2>1. InOrder(S)[Rank(S, g[n]) + 1] = g[n]
    BY <1>4, InOrderPlaces
  <2>2. Rank(S, g[n]) + 1 = n
    BY <1>5
  <2> QED BY <2>1, <2>2
<1>7. InOrder(S) \in [1 .. c -> S]
  BY <1>4, InOrderPlaces
<1> QED BY <1>4, <1>6, <1>7

\* What counts up one set counts up another, place by place.
LEMMA SameOrder ==
  ASSUME NEW P \in SUBSET Nat, IsFiniteSet(P), NEW Q \in SUBSET Nat, NEW f \in [P -> Q],
         \A i, j \in P : i < j => f[i] < f[j], \A q \in Q : \E i \in P : f[i] = q
  PROVE  /\ IsFiniteSet(Q) /\ Cardinality(Q) = Cardinality(P)
         /\ \A n \in 1 .. Cardinality(P) : InOrder(Q)[n] = f[InOrder(P)[n]]
<1> DEFINE c == Cardinality(P)
           p == InOrder(P)
           g == [n \in 1 .. c |-> f[p[n]]]
<1>1. /\ c \in Nat /\ p \in [1 .. c -> P] /\ Increasing(p, c)
      /\ \A i \in P : Rank(P, i) + 1 \in 1 .. c /\ p[Rank(P, i) + 1] = i
  <2>1. c \in Nat /\ \A i \in P : Rank(P, i) \in 0 .. c - 1
    BY RanksRise
  <2>2. p \in [1 .. c -> P] /\ Increasing(p, c) /\ \A i \in P : p[Rank(P, i) + 1] = i
    BY InOrderPlaces
  <2> HIDE DEF c, p
  <2>3. \A i \in P : Rank(P, i) + 1 \in 1 .. c
    BY <2>1
  <2> QED BY <2>1, <2>2, <2>3
<1> HIDE DEF c, p
<1>2. g \in [1 .. c -> Q] /\ \A n \in 1 .. c : g[n] = f[p[n]] /\ p[n] \in P
  BY <1>1
<1> HIDE DEF g
<1>3. Increasing(g, c)
  <2> SUFFICES ASSUME NEW k \in 1 .. c, NEW m \in 1 .. c, k < m PROVE g[k] < g[m]
    BY DEF Increasing
  <2>1. p[k] < p[m] /\ p[k] \in P /\ p[m] \in P
    BY <1>1, <1>2 DEF Increasing
  <2> QED BY <1>2, <2>1
<1>4. \A q \in Q : \E n \in 1 .. c : g[n] = q
  <2> SUFFICES ASSUME NEW q \in Q PROVE \E n \in 1 .. c : g[n] = q
    OBVIOUS
  <2>1. PICK i \in P : f[i] = q
    OBVIOUS
  <2>2. Rank(P, i) + 1 \in 1 .. c /\ p[Rank(P, i) + 1] = i
    BY <1>1
  <2> QED BY <1>2, <2>1, <2>2
<1>5. IsFiniteSet(Q) /\ Cardinality(Q) = c /\ InOrder(Q) = g
  BY <1>1, <1>2, <1>3, <1>4, OneOrder
<1> QED BY <1>2, <1>5 DEF c, p

-----------------------------------------------------------------------------
(* Keys.                                                                   *)

\* The places a key keeps: what counts, and the first blank of a gap.
Gaps(t) == {i \in DOMAIN t \ Solid(t) : i - 1 \in Counting(t) /\ \E j \in Counting(t) : i < j}
Kept(t) == Counting(t) \cup Gaps(t)
Counted(t) == Cardinality(Counting(t))
NextTo(a, k) == a[k + 1] = a[k] + 1

LEMMA CountingIsFinite ==
  ASSUME NEW T, NEW t \in Seq(T)
  PROVE  /\ Len(t) \in Nat /\ DOMAIN t = 1 .. Len(t)
         /\ Solid(t) \in SUBSET (1 .. Len(t)) /\ Counting(t) \in SUBSET (1 .. Len(t))
         /\ Kept(t) \in SUBSET (1 .. Len(t))
         /\ Counting(t) \in SUBSET Nat /\ IsFiniteSet(Counting(t))
         /\ Kept(t) \in SUBSET Nat /\ IsFiniteSet(Kept(t))
<1>1. Len(t) \in Nat /\ DOMAIN t = 1 .. Len(t)
  BY LenProperties
<1>2. Solid(t) \in SUBSET (1 .. Len(t))
  BY <1>1 DEF Solid
<1>3. Counting(t) \in SUBSET (1 .. Len(t))
  BY <1>2 DEF Counting
<1>4. Kept(t) \in SUBSET (1 .. Len(t))
  BY <1>1, <1>3 DEF Kept, Gaps
<1>5. IsFiniteSet(1 .. Len(t))
  <2>1. 1 \in Int /\ Len(t) \in Int
    BY <1>1
  <2> QED BY <2>1, FS_Interval
<1>6. IsFiniteSet(Counting(t)) /\ IsFiniteSet(Kept(t))
  BY <1>3, <1>4, <1>5, FS_Subset, Zenon
<1>7. \A S \in SUBSET (1 .. Len(t)) : S \in SUBSET Nat
  BY <1>1
<1> QED BY <1>1, <1>2, <1>3, <1>4, <1>6, <1>7

\* A gap is where one that counts is not next to the one before.
LEMMA GapsFollow ==
  ASSUME NEW T, NEW t \in Seq(T)
  PROVE  LET a == InOrder(Counting(t))
             c == Counted(t)
         IN  /\ \A k \in 1 .. c - 1 : ~ NextTo(a, k) => a[k] + 1 \in Gaps(t)
             /\ \A i \in Gaps(t) : /\ i \notin Counting(t) /\ t[i] = Blank
                                   /\ \E k \in 1 .. c - 1 : i = a[k] + 1 /\ ~ NextTo(a, k)
<1> DEFINE A == Counting(t)
           a == InOrder(A)
           c == Counted(t)
<1>1. /\ Len(t) \in Nat /\ DOMAIN t = 1 .. Len(t)
      /\ A \in SUBSET Solid(t) /\ A \in SUBSET (1 .. Len(t)) /\ Solid(t) \in SUBSET (1 .. Len(t))
  <2>1. A \in SUBSET Solid(t)
    BY DEF Counting
  <2> QED BY <2>1, CountingIsFinite
<1>2. /\ c \in Nat /\ a \in [1 .. c -> A] /\ Increasing(a, c)
      /\ \A i \in A : \E k \in 1 .. c : a[k] = i
  <2>1. A \in SUBSET Nat /\ IsFiniteSet(A)
    BY CountingIsFinite
  <2>2. c \in Nat /\ \A i \in A : Rank(A, i) \in 0 .. c - 1
    BY <2>1, RanksRise DEF Counted
  <2>3. /\ a \in [1 .. c -> A] /\ Increasing(a, c)
        /\ \A i \in A : a[Rank(A, i) + 1] = i
    BY <2>1, InOrderPlaces DEF Counted
  <2> HIDE DEF a, c, A
  <2>4. \A i \in A : Rank(A, i) + 1 \in 1 .. c
    BY <2>2
  <2> QED BY <2>2, <2>3, <2>4
<1>3. \A i, j \in Solid(t) : i <= j /\ j \in A => i \in A
  <2> SUFFICES ASSUME NEW i \in Solid(t), NEW j \in Solid(t), i <= j, j \in A PROVE i \in A
    OBVIOUS
  <2>1. PICK l \in Solid(t) : j <= l /\ t[l] \notin Marks
    BY DEF Counting
  <2>2. i <= l
    BY <1>1, <2>1
  <2> QED BY <2>1, <2>2 DEF Counting
<1> HIDE DEF A, a, c
<1>4. ASSUME NEW k \in 1 .. c - 1, ~ NextTo(a, k) PROVE a[k] + 1 \in Gaps(t)
  <2>1. k \in 1 .. c /\ k + 1 \in 1 .. c /\ k < k + 1
    BY <1>2
  <2>2. a[k] \in A /\ a[k + 1] \in A /\ a[k] < a[k + 1]
    BY <1>2, <2>1 DEF Increasing
  <2>3. a[k] \in 1 .. Len(t) /\ a[k + 1] \in 1 .. Len(t)
    BY <1>1, <2>2
  <2>4. a[k] + 1 < a[k + 1] /\ a[k] + 1 \in 1 .. Len(t) /\ (a[k] + 1) - 1 = a[k]
    BY <1>1, <1>4, <2>2, <2>3 DEF NextTo
  <2>5. a[k] + 1 \notin A
    <3> SUFFICES ASSUME a[k] + 1 \in A PROVE FALSE
      OBVIOUS
    <3>1. PICK m \in 1 .. c : a[m] = a[k] + 1
      BY <1>2
    <3>2. a[k] < a[m] /\ a[m] < a[k + 1]
      BY <2>3, <2>4, <3>1
    <3>3. ~ (m < k) /\ m # k
      <4>1. m < k => a[m] < a[k]
        BY <1>2, <2>1 DEF Increasing
      <4> QED BY <2>3, <3>1, <4>1
    <3>4. ~ (k + 1 < m) /\ m # k + 1
      <4>1. k + 1 < m => a[k + 1] < a[m]
        BY <1>2, <2>1 DEF Increasing
      <4> QED BY <2>3, <2>4, <3>1, <4>1
    <3> QED BY <1>2, <3>3, <3>4
  <2>6. a[k] + 1 \notin Solid(t)
    <3>1. a[k + 1] \in Solid(t) /\ a[k] + 1 <= a[k + 1]
      BY <1>1, <2>2, <2>3, <2>4
    <3> QED BY <1>3, <2>2, <2>5, <3>1
  <2> QED BY <1>1, <2>2, <2>4, <2>6 DEF Gaps, A
<1>5. ASSUME NEW i \in Gaps(t)
      PROVE  /\ i \notin A /\ t[i] = Blank
             /\ \E k \in 1 .. c - 1 : i = a[k] + 1 /\ ~ NextTo(a, k)
  <2>1. i \in 1 .. Len(t) /\ i \notin Solid(t) /\ i - 1 \in A
    BY <1>1 DEF Gaps, A
  <2>2. PICK j \in A : i < j
    BY DEF Gaps, A
  <2>3. i \notin A /\ t[i] = Blank
    BY <1>1, <2>1 DEF Solid
  <2>4. PICK k \in 1 .. c : a[k] = i - 1
    BY <1>2, <2>1
  <2>5. PICK m \in 1 .. c : a[m] = j
    BY <1>2, <2>2
  <2>6. j \in 1 .. Len(t)
    BY <1>1, <2>2
  <2>7. k < m
    <3>1. m < k => a[m] < a[k]
      BY <1>2 DEF Increasing
    <3> QED BY <1>1, <1>2, <2>1, <2>2, <2>4, <2>5, <2>6, <3>1
  <2>8. k \in 1 .. c - 1 /\ i = a[k] + 1
    BY <1>1, <1>2, <2>1, <2>4, <2>7
  <2>9. a[k + 1] \in A
    <3>1. k + 1 \in 1 .. c
      BY <1>2, <2>8
    <3> QED BY <1>2, <3>1
  <2>10. ~ NextTo(a, k)
    BY <2>3, <2>8, <2>9 DEF NextTo
  <2> QED BY <2>3, <2>8, <2>10
<1> QED BY <1>4, <1>5 DEF A, a, c

LEMMA PlacesOfCounting ==
  ASSUME NEW T, NEW t \in Seq(T)
  PROVE  LET a == InOrder(Counting(t))
             c == Counted(t)
         IN  /\ c \in Nat /\ a \in [1 .. c -> Counting(t)] /\ Increasing(a, c)
             /\ \A i \in Counting(t) : Rank(Counting(t), i) + 1 \in 1 .. c
                                       /\ a[Rank(Counting(t), i) + 1] = i
<1> DEFINE A == Counting(t)
           a == InOrder(A)
           c == Counted(t)
<1>1. A \in SUBSET Nat /\ IsFiniteSet(A)
  BY CountingIsFinite
<1>2. c \in Nat /\ \A i \in A : Rank(A, i) \in 0 .. c - 1
  BY <1>1, RanksRise DEF Counted
<1>3. /\ a \in [1 .. c -> A] /\ Increasing(a, c)
      /\ \A i \in A : a[Rank(A, i) + 1] = i
  BY <1>1, InOrderPlaces DEF Counted
<1> HIDE DEF a, c, A
<1>4. \A i \in A : Rank(A, i) + 1 \in 1 .. c
  BY <1>2
<1> QED BY <1>2, <1>3, <1>4 DEF A, a, c

\* Texts in which the same symbols count, with gaps at the same places, have one key.
LEMMA AlikeTextsShareKeys ==
  ASSUME NEW T, NEW t \in Seq(T), NEW u \in Seq(T), Alike(t, u)
  PROVE  NormalizeForCache(t) = NormalizeForCache(u)
<1> DEFINE A == Counting(t)
           B == Counting(u)
           a == InOrder(A)
           b == InOrder(B)
           c == Counted(t)
           P == Kept(t)
           Q == Kept(u)
           at(i) == Rank(A, i) + 1
           f == [i \in P |-> IF i \in A THEN b[at(i)] ELSE b[at(i - 1)] + 1]
<1>1. /\ c \in Nat /\ a \in [1 .. c -> A] /\ Increasing(a, c)
      /\ \A i \in A : at(i) \in 1 .. c /\ a[at(i)] = i
  BY PlacesOfCounting
<1>2. /\ Counted(u) \in Nat /\ b \in [1 .. Counted(u) -> B] /\ Increasing(b, Counted(u))
      /\ \A i \in B : \E k \in 1 .. Counted(u) : b[k] = i
  BY PlacesOfCounting
<1>3. Counted(u) = c /\ \A k \in 1 .. c : t[a[k]] = u[b[k]]
  <2>1. 1 .. c = 1 .. Counted(u) /\ \A k \in 1 .. c : t[a[k]] = u[b[k]]
    BY <1>1, <1>2 DEF Alike
  <2> HIDE DEF a, b, c
  <2>2. c \in 1 .. c \/ c = 0
    BY <1>1
  <2>3. Counted(u) \in 1 .. Counted(u) \/ Counted(u) = 0
    BY <1>2
  <2> QED BY <1>1, <1>2, <2>1, <2>2, <2>3
<1>4. \A k \in 1 .. c - 1 : NextTo(a, k) <=> NextTo(b, k)
  <2> SUFFICES ASSUME NEW k \in 1 .. c - 1 PROVE NextTo(a, k) <=> NextTo(b, k)
    OBVIOUS
  <2>1. k + 1 \in DOMAIN a \ {1} /\ (k + 1) - 1 = k
    BY <1>1
  <2>2. a[k + 1] = a[(k + 1) - 1] + 1 <=> b[k + 1] = b[(k + 1) - 1] + 1
    BY <2>1 DEF Alike
  <2> HIDE DEF a, b
  <2> QED BY <2>1, <2>2 DEF NextTo
<1>5. /\ \A k \in 1 .. c - 1 : ~ NextTo(a, k) => a[k] + 1 \in Gaps(t)
      /\ \A i \in Gaps(t) : /\ i \notin A /\ t[i] = Blank
                            /\ \E k \in 1 .. c - 1 : i = a[k] + 1 /\ ~ NextTo(a, k)
  BY GapsFollow
<1>6. /\ \A k \in 1 .. c - 1 : ~ NextTo(b, k) => b[k] + 1 \in Gaps(u)
      /\ \A i \in Gaps(u) : /\ i \notin B /\ u[i] = Blank
                            /\ \E k \in 1 .. c - 1 : i = b[k] + 1 /\ ~ NextTo(b, k)
  BY <1>3, GapsFollow
<1>7. /\ P = A \cup Gaps(t) /\ Q = B \cup Gaps(u) /\ P \in SUBSET Nat /\ Q \in SUBSET Nat
      /\ IsFiniteSet(P)
  BY CountingIsFinite DEF Kept
<1>8. /\ NormalizeForCache(t) = [n \in DOMAIN InOrder(P) |-> t[InOrder(P)[n]]]
      /\ NormalizeForCache(u) = [n \in DOMAIN InOrder(Q) |-> u[InOrder(Q)[n]]]
  BY DEF NormalizeForCache, Kept, Gaps
<1>9. /\ DOMAIN f = P /\ f = [i \in P |-> f[i]]
      /\ \A i \in A : f[i] = b[at(i)]
      /\ \A i \in Gaps(t) : f[i] = b[at(i - 1)] + 1
  <2>1. \A i \in P : f[i] = IF i \in A THEN b[at(i)] ELSE b[at(i - 1)] + 1
    OBVIOUS
  <2>2. DOMAIN f = P /\ f = [i \in P |-> f[i]]
    OBVIOUS
  <2> HIDE DEF f, A, b, at
  <2> QED BY <1>5, <1>7, <2>1, <2>2
<1> HIDE DEF A, B, a, b, c, P, Q, f, at
<1>10. \A k \in 1 .. c : a[k] \in A /\ a[k] \in Nat /\ b[k] \in B /\ b[k] \in Nat
  BY <1>1, <1>2, <1>3, <1>7
\* f takes what counts to what counts, and a gap to the gap behind the same symbol.
<1>11. \A k \in 1 .. c : f[a[k]] = b[k]
  <2> TAKE k \in 1 .. c
  <2>1. a[k] \in A /\ at(a[k]) \in 1 .. c /\ a[at(a[k])] = a[k]
    BY <1>1
  <2>2. at(a[k]) = k
    BY <1>1, <1>10, <2>1 DEF Increasing
  <2> QED BY <1>9, <2>1, <2>2
<1>12. \A i \in A : \E k \in 1 .. c : i = a[k] /\ f[i] = b[k]
  BY <1>1, <1>11
<1>13. ASSUME NEW i \in Gaps(t)
       PROVE  \E k \in 1 .. c - 1 : /\ i = a[k] + 1 /\ ~ NextTo(b, k) /\ ~ NextTo(a, k)
                                    /\ f[i] = b[k] + 1
  <2>1. PICK k \in 1 .. c - 1 : i = a[k] + 1 /\ ~ NextTo(a, k)
    BY <1>5
  <2>2. k \in 1 .. c
    BY <1>1
  <2>3. i - 1 = a[k]
    BY <1>10, <2>1, <2>2
  <2>4. a[k] \in A /\ f[a[k]] = b[at(a[k])] /\ f[a[k]] = b[k]
    BY <1>9, <1>10, <1>11, <2>2
  <2>5. f[i] = b[k] + 1
    BY <1>9, <2>3, <2>4
  <2> QED BY <1>4, <2>1, <2>5
<1>14. \A i \in P : i \in A \/ i \in Gaps(t)
  BY <1>7
<1>15. f \in [P -> Q]
  <2>1. ASSUME NEW i \in P PROVE f[i] \in Q
    <3>1. CASE i \in A
      BY <1>7, <1>10, <1>12, <3>1
    <3>2. CASE i \in Gaps(t)
      BY <1>6, <1>7, <1>13, <3>2
    <3> QED BY <1>14, <3>1, <3>2
  <2> QED BY <1>9, <2>1
<1>16. \A k, m \in 1 .. c : /\ (a[k] < a[m] => k < m) /\ (k < m => b[k] < b[m])
                            /\ (a[k] <= a[m] => b[k] <= b[m])
  <2> SUFFICES ASSUME NEW k \in 1 .. c, NEW m \in 1 .. c
               PROVE  /\ (a[k] < a[m] => k < m) /\ (k < m => b[k] < b[m])
                      /\ (a[k] <= a[m] => b[k] <= b[m])
    OBVIOUS
  <2>1. /\ k < m => a[k] < a[m] /\ b[k] < b[m]
        /\ m < k => a[m] < a[k] /\ b[m] < b[k]
    BY <1>1, <1>2, <1>3 DEF Increasing
  <2>2. a[k] \in Nat /\ a[m] \in Nat /\ b[k] \in Nat /\ b[m] \in Nat
    BY <1>10
  <2> QED BY <1>1, <2>1, <2>2
\* A gap and what comes behind it: the next symbol is further than one place.
<1>17. ASSUME NEW k \in 1 .. c - 1, NEW m \in 1 .. c, ~ NextTo(b, k), k < m PROVE b[k] + 1 < b[m]
  <2>1. k \in 1 .. c /\ k + 1 \in 1 .. c /\ k < k + 1 /\ (k + 1 = m \/ k + 1 < m)
    BY <1>1, <1>17
  <2>2. b[k] < b[k + 1] /\ b[k + 1] <= b[m] /\ b[k] \in Nat /\ b[k + 1] \in Nat /\ b[m] \in Nat
    BY <1>10, <1>16, <2>1
  <2>3. b[k + 1] # b[k] + 1
    BY <1>17 DEF NextTo
  <2> QED BY <2>2, <2>3
<1>18. ASSUME NEW i \in P, NEW j \in P, i < j PROVE f[i] < f[j]
  <2>0. 1 .. c - 1 \in SUBSET (1 .. c)
    BY <1>1
  <2>1. ASSUME i \in A, j \in A PROVE f[i] < f[j]
    BY <1>12, <1>16, <1>18, <2>1
  <2>2. ASSUME i \in A, j \in Gaps(t) PROVE f[i] < f[j]
    <3>1. PICK k \in 1 .. c : i = a[k] /\ f[i] = b[k]
      BY <1>12, <2>2
    <3>2. PICK m \in 1 .. c : j = a[m] + 1 /\ f[j] = b[m] + 1
      BY <1>13, <2>0, <2>2
    <3>3. a[k] <= a[m]
      BY <1>10, <1>18, <3>1, <3>2
    <3> QED BY <1>10, <1>16, <3>1, <3>2, <3>3
  <2>3. ASSUME i \in Gaps(t), j \in A PROVE f[i] < f[j]
    <3>1. PICK k \in 1 .. c - 1 : i = a[k] + 1 /\ ~ NextTo(b, k) /\ f[i] = b[k] + 1
      BY <1>13, <2>3
    <3>2. PICK m \in 1 .. c : j = a[m] /\ f[j] = b[m]
      BY <1>12, <2>3
    <3>3. k \in 1 .. c /\ a[k] < a[m]
      BY <1>10, <1>18, <2>0, <3>1, <3>2
    <3>4. k < m
      BY <1>16, <3>3
    <3> QED BY <1>17, <3>1, <3>2, <3>4
  <2>4. ASSUME i \in Gaps(t), j \in Gaps(t) PROVE f[i] < f[j]
    <3>1. PICK k \in 1 .. c : i = a[k] + 1 /\ f[i] = b[k] + 1
      BY <1>13, <2>0, <2>4
    <3>2. PICK m \in 1 .. c : j = a[m] + 1 /\ f[j] = b[m] + 1
      BY <1>13, <2>0, <2>4
    <3>3. a[k] < a[m]
      BY <1>10, <1>18, <3>1, <3>2
    <3> QED BY <1>10, <1>16, <3>1, <3>2, <3>3
  <2> QED BY <1>14, <2>1, <2>2, <2>3, <2>4
<1>19. ASSUME NEW q \in Q PROVE \E i \in P : f[i] = q
  <2>1. CASE q \in B
    <3>1. PICK k \in 1 .. c : b[k] = q
      BY <1>2, <1>3, <2>1
    <3> QED BY <1>7, <1>10, <1>11, <3>1
  <2>2. CASE q \in Gaps(u)
    <3>1. PICK k \in 1 .. c - 1 : q = b[k] + 1 /\ ~ NextTo(b, k)
      BY <1>6, <2>2
    <3>2. a[k] + 1 \in Gaps(t) /\ k \in 1 .. c
      BY <1>1, <1>4, <1>5, <3>1
    <3>3. PICK m \in 1 .. c - 1 : a[k] + 1 = a[m] + 1 /\ f[a[k] + 1] = b[m] + 1
      BY <1>13, <3>2
    <3>4. m \in 1 .. c /\ a[k] = a[m]
      BY <1>1, <1>10, <3>2, <3>3
    <3>5. b[k] = b[m]
      BY <1>11, <3>2, <3>4
    <3> QED BY <1>7, <3>1, <3>2, <3>3, <3>5
  <2> QED BY <1>7, <2>1, <2>2
<1>20. /\ IsFiniteSet(Q) /\ Cardinality(Q) = Cardinality(P)
       /\ \A n \in 1 .. Cardinality(P) : InOrder(Q)[n] = f[InOrder(P)[n]]
  <2>1. \A i, j \in P : i < j => f[i] < f[j]
    BY <1>18
  <2>2. \A q \in Q : \E i \in P : f[i] = q
    BY <1>19
  <2>3. P \in SUBSET Nat /\ Q \in SUBSET Nat /\ IsFiniteSet(P)
    BY <1>7
  <2> QED BY <1>15, <2>1, <2>2, <2>3, SameOrder, SMTT(30)
<1>21. \A i \in P : t[i] = u[f[i]]
  <2> SUFFICES ASSUME NEW i \in P PROVE t[i] = u[f[i]]
    OBVIOUS
  <2>1. CASE i \in A
    BY <1>3, <1>12, <2>1
  <2>2. CASE i \in Gaps(t)
    <3>1. PICK k \in 1 .. c - 1 : ~ NextTo(b, k) /\ f[i] = b[k] + 1
      BY <1>13, <2>2
    <3> QED BY <1>5, <1>6, <2>2, <3>1
  <2> QED BY <1>14, <2>1, <2>2
<1>22. /\ InOrder(P) \in [1 .. Cardinality(P) -> P]
       /\ DOMAIN InOrder(Q) = 1 .. Cardinality(P)
  BY <1>7, <1>20, InOrderPlaces
<1>23. \A n \in 1 .. Cardinality(P) : t[InOrder(P)[n]] = u[InOrder(Q)[n]]
  BY <1>20, <1>21, <1>22
<1> QED BY <1>8, <1>22, <1>23

-----------------------------------------------------------------------------
(* Sentences.                                                              *)

\* What strip keeps of a slice that begins solid: all up to its last solid symbol.
LEMMA StripSlice ==
  ASSUME NEW T, NEW t \in Seq(T), NEW from \in Solid(t), NEW end \in from .. Len(t)
  PROVE  LET to == Max({i \in Solid(t) : i <= end})
         IN  /\ to \in Solid(t) /\ from <= to /\ to <= end
             /\ \A i \in Solid(t) : i <= end => i <= to
             /\ Strip(SubSeq(t, from, end)) = SubSeq(t, from, to)
<1> DEFINE S == {i \in Solid(t) : i <= end}
           to == Max(S)
           u == SubSeq(t, from, end)
<1>1. /\ Len(t) \in Nat /\ DOMAIN t = 1 .. Len(t) /\ Solid(t) \in SUBSET (1 .. Len(t))
      /\ from \in 1 .. Len(t) /\ end \in 1 .. Len(t) /\ from <= end
  BY CountingIsFinite
<1>2. S \in SUBSET (1 .. Len(t)) /\ from \in S
  BY <1>1
<1>3. to \in S /\ \A i \in S : i <= to
  <2> HIDE DEF S
  <2> QED BY <1>1, <1>2, GreatestAndLeast
<1>4. to \in Solid(t) /\ from <= to /\ to <= end /\ to \in 1 .. Len(t)
      /\ \A i \in Solid(t) : i <= end => i <= to
  <2> HIDE DEF to
  <2> QED BY <1>1, <1>2, <1>3
<1> HIDE DEF to
<1>5. /\ u \in Seq(T) /\ Len(u) = end - from + 1 /\ DOMAIN u = 1 .. end - from + 1
      /\ \A i \in 1 .. end - from + 1 : u[i] = t[from + i - 1]
  <2>1. \A i \in from .. end : t[i] \in T
    BY <1>1, ElementOfSeq
  <2>2. /\ u \in Seq(T) /\ Len(u) = end - from + 1
        /\ \A i \in 1 .. end - from + 1 : u[i] = t[from + i - 1]
    BY <1>1, <2>1, SubSeqProperties
  <2> HIDE DEF u
  <2> QED BY <2>2, LenProperties
<1> HIDE DEF u
<1>6. \A i \in 1 .. end - from + 1 : i \in Solid(u) <=> from + i - 1 \in Solid(t)
  <2> TAKE i \in 1 .. end - from + 1
  <2>1. from + i - 1 \in DOMAIN t /\ i \in DOMAIN u /\ u[i] = t[from + i - 1]
    BY <1>1, <1>5
  <2> QED BY <2>1 DEF Solid
<1> DEFINE last == to - from + 1
<1>7. /\ Solid(u) \in SUBSET (1 .. end - from + 1) /\ end - from + 1 \in Nat
      /\ last \in 1 .. end - from + 1 /\ from + last - 1 = to
      /\ 1 \in 1 .. end - from + 1 /\ from + 1 - 1 = from
  BY <1>1, <1>4, <1>5 DEF Solid
<1>8. 1 \in Solid(u) /\ last \in Solid(u)
  BY <1>4, <1>6, <1>7
<1>9. Max(Solid(u)) = last
  <2>1. ASSUME NEW i \in Solid(u) PROVE i <= last
    <3>1. i \in 1 .. end - from + 1 /\ from + i - 1 \in Solid(t)
      BY <1>6, <1>7
    <3>2. from + i - 1 <= to
      BY <1>1, <1>4, <3>1
    <3> QED BY <1>1, <1>4, <3>1, <3>2
  <2> HIDE DEF last
  <2> QED BY <1>7, <1>8, <2>1, TheGreatest
<1>10. Min(Solid(u)) = 1
  <2> DEFINE m == Min(Solid(u))
  <2>1. m \in Solid(u) /\ m <= 1
    BY <1>7, <1>8, GreatestAndLeast
  <2> HIDE DEF m
  <2>2. m = 1
    BY <1>7, <2>1
  <2> QED BY <2>2 DEF m
<1>11. Strip(u) = SubSeq(u, 1, last)
  BY <1>8, <1>9, <1>10 DEF Strip
<1>12. SubSeq(u, 1, last) = SubSeq(t, from, to)
  <2> DEFINE a == SubSeq(u, 1, last)
             b == SubSeq(t, from, to)
  <2>1. a \in Seq(T) /\ Len(a) = last /\ \A i \in 1 .. last : a[i] = u[i]
    <3>1. \A i \in 1 .. last : u[i] \in T
      BY <1>5, <1>7, ElementOfSeq
    <3>2. a \in Seq(T) /\ Len(a) = last - 1 + 1 /\ \A i \in 1 .. last - 1 + 1 : a[i] = u[1 + i - 1]
      <4> HIDE DEF last
      <4> QED BY <1>5, <1>7, <3>1, SubSeqProperties
    <3>3. last - 1 + 1 = last /\ \A i \in 1 .. last : 1 + i - 1 = i
      BY <1>7
    <3> HIDE DEF last, a
    <3> QED BY <3>2, <3>3
  <2>2. b \in Seq(T) /\ Len(b) = last /\ \A i \in 1 .. last : b[i] = t[from + i - 1]
    <3>1. \A i \in from .. to : t[i] \in T
      BY <1>1, <1>4, ElementOfSeq
    <3> QED BY <1>1, <1>4, <3>1, SubSeqProperties
  <2>3. \A i \in 1 .. last : u[i] = t[from + i - 1]
    BY <1>5, <1>7
  <2> HIDE DEF a, b, last
  <2>4. a = b
    BY <2>1, <2>2, <2>3, SeqEqual
  <2> QED BY <2>4 DEF a, b
<1> QED BY <1>4, <1>11, <1>12 DEF to, u

\* Where sentences begin.
SolidBefore(t, i) == {j \in Solid(t) : j < i}
Starts(t) ==
  {i \in Solid(t) : SolidBefore(t, i) = {} \/ (t[Max(SolidBefore(t, i))] \in Marks /\ Max(SolidBefore(t, i)) < i - 1)}

\* The beginnings in order, and the place before the next one.
Start(t, n) == InOrder(Starts(t))[n]
End(t, n) == IF n = Cardinality(Starts(t)) THEN Len(t) ELSE Start(t, n + 1) - 1
\* The last solid symbol of a sentence.
To(t, n) == Max({i \in Solid(t) : i <= End(t, n)})

LEMMA SentencesBegin ==
  ASSUME NEW T, NEW t \in Seq(T), Solid(t) # {}
  PROVE  /\ Starts(t) \in SUBSET Solid(t) /\ Cardinality(Starts(t)) \in Nat \ {0}
         /\ InOrder(Starts(t)) \in [1 .. Cardinality(Starts(t)) -> Starts(t)]
         /\ \A n \in 1 .. Cardinality(Starts(t)) : Start(t, n) \in Starts(t)
         /\ \A n, m \in 1 .. Cardinality(Starts(t)) : n < m => Start(t, n) < Start(t, m)
         /\ \A i \in Starts(t) : \E n \in 1 .. Cardinality(Starts(t)) : Start(t, n) = i
         /\ Min(Solid(t)) \in Starts(t)
<1> DEFINE S == Starts(t)
           c == Cardinality(S)
<1>1. /\ Len(t) \in Nat /\ Solid(t) \in SUBSET (1 .. Len(t)) /\ S \in SUBSET Solid(t)
      /\ S \in SUBSET Nat /\ IsFiniteSet(S)
  <2>1. Len(t) \in Nat /\ Solid(t) \in SUBSET (1 .. Len(t))
    BY CountingIsFinite
  <2>2. S \in SUBSET Solid(t)
    BY DEF Starts
  <2>3. IsFiniteSet(1 .. Len(t))
    <3>1. 1 \in Int /\ Len(t) \in Int
      BY <2>1
    <3> QED BY <3>1, FS_Interval
  <2>4. S \in SUBSET (1 .. Len(t)) /\ S \in SUBSET Nat
    BY <2>1, <2>2
  <2>5. IsFiniteSet(S)
    BY <2>3, <2>4, FS_Subset, Zenon
  <2> QED BY <2>1, <2>2, <2>4, <2>5
<1>2. Min(Solid(t)) \in S
  <2> DEFINE m == Min(Solid(t))
  <2>1. m \in Solid(t) /\ \A i \in Solid(t) : m <= i
    BY <1>1, GreatestAndLeast
  <2> HIDE DEF m
  <2>2. \A i \in Solid(t) : ~ (i < m)
    BY <1>1, <2>1
  <2>3. SolidBefore(t, m) = {}
    BY <2>2 DEF SolidBefore
  <2> QED BY <2>1, <2>3 DEF Starts, m
<1>3. /\ c \in Nat /\ InOrder(S) \in [1 .. c -> S] /\ Increasing(InOrder(S), c)
      /\ \A i \in S : Rank(S, i) + 1 \in 1 .. c /\ InOrder(S)[Rank(S, i) + 1] = i
  <2>1. c \in Nat /\ \A i \in S : Rank(S, i) \in 0 .. c - 1
    BY <1>1, RanksRise
  <2>2. /\ InOrder(S) \in [1 .. c -> S] /\ Increasing(InOrder(S), c)
        /\ \A i \in S : InOrder(S)[Rank(S, i) + 1] = i
    BY <1>1, InOrderPlaces
  <2> HIDE DEF c, S
  <2>3. \A i \in S : Rank(S, i) + 1 \in 1 .. c
    BY <2>1
  <2> QED BY <2>1, <2>2, <2>3
<1> HIDE DEF S, c
<1>4. c # 0
  <2>1. \E i \in S : Rank(S, i) + 1 \in 1 .. c
    BY <1>2, <1>3
  <2> QED BY <1>3, <2>1
<1>5. /\ \A n \in 1 .. c : Start(t, n) \in S
      /\ \A n, m \in 1 .. c : n < m => Start(t, n) < Start(t, m)
      /\ \A i \in S : \E n \in 1 .. c : Start(t, n) = i
  BY <1>3 DEF Start, Increasing, S
<1> QED BY <1>1, <1>2, <1>3, <1>4, <1>5 DEF S, c

\* Each sentence is a slice of the text, from its beginning to its last solid symbol.
LEMMA SentencesAreSlices ==
  ASSUME NEW T, NEW t \in Seq(T), Solid(t) # {}
  PROVE  /\ DOMAIN SplitSentences(t) = 1 .. Cardinality(Starts(t))
         /\ SplitSentences(t) = [n \in 1 .. Cardinality(Starts(t)) |-> SplitSentences(t)[n]]
         /\ \A n \in 1 .. Cardinality(Starts(t)) :
              /\ Start(t, n) \in Solid(t) /\ To(t, n) \in Solid(t)
              /\ Start(t, n) <= To(t, n) /\ To(t, n) <= End(t, n) /\ End(t, n) \in 1 .. Len(t)
              /\ \A i \in Solid(t) : i <= End(t, n) => i <= To(t, n)
              /\ SplitSentences(t)[n] = SubSeq(t, Start(t, n), To(t, n))
<1> DEFINE c == Cardinality(Starts(t))
<1>1. /\ c \in Nat \ {0} /\ Len(t) \in Nat /\ Solid(t) \in SUBSET (1 .. Len(t))
      /\ \A n \in 1 .. c : Start(t, n) \in Solid(t)
      /\ \A n, m \in 1 .. c : n < m => Start(t, n) < Start(t, m)
  BY SentencesBegin, CountingIsFinite
<1>2. /\ DOMAIN SplitSentences(t) = 1 .. c
      /\ SplitSentences(t) = [n \in 1 .. c |-> SplitSentences(t)[n]]
      /\ \A n \in 1 .. c : SplitSentences(t)[n] = Strip(SubSeq(t, Start(t, n), End(t, n)))
  <2> DEFINE s == InOrder(Starts(t))
             f == [n \in DOMAIN s |-> Strip(SubSeq(t, s[n], IF n = Len(s) THEN Len(t) ELSE s[n + 1] - 1))]
  <2>1. s \in [1 .. c -> Starts(t)]
    BY SentencesBegin
  <2>2. DOMAIN s = 1 .. c /\ Len(s) = c
    <3> HIDE DEF s, c
    <3>1. s \in Seq(Starts(t))
      BY <1>1, <2>1, SeqDef
    <3> QED BY <1>1, <2>1, <3>1, LenProperties
  <2>3. SplitSentences(t) = f
    BY DEF SplitSentences, Starts, SolidBefore
  <2>4. \A n \in 1 .. c : f[n] = Strip(SubSeq(t, Start(t, n), End(t, n)))
    <3> HIDE DEF s
    <3> TAKE n \in 1 .. c
    <3>1. f[n] = Strip(SubSeq(t, s[n], IF n = c THEN Len(t) ELSE s[n + 1] - 1))
      BY <2>2
    <3> QED BY <3>1 DEF Start, End, s
  <2>5. DOMAIN f = 1 .. c /\ f = [n \in 1 .. c |-> f[n]]
    BY <2>2
  <2> HIDE DEF f, c
  <2> QED BY <2>3, <2>4, <2>5
<1> HIDE DEF c
<1>3. ASSUME NEW n \in 1 .. c PROVE End(t, n) \in Start(t, n) .. Len(t) /\ End(t, n) \in 1 .. Len(t)
  <2>1. CASE n = c
    BY <1>1, <2>1 DEF End, c
  <2>2. CASE n # c
    <3>1. n + 1 \in 1 .. c /\ n < n + 1
      BY <1>1, <2>2
    <3>2. Start(t, n) < Start(t, n + 1) /\ Start(t, n) \in 1 .. Len(t) /\ Start(t, n + 1) \in 1 .. Len(t)
      BY <1>1, <3>1
    <3> QED BY <1>1, <2>2, <3>2 DEF End, c
  <2> QED BY <2>1, <2>2
<1>4. ASSUME NEW n \in 1 .. c
      PROVE  /\ Start(t, n) \in Solid(t) /\ To(t, n) \in Solid(t)
             /\ Start(t, n) <= To(t, n) /\ To(t, n) <= End(t, n) /\ End(t, n) \in 1 .. Len(t)
             /\ \A i \in Solid(t) : i <= End(t, n) => i <= To(t, n)
             /\ Strip(SubSeq(t, Start(t, n), End(t, n))) = SubSeq(t, Start(t, n), To(t, n))
  <2>1. Start(t, n) \in Solid(t) /\ End(t, n) \in Start(t, n) .. Len(t) /\ End(t, n) \in 1 .. Len(t)
    BY <1>1, <1>3
  <2> QED BY <2>1, StripSlice, ZenonT(60) DEF To
<1> QED BY <1>2, <1>4 DEF c

\* split_sentences cuts a text where blanks follow a mark, there only, and loses
\* nothing but blanks.
LEMMA TextsAreCutUp ==
  ASSUME NEW T, NEW t \in Seq(T), Blank \notin Marks
  PROVE  IsCutUp(t, SplitSentences(t))
<1> DEFINE parts == SplitSentences(t)
<1>0. Len(t) \in Nat /\ Solid(t) \in SUBSET (1 .. Len(t)) /\ DOMAIN t = 1 .. Len(t)
  BY CountingIsFinite
<1>1. CASE Solid(t) = {}
  BY <1>1 DEF SplitSentences, IsCutUp
<1>2. CASE Solid(t) # {}
  <2> DEFINE c == Cardinality(Starts(t))
             from == [n \in 1 .. c |-> Start(t, n)]
             to == [n \in 1 .. c |-> To(t, n)]
  <2>1. /\ c \in Nat \ {0} /\ Starts(t) \in SUBSET Solid(t)
        /\ \A n \in 1 .. c : Start(t, n) \in Starts(t)
        /\ \A n, m \in 1 .. c : n < m => Start(t, n) < Start(t, m)
        /\ \A i \in Starts(t) : \E n \in 1 .. c : Start(t, n) = i
        /\ Min(Solid(t)) \in Starts(t)
    BY <1>2, SentencesBegin
  <2>2. /\ DOMAIN parts = 1 .. c
        /\ \A n \in 1 .. c :
              /\ Start(t, n) \in Solid(t) /\ To(t, n) \in Solid(t)
              /\ Start(t, n) <= To(t, n) /\ To(t, n) <= End(t, n) /\ End(t, n) \in 1 .. Len(t)
              /\ \A i \in Solid(t) : i <= End(t, n) => i <= To(t, n)
              /\ parts[n] = SubSeq(t, Start(t, n), To(t, n))
    BY <1>2, SentencesAreSlices
  <2> HIDE DEF parts
  <2>3. from \in [DOMAIN parts -> Solid(t)] /\ to \in [DOMAIN parts -> Solid(t)]
    <3> HIDE DEF c
    <3> QED BY <2>2
  <2>4. \A n \in 1 .. c : End(t, n) = IF n = c THEN Len(t) ELSE Start(t, n + 1) - 1
    BY DEF End
  <2>5. \A n \in 1 .. c : from[n] = Start(t, n) /\ to[n] = To(t, n)
    OBVIOUS
  <2> HIDE DEF from, to, c
  <2>6. \A n \in DOMAIN parts : from[n] <= to[n] /\ parts[n] = SubSeq(t, from[n], to[n])
    BY <2>2, <2>5
  <2>7. ASSUME NEW i \in Solid(t) PROVE \E n \in DOMAIN parts : i \in from[n] .. to[n]
    <3> DEFINE N == {n \in 1 .. c : Start(t, n) <= i}
               m == Max(N)
    <3>1. N # {}
      <4>1. Min(Solid(t)) <= i
        BY <1>0, GreatestAndLeast
      <4>2. PICK n \in 1 .. c : Start(t, n) = Min(Solid(t))
        BY <2>1
      <4> QED BY <4>1, <4>2
    <3>2. m \in N /\ \A n \in N : n <= m
      <4>1. N \in SUBSET (1 .. c) /\ c \in Nat
        BY <2>1
      <4> HIDE DEF N
      <4> QED BY <3>1, <4>1, GreatestAndLeast
    <3> HIDE DEF m
    <3>3. m \in 1 .. c /\ Start(t, m) <= i
      BY <3>2
    <3>4. i \in 1 .. Len(t)
      BY <1>0
    <3>5. i <= End(t, m)
      <4>1. CASE m = c
        BY <1>0, <2>4, <3>3, <3>4, <4>1
      <4>2. CASE m # c
        <5>1. m + 1 \in 1 .. c /\ ~ (m + 1 <= m)
          BY <2>1, <3>3, <4>2
        <5>2. ~ (Start(t, m + 1) <= i)
          BY <3>2, <5>1
        <5>3. Start(t, m + 1) \in 1 .. Len(t)
          BY <1>0, <2>2, <5>1
        <5> QED BY <2>4, <3>3, <3>4, <4>2, <5>2, <5>3
      <4> QED BY <4>1, <4>2
    <3>6. i <= To(t, m) /\ Start(t, m) \in Nat /\ To(t, m) \in Nat
      BY <1>0, <2>2, <3>3, <3>5
    <3>7. m \in DOMAIN parts /\ from[m] = Start(t, m) /\ to[m] = To(t, m)
      BY <2>2, <2>5, <3>3
    <3>8. i \in from[m] .. to[m]
      BY <3>3, <3>4, <3>6, <3>7
    <3> QED BY <3>7, <3>8
  <2>8. ASSUME NEW n \in DOMAIN parts \ {1} PROVE to[n - 1] + 1 < from[n] /\ t[to[n - 1]] \in Marks
    <3>1. n \in 1 .. c /\ n - 1 \in 1 .. c /\ n - 1 # c /\ (n - 1) + 1 = n /\ n - 1 < n
      BY <2>1, <2>2
    <3> DEFINE s == Start(t, n)
               b == SolidBefore(t, s)
               m == To(t, n - 1)
    <3>2. /\ s \in Starts(t) /\ Start(t, n - 1) < s /\ Start(t, n - 1) \in Solid(t)
          /\ s \in 1 .. Len(t)
      BY <1>0, <2>1, <3>1
    <3>3. End(t, n - 1) = s - 1
      BY <2>4, <3>1
    <3>4. m \in Solid(t) /\ m <= s - 1 /\ \A i \in Solid(t) : i <= s - 1 => i <= m
      BY <2>2, <3>1, <3>3
    <3>5. SolidBefore(t, s) # {} => t[Max(SolidBefore(t, s))] \in Marks /\ Max(SolidBefore(t, s)) < s - 1
      BY <3>2 DEF Starts
    <3> HIDE DEF m, s
    <3>6. b \in SUBSET (1 .. Len(t)) /\ m \in b /\ \A i \in b : i <= m
      BY <1>0, <3>2, <3>4 DEF SolidBefore
    <3>7. Max(b) = m
      <4> HIDE DEF b
      <4> QED BY <1>0, <3>6, TheGreatest
    <3>8. t[m] \in Marks /\ m < s - 1
      BY <3>5, <3>6, <3>7
    <3>9. m + 1 < s
      BY <1>0, <3>2, <3>4, <3>8
    <3> QED BY <2>5, <3>1, <3>8, <3>9 DEF m, s
  <2>9. ASSUME NEW n \in DOMAIN parts, NEW i \in from[n] .. to[n] - 1, t[i] \in Marks, t[i + 1] = Blank
        PROVE  FALSE
    <3>1. /\ n \in 1 .. c /\ from[n] \in Solid(t) /\ to[n] \in Solid(t)
          /\ from[n] = Start(t, n) /\ to[n] = To(t, n) /\ to[n] <= End(t, n)
      BY <2>2, <2>5
    <3>2. from[n] \in 1 .. Len(t) /\ to[n] \in 1 .. Len(t)
      BY <1>0, <3>1
    <3>3. i \in 1 .. Len(t) /\ i + 1 \in 1 .. Len(t) /\ i + 1 <= to[n] /\ from[n] <= i
      BY <1>0, <3>2
    <3>4. i \in Solid(t) /\ i + 1 \notin Solid(t)
      BY <1>0, <2>9, <3>3 DEF Solid
    <3> DEFINE After == {j \in Solid(t) : i + 1 < j}
               k == Min(After)
    <3>5. to[n] \in After
      <4>1. to[n] # i + 1
        BY <3>1, <3>4
      <4> QED BY <3>1, <3>2, <3>3, <4>1
    <3>6. k \in After /\ \A j \in After : k <= j
      <4>1. After \in SUBSET (1 .. Len(t))
        BY <1>0
      <4> HIDE DEF After
      <4> QED BY <1>0, <3>5, <4>1, GreatestAndLeast
    <3> HIDE DEF k
    <3>7. k \in Solid(t) /\ k \in 1 .. Len(t) /\ i + 1 < k /\ k <= to[n]
      BY <1>0, <3>5, <3>6
    <3> DEFINE b == SolidBefore(t, k)
    <3>8. b \in SUBSET (1 .. Len(t)) /\ i \in b /\ \A j \in b : j <= i
      <4>1. i \in b
        BY <3>3, <3>4, <3>7 DEF SolidBefore
      <4>2. ASSUME NEW j \in b PROVE j <= i
        <5>1. j \in Solid(t) /\ j < k /\ j \in 1 .. Len(t)
          BY <1>0 DEF SolidBefore
        <5>2. j \notin After
          BY <3>6, <3>7, <5>1
        <5>3. ~ (i + 1 < j) /\ j # i + 1
          BY <3>4, <5>1, <5>2
        <5> QED BY <3>3, <5>1, <5>3
      <4>3. b \in SUBSET (1 .. Len(t))
        BY <1>0 DEF SolidBefore
      <4> QED BY <4>1, <4>2, <4>3
    <3>9. Max(b) = i
      <4> HIDE DEF b
      <4> QED BY <1>0, <3>8, TheGreatest
    <3>10. k \in Starts(t)
      <4>1. i < k - 1
        BY <3>3, <3>7
      <4> QED BY <2>9, <3>7, <3>9, <4>1 DEF Starts
    <3>11. PICK m \in 1 .. c : Start(t, m) = k
      BY <2>1, <3>10
    <3>12. Start(t, n) < Start(t, m)
      BY <3>1, <3>2, <3>3, <3>7, <3>11
    <3>13. n < m
      <4>1. m < n => Start(t, m) < Start(t, n)
        BY <2>1, <3>1
      <4>2. Start(t, n) \in Nat /\ Start(t, m) \in Nat
        BY <3>1, <3>2, <3>7, <3>11
      <4> QED BY <2>1, <3>1, <3>12, <4>1, <4>2
    <3>14. n + 1 \in 1 .. c /\ n # c /\ (n + 1 = m \/ n + 1 < m)
      BY <2>1, <3>1, <3>13
    <3>15. Start(t, n + 1) <= k /\ Start(t, n + 1) \in 1 .. Len(t)
      <4>1. Start(t, n + 1) = k \/ Start(t, n + 1) < k
        BY <2>1, <3>11, <3>14
      <4>2. Start(t, n + 1) \in 1 .. Len(t)
        BY <1>0, <2>2, <3>14
      <4> QED BY <3>7, <4>1, <4>2
    <3>16. to[n] <= Start(t, n + 1) - 1
      BY <2>4, <3>1, <3>14
    <3> QED BY <3>2, <3>7, <3>15, <3>16
  <2>10. IsCutUp(t, parts)
    <3>1. \A i \in Solid(t) : \E n \in DOMAIN parts : i \in from[n] .. to[n]
      BY <2>7
    <3>2. \A n \in DOMAIN parts \ {1} : to[n - 1] + 1 < from[n] /\ t[to[n - 1]] \in Marks
      BY <2>8
    <3>3. \A n \in DOMAIN parts : \A i \in from[n] .. to[n] - 1 : t[i] \in Marks => t[i + 1] # Blank
      BY <2>9
    <3> QED BY <1>2, <2>3, <2>6, <3>1, <3>2, <3>3, Zenon DEF IsCutUp
  <2> QED BY <2>10 DEF parts
<1> QED BY <1>1, <1>2

-----------------------------------------------------------------------------
(* Files.                                                                  *)

\* A byte of a file, and the files whose sizes are numbers.
Kinds == {"id", "size", "pcm", "filler"}
Ids == {"RIFF", "WAVE", "fmt", "LIST", "data"}
Cells == [is : Kinds, of : Ids \cup Int, nr : Nat]
Files == {w \in Seq(Cells) : \A i \in DOMAIN w : w[i].is = "size" => w[i].of \in Nat}

\* What the walk reads at an offset: the data, the fixed offset, or the next chunk.
NextChunk(wav, o) == o + 8 + ReadSize(wav, o + 4) + (ReadSize(wav, o + 4) % 2)
Walked(wav, w, o) ==
  IF o + 8 > Len(wav) THEN Slice(wav, WavHeaderSize, Len(wav))
  ELSE IF ReadId(wav, o) = "data" THEN Slice(wav, o + 8, ReadSize(wav, o + 4))
  ELSE w[NextChunk(wav, o)]

LEMMA WalkGoesOn ==
  ASSUME NEW wav \in Files, NEW o \in Nat, ~ (o + 8 > Len(wav))
  PROVE  ReadSize(wav, o + 4) \in Nat /\ NextChunk(wav, o) \in Nat /\ NextChunk(wav, o) >= o + 8
<1>1. wav \in Seq(Cells) /\ Len(wav) \in Nat /\ DOMAIN wav = 1 .. Len(wav)
  BY LenProperties DEF Files
<1>2. o + 4 + 1 \in DOMAIN wav
  BY <1>1
<1>3. ReadSize(wav, o + 4) \in Nat
  <2>1. CASE Begins("size", wav, o + 4)
    <3>1. wav[o + 4 + 1].is = "size"
      BY <2>1 DEF Begins
    <3>2. wav[o + 4 + 1].of \in Nat
      BY <1>2, <3>1 DEF Files
    <3> QED BY <2>1, <3>2 DEF ReadSize
  <2>2. CASE ~ Begins("size", wav, o + 4)
    BY <2>2 DEF ReadSize
  <2> QED BY <2>1, <2>2
<1> DEFINE n == ReadSize(wav, o + 4)
<1>4. n % 2 \in Nat
  BY <1>3
<1> QED BY <1>3, <1>4 DEF NextChunk

LEMMA WalkExists ==
  ASSUME NEW wav \in Files
  PROVE  \E w : w = [o \in Nat |-> Walked(wav, w, o)]
<1> DEFINE L == Len(wav)
           Far(k) == {o \in Nat : o + 8 + k > L}
           From(k, w) == \A o \in Far(k) : w[o] = Walked(wav, w, o)
           Built == {k \in Nat : \E w : From(k, w)}
<1>0. L \in Nat
  BY LenProperties DEF Files
<1>1. \E w : From(0, w)
  <2> DEFINE w == [o \in Nat |-> Slice(wav, WavHeaderSize, Len(wav))]
  <2>1. \A o \in Far(0) : w[o] = Walked(wav, w, o)
    BY <1>0 DEF Walked
  <2> QED BY <2>1
<1>2. ASSUME NEW k \in Nat, \E w : From(k, w) PROVE \E w : From(k + 1, w)
  <2>1. PICK w : From(k, w)
    BY <1>2
  <2> DEFINE more == [o \in Nat |-> IF o + 8 + k > L THEN w[o] ELSE Walked(wav, w, o)]
  <2>2. \A o \in Nat : more[o] = IF o + 8 + k > L THEN w[o] ELSE Walked(wav, w, o)
    OBVIOUS
  <2> HIDE DEF more
  <2>3. ASSUME NEW o \in Far(k + 1) PROVE more[o] = Walked(wav, more, o)
    <3>1. CASE o + 8 > L
      BY <1>0, <2>1, <2>2, <3>1 DEF Walked
    <3>2. CASE ~ (o + 8 > L)
      <4>1. NextChunk(wav, o) \in Nat /\ NextChunk(wav, o) >= o + 8
        BY <3>2, WalkGoesOn
      <4>2. NextChunk(wav, o) + 8 + k > L
        BY <1>0, <4>1
      <4>3. more[NextChunk(wav, o)] = w[NextChunk(wav, o)]
        BY <2>2, <4>1, <4>2
      <4>4. more[o] = Walked(wav, w, o)
        <5>1. CASE o + 8 + k > L
          BY <2>1, <2>2, <5>1
        <5>2. CASE ~ (o + 8 + k > L)
          BY <2>2, <5>2
        <5> QED BY <5>1, <5>2
      <4> QED BY <4>3, <4>4 DEF Walked
    <3> QED BY <3>1, <3>2
  <2> QED BY <2>3
<1>3. \A k \in Nat : k \in Built
  <2>1. 0 \in Built
    <3> HIDE DEF From
    <3> QED BY <1>1
  <2>2. ASSUME NEW k \in Nat, k \in Built PROVE k + 1 \in Built
    <3> HIDE DEF From
    <3> QED BY <1>2, <2>2
  <2> HIDE DEF Built
  <2> QED BY <2>1, <2>2, NatInductionSet
<1>4. PICK w : From(L, w)
  <2> HIDE DEF From
  <2> QED BY <1>0, <1>3
<1> DEFINE walk == [o \in Nat |-> Walked(wav, w, o)]
<1>5. \A o \in Nat : walk[o] = w[o]
  <2> SUFFICES ASSUME NEW o \in Nat PROVE o \in Far(L)
    BY <1>4
  <2> QED BY <1>0
<1>6. \A o \in Nat : Walked(wav, w, o) = Walked(wav, walk, o)
  <2> SUFFICES ASSUME NEW o \in Nat PROVE Walked(wav, w, o) = Walked(wav, walk, o)
    OBVIOUS
  <2> HIDE DEF walk
  <2>1. CASE o + 8 > Len(wav)
    BY <2>1 DEF Walked
  <2>2. CASE ~ (o + 8 > Len(wav))
    <3>1. walk[NextChunk(wav, o)] = w[NextChunk(wav, o)]
      BY <1>5, <2>2, WalkGoesOn
    <3> QED BY <3>1 DEF Walked
  <2> QED BY <2>1, <2>2
<1>7. walk = [o \in Nat |-> Walked(wav, walk, o)]
  <2>1. \A o \in Nat : walk[o] = Walked(wav, walk, o)
    BY <1>6
  <2>2. walk = [o \in Nat |-> walk[o]]
    OBVIOUS
  <2> HIDE DEF walk
  <2> QED BY <2>1, <2>2
<1> HIDE DEF walk
<1> QED BY <1>7

LEMMA WavToPcmWalks ==
  ASSUME NEW wav \in Files
  PROVE  \E w : WavToPcm(wav) = w[12] /\ \A o \in Nat : w[o] = Walked(wav, w, o)
<1> DEFINE F(w) == [o \in Nat |-> Walked(wav, w, o)]
           walk == CHOOSE w : w = F(w)
<1>1. \E w : w = F(w)
  BY WalkExists
<1>2. walk = F(walk)
  <2> HIDE DEF F
  <2> QED BY <1>1
<1>3. WavToPcm(wav) = walk[12]
  BY DEF WavToPcm, Walked, NextChunk
<1>4. \A o \in Nat : walk[o] = Walked(wav, walk, o)
  <2> HIDE DEF walk
  <2> QED BY <1>2
<1> HIDE DEF walk
<1> QED BY <1>3, <1>4

LEMMA FilesJoin ==
  ASSUME NEW a \in Files, NEW b \in Files
  PROVE  /\ a \o b \in Files /\ Len(a) \in Nat /\ Len(b) \in Nat
         /\ Len(a \o b) = Len(a) + Len(b)
         /\ \A i \in 1 .. Len(a) : (a \o b)[i] = a[i]
         /\ \A i \in 1 .. Len(b) : (a \o b)[Len(a) + i] = b[i]
<1>1. a \in Seq(Cells) /\ b \in Seq(Cells)
  BY DEF Files
<1>2. /\ Len(a) \in Nat /\ Len(b) \in Nat /\ a \o b \in Seq(Cells) /\ Len(a \o b) = Len(a) + Len(b)
      /\ \A i \in 1 .. Len(a \o b) : (a \o b)[i] = IF i <= Len(a) THEN a[i] ELSE b[i - Len(a)]
  BY <1>1, ConcatProperties, LenProperties
<1> DEFINE c == a \o b
<1> HIDE DEF c
<1>3. DOMAIN c = 1 .. Len(a) + Len(b) /\ DOMAIN a = 1 .. Len(a) /\ DOMAIN b = 1 .. Len(b)
  BY <1>1, <1>2, LenProperties DEF c
<1>4. \A i \in 1 .. Len(a) + Len(b) : c[i] = IF i <= Len(a) THEN a[i] ELSE b[i - Len(a)]
  BY <1>2 DEF c
<1>5. ASSUME NEW i \in DOMAIN c, c[i].is = "size" PROVE c[i].of \in Nat
  <2>1. CASE i <= Len(a)
    <3>1. i \in DOMAIN a /\ c[i] = a[i]
      BY <1>2, <1>3, <1>4, <2>1
    <3> QED BY <1>5, <3>1 DEF Files
  <2>2. CASE ~ (i <= Len(a))
    <3>1. i - Len(a) \in DOMAIN b /\ c[i] = b[i - Len(a)]
      BY <1>2, <1>3, <1>4, <2>2
    <3> QED BY <1>5, <3>1 DEF Files
  <2> QED BY <2>1, <2>2
<1>6. c \in Files
  BY <1>2, <1>5 DEF Files, c
<1>7. \A i \in 1 .. Len(a) : c[i] = a[i]
  BY <1>2, <1>4
<1>8. \A i \in 1 .. Len(b) : c[Len(a) + i] = b[i]
  <2> TAKE i \in 1 .. Len(b)
  <2>1. Len(a) + i \in 1 .. Len(a) + Len(b) /\ ~ (Len(a) + i <= Len(a)) /\ (Len(a) + i) - Len(a) = i
    BY <1>2
  <2> QED BY <1>4, <2>1
<1> QED BY <1>2, <1>6, <1>7, <1>8 DEF c

LEMMA TableIsFile ==
  ASSUME NEW n \in Nat, NEW w, DOMAIN w = 1 .. n, w = [i \in 1 .. n |-> w[i]],
         \A i \in 1 .. n : w[i] \in Cells /\ (w[i].is = "size" => w[i].of \in Nat)
  PROVE  w \in Files /\ Len(w) = n
<1>1. w \in [1 .. n -> Cells]
  BY Zenon
<1>2. w \in Seq(Cells)
  BY <1>1, SeqDef, Zenon
<1>3. Len(w) = n
  BY <1>2, LenProperties
<1> QED BY <1>2, <1>3 DEF Files

LEMMA FieldIsFile ==
  ASSUME NEW kind \in Kinds, NEW v \in Ids \cup Int, kind = "size" => v \in Nat
  PROVE  /\ Field(kind, v) \in Files /\ Len(Field(kind, v)) = 4
         /\ \A i \in 1 .. 4 : Field(kind, v)[i] = [is |-> kind, of |-> v, nr |-> i]
<1> DEFINE w == Field(kind, v)
<1>1. DOMAIN w = 1 .. 4 /\ \A i \in 1 .. 4 : w[i] = [is |-> kind, of |-> v, nr |-> i]
  BY DEF Field
<1>2. w = [i \in 1 .. 4 |-> w[i]]
  BY DEF Field
<1>3. ASSUME NEW i \in 1 .. 4 PROVE w[i] \in Cells /\ (w[i].is = "size" => w[i].of \in Nat)
  <2> DEFINE cell == [is |-> kind, of |-> v, nr |-> i]
  <2>1. w[i] = cell
    BY <1>1
  <2>2. cell.is = kind /\ cell.of = v
    OBVIOUS
  <2>3. i \in Nat
    OBVIOUS
  <2>4. cell \in Cells
    BY <2>3 DEF Cells
  <2> HIDE DEF w, cell
  <2> QED BY <2>1, <2>2, <2>4
<1> HIDE DEF w
<1>4. w \in Files /\ Len(w) = 4
  BY <1>1, <1>2, <1>3, TableIsFile
<1> QED BY <1>1, <1>4 DEF w

LEMMA FillerIsFile ==
  ASSUME NEW n \in Nat
  PROVE  Filler(n) \in Files /\ Len(Filler(n)) = n
<1> DEFINE w == Filler(n)
<1>1. DOMAIN w = 1 .. n /\ \A i \in 1 .. n : w[i] = [is |-> "filler", of |-> 0, nr |-> 0]
  BY DEF Filler
<1>2. w = [i \in 1 .. n |-> w[i]]
  BY DEF Filler
<1>3. \A i \in 1 .. n : w[i] \in Cells /\ (w[i].is = "size" => w[i].of \in Nat)
  <2> DEFINE cell == [is |-> "filler", of |-> 0, nr |-> 0]
  <2>1. cell.is = "filler" /\ "filler" # "size" /\ "filler" \in Kinds
    BY DEF Kinds
  <2>2. cell \in Cells
    BY <2>1 DEF Cells
  <2>3. \A i \in 1 .. n : w[i] = cell
    BY <1>1
  <2> HIDE DEF w, cell
  <2> QED BY <2>1, <2>2, <2>3
<1> HIDE DEF w
<1>4. w \in Files /\ Len(w) = n
  BY <1>1, <1>2, <1>3, TableIsFile
<1> QED BY <1>4 DEF w

LEMMA BytesAreFile ==
  ASSUME NEW n \in Nat, NEW s \in [1 .. n -> Int]
  PROVE  Bytes(s) \in Files /\ Len(Bytes(s)) = 2 * n
<1> DEFINE w == Bytes(s)
<1>0. Len(s) = n /\ 2 * n \in Nat
  BY LenProperties
<1>1. DOMAIN w = 1 .. 2 * n
      /\ \A i \in 1 .. 2 * n : w[i] = [is |-> "pcm", of |-> s[(i + 1) \div 2], nr |-> 2 - (i % 2)]
  BY <1>0 DEF Bytes
<1>2. w = [i \in 1 .. 2 * n |-> w[i]]
  BY <1>0 DEF Bytes
<1>3. \A i \in 1 .. 2 * n : w[i] \in Cells /\ (w[i].is = "size" => w[i].of \in Nat)
  <2> HIDE DEF w
  <2> TAKE i \in 1 .. 2 * n
  <2>1. (i + 1) \div 2 \in 1 .. n /\ 2 - (i % 2) \in Nat
    OBVIOUS
  <2> DEFINE v == s[(i + 1) \div 2]
             nr == 2 - (i % 2)
             cell == [is |-> "pcm", of |-> v, nr |-> nr]
  <2>2. v \in Int /\ nr \in Nat
    BY <2>1
  <2>3. w[i] = cell
    BY <1>1
  <2> HIDE DEF v, nr
  <2>4. cell.is = "pcm" /\ "pcm" # "size" /\ "pcm" \in Kinds
    BY DEF Kinds
  <2>5. cell \in Cells
    BY <2>2, <2>4 DEF Cells
  <2> HIDE DEF cell
  <2> QED BY <2>3, <2>4, <2>5
<1> HIDE DEF w
<1>4. w \in Files /\ Len(w) = 2 * n
  BY <1>0, <1>1, <1>2, <1>3, TableIsFile
<1> QED BY <1>4 DEF w

\* A chunk stands at an offset: its id, its size and what follows are read there.
Stands(wav, o, id, size) ==
  /\ \A i \in 1 .. 4 : wav[o + i] = [is |-> "id", of |-> id, nr |-> i]
  /\ \A i \in 1 .. 4 : wav[o + 4 + i] = [is |-> "size", of |-> size, nr |-> i]

LEMMA ChunkIsFile ==
  ASSUME NEW id \in Ids, NEW size \in Nat, NEW content \in Files
  PROVE  /\ Chunk(id, size, content) \in Files
         /\ Len(Chunk(id, size, content)) = 8 + Len(content) /\ Len(content) \in Nat
         /\ Stands(Chunk(id, size, content), 0, id, size)
         /\ \A i \in 1 .. Len(content) : Chunk(id, size, content)[8 + i] = content[i]
<1> DEFINE a == Field("id", id)
           b == Field("size", size)
           ab == a \o b
           c == ab \o content
<1>1. /\ a \in Files /\ Len(a) = 4 /\ \A i \in 1 .. 4 : a[i] = [is |-> "id", of |-> id, nr |-> i]
      /\ b \in Files /\ Len(b) = 4 /\ \A i \in 1 .. 4 : b[i] = [is |-> "size", of |-> size, nr |-> i]
  <2>1. "id" \in Kinds /\ "size" \in Kinds /\ "id" # "size"
    BY DEF Kinds
  <2>2. id \in Ids \cup Int
    OBVIOUS
  <2>3. size \in Ids \cup Int
    OBVIOUS
  <2> HIDE DEF a, b
  <2>4. a \in Files /\ Len(a) = 4 /\ \A i \in 1 .. 4 : a[i] = [is |-> "id", of |-> id, nr |-> i]
    BY <2>1, <2>2, FieldIsFile, Zenon DEF a
  <2>5. b \in Files /\ Len(b) = 4 /\ \A i \in 1 .. 4 : b[i] = [is |-> "size", of |-> size, nr |-> i]
    BY <2>1, <2>3, FieldIsFile, Zenon DEF b
  <2> QED BY <2>4, <2>5
<1> HIDE DEF a, b
<1>2. /\ ab \in Files /\ Len(ab) = 8
      /\ \A i \in 1 .. 4 : ab[i] = a[i] /\ ab[4 + i] = b[i]
  <2>1. /\ ab \in Files /\ Len(ab) = Len(a) + Len(b)
        /\ \A i \in 1 .. Len(a) : ab[i] = a[i]
        /\ \A i \in 1 .. Len(b) : ab[Len(a) + i] = b[i]
    BY <1>1, FilesJoin, ZenonT(60)
  <2> HIDE DEF ab
  <2> QED BY <1>1, <2>1
<1> HIDE DEF ab
<1>3. /\ c \in Files /\ Len(c) = 8 + Len(content) /\ Len(content) \in Nat
      /\ \A i \in 1 .. 8 : c[i] = ab[i]
      /\ \A i \in 1 .. Len(content) : c[8 + i] = content[i]
  <2>1. /\ c \in Files /\ Len(c) = Len(ab) + Len(content) /\ Len(content) \in Nat
        /\ \A i \in 1 .. Len(ab) : c[i] = ab[i]
        /\ \A i \in 1 .. Len(content) : c[Len(ab) + i] = content[i]
    BY <1>2, FilesJoin, ZenonT(60)
  <2> HIDE DEF c
  <2> QED BY <1>2, <2>1
<1>4. c = Chunk(id, size, content)
  BY DEF Chunk, c, ab, a, b
<1> HIDE DEF c
<1>5. Stands(c, 0, id, size)
  <2>1. \A i \in 1 .. 4 : 0 + i \in 1 .. 8 /\ 0 + i = i /\ 0 + 4 + i \in 1 .. 8 /\ 0 + 4 + i = 4 + i
    OBVIOUS
  <2> QED BY <1>1, <1>2, <1>3, <2>1 DEF Stands
<1> QED BY <1>3, <1>4, <1>5

\* ... also behind other bytes, and with others behind it.
LEMMA StandsBehind ==
  ASSUME NEW a \in Files, NEW b \in Files, NEW id, NEW size,
         Len(b) >= 8, Stands(b, 0, id, size)
  PROVE  Stands(a \o b, Len(a), id, size)
<1> DEFINE c == a \o b
<1>1. Len(a) \in Nat /\ Len(b) \in Nat /\ \A i \in 1 .. Len(b) : c[Len(a) + i] = b[i]
  BY FilesJoin
<1> HIDE DEF c
<1>2. \A i \in 1 .. 4 : c[Len(a) + i] = b[i] /\ c[Len(a) + 4 + i] = b[4 + i]
  <2> TAKE i \in 1 .. 4
  <2>1. i \in 1 .. Len(b) /\ 4 + i \in 1 .. Len(b) /\ Len(a) + 4 + i = Len(a) + (4 + i)
    BY <1>1
  <2> QED BY <1>1, <2>1
<1>3. \A i \in 1 .. 4 : 0 + i = i /\ 0 + 4 + i = 4 + i
  OBVIOUS
<1> QED BY <1>2, <1>3, ZenonT(60) DEF Stands, c

LEMMA StandsBefore ==
  ASSUME NEW a \in Files, NEW b \in Files, NEW o \in Nat, NEW id, NEW size,
         o + 8 <= Len(a), Stands(a, o, id, size)
  PROVE  Stands(a \o b, o, id, size)
<1> DEFINE c == a \o b
<1>1. Len(a) \in Nat /\ \A i \in 1 .. Len(a) : c[i] = a[i]
  BY FilesJoin
<1> HIDE DEF c
<1>2. \A i \in 1 .. 4 : c[o + i] = a[o + i] /\ c[o + 4 + i] = a[o + 4 + i]
  BY <1>1
<1> QED BY <1>2 DEF Stands, c

LEMMA StandingIsRead ==
  ASSUME NEW wav, NEW o \in Nat, NEW id, NEW size, Stands(wav, o, id, size)
  PROVE  ReadId(wav, o) = id /\ ReadSize(wav, o + 4) = size
<1>1. Begins("id", wav, o) /\ Begins("size", wav, o + 4)
  BY DEF Begins, Stands
<1>2. wav[o + 1].of = id /\ wav[o + 4 + 1].of = size
  BY DEF Stands
<1> QED BY <1>1, <1>2 DEF ReadId, ReadSize

\* The walk passes a chunk that is not the data, and ends with the data: as much as
\* the size says, or as there is.
LEMMA OtherChunkIsPassed ==
  ASSUME NEW wav \in Files, NEW w, \A o \in Nat : w[o] = Walked(wav, w, o),
         NEW o \in Nat, NEW id, NEW size \in Nat, Stands(wav, o, id, size), id # "data",
         o + 8 <= Len(wav)
  PROVE  w[o] = w[o + 8 + size + (size % 2)]
<1>1. ReadId(wav, o) = id /\ ReadSize(wav, o + 4) = size
  BY StandingIsRead
<1>2. ~ (o + 8 > Len(wav))
  BY LenProperties DEF Files
<1>3. w[o] = Walked(wav, w, o)
  OBVIOUS
<1>4. Walked(wav, w, o) = w[NextChunk(wav, o)]
  BY <1>1, <1>2 DEF Walked
<1> QED BY <1>1, <1>3, <1>4 DEF NextChunk

LEMMA DataIsFound ==
  ASSUME NEW before \in Files, NEW content \in Files, NEW size \in Nat, size >= Len(content),
         NEW w, LET wav == before \o Chunk("data", size, content)
                IN  \A o \in Nat : w[o] = Walked(wav, w, o)
  PROVE  w[Len(before)] = content
<1> DEFINE c == Chunk("data", size, content)
           wav == before \o c
           o == Len(before)
<1>1. /\ c \in Files /\ Len(c) = 8 + Len(content) /\ Len(content) \in Nat /\ Stands(c, 0, "data", size)
      /\ \A i \in 1 .. Len(content) : c[8 + i] = content[i]
  <2>1. "data" \in Ids
    BY DEF Ids
  <2> QED BY <2>1, ChunkIsFile, ZenonT(60)
<1> HIDE DEF c
<1>2. /\ wav \in Files /\ Len(wav) = o + 8 + Len(content) /\ o \in Nat
      /\ \A i \in 1 .. Len(c) : wav[o + i] = c[i]
  <2>1. /\ wav \in Files /\ Len(wav) = Len(before) + Len(c) /\ Len(before) \in Nat
        /\ \A i \in 1 .. Len(c) : wav[Len(before) + i] = c[i]
    BY <1>1, FilesJoin, ZenonT(60)
  <2> HIDE DEF wav
  <2> QED BY <1>1, <2>1
<1>3. Stands(wav, o, "data", size)
  BY <1>1, StandsBehind
<1>4. \A x \in Nat : w[x] = Walked(wav, w, x)
  BY DEF c
<1> HIDE DEF wav
<1>5. w[o] = Slice(wav, o + 8, size)
  <2>1. ReadId(wav, o) = "data" /\ ReadSize(wav, o + 4) = size
    BY <1>2, <1>3, StandingIsRead
  <2>2. ~ (o + 8 > Len(wav))
    BY <1>1, <1>2
  <2> HIDE DEF o
  <2> QED BY <1>2, <1>4, <2>1, <2>2 DEF Walked
<1>6. Slice(wav, o + 8, size) = SubSeq(wav, o + 9, Len(wav))
  <2> DEFINE m == Min({o + 8 + size, Len(wav)})
  <2>1. m = Len(wav)
    <3>1. Len(wav) \in {o + 8 + size, Len(wav)} /\ \A y \in {o + 8 + size, Len(wav)} : Len(wav) <= y
      BY <1>1, <1>2
    <3>2. \A x \in {o + 8 + size, Len(wav)} : (\A y \in {o + 8 + size, Len(wav)} : x <= y) => x = Len(wav)
      BY <1>1, <1>2, SMTT(30)
    <3> HIDE DEF o
    <3> QED BY <3>1, <3>2 DEF Min
  <2>2. o + 8 + 1 = o + 9
    BY <1>2
  <2> HIDE DEF m, o
  <2> QED BY <2>1, <2>2 DEF Slice, m
<1>7. SubSeq(wav, o + 9, Len(wav)) = content
  <2> DEFINE s == SubSeq(wav, o + 9, Len(wav))
  <2>0. wav \in Seq(Cells) /\ content \in Seq(Cells)
    BY <1>2 DEF Files
  <2>1. Len(s) = Len(content) /\ s \in Seq(Cells)
        /\ \A i \in 1 .. Len(content) : s[i] = wav[o + 9 + i - 1]
    <3>1. \A i \in o + 9 .. Len(wav) : wav[i] \in Cells
      BY <1>1, <1>2, <2>0, ElementOfSeq
    <3> HIDE DEF o
    <3> QED BY <1>1, <1>2, <2>0, <3>1, SubSeqProperties
  <2>2. \A i \in 1 .. Len(content) : s[i] = content[i]
    <3> TAKE i \in 1 .. Len(content)
    <3>1. o + 9 + i - 1 = o + (8 + i) /\ 8 + i \in 1 .. Len(c)
      BY <1>1, <1>2
    <3> HIDE DEF s, o
    <3> QED BY <1>1, <1>2, <2>1, <3>1
  <2> HIDE DEF s
  <2>3. s = content
    BY <2>0, <2>1, <2>2, SeqEqual
  <2> QED BY <2>3 DEF s
<1> QED BY <1>5, <1>6, <1>7

Format == Riff \o Chunk("fmt", 16, Filler(16))

LEMMA FormatStands == Format \in Files /\ Len(Format) = 36 /\ Stands(Format, 12, "fmt", 16)
<1> DEFINE a == Field("id", "RIFF")
           b == Field("size", 0)
           c == Field("id", "WAVE")
           ab == a \o b
           riff == ab \o c
           filler == Filler(16)
           first == Chunk("fmt", 16, filler)
           all == riff \o first
<1>1. /\ a \in Files /\ Len(a) = 4 /\ b \in Files /\ Len(b) = 4 /\ c \in Files /\ Len(c) = 4
  <2>1. /\ "id" \in Kinds /\ "size" \in Kinds /\ "id" # "size"
        /\ "RIFF" \in Ids \cup Int /\ "WAVE" \in Ids \cup Int /\ 0 \in Ids \cup Int /\ 0 \in Nat
    BY DEF Kinds, Ids
  <2> QED BY <2>1, FieldIsFile, Zenon
<1> HIDE DEF a, b, c
<1>2. ab \in Files /\ Len(ab) = 8
  <2>1. ab \in Files /\ Len(ab) = Len(a) + Len(b)
    BY <1>1, FilesJoin, ZenonT(60)
  <2> QED BY <1>1, <2>1
<1> HIDE DEF ab
<1>3. riff \in Files /\ Len(riff) = 12
  <2>1. riff \in Files /\ Len(riff) = Len(ab) + Len(c)
    BY <1>1, <1>2, FilesJoin, ZenonT(60)
  <2> QED BY <1>1, <1>2, <2>1
<1>4. riff = Riff
  BY DEF Riff, ab, a, b, c
<1> HIDE DEF riff
<1>5. first \in Files /\ Len(first) = 24 /\ Stands(first, 0, "fmt", 16)
  <2>1. "fmt" \in Ids /\ 16 \in Nat
    BY DEF Ids
  <2>2. filler \in Files /\ Len(filler) = 16
    BY <2>1, FillerIsFile
  <2> HIDE DEF filler
  <2>3. first \in Files /\ Len(first) = 8 + Len(filler) /\ Stands(first, 0, "fmt", 16)
    BY <2>1, <2>2, ChunkIsFile, ZenonT(60)
  <2> HIDE DEF first
  <2> QED BY <2>2, <2>3
<1>6. all = Format
  BY <1>4 DEF Format
<1> HIDE DEF first
<1>7. all \in Files /\ Len(all) = Len(riff) + Len(first)
  BY <1>3, <1>5, FilesJoin, ZenonT(60)
<1>8. Stands(all, 12, "fmt", 16)
  <2>1. Len(first) >= 8
    BY <1>5
  <2>2. Stands(all, Len(riff), "fmt", 16)
    BY <1>3, <1>5, <2>1, StandsBehind, ZenonT(60)
  <2> QED BY <1>3, <2>2
<1> HIDE DEF all
<1>9. Len(all) = 36
  BY <1>3, <1>5, <1>7
<1> QED BY <1>6, <1>7, <1>8, <1>9

\* Behind the format chunk, and perhaps others, the data chunk is read.
LEMMA FormatIsPassed ==
  ASSUME NEW rest \in Files, NEW w, \A o \in Nat : w[o] = Walked(Format \o rest, w, o)
  PROVE  w[12] = w[36]
<1> DEFINE wav == Format \o rest
<1>1. Stands(wav, 12, "fmt", 16)
  <2>1. 12 \in Nat /\ 12 + 8 <= Len(Format)
    BY FormatStands
  <2> QED BY <2>1, FormatStands, StandsBefore, ZenonT(60)
<1>2. wav \in Files /\ Len(wav) = Len(Format) + Len(rest) /\ Len(rest) \in Nat
  BY FormatStands, FilesJoin, ZenonT(60)
<1> HIDE DEF wav
<1>3. 12 + 8 <= Len(wav)
  BY <1>2, FormatStands
<1>4. \A o \in Nat : w[o] = Walked(wav, w, o)
  BY DEF wav
<1>5. w[12] = w[12 + 8 + 16 + (16 % 2)]
  <2>1. 12 \in Nat /\ 16 \in Nat /\ "fmt" # "data"
    OBVIOUS
  <2> QED BY <1>1, <1>2, <1>3, <1>4, <2>1, OtherChunkIsPassed
<1>6. 12 + 8 + 16 + (16 % 2) = 36
  OBVIOUS
<1> QED BY <1>5, <1>6

LEMMA ShortLayoutIsRead ==
  ASSUME NEW content \in Files, NEW size \in Nat, size >= Len(content)
  PROVE  WavToPcm(Format \o Chunk("data", size, content)) = content
<1> DEFINE data == Chunk("data", size, content)
           wav == Format \o data
<1>1. data \in Files
  <2>1. "data" \in Ids
    BY DEF Ids
  <2> QED BY <2>1, ChunkIsFile, ZenonT(60)
<1>2. wav \in Files
  BY <1>1, FormatStands, FilesJoin, ZenonT(60)
<1>3. PICK w : WavToPcm(wav) = w[12] /\ \A o \in Nat : w[o] = Walked(wav, w, o)
  BY <1>2, WavToPcmWalks
<1>4. w[12] = w[36]
  BY <1>1, <1>3, FormatIsPassed, ZenonT(60)
<1>5. w[Len(Format)] = content
  BY <1>3, FormatStands, DataIsFound, ZenonT(60)
<1> QED BY <1>3, <1>4, <1>5, FormatStands

LEMMA LongLayoutIsRead ==
  ASSUME NEW content \in Files
  PROVE  WavToPcm(Format \o Chunk("LIST", 3, Filler(4)) \o Chunk("data", Len(content), content)) = content
<1> DEFINE filler == Filler(4)
           extra == Chunk("LIST", 3, filler)
           before == Format \o extra
           data == Chunk("data", Len(content), content)
           wav == before \o data
<1>0. Len(content) \in Nat
  BY LenProperties DEF Files
<1>1. data \in Files /\ Len(data) = 8 + Len(content)
  <2>1. "data" \in Ids
    BY DEF Ids
  <2> QED BY <1>0, <2>1, ChunkIsFile, ZenonT(60)
<1>2. extra \in Files /\ Len(extra) = 12 /\ Stands(extra, 0, "LIST", 3)
  <2>1. "LIST" \in Ids /\ 3 \in Nat /\ 4 \in Nat
    BY DEF Ids
  <2>2. filler \in Files /\ Len(filler) = 4
    BY <2>1, FillerIsFile
  <2> HIDE DEF filler
  <2>3. extra \in Files /\ Len(extra) = 8 + Len(filler) /\ Stands(extra, 0, "LIST", 3)
    BY <2>1, <2>2, ChunkIsFile, ZenonT(60)
  <2> HIDE DEF extra
  <2> QED BY <2>2, <2>3
<1>3. before \in Files /\ Len(before) = 48 /\ Stands(before, 36, "LIST", 3)
  <2>1. before \in Files /\ Len(before) = Len(Format) + Len(extra)
    BY <1>2, FormatStands, FilesJoin, ZenonT(60)
  <2> HIDE DEF extra
  <2>2. Len(extra) >= 8
    BY <1>2
  <2>3. Stands(before, Len(Format), "LIST", 3)
    BY <1>2, <2>2, FormatStands, StandsBehind, ZenonT(60)
  <2> HIDE DEF before
  <2> QED BY <1>2, <2>1, <2>3, FormatStands
<1>4. wav \in Files /\ Len(wav) = Len(before) + Len(data)
  BY <1>1, <1>3, FilesJoin, ZenonT(60)
<1>5. PICK w : WavToPcm(wav) = w[12] /\ \A o \in Nat : w[o] = Walked(wav, w, o)
  BY <1>4, WavToPcmWalks
<1>6. w[12] = w[36]
  <2> DEFINE rest == extra \o data
  <2>1. rest \in Files
    BY <1>1, <1>2, FilesJoin, ZenonT(60)
  <2>2. wav = Format \o rest
    <3>1. Format \in Seq(Cells) /\ extra \in Seq(Cells) /\ data \in Seq(Cells)
      BY <1>1, <1>2, FormatStands DEF Files
    <3> HIDE DEF extra, data
    <3> QED BY <3>1, ConcatAssociative
  <2> HIDE DEF rest, wav
  <2>3. \A o \in Nat : w[o] = Walked(Format \o rest, w, o)
    BY <1>5, <2>2
  <2> QED BY <2>1, <2>3, FormatIsPassed, ZenonT(60)
<1>7. w[36] = w[36 + 8 + 3 + (3 % 2)]
  <2>1. 36 \in Nat /\ 3 \in Nat /\ "LIST" # "data" /\ 36 + 8 <= Len(before) /\ 36 + 8 <= Len(wav)
    <3> HIDE DEF before, wav, data
    <3> QED BY <1>0, <1>1, <1>3, <1>4
  <2>2. Stands(wav, 36, "LIST", 3)
    BY <1>1, <1>3, <2>1, StandsBefore, ZenonT(60)
  <2> HIDE DEF wav
  <2> QED BY <1>4, <1>5, <2>1, <2>2, OtherChunkIsPassed
<1>8. 36 + 8 + 3 + (3 % 2) = 48
  OBVIOUS
<1>9. w[Len(before)] = content
  <2>1. Len(content) >= Len(content)
    BY <1>0
  <2> HIDE DEF before
  <2> QED BY <1>0, <1>3, <1>5, <2>1, DataIsFound, ZenonT(60)
<1> HIDE DEF before, wav
<1>10. WavToPcm(wav) = content
  BY <1>3, <1>5, <1>6, <1>7, <1>8, <1>9
<1> QED BY <1>10 DEF before, wav

-----------------------------------------------------------------------------
(* Sounds.                                                                 *)

LEMMA Halves ==
  ASSUME NEW k \in Nat
  PROVE  /\ (2 * k) \div 2 = k /\ (2 * k) % 2 = 0
         /\ (2 * k + 1) \div 2 = k
OBVIOUS

\* Samples written as bytes are read back as they are.
LEMMA BytesAndBack ==
  ASSUME NEW n \in Nat, NEW s \in [1 .. n -> Int]
  PROVE  Samples(Bytes(s)) = s /\ Len(Bytes(s)) = 2 * n
<1> DEFINE b == Bytes(s)
           cell(i) == [is |-> "pcm", of |-> s[(i + 1) \div 2], nr |-> 2 - (i % 2)]
<1>1. Len(s) = n
  BY LenProperties
<1>2. b = [i \in 1 .. 2 * n |-> cell(i)]
  BY <1>1 DEF Bytes
<1>3. Len(b) = 2 * n
  <2>1. b \in [1 .. 2 * n -> {cell(i) : i \in 1 .. 2 * n}]
    <3> HIDE DEF b, cell
    <3> QED BY <1>2
  <2>2. b \in Seq({cell(i) : i \in 1 .. 2 * n}) /\ 2 * n \in Nat
    <3> HIDE DEF b, cell
    <3>1. 2 * n \in Nat
      OBVIOUS
    <3> QED BY <2>1, <3>1, SeqDef, ZenonT(60)
  <2>3. DOMAIN b = 1 .. 2 * n
    BY <1>2
  <2> HIDE DEF b, cell
  <2> QED BY <2>2, <2>3, LenProperties
<1>4. \A k \in 1 .. n : b[2 * k].of = s[k]
  <2> TAKE k \in 1 .. n
  <2>1. 2 * k \in 1 .. 2 * n /\ (2 * k + 1) \div 2 = k
    BY Halves
  <2>2. b[2 * k] = cell(2 * k)
    <3> HIDE DEF cell, b
    <3> QED BY <1>2, <2>1
  <2> QED BY <2>1, <2>2
<1>5. Samples(b) = [k \in 1 .. n |-> b[2 * k].of]
  BY <1>3, Halves DEF Samples
<1> HIDE DEF b, cell
<1>6. Samples(b) = s
  BY <1>4, <1>5
<1> QED BY <1>3, <1>6 DEF b

\* A clip that is long enough to be faded begins and ends in silence.
LEMMA FadeIsSilent ==
  ASSUME NEW pcm, Samples(pcm) \in Seq(Int), Len(Samples(pcm)) >= 2,
         FadeSamples \in Nat, FadeSamples > 0
  PROVE  LET clip == ApplyEdgeFade(pcm)
             heard == Samples(clip)
         IN  Len(clip) % 2 = 0 /\ Head(heard) = 0 /\ heard[Len(heard)] = 0
<1> DEFINE s == Samples(pcm)
           total == Len(s)
           n == Min({FadeSamples, total \div 2})
           At1(k) == IF k <= n THEN Scale(s[k], k - 1, n)
                     ELSE IF k > total - n THEN Scale(s[k], total - k, n)
                     ELSE s[k]
           faded == [k \in 1 .. total |-> At1(k)]
<1>1. total \in Nat /\ total >= 2 /\ \A k \in 1 .. total : s[k] \in Int
  BY LenProperties, ElementOfSeq
<1>2. n \in Nat /\ n > 0 /\ n <= total \div 2
  <2>1. n \in {FadeSamples, total \div 2} /\ \A y \in {FadeSamples, total \div 2} : n <= y
    <3>1. total \div 2 \in Nat
      BY <1>1
    <3>2. \E x \in {FadeSamples, total \div 2} : \A y \in {FadeSamples, total \div 2} : x <= y
      BY <3>1
    <3> HIDE DEF total
    <3> QED BY <3>2 DEF Min
  <2>2. total \div 2 >= 1
    BY <1>1
  <2> HIDE DEF n, total
  <2> QED BY <1>1, <2>1, <2>2
<1>3. ApplyEdgeFade(pcm) = Bytes(faded)
  <2>1. n # 0
    BY <1>2
  <2> QED BY <2>1 DEF ApplyEdgeFade
<1> HIDE DEF n
<1>4. \A v \in Int, i \in Nat : Scale(v, i, n) \in Int /\ Scale(v, 0, n) = 0
  BY <1>2 DEF Scale
<1>5. \A k \in 1 .. total : At1(k) \in Int
  <2> TAKE k \in 1 .. total
  <2>1. k - 1 \in Nat /\ total - k \in Nat /\ s[k] \in Int
    BY <1>1
  <2> QED BY <1>4, <2>1
<1>6. At1(1) = 0
  <2>1. 1 <= n /\ 1 - 1 = 0 /\ s[1] \in Int
    BY <1>1, <1>2
  <2> QED BY <1>4, <2>1
<1>7. At1(total) = 0
  <2>1. ~ (total <= n) /\ total > total - n /\ total - total = 0 /\ s[total] \in Int
    BY <1>1, <1>2
  <2> QED BY <1>4, <2>1
<1> HIDE DEF s, At1
<1>8. /\ faded \in [1 .. total -> Int] /\ faded[1] = 0 /\ faded[total] = 0
  BY <1>1, <1>5, <1>6, <1>7
<1> HIDE DEF faded
<1>9. Samples(Bytes(faded)) = faded /\ Len(Bytes(faded)) = 2 * total
  BY <1>1, <1>8, BytesAndBack
<1>10. Len(faded) = total /\ Head(faded) = faded[1]
  <2>1. faded \in Seq(Int)
    BY <1>1, <1>8, SeqDef
  <2>2. Len(faded) = total
    <3>1. DOMAIN faded = 1 .. total
      BY <1>8
    <3> HIDE DEF total
    <3> QED BY <1>1, <2>1, <3>1, LenProperties
  <2> HIDE DEF total
  <2> QED BY <1>1, <2>1, <2>2, EmptySeq, HeadTailProperties
<1>11. (2 * total) % 2 = 0
  BY <1>1, Halves
<1> QED BY <1>3, <1>8, <1>9, <1>10, <1>11

\* Half a sample at the end is no sample.
LEMMA HalfASample ==
  ASSUME NEW n \in Nat, NEW s \in [1 .. n -> Int]
  PROVE  Samples(Bytes(s) \o Filler(1)) = s
<1> DEFINE b == Bytes(s)
           half == Filler(1)
           w == b \o half
<1>1. b \in Files /\ Len(b) = 2 * n /\ Samples(b) = s
  BY BytesAreFile, BytesAndBack
<1>2. half \in Files /\ Len(half) = 1
  <2>1. 1 \in Nat
    OBVIOUS
  <2> QED BY <2>1, FillerIsFile
<1> HIDE DEF b, half
<1>3. Len(w) = 2 * n + 1 /\ \A i \in 1 .. 2 * n : w[i] = b[i]
  <2>1. Len(w) = Len(b) + Len(half) /\ \A i \in 1 .. Len(b) : w[i] = b[i]
    BY <1>1, <1>2, FilesJoin, ZenonT(60)
  <2> HIDE DEF w
  <2> QED BY <1>1, <1>2, <2>1
<1> HIDE DEF w
<1>4. Samples(w) = [k \in 1 .. n |-> w[2 * k].of] /\ s = [k \in 1 .. n |-> b[2 * k].of]
  <2>1. Len(w) \div 2 = n /\ Len(b) \div 2 = n
    BY <1>1, <1>3, Halves
  <2> QED BY <1>1, <2>1 DEF Samples
<1>5. \A k \in 1 .. n : w[2 * k] = b[2 * k]
  <2>1. \A k \in 1 .. n : 2 * k \in 1 .. 2 * n
    OBVIOUS
  <2> QED BY <1>3, <2>1
<1>6. Samples(w) = s
  BY <1>4, <1>5
<1> QED BY <1>6 DEF w, b, half

\* The fade sees the samples only, of a clip with two of them.
LEMMA FadeSeesSamples ==
  ASSUME NEW a, NEW b, Samples(a) = Samples(b), Samples(a) \in Seq(Int), Len(Samples(a)) >= 2,
         FadeSamples \in Nat \ {0}
  PROVE  ApplyEdgeFade(a) = ApplyEdgeFade(b)
<1> DEFINE total == Len(Samples(a))
           n == Min({FadeSamples, total \div 2})
<1>1. total \in Nat /\ total \div 2 \in Nat /\ total \div 2 >= 1
  <2>1. total \in Nat /\ total >= 2
    BY LenProperties
  <2> HIDE DEF total
  <2> QED BY <2>1
<1>2. n # 0
  <2>1. \E x \in {FadeSamples, total \div 2} : \A y \in {FadeSamples, total \div 2} : x <= y
    <3> HIDE DEF total
    <3> QED BY <1>1
  <2>2. n \in {FadeSamples, total \div 2}
    <3> HIDE DEF total
    <3> QED BY <2>1, Zenon DEF Min
  <2> HIDE DEF n, total
  <2> QED BY <1>1, <2>2
<1> QED BY <1>2 DEF ApplyEdgeFade

-----------------------------------------------------------------------------
(* The tables: texts, keys and clips.                                      *)

Symbols == UNION {ToSet(t) : t \in Shown}

\* A text is cut up into sentences, one at least.
LEMMA TextsAndSentences ==
  ASSUME NEW t \in Shown
  PROVE  /\ t \in Seq(Symbols) /\ IsCutUp(t, Said[t])
         /\ Said[t] \in Seq(Sentences) /\ Said[t] # << >>
         /\ \A i \in DOMAIN Said[t] : Said[t][i] \in Seq(Symbols)
<1> DEFINE parts == SplitSentences(t)
<1>1. t \in Seq(Symbols)
  <2>1. t \in Seq(ToSet(t)) /\ ToSet(t) \in SUBSET Symbols
    BY SpeechAssumption DEF SpeechAssumption, Symbols
  <2>2. Len(t) \in Nat /\ t \in [1 .. Len(t) -> ToSet(t)]
    BY <2>1, LenProperties
  <2>3. t \in [1 .. Len(t) -> Symbols]
    BY <2>1, <2>2
  <2> QED BY <2>2, <2>3, SeqDef
<1>2. Said[t] = parts /\ IsCutUp(t, parts)
  BY <1>1, SpeechAssumption, TextsAreCutUp DEF Said, SpeechAssumption
<1>3. \E n \in Nat \ {0} : /\ DOMAIN parts = 1 .. n /\ parts = [i \in 1 .. n |-> parts[i]]
                            /\ \A i \in 1 .. n : parts[i] \in Seq(Symbols)
  <2>1. CASE Solid(t) = {}
    <3>1. parts = << << >> >>
      BY <2>1 DEF SplitSentences
    <3>2. << >> \in Seq(Symbols) /\ 1 .. 1 = {1} /\ 1 \in Nat \ {0}
      BY EmptySeq
    <3>3. DOMAIN parts = 1 .. 1 /\ parts = [i \in 1 .. 1 |-> parts[i]] /\ parts[1] = << >>
      BY <3>1
    <3> HIDE DEF parts
    <3>4. \A i \in 1 .. 1 : parts[i] \in Seq(Symbols)
      BY <3>2, <3>3
    <3> QED BY <3>2, <3>3, <3>4, Zenon
  <2>2. CASE Solid(t) # {}
    <3> DEFINE c == Cardinality(Starts(t))
    <3>1. c \in Nat \ {0}
      BY <1>1, <2>2, SentencesBegin
    <3>2. /\ DOMAIN parts = 1 .. c /\ parts = [i \in 1 .. c |-> parts[i]]
          /\ \A i \in 1 .. c : /\ parts[i] = SubSeq(t, Start(t, i), To(t, i))
                              /\ Start(t, i) \in Solid(t) /\ To(t, i) \in Solid(t)
      BY <1>1, <2>2, SentencesAreSlices
    <3>3. Len(t) \in Nat /\ Solid(t) \in SUBSET (1 .. Len(t))
      BY <1>1, CountingIsFinite
    <3> HIDE DEF parts, c
    <3>4. ASSUME NEW i \in 1 .. c PROVE parts[i] \in Seq(Symbols)
      <4>1. Start(t, i) \in 1 .. Len(t) /\ To(t, i) \in 1 .. Len(t)
        BY <3>2, <3>3
      <4>2. \A k \in 1 .. Len(t) : t[k] \in Symbols
        BY <1>1, ElementOfSeq
      <4>3. \A from, to \in 1 .. Len(t) : SubSeq(t, from, to) \in Seq(Symbols)
        <5> SUFFICES ASSUME NEW from \in 1 .. Len(t), NEW to \in 1 .. Len(t)
                     PROVE  SubSeq(t, from, to) \in Seq(Symbols)
          OBVIOUS
        <5>1. from \in Int /\ to \in Int /\ \A k \in from .. to : t[k] \in Symbols
          BY <3>3, <4>2
        <5> QED BY <5>1, SubSeqProperties
      <4> QED BY <3>2, <4>1, <4>3
    <3> QED BY <3>1, <3>2, <3>4
  <2> QED BY <2>1, <2>2
<1>4. ToSet(parts) \in SUBSET Sentences
  BY <1>2 DEF Sentences
<1> HIDE DEF parts
<1>5. PICK n \in Nat \ {0} : /\ DOMAIN parts = 1 .. n /\ parts = [i \in 1 .. n |-> parts[i]]
                            /\ \A i \in 1 .. n : parts[i] \in Seq(Symbols)
  BY <1>3
<1>6. \A i \in 1 .. n : parts[i] \in Sentences
  BY <1>4, <1>5 DEF ToSet
<1>7. parts \in [1 .. n -> Sentences] /\ n \in Nat
  BY <1>5, <1>6
<1>8. parts \in Seq(Sentences)
  BY <1>7, SeqDef
<1>9. parts # << >>
  <2>1. 1 \in DOMAIN parts
    BY <1>5
  <2> QED BY <2>1
<1> QED BY <1>1, <1>2, <1>5, <1>8, <1>9

\* Every text, and every sentence, is of symbols.
LEMMA AllOfSymbols == \A t \in Questions \cup Sentences : t \in Seq(Symbols)
<1>1. \A t \in Questions : t \in Seq(Symbols)
  BY TextsAndSentences DEF Shown
<1>2. ASSUME NEW s \in Sentences PROVE s \in Seq(Symbols)
  <2>1. PICK t \in Shown : s \in ToSet(Said[t])
    BY DEF Sentences
  <2>2. PICK i \in DOMAIN Said[t] : s = Said[t][i]
    BY <2>1 DEF ToSet
  <2> QED BY <2>2, TextsAndSentences
<1> QED BY <1>1, <1>2

\* Renderings of one utterance have one key.
LEMMA RenderingsShareKeys ==
  ASSUME NEW t \in Questions \cup Sentences, NEW u \in Renderings[t]
  PROVE  Key[u] = Key[t]
<1>1. u \in Questions \cup Sentences /\ Alike(t, u)
  BY DEF Renderings
<1>2. NormalizeForCache(t) = NormalizeForCache(u)
  BY <1>1, AllOfSymbols, AlikeTextsShareKeys
<1> QED BY <1>1, <1>2 DEF Key

\* Whatever file a provider wraps a sentence's samples in, they are heard faded.
LEMMA LayoutsAgree == \A s \in Sentences : Clips[s] = {Faded[s]}
<1> SUFFICES ASSUME NEW s \in Sentences PROVE Clips[s] = {Faded[s]}
  OBVIOUS
<1> DEFINE v == Voice[s]
           n == Len(v)
           pcm == Bytes(v)
           half == Filler(1)
           more == pcm \o half
<1>1. v \in Seq(Int) /\ n >= 2 /\ n \in Nat /\ v \in [1 .. n -> Int] /\ FadeSamples \in Nat \ {0}
  BY SpeechAssumption, LenProperties DEF SpeechAssumption
<1>2. pcm \in Files /\ Len(pcm) \in Nat /\ Samples(pcm) = v /\ Samples(more) = v
  <2> HIDE DEF v, n
  <2>1. pcm \in Files /\ Len(pcm) = 2 * n
    BY <1>1, BytesAreFile
  <2>2. Samples(pcm) = v /\ Samples(more) = v
    BY <1>1, BytesAndBack, HalfASample
  <2> HIDE DEF pcm
  <2>3. Len(pcm) \in Nat
    BY <1>1, <2>1
  <2> QED BY <2>1, <2>2, <2>3
<1>3. more \in Files /\ Len(more) \in Nat
  <2>1. half \in Files
    <3>1. 1 \in Nat
      OBVIOUS
    <3> QED BY <3>1, FillerIsFile
  <2> HIDE DEF half, pcm
  <2>2. more \in Files
    BY <1>2, <2>1, FilesJoin
  <2> HIDE DEF more
  <2> QED BY <2>2, LenProperties DEF Files
<1> HIDE DEF v, n, pcm, more
<1>4. ApplyEdgeFade(more) = ApplyEdgeFade(pcm)
  BY <1>1, <1>2, FadeSeesSamples DEF n
<1>5. \A c \in Files : Len(c) \in Nat => WavToPcm(PcmToWav(c)) = c
  <2> SUFFICES ASSUME NEW c \in Files, Len(c) \in Nat PROVE WavToPcm(PcmToWav(c)) = c
    OBVIOUS
  <2>1. PcmToWav(c) = Format \o Chunk("data", Len(c), c)
    BY DEF PcmToWav, Format
  <2>2. Len(c) >= Len(c)
    OBVIOUS
  <2> QED BY <2>1, <2>2, ShortLayoutIsRead
<1>6. WavToPcm(Format \o Chunk("data", Len(pcm) + WavHeaderSize, pcm)) = pcm
  <2>1. Len(pcm) + WavHeaderSize \in Nat /\ Len(pcm) + WavHeaderSize >= Len(pcm)
    BY <1>2 DEF WavHeaderSize
  <2> QED BY <1>2, <2>1, ShortLayoutIsRead
<1>7. WavToPcm(Format \o Chunk("LIST", 3, Filler(4)) \o Chunk("data", Len(pcm), pcm)) = pcm
  BY <1>2, LongLayoutIsRead
<1>8. Wrapped(pcm) = {PcmToWav(pcm), Format \o Chunk("LIST", 3, Filler(4)) \o Chunk("data", Len(pcm), pcm),
                      Format \o Chunk("data", Len(pcm) + WavHeaderSize, pcm), PcmToWav(more)}
  BY DEF Wrapped, Format, more, half
<1>9. \A w \in Wrapped(pcm) : ApplyEdgeFade(WavToPcm(w)) = ApplyEdgeFade(pcm)
  BY <1>2, <1>3, <1>4, <1>5, <1>6, <1>7, <1>8, Zenon
<1>10. PcmToWav(pcm) \in Wrapped(pcm)
  BY <1>8
<1>11. Clips[s] = {ApplyEdgeFade(WavToPcm(w)) : w \in Wrapped(pcm)} /\ Faded[s] = ApplyEdgeFade(pcm)
  BY DEF Clips, Faded, pcm, v
<1> QED BY <1>9, <1>10, <1>11

LEMMA QuestionKeys ==
  /\ \A q \in Questions : Key[q] \in TextKeys /\ q \in Shown
  /\ \A k \in TextKeys : \E q \in Questions : k = Key[q]
BY DEF TextKeys, Shown

LEMMA SentencesOf ==
  ASSUME NEW t \in Shown
  PROVE  /\ Len(Said[t]) \in Nat /\ 1 <= Len(Said[t])
         /\ \A i \in 1 .. Len(Said[t]) : Said[t][i] \in Sentences /\ Key[Said[t][i]] \in SpeechKeys
<1>1. Said[t] \in Seq(Sentences) /\ Said[t] # << >>
  BY TextsAndSentences
<1>2. Len(Said[t]) \in Nat /\ \A i \in 1 .. Len(Said[t]) : Said[t][i] \in Sentences
  BY <1>1, LenProperties, ElementOfSeq
<1>3. Len(Said[t]) # 0
  BY <1>1, EmptySeq
<1> QED BY <1>2, <1>3 DEF SpeechKeys

LEMMA WordingsAreShown ==
  ASSUME NEW q \in Questions, NEW t \in Translations[q]
  PROVE  t \in Shown /\ t # Missing
BY SpeechAssumption DEF Shown, SpeechAssumption

-----------------------------------------------------------------------------
(* The inductive invariant.                                                *)

Waits == {"idle", "lookupText", "translate", "saveText", "lookupSpeech", "readFile", "speak",
          "saveRow", "done"}
Looking == {"lookupSpeech", "readFile"}
Speaking == {"speak", "saveRow"}

AllClips == UNION {Clips[s] : s \in Sentences}
Saveable == ({"text"} \X TextKeys) \cup ({"speech"} \X SpeechKeys)
Payable == ({"text"} \X Questions) \cup ({"speech"} \X Sentences)

Jobs == [at : Waits, asked : Questions \cup {<< >>}, shown : Shown \cup {<< >>}, n : Nat,
         have : Seq(AllClips \cup {Torn, Missing}), heard : Seq(AllClips \cup {Torn, Missing}),
         saved : SUBSET Saveable, paid : SUBSET Payable]

\* The clips that may be kept under a key, or played for a sentence with that key.
ClipsOf(k) == UNION {Clips[s] : s \in {s \in Sentences : Key[s] = k}}
Playable(t, i) == ClipsOf(Key[Said[t][i]]) \cup {Torn}

\* How far a pipeline is.
Parts(j) == IF j.at \in Looking THEN j.n - 1
            ELSE IF j.at \in Speaking THEN Len(Said[j.shown]) ELSE 0
Spoken(j) == IF j.at \in Speaking THEN j.n - 1
             ELSE IF j.at = "done" THEN Len(Said[j.shown]) ELSE 0

PlaceFits(j) ==
  /\ j.at # "idle" => j.asked \in Questions
  /\ j.at \in Looking \cup Speaking \cup {"saveText", "done"} => j.shown \in Shown
  /\ j.at \in Looking \cup Speaking => j.n \in 1 .. Len(Said[j.shown])
  /\ j.at \notin Looking \cup Speaking => j.n = 1

\* What it has found, and what it has sent, is there for each of the sentences so
\* far, and is a clip of that very sentence.
SoundFits(j) ==
  /\ Len(j.have) = Parts(j) /\ Len(j.heard) = Spoken(j)
  /\ \A i \in 1 .. Parts(j) : j.have[i] \in Playable(j.shown, i) \cup {Missing}
  /\ \A i \in 1 .. Spoken(j) : j.heard[i] \in Playable(j.shown, i)
  /\ j.at = "saveRow" => j.have[j.n] # Missing

\* What it pays for, or may still pay for, was not saved when it began.
PaysForNew(j) ==
  /\ \A x \in j.paid : <<x[1], Key[x[2]]>> \notin j.saved
  /\ j.at = "translate" => <<"text", Key[j.asked]>> \notin j.saved
  /\ \A i \in 1 .. Parts(j) :
       j.have[i] = Missing => <<"speech", Key[Said[j.shown][i]]>> \notin j.saved

JobFits(j) == j \in Jobs /\ PlaceFits(j) /\ SoundFits(j) /\ PaysForNew(j)

\* What was saved when it began still is, and so are the row it has found and the
\* file it has written.
StillSaved(j, texts, rows, files) ==
  /\ \A k \in TextKeys : <<"text", k>> \in j.saved => texts[k] # Missing
  /\ \A k \in SpeechKeys : <<"speech", k>> \in j.saved => rows[k]
  /\ j.at = "readFile" => rows[Key[Said[j.shown][j.n]]]
  /\ j.at = "saveRow" => files[Key[Said[j.shown][j.n]]] # Missing

\* A file is a clip of its key, and no row is there before its file.
CachesFit ==
  /\ translations \in [TextKeys -> Shown \cup {Missing}]
  /\ row \in [SpeechKeys -> BOOLEAN]
  /\ DOMAIN file = SpeechKeys
  /\ \A k \in SpeechKeys : file[k] \in ClipsOf(k) \cup {Missing, Torn}
  /\ \A k \in SpeechKeys : row[k] => file[k] # Missing

SpeechInv ==
  /\ CachesFit
  /\ DOMAIN job = Pipelines
  /\ \A p \in Pipelines : JobFits(job[p])
  /\ \A p \in Pipelines : StillSaved(job[p], translations, row, file)

-----------------------------------------------------------------------------
(* One pipeline's step.                                                    *)

\* A step that leaves what was saved, and gives its pipeline a state that fits.
LEMMA JobStep ==
  ASSUME SpeechInv, CachesFit', NEW p \in Pipelines, NEW r, Becomes(p, r), JobFits(r),
         StillSaved(r, translations', row', file'),
         \A k \in TextKeys : translations[k] # Missing => translations'[k] # Missing,
         \A k \in SpeechKeys : row[k] => row'[k],
         \A k \in SpeechKeys : file[k] # Missing => file'[k] # Missing
  PROVE  SpeechInv'
<1>1. /\ DOMAIN job' = Pipelines /\ job'[p] = r
      /\ \A o \in Pipelines \ {p} : job'[o] = job[o]
  BY DEF SpeechInv, Becomes
<1>2. ASSUME NEW o \in Pipelines PROVE JobFits(job'[o])
  BY <1>1 DEF SpeechInv
<1>3. ASSUME NEW o \in Pipelines PROVE StillSaved(job'[o], translations', row', file')
  <2>1. CASE o = p
    BY <1>1, <2>1
  <2>2. CASE o # p
    <3>1. job'[o] = job[o] /\ StillSaved(job[o], translations, row, file) /\ JobFits(job[o])
      BY <1>1, <2>2 DEF SpeechInv
    <3>2. job[o].at \in {"readFile", "saveRow"} => Key[Said[job[o].shown][job[o].n]] \in SpeechKeys
      BY <3>1, SentencesOf DEF JobFits, PlaceFits, Looking, Speaking
    <3>3. StillSaved(job[o], translations', row', file')
      BY <3>1, <3>2 DEF StillSaved
    <3> QED BY <3>1, <3>3
  <2> QED BY <2>1, <2>2
<1> QED BY <1>1, <1>2, <1>3 DEF SpeechInv

\* The same, where no cache changes.
LEMMA QuietStep ==
  ASSUME SpeechInv, UNCHANGED <<translations, row, file>>, NEW p \in Pipelines, NEW r,
         Becomes(p, r), JobFits(r), StillSaved(r, translations, row, file)
  PROVE  SpeechInv'
<1>1. CachesFit'
  BY DEF SpeechInv, CachesFit
<1> QED BY <1>1, JobStep

LEMMA IdleFits == JobFits(Idle) /\ \A texts, rows, files : StillSaved(Idle, texts, rows, files)
<1>1. << >> \in Seq(AllClips \cup {Torn, Missing}) /\ Len(<< >>) = 0
  BY EmptySeq
<1>2. Idle \in Jobs
  BY <1>1 DEF Idle, Jobs, Waits
<1>3. Parts(Idle) = 0 /\ Spoken(Idle) = 0
  BY DEF Idle, Parts, Spoken, Looking, Speaking
<1>4. PlaceFits(Idle) /\ SoundFits(Idle)
  BY <1>1, <1>3 DEF Idle, PlaceFits, SoundFits, Looking, Speaking
<1>5. PaysForNew(Idle)
  BY <1>3 DEF Idle, PaysForNew
<1> QED BY <1>2, <1>4, <1>5 DEF JobFits, StillSaved, Idle

\* A text is shown, and its first sentence is looked up.
LEMMA ShowingFits ==
  ASSUME NEW j, JobFits(j), j.at \in {"lookupText", "saveText"}, NEW t \in Shown,
         NEW texts, NEW rows, NEW files, StillSaved(j, texts, rows, files)
  PROVE  JobFits(Showing(j, t)) /\ StillSaved(Showing(j, t), texts, rows, files)
<1> DEFINE r == Showing(j, t)
<1>1. j \in Jobs /\ j.n = 1 /\ j.asked \in Questions /\ Len(j.have) = 0 /\ Len(j.heard) = 0
  BY DEF JobFits, PlaceFits, SoundFits, Parts, Spoken, Looking, Speaking
<1>2. r \in Jobs
  BY <1>1 DEF Showing, Jobs, Waits
<1>3. /\ r.at = "lookupSpeech" /\ r.shown = t /\ r.n = 1 /\ r.asked = j.asked
      /\ r.have = j.have /\ r.heard = j.heard /\ r.saved = j.saved /\ r.paid = j.paid
  BY <1>1 DEF Showing, Jobs
<1> HIDE DEF r
<1>4. Parts(r) = 0 /\ Spoken(r) = 0
  BY <1>3 DEF Parts, Spoken, Looking, Speaking
<1>5. PlaceFits(r)
  BY <1>1, <1>3, SentencesOf DEF PlaceFits, Looking, Speaking
<1>6. SoundFits(r)
  BY <1>1, <1>3, <1>4 DEF SoundFits
<1>7. PaysForNew(r)
  BY <1>3, <1>4 DEF PaysForNew, JobFits
<1>8. StillSaved(r, texts, rows, files)
  BY <1>3 DEF StillSaved
<1> QED BY <1>2, <1>5, <1>6, <1>7, <1>8 DEF JobFits, r

\* A lookup ends with a clip of the sentence, or with none where none was saved.
LEMMA LookedFits ==
  ASSUME NEW j, JobFits(j), j.at \in Looking,
         NEW clip \in Playable(j.shown, j.n) \cup {Missing},
         clip = Missing => <<"speech", Key[Said[j.shown][j.n]]>> \notin j.saved,
         NEW texts, NEW rows, NEW files, StillSaved(j, texts, rows, files)
  PROVE  JobFits(Looked(j, clip)) /\ StillSaved(Looked(j, clip), texts, rows, files)
<1> DEFINE r == Looked(j, clip)
           total == Len(Said[j.shown])
<1>1. /\ j \in Jobs /\ j.asked \in Questions /\ j.shown \in Shown /\ j.n \in 1 .. total
      /\ total \in Nat
      /\ j.have \in Seq(AllClips \cup {Torn, Missing})
      /\ Len(j.have) = j.n - 1 /\ Len(j.heard) = 0
  <2>1. j.shown \in Shown /\ j.n \in 1 .. total /\ j.asked \in Questions
    BY DEF JobFits, PlaceFits, Looking, Speaking
  <2>2. Len(j.have) = j.n - 1 /\ Len(j.heard) = 0
    BY DEF JobFits, SoundFits, Parts, Spoken, Looking, Speaking
  <2>3. j \in Jobs /\ j.have \in Seq(AllClips \cup {Torn, Missing})
    BY DEF JobFits, Jobs
  <2> QED BY <2>1, <2>2, <2>3, SentencesOf
<1>2. clip \in AllClips \cup {Torn, Missing}
  BY DEF Playable, ClipsOf, AllClips
<1> DEFINE have == Append(j.have, clip)
<1>3. /\ have \in Seq(AllClips \cup {Torn, Missing}) /\ Len(have) = j.n
      /\ have[j.n] = clip /\ \A i \in 1 .. j.n - 1 : have[i] = j.have[i]
  BY <1>1, <1>2, AppendProperties
<1>4. /\ r.at = IF j.n < total THEN "lookupSpeech" ELSE "speak"
      /\ r.n = IF j.n < total THEN j.n + 1 ELSE 1
      /\ r.have = have /\ r.shown = j.shown /\ r.asked = j.asked /\ r.heard = j.heard
      /\ r.saved = j.saved /\ r.paid = j.paid
  BY <1>1 DEF Looked, Jobs
<1>5. r \in Jobs
  <2>1. j.n + 1 \in Nat /\ 1 \in Nat /\ "lookupSpeech" \in Waits /\ "speak" \in Waits
    BY <1>1 DEF Waits
  <2>2. ASSUME NEW at \in Waits, NEW n \in Nat
        PROVE  [j EXCEPT !.have = have, !.n = n, !.at = at] \in Jobs
    <3> HIDE DEF have
    <3> QED BY <1>1, <1>3 DEF Jobs
  <2>3. r = [j EXCEPT !.have = have, !.n = IF j.n < total THEN j.n + 1 ELSE 1,
                      !.at = IF j.n < total THEN "lookupSpeech" ELSE "speak"]
    BY DEF Looked
  <2> HIDE DEF r, have, total
  <2> QED BY <2>1, <2>2, <2>3
<1> HIDE DEF r, have
<1>6. Parts(r) = j.n /\ Spoken(r) = 0
  BY <1>1, <1>4 DEF Parts, Spoken, Looking, Speaking
<1>7. PlaceFits(r)
  BY <1>1, <1>4 DEF PlaceFits, Looking, Speaking
<1>8. \A i \in 1 .. j.n : i = j.n \/ i \in 1 .. j.n - 1
  BY <1>1
<1>9. Parts(j) = j.n - 1
  BY DEF Parts
<1>10. SoundFits(r)
  <2>1. \A i \in 1 .. j.n - 1 : j.have[i] \in Playable(j.shown, i) \cup {Missing}
    BY <1>9 DEF JobFits, SoundFits
  <2>2. \A i \in 1 .. j.n : have[i] \in Playable(j.shown, i) \cup {Missing}
    BY <1>3, <1>8, <2>1
  <2>3. r.at # "saveRow"
    BY <1>4
  <2> QED BY <1>1, <1>3, <1>4, <1>6, <2>2, <2>3 DEF SoundFits
<1>11. PaysForNew(r)
  <2>1. \A i \in 1 .. j.n - 1 : j.have[i] = Missing => <<"speech", Key[Said[j.shown][i]]>> \notin j.saved
    BY <1>9 DEF JobFits, PaysForNew
  <2>2. \A i \in 1 .. j.n : have[i] = Missing => <<"speech", Key[Said[j.shown][i]]>> \notin j.saved
    BY <1>3, <1>8, <2>1
  <2>3. r.at # "translate"
    BY <1>4
  <2> QED BY <1>4, <1>6, <2>2, <2>3 DEF PaysForNew, JobFits
<1>12. StillSaved(r, texts, rows, files)
  BY <1>4 DEF StillSaved
<1> QED BY <1>5, <1>7, <1>10, <1>11, <1>12 DEF JobFits, r

\* A clip of the sentence is sent in its turn.
LEMMA SentFits ==
  ASSUME NEW j, JobFits(j), j.at \in Speaking, NEW clip \in Playable(j.shown, j.n),
         NEW texts, NEW rows, NEW files, StillSaved(j, texts, rows, files)
  PROVE  JobFits(Sent(j, clip)) /\ StillSaved(Sent(j, clip), texts, rows, files)
<1> DEFINE r == Sent(j, clip)
           total == Len(Said[j.shown])
<1>1. /\ j \in Jobs /\ j.asked \in Questions /\ j.shown \in Shown /\ j.n \in 1 .. total
      /\ total \in Nat
      /\ j.heard \in Seq(AllClips \cup {Torn, Missing})
      /\ Len(j.have) = total /\ Len(j.heard) = j.n - 1
  <2>1. j.shown \in Shown /\ j.n \in 1 .. total /\ j.asked \in Questions
    BY DEF JobFits, PlaceFits, Looking, Speaking
  <2>2. Len(j.have) = total /\ Len(j.heard) = j.n - 1
    BY DEF JobFits, SoundFits, Parts, Spoken, Looking, Speaking
  <2>3. j \in Jobs /\ j.heard \in Seq(AllClips \cup {Torn, Missing})
    BY DEF JobFits, Jobs
  <2> QED BY <2>1, <2>2, <2>3, SentencesOf
<1>2. clip \in AllClips \cup {Torn, Missing}
  BY DEF Playable, ClipsOf, AllClips
<1> DEFINE heard == Append(j.heard, clip)
<1>3. /\ heard \in Seq(AllClips \cup {Torn, Missing}) /\ Len(heard) = j.n
      /\ heard[j.n] = clip /\ \A i \in 1 .. j.n - 1 : heard[i] = j.heard[i]
  BY <1>1, <1>2, AppendProperties
<1>4. Parts(j) = total /\ Spoken(j) = j.n - 1
  BY DEF Parts, Spoken, Looking, Speaking
<1>5. \A i \in 1 .. j.n : heard[i] \in Playable(j.shown, i)
  <2>1. \A i \in 1 .. j.n : i = j.n \/ i \in 1 .. j.n - 1
    BY <1>1
  <2>2. \A i \in 1 .. j.n - 1 : j.heard[i] \in Playable(j.shown, i)
    BY <1>4 DEF JobFits, SoundFits
  <2> QED BY <1>3, <2>1, <2>2
<1>6. CASE j.n < total
  <2>1. r = [j EXCEPT !.heard = heard, !.n = j.n + 1, !.at = "speak"]
    BY <1>6 DEF Sent
  <2>2. r \in Jobs
    <3> HIDE DEF heard, r, total
    <3>1. j.n + 1 \in Nat
      BY <1>1
    <3>2. \A n \in Nat : [j EXCEPT !.heard = heard, !.n = n, !.at = "speak"] \in Jobs
      BY <1>1, <1>3 DEF Jobs, Waits
    <3> QED BY <2>1, <3>1, <3>2
  <2>3. /\ r.at = "speak" /\ r.n = j.n + 1 /\ r.heard = heard /\ r.have = j.have
        /\ r.shown = j.shown /\ r.asked = j.asked /\ r.saved = j.saved /\ r.paid = j.paid
    BY <1>1, <2>1 DEF Jobs
  <2> HIDE DEF r, heard
  <2>4. Parts(r) = total /\ Spoken(r) = j.n
    BY <1>1, <2>3 DEF Parts, Spoken, Looking, Speaking
  <2>5. PlaceFits(r)
    BY <1>1, <1>6, <2>3 DEF PlaceFits, Looking, Speaking
  <2>6. SoundFits(r)
    <3>1. \A i \in 1 .. total : j.have[i] \in Playable(j.shown, i) \cup {Missing}
      BY <1>4 DEF JobFits, SoundFits
    <3> QED BY <1>1, <1>3, <1>5, <2>3, <2>4, <3>1 DEF SoundFits
  <2>7. PaysForNew(r)
    BY <1>4, <2>3, <2>4 DEF PaysForNew, JobFits
  <2>8. StillSaved(r, texts, rows, files)
    BY <2>3 DEF StillSaved
  <2> QED BY <2>2, <2>5, <2>6, <2>7, <2>8 DEF JobFits, r
<1>7. CASE ~ (j.n < total)
  <2>1. r = [j EXCEPT !.heard = heard, !.n = 1, !.have = << >>, !.at = "done"]
    BY <1>7 DEF Sent
  <2>2. r \in Jobs
    <3> HIDE DEF heard, r, total
    <3>1. << >> \in Seq(AllClips \cup {Torn, Missing})
      BY EmptySeq
    <3>2. \A have \in Seq(AllClips \cup {Torn, Missing}) :
            [j EXCEPT !.heard = heard, !.n = 1, !.have = have, !.at = "done"] \in Jobs
      BY <1>1, <1>3 DEF Jobs, Waits
    <3> QED BY <2>1, <3>1, <3>2
  <2>3. /\ r.at = "done" /\ r.n = 1 /\ r.heard = heard /\ r.have = << >>
        /\ r.shown = j.shown /\ r.asked = j.asked /\ r.saved = j.saved /\ r.paid = j.paid
    BY <1>1, <2>1 DEF Jobs
  <2> HIDE DEF r, heard
  <2>4. j.n = total
    BY <1>1, <1>7
  <2>5. Parts(r) = 0 /\ Spoken(r) = total
    BY <1>1, <2>3 DEF Parts, Spoken, Looking, Speaking
  <2>6. PlaceFits(r)
    BY <1>1, <2>3 DEF PlaceFits, Looking, Speaking
  <2>7. SoundFits(r)
    <3>1. Len(<< >>) = 0
      BY EmptySeq
    <3> QED BY <1>3, <1>5, <2>3, <2>4, <2>5, <3>1 DEF SoundFits
  <2>8. PaysForNew(r)
    BY <2>3, <2>5 DEF PaysForNew, JobFits
  <2>9. StillSaved(r, texts, rows, files)
    BY <2>3 DEF StillSaved
  <2> QED BY <2>2, <2>6, <2>7, <2>8, <2>9 DEF JobFits, r
<1> QED BY <1>6, <1>7
-----------------------------------------------------------------------------
(* The steps.                                                              *)

LEMMA SpeechInit == Init => SpeechInv
<1> SUFFICES ASSUME Init PROVE SpeechInv
  OBVIOUS
<1>1. CachesFit
  BY DEF Init, CachesFit
<1>2. DOMAIN job = Pipelines /\ \A p \in Pipelines : job[p] = Idle
  BY DEF Init
<1> QED BY <1>1, <1>2, IdleFits DEF SpeechInv

LEMMA AskStep ==
  ASSUME SpeechInv, NEW p \in Pipelines, NEW q \in Questions, NEW translated \in BOOLEAN,
         Ask(p, q, translated)
  PROVE  SpeechInv'
<1> DEFINE texts == {k \in TextKeys : translations[k] # Missing}
           clips == {k \in SpeechKeys : row[k]}
           saved == {<<"text", k>> : k \in texts} \cup {<<"speech", k>> : k \in clips}
           fresh == [Idle EXCEPT !.at = "lookupText", !.asked = q, !.saved = saved]
<1>1. /\ Becomes(p, IF translated THEN fresh ELSE Showing(fresh, q))
      /\ UNCHANGED <<translations, row, file>>
  BY DEF Ask
<1>2. saved \in SUBSET Saveable
  BY DEF Saveable
<1>3. /\ \A k \in TextKeys : <<"text", k>> \in saved => translations[k] # Missing
      /\ \A k \in SpeechKeys : <<"speech", k>> \in saved => row[k]
  OBVIOUS
<1>4. fresh \in Jobs /\ JobFits(fresh)
  <2> HIDE DEF saved
  <2>1. << >> \in Seq(AllClips \cup {Torn, Missing}) /\ Len(<< >>) = 0
    BY EmptySeq
  <2>2. fresh \in Jobs
    BY <1>2, <2>1 DEF Idle, Jobs, Waits
  <2>3. /\ fresh.at = "lookupText" /\ fresh.asked = q /\ fresh.n = 1 /\ fresh.have = << >>
        /\ fresh.heard = << >> /\ fresh.paid = {} /\ fresh.saved = saved
    BY DEF Idle
  <2> HIDE DEF fresh
  <2>4. Parts(fresh) = 0 /\ Spoken(fresh) = 0
    BY <2>3 DEF Parts, Spoken, Looking, Speaking
  <2>5. PlaceFits(fresh) /\ SoundFits(fresh)
    BY <2>1, <2>3, <2>4 DEF PlaceFits, SoundFits, Looking, Speaking
  <2>6. PaysForNew(fresh)
    BY <2>3, <2>4 DEF PaysForNew
  <2> QED BY <2>2, <2>5, <2>6 DEF JobFits
<1>5. fresh.at = "lookupText" /\ fresh.saved = saved
  BY DEF Idle
<1>6. StillSaved(fresh, translations, row, file)
  <2> HIDE DEF fresh, saved
  <2> QED BY <1>3, <1>5 DEF StillSaved
<1> HIDE DEF fresh
<1>7. JobFits(Showing(fresh, q)) /\ StillSaved(Showing(fresh, q), translations, row, file)
  BY <1>4, <1>5, <1>6, QuestionKeys, ShowingFits
<1>8. CASE translated
  BY <1>1, <1>4, <1>6, <1>8, QuietStep
<1>9. CASE ~ translated
  BY <1>1, <1>7, <1>9, QuietStep
<1> QED BY <1>8, <1>9

LEMMA LookupTextStep ==
  ASSUME SpeechInv, NEW p \in Pipelines, LookupText(p)
  PROVE  SpeechInv'
<1> DEFINE j == job[p]
           k == Key[j.asked]
<1>1. /\ j.at = "lookupText" /\ UNCHANGED <<translations, row, file>>
      /\ Becomes(p, IF translations[k] # Missing THEN Showing(j, translations[k])
                    ELSE [j EXCEPT !.at = "translate"])
  BY DEF LookupText, At
<1>2. JobFits(j) /\ StillSaved(j, translations, row, file)
  BY DEF SpeechInv
<1>3. j.asked \in Questions /\ k \in TextKeys /\ translations[k] \in Shown \cup {Missing}
  BY <1>1, <1>2, QuestionKeys DEF JobFits, PlaceFits, SpeechInv, CachesFit
<1>4. CASE translations[k] # Missing
  <2> HIDE DEF j, k
  <2>1. /\ JobFits(Showing(j, translations[k]))
        /\ StillSaved(Showing(j, translations[k]), translations, row, file)
    BY <1>1, <1>2, <1>3, <1>4, ShowingFits
  <2> QED BY <1>1, <1>4, <2>1, QuietStep
<1>5. CASE translations[k] = Missing
  <2> DEFINE r == [j EXCEPT !.at = "translate"]
  <2>1. j \in Jobs
    BY <1>2 DEF JobFits
  <2>2. <<"text", k>> \notin j.saved
    BY <1>2, <1>3, <1>5 DEF StillSaved
  <2> HIDE DEF j
  <2>3. r \in Jobs
    BY <2>1 DEF Jobs, Waits
  <2>4. /\ r.at = "translate" /\ r.asked = j.asked /\ r.n = j.n /\ r.have = j.have
        /\ r.heard = j.heard /\ r.saved = j.saved /\ r.paid = j.paid /\ r.shown = j.shown
    BY <2>1 DEF Jobs
  <2> HIDE DEF r
  <2>5. Parts(r) = 0 /\ Spoken(r) = 0 /\ Parts(j) = 0 /\ Spoken(j) = 0
    BY <1>1, <2>4 DEF Parts, Spoken, Looking, Speaking
  <2>6. PlaceFits(r)
    BY <1>1, <1>2, <2>4 DEF JobFits, PlaceFits, Looking, Speaking
  <2>7. SoundFits(r)
    BY <1>2, <2>4, <2>5 DEF JobFits, SoundFits
  <2>8. PaysForNew(r)
    BY <1>2, <2>2, <2>4, <2>5 DEF JobFits, PaysForNew, k
  <2>9. StillSaved(r, translations, row, file)
    BY <1>2, <2>4 DEF StillSaved
  <2>10. JobFits(r)
    BY <2>3, <2>6, <2>7, <2>8 DEF JobFits
  <2>11. Becomes(p, r)
    BY <1>1, <1>5 DEF r
  <2> QED BY <1>1, <2>9, <2>10, <2>11, QuietStep
<1> QED BY <1>4, <1>5

LEMMA TranslateStep ==
  ASSUME SpeechInv, NEW p \in Pipelines, Translate(p)
  PROVE  SpeechInv'
<1> DEFINE j == job[p]
<1>1. PICK t \in Translations[j.asked] :
        Becomes(p, [j EXCEPT !.at = "saveText", !.shown = t, !.paid = {<<"text", j.asked>>}])
  BY DEF Translate
<1>2. j.at = "translate" /\ UNCHANGED <<translations, row, file>>
  BY DEF Translate, At
<1>3. JobFits(j) /\ StillSaved(j, translations, row, file) /\ j \in Jobs
  BY DEF SpeechInv, JobFits
<1> DEFINE r == [j EXCEPT !.at = "saveText", !.shown = t, !.paid = {<<"text", j.asked>>}]
<1> HIDE DEF j
<1>4. j.asked \in Questions /\ t \in Shown
  BY <1>2, <1>3, WordingsAreShown DEF JobFits, PlaceFits
<1>5. {<<"text", j.asked>>} \in SUBSET Payable
  BY <1>4 DEF Payable
<1>6. r \in Jobs
  BY <1>3, <1>4, <1>5 DEF Jobs, Waits
<1>7. /\ r.at = "saveText" /\ r.asked = j.asked /\ r.n = j.n /\ r.have = j.have /\ r.shown = t
      /\ r.heard = j.heard /\ r.saved = j.saved /\ r.paid = {<<"text", j.asked>>}
  BY <1>3 DEF Jobs
<1> HIDE DEF r
<1>8. Parts(r) = 0 /\ Spoken(r) = 0 /\ Parts(j) = 0 /\ Spoken(j) = 0
  BY <1>2, <1>7 DEF Parts, Spoken, Looking, Speaking
<1>9. PlaceFits(r)
  BY <1>2, <1>3, <1>4, <1>7 DEF JobFits, PlaceFits, Looking, Speaking
<1>10. SoundFits(r)
  BY <1>3, <1>7, <1>8 DEF JobFits, SoundFits
<1>11. PaysForNew(r)
  <2>1. <<"text", Key[j.asked]>> \notin j.saved
    BY <1>2, <1>3 DEF JobFits, PaysForNew
  <2>2. \A x \in r.paid : x[1] = "text" /\ x[2] = j.asked
    BY <1>7
  <2> QED BY <1>7, <1>8, <2>1, <2>2 DEF PaysForNew
<1>12. StillSaved(r, translations, row, file)
  BY <1>3, <1>7 DEF StillSaved
<1>13. JobFits(r)
  BY <1>6, <1>9, <1>10, <1>11 DEF JobFits
<1>14. Becomes(p, r)
  BY <1>1 DEF r
<1> QED BY <1>2, <1>12, <1>13, <1>14, QuietStep

LEMMA SaveTextStep ==
  ASSUME SpeechInv, NEW p \in Pipelines, SaveText(p)
  PROVE  SpeechInv'
<1> DEFINE j == job[p]
           k == Key[j.asked]
<1>1. /\ j.at = "saveText" /\ UNCHANGED <<row, file>>
      /\ translations' = [translations EXCEPT ![k] = IF translations[k] = Missing THEN j.shown
                                                     ELSE translations[k]]
      /\ Becomes(p, Showing(j, j.shown))
  BY DEF SaveText, At
<1>2. JobFits(j) /\ StillSaved(j, translations, row, file)
  BY DEF SpeechInv
<1> HIDE DEF j, k
<1>3. j.shown \in Shown
  BY <1>1, <1>2 DEF JobFits, PlaceFits
<1>4. /\ translations' \in [TextKeys -> Shown \cup {Missing}]
      /\ \A l \in TextKeys : translations[l] # Missing => translations'[l] # Missing
  BY <1>1, <1>3 DEF SpeechInv, CachesFit
<1>5. CachesFit'
  BY <1>1, <1>4 DEF SpeechInv, CachesFit
<1>6. JobFits(Showing(j, j.shown)) /\ StillSaved(Showing(j, j.shown), translations', row', file')
  <2>1. StillSaved(j, translations', row', file')
    BY <1>1, <1>2, <1>4 DEF StillSaved
  <2> QED BY <1>1, <1>2, <1>3, <2>1, ShowingFits
<1> QED BY <1>1, <1>4, <1>5, <1>6, JobStep

\* The sentence a pipeline is at.
LEMMA AtSentence ==
  ASSUME SpeechInv, NEW p \in Pipelines, job[p].at \in Looking \cup Speaking
  PROVE  /\ JobFits(job[p]) /\ StillSaved(job[p], translations, row, file)
         /\ Sentence(p) = Said[job[p].shown][job[p].n]
         /\ Sentence(p) \in Sentences /\ Key[Sentence(p)] \in SpeechKeys
         /\ job[p].n \in 1 .. Len(Said[job[p].shown]) /\ Len(Said[job[p].shown]) \in Nat
<1>1. JobFits(job[p]) /\ StillSaved(job[p], translations, row, file)
  BY DEF SpeechInv
<1>2. job[p].shown \in Shown /\ job[p].n \in 1 .. Len(Said[job[p].shown])
  BY <1>1 DEF JobFits, PlaceFits
<1> QED BY <1>1, <1>2, SentencesOf DEF Sentence

LEMMA LookupSpeechStep ==
  ASSUME SpeechInv, NEW p \in Pipelines, LookupSpeech(p)
  PROVE  SpeechInv'
<1> DEFINE j == job[p]
           k == Key[Sentence(p)]
<1>1. /\ j.at = "lookupSpeech" /\ UNCHANGED <<translations, row, file>>
      /\ Becomes(p, IF row[k] THEN [j EXCEPT !.at = "readFile"] ELSE Looked(j, Missing))
  BY DEF LookupSpeech, At
<1>2. /\ JobFits(j) /\ StillSaved(j, translations, row, file)
      /\ k = Key[Said[j.shown][j.n]] /\ k \in SpeechKeys
  BY <1>1, AtSentence DEF Looking
<1>3. CASE row[k]
  <2> DEFINE r == [j EXCEPT !.at = "readFile"]
  <2>1. j \in Jobs
    BY <1>2 DEF JobFits
  <2> HIDE DEF j, k
  <2>2. r \in Jobs
    BY <2>1 DEF Jobs, Waits
  <2>3. /\ r.at = "readFile" /\ r.asked = j.asked /\ r.n = j.n /\ r.have = j.have
        /\ r.heard = j.heard /\ r.saved = j.saved /\ r.paid = j.paid /\ r.shown = j.shown
    BY <2>1 DEF Jobs
  <2> HIDE DEF r
  <2>4. Parts(r) = Parts(j) /\ Spoken(r) = Spoken(j)
    BY <1>1, <2>3 DEF Parts, Spoken, Looking, Speaking
  <2>5. PlaceFits(r)
    BY <1>1, <1>2, <2>3 DEF JobFits, PlaceFits, Looking, Speaking
  <2>6. SoundFits(r)
    BY <1>2, <2>3, <2>4 DEF JobFits, SoundFits
  <2>7. PaysForNew(r)
    BY <1>2, <2>3, <2>4 DEF JobFits, PaysForNew
  <2>8. StillSaved(r, translations, row, file)
    BY <1>2, <1>3, <2>3 DEF StillSaved
  <2>9. JobFits(r)
    BY <2>2, <2>5, <2>6, <2>7 DEF JobFits
  <2>10. Becomes(p, r)
    BY <1>1, <1>3 DEF r
  <2> QED BY <1>1, <2>8, <2>9, <2>10, QuietStep
<1>4. CASE ~ row[k]
  <2>1. <<"speech", k>> \notin j.saved
    BY <1>2, <1>4 DEF StillSaved
  <2> HIDE DEF j, k
  <2>2. JobFits(Looked(j, Missing)) /\ StillSaved(Looked(j, Missing), translations, row, file)
    BY <1>1, <1>2, <2>1, LookedFits DEF Looking
  <2> QED BY <1>1, <1>4, <2>2, QuietStep
<1> QED BY <1>3, <1>4

\* The row that was found still has its file.
LEMMA ReadFileStep ==
  ASSUME SpeechInv, NEW p \in Pipelines, ReadFile(p)
  PROVE  SpeechInv'
<1> DEFINE j == job[p]
           k == Key[Sentence(p)]
<1>1. /\ j.at = "readFile" /\ UNCHANGED <<translations, row, file>>
      /\ Becomes(p, Looked(j, file[k]))
  BY DEF ReadFile, At
<1>2. /\ JobFits(j) /\ StillSaved(j, translations, row, file)
      /\ k = Key[Said[j.shown][j.n]] /\ k \in SpeechKeys
  BY <1>1, AtSentence DEF Looking
<1> HIDE DEF j, k
<1>3. row[k] /\ file[k] # Missing /\ file[k] \in Playable(j.shown, j.n)
  BY <1>1, <1>2 DEF StillSaved, SpeechInv, CachesFit, Playable
<1>4. JobFits(Looked(j, file[k])) /\ StillSaved(Looked(j, file[k]), translations, row, file)
  BY <1>1, <1>2, <1>3, LookedFits DEF Looking
<1> QED BY <1>1, <1>4, QuietStep

LEMMA SayCachedStep ==
  ASSUME SpeechInv, NEW p \in Pipelines, SayCached(p)
  PROVE  SpeechInv'
<1> DEFINE j == job[p]
<1>1. /\ j.at = "speak" /\ UNCHANGED <<translations, row, file>>
      /\ j.have[j.n] # Missing /\ Becomes(p, Sent(j, j.have[j.n]))
  BY DEF SayCached, At
<1>2. JobFits(j) /\ StillSaved(j, translations, row, file) /\ j.n \in 1 .. Len(Said[j.shown])
  BY <1>1, AtSentence DEF Speaking
<1> HIDE DEF j
<1>3. Parts(j) = Len(Said[j.shown])
  BY <1>1 DEF Parts, Speaking, Looking
<1>4. j.have[j.n] \in Playable(j.shown, j.n)
  BY <1>1, <1>2, <1>3 DEF JobFits, SoundFits
<1>5. JobFits(Sent(j, j.have[j.n])) /\ StillSaved(Sent(j, j.have[j.n]), translations, row, file)
  BY <1>1, <1>2, <1>4, SentFits DEF Speaking
<1> QED BY <1>1, <1>5, QuietStep

LEMMA SynthesizeStep ==
  ASSUME SpeechInv, NEW p \in Pipelines, Synthesize(p)
  PROVE  SpeechInv'
<1> DEFINE j == job[p]
           s == Sentence(p)
<1>1. PICK clip \in Clips[s] :
        /\ file' = [file EXCEPT ![Key[s]] = clip]
        /\ Becomes(p, [j EXCEPT !.at = "saveRow", !.have[j.n] = clip,
                                !.paid = j.paid \cup {<<"speech", s>>}])
  BY DEF Synthesize
<1>2. j.at = "speak" /\ j.have[j.n] = Missing /\ UNCHANGED <<translations, row>>
  BY DEF Synthesize, At
<1>3. /\ JobFits(j) /\ StillSaved(j, translations, row, file)
      /\ s = Said[j.shown][j.n] /\ s \in Sentences /\ Key[s] \in SpeechKeys
      /\ j.n \in 1 .. Len(Said[j.shown]) /\ Len(Said[j.shown]) \in Nat
  BY <1>2, AtSentence DEF Speaking
<1> DEFINE have == [j.have EXCEPT ![j.n] = clip]
           paid == j.paid \cup {<<"speech", s>>}
           r == [j EXCEPT !.at = "saveRow", !.have = have, !.paid = paid]
<1>4. j \in Jobs
  BY <1>3 DEF JobFits
<1>5. Becomes(p, r)
  <2> HIDE DEF j, s
  <2>1. [j EXCEPT !.at = "saveRow", !.have[j.n] = clip, !.paid = j.paid \cup {<<"speech", s>>}] = r
    BY <1>4 DEF Jobs
  <2> QED BY <1>1, <2>1
<1> HIDE DEF j, s
<1>6. clip # Missing /\ clip \in AllClips /\ clip \in ClipsOf(Key[s])
  BY <1>1, <1>3, SpeechAssumption DEF SpeechAssumption, AllClips, ClipsOf
<1>7. Parts(j) = Len(Said[j.shown]) /\ Spoken(j) = j.n - 1 /\ Len(j.have) = Len(Said[j.shown])
  BY <1>2, <1>3 DEF Parts, Spoken, Looking, Speaking, JobFits, SoundFits
<1>8. j.have \in Seq(AllClips \cup {Torn, Missing})
  BY <1>4 DEF Jobs
<1>9. /\ have \in Seq(AllClips \cup {Torn, Missing}) /\ Len(have) = Len(j.have)
      /\ \A i \in 1 .. Len(j.have) : have[i] = IF i = j.n THEN clip ELSE j.have[i]
  <2>1. j.n \in 1 .. Len(j.have) /\ clip \in AllClips \cup {Torn, Missing}
    BY <1>3, <1>6, <1>7
  <2>2. have \in Seq(AllClips \cup {Torn, Missing}) /\ Len(have) = Len(j.have)
    BY <1>8, <2>1, ExceptSeq
  <2>3. DOMAIN j.have = 1 .. Len(j.have)
    BY <1>8, LenProperties
  <2> QED BY <2>1, <2>2, <2>3
<1>10. paid \in SUBSET Payable
  BY <1>3, <1>4 DEF Jobs, Payable
<1> HIDE DEF have
<1>11. r \in Jobs
  <2> HIDE DEF paid
  <2> QED BY <1>4, <1>9, <1>10 DEF Jobs, Waits
<1>12. /\ r.at = "saveRow" /\ r.asked = j.asked /\ r.n = j.n /\ r.have = have /\ r.shown = j.shown
       /\ r.heard = j.heard /\ r.saved = j.saved /\ r.paid = paid
  BY <1>4 DEF Jobs
<1> HIDE DEF r
<1>13. Parts(r) = Parts(j) /\ Spoken(r) = Spoken(j)
  BY <1>2, <1>12 DEF Parts, Spoken, Looking, Speaking
<1>14. PlaceFits(r)
  BY <1>2, <1>3, <1>12 DEF JobFits, PlaceFits, Looking, Speaking
<1>15. SoundFits(r)
  <2>1. \A i \in 1 .. Parts(j) : have[i] \in Playable(j.shown, i) \cup {Missing}
    BY <1>3, <1>6, <1>7, <1>9 DEF JobFits, SoundFits, Playable
  <2>2. have[j.n] # Missing
    BY <1>3, <1>6, <1>7, <1>9
  <2> QED BY <1>3, <1>7, <1>9, <1>12, <1>13, <2>1, <2>2 DEF JobFits, SoundFits
<1>16. PaysForNew(r)
  <2>1. <<"speech", Key[s]>> \notin j.saved
    BY <1>2, <1>3, <1>7 DEF JobFits, PaysForNew
  <2>2. \A x \in paid : <<x[1], Key[x[2]]>> \notin j.saved
    <3>1. \A x \in j.paid : <<x[1], Key[x[2]]>> \notin j.saved
      BY <1>3 DEF JobFits, PaysForNew
    <3> QED BY <2>1, <3>1
  <2>3. \A i \in 1 .. Parts(j) :
          have[i] = Missing => <<"speech", Key[Said[j.shown][i]]>> \notin j.saved
    BY <1>3, <1>6, <1>7, <1>9 DEF JobFits, PaysForNew
  <2> HIDE DEF paid
  <2> QED BY <1>12, <1>13, <2>2, <2>3 DEF PaysForNew
<1>17. StillSaved(r, translations', row', file')
  <2>1. file'[Key[s]] # Missing
    BY <1>1, <1>3, <1>6 DEF SpeechInv, CachesFit
  <2> QED BY <1>2, <1>3, <1>12, <2>1 DEF StillSaved
<1>18. JobFits(r)
  BY <1>11, <1>14, <1>15, <1>16 DEF JobFits
<1>19. CachesFit'
  <2>1. DOMAIN file' = SpeechKeys /\ file'[Key[s]] = clip
        /\ \A k \in SpeechKeys \ {Key[s]} : file'[k] = file[k]
    BY <1>1, <1>3 DEF SpeechInv, CachesFit
  <2> QED BY <1>2, <1>6, <2>1 DEF SpeechInv, CachesFit
<1>20. \A k \in SpeechKeys : file[k] # Missing => file'[k] # Missing
  BY <1>1, <1>3, <1>6 DEF SpeechInv, CachesFit
<1> QED BY <1>2, <1>5, <1>17, <1>18, <1>19, <1>20, JobStep

\* The file was written before: no row without its file.
LEMMA SaveRowStep ==
  ASSUME SpeechInv, NEW p \in Pipelines, SaveRow(p)
  PROVE  SpeechInv'
<1> DEFINE j == job[p]
           k == Key[Sentence(p)]
<1>1. /\ j.at = "saveRow" /\ UNCHANGED <<translations, file>>
      /\ row' = [row EXCEPT ![k] = TRUE] /\ Becomes(p, Sent(j, j.have[j.n]))
  BY DEF SaveRow, At
<1>2. /\ JobFits(j) /\ StillSaved(j, translations, row, file)
      /\ k = Key[Said[j.shown][j.n]] /\ k \in SpeechKeys /\ j.n \in 1 .. Len(Said[j.shown])
  BY <1>1, AtSentence DEF Speaking
<1> HIDE DEF j, k
<1>3. Parts(j) = Len(Said[j.shown])
  BY <1>1 DEF Parts, Speaking, Looking
<1>4. j.have[j.n] \in Playable(j.shown, j.n)
  BY <1>1, <1>2, <1>3 DEF JobFits, SoundFits
<1>5. \A l \in SpeechKeys : row'[l] = (IF l = k THEN TRUE ELSE row[l])
  BY <1>1, <1>2 DEF SpeechInv, CachesFit
<1>6. \A l \in SpeechKeys : row[l] => row'[l]
  BY <1>5
<1>7. CachesFit'
  <2>1. row' \in [SpeechKeys -> BOOLEAN]
    BY <1>1 DEF SpeechInv, CachesFit
  <2>2. file[k] # Missing
    BY <1>1, <1>2 DEF StillSaved
  <2> QED BY <1>1, <1>5, <2>1, <2>2 DEF SpeechInv, CachesFit
<1>8. StillSaved(j, translations', row', file')
  BY <1>1, <1>2, <1>6 DEF StillSaved
<1>9. JobFits(Sent(j, j.have[j.n])) /\ StillSaved(Sent(j, j.have[j.n]), translations', row', file')
  BY <1>1, <1>2, <1>4, <1>8, SentFits DEF Speaking
<1> QED BY <1>1, <1>6, <1>7, <1>9, JobStep

LEMMA AbandonStep ==
  ASSUME SpeechInv, NEW p \in Pipelines, Abandon(p)
  PROVE  SpeechInv'
<1>1. Becomes(p, Idle) /\ UNCHANGED <<translations, row, file>>
  BY DEF Abandon
<1> QED BY <1>1, IdleFits, QuietStep

LEMMA TearStep ==
  ASSUME SpeechInv, NEW p \in Pipelines, Tear(p)
  PROVE  SpeechInv'
<1> DEFINE k == Key[Sentence(p)]
<1>1. /\ job[p].at = "speak" /\ UNCHANGED <<translations, row>>
      /\ file' = [file EXCEPT ![k] = Torn] /\ Becomes(p, Idle)
  BY DEF Tear, At
<1>2. Torn # Missing
  BY SpeechAssumption DEF SpeechAssumption
<1> HIDE DEF k
<1>3. DOMAIN file' = SpeechKeys /\ \A l \in SpeechKeys : file'[l] \in {file[l], Torn}
  BY <1>1 DEF SpeechInv, CachesFit
<1>4. CachesFit'
  BY <1>1, <1>2, <1>3 DEF SpeechInv, CachesFit
<1>5. \A l \in SpeechKeys : file[l] # Missing => file'[l] # Missing
  BY <1>2, <1>3
<1> QED BY <1>1, <1>4, <1>5, IdleFits, JobStep

LEMMA SpeechStep ==
  ASSUME SpeechInv, [Next]_vars
  PROVE  SpeechInv'
<1>1. ASSUME NEW p \in Pipelines, NEW q \in Questions, NEW translated \in BOOLEAN,
             Ask(p, q, translated)
      PROVE  SpeechInv'
  BY <1>1, AskStep
<1>2. ASSUME NEW p \in Pipelines, LookupText(p) PROVE SpeechInv'
  BY <1>2, LookupTextStep
<1>3. ASSUME NEW p \in Pipelines, Translate(p) PROVE SpeechInv'
  BY <1>3, TranslateStep
<1>4. ASSUME NEW p \in Pipelines, SaveText(p) PROVE SpeechInv'
  BY <1>4, SaveTextStep
<1>5. ASSUME NEW p \in Pipelines, LookupSpeech(p) PROVE SpeechInv'
  BY <1>5, LookupSpeechStep
<1>6. ASSUME NEW p \in Pipelines, ReadFile(p) PROVE SpeechInv'
  BY <1>6, ReadFileStep
<1>7. ASSUME NEW p \in Pipelines, SayCached(p) PROVE SpeechInv'
  BY <1>7, SayCachedStep
<1>8. ASSUME NEW p \in Pipelines, Synthesize(p) PROVE SpeechInv'
  BY <1>8, SynthesizeStep
<1>9. ASSUME NEW p \in Pipelines, SaveRow(p) PROVE SpeechInv'
  BY <1>9, SaveRowStep
<1>10. ASSUME NEW p \in Pipelines, Abandon(p) PROVE SpeechInv'
  BY <1>10, AbandonStep
<1>11. ASSUME NEW p \in Pipelines, Tear(p) PROVE SpeechInv'
  BY <1>11, TearStep
<1>12. CASE UNCHANGED vars
  BY <1>12 DEF vars, SpeechInv, CachesFit
<1> QED
  BY <1>1, <1>2, <1>3, <1>4, <1>5, <1>6, <1>7, <1>8, <1>9, <1>10, <1>11, <1>12 DEF Next

LEMMA SpeechAlways == Spec => []SpeechInv
<1> QED BY SpeechInit, SpeechStep, PTL DEF Spec

-----------------------------------------------------------------------------
(* What is said.                                                           *)

\* Of a reply that is done every sentence was sent, once and in its turn: as a
\* clip of a sentence with its key, or as a torn file.
SentencesInTurn ==
  \A p \in Pipelines : Done(p) =>
    LET said == Said[job[p].shown]
    IN  /\ job[p].shown \in Shown
        /\ Len(job[p].heard) = Len(said)
        /\ \A i \in DOMAIN said : \/ job[p].heard[i] = Torn
                                  \/ \E s \in Sentences : Key[s] = Key[said[i]]
                                                          /\ job[p].heard[i] \in Clips[s]

LEMMA InTurn == SpeechInv => SentencesInTurn
<1> SUFFICES ASSUME SpeechInv, NEW p \in Pipelines, Done(p)
             PROVE  LET said == Said[job[p].shown]
                    IN  /\ job[p].shown \in Shown
                        /\ Len(job[p].heard) = Len(said)
                        /\ \A i \in DOMAIN said :
                             \/ job[p].heard[i] = Torn
                             \/ \E s \in Sentences : Key[s] = Key[said[i]]
                                                     /\ job[p].heard[i] \in Clips[s]
  BY DEF SentencesInTurn
<1> DEFINE j == job[p]
<1>1. JobFits(j) /\ j.at = "done"
  BY DEF SpeechInv, Done
<1>2. j.shown \in Shown /\ Spoken(j) = Len(Said[j.shown])
  BY <1>1 DEF JobFits, PlaceFits, Spoken, Speaking
<1>3. DOMAIN Said[j.shown] = 1 .. Len(Said[j.shown])
  <2>1. Said[j.shown] \in Seq(Sentences)
    BY <1>2, TextsAndSentences
  <2> QED BY <2>1, LenProperties
<1> HIDE DEF j
<1>4. /\ Len(j.heard) = Len(Said[j.shown])
      /\ \A i \in 1 .. Len(Said[j.shown]) : j.heard[i] \in Playable(j.shown, i)
  BY <1>1, <1>2 DEF JobFits, SoundFits
<1>5. ASSUME NEW i \in DOMAIN Said[j.shown]
      PROVE  \/ j.heard[i] = Torn
             \/ \E s \in Sentences : Key[s] = Key[Said[j.shown][i]] /\ j.heard[i] \in Clips[s]
  BY <1>3, <1>4 DEF Playable, ClipsOf
<1> QED BY <1>2, <1>4, <1>5 DEF j

\* Whatever the texts and sounds are, and whatever other pipelines save or tear
\* meanwhile, a reply that is done has said every sentence that it shows, once and
\* in its turn.
THEOREM RepliesAreSaidInTurn == Spec => []SentencesInTurn
<1> QED BY SpeechAlways, InTurn, PTL

\* The reply that is heard is the one that is shown: its text cut up, and every
\* sentence as its faded samples, in whatever file they came.
THEOREM WhatIsShownIsSaid == Spec => []SaysWhatItShows
<1>1. \A t \in Shown : Whole[t]
  BY TextsAndSentences DEF Whole
<1>2. SentencesInTurn => SaysWhatItShows
  BY <1>1, LayoutsAgree DEF SentencesInTurn, SaysWhatItShows
<1> QED BY <1>2, RepliesAreSaidInTurn, PTL

-----------------------------------------------------------------------------
(* What is paid for.                                                       *)

\* What a pipeline has paid for was not cached under its key when it began.
PaidKeysAreNew ==
  \A p \in Pipelines : \A x \in job[p].paid, k \in job[p].saved :
    x[1] = k[1] => Key[x[2]] # k[2]

LEMMA PaidIsNew == SpeechInv => PaidKeysAreNew
<1> SUFFICES ASSUME SpeechInv, NEW p \in Pipelines, NEW x \in job[p].paid, NEW k \in job[p].saved,
                    x[1] = k[1], Key[x[2]] = k[2]
             PROVE  FALSE
  BY DEF PaidKeysAreNew
<1>1. job[p] \in Jobs /\ PaysForNew(job[p])
  BY DEF SpeechInv, JobFits
<1>2. k \in Saveable
  BY <1>1 DEF Jobs
<1>3. k = <<k[1], k[2]>>
  BY <1>2 DEF Saveable
<1>4. <<x[1], Key[x[2]]>> \notin job[p].saved
  BY <1>1 DEF PaysForNew
<1> QED BY <1>3, <1>4

\* A translation or a sound that is cached when a pipeline begins is not paid for
\* again by it: rows are never taken back, and none is there before its file.
THEOREM CachedKeysAreNeverPaid == Spec => []PaidKeysAreNew
<1> QED BY SpeechAlways, PaidIsNew, PTL

\* The same of the utterances themselves, in whatever rendering.
THEOREM RenderingsAreNeverPaidTwice == Spec => []SavedIsNotPaidAgain
<1>1. SpeechInv /\ PaidKeysAreNew => SavedIsNotPaidAgain
  <2> SUFFICES ASSUME SpeechInv, PaidKeysAreNew, NEW p \in Pipelines, NEW x \in job[p].paid,
                      NEW k \in job[p].saved, x[1] = k[1], NEW u \in Renderings[x[2]], Key[u] = k[2]
               PROVE  FALSE
    BY DEF SavedIsNotPaidAgain
  <2>1. job[p] \in Jobs
    BY DEF SpeechInv, JobFits
  <2>2. x[2] \in Questions \cup Sentences
    BY <2>1 DEF Jobs, Payable
  <2>3. Key[x[2]] = k[2]
    BY <2>2, RenderingsShareKeys
  <2> QED BY <2>3 DEF PaidKeysAreNew
<1> QED BY <1>1, SpeechAlways, CachedKeysAreNeverPaid, PTL

-----------------------------------------------------------------------------
(* What is heard at the seams.                                             *)

LEMMA HeardAreClips ==
  ASSUME SpeechInv, NEW p \in Pipelines, NEW i \in DOMAIN job[p].heard
  PROVE  job[p].heard[i] = Torn \/ \E s \in Sentences : job[p].heard[i] \in Clips[s]
<1> DEFINE j == job[p]
<1>1. JobFits(j) /\ j.heard \in Seq(AllClips \cup {Torn, Missing})
  BY DEF SpeechInv, JobFits, Jobs
<1> HIDE DEF j
<1>2. DOMAIN j.heard = 1 .. Len(j.heard) /\ Len(j.heard) = Spoken(j)
  BY <1>1, LenProperties DEF JobFits, SoundFits
<1>3. j.heard[i] \in Playable(j.shown, i)
  BY <1>1, <1>2 DEF JobFits, SoundFits, j
<1> QED BY <1>3 DEF Playable, ClipsOf, j

\* Two clips one after the other never click, whatever files they came in.
THEOREM SeamsAreAlwaysSilent == Spec => []SeamsAreSilent
<1>1. ASSUME NEW s \in Sentences, NEW clip \in Clips[s]
      PROVE  Len(clip) % 2 = 0 /\ Head(Samples(clip)) = 0 /\ Samples(clip)[Len(Samples(clip))] = 0
  <2> DEFINE pcm == Bytes(Voice[s])
  <2>1. clip = ApplyEdgeFade(pcm)
    BY LayoutsAgree DEF Faded
  <2>2. /\ Voice[s] \in Seq(Int) /\ Len(Voice[s]) >= 2 /\ FadeSamples \in Nat /\ FadeSamples > 0
    BY SpeechAssumption DEF SpeechAssumption
  <2>3. Samples(pcm) = Voice[s]
    <3>1. Len(Voice[s]) \in Nat /\ Voice[s] \in [1 .. Len(Voice[s]) -> Int]
      BY <2>2, LenProperties
    <3> QED BY <3>1, BytesAndBack
  <2> HIDE DEF pcm
  <2> QED BY <2>1, <2>2, <2>3, FadeIsSilent
<1>2. SpeechInv => SeamsAreSilent
  BY <1>1, HeardAreClips DEF SeamsAreSilent
<1> QED BY <1>2, SpeechAlways, PTL
=============================================================================
