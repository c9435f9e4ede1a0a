----------------------------- MODULE FilterProofs -----------------------------
(***************************************************************************)
(* Where the elements of the parts of a sequence are in the whole          *)
(* (FlattenSeq), what a filter keeps (Kept), and what a sum over a finite  *)
(* set comes to (SumFunctionOnSet).  They are recursive functions: that    *)
(* they exist, and what they hold, is proved from the least                *)
(* counterexample, which the well-founded order of the finite sets 0 .. n  *)
(* provides.                                                               *)
(***************************************************************************)
EXTENDS Filter, FiniteSets, FiniteSetTheorems, WellFoundedInduction, TLAPS

LEMMA LeastNatural ==
  ASSUME NEW T \in SUBSET Nat, T # {}
  PROVE  \E m \in T : \A k \in T : m <= k
<1>1. PICK n \in T : TRUE
  OBVIOUS
<1> DEFINE U == 0 .. n
           R == StrictSubsetOrdering(U)
           F == {0 .. k : k \in {j \in T : j <= n}}
<1>2. IsFiniteSet(U)
  BY <1>1, FS_Interval
<1>3. IsWellFoundedOn(R, SUBSET U)
  BY <1>2, FS_StrictSubsetOrderingWellFounded, FS_FiniteSubsetsOfFinite
<1>4. F \subseteq SUBSET U
  BY <1>1
<1>5. F # {}
  BY <1>1
<1> HIDE DEF F, R
<1>6. PICK x \in F : \A y \in F : <<y, x>> \notin R
  BY <1>3, <1>4, <1>5, WFMin
<1> USE DEF F, R
<1>7. PICK m \in T : m <= n /\ x = 0 .. m
  BY <1>6
<1>8. ASSUME NEW k \in T, k < m PROVE FALSE
  <2>1. 0 .. k \in F
    BY <1>1, <1>7, <1>8
  <2>2. 0 .. k \subseteq 0 .. m /\ m \in 0 .. m /\ m \notin 0 .. k
    BY <1>7, <1>8
  <2>3. <<0 .. k, 0 .. m>> \in R
    BY <1>4, <1>6, <1>7, <2>1, <2>2 DEF StrictSubsetOrdering
  <2> QED
    BY <1>6, <1>7, <2>1, <2>3
<1> QED
  BY <1>7, <1>8

\* The same as an induction over 1 .. n.
LEMMA UpTo ==
  ASSUME NEW n \in Nat, NEW T \in SUBSET (1 .. n),
         \A k \in 1 .. n : (k = 1 \/ k - 1 \in T) => k \in T
  PROVE  T = 1 .. n
<1> SUFFICES ASSUME (1 .. n) \ T # {} PROVE FALSE
  OBVIOUS
<1>1. (1 .. n) \ T \in SUBSET Nat
  OBVIOUS
<1>2. PICK m \in (1 .. n) \ T : \A k \in (1 .. n) \ T : m <= k
  BY <1>1, LeastNatural
<1>3. m = 1 \/ m - 1 \in T
  BY <1>2
<1> QED
  BY <1>2, <1>3

Occurs(s, x) == \E j \in DOMAIN s : s[j] = x

LEMMA OccursIn ==
  ASSUME NEW T, NEW s \in Seq(T), NEW x, Occurs(s, x)
  PROVE  x \in T
BY DEF Occurs

LEMMA SeqSubset ==
  ASSUME NEW S, NEW T, S \subseteq T, NEW s \in Seq(S)
  PROVE  s \in Seq(T)
OBVIOUS

LEMMA OccursEither ==
  ASSUME NEW T, NEW s \in Seq(T), NEW t \in Seq(T), NEW x
  PROVE  Occurs(s \o t, x) <=> Occurs(s, x) \/ Occurs(t, x)
<1>1. s \o t \in Seq(T) /\ Len(s \o t) = Len(s) + Len(t)
  OBVIOUS
<1>2. \A i \in DOMAIN s : i \in DOMAIN (s \o t) /\ (s \o t)[i] = s[i]
  BY <1>1
<1>3. \A i \in DOMAIN t : Len(s) + i \in DOMAIN (s \o t) /\ (s \o t)[Len(s) + i] = t[i]
  BY <1>1
<1>4. ASSUME NEW i \in DOMAIN (s \o t), i \notin DOMAIN s
      PROVE  i - Len(s) \in DOMAIN t /\ (s \o t)[i] = t[i - Len(s)]
  BY <1>1, <1>4
<1> QED
  BY <1>2, <1>3, <1>4 DEF Occurs

\* The recursive function in FlattenSeq.
Flattens(ss, n, f) ==
  f = [i \in 1 .. n |-> IF i = 1 THEN ss[i] ELSE f[i - 1] \o ss[i]]

LEMMA FlattenExists ==
  ASSUME NEW ss, NEW n \in Nat
  PROVE  \E f : Flattens(ss, n, f)
<1> DEFINE T == {k \in 1 .. n : \E f : Flattens(ss, k, f)}
<1>1. CASE n = 0
  <2>1. Flattens(ss, 0, [i \in 1 .. 0 |-> 0])
    BY DEF Flattens
  <2> QED
    BY <1>1, <2>1
<1>2. CASE n > 0
  <2>1. \E f : Flattens(ss, 1, f)
    <3>1. Flattens(ss, 1, [i \in 1 .. 1 |-> ss[i]])
      BY DEF Flattens
    <3> QED
      BY <3>1
  <2>2. ASSUME NEW k \in 1 .. n, k > 1, NEW f, Flattens(ss, k - 1, f)
        PROVE  \E g : Flattens(ss, k, g)
    <3> DEFINE last == f[k - 1] \o ss[k]
               g    == [i \in 1 .. k |-> IF i = k THEN last ELSE f[i]]
    <3>1. \A i \in 1 .. k - 1 : f[i] = IF i = 1 THEN ss[i] ELSE f[i - 1] \o ss[i]
      BY <2>2 DEF Flattens
    <3>2. ASSUME NEW i \in 1 .. k PROVE g[i] = IF i = 1 THEN ss[i] ELSE g[i - 1] \o ss[i]
      <4>1. CASE i = k
        <5>1. k - 1 \in 1 .. k /\ k - 1 # k /\ k # 1
          BY <2>2
        <5>2. g[k] = last /\ g[k - 1] = f[k - 1]
          <6> HIDE DEF last
          <6> QED
            BY <5>1
        <5> QED
          BY <4>1, <5>1, <5>2
      <4>2. CASE i # k
        BY <2>2, <3>1, <4>2
      <4> QED
        BY <4>1, <4>2
    <3>3. Flattens(ss, k, g)
      BY <3>2 DEF Flattens
    <3> QED
      BY <3>3
  <2>3. \A k \in 1 .. n : (k = 1 \/ k - 1 \in T) => k \in T
    BY <2>1, <2>2
  <2>4. T = 1 .. n
    <3> HIDE DEF T
    <3>1. T \in SUBSET (1 .. n)
      BY DEF T
    <3> QED
      BY <2>3, <3>1, UpTo
  <2> QED
    BY <1>2, <2>4
<1> QED
  BY <1>1, <1>2

LEMMA FlattenUnfolds ==
  ASSUME NEW ss, Len(ss) \in Nat \ {0}
  PROVE  \E f : Flattens(ss, Len(ss), f) /\ FlattenSeq(ss) = f[Len(ss)]
<1> DEFINE f == CHOOSE f : Flattens(ss, Len(ss), f)
<1>1. \E g : Flattens(ss, Len(ss), g)
  BY FlattenExists
<1>2. Flattens(ss, Len(ss), f)
  BY <1>1
<1>3. FlattenSeq(ss) = f[Len(ss)]
  BY DEF FlattenSeq, Flattens
<1> QED
  BY <1>2, <1>3

\* An element of one of the first n parts.
Among(ss, n, x) == \E k \in 1 .. n : Occurs(ss[k], x)

\* The k-th part stands in w as a whole, behind nothing but elements of the
\* parts before it.
StandsAt(ss, k, w, o) ==
  /\ \A i \in DOMAIN ss[k] : o + i \in DOMAIN w /\ w[o + i] = ss[k][i]
  /\ \A j \in 1 .. o : j \in DOMAIN w /\ Among(ss, k - 1, w[j])

\* w consists of the first n parts.
Consists(ss, n, w) ==
  /\ \A j \in DOMAIN w : Among(ss, n, w[j])
  /\ \A k \in 1 .. n : \E o \in Nat : StandsAt(ss, k, w, o)

LEMMA FirstPart ==
  ASSUME NEW T, NEW ss \in Seq(Seq(T)), Len(ss) > 0
  PROVE  Consists(ss, 1, ss[1])
<1>1. ss[1] \in Seq(T)
  OBVIOUS
<1>2. StandsAt(ss, 1, ss[1], 0)
  <2>1. \A i \in DOMAIN ss[1] : 0 + i = i
    BY <1>1
  <2> QED
    BY <2>1 DEF StandsAt
<1>3. \A j \in DOMAIN ss[1] : Among(ss, 1, ss[1][j])
  BY DEF Among, Occurs
<1> QED
  BY <1>2, <1>3 DEF Consists

LEMMA NextPart ==
  ASSUME NEW T, NEW ss \in Seq(Seq(T)), NEW n \in 1 .. Len(ss), n > 1,
         NEW w \in Seq(T), Consists(ss, n - 1, w)
  PROVE  Consists(ss, n, w \o ss[n])
<1> DEFINE v == w \o ss[n]
<1>1. ss[n] \in Seq(T) /\ v \in Seq(T) /\ Len(v) = Len(w) + Len(ss[n])
  OBVIOUS
<1>2. /\ \A j \in DOMAIN w : j \in DOMAIN v /\ v[j] = w[j]
      /\ \A i \in DOMAIN ss[n] : Len(w) + i \in DOMAIN v /\ v[Len(w) + i] = ss[n][i]
      /\ \A j \in DOMAIN v : j \in DOMAIN w \/ \E i \in DOMAIN ss[n] : j = Len(w) + i
  <2>1. \A j \in DOMAIN v : j \notin DOMAIN w => j = Len(w) + (j - Len(w)) /\ j - Len(w) \in DOMAIN ss[n]
    BY <1>1
  <2> QED
    BY <1>1, <2>1
<1> HIDE DEF v
<1>3. \A x : Among(ss, n - 1, x) => Among(ss, n, x)
  BY DEF Among, Occurs
<1>4. \A j \in DOMAIN v : Among(ss, n, v[j])
  <2> TAKE j \in DOMAIN v
  <2>1. CASE j \in DOMAIN w
    BY <1>2, <1>3, <2>1 DEF Consists
  <2>2. CASE j \notin DOMAIN w
    <3>1. PICK i \in DOMAIN ss[n] : j = Len(w) + i
      BY <1>2, <2>2
    <3>2. n \in 1 .. n /\ v[j] = ss[n][i]
      BY <1>2, <3>1
    <3> QED
      BY <3>1, <3>2 DEF Among, Occurs
  <2> QED
    BY <2>1, <2>2
<1>5. ASSUME NEW k \in 1 .. n PROVE \E o \in Nat : StandsAt(ss, k, v, o)
  <2>1. CASE k = n
    <3>1. Len(w) \in Nat /\ DOMAIN w = 1 .. Len(w)
      OBVIOUS
    <3>2. StandsAt(ss, n, v, Len(w))
      BY <1>2, <3>1 DEF Consists, StandsAt
    <3> QED
      BY <2>1, <3>1, <3>2
  <2>2. CASE k # n
    <3>1. k \in 1 .. n - 1
      BY <2>2
    <3>2. PICK o \in Nat : StandsAt(ss, k, w, o)
      BY <3>1 DEF Consists
    <3>3. StandsAt(ss, k, v, o)
      BY <1>2, <3>2 DEF StandsAt
    <3> QED
      BY <3>3
  <2> QED
    BY <2>1, <2>2
<1>6. Consists(ss, n, v)
  BY <1>4, <1>5 DEF Consists
<1> QED
  BY <1>6 DEF v

\* The parts of a sequence of sequences follow one another in the whole.
LEMMA Flattened ==
  ASSUME NEW T, NEW ss \in Seq(Seq(T))
  PROVE  FlattenSeq(ss) \in Seq(T) /\ Consists(ss, Len(ss), FlattenSeq(ss))
<1>1. CASE Len(ss) = 0
  <2>1. ss = <<>> /\ FlattenSeq(ss) = <<>>
    BY <1>1 DEF FlattenSeq
  <2>2. DOMAIN FlattenSeq(ss) = {} /\ 1 .. Len(ss) = {} /\ FlattenSeq(ss) \in Seq(T)
    <3>1. <<>> \in Seq(T) /\ Len(<<>>) = 0
      OBVIOUS
    <3>2. DOMAIN <<>> = 1 .. 0 /\ 1 .. 0 = {}
      BY <3>1
    <3> QED
      BY <1>1, <2>1, <3>1, <3>2
  <2> QED
    BY <2>2 DEF Consists
<1>2. CASE Len(ss) # 0
  <2>1. PICK f : Flattens(ss, Len(ss), f) /\ FlattenSeq(ss) = f[Len(ss)]
    BY <1>2, FlattenUnfolds
  <2> DEFINE D == {k \in 1 .. Len(ss) : f[k] \in Seq(T) /\ Consists(ss, k, f[k])}
  <2>2. \A k \in 1 .. Len(ss) : f[k] = IF k = 1 THEN ss[k] ELSE f[k - 1] \o ss[k]
    BY <2>1 DEF Flattens
  <2>3. ASSUME NEW k \in 1 .. Len(ss), k = 1 \/ k - 1 \in D PROVE k \in D
    <3>1. CASE k = 1
      BY <1>2, <2>2, <3>1, FirstPart
    <3>2. CASE k # 1
      <4>1. f[k - 1] \in Seq(T) /\ Consists(ss, k - 1, f[k - 1])
        BY <2>3, <3>2
      <4>2. f[k] = f[k - 1] \o ss[k]
        BY <2>2, <3>2
      <4>3. ss[k] \in Seq(T)
        OBVIOUS
      <4>4. Consists(ss, k, f[k - 1] \o ss[k])
        <5>1. k > 1
          BY <3>2
        <5> HIDE DEF D
        <5> QED
          BY <4>1, <5>1, NextPart
      <4>5. f[k] \in Seq(T)
        BY <4>1, <4>2, <4>3
      <4> QED
        BY <4>2, <4>4, <4>5
    <3> QED
      BY <3>1, <3>2
  <2>4. D = 1 .. Len(ss)
    <3>1. D \in SUBSET (1 .. Len(ss)) /\ Len(ss) \in Nat
      OBVIOUS
    <3> HIDE DEF D
    <3> QED
      BY <2>3, <3>1, UpTo
  <2>5. Len(ss) \in D
    <3>1. Len(ss) \in 1 .. Len(ss)
      BY <1>2
    <3> HIDE DEF D
    <3> QED
      BY <2>4, <3>1
  <2> QED
    BY <2>1, <2>5
<1> QED
  BY <1>1, <1>2

\* A filter keeps what it is told to keep, and nothing else.
LEMMA KeptHolds ==
  ASSUME NEW T, NEW s \in Seq(T), NEW S
  PROVE  /\ Kept(s, S) \in Seq(T \cap S) /\ Kept(s, S) \in Seq(T)
         /\ \A x : Occurs(Kept(s, S), x) <=> x \in S /\ Occurs(s, x)
<1> DEFINE ss == [k \in DOMAIN s |-> IF s[k] \in S THEN <<s[k]>> ELSE <<>>]
<1>1. ss \in Seq(Seq(T \cap S)) /\ Len(ss) = Len(s) /\ DOMAIN s = 1 .. Len(s)
  <2>1. ASSUME NEW k \in 1 .. Len(s)
        PROVE  (IF s[k] \in S THEN <<s[k]>> ELSE <<>>) \in Seq(T \cap S)
    <3>1. s[k] \in S => <<s[k]>> \in Seq(T \cap S)
      <4>1. s[k] \in T
        OBVIOUS
      <4> QED
        BY <4>1
    <3>2. <<>> \in Seq(T \cap S)
      OBVIOUS
    <3> QED
      BY <3>1, <3>2
  <2>2. DOMAIN s = 1 .. Len(s) /\ Len(s) \in Nat
    OBVIOUS
  <2> QED
    BY <2>1, <2>2
<1>2. \A k \in DOMAIN s : \A x : Occurs(ss[k], x) <=> s[k] \in S /\ x = s[k]
  BY DEF Occurs
<1> HIDE DEF ss
<1>3. Kept(s, S) = FlattenSeq(ss)
  BY DEF Kept, ss
<1>4. Kept(s, S) \in Seq(T \cap S) /\ Consists(ss, Len(s), Kept(s, S))
  BY <1>1, <1>3, Flattened
<1>5. ASSUME NEW x \in S, Occurs(s, x) PROVE Occurs(Kept(s, S), x)
  <2>1. PICK k \in 1 .. Len(s) : s[k] = x
    BY <1>1, <1>5 DEF Occurs
  <2>2. PICK i \in DOMAIN ss[k] : ss[k][i] = x
    BY <1>1, <1>2, <2>1 DEF Occurs
  <2>3. PICK o \in Nat : StandsAt(ss, k, Kept(s, S), o)
    BY <1>4, <2>1 DEF Consists
  <2> QED
    BY <2>2, <2>3 DEF StandsAt, Occurs
<1>6. ASSUME NEW x, Occurs(Kept(s, S), x) PROVE x \in S /\ Occurs(s, x)
  <2>1. PICK k \in 1 .. Len(s) : Occurs(ss[k], x)
    BY <1>4, <1>6 DEF Consists, Among, Occurs
  <2> QED
    BY <1>1, <1>2, <2>1 DEF Occurs
<1>7. Kept(s, S) \in Seq(T)
  <2>1. T \cap S \subseteq T
    OBVIOUS
  <2> QED
    BY <1>4, <2>1, SeqSubset
<1> QED
  BY <1>4, <1>5, <1>6, <1>7

(***************************************************************************)
(* Sums over a finite set (SumFunctionOnSet)                               *)
(***************************************************************************)
\* The element a sum takes next, and the sums of the subsets of S by their number of elements.
Picked(T)     == CHOOSE x \in T : TRUE
Small(S, n)   == {T \in SUBSET S : Cardinality(T) <= n}
Plus(f, T, g) == IF T = {} THEN 0 ELSE f[Picked(T)] + g[T \ {Picked(T)}]
Sums(f, S, g) == g = [T \in SUBSET S |-> Plus(f, T, g)]

LEMMA PickedSmaller == ASSUME NEW S, IsFiniteSet(S), NEW T \in SUBSET S, T # {} PROVE
    /\ Picked(T) \in T /\ T \ {Picked(T)} \in SUBSET S /\ IsFiniteSet(T)
    /\ Cardinality(T) \in Nat \ {0} /\ Cardinality(T \ {Picked(T)}) = Cardinality(T) - 1
<1>1. Picked(T) \in T  BY DEF Picked
<1>2. IsFiniteSet(T) /\ Cardinality(T) \in Nat  BY FS_Subset, FS_CardinalityType
<1>3. Cardinality(T \ {Picked(T)}) = Cardinality(T) - 1  BY <1>1, <1>2, FS_RemoveElement
<1>4. Cardinality(T) # 0  BY <1>2, FS_EmptySet
<1>5. QED  BY <1>1, <1>2, <1>3, <1>4

\* What holds of no elements and of one more than it holds of, holds of all.
LEMMA PickedInduction ==
    ASSUME NEW S, IsFiniteSet(S), NEW Q \in SUBSET SUBSET S, {} \in Q,
           \A T \in SUBSET S : T # {} /\ T \ {Picked(T)} \in Q => T \in Q
    PROVE  S \in Q
<1> SUFFICES ASSUME S \notin Q PROVE FALSE  OBVIOUS
<1> DEFINE Bad == {Cardinality(T) : T \in (SUBSET S) \ Q}
<1>1. \A T \in SUBSET S : Cardinality(T) \in Nat  BY FS_Subset, FS_CardinalityType
<1>2. Bad \in SUBSET Nat /\ Bad # {}  BY <1>1
<1>3. PICK m \in Bad : \A k \in Bad : m <= k
  <2> HIDE DEF Bad
  <2> QED  BY <1>2, LeastNatural
<1>4. PICK T \in (SUBSET S) \ Q : m = Cardinality(T)  BY <1>3
<1>5. T # {}  BY <1>4
<1>6. T \ {Picked(T)} \in SUBSET S /\ Cardinality(T \ {Picked(T)}) = m - 1 /\ m \in Nat \ {0}
    BY <1>4, <1>5, PickedSmaller
<1>7. T \ {Picked(T)} \in Q
  <2>1. ~(m <= m - 1)  BY <1>6
  <2>2. QED  BY <1>3, <1>6, <2>1
<1>8. QED  BY <1>4, <1>5, <1>7

LEMMA SumExists == ASSUME NEW S, IsFiniteSet(S), NEW f PROVE \E g : Sums(f, S, g)
<1> DEFINE Fits(g, n) == g = [T \in Small(S, n) |-> Plus(f, T, g)]
           Good == {n \in Nat : \E g : Fits(g, n)}
<1>1. 0 \in Good
  <2> DEFINE g == [T \in Small(S, 0) |-> 0]
  <2>1. \A T \in Small(S, 0) : T = {}
      BY FS_Subset, FS_CardinalityType, FS_EmptySet DEF Small
  <2>2. Fits(g, 0)  BY <2>1 DEF Plus
  <2>3. QED  BY <2>2
<1>2. ASSUME NEW n \in Good PROVE n + 1 \in Good
  <2>1. PICK g : Fits(g, n)  OBVIOUS
  <2> DEFINE h == [T \in Small(S, n + 1) |-> Plus(f, T, g)]
  <2>2. \A T \in Small(S, n) : T \in Small(S, n + 1)
      BY FS_Subset, FS_CardinalityType DEF Small
  <2>3. \A T \in Small(S, n) : h[T] = g[T]  BY <2>1, <2>2
  <2>4. ASSUME NEW T \in Small(S, n + 1) PROVE Plus(f, T, g) = Plus(f, T, h)
    <3>1. CASE T = {}  BY <3>1 DEF Plus
    <3>2. CASE T # {}
      <4>1. T \ {Picked(T)} \in Small(S, n)  BY <3>2, PickedSmaller DEF Small
      <4> HIDE DEF h
      <4>2. QED  BY <2>3, <3>2, <4>1 DEF Plus
    <3>3. QED  BY <3>1, <3>2
  <2>5. Fits(h, n + 1)
    <3>1. [T \in Small(S, n + 1) |-> Plus(f, T, g)] = [T \in Small(S, n + 1) |-> Plus(f, T, h)]
      <4> HIDE DEF h
      <4> QED  BY <2>4
    <3>2. QED  BY <3>1
  <2>6. n + 1 \in Nat  OBVIOUS
  <2> HIDE DEF Fits, h
  <2>7. QED  BY <2>5, <2>6
<1>3. Cardinality(S) \in Good
  <2> HIDE DEF Good
  <2>1. Cardinality(S) \in Nat  BY FS_CardinalityType
  <2> SUFFICES ASSUME Cardinality(S) \notin Good PROVE FALSE  OBVIOUS
  <2> DEFINE Bad == Nat \ Good
  <2>2. PICK m \in Bad : \A k \in Bad : m <= k
    <3>1. Bad \in SUBSET Nat /\ Bad # {}  BY <2>1
    <3> HIDE DEF Bad
    <3> QED  BY <3>1, LeastNatural
  <2>3. m \in Nat /\ m # 0  BY <1>1, <2>2
  <2>4. m - 1 \in Nat /\ ~(m <= m - 1)  BY <2>3
  <2>5. m - 1 \in Good  BY <2>2, <2>4
  <2>6. (m - 1) + 1 \in Good  BY <1>2, <2>5
  <2>7. QED  BY <2>2, <2>3, <2>6
<1>4. Small(S, Cardinality(S)) = SUBSET S
    BY FS_Subset, FS_CardinalityType DEF Small
<1>5. QED  BY <1>3, <1>4 DEF Sums

Unfolds(f, S, g) == SumFunctionOnSet(f, S) = g[S] /\ \A T \in SUBSET S : g[T] = Plus(f, T, g)

\* The sum of f over S is that of the elements taken one after the other.
LEMMA SumUnfolds == ASSUME NEW S, IsFiniteSet(S), NEW f PROVE
    \E g : Unfolds(f, S, g)
<1> DEFINE g == CHOOSE g : Sums(f, S, g)
<1>1. Sums(f, S, g)  BY SumExists
<1>2. SumFunctionOnSet(f, S) = g[S]
    BY DEF SumFunctionOnSet, FoldFunctionOnSet, MapThenFoldSet, Sums, Plus, Picked
<1> HIDE DEF g
<1>3. \A T \in SUBSET S : g[T] = Plus(f, T, g)
  <2>1. g = [T \in SUBSET S |-> Plus(f, T, g)]  BY <1>1 DEF Sums
  <2>2. QED  BY <2>1
<1>4. QED  BY <1>2, <1>3 DEF Unfolds

LEMMA SumIsNatural == ASSUME NEW S, IsFiniteSet(S), NEW f \in [S -> Nat] PROVE SumFunctionOnSet(f, S) \in Nat
<1>1. PICK g : Unfolds(f, S, g)  BY SumUnfolds
<1> DEFINE Q == {T \in SUBSET S : g[T] \in Nat}
<1>2. {} \in Q
  <2>1. g[{}] = 0  BY <1>1 DEF Unfolds, Plus
  <2>2. QED  BY <2>1
<1>3. ASSUME NEW T \in SUBSET S, T # {}, T \ {Picked(T)} \in Q PROVE T \in Q
  <2> DEFINE p == Picked(T)
  <2>1. p \in S /\ f[p] \in Nat  BY <1>3, PickedSmaller
  <2>2. g[T] = f[p] + g[T \ {p}] /\ g[T \ {p}] \in Nat  BY <1>1, <1>3 DEF Unfolds, Plus
  <2> HIDE DEF p
  <2>3. QED  BY <2>1, <2>2
<1>4. S \in Q
  <2> HIDE DEF Q
  <2>1. Q \in SUBSET SUBSET S  BY DEF Q
  <2> QED  BY <1>2, <1>3, <2>1, PickedInduction
<1>5. QED  BY <1>1, <1>4 DEF Unfolds

\* A sum of zeros and ones is the number of ones.
LEMMA SumCounts == ASSUME NEW S, IsFiniteSet(S), NEW f \in [S -> {0, 1}] PROVE
    SumFunctionOnSet(f, S) = Cardinality({x \in S : f[x] = 1})
<1>1. PICK g : Unfolds(f, S, g)  BY SumUnfolds
<1> DEFINE Ones(T) == {x \in T : f[x] = 1}
           Q == {T \in SUBSET S : g[T] = Cardinality(Ones(T))}
<1>2. {} \in Q  BY <1>1, FS_EmptySet DEF Unfolds, Plus
<1>3. ASSUME NEW T \in SUBSET S, T # {}, T \ {Picked(T)} \in Q PROVE T \in Q
  <2> DEFINE p == Picked(T)
             O == Ones(T \ {p})
  <2>1. p \in T /\ IsFiniteSet(T)  BY <1>3, PickedSmaller
  <2>2. g[T] = f[p] + g[T \ {p}] /\ g[T \ {p}] = Cardinality(O)  BY <1>1, <1>3 DEF Unfolds, Plus
  <2>0. f[p] \in {0, 1}  BY <2>1
  <2>3. IsFiniteSet(O) /\ Cardinality(O) \in Nat /\ p \notin O  BY <2>1, FS_Subset, FS_CardinalityType
  <2>4. CASE f[p] = 1
    <3>1. Ones(T) = O \cup {p}  BY <2>1, <2>4
    <3>2. Cardinality(O \cup {p}) = Cardinality(O) + 1
      <4> HIDE DEF O, p
      <4> QED  BY <2>3, FS_AddElement
    <3>3. g[T] = Cardinality(Ones(T))
      <4> HIDE DEF O, p, Ones
      <4> QED  BY <2>2, <2>3, <2>4, <3>1, <3>2
    <3>4. QED  BY <3>3
  <2>5. CASE f[p] = 0
    <3>1. Ones(T) = O  BY <2>1, <2>5
    <3>2. g[T] = Cardinality(Ones(T))
      <4> HIDE DEF O, p, Ones
      <4> QED  BY <2>2, <2>3, <2>5, <3>1
    <3>3. QED  BY <3>2
  <2>6. QED  BY <2>1, <2>4, <2>5
<1>4. S \in Q
  <2> HIDE DEF Q
  <2>1. Q \in SUBSET SUBSET S  BY DEF Q
  <2> QED  BY <1>2, <1>3, <2>1, PickedInduction
<1>5. QED  BY <1>1, <1>4 DEF Unfolds

\* A sum with one term is that term.
LEMMA SumOfOne == ASSUME NEW S, IsFiniteSet(S), NEW a \in S, NEW n \in Nat,
           NEW f, \A x \in S : f[x] = IF x = a THEN n ELSE 0
    PROVE  SumFunctionOnSet(f, S) = n
<1>1. PICK g : Unfolds(f, S, g)  BY SumUnfolds
<1> DEFINE Q == {T \in SUBSET S : g[T] = IF a \in T THEN n ELSE 0}
<1>2. {} \in Q  BY <1>1 DEF Unfolds, Plus
<1>3. ASSUME NEW T \in SUBSET S, T # {}, T \ {Picked(T)} \in Q PROVE T \in Q
  <2> DEFINE p == Picked(T)
  <2>1. p \in T  BY <1>3, PickedSmaller
  <2>2. g[T] = f[p] + g[T \ {p}] /\ g[T \ {p}] = IF a \in T \ {p} THEN n ELSE 0  BY <1>1, <1>3 DEF Unfolds, Plus
  <2> HIDE DEF p
  <2>3. CASE p = a  BY <2>1, <2>2, <2>3
  <2>4. CASE p # a  BY <2>1, <2>2, <2>4
  <2>5. QED  BY <2>3, <2>4
<1>4. S \in Q
  <2> HIDE DEF Q
  <2>1. Q \in SUBSET SUBSET S  BY DEF Q
  <2> QED  BY <1>2, <1>3, <2>1, PickedInduction
<1>5. QED  BY <1>1, <1>4 DEF Unfolds

\* The sum over a part of S is the one taken on the way to the whole.
LEMMA SumWithin == ASSUME NEW S, IsFiniteSet(S), NEW f, NEW g, Unfolds(f, S, g), NEW T \in SUBSET S
    PROVE  SumFunctionOnSet(f, T) = g[T]
<1>0. IsFiniteSet(T)  BY FS_Subset
<1>1. PICK h : Unfolds(f, T, h)  BY <1>0, SumUnfolds
<1> DEFINE Q == {U \in SUBSET T : h[U] = g[U]}
<1>2. {} \in Q  BY <1>1 DEF Unfolds, Plus
<1>3. ASSUME NEW U \in SUBSET T, U # {}, U \ {Picked(U)} \in Q PROVE U \in Q
  <2>1. U \in SUBSET S /\ h[U \ {Picked(U)}] = g[U \ {Picked(U)}]  BY <1>3
  <2>2. h[U] = Plus(f, U, h) /\ g[U] = Plus(f, U, g)  BY <1>1, <2>1 DEF Unfolds
  <2>3. QED  BY <1>3, <2>1, <2>2 DEF Plus
<1>4. T \in Q
  <2> HIDE DEF Q
  <2>1. Q \in SUBSET SUBSET T  BY DEF Q
  <2> QED  BY <1>0, <1>2, <1>3, <2>1, PickedInduction
<1>5. QED  BY <1>1, <1>4 DEF Unfolds

LEMMA SumSteps == ASSUME NEW S, IsFiniteSet(S), NEW f, \A x \in S : f[x] \in Nat PROVE
    /\ SumFunctionOnSet(f, {}) = 0
    /\ \A T \in SUBSET S : SumFunctionOnSet(f, T) \in Nat
    /\ \A T \in SUBSET S : T # {} =>
          SumFunctionOnSet(f, T) = f[Picked(T)] + SumFunctionOnSet(f, T \ {Picked(T)})
<1>1. PICK g : Unfolds(f, S, g)  BY SumUnfolds
<1>2. \A T \in SUBSET S : SumFunctionOnSet(f, T) = g[T]  BY <1>1, SumWithin
<1>3. \A T \in SUBSET S : g[T] = Plus(f, T, g)  BY <1>1 DEF Unfolds
<1>4. \A T \in SUBSET S : T # {} => Picked(T) \in S /\ T \ {Picked(T)} \in SUBSET S  BY PickedSmaller
<1>5. \A T \in SUBSET S : T # {} =>
          SumFunctionOnSet(f, T) = f[Picked(T)] + SumFunctionOnSet(f, T \ {Picked(T)})
    BY <1>2, <1>3, <1>4 DEF Plus
<1>6. SumFunctionOnSet(f, {}) = 0  BY <1>2, <1>3 DEF Plus
<1>7. ASSUME NEW T \in SUBSET S PROVE SumFunctionOnSet(f, T) \in Nat
  <2>1. IsFiniteSet(T)  BY FS_Subset
  <2> DEFINE Q == {U \in SUBSET T : SumFunctionOnSet(f, U) \in Nat}
  <2>2. {} \in Q  BY <1>6
  <2>3. ASSUME NEW U \in SUBSET T, U # {}, U \ {Picked(U)} \in Q PROVE U \in Q
    <3>1. f[Picked(U)] \in Nat /\ SumFunctionOnSet(f, U \ {Picked(U)}) \in Nat  BY <1>4, <2>3
    <3>2. QED  BY <1>5, <2>3, <3>1
  <2>4. T \in Q
    <3> HIDE DEF Q
    <3>1. Q \in SUBSET SUBSET T  BY DEF Q
    <3> QED  BY <2>1, <2>2, <2>3, <3>1, PickedInduction
  <2>5. QED  BY <2>4
<1>8. QED  BY <1>5, <1>6, <1>7

\* A sum depends on what it adds up only.
LEMMA SumSame == ASSUME NEW S, IsFiniteSet(S), NEW f, NEW g, \A x \in S : f[x] \in Nat /\ g[x] = f[x]
    PROVE  SumFunctionOnSet(g, S) = SumFunctionOnSet(f, S)
<1>0. \A x \in S : f[x] \in Nat /\ g[x] \in Nat  OBVIOUS
<1> DEFINE Q == {T \in SUBSET S : SumFunctionOnSet(g, T) = SumFunctionOnSet(f, T)}
<1>1. {} \in Q  BY <1>0, SumSteps
<1>2. ASSUME NEW T \in SUBSET S, T # {}, T \ {Picked(T)} \in Q PROVE T \in Q
  <2>1. Picked(T) \in S  BY <1>2, PickedSmaller
  <2>2. /\ SumFunctionOnSet(f, T) = f[Picked(T)] + SumFunctionOnSet(f, T \ {Picked(T)})
        /\ SumFunctionOnSet(g, T) = g[Picked(T)] + SumFunctionOnSet(g, T \ {Picked(T)})
    BY <1>0, <1>2, SumSteps
  <2>3. QED  BY <1>2, <2>1, <2>2
<1>3. S \in Q
  <2> HIDE DEF Q
  <2>1. Q \in SUBSET SUBSET S  BY DEF Q
  <2> QED  BY <1>1, <1>2, <2>1, PickedInduction
<1>4. QED  BY <1>3

\* It does not matter which element a sum takes first.
LEMMA SumTakes == ASSUME NEW S, IsFiniteSet(S), NEW f, \A x \in S : f[x] \in Nat, NEW a \in S
    PROVE  SumFunctionOnSet(f, S) = f[a] + SumFunctionOnSet(f, S \ {a})
<1> DEFINE Sum(T)  == SumFunctionOnSet(f, T)
           Free(T) == \A b \in T : Sum(T) = f[b] + Sum(T \ {b})
           Q       == {T \in SUBSET S : \A U \in SUBSET S : Cardinality(U) <= Cardinality(T) => Free(U)}
<1>0. /\ \A T \in SUBSET S : IsFiniteSet(T) /\ Cardinality(T) \in Nat /\ Sum(T) \in Nat
      /\ \A T \in SUBSET S : T # {} => Sum(T) = f[Picked(T)] + Sum(T \ {Picked(T)})
    BY FS_Subset, FS_CardinalityType, SumSteps
<1>1. {} \in Q
  <2>1. ASSUME NEW U \in SUBSET S, Cardinality(U) <= Cardinality({}) PROVE U = {}
      BY <1>0, <2>1, FS_EmptySet
  <2>2. Free({})  OBVIOUS
  <2> HIDE DEF Free
  <2>3. QED  BY <2>1, <2>2
<1>2. ASSUME NEW T \in SUBSET S, T # {}, T \ {Picked(T)} \in Q PROVE T \in Q
  <2>1. ASSUME NEW U \in SUBSET S, Cardinality(U) <= Cardinality(T), NEW b \in U
        PROVE  Sum(U) = f[b] + Sum(U \ {b})
    <3> DEFINE q == Picked(U)
    <3>1. /\ q \in U /\ U \ {q} \in SUBSET S /\ U \ {b} \in SUBSET S
          /\ Cardinality(U \ {q}) = Cardinality(U) - 1 /\ Cardinality(U \ {b}) = Cardinality(U) - 1
      <4>1. U # {} /\ IsFiniteSet(U)  BY <1>0
      <4>2. QED  BY <4>1, PickedSmaller, FS_RemoveElement
    <3>2. Cardinality(T \ {Picked(T)}) = Cardinality(T) - 1  BY <1>2, PickedSmaller
    <3>3. Free(U \ {q}) /\ Free(U \ {b})
      <4>1. /\ Cardinality(U \ {q}) <= Cardinality(T \ {Picked(T)})
            /\ Cardinality(U \ {b}) <= Cardinality(T \ {Picked(T)})
          BY <1>0, <2>1, <3>1, <3>2
      <4> HIDE DEF Free, q
      <4>2. QED  BY <1>2, <3>1, <4>1
    <3>4. Sum(U) = f[q] + Sum(U \ {q})  BY <1>0, <3>1
    <3>5. CASE b = q  BY <3>4, <3>5
    <3>6. CASE b # q
      <4>1. b \in U \ {q} /\ q \in U \ {b} /\ (U \ {q}) \ {b} = (U \ {b}) \ {q}  BY <3>1, <3>6
      <4>2. Sum(U \ {q}) = f[b] + Sum((U \ {q}) \ {b}) /\ Sum(U \ {b}) = f[q] + Sum((U \ {b}) \ {q})
          BY <3>3, <4>1
      <4>3. /\ f[b] \in Nat /\ f[q] \in Nat /\ Sum((U \ {q}) \ {b}) \in Nat
            /\ Sum(U \ {q}) \in Nat /\ Sum(U \ {b}) \in Nat /\ Sum(U) \in Nat
          BY <1>0, <3>1
      <4> HIDE DEF Sum, q
      <4>4. QED  BY <3>4, <4>1, <4>2, <4>3
    <3>7. QED  BY <3>5, <3>6
  <2>2. QED  BY <2>1
<1>3. S \in Q
  <2> HIDE DEF Q
  <2>1. Q \in SUBSET SUBSET S  BY DEF Q
  <2> QED  BY <1>1, <1>2, <2>1, PickedInduction
<1>4. Free(S)  BY <1>0, <1>3
<1>5. QED  BY <1>4

\* One term for another, or a new one.
LEMMA SumReplaces == ASSUME NEW S, IsFiniteSet(S), NEW f, \A x \in S : f[x] \in Nat, NEW a,
           NEW g, \A x \in S \ {a} : g[x] = f[x], g[a] \in Nat
    PROVE  SumFunctionOnSet(g, S \cup {a}) + (IF a \in S THEN f[a] ELSE 0) = SumFunctionOnSet(f, S) + g[a]
<1>1. IsFiniteSet(S \cup {a}) /\ IsFiniteSet(S \ {a})  BY FS_AddElement, FS_Subset
<1>2. \A x \in S \cup {a} : g[x] \in Nat  OBVIOUS
<1>3. (S \cup {a}) \ {a} = S \ {a}  OBVIOUS
<1>4. SumFunctionOnSet(g, S \cup {a}) = g[a] + SumFunctionOnSet(g, S \ {a})
  <2>1. SumFunctionOnSet(g, S \cup {a}) = g[a] + SumFunctionOnSet(g, (S \cup {a}) \ {a})
      BY <1>1, <1>2, SumTakes
  <2>2. QED  BY <1>3, <2>1
<1>5. SumFunctionOnSet(g, S \ {a}) = SumFunctionOnSet(f, S \ {a})  BY <1>1, SumSame
<1>6. SumFunctionOnSet(f, S \ {a}) \in Nat  BY SumSteps
<1>7. CASE a \in S
  <2>1. SumFunctionOnSet(f, S) = f[a] + SumFunctionOnSet(f, S \ {a})  BY <1>7, SumTakes
  <2>2. f[a] \in Nat  BY <1>7
  <2>3. QED  BY <1>4, <1>5, <1>6, <1>7, <2>1, <2>2
<1>8. CASE a \notin S
  <2>1. SumFunctionOnSet(f, S \ {a}) = SumFunctionOnSet(f, S)
    <3>1. S \ {a} = S  BY <1>8
    <3>2. QED  BY <3>1, Zenon
  <2>2. QED  BY <1>4, <1>5, <1>6, <1>8, <2>1
<1>9. QED  BY <1>7, <1>8

\* What is no larger term by term is no larger in sum, and terms left out only lessen it.
LEMMA SumIsLess == ASSUME NEW S, IsFiniteSet(S), NEW T \in SUBSET S, NEW f, NEW g,
           \A x \in S : f[x] \in Nat, \A x \in T : g[x] \in Nat /\ g[x] <= f[x]
    PROVE  SumFunctionOnSet(g, T) <= SumFunctionOnSet(f, S)
<1>0. IsFiniteSet(T)  BY FS_Subset
<1> DEFINE Q == {U \in SUBSET S : SumFunctionOnSet(g, U \cap T) <= SumFunctionOnSet(f, U)}
<1>1. {} \in Q
  <2>1. SumFunctionOnSet(g, {}) = 0 /\ SumFunctionOnSet(f, {}) = 0  BY <1>0, SumSteps
  <2>2. {} \cap T = {}  OBVIOUS
  <2>3. QED  BY <2>1, <2>2
<1>2. ASSUME NEW U \in SUBSET S, U # {}, U \ {Picked(U)} \in Q PROVE U \in Q
  <2> DEFINE p == Picked(U)
             V == U \ {p}
  <2>1. p \in U /\ V \in SUBSET S  BY <1>2, PickedSmaller
  <2>2. SumFunctionOnSet(f, U) = f[p] + SumFunctionOnSet(f, V)  BY <1>2, SumSteps
  <2>3. SumFunctionOnSet(f, V) \in Nat /\ f[p] \in Nat  BY <2>1, SumSteps
  <2>4. SumFunctionOnSet(g, V \cap T) \in Nat  BY <1>0, SumSteps
  <2>5. SumFunctionOnSet(g, V \cap T) <= SumFunctionOnSet(f, V)  BY <1>2
  <2>6. CASE p \in T
    <3>1. p \in U \cap T /\ (U \cap T) \ {p} = V \cap T /\ IsFiniteSet(U \cap T)
        BY <1>0, <2>1, <2>6, FS_Subset
    <3>2. SumFunctionOnSet(g, U \cap T) = g[p] + SumFunctionOnSet(g, (U \cap T) \ {p})
      <4>1. \A x \in U \cap T : g[x] \in Nat  OBVIOUS
      <4> HIDE DEF p
      <4>2. QED  BY <3>1, <4>1, SumTakes
    <3>3. g[p] \in Nat /\ g[p] <= f[p]  BY <2>6
    <3>4. SumFunctionOnSet(g, U \cap T) <= SumFunctionOnSet(f, U)
      <4> HIDE DEF p, V
      <4> QED  BY <2>2, <2>3, <2>4, <2>5, <3>1, <3>2, <3>3
    <3>5. QED  BY <3>4
  <2>7. CASE p \notin T
    <3>1. SumFunctionOnSet(g, U \cap T) = SumFunctionOnSet(g, V \cap T)
      <4>1. U \cap T = V \cap T  BY <2>7
      <4>2. QED  BY <4>1, Zenon
    <3>2. SumFunctionOnSet(g, U \cap T) <= SumFunctionOnSet(f, U)
      <4> HIDE DEF p, V
      <4> QED  BY <2>2, <2>3, <2>4, <2>5, <3>1
    <3>3. QED  BY <3>2
  <2>8. QED  BY <2>6, <2>7
<1>3. S \in Q
  <2> HIDE DEF Q
  <2>1. Q \in SUBSET SUBSET S  BY DEF Q
  <2> QED  BY <1>1, <1>2, <2>1, PickedInduction
<1>4. S \cap T = T  OBVIOUS
<1>5. QED  BY <1>3, <1>4

\* The terms may be named otherwise, and more of them may be there as long as they are zero.
LEMMA SumMoves == ASSUME NEW S, IsFiniteSet(S), NEW T, IsFiniteSet(T), NEW f, \A y \in T : f[y] \in Nat,
           NEW e \in [S -> T], \A x, y \in S : e[x] = e[y] => x = y,
           \A y \in T : (\E x \in S : e[x] = y) \/ f[y] = 0,
           NEW g, \A x \in S : g[x] = f[e[x]]
    PROVE  SumFunctionOnSet(g, S) = SumFunctionOnSet(f, T)
<1> DEFINE Image(U) == {e[x] : x \in U}
           Q == {U \in SUBSET S : SumFunctionOnSet(g, U) = SumFunctionOnSet(f, Image(U))}
<1>0. \A x \in S : g[x] \in Nat  OBVIOUS
<1>1. {} \in Q
  <2>1. SumFunctionOnSet(g, {}) = 0 /\ SumFunctionOnSet(f, {}) = 0  BY <1>0, SumSteps
  <2>2. Image({}) = {}  OBVIOUS
  <2>3. QED  BY <2>1, <2>2
<1>2. ASSUME NEW U \in SUBSET S, U # {}, U \ {Picked(U)} \in Q PROVE U \in Q
  <2> DEFINE p == Picked(U)
             V == U \ {p}
  <2>1. p \in U /\ p \in S  BY <1>2, PickedSmaller
  <2>2. SumFunctionOnSet(g, U) = g[p] + SumFunctionOnSet(g, V)  BY <1>0, <1>2, SumSteps
  <2>3. Image(U) \in SUBSET T /\ e[p] \in Image(U) /\ Image(U) \ {e[p]} = Image(V)
    <3> HIDE DEF p
    <3> QED  BY <2>1
  <2>4. IsFiniteSet(Image(U))
    <3> HIDE DEF Image
    <3> QED  BY <2>3, FS_Subset
  <2>5. SumFunctionOnSet(f, Image(U)) = f[e[p]] + SumFunctionOnSet(f, Image(U) \ {e[p]})
    <3>1. \A y \in Image(U) : f[y] \in Nat  OBVIOUS
    <3> HIDE DEF Image, p
    <3>2. QED  BY <2>3, <2>4, <3>1, SumTakes
  <2>6. SumFunctionOnSet(g, V) = SumFunctionOnSet(f, Image(V))  BY <1>2
  <2>7. SumFunctionOnSet(g, U) = SumFunctionOnSet(f, Image(U))
    <3> HIDE DEF Image, p, V
    <3> QED  BY <2>1, <2>2, <2>3, <2>5, <2>6
  <2>8. QED  BY <2>7
<1>3. S \in Q
  <2> HIDE DEF Q
  <2>1. Q \in SUBSET SUBSET S  BY DEF Q
  <2> QED  BY <1>1, <1>2, <2>1, PickedInduction
<1> DEFINE Z == {V \in SUBSET T : SumFunctionOnSet(f, V) = SumFunctionOnSet(f, V \cap Image(S))}
<1>4. {} \in Z
  <2>1. {} \cap Image(S) = {}  OBVIOUS
  <2>2. QED  BY <2>1
<1>5. ASSUME NEW V \in SUBSET T, V # {}, V \ {Picked(V)} \in Z PROVE V \in Z
  <2> DEFINE p == Picked(V)
             W == V \ {p}
             I == Image(S)
  <2>1. p \in V /\ p \in T /\ f[p] \in Nat  BY <1>5, PickedSmaller
  <2>2. SumFunctionOnSet(f, V) = f[p] + SumFunctionOnSet(f, W) /\ SumFunctionOnSet(f, W) \in Nat
      BY <1>5, SumSteps
  <2>3. SumFunctionOnSet(f, W) = SumFunctionOnSet(f, W \cap I)  BY <1>5
  <2>4. CASE p \in I
    <3>1. p \in V \cap I /\ (V \cap I) \ {p} = W \cap I /\ IsFiniteSet(V \cap I)
      <4> HIDE DEF I
      <4> QED  BY <2>1, <2>4, FS_Subset
    <3>2. SumFunctionOnSet(f, V \cap I) = f[p] + SumFunctionOnSet(f, (V \cap I) \ {p})
      <4>1. \A x \in V \cap I : f[x] \in Nat  OBVIOUS
      <4> HIDE DEF p, I
      <4>2. QED  BY <3>1, <4>1, SumTakes
    <3>3. SumFunctionOnSet(f, V) = SumFunctionOnSet(f, V \cap I)
      <4> HIDE DEF p, W, I
      <4> QED  BY <2>2, <2>3, <3>1, <3>2
    <3>4. QED  BY <3>3
  <2>5. CASE p \notin I
    <3>1. SumFunctionOnSet(f, V \cap I) = SumFunctionOnSet(f, W \cap I)
      <4>1. V \cap I = W \cap I  BY <2>5
      <4> HIDE DEF I
      <4>2. QED  BY <4>1, Zenon
    <3>2. f[p] = 0  BY <2>1, <2>5
    <3>3. SumFunctionOnSet(f, V) = SumFunctionOnSet(f, V \cap I)
      <4> HIDE DEF p, W, I
      <4> QED  BY <2>2, <2>3, <3>1, <3>2
    <3>4. QED  BY <3>3
  <2>6. QED  BY <2>4, <2>5
<1>6. T \in Z
  <2> HIDE DEF Z
  <2>1. Z \in SUBSET SUBSET T  BY DEF Z
  <2> QED  BY <1>4, <1>5, <2>1, PickedInduction
<1>7. T \cap Image(S) = Image(S)  OBVIOUS
<1>8. QED  BY <1>3, <1>6, <1>7

LEMMA SumOfNone == ASSUME NEW S, IsFiniteSet(S), NEW f, \A x \in S : f[x] = 0
    PROVE  SumFunctionOnSet(f, S) = 0
<1>0. \A x \in S : f[x] \in Nat  OBVIOUS
<1> DEFINE Q == {T \in SUBSET S : SumFunctionOnSet(f, T) = 0}
<1>1. {} \in Q  BY <1>0, SumSteps
<1>2. ASSUME NEW T \in SUBSET S, T # {}, T \ {Picked(T)} \in Q PROVE T \in Q
  <2>1. Picked(T) \in S  BY <1>2, PickedSmaller
  <2>2. SumFunctionOnSet(f, T) = f[Picked(T)] + SumFunctionOnSet(f, T \ {Picked(T)})
      BY <1>0, <1>2, SumSteps
  <2>3. QED  BY <1>2, <2>1, <2>2
<1>3. S \in Q
  <2> HIDE DEF Q
  <2>1. Q \in SUBSET SUBSET S  BY DEF Q
  <2> QED  BY <1>1, <1>2, <2>1, PickedInduction
<1>4. QED  BY <1>3

\* Sums may be taken together or apart,
LEMMA SumAdds == ASSUME NEW S, IsFiniteSet(S), NEW f, NEW g, \A x \in S : f[x] \in Nat /\ g[x] \in Nat,
           NEW h, \A x \in S : h[x] = f[x] + g[x]
    PROVE  SumFunctionOnSet(h, S) = SumFunctionOnSet(f, S) + SumFunctionOnSet(g, S)
<1>0. \A x \in S : f[x] \in Nat /\ g[x] \in Nat /\ h[x] \in Nat  OBVIOUS
<1> DEFINE Sum(k, U) == SumFunctionOnSet(k, U)
           Q == {U \in SUBSET S : Sum(h, U) = Sum(f, U) + Sum(g, U)}
<1>1. {} \in Q
  <2>1. Sum(h, {}) = 0 /\ Sum(f, {}) = 0 /\ Sum(g, {}) = 0  BY <1>0, SumSteps
  <2>2. QED  BY <2>1
<1>2. ASSUME NEW U \in SUBSET S, U # {}, U \ {Picked(U)} \in Q PROVE U \in Q
  <2> DEFINE p == Picked(U)
             V == U \ {p}
  <2>1. p \in S /\ V \in SUBSET S  BY <1>2, PickedSmaller
  <2>2. Sum(h, U) = h[p] + Sum(h, V) /\ Sum(f, U) = f[p] + Sum(f, V) /\ Sum(g, U) = g[p] + Sum(g, V)
      BY <1>0, <1>2, SumSteps
  <2>3. Sum(h, V) \in Nat /\ Sum(f, V) \in Nat /\ Sum(g, V) \in Nat  BY <1>0, <2>1, SumSteps
  <2>4. Sum(h, V) = Sum(f, V) + Sum(g, V)  BY <1>2
  <2>5. f[p] \in Nat /\ g[p] \in Nat /\ h[p] = f[p] + g[p]  BY <2>1
  <2>6. Sum(h, U) = Sum(f, U) + Sum(g, U)
    <3> HIDE DEF p, V, Sum
    <3> QED  BY <2>2, <2>3, <2>4, <2>5
  <2>7. QED  BY <2>6
<1>3. S \in Q
  <2> HIDE DEF Q
  <2>1. Q \in SUBSET SUBSET S  BY DEF Q
  <2> QED  BY <1>1, <1>2, <2>1, PickedInduction
<1>4. QED  BY <1>3

\* and those of rows be those of columns.
RowSums(f, S, T) == [x \in S |-> SumFunctionOnSet([y \in T |-> f[x][y]], T)]
ColSums(f, S, T) == [y \in T |-> SumFunctionOnSet([x \in S |-> f[x][y]], S)]

LEMMA SumSwaps == ASSUME NEW S, IsFiniteSet(S), NEW T, IsFiniteSet(T), NEW f,
           \A x \in S : \A y \in T : f[x][y] \in Nat
    PROVE  SumFunctionOnSet(RowSums(f, S, T), S) = SumFunctionOnSet(ColSums(f, S, T), T)
<1> DEFINE Row(x)    == [y \in T |-> f[x][y]]
           Col(y, U) == [x \in U |-> f[x][y]]
           Rows(U)   == [x \in U |-> SumFunctionOnSet(Row(x), T)]
           Cols(U)   == [y \in T |-> SumFunctionOnSet(Col(y, U), U)]
           Q == {U \in SUBSET S : SumFunctionOnSet(Rows(U), U) = SumFunctionOnSet(Cols(U), T)}
<1>0. /\ \A x \in S : \A y \in T : Row(x)[y] \in Nat
      /\ \A U \in SUBSET S : IsFiniteSet(U) /\ \A y \in T : \A x \in U : Col(y, U)[x] \in Nat
    BY FS_Subset
<1>1. /\ \A x \in S : SumFunctionOnSet(Row(x), T) \in Nat
      /\ \A U \in SUBSET S : \A y \in T : SumFunctionOnSet(Col(y, U), U) \in Nat
  <2> HIDE DEF Row, Col
  <2> QED  BY <1>0, SumSteps
<1>2. /\ \A U \in SUBSET S : \A x \in U : Rows(U)[x] = SumFunctionOnSet(Row(x), T) /\ Rows(U)[x] \in Nat
      /\ \A U \in SUBSET S : \A y \in T : Cols(U)[y] = SumFunctionOnSet(Col(y, U), U) /\ Cols(U)[y] \in Nat
  <2> HIDE DEF Row, Col
  <2> QED  BY <1>1
<1>3. {} \in Q
  <2>1. SumFunctionOnSet(Rows({}), {}) = 0
    <3> HIDE DEF Rows
    <3> QED  BY <1>2, SumSteps, FS_EmptySet
  <2>2. \A y \in T : Cols({})[y] = 0
    <3> HIDE DEF Cols, Col
    <3>1. \A k : SumFunctionOnSet(k, {}) = 0  BY SumSteps, FS_EmptySet
    <3> QED  BY <1>2, <3>1
  <2>3. SumFunctionOnSet(Cols({}), T) = 0
    <3> HIDE DEF Cols
    <3> QED  BY <2>2, SumOfNone
  <2> HIDE DEF Rows, Cols
  <2>4. QED  BY <2>1, <2>3
<1>4. ASSUME NEW U \in SUBSET S, U # {}, U \ {Picked(U)} \in Q PROVE U \in Q
  <2> DEFINE p == Picked(U)
             V == U \ {p}
  <2>1. p \in U /\ p \in S /\ V \in SUBSET S  BY <1>4, PickedSmaller
  <2>2. SumFunctionOnSet(Rows(U), U) = Rows(U)[p] + SumFunctionOnSet(Rows(U), V)
    <3>1. IsFiniteSet(U) /\ U # {} /\ \A x \in U : Rows(U)[x] \in Nat
      <4> HIDE DEF Rows
      <4> QED  BY <1>0, <1>2, <1>4
    <3> HIDE DEF Rows
    <3> QED  BY <3>1, SumSteps
  <2>3. SumFunctionOnSet(Rows(U), V) = SumFunctionOnSet(Rows(V), V)
    <3>1. \A x \in V : Rows(V)[x] \in Nat /\ Rows(U)[x] = Rows(V)[x]
      <4> HIDE DEF Rows, Row
      <4> QED  BY <1>2, <2>1
    <3> HIDE DEF Rows, V
    <3>2. QED  BY <1>0, <2>1, <3>1, SumSame
  <2>4. \A y \in T : Cols(U)[y] = Row(p)[y] + Cols(V)[y]
    <3> TAKE y \in T
    <3>1. SumFunctionOnSet(Col(y, U), U) = Col(y, U)[p] + SumFunctionOnSet(Col(y, U), V)
      <4>1. IsFiniteSet(U) /\ U # {} /\ \A x \in U : Col(y, U)[x] \in Nat  BY <1>0, <1>4
      <4> HIDE DEF Col
      <4> QED  BY <4>1, SumSteps
    <3>2. SumFunctionOnSet(Col(y, U), V) = SumFunctionOnSet(Col(y, V), V)
      <4>1. \A x \in V : Col(y, V)[x] \in Nat /\ Col(y, U)[x] = Col(y, V)[x]  BY <2>1
      <4> HIDE DEF Col, V
      <4>2. QED  BY <1>0, <2>1, <4>1, SumSame
    <3>3. Col(y, U)[p] = Row(p)[y]  BY <2>1
    <3> HIDE DEF Col, Row, p, V
    <3>4. QED  BY <1>2, <2>1, <3>1, <3>2, <3>3
  <2>5. SumFunctionOnSet(Cols(U), T) = SumFunctionOnSet(Row(p), T) + SumFunctionOnSet(Cols(V), T)
    <3>1. \A y \in T : Row(p)[y] \in Nat /\ Cols(V)[y] \in Nat
      <4> HIDE DEF Row, Cols, p, V
      <4> QED  BY <1>0, <1>2, <2>1
    <3> HIDE DEF Cols, Row, p, V
    <3>2. QED  BY <2>4, <3>1, SumAdds
  <2>6. Rows(U)[p] = SumFunctionOnSet(Row(p), T)  BY <2>1
  <2>7. SumFunctionOnSet(Rows(V), V) = SumFunctionOnSet(Cols(V), T)
    <3> HIDE DEF Rows, Cols
    <3> QED  BY <1>4
  <2>8. SumFunctionOnSet(Rows(U), U) = SumFunctionOnSet(Cols(U), T)
    <3> HIDE DEF Rows, Cols, Row, p, V
    <3> QED  BY <2>2, <2>3, <2>5, <2>6, <2>7
  <2> HIDE DEF Rows, Cols
  <2>9. QED  BY <2>8
<1>5. S \in Q
  <2> HIDE DEF Q
  <2>1. Q \in SUBSET SUBSET S  BY DEF Q
  <2> QED  BY <1>3, <1>4, <2>1, PickedInduction
<1>6. Rows(S) = RowSums(f, S, T) /\ Cols(S) = ColSums(f, S, T)  BY DEF RowSums, ColSums
<1> HIDE DEF Rows, Cols
<1>7. QED  BY <1>5, <1>6

(***************************************************************************)
(* How often a sequence has an element of a set                            *)
(***************************************************************************)
Hits(s, W) == {i \in DOMAIN s : s[i] \in W}

LEMMA HitsBounded == ASSUME NEW T, NEW s \in Seq(T), NEW W PROVE
    IsFiniteSet(Hits(s, W)) /\ Cardinality(Hits(s, W)) \in 0 .. Len(s)
<1>1. DOMAIN s = 1 .. Len(s) /\ Len(s) \in Nat  OBVIOUS
<1>2. IsFiniteSet(1 .. Len(s)) /\ Cardinality(1 .. Len(s)) = Len(s)  BY <1>1, FS_Interval
<1>3. Hits(s, W) \in SUBSET (1 .. Len(s))  BY <1>1 DEF Hits
<1>4. QED  BY <1>1, <1>2, <1>3, FS_Subset, FS_CardinalityType

LEMMA HitsOfAll == ASSUME NEW T, NEW s \in Seq(T) PROVE Cardinality(Hits(s, T)) = Len(s)
<1>1. Hits(s, T) = 1 .. Len(s) /\ Len(s) \in Nat  BY DEF Hits
<1>2. QED  BY <1>1, FS_Interval

\* One element more is a hit more or none.
LEMMA HitsOfMore == ASSUME NEW T, NEW s \in Seq(T), NEW x \in T, NEW W PROVE
    /\ s \o <<x>> \in Seq(T)
    /\ Cardinality(Hits(s \o <<x>>, W)) = Cardinality(Hits(s, W)) + IF x \in W THEN 1 ELSE 0
<1> DEFINE n == Len(s) + 1
<1>1. /\ s \o <<x>> \in Seq(T) /\ DOMAIN (s \o <<x>>) = 1 .. n /\ DOMAIN s = 1 .. Len(s) /\ Len(s) \in Nat
      /\ (s \o <<x>>)[n] = x /\ \A i \in 1 .. Len(s) : (s \o <<x>>)[i] = s[i]
    OBVIOUS
<1>2. 1 .. n = 1 .. Len(s) \cup {n} /\ n \notin 1 .. Len(s)  BY <1>1
<1>3. IsFiniteSet(Hits(s, W)) /\ Cardinality(Hits(s, W)) \in Nat /\ n \notin Hits(s, W)
  <2>1. n \notin Hits(s, W)  BY <1>1, <1>2 DEF Hits
  <2>2. QED  BY <2>1, HitsBounded
<1>4. CASE x \in W
  <2>1. Hits(s \o <<x>>, W) = Hits(s, W) \cup {n}
    <3> DEFINE r == s \o <<x>>
    <3>0. /\ DOMAIN r = 1 .. Len(s) \cup {n} /\ r[n] = x /\ \A i \in 1 .. Len(s) : r[i] = s[i]
          /\ DOMAIN s = 1 .. Len(s)
        BY <1>1, <1>2
    <3> HIDE DEF r, n
    <3>1. Hits(r, W) = Hits(s, W) \cup {n}  BY <1>4, <3>0 DEF Hits
    <3>2. QED  BY <3>1 DEF r
  <2>2. Cardinality(Hits(s, W) \cup {n}) = Cardinality(Hits(s, W)) + 1
    <3> HIDE DEF n
    <3> QED  BY <1>3, FS_AddElement
  <2>3. Cardinality(Hits(s \o <<x>>, W)) = Cardinality(Hits(s, W) \cup {n})  BY <2>1, Zenon
  <2>4. QED  BY <1>1, <1>4, <2>2, <2>3
<1>5. CASE x \notin W
  <2>1. Hits(s \o <<x>>, W) = Hits(s, W)
    <3> DEFINE r == s \o <<x>>
    <3>0. /\ DOMAIN r = 1 .. Len(s) \cup {n} /\ r[n] = x /\ \A i \in 1 .. Len(s) : r[i] = s[i]
          /\ DOMAIN s = 1 .. Len(s)
        BY <1>1, <1>2
    <3> HIDE DEF r, n
    <3>1. Hits(r, W) = Hits(s, W)  BY <1>5, <3>0 DEF Hits
    <3>2. QED  BY <3>1 DEF r
  <2>2. Cardinality(Hits(s \o <<x>>, W)) = Cardinality(Hits(s, W))  BY <2>1, Zenon
  <2>3. QED  BY <1>1, <1>3, <1>5, <2>2
<1>6. QED  BY <1>4, <1>5

\* Of what a filter is told to keep it keeps every occurrence.
LEMMA KeptCounts == ASSUME NEW T, NEW s \in Seq(T), NEW S, NEW W PROVE
    Cardinality(Hits(Kept(s, S), W)) = Cardinality(Hits(s, S \cap W))
<1> DEFINE ss    == [k \in DOMAIN s |-> IF s[k] \in S THEN <<s[k]>> ELSE <<>>]
           In(k) == {i \in 1 .. k : s[i] \in S \cap W}
<1>0. DOMAIN s = 1 .. Len(s) /\ Len(s) \in Nat /\ \A k \in 1 .. Len(s) : s[k] \in T  OBVIOUS
<1>1. Len(ss) = Len(s) /\ \A k \in 1 .. Len(s) : ss[k] = IF s[k] \in S THEN <<s[k]>> ELSE <<>>  BY <1>0
<1>2. Kept(s, S) = FlattenSeq(ss)  BY DEF Kept
<1>3. In(Len(s)) = Hits(s, S \cap W)  BY <1>0 DEF Hits
<1> HIDE DEF ss
<1>4. CASE Len(s) = 0
  <2>1. Kept(s, S) = ss /\ DOMAIN ss = {} /\ Hits(s, S \cap W) = {}
      BY <1>0, <1>1, <1>2, <1>4 DEF FlattenSeq, ss, Hits
  <2>2. Hits(Kept(s, S), W) = {}  BY <2>1 DEF Hits
  <2>3. QED  BY <2>1, <2>2
<1>5. CASE Len(s) # 0
  <2>1. PICK f : Flattens(ss, Len(s), f) /\ FlattenSeq(ss) = f[Len(s)]
    <3>1. Len(ss) \in Nat \ {0}  BY <1>0, <1>1, <1>5
    <3>2. QED  BY <1>1, <3>1, FlattenUnfolds
  <2>2. \A k \in 1 .. Len(s) : f[k] = IF k = 1 THEN ss[k] ELSE f[k - 1] \o ss[k]
      BY <2>1 DEF Flattens
  <2> DEFINE D == {k \in 1 .. Len(s) : f[k] \in Seq(T) /\ Cardinality(Hits(f[k], W)) = Cardinality(In(k))}
             Before(k) == IF k = 1 THEN <<>> ELSE f[k - 1]
  <2>3. \A k \in 1 .. Len(s) : IsFiniteSet(In(k)) /\ Cardinality(In(k)) \in Nat
    <3> TAKE k \in 1 .. Len(s)
    <3>1. In(k) \in SUBSET (1 .. k) /\ IsFiniteSet(1 .. k)  BY FS_Interval
    <3> HIDE DEF In
    <3>2. QED  BY <3>1, FS_Subset, FS_CardinalityType
  <2>4. ASSUME NEW k \in 1 .. Len(s), k = 1 \/ k - 1 \in D PROVE k \in D
    <3> DEFINE b == Before(k)
               I == In(k - 1)
    <3>1. b \in Seq(T) /\ Cardinality(Hits(b, W)) = Cardinality(I) /\ IsFiniteSet(I) /\ Cardinality(I) \in Nat
      <4>1. CASE k = 1
        <5>1. b = <<>> /\ I = {} /\ <<>> \in Seq(T)  BY <4>1
        <5>2. Hits(b, W) = {}
          <6> HIDE DEF b
          <6> QED  BY <5>1 DEF Hits
        <5> HIDE DEF b, I
        <5>3. IsFiniteSet(I)  BY <5>1, FS_EmptySet, Zenon
        <5>4. Cardinality(I) = 0 /\ Cardinality(Hits(b, W)) = 0  BY <5>1, <5>2, FS_EmptySet, Zenon
        <5>5. QED  BY <5>1, <5>3, <5>4
      <4>2. CASE k # 1
        <5>1. k - 1 \in 1 .. Len(s) /\ k - 1 \in D /\ b = f[k - 1]  BY <2>4, <4>2
        <5> HIDE DEF In
        <5>2. QED  BY <2>3, <5>1
      <4>3. QED  BY <4>1, <4>2
    <3>2. f[k] = b \o ss[k]
      <4>1. CASE k = 1
        <5>1. f[k] = ss[k] /\ b = <<>>  BY <2>2, <4>1
        <5>2. ss[k] \in Seq(T)
          <6>1. ss[k] = (IF s[k] \in S THEN <<s[k]>> ELSE <<>>) /\ s[k] \in T  BY <1>0, <1>1
          <6>2. <<s[k]>> \in Seq(T) /\ <<>> \in Seq(T)  BY <6>1
          <6>3. QED  BY <6>1, <6>2
        <5> HIDE DEF b
        <5>3. QED  BY <5>1, <5>2
      <4>2. CASE k # 1  BY <2>2, <4>2
      <4>3. QED  BY <4>1, <4>2
    <3>3. s[k] \in T /\ k \notin I /\ In(k) = IF s[k] \in S \cap W THEN I \cup {k} ELSE I  BY <1>0
    <3>4. Cardinality(In(k)) = Cardinality(I) + IF s[k] \in S \cap W THEN 1 ELSE 0
      <4> HIDE DEF I, In
      <4>1. Cardinality(I \cup {k}) = Cardinality(I) + 1  BY <3>1, <3>3, FS_AddElement
      <4>2. QED  BY <3>1, <3>3, <4>1
    <3> HIDE DEF b, I, In
    <3>5. CASE s[k] \in S
      <4>1. ss[k] = <<s[k]>>  BY <1>1, <3>5
      <4>2. /\ b \o <<s[k]>> \in Seq(T)
            /\ Cardinality(Hits(b \o <<s[k]>>, W)) = Cardinality(Hits(b, W)) + IF s[k] \in W THEN 1 ELSE 0
          BY <3>1, <3>3, HitsOfMore
      <4>3. f[k] = b \o <<s[k]>>  BY <3>2, <4>1
      <4>4. /\ f[k] \in Seq(T)
            /\ Cardinality(Hits(f[k], W)) = Cardinality(Hits(b, W)) + IF s[k] \in W THEN 1 ELSE 0
          BY <4>2, <4>3
      <4>5. QED  BY <3>1, <3>4, <3>5, <4>4
    <3>6. CASE s[k] \notin S
      <4>1. ss[k] = <<>>  BY <1>1, <3>6
      <4>2. f[k] = b  BY <3>1, <3>2, <4>1
      <4>3. QED  BY <3>1, <3>4, <3>6, <4>2
    <3>7. QED  BY <3>5, <3>6
  <2>5. D = 1 .. Len(s)
    <3>1. D \in SUBSET (1 .. Len(s))  OBVIOUS
    <3> HIDE DEF D
    <3> QED  BY <1>0, <2>4, <3>1, UpTo
  <2>6. Len(s) \in 1 .. Len(s)  BY <1>0, <1>5
  <2> HIDE DEF In
  <2>7. QED  BY <1>2, <1>3, <2>1, <2>5, <2>6
<1>6. QED  BY <1>4, <1>5

LEMMA KeptLength == ASSUME NEW T, NEW s \in Seq(T), NEW S PROVE
    Len(Kept(s, S)) = Cardinality(Hits(s, S)) /\ Len(Kept(s, S)) \in 0 .. Len(s)
<1>1. Kept(s, S) \in Seq(T)  BY KeptHolds
<1>2. Len(Kept(s, S)) = Cardinality(Hits(s, S \cap T))  BY <1>1, HitsOfAll, KeptCounts
<1>3. Hits(s, S \cap T) = Hits(s, S)  BY DEF Hits
<1>4. QED  BY <1>2, <1>3, HitsBounded

\* The end of a sequence has no more hits than the whole, and nothing else in it.
LEMMA HitsOfTail == ASSUME NEW T, NEW s \in Seq(T), NEW a \in 1 .. Len(s) + 1 PROVE
    /\ SubSeq(s, a, Len(s)) \in Seq(T) /\ Len(SubSeq(s, a, Len(s))) = Len(s) - a + 1
    /\ \A i \in DOMAIN SubSeq(s, a, Len(s)) : \E j \in DOMAIN s : SubSeq(s, a, Len(s))[i] = s[j]
    /\ \A W : Cardinality(Hits(SubSeq(s, a, Len(s)), W)) <= Cardinality(Hits(s, W))
<1> DEFINE r == SubSeq(s, a, Len(s))
<1>1. Len(s) \in Nat /\ DOMAIN s = 1 .. Len(s) /\ a \in Nat  OBVIOUS
<1>2. /\ r \in Seq(T) /\ Len(r) = Len(s) - a + 1 /\ DOMAIN r = 1 .. Len(s) - a + 1
      /\ \A i \in 1 .. Len(s) - a + 1 : r[i] = s[i + a - 1]
    BY <1>1
<1> HIDE DEF r
<1>3. ASSUME NEW i \in DOMAIN r PROVE i \in Nat /\ i + a - 1 \in DOMAIN s /\ r[i] = s[i + a - 1]
  <2>1. i \in 1 .. Len(s) - a + 1  BY <1>2
  <2>2. i \in Nat /\ i + a - 1 \in 1 .. Len(s)  BY <1>1, <2>1
  <2>3. QED  BY <1>1, <1>2, <2>1, <2>2
<1>4. ASSUME NEW W PROVE Cardinality(Hits(r, W)) <= Cardinality(Hits(s, W))
  <2> DEFINE f == [i \in Hits(r, W) |-> i + a - 1]
  <2>1. \A i \in Hits(r, W) : i \in Nat /\ i + a - 1 \in Hits(s, W)  BY <1>2, <1>3 DEF Hits
  <2>2. f \in [Hits(r, W) -> Hits(s, W)]  BY <2>1
  <2>3. \A i, j \in Hits(r, W) : f[i] = f[j] => i = j  BY <1>1, <2>1
  <2> HIDE DEF f
  <2>4. f \in Injection(Hits(r, W), Hits(s, W))  BY <2>2, <2>3 DEF Injection, IsInjective
  <2>5. IsFiniteSet(Hits(s, W))  BY HitsBounded
  <2>6. QED  BY <2>4, <2>5, FS_Injection
<1>5. QED  BY <1>2, <1>3, <1>4 DEF r

\* The parts of a finite set add up to it.
LEMMA PartsAddUp == ASSUME NEW I, IsFiniteSet(I), NEW D, IsFiniteSet(D), NEW h \in [I -> D]
    PROVE  Cardinality(I) = SumFunctionOnSet([q \in D |-> Cardinality({i \in I : h[i] = q})], D)
<1> DEFINE f      == [i \in I |-> [q \in D |-> IF h[i] = q THEN 1 ELSE 0]]
           Row(i) == [q \in D |-> f[i][q]]
           Col(q) == [i \in I |-> f[i][q]]
           rows   == [i \in I |-> SumFunctionOnSet(Row(i), D)]
           cols   == [q \in D |-> SumFunctionOnSet(Col(q), I)]
<1>1. SumFunctionOnSet(rows, I) = SumFunctionOnSet(cols, D)
  <2>1. \A i \in I : \A q \in D : f[i][q] \in Nat  OBVIOUS
  <2>2. rows = RowSums(f, I, D) /\ cols = ColSums(f, I, D)  BY DEF RowSums, ColSums
  <2> HIDE DEF f, rows, cols
  <2>3. QED  BY <2>1, <2>2, SumSwaps
<1>2. \A i \in I : SumFunctionOnSet(Row(i), D) = 1
  <2> TAKE i \in I
  <2>1. h[i] \in D /\ \A q \in D : Row(i)[q] = IF q = h[i] THEN 1 ELSE 0  OBVIOUS
  <2> HIDE DEF Row
  <2>2. 1 \in Nat  OBVIOUS
  <2>3. QED  BY <2>1, <2>2, SumOfOne
<1>3. \A q \in D : SumFunctionOnSet(Col(q), I) = Cardinality({i \in I : h[i] = q})
  <2> TAKE q \in D
  <2>1. Col(q) \in [I -> {0, 1}] /\ {i \in I : Col(q)[i] = 1} = {i \in I : h[i] = q}  OBVIOUS
  <2> HIDE DEF Col
  <2>2. SumFunctionOnSet(Col(q), I) = Cardinality({i \in I : Col(q)[i] = 1})  BY <2>1, SumCounts
  <2>3. QED  BY <2>1, <2>2, Zenon
<1>4. SumFunctionOnSet(rows, I) = Cardinality(I)
  <2>1. rows \in [I -> {0, 1}] /\ {i \in I : rows[i] = 1} = I
    <3> HIDE DEF Row
    <3> QED  BY <1>2
  <2> HIDE DEF rows
  <2>2. SumFunctionOnSet(rows, I) = Cardinality({i \in I : rows[i] = 1})  BY <2>1, SumCounts
  <2>3. QED  BY <2>1, <2>2, Zenon
<1>5. cols = [q \in D |-> Cardinality({i \in I : h[i] = q})]
  <2> HIDE DEF Col
  <2> QED  BY <1>3
<1> HIDE DEF cols, rows
<1>6. QED  BY <1>1, <1>4, <1>5
==============================================================================
