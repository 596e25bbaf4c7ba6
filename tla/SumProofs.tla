----------------------------- MODULE SumProofs -----------------------------
(***************************************************************************)
(* What the specifications need to know of sums over finite sets, which    *)
(* they write with MapThenSumSet: a sum does not depend on the order in    *)
(* which it is added up, so that it may be taken apart at any element.     *)
(*                                                                         *)
(* The library's induction theorems speak of a predicate; Induction below  *)
(* speaks of a set, so that a first-order prover can apply it.             *)
(***************************************************************************)
EXTENDS Integers, FiniteSets, FiniteSetsExt, FiniteSetTheorems, TLAPS

\* If n were missing from T, adding one would map the elements of T up to n into
\* themselves without hitting 0: more pigeons than holes.
LEMMA Induction ==
  ASSUME NEW T \in SUBSET Nat, 0 \in T, \A n \in T : n + 1 \in T
  PROVE  T = Nat
<1> SUFFICES ASSUME NEW n \in Nat, n \notin T PROVE FALSE OBVIOUS
<1> DEFINE A == {m \in T : m <= n}
           B == A \ {0}
           f == [m \in A |-> m + 1]
<1>1. IsFiniteSet(A) /\ 0 \in A BY FS_BoundedSetOfNaturals
<1>2. IsFiniteSet(B) /\ Cardinality(B) = Cardinality(A) - 1 /\ Cardinality(A) \in Nat
  BY <1>1, FS_RemoveElement, FS_CardinalityType
<1>3. ASSUME NEW m \in A PROVE m + 1 \in B
  <2>1. m \in Nat /\ m # n /\ m <= n /\ m + 1 \in T OBVIOUS
  <2> QED BY <2>1
<1>4. f \in [A -> B] BY <1>3
<1>5. \E x, y \in A : x # y /\ f[x] = f[y]
  <2>1. Cardinality(B) < Cardinality(A) BY <1>2
  <2> HIDE DEF A, B, f
  <2> QED BY <1>1, <1>2, <1>4, <2>1, FS_PigeonHole
<1>6. \A x \in A : x \in Nat OBVIOUS
<1> QED BY <1>5, <1>6

\* Induction on the size of a finite set: T holds the subsets of S that are settled.
LEMMA SetInduction ==
  ASSUME NEW S, IsFiniteSet(S), NEW T \in SUBSET (SUBSET S),
         \A s \in SUBSET S : (\A x \in s : s \ {x} \in T) => s \in T
  PROVE  T = SUBSET S
<1> DEFINE N == {n \in Nat : \A s \in SUBSET S : Cardinality(s) <= n => s \in T}
<1>0. \A s \in SUBSET S : IsFiniteSet(s) /\ Cardinality(s) \in Nat
  BY FS_Subset, FS_CardinalityType
<1>1. 0 \in N
  <2> SUFFICES ASSUME NEW s \in SUBSET S, Cardinality(s) <= 0 PROVE s \in T OBVIOUS
  <2>1. Cardinality(s) = 0 BY <1>0
  <2>2. s = {} BY <1>0, <2>1, FS_EmptySet
  <2> QED BY <2>2
<1>2. ASSUME NEW n \in N PROVE n + 1 \in N
  <2>1. n \in Nat OBVIOUS
  <2> SUFFICES ASSUME NEW s \in SUBSET S, Cardinality(s) <= n + 1 PROVE s \in T BY <2>1
  <2>2. ASSUME NEW x \in s PROVE s \ {x} \in T
    <3>1. Cardinality(s \ {x}) = Cardinality(s) - 1 BY <1>0, FS_RemoveElement
    <3>2. Cardinality(s \ {x}) <= n BY <1>0, <2>1, <3>1
    <3> QED BY <3>2
  <2> QED BY <2>2
<1>3. N = Nat BY <1>1, <1>2, Induction
<1>4. ASSUME NEW s \in SUBSET S PROVE s \in T
  BY <1>0, <1>3
<1> QED BY <1>4

----------------------------------------------------------------------------
\* MapThenSumSet as a sum of a function's values, and the fold it stands for.
Total(f, S) == MapThenSumSet(LAMBDA x : f[x], S)

First(s) == CHOOSE x \in s : TRUE

IsFold(g, f, S) ==
  g = [s \in SUBSET S |-> IF s = {} THEN 0 ELSE f[First(s)] + g[s \ {First(s)}]]

Ints(f, S) == \A x \in S : f[x] \in Int

LEMMA FirstIn == \A s : s # {} => First(s) \in s
BY DEF First

\* Such a fold exists: the ones that are right up to a size, one size after another.
LEMMA FoldExists ==
  ASSUME NEW S, IsFiniteSet(S), NEW f
  PROVE  \E g : IsFold(g, f, S)
<1> DEFINE Next(g) == [s \in SUBSET S |-> IF s = {} THEN 0 ELSE f[First(s)] + g[s \ {First(s)}]]
           Right(g, n) == /\ g = [s \in SUBSET S |-> g[s]]
                          /\ \A s \in SUBSET S : Cardinality(s) <= n => g[s] = Next(g)[s]
           N == {n \in Nat : \E g : Right(g, n)}
<1>0. \A s \in SUBSET S : IsFiniteSet(s) /\ Cardinality(s) \in Nat
  BY FS_Subset, FS_CardinalityType
<1>1. 0 \in N
  <2> DEFINE g == [s \in SUBSET S |-> 0]
  <2>1. ASSUME NEW s \in SUBSET S, Cardinality(s) <= 0 PROVE g[s] = Next(g)[s]
    <3>1. s = {} BY <1>0, <2>1, FS_EmptySet
    <3> QED BY <3>1
  <2>2. g = [s \in SUBSET S |-> g[s]] OBVIOUS
  <2> QED BY <2>1, <2>2
<1>2. ASSUME NEW n \in N PROVE n + 1 \in N
  <2>1. n \in Nat OBVIOUS
  <2>2. PICK g : Right(g, n) OBVIOUS
  <2> DEFINE h == Next(g)
  <2>3. ASSUME NEW s \in SUBSET S, Cardinality(s) <= n PROVE h[s] = g[s]
    BY <2>2, <2>3
  <2>4. ASSUME NEW s \in SUBSET S, Cardinality(s) <= n + 1 PROVE h[s] = Next(h)[s]
    <3>1. CASE s = {} BY <3>1
    <3>2. CASE s # {}
      <4>1. First(s) \in s BY <3>2, FirstIn
      <4>2. Cardinality(s \ {First(s)}) = Cardinality(s) - 1 BY <1>0, <4>1, FS_RemoveElement
      <4>3. s \ {First(s)} \in SUBSET S /\ Cardinality(s \ {First(s)}) <= n
        BY <1>0, <2>1, <2>4, <4>2
      <4>4. h[s \ {First(s)}] = g[s \ {First(s)}] BY <2>3, <4>3
      <4> QED BY <3>2, <4>4
    <3> QED BY <3>1, <3>2
  <2>5. h = [s \in SUBSET S |-> h[s]] OBVIOUS
  <2> HIDE DEF h
  <2>6. Right(h, n + 1) BY <2>4, <2>5
  <2>7. n + 1 \in Nat /\ \E u : Right(u, n + 1)
    <3> HIDE DEF Right
    <3> QED BY <2>1, <2>6
  <2> QED BY <2>7
<1>3. N = Nat
  <2> HIDE DEF Right
  <2> QED BY <1>1, <1>2, Induction
<1>4. PICK g : Right(g, Cardinality(S)) BY <1>0, <1>3
<1>5. ASSUME NEW s \in SUBSET S PROVE g[s] = Next(g)[s]
  <2>1. Cardinality(s) <= Cardinality(S) BY FS_Subset
  <2> QED BY <1>4, <2>1
<1>6. g = Next(g) BY <1>4, <1>5
<1> QED BY <1>6 DEF IsFold

LEMMA FoldInt ==
  ASSUME NEW S, IsFiniteSet(S), NEW f, NEW g, IsFold(g, f, S), NEW s \in SUBSET S, Ints(f, s)
  PROVE  g[s] \in Int
<1> DEFINE T == {t \in SUBSET s : g[t] \in Int}
<1>1. IsFiniteSet(s) BY FS_Subset
<1>2. ASSUME NEW t \in SUBSET s, \A x \in t : t \ {x} \in T PROVE t \in T
  <2>1. CASE t = {} BY <2>1 DEF IsFold
  <2>2. CASE t # {}
    <3>1. First(t) \in t BY <2>2, FirstIn
    <3>2. g[t] = f[First(t)] + g[t \ {First(t)}] BY <2>2 DEF IsFold
    <3>3. f[First(t)] \in Int /\ g[t \ {First(t)}] \in Int BY <1>2, <3>1 DEF Ints
    <3> QED BY <3>2, <3>3
  <2> QED BY <2>1, <2>2
<1>3. T \in SUBSET (SUBSET s) OBVIOUS
<1>4. T = SUBSET s
  <2> HIDE DEF T
  <2> QED BY <1>1, <1>2, <1>3, SetInduction
<1> QED BY <1>4

\* Two folds of functions that agree on s agree at s.
LEMMA FoldSame ==
  ASSUME NEW S, IsFiniteSet(S), NEW f, NEW g, IsFold(g, f, S),
         NEW U, NEW e, NEW h, IsFold(h, e, U),
         NEW s \in SUBSET (S \cap U), \A x \in s : f[x] = e[x]
  PROVE  g[s] = h[s]
<1> DEFINE T == {t \in SUBSET s : g[t] = h[t]}
<1>1. IsFiniteSet(s) BY FS_Subset
<1>2. ASSUME NEW t \in SUBSET s, \A x \in t : t \ {x} \in T PROVE t \in T
  <2>1. CASE t = {} BY <2>1 DEF IsFold
  <2>2. CASE t # {}
    <3>1. First(t) \in t BY <2>2, FirstIn
    <3>2. g[t] = f[First(t)] + g[t \ {First(t)}] BY <2>2 DEF IsFold
    <3>3. h[t] = e[First(t)] + h[t \ {First(t)}] BY <2>2 DEF IsFold
    <3>4. f[First(t)] = e[First(t)] /\ g[t \ {First(t)}] = h[t \ {First(t)}] BY <1>2, <3>1
    <3> QED BY <3>2, <3>3, <3>4
  <2> QED BY <2>1, <2>2
<1>3. T \in SUBSET (SUBSET s) OBVIOUS
<1>4. T = SUBSET s
  <2> HIDE DEF T
  <2> QED BY <1>1, <1>2, <1>3, SetInduction
<1> QED BY <1>4

\* A fold may be taken apart at any element, not only at the one it picks first.
LEMMA FoldStep ==
  ASSUME NEW S, IsFiniteSet(S), NEW f, Ints(f, S), NEW g, IsFold(g, f, S)
  PROVE  \A s \in SUBSET S : \A x \in s : g[s] = f[x] + g[s \ {x}]
<1> DEFINE T == {t \in SUBSET S : \A x \in t : g[t] = f[x] + g[t \ {x}]}
<1>1. ASSUME NEW t \in SUBSET S, \A x \in t : t \ {x} \in T, NEW x \in t
      PROVE  g[t] = f[x] + g[t \ {x}]
  <2> DEFINE c == First(t)
  <2>1. c \in t /\ g[t] = f[c] + g[t \ {c}]
    BY FirstIn DEF IsFold
  <2>2. CASE x = c BY <2>1, <2>2
  <2>3. CASE x # c
    <3> HIDE DEF c
    <3> DEFINE r == (t \ {c}) \ {x}
    <3>1. x \in t \ {c} /\ c \in t \ {x} BY <2>1, <2>3
    <3>2. g[t \ {c}] = f[x] + g[r] BY <1>1, <2>1, <3>1
    <3>3. r = (t \ {x}) \ {c} OBVIOUS
    <3>4. g[t \ {x}] = f[c] + g[r] BY <1>1, <3>1, <3>3
    <3>5. r \in SUBSET S /\ Ints(f, r) BY DEF Ints
    <3>6. g[r] \in Int BY <3>5, FoldInt
    <3>7. f[x] \in Int /\ f[c] \in Int BY <2>1 DEF Ints
    <3> QED BY <2>1, <3>2, <3>4, <3>6, <3>7
  <2> QED BY <2>2, <2>3
<1>2. T \in SUBSET (SUBSET S) OBVIOUS
<1>3. T = SUBSET S
  <2>1. \A t \in SUBSET S : (\A x \in t : t \ {x} \in T) => t \in T BY <1>1
  <2> HIDE DEF T
  <2> QED BY <1>2, <2>1, SetInduction
<1> QED BY <1>3

LEMMA TotalFold ==
  ASSUME NEW S, IsFiniteSet(S), NEW f
  PROVE  \E g : IsFold(g, f, S) /\ Total(f, S) = g[S]
<1> DEFINE g == CHOOSE g : IsFold(g, f, S)
<1>1. IsFold(g, f, S) BY FoldExists
<1>2. Total(f, S) = (CHOOSE h : h = [s \in SUBSET S |-> IF s = {} THEN 0
                                     ELSE f[First(s)] + h[s \ {First(s)}]])[S]
  BY DEF Total, MapThenSumSet, MapThenFoldSet, First
<1>3. Total(f, S) = g[S] BY <1>2 DEF IsFold
<1> QED BY <1>1, <1>3

----------------------------------------------------------------------------
\* The laws of sums.

LEMMA TotalEmpty == \A f : Total(f, {}) = 0
<1> TAKE f
<1>1. PICK g : IsFold(g, f, {}) /\ Total(f, {}) = g[{}] BY FS_EmptySet, TotalFold
<1> QED BY <1>1 DEF IsFold

LEMMA TotalInt ==
  ASSUME NEW S, IsFiniteSet(S), NEW f, Ints(f, S)
  PROVE  Total(f, S) \in Int
<1>1. PICK g : IsFold(g, f, S) /\ Total(f, S) = g[S] BY TotalFold
<1> QED BY <1>1, FoldInt

LEMMA TotalSame ==
  ASSUME NEW S, IsFiniteSet(S), NEW f, NEW e, \A x \in S : f[x] = e[x]
  PROVE  Total(f, S) = Total(e, S)
<1>1. PICK g : IsFold(g, f, S) /\ Total(f, S) = g[S] BY TotalFold
<1>2. PICK h : IsFold(h, e, S) /\ Total(e, S) = h[S] BY TotalFold
<1>3. g[S] = h[S] BY <1>1, <1>2, FoldSame
<1> QED BY <1>1, <1>2, <1>3

LEMMA TotalStep ==
  ASSUME NEW S, IsFiniteSet(S), NEW f, Ints(f, S), NEW x \in S
  PROVE  Total(f, S) = f[x] + Total(f, S \ {x})
<1>1. PICK g : IsFold(g, f, S) /\ Total(f, S) = g[S] BY TotalFold
<1>2. IsFiniteSet(S \ {x}) BY FS_RemoveElement
<1>3. PICK h : IsFold(h, f, S \ {x}) /\ Total(f, S \ {x}) = h[S \ {x}] BY <1>2, TotalFold
<1>4. g[S \ {x}] = h[S \ {x}] BY <1>1, <1>2, <1>3, FoldSame
<1>5. g[S] = f[x] + g[S \ {x}] BY <1>1, FoldStep
<1> QED BY <1>1, <1>3, <1>4, <1>5

\* One value changes, and the sum with it.
LEMMA TotalChange ==
  ASSUME NEW S, IsFiniteSet(S), NEW f, Ints(f, S), NEW x \in S, NEW v \in Int,
         NEW e, e[x] = v, \A y \in S \ {x} : e[y] = f[y]
  PROVE  /\ Ints(e, S)
         /\ Total(e, S) = Total(f, S) - f[x] + v
         /\ Total(f, S) \in Int
<1>1. Ints(e, S) BY DEF Ints
<1>2. IsFiniteSet(S \ {x}) BY FS_RemoveElement
<1>3. Total(e, S \ {x}) = Total(f, S \ {x}) BY <1>2, TotalSame
<1>4. Total(f, S) = f[x] + Total(f, S \ {x}) BY TotalStep
<1>5. Total(e, S) = e[x] + Total(e, S \ {x}) BY <1>1, TotalStep
<1>6. Ints(f, S \ {x}) /\ f[x] \in Int BY DEF Ints
<1>7. Total(f, S \ {x}) \in Int BY <1>2, <1>6, TotalInt
<1> QED BY <1>1, <1>3, <1>4, <1>5, <1>6, <1>7

\* Splitting off the elements that count nothing.
LEMMA TotalZero ==
  ASSUME NEW S, IsFiniteSet(S), NEW f, \A x \in S : f[x] = 0
  PROVE  Total(f, S) = 0
<1> DEFINE T == {t \in SUBSET S : Total(f, t) = 0}
<1>1. ASSUME NEW t \in SUBSET S, \A x \in t : t \ {x} \in T PROVE t \in T
  <2>1. CASE t = {} BY <2>1, TotalEmpty
  <2>2. CASE t # {}
    <3>1. PICK x \in t : TRUE BY <2>2
    <3>2. IsFiniteSet(t) BY FS_Subset
    <3>3. Ints(f, t) BY DEF Ints
    <3>4. Total(f, t) = f[x] + Total(f, t \ {x}) BY <3>2, <3>3, TotalStep
    <3>5. f[x] = 0 /\ Total(f, t \ {x}) = 0 BY <1>1
    <3> QED BY <3>4, <3>5
  <2> QED BY <2>1, <2>2
<1>2. T \in SUBSET (SUBSET S) OBVIOUS
<1>3. T = SUBSET S
  <2> HIDE DEF T
  <2> QED BY <1>1, <1>2, SetInduction
<1> QED BY <1>3

\* Two sums added up term by term.
LEMMA TotalPlus ==
  ASSUME NEW S, IsFiniteSet(S), NEW f, NEW e, NEW d, Ints(f, S), Ints(e, S),
         \A x \in S : d[x] = f[x] + e[x]
  PROVE  Total(d, S) = Total(f, S) + Total(e, S)
<1> DEFINE T == {t \in SUBSET S : Total(d, t) = Total(f, t) + Total(e, t)}
<1>1. ASSUME NEW t \in SUBSET S, \A x \in t : t \ {x} \in T PROVE t \in T
  <2>1. CASE t = {} BY <2>1, TotalEmpty
  <2>2. CASE t # {}
    <3>1. PICK x \in t : TRUE BY <2>2
    <3>2. IsFiniteSet(t) /\ IsFiniteSet(t \ {x}) BY FS_Subset
    <3>3. Ints(f, t) /\ Ints(e, t) /\ Ints(d, t) BY DEF Ints
    <3>4. Ints(f, t \ {x}) /\ Ints(e, t \ {x}) /\ f[x] \in Int /\ e[x] \in Int BY <3>3 DEF Ints
    <3>5. Total(f, t \ {x}) \in Int /\ Total(e, t \ {x}) \in Int BY <3>2, <3>4, TotalInt
    <3>6. Total(f, t) = f[x] + Total(f, t \ {x}) BY <3>2, <3>3, TotalStep
    <3>7. Total(e, t) = e[x] + Total(e, t \ {x}) BY <3>2, <3>3, TotalStep
    <3>8. Total(d, t) = d[x] + Total(d, t \ {x}) BY <3>2, <3>3, TotalStep
    <3>9. Total(d, t \ {x}) = Total(f, t \ {x}) + Total(e, t \ {x}) BY <1>1
    <3>10. d[x] = f[x] + e[x] OBVIOUS
    <3> HIDE DEF T
    <3>11. Total(d, t) = Total(f, t) + Total(e, t)
      BY <3>4, <3>5, <3>6, <3>7, <3>8, <3>9, <3>10
    <3> QED BY <3>11 DEF T
  <2> QED BY <2>1, <2>2
<1>2. T \in SUBSET (SUBSET S) OBVIOUS
<1>3. T = SUBSET S
  <2> HIDE DEF T
  <2> QED BY <1>1, <1>2, SetInduction
<1> QED BY <1>3

\* A sum of naturals is one, and no term of it is greater.
LEMMA TotalNat ==
  ASSUME NEW S, IsFiniteSet(S), NEW f, \A x \in S : f[x] \in Nat
  PROVE  Total(f, S) \in Nat /\ \A x \in S : f[x] <= Total(f, S)
<1> DEFINE T == {t \in SUBSET S : Total(f, t) \in Nat}
<1>0. \A t \in SUBSET S : Ints(f, t) /\ IsFiniteSet(t) BY FS_Subset DEF Ints
<1>1. ASSUME NEW t \in SUBSET S, \A x \in t : t \ {x} \in T PROVE t \in T
  <2>1. CASE t = {} BY <2>1, TotalEmpty
  <2>2. CASE t # {}
    <3>1. PICK x \in t : TRUE BY <2>2
    <3>2. Total(f, t) = f[x] + Total(f, t \ {x}) BY <1>0, TotalStep
    <3>3. f[x] \in Nat /\ Total(f, t \ {x}) \in Nat BY <1>1
    <3>4. Total(f, t) \in Nat
      <4> HIDE DEF T
      <4> QED BY <3>2, <3>3
    <3> QED BY <3>4
  <2> QED BY <2>1, <2>2
<1>2. T \in SUBSET (SUBSET S) OBVIOUS
<1>3. T = SUBSET S
  <2> HIDE DEF T
  <2> QED BY <1>1, <1>2, SetInduction
<1>4. \A t \in SUBSET S : Total(f, t) \in Nat BY <1>3
<1>5. ASSUME NEW x \in S PROVE f[x] <= Total(f, S)
  <2>1. Total(f, S) = f[x] + Total(f, S \ {x}) BY <1>0, TotalStep
  <2>2. f[x] \in Nat /\ Total(f, S \ {x}) \in Nat BY <1>4
  <2> HIDE DEF T
  <2> QED BY <2>1, <2>2
<1> HIDE DEF T
<1> QED BY <1>4, <1>5

----------------------------------------------------------------------------
\* Products and quotients, which the solver does not compare by itself.

LEMMA DivBounds ==
  ASSUME NEW n \in Nat, NEW d \in Nat \ {0}
  PROVE  n \div d \in Nat /\ d * (n \div d) <= n /\ n < d * (n \div d) + d
BY SMT

LEMMA ProductRises ==
  ASSUME NEW a \in Nat, NEW b \in Nat, NEW c \in Nat, NEW d \in Nat, a <= b, c <= d
  PROVE  a * c \in Nat /\ b * d \in Nat /\ a * c <= b * d
<1>1. PICK x \in Nat : b = a + x
  <2>1. b - a \in Nat /\ b = a + (b - a) OBVIOUS
  <2> QED BY <2>1
<1>2. PICK y \in Nat : d = c + y
  <2>1. d - c \in Nat /\ d = c + (d - c) OBVIOUS
  <2> QED BY <2>1
<1>3. b * d = a * c + a * y + x * c + x * y BY <1>1, <1>2
<1>4. a * c \in Nat /\ a * y \in Nat /\ x * c \in Nat /\ x * y \in Nat OBVIOUS
<1> QED BY <1>3, <1>4

\* A product that is too large for a multiple of den is large because its factor is.
LEMMA FactorBelow ==
  ASSUME NEW x \in Nat, NEW y \in Nat, NEW den \in Nat \ {0}, den * x < den * y
  PROVE  x < y
<1>1. SUFFICES ASSUME y <= x PROVE FALSE OBVIOUS
<1>2. den * y <= den * x BY <1>1, ProductRises
<1> QED BY <1>2
=============================================================================
