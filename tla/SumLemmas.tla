------------------------------ MODULE SumLemmas ------------------------------
(***************************************************************************)
(* Lemmas about MapThenSumSet of the community modules, which the balances *)
(* of the stores and the usage of the accounts are made of.  It folds over *)
(* a recursive function on the subsets of a set; IsSum says which one, and *)
(* the lemmas follow from its equation by induction on finite sets.        *)
(***************************************************************************)
EXTENDS Integers, FiniteSets, FiniteSetsExt, FiniteSetTheorems, WellFoundedInduction, TLAPS

(* Induction over a set of numbers, and over the subsets of a finite set:  *)
(* what is to be shown is membership in a set.                             *)
LEMMA NatSetInduction ==
    ASSUME NEW N \in SUBSET Nat, 0 \in N, \A n \in N : n + 1 \in N
    PROVE  N = Nat
<1> DEFINE Bad == Nat \ N
           R == OpToRel(<, Nat)
<1>1. SUFFICES ASSUME Bad # {} PROVE FALSE
  OBVIOUS
<1>2. IsWellFoundedOn(R, Nat)
  BY NatLessThanWellFounded
<1>3. PICK x \in Bad : \A y \in Bad : ~(<<y, x>> \in R)
  <2> HIDE DEF R
  <2> QED BY <1>1, <1>2, WFMin
<1>4. \A y \in Bad : ~(y < x)
  BY <1>3 DEF OpToRel
<1>5. x # 0 /\ x - 1 \in Nat
  OBVIOUS
<1>6. x - 1 \in N
  BY <1>4, <1>5
<1> QED BY <1>6, <1>5

LEMMA FiniteSetInduction ==
    ASSUME NEW S, IsFiniteSet(S), NEW Good,
           \A T \in SUBSET S : (\A x \in T : T \ {x} \in Good) => T \in Good
    PROVE  \A T \in SUBSET S : T \in Good
<1> DEFINE N == {n \in Nat : \A T \in SUBSET S : Cardinality(T) <= n => T \in Good}
<1>1. \A T \in SUBSET S : IsFiniteSet(T) /\ Cardinality(T) \in Nat
  BY FS_Subset, FS_CardinalityType
<1>2. 0 \in N
  <2>1. SUFFICES ASSUME NEW T \in SUBSET S, Cardinality(T) <= 0 PROVE T \in Good
    OBVIOUS
  <2>2. T = {}
    BY <1>1, <2>1, FS_EmptySet
  <2> QED BY <2>2
<1>3. \A n \in N : n + 1 \in N
  <2>1. SUFFICES ASSUME NEW n \in N, NEW T \in SUBSET S, Cardinality(T) <= n + 1
                 PROVE  T \in Good
    OBVIOUS
  <2>2. ASSUME NEW x \in T PROVE T \ {x} \in Good
    <3>1. Cardinality(T \ {x}) = Cardinality(T) - 1
      BY <1>1, FS_RemoveElement
    <3>2. T \ {x} \in SUBSET S
      OBVIOUS
    <3> QED BY <1>1, <2>1, <3>1, <3>2
  <2> QED BY <2>2
<1>4. N = Nat
  <2> HIDE DEF N
  <2>1. N \in SUBSET Nat
    BY DEF N
  <2> QED BY <1>2, <1>3, <2>1, NatSetInduction
<1>5. SUFFICES ASSUME NEW T \in SUBSET S PROVE T \in Good
  OBVIOUS
<1>6. Cardinality(T) \in N
  BY <1>1, <1>4
<1> QED BY <1>1, <1>6

-----------------------------------------------------------------------------
(* The element that the fold takes out of a set, and the function that it  *)
(* computes: the sum of the values of f, for every subset of S.            *)
Some(s) == CHOOSE x \in s : TRUE

IsSum(it, f, S) ==
    it = [s \in SUBSET S |-> IF s = {} THEN 0 ELSE f[Some(s)] + it[s \ {Some(s)}]]

LEMMA SumExists ==
    ASSUME NEW S, IsFiniteSet(S), NEW f
    PROVE  \E it : IsSum(it, f, S)
<1> DEFINE Sub(n) == {s \in SUBSET S : Cardinality(s) <= n}
           Step(it, s) == IF s = {} THEN 0 ELSE f[Some(s)] + it[s \ {Some(s)}]
           N == {n \in Nat : \E it : it = [s \in Sub(n) |-> Step(it, s)]}
<1>1. \A T \in SUBSET S : IsFiniteSet(T) /\ Cardinality(T) \in Nat
  BY FS_Subset, FS_CardinalityType
<1>p. \A s \in SUBSET S : s # {} => Some(s) \in s
  BY DEF Some
<1>q. \A s \in SUBSET S : s # {} => /\ s \ {Some(s)} \in SUBSET S
                                    /\ Cardinality(s \ {Some(s)}) = Cardinality(s) - 1
  BY <1>1, <1>p, FS_RemoveElement
<1>2. 0 \in N
  <2>1. \A s \in Sub(0) : s = {}
    BY <1>1, FS_EmptySet
  <2>2. [s \in Sub(0) |-> 0] = [s \in Sub(0) |-> Step([r \in Sub(0) |-> 0], s)]
    BY <2>1
  <2> QED BY <2>2
<1>3. \A n \in N : n + 1 \in N
  <2>1. SUFFICES ASSUME NEW n \in N PROVE n + 1 \in N
    OBVIOUS
  <2>2. PICK it : it = [s \in Sub(n) |-> Step(it, s)]
    OBVIOUS
  <2> DEFINE next == [s \in Sub(n + 1) |-> IF s \in Sub(n) THEN it[s] ELSE Step(it, s)]
  <2>3. \A s \in Sub(n + 1) : s # {} => s \ {Some(s)} \in Sub(n)
    BY <1>1, <1>q
  <2>0. Sub(n) \subseteq Sub(n + 1)
    BY <1>1
  <2>4. \A s \in Sub(n) : next[s] = it[s]
    BY <2>0
  <2>5. ASSUME NEW s \in Sub(n + 1) PROVE next[s] = Step(it, s)
    <3>1. CASE s \in Sub(n)
      <4>1. next[s] = it[s]
        BY <3>1, <2>4
      <4>2. it[s] = Step(it, s)
        <5> HIDE DEF Step, Sub
        <5> QED BY <2>2, <3>1
      <4> QED BY <4>1, <4>2
    <3>2. CASE s \notin Sub(n)
      BY <3>2
    <3> QED BY <3>1, <3>2
  <2>6. \A s \in Sub(n + 1) : Step(it, s) = Step(next, s)
    <3> HIDE DEF Sub, next
    <3> QED BY <2>3, <2>4
  <2>7. next = [s \in Sub(n + 1) |-> Step(next, s)]
    <3>1. next = [s \in Sub(n + 1) |-> next[s]]
      OBVIOUS
    <3> HIDE DEF next, Step, Sub
    <3>2. \A s \in Sub(n + 1) : next[s] = Step(next, s)
      BY <2>5, <2>6
    <3> QED BY <3>1, <3>2
  <2> HIDE DEF next, Step, Sub
  <2> QED BY <2>7
<1>4. N = Nat
  <2>1. N \in SUBSET Nat
    OBVIOUS
  <2> HIDE DEF N
  <2> QED BY <1>2, <1>3, <2>1, NatSetInduction
<1>5. Cardinality(S) \in N
  BY <1>1, <1>4
<1>6. PICK it : it = [s \in Sub(Cardinality(S)) |-> Step(it, s)]
  <2> HIDE DEF Sub, Step
  <2> QED BY <1>5
<1>7. Sub(Cardinality(S)) = SUBSET S
  BY <1>1, FS_Subset
<1> QED BY <1>6, <1>7 DEF IsSum

-----------------------------------------------------------------------------
(* The sum of the values of a function on a set.                           *)
SumOf(f, S) == MapThenSumSet(LAMBDA x : f[x], S)

LEMMA SumUnfold ==
    ASSUME NEW S, IsFiniteSet(S), NEW f
    PROVE  \E it : IsSum(it, f, S) /\ SumOf(f, S) = it[S]
<1> DEFINE it == CHOOSE i : IsSum(i, f, S)
<1>1. IsSum(it, f, S)
  BY SumExists
<1>2. SumOf(f, S) = it[S]
  BY DEF SumOf, MapThenSumSet, MapThenFoldSet, IsSum, Some
<1> HIDE DEF it
<1> QED BY <1>1, <1>2

(* What it says of one set: the sum of a set is that of an element and of  *)
(* the rest.                                                               *)
SumStep(it, f, S) ==
    \A T \in SUBSET S :
        /\ T = {} => it[T] = 0
        /\ T # {} => /\ Some(T) \in T /\ T \ {Some(T)} \in SUBSET S
                     /\ it[T] = f[Some(T)] + it[T \ {Some(T)}]

LEMMA SumEquation == ASSUME NEW S, NEW f, NEW it, IsSum(it, f, S) PROVE SumStep(it, f, S)
<1>1. \A T \in SUBSET S : T # {} => Some(T) \in T
  BY DEF Some
<1> QED BY <1>1 DEF IsSum, SumStep

(* A sum depends on the values that are added only.                        *)
LEMMA SumUnique ==
    ASSUME NEW S, IsFiniteSet(S), NEW T \in SUBSET S, NEW f, NEW g,
           \A x \in T : f[x] = g[x],
           NEW i, IsSum(i, f, S), NEW j, IsSum(j, g, T)
    PROVE  \A U \in SUBSET T : i[U] = j[U]
<1> DEFINE Good == {U \in SUBSET T : i[U] = j[U]}
<1>0. IsFiniteSet(T)
  BY FS_Subset
<1>e. SumStep(i, f, S)
  BY SumEquation
<1>j. SumStep(j, g, T)
  BY SumEquation
<1>1. ASSUME NEW U \in SUBSET T, \A x \in U : U \ {x} \in Good
      PROVE  U \in Good
  <2>1. CASE U = {}
    <3>1. i[U] = 0
      BY <2>1, <1>e DEF SumStep
    <3>2. j[U] = 0
      BY <2>1, <1>j DEF SumStep
    <3> QED BY <3>1, <3>2
  <2>2. CASE U # {}
    <3>1. Some(U) \in U /\ i[U] = f[Some(U)] + i[U \ {Some(U)}]
      BY <2>2, <1>e DEF SumStep
    <3>2. j[U] = g[Some(U)] + j[U \ {Some(U)}]
      BY <2>2, <1>j DEF SumStep
    <3> QED BY <1>1, <3>1, <3>2
  <2> QED BY <2>1, <2>2
<1>2. \A U \in SUBSET T : U \in Good
  <2> HIDE DEF Good
  <2> QED BY <1>0, <1>1, FiniteSetInduction
<1> QED BY <1>2

LEMMA SumSame ==
    ASSUME NEW S, IsFiniteSet(S), NEW f, NEW g, \A x \in S : f[x] = g[x]
    PROVE  SumOf(f, S) = SumOf(g, S)
<1>1. PICK i : IsSum(i, f, S) /\ SumOf(f, S) = i[S]
  BY SumUnfold
<1>2. PICK j : IsSum(j, g, S) /\ SumOf(g, S) = j[S]
  BY SumUnfold
<1>3. \A U \in SUBSET S : i[U] = j[U]
  BY <1>1, <1>2, SumUnique
<1> QED BY <1>1, <1>2, <1>3

(* The partial sums of one sum are the sums of the subsets.                *)
LEMMA SumOfParts ==
    ASSUME NEW S, IsFiniteSet(S), NEW f, NEW i, IsSum(i, f, S)
    PROVE  \A T \in SUBSET S : i[T] = SumOf(f, T)
<1>1. SUFFICES ASSUME NEW T \in SUBSET S PROVE i[T] = SumOf(f, T)
  OBVIOUS
<1>2. IsFiniteSet(T)
  BY FS_Subset
<1>3. PICK j : IsSum(j, f, T) /\ SumOf(f, T) = j[T]
  BY <1>2, SumUnfold
<1>4. \A U \in SUBSET T : i[U] = j[U]
  BY <1>3, SumUnique
<1> QED BY <1>3, <1>4

LEMMA SumEmpty == \A f : SumOf(f, {}) = 0
<1>1. SUFFICES ASSUME NEW f PROVE SumOf(f, {}) = 0
  OBVIOUS
<1>2. IsFiniteSet({})
  BY FS_EmptySet
<1>3. PICK i : IsSum(i, f, {}) /\ SumOf(f, {}) = i[{}]
  BY <1>2, SumUnfold
<1>e. SumStep(i, f, {})
  BY <1>3, SumEquation
<1> QED BY <1>3, <1>e DEF SumStep

LEMMA SumType ==
    ASSUME NEW S, IsFiniteSet(S), NEW f, \A x \in S : f[x] \in Nat
    PROVE  SumOf(f, S) \in Nat
<1>1. PICK i : IsSum(i, f, S) /\ SumOf(f, S) = i[S]
  BY SumUnfold
<1>e. SumStep(i, f, S)
  BY <1>1, SumEquation
<1> DEFINE Good == {T \in SUBSET S : i[T] \in Nat}
<1>2. ASSUME NEW T \in SUBSET S, \A x \in T : T \ {x} \in Good
      PROVE  T \in Good
  <2>1. CASE T = {}
    <3>1. i[T] = 0
      BY <1>e, <2>1 DEF SumStep
    <3> QED BY <3>1
  <2>2. CASE T # {}
    <3>1. Some(T) \in T /\ i[T] = f[Some(T)] + i[T \ {Some(T)}]
      BY <1>e, <2>2 DEF SumStep
    <3>2. i[T \ {Some(T)}] \in Nat /\ f[Some(T)] \in Nat
      BY <1>2, <3>1
    <3> QED BY <3>1, <3>2
  <2> QED BY <2>1, <2>2
<1>3. \A T \in SUBSET S : T \in Good
  <2> HIDE DEF Good
  <2> QED BY <1>2, FiniteSetInduction
<1> QED BY <1>1, <1>3

(* Any element may be taken out first.                                     *)
LEMMA SumRemove ==
    ASSUME NEW S, IsFiniteSet(S), NEW f, \A x \in S : f[x] \in Nat, NEW y \in S
    PROVE  SumOf(f, S) = f[y] + SumOf(f, S \ {y})
<1>1. PICK i : IsSum(i, f, S) /\ SumOf(f, S) = i[S]
  BY SumUnfold
<1>2. \A T \in SUBSET S : i[T] = SumOf(f, T)
  BY <1>1, SumOfParts
<1>3. \A T \in SUBSET S : i[T] \in Nat
  <2>1. SUFFICES ASSUME NEW T \in SUBSET S PROVE i[T] \in Nat
    OBVIOUS
  <2>2. IsFiniteSet(T)
    BY FS_Subset
  <2>3. SumOf(f, T) \in Nat
    BY <2>2, SumType
  <2> QED BY <1>2, <2>3
<1>e. SumStep(i, f, S)
  BY <1>1, SumEquation
<1> DEFINE Good == {T \in SUBSET S : \A x \in T : i[T] = f[x] + i[T \ {x}]}
<1>4. ASSUME NEW T \in SUBSET S, \A x \in T : T \ {x} \in Good
      PROVE  T \in Good
  <2>1. SUFFICES ASSUME NEW x \in T PROVE i[T] = f[x] + i[T \ {x}]
    OBVIOUS
  <2>2. Some(T) \in T /\ i[T] = f[Some(T)] + i[T \ {Some(T)}]
    BY <1>e DEF SumStep
  <2>3. CASE x = Some(T)
    BY <2>2, <2>3
  <2>4. CASE x # Some(T)
    <3> DEFINE p == Some(T)
    <3>1. p \in T /\ p # x /\ i[T] = f[p] + i[T \ {p}]
      BY <2>2, <2>4
    <3> HIDE DEF p
    <3>2. i[T \ {p}] = f[x] + i[(T \ {p}) \ {x}]
      BY <1>4, <3>1
    <3>3. i[T \ {x}] = f[p] + i[(T \ {x}) \ {p}]
      BY <1>4, <3>1
    <3>4. i[(T \ {p}) \ {x}] = i[(T \ {x}) \ {p}]
      <4>1. (T \ {p}) \ {x} = (T \ {x}) \ {p}
        OBVIOUS
      <4> QED BY <4>1
    <3>5. f[x] \in Nat /\ f[p] \in Nat /\ i[(T \ {x}) \ {p}] \in Nat
      BY <1>3, <3>1
    <3> QED BY <3>1, <3>2, <3>3, <3>4, <3>5
  <2> QED BY <2>3, <2>4
<1>5. \A T \in SUBSET S : T \in Good
  <2> HIDE DEF Good
  <2> QED BY <1>4, FiniteSetInduction
<1>6. i[S] = f[y] + i[S \ {y}]
  BY <1>5
<1> QED BY <1>1, <1>2, <1>6

LEMMA SumAdd ==
    ASSUME NEW S, IsFiniteSet(S), NEW f, NEW y, y \notin S,
           \A x \in S \union {y} : f[x] \in Nat
    PROVE  SumOf(f, S \union {y}) = f[y] + SumOf(f, S)
<1> DEFINE U == S \union {y}
<1>1. IsFiniteSet(U) /\ y \in U /\ U \ {y} = S
  BY FS_AddElement
<1> HIDE DEF U
<1>2. SumOf(f, U) = f[y] + SumOf(f, U \ {y})
  BY <1>1, SumRemove DEF U
<1> QED BY <1>1, <1>2 DEF U

(* More elements, or larger values, add up to no less.                     *)
LEMMA SumSubset ==
    ASSUME NEW S, IsFiniteSet(S), NEW f, \A x \in S : f[x] \in Nat, NEW T \in SUBSET S
    PROVE  SumOf(f, T) <= SumOf(f, S)
<1> DEFINE Good == {U \in SUBSET S : T \subseteq U => SumOf(f, T) <= SumOf(f, U)}
<1>1. \A U \in SUBSET S : IsFiniteSet(U) /\ SumOf(f, U) \in Nat
  <2>1. SUFFICES ASSUME NEW U \in SUBSET S
                 PROVE  IsFiniteSet(U) /\ SumOf(f, U) \in Nat
    OBVIOUS
  <2>2. IsFiniteSet(U)
    BY FS_Subset
  <2> QED BY <2>2, SumType
<1>2. ASSUME NEW U \in SUBSET S, \A x \in U : U \ {x} \in Good
      PROVE  U \in Good
  <2>1. SUFFICES ASSUME T \subseteq U, T # U PROVE SumOf(f, T) <= SumOf(f, U)
    BY <1>1
  <2>2. PICK x \in U : x \notin T
    BY <2>1
  <2>3. SumOf(f, U) = f[x] + SumOf(f, U \ {x})
    BY <1>1, SumRemove
  <2>4. SumOf(f, T) <= SumOf(f, U \ {x})
    BY <1>2, <2>1, <2>2
  <2>5. SumOf(f, T) \in Nat /\ SumOf(f, U \ {x}) \in Nat /\ f[x] \in Nat
    BY <1>1
  <2> QED BY <2>3, <2>4, <2>5
<1>3. \A U \in SUBSET S : U \in Good
  <2> HIDE DEF Good
  <2> QED BY <1>2, FiniteSetInduction
<1> QED BY <1>3

(* Zeros add nothing.                                                      *)
LEMMA SumSupport ==
    ASSUME NEW S, IsFiniteSet(S), NEW f, \A x \in S : f[x] \in Nat,
           NEW T \in SUBSET S, \A x \in S \ T : f[x] = 0
    PROVE  SumOf(f, S) = SumOf(f, T)
<1> DEFINE Good == {U \in SUBSET S : T \subseteq U => SumOf(f, U) = SumOf(f, T)}
<1>1. \A U \in SUBSET S : IsFiniteSet(U) /\ SumOf(f, U) \in Nat
  <2>1. SUFFICES ASSUME NEW U \in SUBSET S
                 PROVE  IsFiniteSet(U) /\ SumOf(f, U) \in Nat
    OBVIOUS
  <2>2. IsFiniteSet(U)
    BY FS_Subset
  <2> QED BY <2>2, SumType
<1>2. ASSUME NEW U \in SUBSET S, \A x \in U : U \ {x} \in Good
      PROVE  U \in Good
  <2>1. SUFFICES ASSUME T \subseteq U, T # U PROVE SumOf(f, U) = SumOf(f, T)
    OBVIOUS
  <2>2. PICK x \in U : x \notin T
    BY <2>1
  <2>3. SumOf(f, U) = f[x] + SumOf(f, U \ {x})
    BY <1>1, SumRemove
  <2>4. SumOf(f, U \ {x}) = SumOf(f, T)
    BY <1>2, <2>1, <2>2
  <2>5. f[x] = 0 /\ SumOf(f, T) \in Nat
    BY <1>1, <2>2
  <2> QED BY <2>3, <2>4, <2>5
<1>3. \A U \in SUBSET S : U \in Good
  <2> HIDE DEF Good
  <2> QED BY <1>2, FiniteSetInduction
<1> QED BY <1>3

(* One value changes.                                                      *)
LEMMA SumChange ==
    ASSUME NEW S, IsFiniteSet(S), NEW y \in S, NEW f, NEW g,
           \A x \in S : f[x] \in Nat /\ g[x] \in Nat,
           \A x \in S \ {y} : g[x] = f[x]
    PROVE  SumOf(g, S) = SumOf(f, S) + (g[y] - f[y])
<1>1. IsFiniteSet(S \ {y})
  BY FS_RemoveElement
<1>2. SumOf(f, S) = f[y] + SumOf(f, S \ {y}) /\ SumOf(g, S) = g[y] + SumOf(g, S \ {y})
  BY SumRemove
<1>3. SumOf(f, S \ {y}) = SumOf(g, S \ {y})
  BY <1>1, SumSame
<1>4. SumOf(f, S \ {y}) \in Nat
  BY <1>1, SumType
<1> QED BY <1>2, <1>3, <1>4

LEMMA SumMonotone ==
    ASSUME NEW S, IsFiniteSet(S), NEW f, NEW g,
           \A x \in S : f[x] \in Nat /\ g[x] \in Nat /\ f[x] <= g[x]
    PROVE  SumOf(f, S) <= SumOf(g, S)
<1> DEFINE Good == {U \in SUBSET S : SumOf(f, U) <= SumOf(g, U)}
<1>1. \A U \in SUBSET S : IsFiniteSet(U) /\ SumOf(f, U) \in Nat /\ SumOf(g, U) \in Nat
  <2>1. SUFFICES ASSUME NEW U \in SUBSET S
                 PROVE  IsFiniteSet(U) /\ SumOf(f, U) \in Nat /\ SumOf(g, U) \in Nat
    OBVIOUS
  <2>2. IsFiniteSet(U)
    BY FS_Subset
  <2> QED BY <2>2, SumType
<1>2. ASSUME NEW U \in SUBSET S, \A x \in U : U \ {x} \in Good
      PROVE  U \in Good
  <2>1. CASE U = {}
    <3>1. SumOf(f, U) = 0 /\ SumOf(g, U) = 0
      BY <2>1, SumEmpty
    <3> QED BY <3>1
  <2>2. ASSUME NEW x \in U PROVE U \in Good
    <3>1. SumOf(f, U) = f[x] + SumOf(f, U \ {x}) /\ SumOf(g, U) = g[x] + SumOf(g, U \ {x})
      BY <1>1, SumRemove
    <3>2. SumOf(f, U \ {x}) <= SumOf(g, U \ {x})
      BY <1>2
    <3>3. /\ SumOf(f, U \ {x}) \in Nat /\ SumOf(g, U \ {x}) \in Nat
          /\ f[x] \in Nat /\ g[x] \in Nat /\ f[x] <= g[x]
      BY <1>1
    <3>4. SumOf(f, U) <= SumOf(g, U)
      BY <3>1, <3>2, <3>3
    <3> QED BY <3>4
  <2> QED BY <2>1, <2>2
<1>3. \A U \in SUBSET S : U \in Good
  <2> HIDE DEF Good
  <2> QED BY <1>2, FiniteSetInduction
<1> QED BY <1>3

ImageOf(h, S) == {h[x] : x \in S}

(* The image of a set under a function that raises no value adds up to no  *)
(* more.                                                                   *)
LEMMA SumImage ==
    ASSUME NEW S, IsFiniteSet(S), NEW f, \A x \in S : f[x] \in Nat,
           NEW h, NEW g, \A x \in S : g[h[x]] \in Nat /\ g[h[x]] <= f[x]
    PROVE  IsFiniteSet(ImageOf(h, S)) /\ SumOf(g, ImageOf(h, S)) <= SumOf(f, S)
<1> DEFINE Img(U) == {h[x] : x \in U}
           Good == {U \in SUBSET S : /\ IsFiniteSet(Img(U))
                                     /\ SumOf(g, Img(U)) <= SumOf(f, U)}
<1>1. \A U \in SUBSET S : IsFiniteSet(U) /\ SumOf(f, U) \in Nat
  <2>1. SUFFICES ASSUME NEW U \in SUBSET S
                 PROVE  IsFiniteSet(U) /\ SumOf(f, U) \in Nat
    OBVIOUS
  <2>2. IsFiniteSet(U)
    BY FS_Subset
  <2> QED BY <2>2, SumType
<1>2. ASSUME NEW U \in SUBSET S, \A x \in U : U \ {x} \in Good
      PROVE  U \in Good
  <2>1. CASE U = {}
    <3>1. Img(U) = {}
      BY <2>1
    <3>2. IsFiniteSet({}) /\ SumOf(g, {}) = 0
      BY FS_EmptySet, SumEmpty
    <3>3. SumOf(f, U) \in Nat
      BY <1>1
    <3> HIDE DEF Img
    <3> QED BY <3>1, <3>2, <3>3
  <2>2. ASSUME NEW x \in U PROVE U \in Good
    <3> DEFINE V == U \ {x}
    <3>1. IsFiniteSet(Img(V)) /\ SumOf(g, Img(V)) <= SumOf(f, V)
      BY <1>2
    <3>2. SumOf(f, U) = f[x] + SumOf(f, V)
      BY <1>1, SumRemove
    <3>3. Img(U) = Img(V) \union {h[x]}
      OBVIOUS
    <3>4. \A y \in Img(U) : g[y] \in Nat
      OBVIOUS
    <3>5. \A y \in Img(V) : g[y] \in Nat
      OBVIOUS
    <3>6. SumOf(f, V) \in Nat /\ f[x] \in Nat /\ g[h[x]] \in Nat /\ g[h[x]] <= f[x]
      BY <1>1
    <3>7. U \in SUBSET S
      BY <1>2
    <3> HIDE DEF Img, V
    <3>8. SumOf(g, Img(V)) \in Nat
      BY <3>1, <3>5, SumType
    <3>9. IsFiniteSet(Img(U))
      BY <3>1, <3>3, FS_AddElement
    <3>10. SumOf(g, Img(U)) <= SumOf(f, U)
      <4>1. CASE h[x] \in Img(V)
        <5>1. Img(U) = Img(V)
          BY <3>3, <4>1
        <5> QED BY <5>1, <3>1, <3>2, <3>6, <3>8
      <4>2. CASE h[x] \notin Img(V)
        <5>1. SumOf(g, Img(V) \union {h[x]}) = g[h[x]] + SumOf(g, Img(V))
          <6>1. \A y \in Img(V) \union {h[x]} : g[y] \in Nat
            BY <3>3, <3>4
          <6> DEFINE W == Img(V)
                     z == h[x]
          <6>2. IsFiniteSet(W) /\ z \notin W /\ \A y \in W \union {z} : g[y] \in Nat
            BY <3>1, <4>2, <6>1
          <6>3. SumOf(g, W \union {z}) = g[z] + SumOf(g, W)
            <7> HIDE DEF W, z
            <7> QED BY <6>2, SumAdd
          <6> QED BY <6>3
        <5> QED BY <5>1, <3>1, <3>2, <3>3, <3>6, <3>8
      <4> QED BY <4>1, <4>2
    <3> QED BY <3>7, <3>9, <3>10
  <2> QED BY <2>1, <2>2
<1>3. \A U \in SUBSET S : U \in Good
  <2> HIDE DEF Good
  <2> QED BY <1>2, FiniteSetInduction
<1> QED BY <1>3 DEF ImageOf

(* A function that hits nothing twice and keeps every value keeps the sum. *)
LEMMA SumInjective ==
    ASSUME NEW S, IsFiniteSet(S), NEW f, \A x \in S : f[x] \in Nat,
           NEW h, NEW g, \A x \in S : g[h[x]] = f[x],
           \A x, y \in S : h[x] = h[y] => x = y
    PROVE  SumOf(g, ImageOf(h, S)) = SumOf(f, S)
<1> DEFINE Img(U) == {h[x] : x \in U}
           Good == {U \in SUBSET S : SumOf(g, Img(U)) = SumOf(f, U)}
<1>1. ASSUME NEW U \in SUBSET S
      PROVE  IsFiniteSet(U) /\ IsFiniteSet(Img(U))
  <2>1. IsFiniteSet(U)
    BY FS_Subset
  <2>2. \A x \in U : f[x] \in Nat
    OBVIOUS
  <2>3. \A x \in U : g[h[x]] \in Nat /\ g[h[x]] <= f[x]
    OBVIOUS
  <2>4. IsFiniteSet(ImageOf(h, U))
    BY <2>1, <2>2, <2>3, SumImage
  <2> QED BY <2>1, <2>4 DEF ImageOf
<1>2. ASSUME NEW U \in SUBSET S, \A x \in U : U \ {x} \in Good
      PROVE  U \in Good
  <2>1. CASE U = {}
    <3>1. Img(U) = {}
      BY <2>1
    <3> HIDE DEF Img
    <3> QED BY <2>1, <3>1, SumEmpty
  <2>2. ASSUME NEW x \in U PROVE U \in Good
    <3> DEFINE V == U \ {x}
               W == Img(V)
               z == h[x]
    <3>1. SumOf(g, W) = SumOf(f, V)
      BY <1>2
    <3>2. SumOf(f, U) = f[x] + SumOf(f, V)
      BY <1>1, SumRemove
    <3>3. Img(U) = W \union {z}
      OBVIOUS
    <3>4. z \notin W
      OBVIOUS
    <3>5. \A y \in W \union {z} : g[y] \in Nat
      OBVIOUS
    <3>6. g[z] = f[x]
      OBVIOUS
    <3>7. U \in SUBSET S
      BY <1>2
    <3>8. IsFiniteSet(W)
      BY <1>1, <3>7
    <3> HIDE DEF Img, V, W, z
    <3>9. SumOf(g, W \union {z}) = g[z] + SumOf(g, W)
      BY <3>4, <3>5, <3>8, SumAdd
    <3> QED BY <3>1, <3>2, <3>3, <3>6, <3>7, <3>9
  <2> QED BY <2>1, <2>2
<1>3. \A U \in SUBSET S : U \in Good
  <2> HIDE DEF Good
  <2> QED BY <1>2, FiniteSetInduction
<1> QED BY <1>3 DEF ImageOf

=============================================================================
