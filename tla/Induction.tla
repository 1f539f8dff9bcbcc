----------------------------- MODULE Induction ------------------------------
(***************************************************************************)
(* What the proofs know of data.  Any naturals have a smallest one: from   *)
(* that follow the largest of some numbers (the counters of the program go *)
(* on from it: _next_wid, next_slip_no), what holds step by step or set by *)
(* set, that the folds of the library are there, and how a sum changes.    *)
(* What an induction is about is a set here, never an operator.            *)
(***************************************************************************)
EXTENDS Integers, SequencesExt, TLAPS, WellFoundedInduction, FiniteSetTheorems

Below == {p \in Nat \X Nat : p[1] < p[2]}

\* The order of the naturals is well-founded
LEMMA BelowIsWellFounded == IsWellFoundedOn(Below, Nat)
<1>1. Below = OpToRel(<, Nat)
  BY Zenon DEF Below, OpToRel
<1> QED BY <1>1, NatLessThanWellFounded, Zenon

\* Some naturals have a smallest one
LEMMA SmallestOfSome ==
  ASSUME NEW T \in SUBSET Nat, T # {}
  PROVE  \E x \in T : \A y \in T : x <= y
<1>1. PICK x \in T : \A y \in T : ~(<<y, x>> \in Below)
  BY BelowIsWellFounded, WFMin
<1>2. \A y \in T : x <= y
  <2> SUFFICES ASSUME NEW y \in T PROVE x <= y
    OBVIOUS
  <2>1. <<y, x>> \in Nat \X Nat /\ <<y, x>>[1] = y /\ <<y, x>>[2] = x
    OBVIOUS
  <2>2. ~(y < x)
    <3>1. <<y, x>> \notin Below
      BY <1>1
    <3> QED BY <2>1, <3>1, Zenon DEF Below
  <2> QED BY <2>2
<1> QED BY <1>2

\* Some numbers up to n have a largest one: its distance from n is the smallest
LEMMA LargestOfSome ==
  ASSUME NEW n \in Nat, NEW S \in SUBSET (0..n), S # {}
  PROVE  \E l \in S : \A m \in S : m <= l
<1> DEFINE T == {n - m : m \in S}
<1>1. T \subseteq Nat /\ T # {}
  <2>1. \A m \in S : n - m \in Nat
    OBVIOUS
  <2> QED BY <2>1
<1>2. PICK x \in T : \A y \in T : x <= y
  BY <1>1, SmallestOfSome
<1>3. PICK l \in S : x = n - l
  BY <1>2
<1>4. \A m \in S : m <= l
  <2> SUFFICES ASSUME NEW m \in S PROVE m <= l
    OBVIOUS
  <2>1. n - m \in T /\ m \in 0..n /\ l \in 0..n
    OBVIOUS
  <2>2. x <= n - m
    BY <2>1, <1>2
  <2> HIDE DEF T
  <2> QED BY <2>1, <2>2, <1>3
<1> QED BY <1>4

\* Max answers it
LEMMA MaxIsLargest ==
  ASSUME NEW n \in Nat, NEW S \in SUBSET (0..n), S # {}
  PROVE  Max(S) \in S /\ \A m \in S : m <= Max(S)
<1>1. PICK l \in S : \A m \in S : m <= l
  BY LargestOfSome
<1>2. \A m \in S : l >= m
  BY <1>1
<1>3. Max(S) \in S /\ \A m \in S : Max(S) >= m
  BY <1>2 DEF Max
<1> QED BY <1>3

\* What holds at first and goes from each number to the next holds up to n
LEMMA StepByStep ==
  ASSUME NEW n \in Nat, NEW T, 0 \in T, \A i \in 1..n : i - 1 \in T => i \in T
  PROVE  0..n \subseteq T
<1> DEFINE Left == (0..n) \ T
<1> SUFFICES ASSUME Left # {} PROVE FALSE
  OBVIOUS
<1>1. PICK x \in Left : \A y \in Left : x <= y
  <2>1. Left \in SUBSET Nat
    OBVIOUS
  <2> HIDE DEF Left
  <2> QED BY <2>1, SmallestOfSome
<1>2. x \in 1..n
  <2>1. x \in 0..n /\ x \notin T
    BY <1>1
  <2>2. x # 0
    BY <2>1, Zenon
  <2> QED BY <2>1, <2>2
<1>3. x - 1 \in T
  <2>1. x - 1 \in 0..n /\ ~(x <= x - 1)
    BY <1>2
  <2>2. x - 1 \notin Left
    BY <1>1, <2>1
  <2> QED BY <2>1, <2>2
<1>4. x \in T /\ x \notin T
  <2>1. x \in T
    BY <1>2, <1>3
  <2> QED BY <2>1, <1>1
<1> QED BY <1>4

\* How a fold over the subsets of S goes: ch picks the element, step takes it in
Chooses(ch, S)   == \A s \in SUBSET S : s # {} => ch[s] \in s
Within(step, S, V) == \A x \in S, v \in V : step[<<x, v>>] \in V
IsFold(it, S, base, ch, step) ==
  \A s \in SUBSET S : it[s] = IF s = {} THEN base ELSE step[<<ch[s], it[s \ {ch[s]}]>>]

\* A fold over the subsets of a finite set is there: its values up to a size give those of the
\* next size
LEMMA FoldExists ==
  ASSUME NEW S, IsFiniteSet(S), NEW V, NEW base \in V, NEW ch, NEW step,
         Chooses(ch, S), Within(step, S, V)
  PROVE  \E it \in [SUBSET S -> V] : IsFold(it, S, base, ch, step)
<1> USE DEF Chooses, Within
<1> DEFINE Upto(k) == {s \in SUBSET S : Cardinality(s) <= k}
           Folds(k) == {it \in [Upto(k) -> V] : \A s \in Upto(k) :
                          it[s] = IF s = {} THEN base ELSE step[<<ch[s], it[s \ {ch[s]}]>>]}
           N == Cardinality(S)
           T == {k \in 0..N : Folds(k) # {}}
<1>1. N \in Nat /\ \A s \in SUBSET S : IsFiniteSet(s) /\ Cardinality(s) \in Nat /\ Cardinality(s) <= N
  <2>1. N \in Nat
    BY FS_CardinalityType
  <2>2. \A s \in SUBSET S : IsFiniteSet(s) /\ Cardinality(s) <= N
    BY FS_Subset
  <2>3. \A s \in SUBSET S : Cardinality(s) \in Nat
    BY <2>2, FS_CardinalityType
  <2> QED BY <2>1, <2>2, <2>3
<1>2. 0 \in T
  <2>1. \A s \in Upto(0) : s = {}
    BY <1>1, FS_EmptySet
  <2>2. [s \in Upto(0) |-> base] \in Folds(0)
    BY <2>1
  <2>3. Folds(0) # {}
    BY <2>2, Zenon
  <2>4. 0 \in 0..N
    BY <1>1
  <2> QED BY <2>3, <2>4
<1>3. ASSUME NEW k \in 1..N, k - 1 \in T PROVE k \in T
  <2>1. PICK g : g \in Folds(k - 1)
    BY <1>3
  <2> DEFINE h == [s \in Upto(k) |->
                     IF s = {} THEN base ELSE step[<<ch[s], g[s \ {ch[s]}]>>]]
  <2>2. ASSUME NEW s \in Upto(k), s # {}
        PROVE  /\ ch[s] \in S
               /\ s \ {ch[s]} \in Upto(k - 1)
               /\ s \ {ch[s]} \in Upto(k)
    <3>1. s \in SUBSET S /\ ch[s] \in s /\ Cardinality(s) <= k /\ Cardinality(s) \in Nat /\ IsFiniteSet(s)
      BY <2>2, <1>1
    <3>2. Cardinality(s \ {ch[s]}) = Cardinality(s) - 1
      BY <3>1, FS_RemoveElement
    <3>3. Cardinality(s \ {ch[s]}) <= k - 1 /\ Cardinality(s \ {ch[s]}) <= k
      BY <3>1, <3>2
    <3>4. s \ {ch[s]} \in SUBSET S /\ ch[s] \in S
      BY <3>1
    <3> QED BY <3>3, <3>4
  <2>3. \A s \in Upto(k - 1) : g[s] \in V
    BY <2>1
  <2>4. h \in [Upto(k) -> V]
    <3>1. \A s \in Upto(k) : h[s] \in V
      <4> SUFFICES ASSUME NEW s \in Upto(k) PROVE h[s] \in V
        OBVIOUS
      <4>1. CASE s = {}
        BY <4>1
      <4>2. CASE s # {}
        <5>1. step[<<ch[s], g[s \ {ch[s]}]>>] \in V
          <6>1. ch[s] \in S /\ g[s \ {ch[s]}] \in V
            BY <2>2, <2>3, <4>2
          <6> HIDE DEF Upto, Folds
          <6> QED BY <6>1
        <5> HIDE DEF Upto, Folds
        <5> QED BY <4>2, <5>1
      <4> QED BY <4>1, <4>2
    <3> HIDE DEF Upto, Folds
    <3> QED BY <3>1
  <2>5. \A s \in Upto(k - 1) :
          s \in Upto(k) /\ g[s] = IF s = {} THEN base ELSE step[<<ch[s], g[s \ {ch[s]}]>>]
    <3>1. \A s \in Upto(k - 1) : s \in Upto(k)
      <4> SUFFICES ASSUME NEW s \in Upto(k - 1) PROVE s \in Upto(k)
        OBVIOUS
      <4>1. Cardinality(s) <= k - 1 /\ Cardinality(s) \in Nat /\ s \in SUBSET S
        BY <1>1
      <4> QED BY <4>1
    <3>2. \A s \in Upto(k - 1) : g[s] = IF s = {} THEN base ELSE step[<<ch[s], g[s \ {ch[s]}]>>]
      <4> HIDE DEF Upto
      <4> QED BY <2>1
    <3> QED BY <3>1, <3>2, Zenon
  <2>6. \A s \in Upto(k - 1) : h[s] = g[s]
    <3> HIDE DEF Upto, Folds
    <3> QED BY <2>5, Zenon
  <2>7. \A s \in Upto(k) : h[s] = IF s = {} THEN base ELSE step[<<ch[s], h[s \ {ch[s]}]>>]
    <3> SUFFICES ASSUME NEW s \in Upto(k)
                 PROVE  h[s] = IF s = {} THEN base ELSE step[<<ch[s], h[s \ {ch[s]}]>>]
      OBVIOUS
    <3>1. CASE s = {}
      <4> HIDE DEF Upto, Folds
      <4> QED BY <3>1
    <3>2. CASE s # {}
      <4>1. h[s \ {ch[s]}] = g[s \ {ch[s]}]
        BY <2>2, <2>6, <3>2
      <4> HIDE DEF Upto, Folds
      <4> QED BY <3>2, <4>1
    <3> QED BY <3>1, <3>2
  <2> HIDE DEF h, Upto
  <2>8. h \in Folds(k)
    BY <2>4, <2>7
  <2>9. Folds(k) # {}
    BY <2>8, Zenon
  <2>10. k \in 0..N
    BY <1>1
  <2> QED BY <2>9, <2>10
<1>4. N \in T
  <2>1. 0..N \subseteq T
    <3> HIDE DEF T
    <3>1. \A k \in 1..N : k - 1 \in T => k \in T
      BY <1>3
    <3> QED BY <1>1, <1>2, <3>1, StepByStep
  <2>2. N \in 0..N
    BY <1>1
  <2> HIDE DEF T
  <2> QED BY <2>1, <2>2
<1>5. Upto(N) = SUBSET S
  BY <1>1
<1>6. PICK it : it \in Folds(N)
  BY <1>4
<1> HIDE DEF Upto
<1> QED BY <1>5, <1>6 DEF IsFold

\* What the empty set has, and a subset has when those one smaller have it, all subsets have
LEMMA SetBySet ==
  ASSUME NEW S, IsFiniteSet(S), NEW G, {} \in G,
         \A s \in SUBSET S : s # {} /\ (\A x \in s : s \ {x} \in G) => s \in G
  PROVE  SUBSET S \subseteq G
<1> DEFINE N == Cardinality(S)
           T == {k \in 0..N : \A s \in SUBSET S : Cardinality(s) <= k => s \in G}
<1>1. N \in Nat /\ \A s \in SUBSET S : IsFiniteSet(s) /\ Cardinality(s) \in Nat /\ Cardinality(s) <= N
  <2>1. N \in Nat
    BY FS_CardinalityType
  <2>2. \A s \in SUBSET S : IsFiniteSet(s) /\ Cardinality(s) <= N
    BY FS_Subset
  <2>3. \A s \in SUBSET S : Cardinality(s) \in Nat
    BY <2>2, FS_CardinalityType
  <2> QED BY <2>1, <2>2, <2>3
<1>2. 0 \in T
  <2>1. \A s \in SUBSET S : Cardinality(s) <= 0 => s = {}
    BY <1>1, FS_EmptySet
  <2>2. 0 \in 0..N
    BY <1>1
  <2> QED BY <2>1, <2>2
<1>3. ASSUME NEW k \in 1..N, k - 1 \in T PROVE k \in T
  <2>1. ASSUME NEW s \in SUBSET S, Cardinality(s) <= k, s # {} PROVE s \in G
    <3>1. ASSUME NEW x \in s PROVE s \ {x} \in G
      <4>1. Cardinality(s \ {x}) = Cardinality(s) - 1
        BY <1>1, FS_RemoveElement
      <4>2. Cardinality(s \ {x}) <= k - 1 /\ s \ {x} \in SUBSET S
        BY <1>1, <2>1, <4>1
      <4> HIDE DEF N
      <4> QED BY <4>2, <1>3
    <3> QED BY <2>1, <3>1
  <2>2. \A s \in SUBSET S : Cardinality(s) <= k => s \in G
    BY <2>1
  <2>3. k \in 0..N
    BY <1>1
  <2> HIDE DEF N
  <2> QED BY <2>2, <2>3
<1>4. N \in T
  <2>1. 0..N \subseteq T
    <3> HIDE DEF T, N
    <3>1. \A k \in 1..N : k - 1 \in T => k \in T
      BY <1>3
    <3> QED BY <1>1, <1>2, <3>1, StepByStep
  <2>2. N \in 0..N
    BY <1>1
  <2> HIDE DEF T
  <2> QED BY <2>1, <2>2
<1> QED BY <1>1, <1>4

-----------------------------------------------------------------------------
(***************************************************************************)
(* The sum of a over S, as MapThenSumSet reckons it: one element after the *)
(* other, in an order nobody knows                                         *)
(***************************************************************************)
Pick(s) == CHOOSE x \in s : TRUE
IsSum(it, a, S) ==
  it = [s \in SUBSET S |-> IF s = {} THEN 0 ELSE a[Pick(s)] + it[s \ {Pick(s)}]]
Total(a, S) == (CHOOSE it : IsSum(it, a, S))[S]

\* Total is what the library's operator answers
LEMMA SumIsTotal ==
  ASSUME NEW a, NEW S
  PROVE  MapThenSumSet(LAMBDA x : a[x], S) = Total(a, S)
BY Zenon DEF MapThenSumSet, MapThenFoldSet, Total, IsSum, Pick

\* One is picked from a set that has one
LEMMA PickIsOne == \A s : s # {} => Pick(s) \in s
BY DEF Pick

\* A sum is there
LEMMA SumExists ==
  ASSUME NEW S, IsFiniteSet(S), NEW a, \A x \in S : a[x] \in Int
  PROVE  \E it : IsSum(it, a, S)
<1> DEFINE step == [p \in S \X Int |-> a[p[1]] + p[2]]
           ch   == [s \in SUBSET S |-> Pick(s)]
<1>1. \A s \in SUBSET S : s # {} => ch[s] \in s /\ ch[s] = Pick(s)
  BY PickIsOne
<1>2. \A x \in S, v \in Int : step[<<x, v>>] \in Int /\ step[<<x, v>>] = a[x] + v
  OBVIOUS
<1> HIDE DEF step, ch
<1>3. PICK it \in [SUBSET S -> Int] : \A s \in SUBSET S :
        it[s] = IF s = {} THEN 0 ELSE step[<<ch[s], it[s \ {ch[s]}]>>]
  <2>1. Chooses(ch, S)
    BY <1>1 DEF Chooses
  <2>2. Within(step, S, Int)
    BY <1>2 DEF Within
  <2>3. 0 \in Int
    OBVIOUS
  <2>4. \E it \in [SUBSET S -> Int] : IsFold(it, S, 0, ch, step)
    BY <2>1, <2>2, <2>3, FoldExists
  <2> QED BY <2>4 DEF IsFold
<1>4. ASSUME NEW s \in SUBSET S
      PROVE  it[s] = IF s = {} THEN 0 ELSE a[Pick(s)] + it[s \ {Pick(s)}]
  <2>1. CASE s = {}
    BY <1>3, <2>1
  <2>2. CASE s # {}
    <3>1. Pick(s) \in S /\ it[s \ {Pick(s)}] \in Int
      BY <1>1, <2>2
    <3>2. it[s] = step[<<Pick(s), it[s \ {Pick(s)}]>>]
      BY <1>1, <1>3, <2>2
    <3> QED BY <1>2, <2>2, <3>1, <3>2
  <2> QED BY <2>1, <2>2
<1>5. it = [s \in SUBSET S |-> it[s]]
  BY <1>3
<1>6. it = [s \in SUBSET S |-> IF s = {} THEN 0 ELSE a[Pick(s)] + it[s \ {Pick(s)}]]
  BY <1>4, <1>5
<1> QED BY <1>6 DEF IsSum

\* Two sums of the same numbers agree where both are
LEMMA SumsAgree ==
  ASSUME NEW S, IsFiniteSet(S), NEW T \in SUBSET S, NEW a, NEW b, \A x \in T : a[x] = b[x],
         NEW it, NEW jt, IsSum(it, a, S), IsSum(jt, b, T)
  PROVE  it[T] = jt[T]
<1> DEFINE G == {s \in SUBSET T : it[s] = jt[s]}
<1>1. \A s \in SUBSET S : it[s] = IF s = {} THEN 0 ELSE a[Pick(s)] + it[s \ {Pick(s)}]
  BY Zenon DEF IsSum
<1>2. \A s \in SUBSET T : jt[s] = IF s = {} THEN 0 ELSE b[Pick(s)] + jt[s \ {Pick(s)}]
  BY Zenon DEF IsSum
<1>3. {} \in G
  BY <1>1, <1>2
<1>4. ASSUME NEW s \in SUBSET T, s # {}, \A x \in s : s \ {x} \in G PROVE s \in G
  <2>1. Pick(s) \in s
    BY <1>4, PickIsOne
  <2>2. it[s \ {Pick(s)}] = jt[s \ {Pick(s)}] /\ a[Pick(s)] = b[Pick(s)]
    BY <1>4, <2>1
  <2>3. it[s] = jt[s]
    BY <1>1, <1>2, <1>4, <2>2
  <2> QED BY <2>3
<1>5. IsFiniteSet(T)
  BY FS_Subset
<1>6. SUBSET T \subseteq G
  <2>1. \A s \in SUBSET T : s # {} /\ (\A x \in s : s \ {x} \in G) => s \in G
    BY <1>4
  <2> HIDE DEF G
  <2> QED BY <1>3, <1>5, <2>1, SetBySet
<1> QED BY <1>6

\* The sum of nothing
LEMMA TotalOfNothing == \A a : Total(a, {}) = 0
<1> SUFFICES ASSUME NEW a PROVE Total(a, {}) = 0
  OBVIOUS
<1>1. IsFiniteSet({})
  BY FS_EmptySet
<1>2. PICK it : IsSum(it, a, {})
  BY <1>1, SumExists
<1>3. IsSum(CHOOSE jt : IsSum(jt, a, {}), a, {})
  BY <1>2, Zenon
<1> HIDE DEF IsSum
<1> DEFINE jt == CHOOSE jt : IsSum(jt, a, {})
<1>4. IsSum(jt, a, {})
  BY <1>3
<1> HIDE DEF jt
<1>5. jt[{}] = 0
  BY <1>4, Zenon DEF IsSum
<1> QED BY <1>5 DEF Total, jt

\* The same numbers have the same sum
LEMMA TotalOfSame ==
  ASSUME NEW S, IsFiniteSet(S), NEW a, NEW b, \A x \in S : a[x] \in Int /\ a[x] = b[x]
  PROVE  Total(a, S) = Total(b, S)
<1>1. (\E it : IsSum(it, a, S)) /\ \E it : IsSum(it, b, S)
  <2>1. \A x \in S : b[x] \in Int /\ a[x] \in Int
    BY Zenon
  <2> QED BY <2>1, SumExists
<1> DEFINE it == CHOOSE jt : IsSum(jt, a, S)
           jt == CHOOSE kt : IsSum(kt, b, S)
<1>2. IsSum(it, a, S) /\ IsSum(jt, b, S)
  BY <1>1, Zenon
<1> HIDE DEF it, jt
<1>3. it[S] = jt[S]
  BY <1>2, SumsAgree
<1> QED BY <1>3 DEF Total, it, jt

\* A sum is a number, and not below zero when what is summed is not
LEMMA TotalIsTyped ==
  ASSUME NEW S, IsFiniteSet(S), NEW a, NEW V \in {Int, Nat}, \A x \in S : a[x] \in V
  PROVE  Total(a, S) \in V
<1>1. \A x \in S : a[x] \in Int
  OBVIOUS
<1>2. \E it : IsSum(it, a, S)
  BY <1>1, SumExists
<1> DEFINE jt == CHOOSE it : IsSum(it, a, S)
           G == {s \in SUBSET S : jt[s] \in V}
<1>3. IsSum(jt, a, S)
  BY <1>2, Zenon
<1> HIDE DEF jt
<1>4. \A s \in SUBSET S : jt[s] = IF s = {} THEN 0 ELSE a[Pick(s)] + jt[s \ {Pick(s)}]
  BY <1>3, Zenon DEF IsSum
<1>5. {} \in G
  <2>1. jt[{}] = 0
    BY <1>4, Zenon
  <2>2. 0 \in V
    OBVIOUS
  <2> QED BY <2>1, <2>2
<1>6. ASSUME NEW s \in SUBSET S, s # {}, \A x \in s : s \ {x} \in G PROVE s \in G
  <2>1. Pick(s) \in s
    BY <1>6, PickIsOne
  <2>2. jt[s \ {Pick(s)}] \in V /\ a[Pick(s)] \in V
    BY <1>6, <2>1
  <2>3. a[Pick(s)] + jt[s \ {Pick(s)}] \in V
    BY <2>2
  <2>4. jt[s] \in V
    BY <1>4, <1>6, <2>3
  <2> QED BY <2>4
<1>7. SUBSET S \subseteq G
  <2>1. \A s \in SUBSET S : s # {} /\ (\A x \in s : s \ {x} \in G) => s \in G
    BY <1>6
  <2> HIDE DEF G
  <2> QED BY <1>5, <2>1, SetBySet
<1>8. jt[S] \in V
  BY <1>7
<1> QED BY <1>8 DEF Total, jt

\* The first one taken out of a sum is the one the fold picks
LEMMA TotalUnfolds ==
  ASSUME NEW S, IsFiniteSet(S), S # {}, NEW a, \A x \in S : a[x] \in Int
  PROVE  Total(a, S) = a[Pick(S)] + Total(a, S \ {Pick(S)})
<1> DEFINE R  == S \ {Pick(S)}
           it == CHOOSE jt : IsSum(jt, a, S)
           jt == CHOOSE kt : IsSum(kt, a, R)
<1>1. IsFiniteSet(R) /\ R \in SUBSET S
  BY FS_Subset
<1>2. \A x \in R : a[x] \in Int
  OBVIOUS
<1>3. (\E kt : IsSum(kt, a, S)) /\ \E kt : IsSum(kt, a, R)
  <2> HIDE DEF R
  <2> QED BY <1>1, <1>2, SumExists
<1>4. IsSum(it, a, S) /\ IsSum(jt, a, R)
  BY <1>3, Zenon
<1> HIDE DEF it, jt
<1>5. it[R] = jt[R]
  <2> HIDE DEF R
  <2> QED BY <1>1, <1>4, SumsAgree
<1>6. it[S] = a[Pick(S)] + it[R]
  BY <1>4 DEF IsSum
<1> QED BY <1>5, <1>6 DEF Total, it, jt

\* Any one can be taken out of a sum: of two, it does not matter which goes first
LEMMA TotalTakesOut ==
  ASSUME NEW S, IsFiniteSet(S), NEW a, \A x \in S : a[x] \in Int
  PROVE  \A x \in S : Total(a, S) = a[x] + Total(a, S \ {x})
<1> DEFINE G == {s \in SUBSET S : \A x \in s : Total(a, s) = a[x] + Total(a, s \ {x})}
<1>1. {} \in G
  OBVIOUS
<1>2. ASSUME NEW s \in SUBSET S, s # {}, \A x \in s : s \ {x} \in G PROVE s \in G
  <2> DEFINE c == Pick(s)
  <2>1. c \in s
    BY <1>2, PickIsOne
  <2>2. \A t \in SUBSET S : Total(a, t) \in Int
    <3>1. \A t \in SUBSET S : IsFiniteSet(t)
      BY FS_Subset
    <3> QED BY <3>1, TotalIsTyped
  <2>3. Total(a, s) = a[c] + Total(a, s \ {c})
    <3>1. IsFiniteSet(s) /\ \A x \in s : a[x] \in Int
      BY FS_Subset
    <3> QED BY <1>2, <3>1, TotalUnfolds
  <2> HIDE DEF c
  <2>4. ASSUME NEW x \in s PROVE Total(a, s) = a[x] + Total(a, s \ {x})
    <3>1. CASE x = c
      BY <2>3, <3>1
    <3>2. CASE x # c
      <4>1. x \in s \ {c} /\ c \in s \ {x}
        BY <2>1, <3>2
      <4>2. Total(a, s \ {c}) = a[x] + Total(a, (s \ {c}) \ {x})
        BY <1>2, <2>1, <4>1
      <4>3. Total(a, s \ {x}) = a[c] + Total(a, (s \ {x}) \ {c})
        BY <1>2, <2>4, <4>1
      <4>4. (s \ {x}) \ {c} = (s \ {c}) \ {x}
        OBVIOUS
      <4>5. a[x] \in Int /\ a[c] \in Int /\ Total(a, (s \ {c}) \ {x}) \in Int
        BY <2>1, <2>2
      <4>6. Total(a, s) = a[c] + (a[x] + Total(a, (s \ {c}) \ {x}))
        BY <2>3, <4>2
      <4>7. Total(a, s \ {x}) = a[c] + Total(a, (s \ {c}) \ {x})
        BY <4>3, <4>4
      <4> QED BY <4>5, <4>6, <4>7
    <3> QED BY <3>1, <3>2
  <2> QED BY <2>4
<1>3. SUBSET S \subseteq G
  <2>1. \A s \in SUBSET S : s # {} /\ (\A x \in s : s \ {x} \in G) => s \in G
    BY <1>2
  <2> HIDE DEF G
  <2> QED BY <1>1, <2>1, SetBySet
<1> QED BY <1>3

-----------------------------------------------------------------------------
(***************************************************************************)
(* A sequence taken in from left to right, as FoldLeft does it             *)
(***************************************************************************)
\* The last of 1..i is i
LEMMA LastOfInterval ==
  ASSUME NEW i \in Nat, i # 0
  PROVE  Max(1..i) = i /\ (1..i) \ {Max(1..i)} = 1..(i - 1) /\ 1..i # {}
<1>1. 1..i \in SUBSET (0..i) /\ 1..i # {}
  <2>1. 1 \in 1..i
    OBVIOUS
  <2> QED BY <2>1
<1>2. Max(1..i) \in 1..i /\ \A m \in 1..i : m <= Max(1..i)
  BY <1>1, MaxIsLargest
<1>3. Max(1..i) = i
  <2>1. i \in 1..i
    OBVIOUS
  <2>2. i <= Max(1..i) /\ Max(1..i) <= i /\ Max(1..i) \in Nat
    BY <1>2, <2>1
  <2> HIDE DEF Max
  <2> QED BY <2>2
<1> QED BY <1>1, <1>3

IsRun(it, n, base, step) ==
  \A s \in SUBSET (1..n) : it[s] = IF s = {} THEN base ELSE step[<<Max(s), it[s \ {Max(s)}]>>]

\* A fold over 1..n that takes out the largest is there
LEMMA RunExists ==
  ASSUME NEW n \in Nat, NEW V, NEW base \in V, NEW step, Within(step, 1..n, V)
  PROVE  \E it \in [SUBSET (1..n) -> V] : IsRun(it, n, base, step)
<1> DEFINE ch == [s \in SUBSET (1..n) |-> Max(s)]
<1>1. ASSUME NEW s \in SUBSET (1..n), s # {} PROVE Max(s) \in s
  <2>1. s \in SUBSET (0..n)
    OBVIOUS
  <2> QED BY <1>1, <2>1, MaxIsLargest
<1>2. \A s \in SUBSET (1..n) : ch[s] = Max(s)
  OBVIOUS
<1>3. Chooses(ch, 1..n)
  BY <1>1 DEF Chooses
<1> HIDE DEF ch
<1>4. IsFiniteSet(1..n)
  BY FS_Interval
<1>5. PICK it \in [SUBSET (1..n) -> V] : IsFold(it, 1..n, base, ch, step)
  BY <1>3, <1>4, FoldExists
<1>6. \A s \in SUBSET (1..n) :
        it[s] = IF s = {} THEN base ELSE step[<<Max(s), it[s \ {Max(s)}]>>]
  BY <1>2, <1>5 DEF IsFold
<1> QED BY <1>6 DEF IsRun

\* The sequence the library makes of a finite set is one of its elements, with all of them
LEMMA SetToSeqIsOf ==
  ASSUME NEW S, IsFiniteSet(S)
  PROVE  /\ SetToSeq(S) \in [1..Cardinality(S) -> S] /\ Cardinality(S) \in Nat
         /\ SetToSeq(S) \in Seq(S) /\ IsInjective(SetToSeq(S))
         /\ \A x \in S : \E n \in 1..Cardinality(S) : SetToSeq(S)[n] = x
<1>1. Cardinality(S) \in Nat /\ ExistsBijection(1..Cardinality(S), S)
  BY FS_CardinalityType
<1> DEFINE N == Cardinality(S)
<1>2. PICK f : f \in [1..N -> S] /\ IsInjective(f)
  BY <1>1 DEF ExistsBijection, Bijection, Injection
<1>3. SetToSeq(S) \in [1..N -> S] /\ IsInjective(SetToSeq(S))
  BY <1>2 DEF SetToSeq
<1> DEFINE g == SetToSeq(S)
<1> HIDE DEF g
<1>4. g \in Injection(1..N, S)
  BY <1>3 DEF g, Injection
<1>5. IsFiniteSet(1..N) /\ Cardinality(1..N) = N
  BY <1>1, FS_Interval
<1>6. g \in Surjection(1..N, S)
  <2>1. Cardinality(1..N) = Cardinality(S)
    BY <1>5
  <2> HIDE DEF N
  <2> QED BY <1>4, <2>1, FS_Injection
<1>7. \A x \in S : \E n \in 1..N : g[n] = x
  BY <1>6 DEF Surjection
<1> QED BY <1>1, <1>3, <1>7 DEF g

\* One more comes into a sum
LEMMA TotalOfOneMore ==
  ASSUME NEW S, IsFiniteSet(S), NEW a, NEW b, NEW x, x \notin S, b[x] \in Int,
         \A y \in S : a[y] \in Int /\ b[y] = a[y]
  PROVE  Total(b, S \cup {x}) = b[x] + Total(a, S)
<1> DEFINE T == S \cup {x}
<1>1. IsFiniteSet(T) /\ x \in T /\ T \ {x} = S
  BY FS_AddElement
<1>2. \A y \in T : b[y] \in Int
  OBVIOUS
<1> HIDE DEF T
<1>3. Total(b, T) = b[x] + Total(b, T \ {x})
  BY <1>1, <1>2, TotalTakesOut
<1>4. Total(b, S) = Total(a, S)
  <2>1. \A y \in S : a[y] = b[y] /\ a[y] \in Int
    OBVIOUS
  <2> QED BY <2>1, TotalOfSame
<1> QED BY <1>1, <1>3, <1>4 DEF T
-----------------------------------------------------------------------------
\* jt are the values of a fold of the subsets of 1..n, as far as they are in V
FoldsIn(jt, n, V, base, step) ==
  /\ jt[{}] = base
  /\ \A s \in SUBSET (1..n) : s # {} /\ jt[s \ {Max(s)}] \in V
                               => jt[s] = step[<<Max(s), jt[s \ {Max(s)}]>>]
\* g are the values after each of n steps
Chain(g, n, base, step) == g[0] = base /\ \A i \in 1..n : g[i] = step[<<i, g[i-1]>>]

\* What FoldLeft computes: the values jt has of the subsets of 1..n, as far as they are in V, are
\* those after each step
LEMMA RunOfFold ==
  ASSUME NEW n \in Nat, NEW V, NEW base \in V, NEW step, Within(step, 1..n, V), NEW jt,
         FoldsIn(jt, n, V, base, step)
  PROVE  \E g \in [0..n -> V] : Chain(g, n, base, step) /\ g[n] = jt[1..n]
<1> DEFINE g == [i \in 0..n |-> jt[1..i]]
           T == {i \in 0..n : g[i] \in V}
<1>1. \A i \in 0..n : g[i] = jt[1..i]
  OBVIOUS
<1>2. g[0] = base
  <2>1. 1..0 = {} /\ 0 \in 0..n
    OBVIOUS
  <2> QED BY <1>1, <2>1 DEF FoldsIn
<1> HIDE DEF g
<1>3. ASSUME NEW i \in 1..n, g[i-1] \in V PROVE g[i] = step[<<i, g[i-1]>>] /\ g[i] \in V
  <2>1. i \in Nat /\ i # 0 /\ i \in 0..n /\ i - 1 \in 0..n /\ 1..i \in SUBSET (1..n)
    OBVIOUS
  <2>2. Max(1..i) = i /\ (1..i) \ {i} = 1..(i - 1) /\ 1..i # {}
    BY <2>1, LastOfInterval
  <2>3. g[i] = jt[1..i] /\ g[i-1] = jt[1..(i - 1)]
    BY <1>1, <2>1
  <2>4. jt[1..i] = step[<<i, jt[1..(i - 1)]>>]
    BY <1>3, <2>1, <2>2, <2>3 DEF FoldsIn
  <2>5. step[<<i, g[i-1]>>] \in V
    BY <1>3 DEF Within
  <2> QED BY <2>3, <2>4, <2>5
<1>4. 0..n \subseteq T
  <2>1. 0 \in T
    BY <1>2
  <2>2. ASSUME NEW i \in 1..n, i - 1 \in T PROVE i \in T
    <3>1. g[i-1] \in V /\ i \in 0..n
      BY <2>2
    <3>2. g[i] \in V
      BY <1>3, <3>1
    <3> QED BY <3>1, <3>2
  <2> HIDE DEF T
  <2> QED BY <2>1, <2>2, StepByStep
<1>5. g \in [0..n -> V]
  BY <1>4 DEF g
<1>6. \A i \in 1..n : g[i] = step[<<i, g[i-1]>>]
  <2> SUFFICES ASSUME NEW i \in 1..n PROVE g[i] = step[<<i, g[i-1]>>]
    OBVIOUS
  <2>1. i - 1 \in 0..n
    OBVIOUS
  <2> QED BY <1>3, <1>4, <2>1
<1>7. g[n] = jt[1..n]
  BY <1>1
<1> QED BY <1>2, <1>5, <1>6, <1>7 DEF Chain

=============================================================================
