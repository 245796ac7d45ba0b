----------------------------- MODULE SumProofs ------------------------------
(***************************************************************************)
(* What a sum over a finite set is worth, for the byte counts of the block *)
(* store and of the query memory.                                          *)
(*                                                                         *)
(* Induction is argued from the least counterexample: a set of subsets of  *)
(* a finite set has a smallest member, a set of naturals a least one.      *)
(***************************************************************************)
EXTENDS Sums, FiniteSetTheorems, SequencesExt, SequenceTheorems, TLAPS

\* Among some subsets of a finite set one contains no other: the block store's and
\* the query memory's sums are argued from a smallest counterexample.
LEMMA SmallestSubset ==
  ASSUME NEW S, IsFiniteSet(S), NEW T \in SUBSET SUBSET S, T # {}
  PROVE  \E s \in T : \A r \in T : r \subseteq s => r = s
<1>1. IsWellFoundedOn(StrictSubsetOrdering(S), SUBSET S)
  BY FS_StrictSubsetOrderingWellFounded, FS_FiniteSubsetsOfFinite
<1>2. PICK s \in T : \A r \in T : ~(<<r, s>> \in StrictSubsetOrdering(S))
  BY <1>1, WFMin
<1>3. QED
  BY <1>2 DEF StrictSubsetOrdering

\* Induction over the naturals, of a set: used to build the table of the partial
\* sums the byte counts are read from.
LEMMA NaturalInduction ==
  ASSUME NEW N \in SUBSET Nat, 0 \in N, \A n \in N : n + 1 \in N
  PROVE  N = Nat
<1>1. SUFFICES ASSUME Nat \ N # {}  PROVE FALSE
  OBVIOUS
<1>2. PICK x \in Nat \ N : \A y \in Nat \ N : ~(<<y, x>> \in OpToRel(<, Nat))
  BY <1>1, NatLessThanWellFounded, WFMin
<1>3. x - 1 \in Nat /\ x - 1 \notin N
  <2>1. x # 0
    OBVIOUS
  <2>2. x - 1 \in Nat
    BY <2>1
  <2>3. (x - 1) + 1 = x
    BY <2>2
  <2>4. QED
    BY <2>2, <2>3
<1>4. <<x - 1, x>> \in OpToRel(<, Nat)
  BY <1>3 DEF OpToRel
<1>5. QED
  BY <1>2, <1>3, <1>4

\* The element the fold takes first.
Pick(s) == CHOOSE x \in s : TRUE

\* The element a sum takes first is one of the set.
LEMMA PickIn == \A s : s # {} => Pick(s) \in s
BY DEF Pick

\* g is right about s, where g tabulates the sums of the subsets of a set.
SumAt(g, w, s) ==
  g[s] = IF s = {} THEN 0 ELSE w[Pick(s)] + g[s \ {Pick(s)}]

\* g tabulates the sums of the subsets of S.
IsTable(g, w, S) ==
  g = [s \in SUBSET S |-> IF s = {} THEN 0 ELSE w[Pick(s)] + g[s \ {Pick(s)}]]

\* A sum is read from the table its recursive definition chooses.
LEMMA SumOfIs ==
  ASSUME NEW w, NEW S
  PROVE  SumOf(w, S) = (CHOOSE g : IsTable(g, w, S))[S]
BY DEF SumOf, MapThenSumSet, MapThenFoldSet, IsTable, Pick

UpTo(S, n) == {s \in SUBSET S : Cardinality(s) <= n}

\* The recursion of the fold has a solution on a finite set, built one cardinality
\* at a time: a byte count is a number.
LEMMA TableExists ==
  ASSUME NEW S, IsFiniteSet(S), NEW w \in [S -> Int]
  PROVE  \E g \in [SUBSET S -> Int] : IsTable(g, w, S)
<1> DEFINE N == {n \in Nat : \E g \in [UpTo(S, n) -> Int] :
                               \A s \in UpTo(S, n) : SumAt(g, w, s)}
<1>1. \A s \in SUBSET S : IsFiniteSet(s) /\ Cardinality(s) \in Nat
                          /\ Cardinality(s) <= Cardinality(S)
  BY FS_Subset, FS_CardinalityType
<1>2. 0 \in N
  <2>1. UpTo(S, 0) = {{}}
    BY <1>1, FS_EmptySet DEF UpTo
  <2>2. [s \in UpTo(S, 0) |-> 0] \in [UpTo(S, 0) -> Int]
    OBVIOUS
  <2>3. \A s \in UpTo(S, 0) : SumAt([r \in UpTo(S, 0) |-> 0], w, s)
    BY <2>1 DEF SumAt
  <2>4. QED
    BY <2>2, <2>3
<1>3. ASSUME NEW n \in N PROVE n + 1 \in N
  <2>1. PICK g \in [UpTo(S, n) -> Int] : \A s \in UpTo(S, n) : SumAt(g, w, s)
    BY <1>3
  <2>2. n \in Nat
    BY <1>3
  <2> DEFINE h == [s \in UpTo(S, n + 1) |->
                    IF s \in UpTo(S, n) THEN g[s] ELSE w[Pick(s)] + g[s \ {Pick(s)}]]
  <2>3. ASSUME NEW s \in UpTo(S, n + 1), s # {}
        PROVE  Pick(s) \in S /\ s \ {Pick(s)} \in UpTo(S, n)
    <3>1. Pick(s) \in s /\ s \in SUBSET S
      BY <2>3, PickIn DEF UpTo
    <3>2. Cardinality(s \ {Pick(s)}) = Cardinality(s) - 1
      BY <3>1, <1>1, FS_RemoveElement
    <3>3. Cardinality(s) <= n + 1 /\ Cardinality(s) \in Nat
      BY <3>1, <1>1 DEF UpTo
    <3>4. QED
      BY <3>1, <3>2, <3>3, <2>2 DEF UpTo
  <2>4. \A s \in UpTo(S, n + 1) : s \notin UpTo(S, n) => s # {}
    <3>1. {} \in UpTo(S, n)
      BY <2>2, FS_EmptySet, {} \in SUBSET S DEF UpTo
    <3>2. QED
      BY <3>1
  <2>5. h \in [UpTo(S, n + 1) -> Int]
    <3>1. ASSUME NEW s \in UpTo(S, n + 1) PROVE h[s] \in Int
      BY <2>1, <2>3, <2>4
    <3>2. QED
      BY <3>1
  <2>6. UpTo(S, n) \subseteq UpTo(S, n + 1)
    BY <2>2, <1>1 DEF UpTo
  <2>7. ASSUME NEW s \in UpTo(S, n + 1) PROVE SumAt(h, w, s)
    <3>1. CASE s = {}
      <4>1. s \in UpTo(S, n)
        BY <3>1, <2>4
      <4>2. QED
        BY <4>1, <3>1, <2>1 DEF SumAt
    <3>2. CASE s # {}
      <4>1. s \ {Pick(s)} \in UpTo(S, n)
        BY <3>2, <2>3
      <4>2. h[s \ {Pick(s)}] = g[s \ {Pick(s)}]
        BY <4>1, <2>6
      <4>3. CASE s \in UpTo(S, n)
        BY <4>2, <4>3, <3>2, <2>1 DEF SumAt
      <4>4. CASE s \notin UpTo(S, n)
        BY <4>2, <4>4, <3>2 DEF SumAt
      <4>5. QED
        BY <4>3, <4>4
    <3>3. QED
      BY <3>1, <3>2
  <2>8. QED
    <3> HIDE DEF h
    <3> QED  BY <2>2, <2>5, <2>7
<1>4. Cardinality(S) \in N
  <2>1. N = Nat
    <3> HIDE DEF N
    <3>1. N \in SUBSET Nat
      BY DEF N
    <3>2. QED
      BY <3>1, <1>2, <1>3, NaturalInduction
  <2>2. QED
    BY <2>1, FS_CardinalityType
<1>5. UpTo(S, Cardinality(S)) = SUBSET S
  BY <1>1 DEF UpTo
<1>6. PICK g \in [SUBSET S -> Int] : \A s \in SUBSET S : SumAt(g, w, s)
  BY <1>4, <1>5
<1>7. IsTable(g, w, S)
  BY <1>6 DEF SumAt, IsTable
<1>8. QED
  BY <1>7

\* The sum of a subset is in the table of the whole, whatever the weights are
\* outside of it: no choice of the fold's table matters.
LEMMA SumOfSubset ==
  ASSUME NEW S, IsFiniteSet(S), NEW w \in [S -> Int], NEW g, IsTable(g, w, S),
         NEW R \in SUBSET S, NEW v, \A x \in R : v[x] = w[x]
  PROVE  SumOf(v, R) = g[R]
<1> DEFINE vr == [x \in R |-> w[x]]
<1>1. IsFiniteSet(R)
  BY FS_Subset
<1>2. \E h \in [SUBSET R -> Int] : IsTable(h, vr, R)
  BY <1>1, TableExists
<1>3. ASSUME NEW h PROVE IsTable(h, vr, R) <=> IsTable(h, v, R)
  <2>1. \A s \in SUBSET R : s # {} => v[Pick(s)] = vr[Pick(s)]
    BY PickIn
  <2>2. [s \in SUBSET R |-> IF s = {} THEN 0 ELSE vr[Pick(s)] + h[s \ {Pick(s)}]]
      = [s \in SUBSET R |-> IF s = {} THEN 0 ELSE v[Pick(s)] + h[s \ {Pick(s)}]]
    BY <2>1
  <2>3. QED
    BY <2>2 DEF IsTable
<1>4. \E h : IsTable(h, v, R)
  BY <1>2, <1>3
<1>5. IsTable(CHOOSE h : IsTable(h, v, R), v, R)
  BY <1>4
<1>6. ASSUME NEW h, IsTable(h, v, R) PROVE h[R] = g[R]
  <2> DEFINE T == {s \in SUBSET R : h[s] # g[s]}
  <2>1. SUFFICES ASSUME T # {} PROVE FALSE
    BY R \in SUBSET R
  <2>2. T \in SUBSET SUBSET S
    OBVIOUS
  <2>3. PICK s \in T : \A r \in T : r \subseteq s => r = s
    <3> HIDE DEF T
    <3> QED BY <2>1, <2>2, SmallestSubset
  <2>4. /\ h[s] = IF s = {} THEN 0 ELSE v[Pick(s)] + h[s \ {Pick(s)}]
        /\ g[s] = IF s = {} THEN 0 ELSE w[Pick(s)] + g[s \ {Pick(s)}]
    BY <2>3, <1>6 DEF IsTable
  <2>5. s # {}
    BY <2>3, <2>4
  <2>6. Pick(s) \in s /\ v[Pick(s)] = w[Pick(s)]
    BY <2>5, <2>3, PickIn
  <2>7. s \ {Pick(s)} \notin T
    BY <2>6, <2>3
  <2>8. h[s \ {Pick(s)}] = g[s \ {Pick(s)}]
    BY <2>7, <2>3
  <2>9. QED
    BY <2>3, <2>4, <2>5, <2>6, <2>8
<1>7. QED
  BY <1>5, <1>6, SumOfIs

\* A sum is an integer, zero for no element, and otherwise one weight and the sum
\* of the rest.
LEMMA SumOfStep ==
  ASSUME NEW S, IsFiniteSet(S), NEW w \in [S -> Int]
  PROVE  /\ SumOf(w, S) \in Int
         /\ S # {} => SumOf(w, S) = w[Pick(S)] + SumOf(w, S \ {Pick(S)})
         /\ S = {} => SumOf(w, S) = 0
<1>1. PICK g \in [SUBSET S -> Int] : IsTable(g, w, S)
  BY TableExists
<1>2. \A R \in SUBSET S : SumOf(w, R) = g[R]
  BY <1>1, SumOfSubset
<1>3. QED
  BY <1>1, <1>2 DEF IsTable

\* Sums of the same weights are the same: bytes not touched by a step stay counted.
LEMMA SumOfSame ==
  ASSUME NEW S, IsFiniteSet(S), NEW w \in [S -> Int], NEW v, \A x \in S : v[x] = w[x]
  PROVE  SumOf(v, S) = SumOf(w, S)
<1>1. PICK g \in [SUBSET S -> Int] : IsTable(g, w, S)
  BY TableExists
<1>2. QED
  BY <1>1, SumOfSubset

\* Nothing weighs nothing: an empty store or an idle query is charged zero.
LEMMA SumOfEmpty ==
  ASSUME NEW w
  PROVE  SumOf(w, {}) = 0
<1> DEFINE z == [x \in {} |-> 0]
<1>1. IsFiniteSet({}) /\ z \in [{} -> Int] /\ \A x \in {} : w[x] = z[x]
  BY FS_EmptySet
<1> HIDE DEF z
<1>2. SumOf(w, {}) = SumOf(z, {}) /\ SumOf(z, {}) = 0
  BY <1>1, SumOfSame, SumOfStep
<1>3. QED
  BY <1>2

\* Any element may be counted first: the bytes of one ticket, name or task leave the
\* sum as they entered it.
LEMMA SumOfRemove ==
  ASSUME NEW S, IsFiniteSet(S), NEW w \in [S -> Int], NEW x \in S
  PROVE  SumOf(w, S) = w[x] + SumOf(w, S \ {x})
<1>1. PICK g \in [SUBSET S -> Int] : IsTable(g, w, S)
  BY TableExists
<1>2. \A R \in SUBSET S : SumOf(w, R) = g[R]
  BY <1>1, SumOfSubset
<1>3. \A s \in SUBSET S : s # {} => g[s] = w[Pick(s)] + g[s \ {Pick(s)}]
  BY <1>1 DEF IsTable
<1> DEFINE T == {s \in SUBSET S : \E y \in s : g[s] # w[y] + g[s \ {y}]}
<1>4. T = {}
  <2>1. SUFFICES ASSUME T # {} PROVE FALSE
    OBVIOUS
  <2>2. T \in SUBSET SUBSET S
    OBVIOUS
  <2>3. PICK s \in T : \A r \in T : r \subseteq s => r = s
    <3> HIDE DEF T
    <3> QED BY <2>1, <2>2, SmallestSubset
  <2>4. PICK y \in s : g[s] # w[y] + g[s \ {y}]
    BY <2>3
  <2>5. s \in SUBSET S /\ y \in S /\ s # {}
    BY <2>3, <2>4
  <2> DEFINE z == Pick(s)
  <2>6. z \in s /\ z \in S
    BY <2>5, PickIn
  <2>7. g[s] = w[z] + g[s \ {z}]
    BY <1>3, <2>5
  <2> HIDE DEF z
  <2>8. z # y
    BY <2>4, <2>7
  <2>9. s \ {z} \notin T /\ s \ {y} \notin T
    <3> HIDE DEF T
    <3>1. s \ {z} \subseteq s /\ s \ {z} # s /\ s \ {y} \subseteq s /\ s \ {y} # s
      BY <2>4, <2>6
    <3>2. QED
      BY <3>1, <2>3
  <2>10. g[s \ {z}] = w[y] + g[(s \ {z}) \ {y}]
    BY <2>9, <2>8, <2>4, <2>5
  <2>11. g[s \ {y}] = w[z] + g[(s \ {y}) \ {z}]
    BY <2>9, <2>8, <2>6, <2>5
  <2>12. g[(s \ {z}) \ {y}] = g[(s \ {y}) \ {z}]
    <3>1. (s \ {z}) \ {y} = (s \ {y}) \ {z}
      OBVIOUS
    <3>2. QED
      BY <3>1
  <2>13. g[(s \ {y}) \ {z}] \in Int /\ w[y] \in Int /\ w[z] \in Int
    BY <2>5, <2>6
  <2>14. QED
    <3> HIDE DEF T
    <3>1. w[z] + (w[y] + g[(s \ {y}) \ {z}]) = w[y] + (w[z] + g[(s \ {y}) \ {z}])
      BY <2>13
    <3>2. QED
      BY <2>4, <2>7, <2>10, <2>11, <2>12, <3>1
<1>5. g[S] = w[x] + g[S \ {x}]
  BY <1>4
<1>6. QED
  BY <1>2, <1>5

\* A sum of natural weights is natural: no byte count falls below zero.
LEMMA SumOfNat ==
  ASSUME NEW S, IsFiniteSet(S), NEW w \in [S -> Nat]
  PROVE  SumOf(w, S) \in Nat
<1>0. w \in [S -> Int]
  OBVIOUS
<1>1. PICK g \in [SUBSET S -> Int] : IsTable(g, w, S)
  BY <1>0, TableExists
<1>2. \A R \in SUBSET S : SumOf(w, R) = g[R]
  BY <1>0, <1>1, SumOfSubset
<1> DEFINE T == {s \in SUBSET S : g[s] \notin Nat}
<1>3. T = {}
  <2>1. SUFFICES ASSUME T # {} PROVE FALSE
    OBVIOUS
  <2>2. T \in SUBSET SUBSET S
    OBVIOUS
  <2>3. PICK s \in T : \A r \in T : r \subseteq s => r = s
    <3> HIDE DEF T
    <3> QED BY <2>1, <2>2, SmallestSubset
  <2>4. g[s] = IF s = {} THEN 0 ELSE w[Pick(s)] + g[s \ {Pick(s)}]
    BY <2>3, <1>1 DEF IsTable
  <2>5. s # {}
    BY <2>3, <2>4
  <2>6. Pick(s) \in s
    BY <2>5, PickIn
  <2>7. s \ {Pick(s)} \notin T
    BY <2>6, <2>3
  <2>8. g[s \ {Pick(s)}] \in Nat /\ w[Pick(s)] \in Nat
    BY <2>3, <2>6, <2>7
  <2>9. QED
    BY <2>3, <2>4, <2>5, <2>8
<1>4. QED
  BY <1>2, <1>3

\* One element enters a sum.
LEMMA SumOfAdd ==
  ASSUME NEW S, IsFiniteSet(S), NEW x, x \notin S, NEW w \in [S \cup {x} -> Int]
  PROVE  SumOf(w, S \cup {x}) = w[x] + SumOf(w, S)
<1>1. IsFiniteSet(S \cup {x})
  BY FS_AddElement
<1>2. (S \cup {x}) \ {x} = S
  OBVIOUS
<1>3. SumOf(w, S \cup {x}) = w[x] + SumOf(w, (S \cup {x}) \ {x})
  BY <1>1, SumOfRemove
<1>4. QED
  BY <1>2, <1>3

\* Weights that are all zero sum to zero: a query that has reserved nothing.
LEMMA SumOfZero ==
  ASSUME NEW S, IsFiniteSet(S)
  PROVE  SumOf([x \in S |-> 0], S) = 0
<1> DEFINE w == [x \in S |-> 0]
           T == {s \in SUBSET S : SumOf(w, s) # 0}
<1>1. w \in [S -> Int]
  OBVIOUS
<1>2. PICK g \in [SUBSET S -> Int] : IsTable(g, w, S)
  BY <1>1, TableExists
<1>3. \A s \in SUBSET S : SumOf(w, s) = g[s]
  <2> HIDE DEF w
  <2> QED BY <1>1, <1>2, SumOfSubset
<1>4. T = {}
  <2>1. SUFFICES ASSUME T # {} PROVE FALSE
    OBVIOUS
  <2>2. T \in SUBSET SUBSET S
    OBVIOUS
  <2>3. PICK s \in T : \A r \in T : r \subseteq s => r = s
    <3> HIDE DEF T
    <3> QED BY <2>1, <2>2, SmallestSubset
  <2>4. s \in SUBSET S /\ SumOf(w, s) # 0
    BY <2>3
  <2> HIDE DEF w, T
  <2>5. g[s] = IF s = {} THEN 0 ELSE w[Pick(s)] + g[s \ {Pick(s)}]
    BY <1>2, <2>4 DEF IsTable
  <2>6. s # {}
    BY <1>3, <2>4, <2>5
  <2>7. Pick(s) \in s /\ w[Pick(s)] = 0
    BY <2>4, <2>6, PickIn DEF w
  <2>8. s \ {Pick(s)} \notin T
    BY <2>3, <2>7
  <2>9. g[s \ {Pick(s)}] = 0
    BY <1>3, <2>4, <2>8 DEF T
  <2>10. QED
    BY <1>3, <2>4, <2>5, <2>6, <2>7, <2>9
<1>5. QED
  BY <1>4

\* One weight changes: how reserving and releasing bytes changes the total.
LEMMA SumOfUpdate ==
  ASSUME NEW S, IsFiniteSet(S), NEW w \in [S -> Int], NEW v \in [S -> Int],
         NEW x \in S, \A y \in S \ {x} : v[y] = w[y]
  PROVE  SumOf(v, S) = SumOf(w, S) - w[x] + v[x]
<1> DEFINE R == S \ {x}
           r == [y \in R |-> w[y]]
<1>1. IsFiniteSet(R) /\ r \in [R -> Int]
  BY FS_RemoveElement
<1>2. SumOf(w, R) = SumOf(r, R) /\ SumOf(v, R) = SumOf(r, R) /\ SumOf(r, R) \in Int
  <2>1. (\A y \in R : w[y] = r[y]) /\ (\A y \in R : v[y] = r[y])
    OBVIOUS
  <2> HIDE DEF R, r
  <2>2. QED
    BY <1>1, <2>1, SumOfSame, SumOfStep
<1>3. SumOf(w, S) = w[x] + SumOf(w, R) /\ SumOf(v, S) = v[x] + SumOf(v, R)
  BY SumOfRemove
<1> HIDE DEF R, r
<1>4. QED
  BY <1>2, <1>3

\* One natural weight is at most the sum: no task releases more than is reserved.
LEMMA SumOfAtLeast ==
  ASSUME NEW S, IsFiniteSet(S), NEW w \in [S -> Nat], NEW x \in S
  PROVE  SumOf(w, S) - w[x] \in Nat
<1> DEFINE R == S \ {x}
           r == [y \in R |-> w[y]]
<1>1. IsFiniteSet(R) /\ r \in [R -> Nat] /\ r \in [R -> Int] /\ w \in [S -> Int]
  BY FS_RemoveElement
<1>2. SumOf(w, S) = w[x] + SumOf(w, R)
  BY <1>1, SumOfRemove
<1>3. SumOf(w, R) \in Nat
  <2>1. \A y \in R : w[y] = r[y]
    OBVIOUS
  <2> HIDE DEF R, r
  <2>2. QED
    BY <1>1, <2>1, SumOfSame, SumOfNat
<1> HIDE DEF R, r
<1>4. QED
  BY <1>2, <1>3

\* When each element of S has one of its own in T that weighs as much, S weighs at
\* most as much as T: how the files a crash leaves are compared with the charge.
LEMMA SumOfInjection ==
  ASSUME NEW S, IsFiniteSet(S), NEW w \in [S -> Nat],
         NEW T, IsFiniteSet(T), NEW v \in [T -> Nat],
         NEW m \in [S -> T], \A x, y \in S : m[x] = m[y] => x = y,
         \A x \in S : w[x] <= v[m[x]]
  PROVE  SumOf(w, S) <= SumOf(v, T)
<1>1. w \in [S -> Int] /\ v \in [T -> Int]
  OBVIOUS
<1>2. PICK g \in [SUBSET S -> Int] : IsTable(g, w, S)
  BY <1>1, TableExists
<1>3. \A R \in SUBSET S : SumOf(w, R) = g[R]
  BY <1>1, <1>2, SumOfSubset
<1>4. PICK h \in [SUBSET T -> Int] : IsTable(h, v, T)
  BY <1>1, TableExists
<1>5. \A U \in SUBSET T : SumOf(v, U) = h[U]
  BY <1>1, <1>4, SumOfSubset
<1>6. \A R \in SUBSET S : IsFiniteSet(R) /\ w \in [S -> Int]
  BY <1>1, FS_Subset
<1> DEFINE Bad == {R \in SUBSET S : \E U \in SUBSET T :
                    (\A x \in R : m[x] \in U) /\ ~(g[R] <= h[U])}
<1>7. Bad = {}
  <2>1. SUFFICES ASSUME Bad # {} PROVE FALSE
    OBVIOUS
  <2>2. Bad \in SUBSET SUBSET S
    OBVIOUS
  <2>3. PICK R \in Bad : \A Q \in Bad : Q \subseteq R => Q = R
    <3> HIDE DEF Bad
    <3> QED BY <2>1, <2>2, SmallestSubset
  <2>4. PICK U \in SUBSET T : (\A x \in R : m[x] \in U) /\ ~(g[R] <= h[U])
    BY <2>3
  <2>5. R \in SUBSET S
    BY <2>3
  <2>6. h[U] \in Nat
    <3>1. [x \in U |-> v[x]] \in [U -> Nat] /\ IsFiniteSet(U)
      BY <2>4, FS_Subset
    <3>2. SumOf([x \in U |-> v[x]], U) \in Nat
      BY <3>1, SumOfNat
    <3>3. SumOf([x \in U |-> v[x]], U) = h[U]
      BY <1>1, <1>4, SumOfSubset
    <3>4. QED
      BY <3>2, <3>3
  <2>7. R # {}
    <3>1. g[{}] = 0
      BY <1>2 DEF IsTable
    <3>2. ASSUME R = {} PROVE FALSE
      <4>1. g[R] = 0
        BY <3>1, <3>2
      <4>2. QED
        BY <4>1, <2>4, <2>6
    <3>3. QED
      BY <3>2
  <2>8. PICK x \in R : TRUE
    BY <2>7
  <2>9. x \in S /\ m[x] \in U /\ m[x] \in T
    BY <2>4, <2>5, <2>8
  <2>10. g[R] = w[x] + g[R \ {x}]
    <3>1. [y \in R |-> w[y]] \in [R -> Int] /\ IsFiniteSet(R)
      BY <1>6, <2>5
    <3>2. SumOf([y \in R |-> w[y]], R) = w[x] + SumOf([y \in R |-> w[y]], R \ {x})
      BY <3>1, SumOfRemove
    <3>3. SumOf([y \in R |-> w[y]], R) = g[R]
      BY <1>1, <1>2, <2>5, SumOfSubset
    <3>4. SumOf([y \in R |-> w[y]], R \ {x}) = g[R \ {x}]
      BY <1>1, <1>2, <2>5, R \ {x} \in SUBSET S, SumOfSubset
    <3>5. QED
      BY <3>2, <3>3, <3>4
  <2>11. h[U] = v[m[x]] + h[U \ {m[x]}]
    <3>1. [y \in U |-> v[y]] \in [U -> Int] /\ IsFiniteSet(U)
      BY <1>1, <2>4, FS_Subset
    <3>2. SumOf([y \in U |-> v[y]], U)
        = v[m[x]] + SumOf([y \in U |-> v[y]], U \ {m[x]})
      BY <3>1, <2>9, SumOfRemove
    <3>3. SumOf([y \in U |-> v[y]], U) = h[U]
      BY <1>1, <1>4, SumOfSubset
    <3>4. SumOf([y \in U |-> v[y]], U \ {m[x]}) = h[U \ {m[x]}]
      BY <1>1, <1>4, U \ {m[x]} \in SUBSET T, SumOfSubset
    <3>5. QED
      BY <3>2, <3>3, <3>4
  <2>12. R \ {x} \notin Bad
    <3> HIDE DEF Bad
    <3>1. R \ {x} \subseteq R /\ R \ {x} # R
      BY <2>8
    <3>2. QED
      BY <3>1, <2>3
  <2>13. \A y \in R \ {x} : m[y] \in U \ {m[x]}
    BY <2>4, <2>5, <2>9
  <2>14. g[R \ {x}] <= h[U \ {m[x]}]
    BY <2>12, <2>13, <2>5, U \ {m[x]} \in SUBSET T
  <2>15. /\ g[R \ {x}] \in Int /\ h[U \ {m[x]}] \in Int
         /\ w[x] \in Nat /\ v[m[x]] \in Nat /\ w[x] <= v[m[x]]
    BY <2>9, <2>5
  <2> HIDE DEF Bad
  <2>16. QED
    BY <2>4, <2>10, <2>11, <2>14, <2>15
<1>8. g[S] <= h[T]
  <2>1. \A x \in S : m[x] \in T
    OBVIOUS
  <2>2. S \in SUBSET S /\ T \in SUBSET T
    OBVIOUS
  <2>3. QED
    BY <1>7, <2>1, <2>2
<1>9. QED
  BY <1>3, <1>5, <1>8


-----------------------------------------------------------------------------
(* Sequences of sequences one after the other: the blocks of a stage, the   *)
(* batches of a table.                                                      *)

\* f lists, for every n, the first n sequences of ss one after the other.
IsListing(f, ss) ==
  f = [i \in 1 .. Len(ss) |-> IF i = 1 THEN ss[i] ELSE f[i - 1] \o ss[i]]

\* A stage's list of blocks is read from the table its recursive definition
\* chooses (StageBlocks).
LEMMA FlattenIs ==
  ASSUME NEW ss, Len(ss) # 0
  PROVE  FlattenSeq(ss) = (CHOOSE f : IsListing(f, ss))[Len(ss)]
BY DEF FlattenSeq, IsListing

\* The recursion has a solution, built one partition at a time.
LEMMA ListingExists ==
  ASSUME NEW X, NEW ss \in Seq(Seq(X))
  PROVE  \E f : IsListing(f, ss)
<1> DEFINE Upto(f, n) == \A i \in 1 .. n : f[i] = IF i = 1 THEN ss[i] ELSE f[i - 1] \o ss[i]
           N == {n \in Nat : n <= Len(ss) =>
                   \E f : f = [i \in 1 .. n |-> f[i]] /\ Upto(f, n)}
<1>0. Len(ss) \in Nat
  OBVIOUS
<1>1. 0 \in N
  <2> DEFINE g == [i \in 1 .. 0 |-> i]
  <2>1. g = [i \in 1 .. 0 |-> g[i]] /\ Upto(g, 0)
    OBVIOUS
  <2>2. QED
    BY <2>1
<1>2. ASSUME NEW n \in N  PROVE n + 1 \in N
  <2>1. n \in Nat /\ n + 1 \in Nat
    OBVIOUS
  <2>2. SUFFICES ASSUME n + 1 <= Len(ss)
                 PROVE  \E f : f = [i \in 1 .. n + 1 |-> f[i]] /\ Upto(f, n + 1)
    BY <2>1
  <2>3. n <= Len(ss)
    BY <2>1, <2>2, <1>0
  <2>4. PICK f : f = [i \in 1 .. n |-> f[i]] /\ Upto(f, n)
    BY <2>3
  <2> DEFINE g == [i \in 1 .. n + 1 |->
                    IF i <= n THEN f[i] ELSE IF i = 1 THEN ss[i] ELSE f[i - 1] \o ss[i]]
  <2>5. g = [i \in 1 .. n + 1 |-> g[i]]
    OBVIOUS
  <2>6. ASSUME NEW i \in 1 .. n + 1
        PROVE  g[i] = IF i = 1 THEN ss[i] ELSE g[i - 1] \o ss[i]
    <3>1. CASE i <= n
      <4>1. i \in 1 .. n /\ g[i] = f[i]
        BY <3>1, <2>1
      <4>2. i # 1 => g[i - 1] = f[i - 1]
        BY <3>1, <2>1
      <4>3. f[i] = IF i = 1 THEN ss[i] ELSE f[i - 1] \o ss[i]
        BY <2>4, <4>1
      <4> HIDE DEF g
      <4>4. QED
        BY <4>1, <4>2, <4>3
    <3>2. CASE ~(i <= n)
      <4>1. g[i] = IF i = 1 THEN ss[i] ELSE f[i - 1] \o ss[i]
        BY <3>2, <2>1
      <4>2. i # 1 => g[i - 1] = f[i - 1]
        BY <3>2, <2>1
      <4> HIDE DEF g
      <4>3. QED
        BY <4>1, <4>2
    <3>3. QED
      BY <3>1, <3>2
  <2>7. Upto(g, n + 1)
    BY <2>6
  <2> HIDE DEF g
  <2>8. QED
    BY <2>5, <2>7
<1>3. N = Nat
  <2>1. N \in SUBSET Nat
    OBVIOUS
  <2> HIDE DEF N
  <2>2. QED
    BY <2>1, <1>1, <1>2, NaturalInduction
<1>4. \E f : f = [i \in 1 .. Len(ss) |-> f[i]] /\ Upto(f, Len(ss))
  <2>1. Len(ss) \in N
    BY <1>0, <1>3
  <2>2. Len(ss) <= Len(ss) =>
          \E f : f = [i \in 1 .. Len(ss) |-> f[i]] /\ Upto(f, Len(ss))
    BY <2>1
  <2>3. QED
    BY <2>2, <1>0
<1>5. PICK f : f = [i \in 1 .. Len(ss) |-> f[i]] /\ Upto(f, Len(ss))
  BY <1>4
<1>6. [i \in 1 .. Len(ss) |-> f[i]]
        = [i \in 1 .. Len(ss) |-> IF i = 1 THEN ss[i] ELSE f[i - 1] \o ss[i]]
  BY <1>5
<1>7. QED
  BY <1>5, <1>6 DEF IsListing

\* The items of one list of blocks.
LEMMA RangeIs ==
  ASSUME NEW X, NEW s \in Seq(X)
  PROVE  /\ Range(s) = {s[i] : i \in 1 .. Len(s)}
         /\ DOMAIN s = 1 .. Len(s) /\ Len(s) \in Nat
BY DEF Range

\* Joining lists joins what they hold: intermediate blocks, then the output.
LEMMA RangeConcat ==
  ASSUME NEW X, NEW s \in Seq(X), NEW t \in Seq(X)
  PROVE  s \o t \in Seq(X) /\ Range(s \o t) = Range(s) \cup Range(t)
<1>1. /\ s \o t \in Seq(X)
      /\ Len(s \o t) = Len(s) + Len(t)
      /\ \A i \in 1 .. Len(s) + Len(t) :
           (s \o t)[i] = IF i <= Len(s) THEN s[i] ELSE t[i - Len(s)]
  OBVIOUS
<1>2. Range(s \o t) \subseteq Range(s) \cup Range(t)
  <2>1. SUFFICES ASSUME NEW i \in 1 .. Len(s) + Len(t)
                 PROVE  (s \o t)[i] \in Range(s) \cup Range(t)
    <3>1. Range(s \o t) = {(s \o t)[i] : i \in 1 .. Len(s) + Len(t)}
      BY <1>1, RangeIs
    <3>2. QED
      BY <3>1
  <2>2. i <= Len(s) => i \in 1 .. Len(s)
    BY RangeIs
  <2>3. ~(i <= Len(s)) => i - Len(s) \in 1 .. Len(t)
    BY RangeIs
  <2>4. QED
    BY <1>1, <2>2, <2>3, RangeIs
<1>3. ASSUME NEW i \in 1 .. Len(s)  PROVE s[i] \in Range(s \o t)
  <2>1. i \in 1 .. Len(s) + Len(t) /\ i <= Len(s)
    BY RangeIs
  <2>2. QED
    BY <1>1, <2>1, RangeIs
<1>4. ASSUME NEW i \in 1 .. Len(t)  PROVE t[i] \in Range(s \o t)
  <2>1. Len(s) + i \in 1 .. Len(s) + Len(t) /\ ~(Len(s) + i <= Len(s))
        /\ (Len(s) + i) - Len(s) = i
    BY RangeIs
  <2>2. QED
    BY <1>1, <2>1, RangeIs
<1>5. QED
  BY <1>1, <1>2, <1>3, <1>4, RangeIs

\* Nothing is left on a list that was gone through.
LEMMA RangeOfNone == Range(<< >>) = {}
BY DEF Range

\* Deleting takes one item after the other off the list.
LEMMA RangeTail ==
  ASSUME NEW X, NEW s \in Seq(X), s # << >>
  PROVE  /\ Head(s) \in X /\ Head(s) = s[1] /\ Tail(s) \in Seq(X)
         /\ Range(s) \subseteq {Head(s)} \cup Range(Tail(s))
<1>1. /\ Head(s) \in X /\ Tail(s) \in Seq(X) /\ Len(Tail(s)) = Len(s) - 1
      /\ Head(s) = s[1] /\ \A i \in 1 .. Len(s) - 1 : Tail(s)[i] = s[i + 1]
  OBVIOUS
<1>2. ASSUME NEW i \in 1 .. Len(s), i # 1  PROVE s[i] \in Range(Tail(s))
  <2>1. i - 1 \in 1 .. Len(s) - 1 /\ (i - 1) + 1 = i
    BY <1>2, RangeIs
  <2>2. Tail(s)[i - 1] = s[i]
    BY <1>1, <2>1
  <2>3. QED
    BY <1>1, <2>1, <2>2, RangeIs
<1>3. QED
  BY <1>1, <1>2, RangeIs

\* Fetching moves one item after the other from the list to the result.
LEMMA MoveHead ==
  ASSUME NEW X, NEW f \in Seq(X), NEW t \in Seq(X), t # << >>
  PROVE  /\ Append(f, Head(t)) \in Seq(X)
         /\ Append(f, Head(t)) \o Tail(t) = f \o t
<1>1. /\ Head(t) \in X /\ Tail(t) \in Seq(X) /\ Len(Tail(t)) = Len(t) - 1
      /\ Head(t) = t[1] /\ \A i \in 1 .. Len(t) - 1 : Tail(t)[i] = t[i + 1]
      /\ Len(t) # 0
  OBVIOUS
<1> DEFINE g == Append(f, Head(t))
<1>2. /\ g \in Seq(X) /\ Len(g) = Len(f) + 1 /\ g[Len(f) + 1] = t[1]
      /\ \A i \in 1 .. Len(f) : g[i] = f[i]
  BY <1>1
<1> HIDE DEF g
<1>3. /\ g \o Tail(t) \in Seq(X) /\ f \o t \in Seq(X)
      /\ Len(g \o Tail(t)) = Len(f) + Len(t) /\ Len(f \o t) = Len(f) + Len(t)
  BY <1>1, <1>2
<1>4. ASSUME NEW i \in 1 .. Len(f) + Len(t)  PROVE (g \o Tail(t))[i] = (f \o t)[i]
  <2>1. CASE i <= Len(f)
    BY <1>1, <1>2, <2>1
  <2>2. CASE i = Len(f) + 1
    BY <1>1, <1>2, <2>2
  <2>3. CASE i > Len(f) + 1
    <3>1. i - (Len(f) + 1) \in 1 .. Len(t) - 1 /\ (i - (Len(f) + 1)) + 1 = i - Len(f)
      BY <2>3
    <3>2. (g \o Tail(t))[i] = Tail(t)[i - (Len(f) + 1)]
      <4>1. i \in 1 .. Len(g) + Len(Tail(t)) /\ ~(i <= Len(g)) /\ Len(g) = Len(f) + 1
        BY <1>1, <1>2, <2>3
      <4>2. QED
        BY <1>1, <1>2, <4>1, ConcatProperties
    <3>3. (f \o t)[i] = t[i - Len(f)]
      BY <2>3
    <3>4. QED
      BY <1>1, <3>1, <3>2, <3>3
  <2>4. i <= Len(f) \/ i = Len(f) + 1 \/ i > Len(f) + 1
    <3>1. Len(f) \in Nat /\ Len(t) \in Nat
      OBVIOUS
    <3>2. QED
      BY <3>1
  <2>5. QED
    BY <2>1, <2>2, <2>3, <2>4
<1>5. g \o Tail(t) = f \o t
  BY <1>3, <1>4, SeqEqual
<1>6. QED
  BY <1>2, <1>5 DEF g

\* The list of a stage's blocks has every block of every part (StageBlocks).
LEMMA FlattenHas ==
  ASSUME NEW X, NEW ss \in Seq(Seq(X))
  PROVE  /\ FlattenSeq(ss) \in Seq(X)
         /\ \A i \in 1 .. Len(ss) : Range(ss[i]) \subseteq Range(FlattenSeq(ss))
<1>0. Len(ss) \in Nat /\ \A i \in 1 .. Len(ss) : ss[i] \in Seq(X)
  OBVIOUS
<1>1. CASE Len(ss) = 0
  <2>1. FlattenSeq(ss) = ss /\ ss = << >>
    BY <1>1 DEF FlattenSeq
  <2>2. QED
    BY <1>1, <2>1
<1>2. CASE Len(ss) # 0
  <2> DEFINE f == CHOOSE f : IsListing(f, ss)
  <2>1. IsListing(f, ss) /\ FlattenSeq(ss) = f[Len(ss)]
    BY <1>2, FlattenIs, ListingExists
  <2> HIDE DEF f
  <2>2. \A i \in 1 .. Len(ss) : f[i] = IF i = 1 THEN ss[i] ELSE f[i - 1] \o ss[i]
    BY <2>1 DEF IsListing
  <2> DEFINE Good(n) == /\ f[n] \in Seq(X)
                        /\ \A i \in 1 .. n : Range(ss[i]) \subseteq Range(f[n])
             N == {n \in Nat : n \in 1 .. Len(ss) => Good(n)}
  <2>3. 0 \in N
    OBVIOUS
  <2>4. ASSUME NEW n \in N  PROVE n + 1 \in N
    <3>1. n \in Nat /\ n + 1 \in Nat
      OBVIOUS
    <3>2. SUFFICES ASSUME n + 1 \in 1 .. Len(ss)  PROVE Good(n + 1)
      BY <3>1
    <3>3. CASE n = 0
      <4>2. 1 \in 1 .. Len(ss) /\ n + 1 = 1
        BY <1>0, <1>2, <3>3
      <4>1. f[n + 1] = ss[1]
        BY <4>2, <2>2
      <4>3. QED
        BY <4>1, <4>2, <1>0
    <3>4. CASE n # 0
      <4>1. n \in 1 .. Len(ss) /\ n + 1 # 1 /\ (n + 1) - 1 = n
        BY <3>1, <3>2, <3>4, <1>0
      <4>2. Good(n)
        BY <4>1
      <4>3. f[n + 1] = f[n] \o ss[n + 1]
        BY <2>2, <3>2, <4>1
      <4>4. f[n] \in Seq(X) /\ ss[n + 1] \in Seq(X)
        BY <4>2, <3>2, <1>0
      <4>5. f[n + 1] \in Seq(X) /\ Range(f[n + 1]) = Range(f[n]) \cup Range(ss[n + 1])
        BY <4>3, <4>4, RangeConcat
      <4>6. \A i \in 1 .. n + 1 : i \in 1 .. n \/ i = n + 1
        BY <3>1
      <4>7. QED
        BY <4>2, <4>5, <4>6
    <3>5. QED
      BY <3>3, <3>4
  <2>5. N = Nat
    <3>1. N \in SUBSET Nat
      OBVIOUS
    <3> HIDE DEF N
    <3>2. QED
      BY <3>1, <2>3, <2>4, NaturalInduction
  <2>6. Good(Len(ss))
    <3>1. Len(ss) \in 1 .. Len(ss)
      BY <1>0, <1>2
    <3>2. Len(ss) \in N
      BY <1>0, <2>5
    <3>3. QED
      BY <3>1, <3>2
  <2>7. QED
    BY <2>1, <2>6
<1>3. QED
  BY <1>1, <1>2

\* The sums of the subsets of a set, one element at a time.
LEMMA SumOfIn ==
  ASSUME NEW S, IsFiniteSet(S), NEW w \in [S -> Int]
  PROVE  \A R \in SUBSET S : /\ SumOf(w, R) \in Int
                             /\ \A x \in R : SumOf(w, R) = w[x] + SumOf(w, R \ {x})
                             /\ R = {} => SumOf(w, R) = 0
<1>1. PICK g \in [SUBSET S -> Int] : IsTable(g, w, S)
  BY TableExists
<1>2. \A R \in SUBSET S : SumOf(w, R) = g[R]
  BY <1>1, SumOfSubset
<1>3. ASSUME NEW R \in SUBSET S, NEW x \in R
      PROVE  SumOf(w, R) = w[x] + SumOf(w, R \ {x})
  <2> DEFINE r == [y \in R |-> w[y]]
  <2>1. r \in [R -> Int] /\ IsFiniteSet(R)
    BY FS_Subset
  <2>2. r[x] = w[x] /\ \A y \in R : r[y] = w[y]
    OBVIOUS
  <2> HIDE DEF r
  <2>3. SumOf(r, R) = r[x] + SumOf(r, R \ {x})
    BY <2>1, SumOfRemove
  <2>4. R \ {x} \in SUBSET S /\ \A y \in R \ {x} : r[y] = w[y]
    BY <2>2
  <2>5. SumOf(r, R) = g[R] /\ SumOf(r, R \ {x}) = g[R \ {x}]
    BY <1>1, <2>2, <2>4, SumOfSubset
  <2>6. QED
    BY <1>2, <2>2, <2>3, <2>4, <2>5
<1>4. QED
  BY <1>1, <1>2, <1>3, SumOfEmpty

\* Two sums of the same weights, listed differently.
LEMMA SumOfBijection ==
  ASSUME NEW S, IsFiniteSet(S), NEW w \in [S -> Nat],
         NEW T, IsFiniteSet(T), NEW v \in [T -> Nat],
         NEW m \in [S -> T], \A x, y \in S : m[x] = m[y] => x = y,
         \A t \in T : \E x \in S : m[x] = t,
         \A x \in S : w[x] = v[m[x]]
  PROVE  SumOf(w, S) = SumOf(v, T)
<1> DEFINE back == [t \in T |-> CHOOSE x \in S : m[x] = t]
<1>1. \A t \in T : back[t] \in S /\ m[back[t]] = t
  OBVIOUS
<1>2. back \in [T -> S]
  BY <1>1
<1> HIDE DEF back
<1>3. \A x \in S : w[x] <= v[m[x]]
  <2>1. SUFFICES ASSUME NEW x \in S  PROVE w[x] <= v[m[x]]
    OBVIOUS
  <2>2. w[x] = v[m[x]] /\ w[x] \in Nat
    OBVIOUS
  <2>3. QED
    BY <2>2
<1>4. \A t \in T : v[t] <= w[back[t]]
  <2>1. SUFFICES ASSUME NEW t \in T  PROVE v[t] <= w[back[t]]
    OBVIOUS
  <2>2. w[back[t]] = v[t] /\ v[t] \in Nat
    BY <1>1
  <2>3. QED
    BY <2>2
<1>5. \A x, y \in T : back[x] = back[y] => x = y
  BY <1>1
<1>6. SumOf(w, S) <= SumOf(v, T)
  BY <1>3, SumOfInjection
<1>7. SumOf(v, T) <= SumOf(w, S)
  BY <1>2, <1>4, <1>5, SumOfInjection
<1>8. SumOf(w, S) \in Nat /\ SumOf(v, T) \in Nat
  BY SumOfNat
<1>9. QED
  BY <1>6, <1>7, <1>8

\* The same, for a listing that is known to be one.
LEMMA SumOfListed ==
  ASSUME NEW S, IsFiniteSet(S), NEW T, IsFiniteSet(T), NEW v \in [T -> Nat],
         NEW m \in Bijection(S, T)
  PROVE  SumOf([x \in S |-> v[m[x]]], S) = SumOf(v, T)
<1> DEFINE w == [x \in S |-> v[m[x]]]
<1>1. /\ m \in [S -> T] /\ \A x, y \in S : m[x] = m[y] => x = y
      /\ \A t \in T : \E x \in S : m[x] = t
  BY DEF Bijection, Injection, Surjection, IsInjective
<1>2. w \in [S -> Nat] /\ \A x \in S : w[x] = v[m[x]]
  BY <1>1
<1> HIDE DEF w
<1>3. SumOf(w, S) = SumOf(v, T)
  BY <1>1, <1>2, SumOfBijection
<1>4. QED
  BY <1>3 DEF w

\* The sum of two weights.
LEMMA SumOfBoth ==
  ASSUME NEW S, IsFiniteSet(S), NEW w \in [S -> Int], NEW v \in [S -> Int],
         NEW u \in [S -> Int], \A x \in S : u[x] = w[x] + v[x]
  PROVE  SumOf(u, S) = SumOf(w, S) + SumOf(v, S)
<1> DEFINE Bad == {R \in SUBSET S : SumOf(u, R) # SumOf(w, R) + SumOf(v, R)}
<1>1. Bad = {}
  <2>1. SUFFICES ASSUME Bad # {} PROVE FALSE
    OBVIOUS
  <2>2. Bad \in SUBSET SUBSET S
    OBVIOUS
  <2>3. PICK R \in Bad : \A Q \in Bad : Q \subseteq R => Q = R
    <3> HIDE DEF Bad
    <3> QED BY <2>1, <2>2, SmallestSubset
  <2>4. R \in SUBSET S /\ SumOf(u, R) # SumOf(w, R) + SumOf(v, R)
    OBVIOUS
  <2>5. R # {}
    <3>1. R = {} => SumOf(u, R) = 0 /\ SumOf(w, R) = 0 /\ SumOf(v, R) = 0
      BY SumOfEmpty
    <3>2. QED
      BY <3>1, <2>4
  <2>6. PICK x \in R : TRUE
    BY <2>5
  <2> DEFINE Q == R \ {x}
  <2>7. Q \in SUBSET S /\ Q \subseteq R /\ Q # R /\ x \in S
    BY <2>4, <2>6
  <2>8. Q \notin Bad
    <3> HIDE DEF Bad, Q
    <3> QED BY <2>3, <2>7
  <2>9. SumOf(u, Q) = SumOf(w, Q) + SumOf(v, Q)
    BY <2>7, <2>8
  <2>10. /\ SumOf(u, R) = u[x] + SumOf(u, Q) /\ SumOf(w, R) = w[x] + SumOf(w, Q)
         /\ SumOf(v, R) = v[x] + SumOf(v, Q)
         /\ SumOf(u, Q) \in Int /\ SumOf(w, Q) \in Int /\ SumOf(v, Q) \in Int
    BY <2>4, <2>6, <2>7, SumOfIn
  <2>11. u[x] = w[x] + v[x] /\ u[x] \in Int /\ w[x] \in Int /\ v[x] \in Int
    BY <2>7
  <2> HIDE DEF Q
  <2>12. QED
    BY <2>4, <2>9, <2>10, <2>11
<1>2. QED
  BY <1>1

\* Nothing but zeros, at most one that is not, and the other way round.
LEMMA SumOfFew ==
  ASSUME NEW S, IsFiniteSet(S), NEW w \in [S -> Nat]
  PROVE  /\ (\A x \in S : w[x] = 0) <=> SumOf(w, S) = 0
         /\ \A a \in S : (\A x \in S \ {a} : w[x] = 0) => SumOf(w, S) = w[a]
<1>1. w \in [S -> Int]
  OBVIOUS
<1>2. \A R \in SUBSET S : (\A x \in R : w[x] = 0) => SumOf(w, R) = 0
  <2>1. SUFFICES ASSUME NEW R \in SUBSET S, \A x \in R : w[x] = 0
                 PROVE  SumOf(w, R) = 0
    OBVIOUS
  <2> DEFINE z == [x \in R |-> 0]
  <2>2. IsFiniteSet(R) /\ z \in [R -> Int] /\ \A x \in R : w[x] = z[x]
    BY <2>1, FS_Subset
  <2>3. SumOf(z, R) = 0
    BY <2>2, SumOfZero
  <2> HIDE DEF z
  <2>4. SumOf(w, R) = SumOf(z, R)
    BY <2>2, SumOfSame
  <2>5. QED
    BY <2>3, <2>4
<1>3. ASSUME SumOf(w, S) = 0, NEW x \in S  PROVE w[x] = 0
  <2>1. SumOf(w, S) - w[x] \in Nat /\ w[x] \in Nat
    BY SumOfAtLeast
  <2>2. QED
    BY <1>3, <2>1
<1>4. ASSUME NEW a \in S, \A x \in S \ {a} : w[x] = 0  PROVE SumOf(w, S) = w[a]
  <2>1. SumOf(w, S) = w[a] + SumOf(w, S \ {a})
    BY <1>1, SumOfRemove
  <2>2. SumOf(w, S \ {a}) = 0
    BY <1>2, <1>4
  <2>3. QED
    BY <2>1, <2>2
<1>5. QED
  BY <1>2, <1>3, <1>4

\* Rows first or columns first.
LEMMA SumOfSums ==
  ASSUME NEW S, IsFiniteSet(S), NEW T, IsFiniteSet(T), NEW M \in [S -> [T -> Nat]]
  PROVE  SumOf([x \in S |-> SumOf(M[x], T)], S)
         = SumOf([y \in T |-> SumOf([x \in S |-> M[x][y]], S)], T)
<1> DEFINE row == [x \in S |-> SumOf(M[x], T)]
           Col(y) == [x \in S |-> M[x][y]]
           cols(R) == [y \in T |-> SumOf(Col(y), R)]
           Bad == {R \in SUBSET S : SumOf(row, R) # SumOf(cols(R), T)}
<1>1. row \in [S -> Int] /\ \A x \in S : M[x] \in [T -> Int] /\ row[x] = SumOf(M[x], T)
  <2>1. \A x \in S : M[x] \in [T -> Nat] /\ M[x] \in [T -> Int]
    OBVIOUS
  <2>2. \A x \in S : SumOf(M[x], T) \in Nat
    BY <2>1, SumOfNat
  <2>3. QED
    BY <2>1, <2>2
<1>2. \A y \in T : Col(y) \in [S -> Int] /\ \A x \in S : Col(y)[x] = M[x][y]
  OBVIOUS
<1> HIDE DEF row, Col
<1>3. ASSUME NEW R \in SUBSET S
      PROVE  /\ cols(R) \in [T -> Int] /\ \A y \in T : cols(R)[y] = SumOf(Col(y), R)
             /\ R = {} => SumOf(cols(R), T) = 0
  <2>1. \A y \in T : SumOf(Col(y), R) \in Int
    BY <1>2, SumOfIn
  <2>2. R = {} => \A y \in T : SumOf(Col(y), R) = 0
    BY SumOfEmpty
  <2>3. ASSUME R = {} PROVE SumOf(cols(R), T) = 0
    <3>1. cols(R) = [y \in T |-> 0]
      BY <2>2, <2>3
    <3>2. QED
      BY <3>1, SumOfZero
  <2>4. QED
    BY <2>1, <2>3
<1>4. Bad = {}
  <2>1. SUFFICES ASSUME Bad # {} PROVE FALSE
    OBVIOUS
  <2>2. Bad \in SUBSET SUBSET S
    OBVIOUS
  <2>3. PICK R \in Bad : \A Q \in Bad : Q \subseteq R => Q = R
    <3> HIDE DEF Bad
    <3> QED BY <2>1, <2>2, SmallestSubset
  <2>4. R \in SUBSET S /\ SumOf(row, R) # SumOf(cols(R), T)
    OBVIOUS
  <2>5. R # {}
    BY <1>3, <2>4, SumOfEmpty
  <2>6. PICK x \in R : TRUE
    BY <2>5
  <2> DEFINE Q == R \ {x}
  <2>7. Q \in SUBSET S /\ Q \subseteq R /\ Q # R /\ x \in S
    BY <2>4, <2>6
  <2>8. Q \notin Bad
    <3> HIDE DEF Bad, Q
    <3> QED BY <2>3, <2>7
  <2>9. SumOf(row, Q) = SumOf(cols(Q), T)
    BY <2>7, <2>8
  <2>10. /\ SumOf(row, R) = row[x] + SumOf(row, Q)
         /\ SumOf(row, Q) \in Int
    BY <1>1, <2>4, <2>6, <2>7, SumOfIn
  <2>11. \A y \in T : SumOf(Col(y), R) = M[x][y] + SumOf(Col(y), Q)
    BY <1>2, <2>4, <2>6, <2>7, SumOfIn
  <2>12. \A y \in T : cols(R)[y] = M[x][y] + cols(Q)[y]
    BY <2>11, <2>4, <2>7, <1>3
  <2>13. SumOf(cols(R), T) = SumOf(M[x], T) + SumOf(cols(Q), T)
    <3> HIDE DEF cols, Q
    <3>1. cols(R) \in [T -> Int] /\ cols(Q) \in [T -> Int] /\ M[x] \in [T -> Int]
      BY <1>1, <1>3, <2>4, <2>7
    <3>2. QED
      BY <2>12, <3>1, SumOfBoth
  <2>14. QED
    BY <2>4, <2>9, <2>10, <2>13, <1>1, <2>7
<1>5. QED
  BY <1>4 DEF row, Col
\* Two sets that share nothing.
LEMMA SumOfUnion ==
  ASSUME NEW A, IsFiniteSet(A), NEW B, IsFiniteSet(B), A \cap B = {},
         NEW w \in [A \cup B -> Int]
  PROVE  SumOf(w, A \cup B) = SumOf(w, A) + SumOf(w, B)
<1> DEFINE S == A \cup B
           Bad == {R \in SUBSET B : SumOf(w, A \cup R) # SumOf(w, A) + SumOf(w, R)}
<1>0. IsFiniteSet(S) /\ A \in SUBSET S /\ w \in [S -> Int]
  BY FS_Union
<1>1. Bad = {}
  <2>1. SUFFICES ASSUME Bad # {} PROVE FALSE
    OBVIOUS
  <2>2. Bad \in SUBSET SUBSET B
    OBVIOUS
  <2>3. PICK R \in Bad : \A Q \in Bad : Q \subseteq R => Q = R
    <3> HIDE DEF Bad
    <3> QED BY <2>1, <2>2, SmallestSubset
  <2>4. R \in SUBSET B /\ SumOf(w, A \cup R) # SumOf(w, A) + SumOf(w, R)
    OBVIOUS
  <2>5. R # {}
    <3>1. ASSUME R = {} PROVE FALSE
      <4>1. A \cup R = A /\ SumOf(w, R) = 0 /\ SumOf(w, A) \in Int
        BY <3>1, SumOfEmpty, SumOfIn, <1>0
      <4>2. SumOf(w, A \cup R) = SumOf(w, A)
        BY <4>1
      <4> HIDE DEF Bad, S
      <4>3. QED
        BY <4>1, <4>2, <2>4
    <3>2. QED
      BY <3>1
  <2>6. PICK x \in R : TRUE
    BY <2>5
  <2> DEFINE Q == R \ {x}
  <2>7. /\ Q \in SUBSET B /\ Q \subseteq R /\ Q # R /\ x \in S /\ x \in A \cup R
        /\ (A \cup R) \ {x} = A \cup Q
        /\ A \cup R \in SUBSET S /\ A \cup Q \in SUBSET S
        /\ R \in SUBSET S /\ Q \in SUBSET S
    BY <2>4, <2>6
  <2>8. Q \notin Bad
    <3> HIDE DEF Bad, Q
    <3> QED BY <2>3, <2>7
  <2>9. SumOf(w, A \cup Q) = SumOf(w, A) + SumOf(w, Q)
    BY <2>7, <2>8
  <2> HIDE DEF Q, S
  <2>10. SumOf(w, A \cup R) = w[x] + SumOf(w, A \cup Q)
    BY <1>0, <2>7, SumOfIn
  <2>11. SumOf(w, R) = w[x] + SumOf(w, Q)
    BY <1>0, <2>6, <2>7, SumOfIn DEF Q
  <2>12. w[x] \in Int /\ SumOf(w, Q) \in Int /\ SumOf(w, A) \in Int
    BY <1>0, <2>7, SumOfIn
  <2>13. QED
    BY <2>4, <2>9, <2>10, <2>11, <2>12
<1>2. QED
  BY <1>1

-----------------------------------------------------------------------------
(* Sums along a sequence: W weighs its items.                              *)

Along(W, s) == [i \in DOMAIN s |-> W[s[i]]]
Total(W, s) == SumOf(Along(W, s), DOMAIN s)

\* The weights along a sequence are naturals, and so is their total.
LEMMA AlongIs ==
  ASSUME NEW X, NEW W \in [X -> Nat], NEW s \in Seq(X)
  PROVE  /\ IsFiniteSet(DOMAIN s) /\ DOMAIN s = 1 .. Len(s) /\ Len(s) \in Nat
         /\ Along(W, s) \in [DOMAIN s -> Nat] /\ Along(W, s) \in [DOMAIN s -> Int]
         /\ \A i \in DOMAIN s : Along(W, s)[i] = W[s[i]] /\ s[i] \in X
         /\ Total(W, s) \in Nat
<1>1. DOMAIN s = 1 .. Len(s) /\ Len(s) \in Nat /\ \A i \in DOMAIN s : s[i] \in X
  OBVIOUS
<1>2. IsFiniteSet(DOMAIN s)
  BY <1>1, FS_Interval
<1>3. /\ Along(W, s) \in [DOMAIN s -> Nat] /\ Along(W, s) \in [DOMAIN s -> Int]
      /\ \A i \in DOMAIN s : Along(W, s)[i] = W[s[i]]
  BY <1>1 DEF Along
<1>4. Total(W, s) \in Nat
  BY <1>2, <1>3, SumOfNat DEF Total
<1>5. QED
  BY <1>1, <1>2, <1>3, <1>4

\* No items weigh nothing.
LEMMA TotalOfNone ==
  ASSUME NEW W
  PROVE  Total(W, << >>) = 0
<1>1. DOMAIN << >> = {}
  OBVIOUS
<1>2. QED
  BY <1>1, SumOfEmpty DEF Total

\* Items that weigh the same.
LEMMA TotalOfSame ==
  ASSUME NEW s, NEW V, NEW W, \A i \in DOMAIN s : V[s[i]] = W[s[i]]
  PROVE  Total(V, s) = Total(W, s)
<1>1. Along(V, s) = Along(W, s)
  BY DEF Along
<1>2. QED
  BY <1>1 DEF Total

\* One item weighs its weight.
LEMMA TotalOfOne ==
  ASSUME NEW X, NEW W \in [X -> Nat], NEW x \in X
  PROVE  Total(W, <<x>>) = W[x]
<1> DEFINE s == <<x>>
<1>1. s \in Seq(X) /\ DOMAIN s = {1} /\ s[1] = x
  OBVIOUS
<1> HIDE DEF s
<1>2. /\ IsFiniteSet(DOMAIN s) /\ Along(W, s) \in [DOMAIN s -> Nat]
      /\ Along(W, s)[1] = W[x]
  BY <1>1, AlongIs
<1>3. SumOf(Along(W, s), DOMAIN s) = Along(W, s)[1]
  BY <1>1, <1>2, SumOfFew
<1>4. QED
  BY <1>2, <1>3 DEF Total, s

\* Two sequences, one after the other, weigh what they weigh together.
LEMMA TotalOfConcat ==
  ASSUME NEW X, NEW W \in [X -> Nat], NEW s \in Seq(X), NEW t \in Seq(X)
  PROVE  Total(W, s \o t) = Total(W, s) + Total(W, t)
<1>1. /\ s \o t \in Seq(X) /\ Len(s) \in Nat /\ Len(t) \in Nat
      /\ Len(s \o t) = Len(s) + Len(t)
      /\ \A i \in 1 .. Len(s) + Len(t) :
           (s \o t)[i] = IF i <= Len(s) THEN s[i] ELSE t[i - Len(s)]
  OBVIOUS
<1>2. SUFFICES ASSUME NEW u \in Seq(X), NEW m \in Nat, NEW n \in Nat,
                      m = Len(s), n = Len(t), Len(u) = m + n,
                      \A i \in 1 .. m + n : u[i] = IF i <= m THEN s[i] ELSE t[i - m]
               PROVE  Total(W, u) = Total(W, s) + Total(W, t)
  BY <1>1
<1>d. DOMAIN u = 1 .. m + n /\ DOMAIN s = 1 .. m /\ DOMAIN t = 1 .. n
  BY <1>2
<1> DEFINE w == Along(W, u)
           a == Along(W, s)
           b == Along(W, t)
           A == 1 .. m
           B == m + 1 .. m + n
           C == 1 .. n
           v == [i \in B |-> w[i]]
           shift == [i \in C |-> m + i]
<1>a. /\ w \in [DOMAIN u -> Nat] /\ a \in [DOMAIN s -> Int] /\ b \in [DOMAIN t -> Nat]
      /\ \A i \in DOMAIN u : w[i] = W[u[i]]
      /\ \A i \in DOMAIN s : a[i] = W[s[i]]
      /\ \A i \in DOMAIN t : b[i] = W[t[i]]
  <2>1. /\ \A i \in DOMAIN u : W[u[i]] \in Nat
        /\ \A i \in DOMAIN s : W[s[i]] \in Int
        /\ \A i \in DOMAIN t : W[t[i]] \in Nat
    OBVIOUS
  <2>2. QED
    BY <2>1 DEF Along
<1>h. Total(W, u) = SumOf(w, DOMAIN u) /\ Total(W, s) = SumOf(a, DOMAIN s)
      /\ Total(W, t) = SumOf(b, DOMAIN t)
  BY DEF Total
<1> HIDE DEF w, a, b
<1>3. w \in [1 .. m + n -> Nat] /\ \A i \in 1 .. m + n : w[i] = W[u[i]]
  BY <1>a, <1>d
<1>4. a \in [A -> Int] /\ \A i \in A : a[i] = W[s[i]]
  BY <1>a, <1>d
<1>5. b \in [C -> Nat] /\ \A i \in C : b[i] = W[t[i]]
  BY <1>a, <1>d
<1>6. /\ A \cap B = {} /\ A \cup B = 1 .. m + n
      /\ IsFiniteSet(A) /\ IsFiniteSet(B) /\ IsFiniteSet(C)
  <2>1. \A i : i \in 1 .. m + n <=> i \in 1 .. m \/ i \in m + 1 .. m + n
    OBVIOUS
  <2>2. \A i : ~(i \in 1 .. m /\ i \in m + 1 .. m + n)
    OBVIOUS
  <2>3. IsFiniteSet(A) /\ IsFiniteSet(B) /\ IsFiniteSet(C)
    BY FS_Interval
  <2>4. QED
    BY <2>1, <2>2, <2>3
<1>c. \A i \in C : shift[i] = m + i
  OBVIOUS
<1>7. shift \in Bijection(C, B)
  <2>1. shift \in [C -> B] /\ \A i \in C : shift[i] = m + i
    OBVIOUS
  <2>2. \A i, j \in C : m + i = m + j => i = j
    OBVIOUS
  <2>3. ASSUME NEW k \in B  PROVE \E i \in C : shift[i] = k
    <3>1. k - m \in C /\ m + (k - m) = k
      OBVIOUS
    <3>2. QED
      BY <3>1, <2>1
  <2> HIDE DEF shift, C, B
  <2>4. IsInjective(shift)
    BY <2>1, <2>2 DEF IsInjective
  <2>5. QED
    BY <2>1, <2>3, <2>4 DEF Bijection, Injection, Surjection
<1>b. IsFiniteSet(B) /\ IsFiniteSet(C) /\ IsFiniteSet(A) /\ A \cap B = {}
  BY <1>6
<1>8. v \in [B -> Nat] /\ v \in [B -> Int] /\ \A i \in B : v[i] = w[i]
  BY <1>3, <1>6
<1>e. w \in [A \cup B -> Int]
  BY <1>3, <1>6
<1>9. [i \in C |-> v[shift[i]]] = b
  <2>1. ASSUME NEW i \in C  PROVE b[i] = v[shift[i]]
    <3>1. /\ m + i \in B /\ m + i \in 1 .. m + n /\ ~(m + i <= m) /\ (m + i) - m = i
      OBVIOUS
    <3> HIDE DEF v, B, shift
    <3>2. v[shift[i]] = W[u[m + i]] /\ u[m + i] = t[i]
      BY <1>2, <1>3, <1>c, <1>8, <3>1
    <3>3. QED
      BY <3>2, <1>5
  <2> HIDE DEF v, B, shift
  <2>2. QED
    BY <2>1, <1>5
<1>10. \A i \in A : w[i] = a[i]
  <2>1. ASSUME NEW i \in A PROVE w[i] = a[i]
    <3>1. i \in 1 .. m + n /\ i <= m
      OBVIOUS
    <3>2. u[i] = s[i]
      BY <3>1, <1>2
    <3>3. QED
      BY <3>1, <3>2, <1>3, <1>4
  <2>2. QED
    BY <2>1
<1>11. Total(W, u) = SumOf(w, A \cup B)
  BY <1>h, <1>d, <1>6
<1>12. Total(W, s) = SumOf(a, A) /\ Total(W, t) = SumOf(b, C)
  BY <1>h, <1>d
<1> HIDE DEF v, A, B, C, shift
<1>14. SumOf(b, C) = SumOf(v, B)
  <2>1. SumOf([i \in C |-> v[shift[i]]], C) = SumOf(v, B)
    BY <1>b, <1>7, <1>8, SumOfListed
  <2>2. QED
    BY <2>1, <1>9
<1>15. SumOf(w, B) = SumOf(v, B)
  BY <1>b, <1>8, SumOfSame
<1>16. SumOf(w, A) = SumOf(a, A)
  BY <1>b, <1>10, <1>4, SumOfSame
<1>17. SumOf(w, A \cup B) = SumOf(w, A) + SumOf(w, B)
  BY <1>b, <1>e, SumOfUnion
<1>18. QED
  BY <1>11, <1>12, <1>14, <1>15, <1>16, <1>17

\* What each part of a table weighs.
Totals(W, ss) == [p \in DOMAIN ss |-> Total(W, ss[p])]

\* A table weighs what its parts weigh, and holds what they hold.
LEMMA TotalOfFlatten ==
  ASSUME NEW X, NEW W \in [X -> Nat], NEW ss \in Seq(Seq(X))
  PROVE  /\ FlattenSeq(ss) \in Seq(X)
         /\ Total(W, FlattenSeq(ss)) = SumOf(Totals(W, ss), DOMAIN ss)
         /\ Range(FlattenSeq(ss)) = UNION {Range(ss[p]) : p \in DOMAIN ss}
<1>0. /\ Len(ss) \in Nat /\ DOMAIN ss = 1 .. Len(ss)
      /\ \A i \in 1 .. Len(ss) : ss[i] \in Seq(X)
  OBVIOUS
<1> DEFINE c == Totals(W, ss)
<1>a. /\ c \in [1 .. Len(ss) -> Int] /\ IsFiniteSet(1 .. Len(ss))
      /\ \A i \in 1 .. Len(ss) : c[i] = Total(W, ss[i])
  <2>1. \A i \in 1 .. Len(ss) : Total(W, ss[i]) \in Nat
    BY <1>0, AlongIs
  <2>2. QED
    BY <2>1, <1>0, FS_Interval DEF Totals
<1> HIDE DEF c
<1>1. CASE Len(ss) = 0
  <2>1. FlattenSeq(ss) = ss /\ ss = << >> /\ DOMAIN ss = {}
    BY <1>1, <1>0 DEF FlattenSeq
  <2>2. Total(W, << >>) = 0 /\ SumOf(c, {}) = 0 /\ Range(<< >>) = {}
    BY TotalOfNone, SumOfEmpty, RangeOfNone
  <2>3. QED
    BY <2>1, <2>2 DEF c
<1>2. CASE Len(ss) # 0
  <2> DEFINE f == CHOOSE f : IsListing(f, ss)
  <2>1. IsListing(f, ss) /\ FlattenSeq(ss) = f[Len(ss)]
    BY <1>2, FlattenIs, ListingExists
  <2> HIDE DEF f
  <2>2. \A i \in 1 .. Len(ss) : f[i] = IF i = 1 THEN ss[i] ELSE f[i - 1] \o ss[i]
    BY <2>1 DEF IsListing
  <2> DEFINE Good(n) == /\ f[n] \in Seq(X)
                        /\ Total(W, f[n]) = SumOf(c, 1 .. n)
                        /\ Range(f[n]) = UNION {Range(ss[i]) : i \in 1 .. n}
             N == {n \in Nat : n \in 1 .. Len(ss) => Good(n)}
  <2>3. 0 \in N
    OBVIOUS
  <2>4. ASSUME NEW n \in N  PROVE n + 1 \in N
    <3>1. n \in Nat /\ n + 1 \in Nat
      OBVIOUS
    <3>2. SUFFICES ASSUME n + 1 \in 1 .. Len(ss)  PROVE Good(n + 1)
      BY <3>1
    <3>6. /\ 1 .. n + 1 \in SUBSET (1 .. Len(ss)) /\ n + 1 \in 1 .. n + 1
          /\ (1 .. n + 1) \ {n + 1} = 1 .. n
      BY <3>1, <3>2, <1>0
    <3>7. SumOf(c, 1 .. n + 1) = c[n + 1] + SumOf(c, 1 .. n)
      <4> DEFINE R == 1 .. n + 1
                 D == 1 .. Len(ss)
                 x == n + 1
      <4>1. R \in SUBSET D /\ x \in R /\ R \ {x} = 1 .. n
        BY <3>6
      <4>2. IsFiniteSet(D) /\ c \in [D -> Int]
        BY <1>a
      <4> HIDE DEF R, D, x
      <4>3. SumOf(c, R) = c[x] + SumOf(c, R \ {x})
        BY <4>1, <4>2, SumOfIn
      <4>4. QED
        BY <4>1, <4>3 DEF R, x
    <3>8. c[n + 1] = Total(W, ss[n + 1]) /\ c[n + 1] \in Int
      BY <1>a, <3>2
    <3>3. CASE n = 0
      <4>0. n + 1 = 1
        BY <3>3
      <4>1. f[n + 1] = ss[n + 1]
        BY <4>0, <3>2, <2>2
      <4>2. 1 .. n = {} /\ 1 .. n + 1 = {n + 1}
        BY <3>3
      <4>3. SumOf(c, 1 .. n) = 0
        BY <4>2, SumOfEmpty
      <4>4. Total(W, f[n + 1]) = SumOf(c, 1 .. n + 1)
        BY <4>1, <4>3, <3>7, <3>8
      <4>5. Range(f[n + 1]) = UNION {Range(ss[i]) : i \in 1 .. n + 1}
        BY <4>1, <4>2
      <4>6. f[n + 1] \in Seq(X)
        BY <4>1, <1>0, <3>2
      <4>7. QED
        BY <4>4, <4>5, <4>6
    <3>4. CASE n # 0
      <4>1. n \in 1 .. Len(ss) /\ n + 1 # 1 /\ (n + 1) - 1 = n
        BY <3>1, <3>2, <3>4, <1>0
      <4>2. Good(n)
        BY <4>1
      <4>3. f[n + 1] = f[n] \o ss[n + 1]
        BY <2>2, <3>2, <4>1
      <4>4. f[n] \in Seq(X) /\ ss[n + 1] \in Seq(X)
        BY <4>2, <3>2, <1>0
      <4>5. f[n + 1] \in Seq(X) /\ Range(f[n + 1]) = Range(f[n]) \cup Range(ss[n + 1])
        BY <4>3, <4>4, RangeConcat
      <4>6. \A i : i \in 1 .. n + 1 <=> i \in 1 .. n \/ i = n + 1
        BY <3>1
      <4>7. Total(W, f[n + 1]) = Total(W, f[n]) + Total(W, ss[n + 1])
        BY <4>3, <4>4, TotalOfConcat
      <4>8. Total(W, f[n + 1]) = SumOf(c, 1 .. n + 1)
        <5>1. Total(W, f[n]) \in Nat
          BY <4>4, AlongIs
        <5>2. QED
          BY <5>1, <4>7, <4>2, <3>7, <3>8
      <4>9. Range(f[n + 1]) = UNION {Range(ss[i]) : i \in 1 .. n + 1}
        BY <4>2, <4>5, <4>6
      <4>10. QED
        BY <4>5, <4>8, <4>9
    <3>5. QED
      BY <3>3, <3>4
  <2>5. N = Nat
    <3>1. N \in SUBSET Nat
      OBVIOUS
    <3> HIDE DEF N
    <3>2. QED
      BY <3>1, <2>3, <2>4, NaturalInduction
  <2>6. Good(Len(ss))
    <3>1. Len(ss) \in 1 .. Len(ss)
      BY <1>0, <1>2
    <3>2. Len(ss) \in N
      <4> HIDE DEF N
      <4> QED BY <1>0, <2>5
    <3>3. QED
      BY <3>1, <3>2
  <2>7. QED
    BY <2>1, <2>6, <1>0 DEF c
<1>3. QED
  BY <1>1, <1>2
=============================================================================
