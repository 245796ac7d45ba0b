------------------------ MODULE LocalClusterProofs ------------------------
(***************************************************************************)
(* Theorems about the in-process cluster and about remote aggregates and   *)
(* joins, for every table, number of partitions, hash and schedule.        *)
(*                                                                         *)
(* An aggregate of rows is read off three measures of a column: its total, *)
(* its least and its greatest value that is not NULL.  None depends on the *)
(* order of the rows, all of a table follow from those of its parts, and a *)
(* partial row carries those of one partition.  So merging partial rows    *)
(* gives the native aggregate, in whatever order they come, if each is     *)
(* there once; LoopInv says that it is when execute merges.                *)
(*                                                                         *)
(* Routing by a hash keeps the rows of a key together.  A destination      *)
(* therefore has the measures of its groups, and the matches of its left   *)
(* rows, that the whole table has.  Tables have the same rows if every row *)
(* is there equally often; a number of occurrences is a total as well.     *)
(***************************************************************************)
EXTENDS LocalCluster, SumProofs

-----------------------------------------------------------------------------
(* NULL is zero, and zero is neutral for sums, least and greatest values.  *)

\* The values of column W in the rows s.
Values(W, s) == {W[s[i]] : i \in DOMAIN s}

\* m is the least value of V that is not NULL, and NULL if there is none.
IsLeast(m, V) ==
  /\ m \in Nat
  /\ m = 0 => \A x \in V : x = 0
  /\ m # 0 => m \in V /\ \A x \in V : x = 0 \/ m <= x

\* m is the greatest value of V, and NULL if there is none.
IsGreatest(m, V) == m \in Nat /\ (m = 0 \/ m \in V) /\ \A x \in V : x <= m

LeastIn(V) == CHOOSE m : IsLeast(m, V)
GreatestIn(V) == CHOOSE m : IsGreatest(m, V)

\* There is one least value at most.
LEMMA LeastUnique ==
  ASSUME NEW V \in SUBSET Nat, NEW m, IsLeast(m, V)
  PROVE  LeastIn(V) = m
<1>1. \A n : IsLeast(n, V) => n = m
  <2>1. SUFFICES ASSUME NEW n, IsLeast(n, V)  PROVE n = m
    OBVIOUS
  <2>2. m \in Nat /\ n \in Nat
    BY <2>1 DEF IsLeast
  <2>3. CASE m = 0
    BY <2>1, <2>2, <2>3 DEF IsLeast
  <2>4. CASE n = 0
    BY <2>1, <2>2, <2>4 DEF IsLeast
  <2>5. CASE m # 0 /\ n # 0
    <3>1. m <= n /\ n <= m
      BY <2>1, <2>5 DEF IsLeast
    <3>2. QED
      BY <2>2, <3>1
  <2>6. QED
    BY <2>3, <2>4, <2>5
<1>2. IsLeast(LeastIn(V), V)
  BY DEF LeastIn
<1>3. QED
  BY <1>1, <1>2

\* There is one greatest value at most.
LEMMA GreatestUnique ==
  ASSUME NEW V \in SUBSET Nat, NEW m, IsGreatest(m, V)
  PROVE  GreatestIn(V) = m
<1>1. \A n : IsGreatest(n, V) => n = m
  <2>1. SUFFICES ASSUME NEW n, IsGreatest(n, V)  PROVE n = m
    OBVIOUS
  <2>2. m \in Nat /\ n \in Nat
    BY <2>1 DEF IsGreatest
  <2>3. m <= n /\ n <= m
    BY <2>1, <2>2 DEF IsGreatest
  <2>4. QED
    BY <2>2, <2>3
<1>2. IsGreatest(GreatestIn(V), V)
  BY DEF GreatestIn
<1>3. QED
  BY <1>1, <1>2

\* Naturals have a least one.
LEMMA LeastNumber ==
  ASSUME NEW S \in SUBSET Nat, S # {}
  PROVE  \E x \in S : \A y \in S : x <= y
<1>1. PICK x \in S : \A y \in S : ~(<<y, x>> \in OpToRel(<, Nat))
  BY NatLessThanWellFounded, WFMin
<1>2. ASSUME NEW y \in S  PROVE x <= y
  <2>1. x \in Nat /\ y \in Nat
    OBVIOUS
  <2>2. SUFFICES ASSUME y < x  PROVE FALSE
    BY <2>1
  <2>3. <<y, x>> \in OpToRel(<, Nat)
    BY <2>1, <2>2 DEF OpToRel
  <2>4. QED
    BY <1>1, <2>3
<1>3. QED
  BY <1>2

\* Every set of naturals has a least value, NULL if it holds nothing else.
LEMMA LeastExists ==
  ASSUME NEW V \in SUBSET Nat
  PROVE  IsLeast(LeastIn(V), V)
<1>1. CASE V \ {0} = {}
  <2>1. IsLeast(0, V)
    BY <1>1 DEF IsLeast
  <2>2. QED
    BY <2>1 DEF LeastIn
<1>2. CASE V \ {0} # {}
  <2>1. PICK x \in V \ {0} : \A y \in V \ {0} : x <= y
    BY <1>2, LeastNumber
  <2>2. IsLeast(x, V)
    BY <2>1 DEF IsLeast
  <2>3. QED
    BY <2>2 DEF LeastIn
<1>3. QED
  BY <1>1, <1>2

\* Finitely many naturals have a greatest one: their sum bounds them.
LEMMA GreatestExists ==
  ASSUME NEW D, IsFiniteSet(D), NEW v \in [D -> Nat]
  PROVE  IsGreatest(GreatestIn({v[i] : i \in D}), {v[i] : i \in D})
<1> DEFINE V == {v[i] : i \in D}
           U == {n \in Nat : \A x \in V : x <= n}
<1>1. SumOf(v, D) \in U
  <2>1. SumOf(v, D) \in Nat
    BY SumOfNat
  <2>2. ASSUME NEW i \in D  PROVE v[i] <= SumOf(v, D)
    <3>1. SumOf(v, D) - v[i] \in Nat /\ v[i] \in Nat
      BY SumOfAtLeast
    <3>2. QED
      BY <2>1, <3>1
  <2>3. QED
    BY <2>1, <2>2
<1>2. V \in SUBSET Nat
  OBVIOUS
<1> HIDE DEF V
<1>3. PICK m \in U : \A y \in U : m <= y
  <2>1. U # {} /\ U \in SUBSET Nat
    BY <1>1
  <2> HIDE DEF U
  <2>2. QED
    BY <2>1, LeastNumber
<1>4. m = 0 \/ m \in V
  <2>1. SUFFICES ASSUME m # 0, m \notin V  PROVE FALSE
    OBVIOUS
  <2>2. m - 1 \in Nat /\ m \in Nat
    BY <2>1
  <2>3. ASSUME NEW x \in V  PROVE x <= m - 1
    <3>1. x <= m /\ x # m /\ x \in Nat
      BY <2>1, <1>2
    <3>2. QED
      BY <3>1, <2>2
  <2>4. m - 1 \in U
    BY <2>2, <2>3
  <2>5. m <= m - 1
    BY <1>3, <2>4
  <2>6. QED
    BY <2>2, <2>5
<1>5. IsGreatest(m, V)
  BY <1>3, <1>4 DEF IsGreatest
<1>6. QED
  BY <1>5 DEF GreatestIn, V

\* One more value.
LEMMA LeastStep ==
  ASSUME NEW V \in SUBSET Nat, NEW x \in Nat
  PROVE  Least(LeastIn(V), x) = LeastIn(V \cup {x})
<1> DEFINE m == LeastIn(V)
<1>1. IsLeast(m, V)
  BY LeastExists
<1> HIDE DEF m
<1>2. IsLeast(Least(m, x), V \cup {x})
  <2>1. m \in Nat
    BY <1>1 DEF IsLeast
  <2>2. CASE m = 0
    BY <1>1, <2>2 DEF IsLeast, Least, Null
  <2>3. CASE m # 0 /\ x # 0 /\ x < m
    <3>1. Least(m, x) = x
      BY <2>3 DEF Least, Null
    <3>2. \A y \in V \cup {x} : y = 0 \/ x <= y
      <4>1. ASSUME NEW y \in V, y # 0  PROVE x <= y
        <5>1. m <= y /\ y \in Nat
          BY <1>1, <2>3, <4>1 DEF IsLeast
        <5>2. QED
          BY <5>1, <2>1, <2>3
      <4>2. QED
        BY <4>1
    <3>3. QED
      BY <3>1, <3>2, <2>3 DEF IsLeast
  <2>4. CASE m # 0 /\ ~(x # 0 /\ x < m)
    <3>1. Least(m, x) = m
      BY <2>4 DEF Least, Null
    <3>2. x = 0 \/ m <= x
      BY <2>1, <2>4
    <3>3. QED
      BY <1>1, <2>4, <3>1, <3>2 DEF IsLeast
  <2>5. QED
    BY <2>2, <2>3, <2>4
<1>3. V \cup {x} \in SUBSET Nat
  OBVIOUS
<1>4. QED
  BY <1>2, <1>3, LeastUnique DEF m

\* One more value, for the greatest.
LEMMA GreatestStep ==
  ASSUME NEW V \in SUBSET Nat, NEW x \in Nat, IsGreatest(GreatestIn(V), V)
  PROVE  Greatest(GreatestIn(V), x) = GreatestIn(V \cup {x})
<1> DEFINE m == GreatestIn(V)
<1>1. IsGreatest(m, V)
  OBVIOUS
<1> HIDE DEF m
<1>2. IsGreatest(Greatest(m, x), V \cup {x})
  <2>1. m \in Nat
    BY <1>1 DEF IsGreatest
  <2>2. CASE x > m
    <3>1. Greatest(m, x) = x
      BY <2>2 DEF Greatest
    <3>2. ASSUME NEW y \in V PROVE y <= x
      <4>1. y \in Nat /\ y <= m
        BY <1>1 DEF IsGreatest
      <4>2. QED
        BY <4>1, <2>1, <2>2
    <3>3. QED
      BY <3>1, <3>2 DEF IsGreatest
  <2>3. CASE ~(x > m)
    <3>1. Greatest(m, x) = m /\ x <= m
      BY <2>1, <2>3 DEF Greatest
    <3>2. QED
      BY <1>1, <3>1 DEF IsGreatest
  <2>4. QED
    BY <2>2, <2>3
<1>3. V \cup {x} \in SUBSET Nat
  OBVIOUS
<1>4. QED
  BY <1>2, <1>3, GreatestUnique DEF m

\* Only the values other than NULL matter.
LEMMA LeastSame ==
  ASSUME NEW V \in SUBSET Nat, NEW U \in SUBSET Nat, V \ {0} = U \ {0}
  PROVE  LeastIn(V) = LeastIn(U)
<1> DEFINE m == LeastIn(U)
<1>1. IsLeast(m, U)
  BY LeastExists
<1> HIDE DEF m
<1>2. \A x : x # 0 => (x \in V <=> x \in U)
  OBVIOUS
<1>3. IsLeast(m, V)
  BY <1>1, <1>2 DEF IsLeast
<1>4. QED
  BY <1>3, LeastUnique DEF m

\* The greatest value, with and without the NULLs.
LEMMA GreatestSame ==
  ASSUME NEW V \in SUBSET Nat, NEW U \in SUBSET Nat, V \ {0} = U \ {0},
         IsGreatest(GreatestIn(U), U)
  PROVE  GreatestIn(V) = GreatestIn(U)
<1> DEFINE m == GreatestIn(U)
<1>1. IsGreatest(m, U)
  OBVIOUS
<1> HIDE DEF m
<1>2. \A x : x # 0 => (x \in V <=> x \in U)
  OBVIOUS
<1>3. IsGreatest(m, V)
  BY <1>1, <1>2 DEF IsGreatest
<1>4. QED
  BY <1>3, GreatestUnique DEF m

\* Partial results: the least of the least, the greatest of the greatest.
LEMMA LeastOfParts ==
  ASSUME NEW P, NEW F \in [P -> SUBSET Nat]
  PROVE  LeastIn(UNION {F[p] : p \in P}) = LeastIn({LeastIn(F[p]) : p \in P})
<1> DEFINE V == UNION {F[p] : p \in P}
           L == [p \in P |-> LeastIn(F[p])]
           M == {LeastIn(F[p]) : p \in P}
           m == LeastIn(M)
<1>1. \A p \in P : IsLeast(L[p], F[p]) /\ F[p] \in SUBSET Nat /\ L[p] \in M /\ L[p] \in Nat
  <2>1. \A p \in P : IsLeast(LeastIn(F[p]), F[p])
    BY LeastExists
  <2>2. \A p \in P : LeastIn(F[p]) \in Nat
    BY <2>1 DEF IsLeast
  <2>3. QED
    BY <2>1, <2>2
<1>2. \A x \in M : \E p \in P : x = L[p]
  OBVIOUS
<1>3. V \in SUBSET Nat /\ M \in SUBSET Nat
  BY <1>1, <1>2
<1>4. \A x : x \in V <=> \E p \in P : x \in F[p]
  OBVIOUS
<1> HIDE DEF V, L, M
<1>5. IsLeast(m, M)
  BY <1>3, LeastExists
<1> HIDE DEF m
<1>6. IsLeast(m, V)
  <2>0. m \in Nat
    BY <1>5 DEF IsLeast
  <2>1. CASE m = 0
    <3>1. ASSUME NEW x \in V  PROVE x = 0
      <4>1. PICK p \in P : x \in F[p]
        BY <1>4
      <4>2. L[p] = 0
        BY <1>1, <1>5, <2>1 DEF IsLeast
      <4>3. QED
        BY <1>1, <4>1, <4>2 DEF IsLeast
    <3>2. QED
      BY <3>1, <2>1 DEF IsLeast
  <2>2. CASE m # 0
    <3>1. m \in V
      <4>1. PICK p \in P : m = L[p]
        BY <1>2, <1>5, <2>2 DEF IsLeast
      <4>2. m \in F[p]
        BY <1>1, <4>1, <2>2 DEF IsLeast
      <4>3. QED
        BY <1>4, <4>2
    <3>2. ASSUME NEW x \in V, x # 0  PROVE m <= x
      <4>1. PICK p \in P : x \in F[p]
        BY <1>4
      <4>2. L[p] # 0 /\ L[p] <= x /\ L[p] \in Nat
        BY <1>1, <3>2, <4>1 DEF IsLeast
      <4>3. m <= L[p]
        BY <1>1, <1>5, <2>2, <4>2 DEF IsLeast
      <4>4. x \in Nat
        BY <1>3
      <4>5. QED
        BY <2>0, <4>2, <4>3, <4>4
    <3>3. QED
      BY <2>0, <2>2, <3>1, <3>2 DEF IsLeast
  <2>3. QED
    BY <2>1, <2>2
<1>7. LeastIn(V) = m
  BY <1>3, <1>6, LeastUnique
<1>8. QED
  BY <1>7 DEF V, M, m

\* The greatest of the parts' greatest values is the greatest of all.
LEMMA GreatestOfParts ==
  ASSUME NEW P, NEW F \in [P -> SUBSET Nat], IsFiniteSet(P),
         \A p \in P : IsGreatest(GreatestIn(F[p]), F[p])
  PROVE  /\ GreatestIn(UNION {F[p] : p \in P}) = GreatestIn({GreatestIn(F[p]) : p \in P})
         /\ IsGreatest(GreatestIn(UNION {F[p] : p \in P}), UNION {F[p] : p \in P})
<1> DEFINE V == UNION {F[p] : p \in P}
           L == [p \in P |-> GreatestIn(F[p])]
           M == {GreatestIn(F[p]) : p \in P}
           m == GreatestIn(M)
<1>1. \A p \in P : /\ IsGreatest(L[p], F[p]) /\ F[p] \in SUBSET Nat /\ L[p] \in M
                   /\ L[p] \in Nat
  <2>1. \A p \in P : GreatestIn(F[p]) \in Nat
    BY DEF IsGreatest
  <2>2. QED
    BY <2>1
<1>2. \A x \in M : \E p \in P : x = L[p]
  OBVIOUS
<1>3. V \in SUBSET Nat /\ M \in SUBSET Nat
  BY <1>1, <1>2
<1>4. \A x : x \in V <=> \E p \in P : x \in F[p]
  OBVIOUS
<1>9. L \in [P -> Nat] /\ M = {L[p] : p \in P}
  BY <1>1
<1> HIDE DEF V, L, M
<1>5. IsGreatest(m, M)
  BY <1>9, GreatestExists
<1> HIDE DEF m
<1>6. IsGreatest(m, V)
  <2>0. m \in Nat
    BY <1>5 DEF IsGreatest
  <2>1. ASSUME m # 0 PROVE m \in V
    <3>1. PICK p \in P : m = L[p]
      BY <1>2, <1>5, <2>1 DEF IsGreatest
    <3>2. m \in F[p]
      BY <1>1, <3>1, <2>1 DEF IsGreatest
    <3>3. QED
      BY <1>4, <3>2
  <2>2. ASSUME NEW x \in V  PROVE x <= m
    <3>1. PICK p \in P : x \in F[p]
      BY <1>4
    <3>2. x <= L[p] /\ L[p] <= m /\ L[p] \in Nat /\ x \in Nat
      BY <1>1, <1>3, <1>5, <3>1 DEF IsGreatest
    <3>3. QED
      BY <2>0, <3>2
  <2>3. QED
    BY <2>0, <2>1, <2>2 DEF IsGreatest
<1>7. GreatestIn(V) = m
  BY <1>3, <1>6, GreatestUnique
<1>8. QED
  BY <1>6, <1>7 DEF V, M, m

-----------------------------------------------------------------------------
(* What an aggregate state holds.                                          *)

\* Column W counted: one for every value that is not NULL.
Ones(W) == [x \in DOMAIN W |-> IF W[x] = 0 THEN 0 ELSE 1]

\* The state of the rows S, of which v gives the values.
FormOf(v, S) ==
  [count |-> SumOf(Ones(v), S), sum |-> SumOf(v, S), seen |-> SumOf(v, S) # 0,
   min |-> LeastIn({v[i] : i \in S}), max |-> GreatestIn({v[i] : i \in S})]

\* The extremes of nothing are NULL.
LEMMA NoneOf ==
  /\ LeastIn({}) = 0 /\ GreatestIn({}) = 0
<1>1. IsLeast(0, {}) /\ IsGreatest(0, {}) /\ {} \in SUBSET Nat
  BY DEF IsLeast, IsGreatest
<1>2. QED
  BY <1>1, LeastUnique, GreatestUnique

\* NewState is the state of no rows.
LEMMA FormOfNone ==
  ASSUME NEW v
  PROVE  FormOf(v, {}) = NewState
<1>1. {v[i] : i \in {}} = {}
  OBVIOUS
<1>2. SumOf(v, {}) = 0 /\ SumOf(Ones(v), {}) = 0
  BY SumOfEmpty
<1>3. QED
  BY <1>1, <1>2, NoneOf DEF FormOf, NewState, Null

\* What one more row does to sums and extremes.
Grows(v, S, i) ==
  /\ SumOf(v, S) = SumOf(v, S \ {i}) + v[i]
  /\ SumOf(v, S \ {i}) \in Nat /\ v[i] \in Nat
  /\ LeastIn({v[j] : j \in S}) = Least(LeastIn({v[j] : j \in S \ {i}}), v[i])
  /\ GreatestIn({v[j] : j \in S}) = Greatest(GreatestIn({v[j] : j \in S \ {i}}), v[i])

\* Sums and extremes of finitely many values grow so.
LEMMA OneMore ==
  ASSUME NEW D, IsFiniteSet(D), NEW v \in [D -> Nat], NEW S \in SUBSET D, NEW i \in S
  PROVE  Grows(v, S, i)
<1> DEFINE R == S \ {i}
           V == {v[j] : j \in R}
           r == [j \in R |-> v[j]]
<1>1. /\ v \in [D -> Int] /\ v[i] \in Nat /\ R \in SUBSET D /\ V \in SUBSET Nat
      /\ {v[j] : j \in S} = V \cup {v[i]}
      /\ r \in [R -> Nat] /\ V = {r[j] : j \in R} /\ \A j \in R : v[j] = r[j]
      /\ r \in [R -> Int]
  OBVIOUS
<1>2. IsFiniteSet(R)
  BY FS_Subset
<1>3. SumOf(v, S) = v[i] + SumOf(v, R)
  BY <1>1, SumOfIn
<1> HIDE DEF R, V, r
<1>4. SumOf(v, R) \in Nat
  <2>1. SumOf(r, R) \in Nat /\ SumOf(v, R) = SumOf(r, R)
    BY <1>1, <1>2, SumOfNat, SumOfSame
  <2>2. QED
    BY <2>1
<1>5. IsGreatest(GreatestIn(V), V)
  BY <1>1, <1>2, GreatestExists
<1>6. LeastIn(V \cup {v[i]}) = Least(LeastIn(V), v[i])
  BY <1>1, LeastStep
<1>7. GreatestIn(V \cup {v[i]}) = Greatest(GreatestIn(V), v[i])
  BY <1>1, <1>5, GreatestStep
<1>8. QED
  BY <1>1, <1>3, <1>4, <1>6, <1>7 DEF R, V, Grows

\* NULL is neutral for Least and Greatest.
LEMMA NullExtremes ==
  ASSUME NEW m \in Nat
  PROVE  Least(m, 0) = m /\ Greatest(m, 0) = m
BY DEF Least, Greatest, Null

\* UpdateState takes the state of some rows to that of one row more.
LEMMA UpdateForm ==
  ASSUME NEW D, IsFiniteSet(D), NEW v \in [D -> Nat], NEW S \in SUBSET D, NEW i \in S
  PROVE  UpdateState(FormOf(v, S \ {i}), v[i]) = FormOf(v, S)
<1> DEFINE R == S \ {i}
           c == SumOf(Ones(v), R)
           s == SumOf(v, R)
           l == LeastIn({v[j] : j \in R})
           g == GreatestIn({v[j] : j \in R})
           old == [count |-> c, sum |-> s, seen |-> s # 0, min |-> l, max |-> g]
<1>1. Ones(v) \in [D -> Nat] /\ Ones(v)[i] = IF v[i] = 0 THEN 0 ELSE 1
  BY DEF Ones
<1>2. SumOf(Ones(v), S) = c + (IF v[i] = 0 THEN 0 ELSE 1) /\ c \in Nat
  <2> DEFINE o == Ones(v)
  <2>1. o \in [D -> Nat]
    BY <1>1
  <2> HIDE DEF o
  <2>2. SumOf(o, S) = SumOf(o, S \ {i}) + o[i] /\ SumOf(o, S \ {i}) \in Nat
    <3>1. Grows(o, S, i)
      BY <2>1, OneMore
    <3>2. QED
      BY <3>1 DEF Grows
  <2>3. QED
    BY <2>2, <1>1 DEF o
<1>3. /\ SumOf(v, S) = s + v[i] /\ s \in Nat /\ v[i] \in Nat
      /\ LeastIn({v[j] : j \in S}) = Least(l, v[i])
      /\ GreatestIn({v[j] : j \in S}) = Greatest(g, v[i])
  <2>1. Grows(v, S, i)
    BY OneMore
  <2>2. QED
    BY <2>1 DEF Grows
<1>4. FormOf(v, R) = old
  BY DEF FormOf
<1>5. l \in Nat /\ g \in Nat
  <2> DEFINE r == [j \in R |-> v[j]]
  <2>1. /\ r \in [R -> Nat] /\ {v[j] : j \in R} = {r[j] : j \in R}
        /\ {v[j] : j \in R} \in SUBSET Nat
    OBVIOUS
  <2>2. IsFiniteSet(R)
    BY FS_Subset
  <2> HIDE DEF r, R
  <2>3. IsGreatest(g, {v[j] : j \in R})
    BY <2>1, <2>2, GreatestExists
  <2>4. IsLeast(l, {v[j] : j \in R})
    BY <2>1, LeastExists
  <2>5. QED
    BY <2>3, <2>4 DEF IsLeast, IsGreatest
<1>6. FormOf(v, S) = [count |-> c + (IF v[i] = 0 THEN 0 ELSE 1), sum |-> s + v[i],
                      seen |-> s + v[i] # 0, min |-> Least(l, v[i]), max |-> Greatest(g, v[i])]
  BY <1>2, <1>3 DEF FormOf
<1> HIDE DEF R, c, s, l, g
<1>7. CASE v[i] = 0
  <2>1. c + 0 = c /\ s + 0 = s /\ Least(l, 0) = l /\ Greatest(g, 0) = g
    BY <1>2, <1>3, <1>5, NullExtremes
  <2>2. UpdateState(old, v[i]) = old
    BY <1>7 DEF UpdateState, Null
  <2>3. FormOf(v, S) = old
    BY <1>6, <1>7, <2>1
  <2>4. QED
    BY <1>4, <2>2, <2>3 DEF R
<1>8. CASE v[i] # 0
  <2>1. s + v[i] # 0
    BY <1>3, <1>8
  <2>2. FormOf(v, S) = [count |-> c + 1, sum |-> s + v[i], seen |-> TRUE,
                        min |-> Least(l, v[i]), max |-> Greatest(g, v[i])]
    BY <1>6, <1>8, <2>1
  <2>3. UpdateState(old, v[i]) = [count |-> c + 1, sum |-> s + v[i], seen |-> TRUE,
                        min |-> Least(l, v[i]), max |-> Greatest(g, v[i])]
    BY <1>8 DEF UpdateState, Null
  <2>4. QED
    BY <1>4, <2>2, <2>3 DEF R
<1>9. QED
  BY <1>7, <1>8

\* The last position.
LEMMA LastIs ==
  ASSUME NEW n \in Nat, NEW S \in SUBSET (1 .. n), S # {}
  PROVE  Max(S) \in S
<1> DEFINE U == {k \in Nat : \A x \in S : x <= k}
<1>1. n \in U
  OBVIOUS
<1>2. PICK m \in U : \A y \in U : m <= y
  <2>1. U # {} /\ U \in SUBSET Nat
    BY <1>1
  <2> HIDE DEF U
  <2>2. QED
    BY <2>1, LeastNumber
<1>3. m \in S
  <2>1. SUFFICES ASSUME m \notin S  PROVE FALSE
    OBVIOUS
  <2>2. PICK z \in S : TRUE
    OBVIOUS
  <2>3. m \in Nat /\ m # 0 /\ m - 1 \in Nat
    BY <2>2
  <2>4. ASSUME NEW x \in S  PROVE x <= m - 1
    <3>1. x <= m /\ x # m /\ x \in Nat
      BY <2>1
    <3>2. QED
      BY <3>1, <2>3
  <2>5. m - 1 \in U
    BY <2>3, <2>4
  <2>6. m <= m - 1
    BY <1>2, <2>5
  <2>7. QED
    BY <2>3, <2>6
<1>4. \A y \in S : m >= y
  OBVIOUS
<1>5. QED
  BY <1>3, <1>4 DEF Max

\* Sets of which each contains a smaller one of them: there are none.
LEMMA NoneShrinks ==
  ASSUME NEW D, IsFiniteSet(D), NEW T \in SUBSET SUBSET D,
         \A S \in T : \E i \in S : S \ {i} \in T
  PROVE  T = {}
<1>1. SUFFICES ASSUME T # {}  PROVE FALSE
  OBVIOUS
<1>2. PICK R \in T : \A Q \in T : Q \subseteq R => Q = R
  BY <1>1, SmallestSubset
<1>3. PICK i \in R : R \ {i} \in T
  OBVIOUS
<1>4. QED
  BY <1>2, <1>3

\* The state a column W of rows is folded into.
State(W, s) == FormOf(Along(W, s), DOMAIN s)

\* hash_aggregate's loop over the rows of a group.
LEMMA UpdateFold ==
  ASSUME NEW X, NEW W \in [X -> Nat], \A x \in X : W[x] = x[2], NEW s \in Seq(X)
  PROVE  FoldLeft(UpdateRow, NewState, s) = State(W, s)
<1> DEFINE D == DOMAIN s
           v == Along(W, s)
           last == [S \in SUBSET D |-> Max(S)]
           g == [S \in SUBSET D |-> FormOf(v, S)]
           IsFold(f) == f = [S \in SUBSET D |->
                               IF S = {} THEN NewState
                               ELSE UpdateRow(f[S \ {Max(S)}], s[Max(S)])]
<1>1. FoldLeft(UpdateRow, NewState, s) = (CHOOSE f : IsFold(f))[D]
  BY DEF FoldLeft, MapThenFoldSet
<1>2. /\ v \in [D -> Nat] /\ \A i \in D : v[i] = s[i][2]
      /\ D = 1 .. Len(s) /\ Len(s) \in Nat
  BY AlongIs
<1>3. IsFiniteSet(D)
  BY AlongIs
<1> HIDE DEF v, D
<1>4. \A S \in SUBSET D : last[S] = Max(S) /\ (S # {} => last[S] \in S)
  BY <1>2, LastIs
<1>5. g[{}] = NewState
  BY FormOfNone
<1>6. ASSUME NEW S \in SUBSET D, S # {}
      PROVE  UpdateRow(g[S \ {last[S]}], s[last[S]]) = g[S]
  <2>1. SUFFICES ASSUME NEW i \in S
                 PROVE  UpdateRow(FormOf(v, S \ {i}), s[i]) = FormOf(v, S)
    BY <1>4, <1>6
  <2>2. UpdateState(FormOf(v, S \ {i}), v[i]) = FormOf(v, S)
    BY <1>2, <1>3, UpdateForm
  <2>3. v[i] = s[i][2]
    BY <1>2
  <2>4. QED
    BY <2>2, <2>3 DEF UpdateRow
<1>7. g = [S \in SUBSET D |-> g[S]] /\ g[D] = FormOf(v, D)
  OBVIOUS
<1> HIDE DEF g, last
<1>8. IsFold(g)
  BY <1>4, <1>5, <1>6, <1>7
<1>9. ASSUME NEW f, IsFold(f)  PROVE f[D] = g[D]
  <2>1. \A S \in SUBSET D : f[S] = IF S = {} THEN NewState
                                   ELSE UpdateRow(f[S \ {last[S]}], s[last[S]])
    <3>1. \A S \in SUBSET D : f[S] = IF S = {} THEN NewState
                                     ELSE UpdateRow(f[S \ {Max(S)}], s[Max(S)])
      BY <1>9, Zenon
    <3>2. QED
      BY <1>4, <3>1
  <2> HIDE DEF IsFold
  <2> DEFINE T == {S \in SUBSET D : f[S] # g[S]}
  <2>2. ASSUME NEW S \in T  PROVE \E i \in S : S \ {i} \in T
    <3>1. S \in SUBSET D /\ S # {} /\ last[S] \in S /\ S \ {last[S]} \in SUBSET D
      BY <1>4, <1>5, <2>1
    <3>2. f[S \ {last[S]}] # g[S \ {last[S]}]
      BY <1>6, <2>1, <3>1
    <3>3. QED
      BY <3>1, <3>2
  <2>3. T \in SUBSET SUBSET D
    OBVIOUS
  <2>4. T = {}
    <3> HIDE DEF T
    <3> QED BY <1>3, <2>2, <2>3, NoneShrinks
  <2>5. QED
    BY <2>4
<1> HIDE DEF IsFold
<1>10. IsFold(CHOOSE f : IsFold(f))
  BY <1>8
<1>11. QED
  BY <1>1, <1>7, <1>9, <1>10 DEF State, v, D

\* The state of merged rows of partial states, of which c gives the columns.
MergedForm(c, S) ==
  [count |-> SumOf(c[1], S), sum |-> SumOf(c[2], S), seen |-> SumOf(c[2], S) # 0,
   min |-> LeastIn({c[3][i] : i \in S}), max |-> GreatestIn({c[4][i] : i \in S}),
   avgSum |-> SumOf(c[5], S), avgCount |-> SumOf(c[6], S)]

\* NewMergeState is the merged state of no rows.
LEMMA MergedNone ==
  ASSUME NEW c
  PROVE  MergedForm(c, {}) = NewMergeState
<1>1. {c[3][i] : i \in {}} = {} /\ {c[4][i] : i \in {}} = {}
  OBVIOUS
<1>2. /\ SumOf(c[1], {}) = 0 /\ SumOf(c[2], {}) = 0
      /\ SumOf(c[5], {}) = 0 /\ SumOf(c[6], {}) = 0
  BY SumOfEmpty
<1>3. QED
  BY <1>1, <1>2, NoneOf DEF MergedForm, NewMergeState, Null

\* NULL is read as zero.
LEMMA MergeIs ==
  ASSUME NEW st, NEW p, \A j \in 1 .. 6 : p[j] \in Nat, st.sum \in Nat
  PROVE  Merge(st, p) =
           [count |-> st.count + p[1], sum |-> st.sum + p[2],
            seen |-> st.seen \/ p[2] # 0, min |-> Least(st.min, p[3]),
            max |-> Greatest(st.max, p[4]), avgSum |-> st.avgSum + p[5],
            avgCount |-> st.avgCount + p[6]]
<1>1. \A x \in Nat : Number(x) = x
  BY DEF Number, Null
<1>2. (IF p[2] = Null THEN st.sum ELSE st.sum + p[2]) = st.sum + p[2]
  BY DEF Null
<1>3. Number(p[1]) = p[1] /\ Number(p[5]) = p[5] /\ Number(p[6]) = p[6]
  BY <1>1
<1>4. QED
  BY <1>2, <1>3 DEF Merge, Null

\* Merge takes the state of some rows to that of one row more.
LEMMA MergeForm ==
  ASSUME NEW D, IsFiniteSet(D), NEW c \in [1 .. 6 -> [D -> Nat]], NEW S \in SUBSET D,
         NEW i \in S, NEW p, \A j \in 1 .. 6 : p[j] = c[j][i]
  PROVE  Merge(MergedForm(c, S \ {i}), p) = MergedForm(c, S)
<1> DEFINE R == S \ {i}
           old == MergedForm(c, R)
<1>1. \A j \in 1 .. 6 : Grows(c[j], S, i)
  <2>1. \A j \in 1 .. 6 : c[j] \in [D -> Nat]
    OBVIOUS
  <2>2. QED
    BY <2>1, OneMore
<1>2. \A j \in 1 .. 6 : SumOf(c[j], S) = SumOf(c[j], R) + c[j][i]
  BY <1>1 DEF Grows
<1>3. \A j \in 1 .. 6 : SumOf(c[j], R) \in Nat /\ c[j][i] \in Nat
  BY <1>1 DEF Grows
<1>4. LeastIn({c[3][k] : k \in S}) = Least(LeastIn({c[3][k] : k \in R}), c[3][i])
  <2>1. Grows(c[3], S, i)
    BY <1>1
  <2>2. QED
    BY <2>1 DEF Grows
<1>5. GreatestIn({c[4][k] : k \in S}) = Greatest(GreatestIn({c[4][k] : k \in R}), c[4][i])
  <2>1. Grows(c[4], S, i)
    BY <1>1
  <2>2. QED
    BY <2>1 DEF Grows
<1>6. /\ old.count = SumOf(c[1], R) /\ old.sum = SumOf(c[2], R)
      /\ old.seen = (SumOf(c[2], R) # 0) /\ old.min = LeastIn({c[3][k] : k \in R})
      /\ old.max = GreatestIn({c[4][k] : k \in R})
      /\ old.avgSum = SumOf(c[5], R) /\ old.avgCount = SumOf(c[6], R)
  BY DEF MergedForm
<1> HIDE DEF old, R
<1>7. \A j \in 1 .. 6 : p[j] \in Nat
  BY <1>3
<1>8. old.sum \in Nat
  BY <1>3, <1>6
<1>9. Merge(old, p) =
           [count |-> old.count + p[1], sum |-> old.sum + p[2],
            seen |-> old.seen \/ p[2] # 0, min |-> Least(old.min, p[3]),
            max |-> Greatest(old.max, p[4]), avgSum |-> old.avgSum + p[5],
            avgCount |-> old.avgCount + p[6]]
  BY <1>7, <1>8, MergeIs
<1>10. /\ old.count + p[1] = SumOf(c[1], S) /\ old.sum + p[2] = SumOf(c[2], S)
       /\ old.avgSum + p[5] = SumOf(c[5], S) /\ old.avgCount + p[6] = SumOf(c[6], S)
       /\ Least(old.min, p[3]) = LeastIn({c[3][k] : k \in S})
       /\ Greatest(old.max, p[4]) = GreatestIn({c[4][k] : k \in S})
  <2>1. p[1] = c[1][i] /\ p[2] = c[2][i] /\ p[3] = c[3][i] /\ p[4] = c[4][i]
        /\ p[5] = c[5][i] /\ p[6] = c[6][i]
    OBVIOUS
  <2>2. QED
    BY <1>2, <1>4, <1>5, <1>6, <2>1
<1>11. (old.seen \/ p[2] # 0) = (SumOf(c[2], S) # 0)
  <2>1. SumOf(c[2], S) = SumOf(c[2], R) + p[2] /\ p[2] \in Nat /\ SumOf(c[2], R) \in Nat
    BY <1>2, <1>3
  <2>2. (SumOf(c[2], S) # 0) = (SumOf(c[2], R) # 0 \/ p[2] # 0)
    BY <2>1
  <2>3. QED
    BY <2>2, <1>6
<1>12. Merge(old, p) =
           [count |-> SumOf(c[1], S), sum |-> SumOf(c[2], S),
            seen |-> SumOf(c[2], S) # 0, min |-> LeastIn({c[3][k] : k \in S}),
            max |-> GreatestIn({c[4][k] : k \in S}), avgSum |-> SumOf(c[5], S),
            avgCount |-> SumOf(c[6], S)]
  BY <1>9, <1>10, <1>11
<1>13. QED
  BY <1>12 DEF MergedForm, old, R

\* The columns of rows.
Columns(W, s) == [j \in 1 .. 6 |-> Along(W[j], s)]

\* The columns along some rows, and what they hold at a row.
LEMMA ColumnsIs ==
  ASSUME NEW X, NEW W \in [1 .. 6 -> [X -> Nat]], NEW s \in Seq(X)
  PROVE  /\ Columns(W, s) \in [1 .. 6 -> [DOMAIN s -> Nat]]
         /\ \A j \in 1 .. 6, i \in DOMAIN s : Columns(W, s)[j][i] = W[j][s[i]]
         /\ IsFiniteSet(DOMAIN s) /\ DOMAIN s = 1 .. Len(s) /\ Len(s) \in Nat
         /\ \A i \in DOMAIN s : s[i] \in X
<1>2. DOMAIN s = 1 .. Len(s) /\ Len(s) \in Nat /\ \A i \in DOMAIN s : s[i] \in X
  OBVIOUS
<1>1. ASSUME NEW V \in [X -> Nat]
      PROVE  /\ Along(V, s) \in [DOMAIN s -> Nat]
             /\ \A i \in DOMAIN s : Along(V, s)[i] = V[s[i]]
  BY <1>2 DEF Along
<1>3. IsFiniteSet(DOMAIN s)
  BY <1>2, FS_Interval
<1>4. \A j \in 1 .. 6 : W[j] \in [X -> Nat]
  OBVIOUS
<1>5. QED
  BY <1>1, <1>2, <1>3, <1>4 DEF Columns

\* merge_partials without GROUP BY.
LEMMA MergeFold ==
  ASSUME NEW X, NEW W \in [1 .. 6 -> [X -> Nat]], NEW s \in Seq(X),
         \A j \in 1 .. 6, x \in X : W[j][x] = x[j]
  PROVE  FoldLeft(Merge, NewMergeState, s) = MergedForm(Columns(W, s), DOMAIN s)
<1> DEFINE D == DOMAIN s
           c == Columns(W, s)
           last == [S \in SUBSET D |-> Max(S)]
           g == [S \in SUBSET D |-> MergedForm(c, S)]
           IsFold(f) == f = [S \in SUBSET D |->
                               IF S = {} THEN NewMergeState
                               ELSE Merge(f[S \ {Max(S)}], s[Max(S)])]
<1>1. FoldLeft(Merge, NewMergeState, s) = (CHOOSE f : IsFold(f))[D]
  BY DEF FoldLeft, MapThenFoldSet
<1>a. c \in [1 .. 6 -> [D -> Nat]]
  BY ColumnsIs
<1>b. \A j \in 1 .. 6, i \in D : c[j][i] = W[j][s[i]]
  BY DEF Columns, Along
<1>2. c \in [1 .. 6 -> [D -> Nat]] /\ \A j \in 1 .. 6, i \in D : c[j][i] = W[j][s[i]]
  BY <1>a, <1>b
<1>3. IsFiniteSet(D) /\ D = 1 .. Len(s) /\ Len(s) \in Nat /\ \A i \in D : s[i] \in X
  BY ColumnsIs
<1> HIDE DEF c, D
<1>4. \A S \in SUBSET D : last[S] = Max(S) /\ (S # {} => last[S] \in S)
  BY <1>3, LastIs
<1>5. g[{}] = NewMergeState
  BY MergedNone
<1>6. ASSUME NEW S \in SUBSET D, S # {}
      PROVE  Merge(g[S \ {last[S]}], s[last[S]]) = g[S]
  <2>1. SUFFICES ASSUME NEW i \in S
                 PROVE  Merge(MergedForm(c, S \ {i}), s[i]) = MergedForm(c, S)
    BY <1>4, <1>6
  <2>2. i \in D /\ s[i] \in X
    BY <1>3
  <2>3. \A j \in 1 .. 6 : s[i][j] = c[j][i]
    BY <1>2, <2>2
  <2>4. IsFiniteSet(D)
    BY <1>3
  <2>5. Merge(MergedForm(c, S \ {i}), s[i]) = MergedForm(c, S)
    BY <1>2, <2>3, <2>4, MergeForm
  <2>6. QED
    BY <2>5
<1>7. g = [S \in SUBSET D |-> g[S]] /\ g[D] = MergedForm(c, D)
  OBVIOUS
<1> HIDE DEF g, last
<1>8. IsFold(g)
  BY <1>4, <1>5, <1>6, <1>7
<1>9. ASSUME NEW f, IsFold(f)  PROVE f[D] = g[D]
  <2>0. \A S \in SUBSET D : f[S] = IF S = {} THEN NewMergeState
                                   ELSE Merge(f[S \ {Max(S)}], s[Max(S)])
    BY <1>9
  <2>1. \A S \in SUBSET D : f[S] = IF S = {} THEN NewMergeState
                                   ELSE Merge(f[S \ {last[S]}], s[last[S]])
    BY <1>4, <2>0
  <2> HIDE DEF IsFold
  <2> DEFINE T == {S \in SUBSET D : f[S] # g[S]}
  <2>2. ASSUME NEW S \in T  PROVE \E i \in S : S \ {i} \in T
    <3>1. S \in SUBSET D /\ S # {} /\ last[S] \in S /\ S \ {last[S]} \in SUBSET D
      BY <1>4, <1>5, <2>1
    <3>2. f[S \ {last[S]}] # g[S \ {last[S]}]
      BY <1>6, <2>1, <3>1
    <3>3. QED
      BY <3>1, <3>2
  <2>3. T \in SUBSET SUBSET D
    OBVIOUS
  <2>4. IsFiniteSet(D)
    BY <1>3
  <2>5. T = {}
    <3> HIDE DEF T
    <3> QED BY <2>2, <2>3, <2>4, NoneShrinks
  <2>6. QED
    BY <2>5
<1> HIDE DEF IsFold
<1>10. IsFold(CHOOSE f : IsFold(f))
  BY <1>8
<1>11. QED
  BY <1>1, <1>7, <1>9, <1>10 DEF c, D

\* merge_partials for one group.
LEMMA MergeGroupFold ==
  ASSUME NEW X, NEW W \in [1 .. 6 -> [X -> Nat]], NEW s \in Seq(X),
         \A j \in 1 .. 6, x \in X : W[j][x] = Tail(x)[j]
  PROVE  FoldLeft(MergeGroupRow, NewMergeState, s) = MergedForm(Columns(W, s), DOMAIN s)
<1> DEFINE D == DOMAIN s
           c == Columns(W, s)
           last == [S \in SUBSET D |-> Max(S)]
           g == [S \in SUBSET D |-> MergedForm(c, S)]
           IsFold(f) == f = [S \in SUBSET D |->
                               IF S = {} THEN NewMergeState
                               ELSE MergeGroupRow(f[S \ {Max(S)}], s[Max(S)])]
<1>1. FoldLeft(MergeGroupRow, NewMergeState, s) = (CHOOSE f : IsFold(f))[D]
  BY DEF FoldLeft, MapThenFoldSet
<1>a. c \in [1 .. 6 -> [D -> Nat]]
  BY ColumnsIs
<1>b. \A j \in 1 .. 6, i \in D : c[j][i] = W[j][s[i]]
  BY DEF Columns, Along
<1>2. c \in [1 .. 6 -> [D -> Nat]] /\ \A j \in 1 .. 6, i \in D : c[j][i] = W[j][s[i]]
  BY <1>a, <1>b
<1>3. IsFiniteSet(D) /\ D = 1 .. Len(s) /\ Len(s) \in Nat /\ \A i \in D : s[i] \in X
  BY ColumnsIs
<1> HIDE DEF c, D
<1>4. \A S \in SUBSET D : last[S] = Max(S) /\ (S # {} => last[S] \in S)
  BY <1>3, LastIs
<1>5. g[{}] = NewMergeState
  BY MergedNone
<1>6. ASSUME NEW S \in SUBSET D, S # {}
      PROVE  MergeGroupRow(g[S \ {last[S]}], s[last[S]]) = g[S]
  <2>1. SUFFICES ASSUME NEW i \in S
                 PROVE  MergeGroupRow(MergedForm(c, S \ {i}), s[i]) = MergedForm(c, S)
    BY <1>4, <1>6
  <2>2. i \in D /\ s[i] \in X
    BY <1>3
  <2>3. \A j \in 1 .. 6 : Tail(s[i])[j] = c[j][i]
    BY <1>2, <2>2
  <2>4. IsFiniteSet(D)
    BY <1>3
  <2>5. Merge(MergedForm(c, S \ {i}), Tail(s[i])) = MergedForm(c, S)
    BY <1>2, <2>3, <2>4, MergeForm
  <2>6. QED
    BY <2>5 DEF MergeGroupRow
<1>7. g = [S \in SUBSET D |-> g[S]] /\ g[D] = MergedForm(c, D)
  OBVIOUS
<1> HIDE DEF g, last
<1>8. IsFold(g)
  BY <1>4, <1>5, <1>6, <1>7
<1>9. ASSUME NEW f, IsFold(f)  PROVE f[D] = g[D]
  <2>0. \A S \in SUBSET D : f[S] = IF S = {} THEN NewMergeState
                                   ELSE MergeGroupRow(f[S \ {Max(S)}], s[Max(S)])
    BY <1>9
  <2>1. \A S \in SUBSET D : f[S] = IF S = {} THEN NewMergeState
                                   ELSE MergeGroupRow(f[S \ {last[S]}], s[last[S]])
    BY <1>4, <2>0
  <2> HIDE DEF IsFold
  <2> DEFINE T == {S \in SUBSET D : f[S] # g[S]}
  <2>2. ASSUME NEW S \in T  PROVE \E i \in S : S \ {i} \in T
    <3>1. S \in SUBSET D /\ S # {} /\ last[S] \in S /\ S \ {last[S]} \in SUBSET D
      BY <1>4, <1>5, <2>1
    <3>2. f[S \ {last[S]}] # g[S \ {last[S]}]
      BY <1>6, <2>1, <3>1
    <3>3. QED
      BY <3>1, <3>2
  <2>3. T \in SUBSET SUBSET D
    OBVIOUS
  <2>4. IsFiniteSet(D)
    BY <1>3
  <2>5. T = {}
    <3> HIDE DEF T
    <3> QED BY <2>2, <2>3, <2>4, NoneShrinks
  <2>6. QED
    BY <2>5
<1> HIDE DEF IsFold
<1>10. IsFold(CHOOSE f : IsFold(f))
  BY <1>8
<1>11. QED
  BY <1>1, <1>7, <1>9, <1>10 DEF c, D

\* The states of the columns in a final stage.
ColumnsForm(c, S) == [j \in 1 .. 6 |-> FormOf(c[j], S)]

\* The final stage starts with the states of no rows.
LEMMA ColumnsNone ==
  ASSUME NEW c
  PROVE  ColumnsForm(c, {}) = NewColumns
BY FormOfNone DEF ColumnsForm, NewColumns

\* One more row for the columns of the final stage.
LEMMA UpdateColumnsForm ==
  ASSUME NEW D, IsFiniteSet(D), NEW c \in [1 .. 6 -> [D -> Nat]], NEW S \in SUBSET D,
         NEW i \in S, NEW p, \A j \in 1 .. 6 : p[j] = c[j][i]
  PROVE  UpdateColumns(ColumnsForm(c, S \ {i}), p) = ColumnsForm(c, S)
<1>1. \A v \in [D -> Nat] : UpdateState(FormOf(v, S \ {i}), v[i]) = FormOf(v, S)
  BY UpdateForm
<1>2. \A j \in 1 .. 6 : UpdateState(FormOf(c[j], S \ {i}), p[j]) = FormOf(c[j], S)
  BY <1>1
<1>3. QED
  BY <1>2 DEF UpdateColumns, ColumnsForm

\* The final stage without GROUP BY.
LEMMA ColumnsFold ==
  ASSUME NEW X, NEW W \in [1 .. 6 -> [X -> Nat]], NEW s \in Seq(X),
         \A j \in 1 .. 6, x \in X : W[j][x] = x[j]
  PROVE  FoldLeft(UpdateColumns, NewColumns, s) = ColumnsForm(Columns(W, s), DOMAIN s)
<1> DEFINE D == DOMAIN s
           c == Columns(W, s)
           last == [S \in SUBSET D |-> Max(S)]
           g == [S \in SUBSET D |-> ColumnsForm(c, S)]
           IsFold(f) == f = [S \in SUBSET D |->
                               IF S = {} THEN NewColumns
                               ELSE UpdateColumns(f[S \ {Max(S)}], s[Max(S)])]
<1>1. FoldLeft(UpdateColumns, NewColumns, s) = (CHOOSE f : IsFold(f))[D]
  BY DEF FoldLeft, MapThenFoldSet
<1>a. c \in [1 .. 6 -> [D -> Nat]]
  BY ColumnsIs
<1>b. \A j \in 1 .. 6, i \in D : c[j][i] = W[j][s[i]]
  BY DEF Columns, Along
<1>2. c \in [1 .. 6 -> [D -> Nat]] /\ \A j \in 1 .. 6, i \in D : c[j][i] = W[j][s[i]]
  BY <1>a, <1>b
<1>3. IsFiniteSet(D) /\ D = 1 .. Len(s) /\ Len(s) \in Nat /\ \A i \in D : s[i] \in X
  BY ColumnsIs
<1> HIDE DEF c, D
<1>4. \A S \in SUBSET D : last[S] = Max(S) /\ (S # {} => last[S] \in S)
  BY <1>3, LastIs
<1>5. g[{}] = NewColumns
  BY ColumnsNone
<1>6. ASSUME NEW S \in SUBSET D, S # {}
      PROVE  UpdateColumns(g[S \ {last[S]}], s[last[S]]) = g[S]
  <2>1. SUFFICES ASSUME NEW i \in S
                 PROVE  UpdateColumns(ColumnsForm(c, S \ {i}), s[i]) = ColumnsForm(c, S)
    BY <1>4, <1>6
  <2>2. i \in D /\ s[i] \in X
    BY <1>3
  <2>3. \A j \in 1 .. 6 : s[i][j] = c[j][i]
    BY <1>2, <2>2
  <2>4. IsFiniteSet(D)
    BY <1>3
  <2>5. UpdateColumns(ColumnsForm(c, S \ {i}), s[i]) = ColumnsForm(c, S)
    BY <1>2, <2>3, <2>4, UpdateColumnsForm
  <2>6. QED
    BY <2>5
<1>7. g = [S \in SUBSET D |-> g[S]] /\ g[D] = ColumnsForm(c, D)
  OBVIOUS
<1> HIDE DEF g, last
<1>8. IsFold(g)
  BY <1>4, <1>5, <1>6, <1>7
<1>9. ASSUME NEW f, IsFold(f)  PROVE f[D] = g[D]
  <2>0. \A S \in SUBSET D : f[S] = IF S = {} THEN NewColumns
                                   ELSE UpdateColumns(f[S \ {Max(S)}], s[Max(S)])
    BY <1>9
  <2>1. \A S \in SUBSET D : f[S] = IF S = {} THEN NewColumns
                                   ELSE UpdateColumns(f[S \ {last[S]}], s[last[S]])
    BY <1>4, <2>0
  <2> HIDE DEF IsFold
  <2> DEFINE T == {S \in SUBSET D : f[S] # g[S]}
  <2>2. ASSUME NEW S \in T  PROVE \E i \in S : S \ {i} \in T
    <3>1. S \in SUBSET D /\ S # {} /\ last[S] \in S /\ S \ {last[S]} \in SUBSET D
      BY <1>4, <1>5, <2>1
    <3>2. f[S \ {last[S]}] # g[S \ {last[S]}]
      BY <1>6, <2>1, <3>1
    <3>3. QED
      BY <3>1, <3>2
  <2>3. T \in SUBSET SUBSET D
    OBVIOUS
  <2>4. IsFiniteSet(D)
    BY <1>3
  <2>5. T = {}
    <3> HIDE DEF T
    <3> QED BY <2>2, <2>3, <2>4, NoneShrinks
  <2>6. QED
    BY <2>5
<1> HIDE DEF IsFold
<1>10. IsFold(CHOOSE f : IsFold(f))
  BY <1>8
<1>11. QED
  BY <1>1, <1>7, <1>9, <1>10 DEF c, D

\* The final stage for one group.
LEMMA ColumnsGroupFold ==
  ASSUME NEW X, NEW W \in [1 .. 6 -> [X -> Nat]], NEW s \in Seq(X),
         \A j \in 1 .. 6, x \in X : W[j][x] = Tail(x)[j]
  PROVE  FoldLeft(UpdateColumnsOfGroup, NewColumns, s) = ColumnsForm(Columns(W, s), DOMAIN s)
<1> DEFINE D == DOMAIN s
           c == Columns(W, s)
           last == [S \in SUBSET D |-> Max(S)]
           g == [S \in SUBSET D |-> ColumnsForm(c, S)]
           IsFold(f) == f = [S \in SUBSET D |->
                               IF S = {} THEN NewColumns
                               ELSE UpdateColumnsOfGroup(f[S \ {Max(S)}], s[Max(S)])]
<1>1. FoldLeft(UpdateColumnsOfGroup, NewColumns, s) = (CHOOSE f : IsFold(f))[D]
  BY DEF FoldLeft, MapThenFoldSet
<1>a. c \in [1 .. 6 -> [D -> Nat]]
  BY ColumnsIs
<1>b. \A j \in 1 .. 6, i \in D : c[j][i] = W[j][s[i]]
  BY DEF Columns, Along
<1>2. c \in [1 .. 6 -> [D -> Nat]] /\ \A j \in 1 .. 6, i \in D : c[j][i] = W[j][s[i]]
  BY <1>a, <1>b
<1>3. IsFiniteSet(D) /\ D = 1 .. Len(s) /\ Len(s) \in Nat /\ \A i \in D : s[i] \in X
  BY ColumnsIs
<1> HIDE DEF c, D
<1>4. \A S \in SUBSET D : last[S] = Max(S) /\ (S # {} => last[S] \in S)
  BY <1>3, LastIs
<1>5. g[{}] = NewColumns
  BY ColumnsNone
<1>6. ASSUME NEW S \in SUBSET D, S # {}
      PROVE  UpdateColumnsOfGroup(g[S \ {last[S]}], s[last[S]]) = g[S]
  <2>1. SUFFICES ASSUME NEW i \in S
                 PROVE  UpdateColumnsOfGroup(ColumnsForm(c, S \ {i}), s[i]) = ColumnsForm(c, S)
    BY <1>4, <1>6
  <2>2. i \in D /\ s[i] \in X
    BY <1>3
  <2>3. \A j \in 1 .. 6 : Tail(s[i])[j] = c[j][i]
    BY <1>2, <2>2
  <2>4. IsFiniteSet(D)
    BY <1>3
  <2>5. UpdateColumns(ColumnsForm(c, S \ {i}), Tail(s[i])) = ColumnsForm(c, S)
    BY <1>2, <2>3, <2>4, UpdateColumnsForm
  <2>6. QED
    BY <2>5 DEF UpdateColumnsOfGroup
<1>7. g = [S \in SUBSET D |-> g[S]] /\ g[D] = ColumnsForm(c, D)
  OBVIOUS
<1> HIDE DEF g, last
<1>8. IsFold(g)
  BY <1>4, <1>5, <1>6, <1>7
<1>9. ASSUME NEW f, IsFold(f)  PROVE f[D] = g[D]
  <2>0. \A S \in SUBSET D : f[S] = IF S = {} THEN NewColumns
                                   ELSE UpdateColumnsOfGroup(f[S \ {Max(S)}], s[Max(S)])
    BY <1>9
  <2>1. \A S \in SUBSET D : f[S] = IF S = {} THEN NewColumns
                                   ELSE UpdateColumnsOfGroup(f[S \ {last[S]}], s[last[S]])
    BY <1>4, <2>0
  <2> HIDE DEF IsFold
  <2> DEFINE T == {S \in SUBSET D : f[S] # g[S]}
  <2>2. ASSUME NEW S \in T  PROVE \E i \in S : S \ {i} \in T
    <3>1. S \in SUBSET D /\ S # {} /\ last[S] \in S /\ S \ {last[S]} \in SUBSET D
      BY <1>4, <1>5, <2>1
    <3>2. f[S \ {last[S]}] # g[S \ {last[S]}]
      BY <1>6, <2>1, <3>1
    <3>3. QED
      BY <3>1, <3>2
  <2>3. T \in SUBSET SUBSET D
    OBVIOUS
  <2>4. IsFiniteSet(D)
    BY <1>3
  <2>5. T = {}
    <3> HIDE DEF T
    <3> QED BY <2>2, <2>3, <2>4, NoneShrinks
  <2>6. QED
    BY <2>5
<1> HIDE DEF IsFold
<1>10. IsFold(CHOOSE f : IsFold(f))
  BY <1>8
<1>11. QED
  BY <1>1, <1>7, <1>9, <1>10 DEF c, D

-----------------------------------------------------------------------------
(* Measures of rows: the total, the least and the greatest of a column.    *)

\* The extremes of column W in the rows s.
Lowest(W, s) == LeastIn(Values(W, s))
Highest(W, s) == GreatestIn(Values(W, s))

\* The values of a column: finitely many naturals, with their extremes.
LEMMA ValuesIs ==
  ASSUME NEW X, NEW W \in [X -> Nat], NEW s \in Seq(X)
  PROVE  /\ Values(W, s) \in SUBSET Nat
         /\ Values(W, s) = {W[x] : x \in Range(s)}
         /\ IsLeast(Lowest(W, s), Values(W, s)) /\ Lowest(W, s) \in Nat
         /\ IsGreatest(Highest(W, s), Values(W, s)) /\ Highest(W, s) \in Nat
<1>1. Values(W, s) \in SUBSET Nat /\ Values(W, s) = {W[x] : x \in Range(s)}
  BY DEF Values, Range
<1>2. IsLeast(Lowest(W, s), Values(W, s))
  BY <1>1, LeastExists DEF Lowest
<1>3. IsGreatest(Highest(W, s), Values(W, s))
  <2> DEFINE v == Along(W, s)
             D == DOMAIN s
  <2>1. IsFiniteSet(D) /\ v \in [D -> Nat] /\ Values(W, s) = {v[i] : i \in D}
    <3>1. IsFiniteSet(D) /\ v \in [D -> Nat]
      BY AlongIs
    <3>2. Values(W, s) = {v[i] : i \in D}
      BY DEF Values, Along
    <3>3. QED
      BY <3>1, <3>2
  <2> HIDE DEF v, D
  <2>2. QED
    BY <2>1, GreatestExists DEF Highest
<1>4. QED
  BY <1>1, <1>2, <1>3 DEF IsLeast, IsGreatest

\* The extremes of the parts of a table.
Lows(W, ss) == {Lowest(W, ss[p]) : p \in DOMAIN ss}
Highs(W, ss) == {Highest(W, ss[p]) : p \in DOMAIN ss}

\* The extremes of a table are those of its parts' extremes.
LEMMA ExtremesOfFlatten ==
  ASSUME NEW X, NEW W \in [X -> Nat], NEW ss \in Seq(Seq(X))
  PROVE  /\ Lowest(W, FlattenSeq(ss)) = LeastIn(Lows(W, ss))
         /\ Highest(W, FlattenSeq(ss)) = GreatestIn(Highs(W, ss))
<1> DEFINE P == DOMAIN ss
           F == [p \in P |-> Values(W, ss[p])]
<1>1. \A p \in P : ss[p] \in Seq(X)
  OBVIOUS
<1>2. IsFiniteSet(P)
  <2>1. P = 1 .. Len(ss) /\ Len(ss) \in Nat
    OBVIOUS
  <2>2. QED
    BY <2>1, FS_Interval
<1>3. \A p \in P : /\ Values(W, ss[p]) \in SUBSET Nat
                   /\ Values(W, ss[p]) = {W[x] : x \in Range(ss[p])}
                   /\ IsGreatest(Highest(W, ss[p]), Values(W, ss[p]))
  BY <1>1, ValuesIs
<1>4. /\ FlattenSeq(ss) \in Seq(X)
      /\ Range(FlattenSeq(ss)) = UNION {Range(ss[p]) : p \in P}
  BY TotalOfFlatten
<1> HIDE DEF P
<1>5. Values(W, FlattenSeq(ss)) = UNION {F[p] : p \in P}
  <2>1. Values(W, FlattenSeq(ss)) = {W[x] : x \in Range(FlattenSeq(ss))}
    BY DEF Values, Range
  <2>a. \A p \in P : F[p] = {W[x] : x \in Range(ss[p])}
    BY <1>3
  <2>b. \A p \in P : \A y : y \in F[p] <=> \E x \in Range(ss[p]) : y = W[x]
    <3> HIDE DEF F
    <3> QED BY <2>a
  <2>2. \A y : y \in UNION {F[p] : p \in P} <=> \E p \in P : \E x \in Range(ss[p]) : y = W[x]
    <3> HIDE DEF F
    <3> QED BY <2>b
  <2>3. \A x : x \in Range(FlattenSeq(ss)) <=> \E p \in P : x \in Range(ss[p])
    BY <1>4
  <2>4. \A y : y \in Values(W, FlattenSeq(ss)) <=> \E p \in P : \E x \in Range(ss[p]) : y = W[x]
    BY <2>1, <2>3
  <2>5. QED
    BY <2>2, <2>4
<1>6. /\ F \in [P -> SUBSET Nat]
      /\ \A p \in P : IsGreatest(GreatestIn(F[p]), F[p])
  BY <1>3 DEF Highest
<1>7. /\ Lows(W, ss) = {LeastIn(F[p]) : p \in P}
      /\ Highs(W, ss) = {GreatestIn(F[p]) : p \in P}
  BY DEF Lowest, Highest, Lows, Highs, P
<1> HIDE DEF F
<1>8. LeastIn(UNION {F[p] : p \in P}) = LeastIn({LeastIn(F[p]) : p \in P})
  BY <1>6, LeastOfParts
<1>9. GreatestIn(UNION {F[p] : p \in P}) = GreatestIn({GreatestIn(F[p]) : p \in P})
  BY <1>2, <1>6, GreatestOfParts
<1>10. QED
  BY <1>5, <1>7, <1>8, <1>9 DEF Lowest, Highest, P

\* Columns V of partial batches qs against columns W of the parts ss of a table, batch
\* by batch in whatever order they came.
Merging(X, W, ss, Y, V, qs, order) ==
  /\ W \in [X -> Nat] /\ ss \in Seq(Seq(X))
  /\ V \in [Y -> Nat] /\ qs \in Seq(Seq(Y))
  /\ order \in Bijection(DOMAIN qs, DOMAIN ss)

\* Partial results of the parts: the measures of the whole.
LEMMA MergedMeasures ==
  ASSUME NEW X, NEW W, NEW ss, NEW Y, NEW V, NEW qs, NEW order,
         Merging(X, W, ss, Y, V, qs, order)
  PROVE  /\ (\A j \in DOMAIN qs : Total(V, qs[j]) = Total(W, ss[order[j]]))
              => Total(V, FlattenSeq(qs)) = Total(W, FlattenSeq(ss))
         /\ (\A j \in DOMAIN qs : Lowest(V, qs[j]) = Lowest(W, ss[order[j]]))
              => Lowest(V, FlattenSeq(qs)) = Lowest(W, FlattenSeq(ss))
         /\ (\A j \in DOMAIN qs : Highest(V, qs[j]) = Highest(W, ss[order[j]]))
              => Highest(V, FlattenSeq(qs)) = Highest(W, FlattenSeq(ss))
<1>a. /\ W \in [X -> Nat] /\ ss \in Seq(Seq(X))
      /\ V \in [Y -> Nat] /\ qs \in Seq(Seq(Y))
      /\ order \in Bijection(DOMAIN qs, DOMAIN ss)
  BY DEF Merging
<1> DEFINE J == DOMAIN qs
           P == DOMAIN ss
<1>1. order \in [J -> P] /\ \A p \in P : \E j \in J : order[j] = p
  BY <1>a DEF Bijection, Surjection
<1>2. ASSUME \A j \in DOMAIN qs : Total(V, qs[j]) = Total(W, ss[order[j]])
      PROVE  Total(V, FlattenSeq(qs)) = Total(W, FlattenSeq(ss))
  <2> DEFINE v == [p \in P |-> Total(W, ss[p])]
  <2>1. Total(V, FlattenSeq(qs)) = SumOf([j \in J |-> Total(V, qs[j])], J)
    <3>1. Total(V, FlattenSeq(qs)) = SumOf(Totals(V, qs), DOMAIN qs)
      BY <1>a, TotalOfFlatten
    <3>2. QED
      BY <3>1 DEF Totals
  <2>2. Total(W, FlattenSeq(ss)) = SumOf(v, P)
    <3>1. Total(W, FlattenSeq(ss)) = SumOf(Totals(W, ss), DOMAIN ss)
      BY <1>a, TotalOfFlatten
    <3>2. QED
      BY <3>1 DEF Totals
  <2>3. IsFiniteSet(J) /\ IsFiniteSet(P)
    <3>1. J = 1 .. Len(qs) /\ Len(qs) \in Nat /\ P = 1 .. Len(ss) /\ Len(ss) \in Nat
      BY <1>a
    <3>2. QED
      BY <3>1, FS_Interval
  <2>4. v \in [P -> Nat] /\ \A p \in P : v[p] = Total(W, ss[p])
    <3>1. \A p \in P : ss[p] \in Seq(X)
      BY <1>a
    <3>2. \A p \in P : Total(W, ss[p]) \in Nat
      BY <1>a, <3>1, AlongIs
    <3>3. QED
      BY <3>2
  <2>5. order \in Bijection(J, P)
    BY <1>a
  <2> HIDE DEF J, P, v
  <2>6. SumOf([j \in J |-> v[order[j]]], J) = SumOf(v, P)
    BY <2>3, <2>4, <2>5, SumOfListed
  <2>7. [j \in J |-> Total(V, qs[j])] = [j \in J |-> v[order[j]]]
    BY <1>1, <1>2, <2>4 DEF J
  <2>8. QED
    BY <2>1, <2>2, <2>6, <2>7
<1>3. ASSUME \A j \in DOMAIN qs : Lowest(V, qs[j]) = Lowest(W, ss[order[j]])
      PROVE  Lowest(V, FlattenSeq(qs)) = Lowest(W, FlattenSeq(ss))
  <2>1. /\ Lowest(V, FlattenSeq(qs)) = LeastIn(Lows(V, qs))
        /\ Lowest(W, FlattenSeq(ss)) = LeastIn(Lows(W, ss))
    BY <1>a, ExtremesOfFlatten
  <2>2. Lows(V, qs) = Lows(W, ss)
    BY <1>1, <1>3 DEF Lows
  <2>3. QED
    BY <2>1, <2>2
<1>4. ASSUME \A j \in DOMAIN qs : Highest(V, qs[j]) = Highest(W, ss[order[j]])
      PROVE  Highest(V, FlattenSeq(qs)) = Highest(W, FlattenSeq(ss))
  <2>1. /\ Highest(V, FlattenSeq(qs)) = GreatestIn(Highs(V, qs))
        /\ Highest(W, FlattenSeq(ss)) = GreatestIn(Highs(W, ss))
    BY <1>a, ExtremesOfFlatten
  <2>2. Highs(V, qs) = Highs(W, ss)
    BY <1>1, <1>4 DEF Highs
  <2>3. QED
    BY <2>1, <2>2
<1>5. QED
  BY <1>2, <1>3, <1>4

-----------------------------------------------------------------------------
(* Rows of some keys.                                                      *)

\* W, with the rows of other keys made NULL.
Only(W, keys) == [x \in DOMAIN W |-> IF Key(x) \in keys THEN W[x] ELSE 0]

\* A column restricted to some keys.
LEMMA OnlyIs ==
  ASSUME NEW X, NEW W \in [X -> Nat], NEW keys
  PROVE  /\ Only(W, keys) \in [X -> Nat] /\ Ones(W) \in [X -> Nat]
         /\ \A x \in X : Only(W, keys)[x] = IF Key(x) \in keys THEN W[x] ELSE 0
         /\ Ones(Only(W, keys)) = Only(Ones(W), keys)
<1>1. /\ Only(W, keys) \in [X -> Nat] /\ Ones(W) \in [X -> Nat]
      /\ \A x \in X : Only(W, keys)[x] = IF Key(x) \in keys THEN W[x] ELSE 0
  BY DEF Only, Ones
<1>2. \A x \in X : (IF (IF Key(x) \in keys THEN W[x] ELSE 0) = 0 THEN 0 ELSE 1)
                   = IF Key(x) \in keys THEN (IF W[x] = 0 THEN 0 ELSE 1) ELSE 0
  OBVIOUS
<1>3. Ones(Only(W, keys)) = Only(Ones(W), keys)
  BY <1>2 DEF Only, Ones
<1>4. QED
  BY <1>1, <1>3

\* FilterBatch keeps the rows of its keys.
LEMMA FilterIs ==
  ASSUME NEW X, NEW s \in Seq(X), NEW keys
  PROVE  /\ FilterBatch(s, keys) \in Seq(X)
         /\ Range(FilterBatch(s, keys)) = {x \in Range(s) : Key(x) \in keys}
<1> DEFINE ss == [n \in DOMAIN s |-> IF Key(s[n]) \in keys THEN <<s[n]>> ELSE << >>]
           W == [x \in X |-> 0]
<1>1. /\ DOMAIN s = 1 .. Len(s) /\ Len(s) \in Nat /\ \A i \in DOMAIN s : s[i] \in X
  OBVIOUS
<1>2. ss \in Seq(Seq(X)) /\ DOMAIN ss = DOMAIN s
  <2>1. \A n \in DOMAIN s : ss[n] \in Seq(X)
    BY <1>1
  <2>2. ss = [n \in 1 .. Len(s) |-> ss[n]]
    BY <1>1
  <2> HIDE DEF ss
  <2>3. QED
    BY <1>1, <2>1, <2>2
<1>3. \A n \in DOMAIN s : Range(ss[n]) = IF Key(s[n]) \in keys THEN {s[n]} ELSE {}
  BY DEF Range
<1>4. W \in [X -> Nat]
  OBVIOUS
<1>5. FilterBatch(s, keys) = FlattenSeq(ss)
  BY DEF FilterBatch, Concat
<1> HIDE DEF ss, W
<1>6. /\ FlattenSeq(ss) \in Seq(X)
      /\ Range(FlattenSeq(ss)) = UNION {Range(ss[p]) : p \in DOMAIN ss}
  BY <1>2, <1>4, TotalOfFlatten
<1>7. UNION {Range(ss[p]) : p \in DOMAIN ss} = {x \in Range(s) : Key(x) \in keys}
  <2>1. \A x : x \in Range(s) <=> \E n \in DOMAIN s : x = s[n]
    BY DEF Range
  <2>2. \A x : x \in UNION {Range(ss[p]) : p \in DOMAIN ss}
               <=> \E n \in DOMAIN s : x \in Range(ss[n])
    BY <1>2
  <2>3. \A x : \A n \in DOMAIN s : x \in Range(ss[n]) <=> Key(s[n]) \in keys /\ x = s[n]
    BY <1>3
  <2>4. QED
    BY <2>1, <2>2, <2>3
<1>8. QED
  BY <1>5, <1>6, <1>7

\* Measuring the rows that are left is measuring all, the others NULL.
LEMMA FilterMeasures ==
  ASSUME NEW X, NEW W \in [X -> Nat], NEW s \in Seq(X), NEW keys
  PROVE  /\ Total(W, FilterBatch(s, keys)) = Total(Only(W, keys), s)
         /\ Lowest(W, FilterBatch(s, keys)) = Lowest(Only(W, keys), s)
         /\ Highest(W, FilterBatch(s, keys)) = Highest(Only(W, keys), s)
<1> DEFINE ss == [n \in DOMAIN s |-> IF Key(s[n]) \in keys THEN <<s[n]>> ELSE << >>]
           O == Only(W, keys)
<1>1. /\ DOMAIN s = 1 .. Len(s) /\ Len(s) \in Nat /\ \A i \in DOMAIN s : s[i] \in X
  OBVIOUS
<1>2. ss \in Seq(Seq(X)) /\ DOMAIN ss = DOMAIN s
  <2>1. \A n \in DOMAIN s : ss[n] \in Seq(X)
    BY <1>1
  <2>2. ss = [n \in 1 .. Len(s) |-> ss[n]]
    BY <1>1
  <2> HIDE DEF ss
  <2>3. QED
    BY <1>1, <2>1, <2>2
<1>3. O \in [X -> Nat] /\ \A x \in X : O[x] = IF Key(x) \in keys THEN W[x] ELSE 0
  BY DEF Only
<1>4. FilterBatch(s, keys) = FlattenSeq(ss)
  BY DEF FilterBatch, Concat
<1>5. \A n \in DOMAIN s : Total(W, ss[n]) = O[s[n]]
  <2>1. ASSUME NEW n \in DOMAIN s, Key(s[n]) \in keys  PROVE Total(W, ss[n]) = O[s[n]]
    <3>1. ss[n] = <<s[n]>> /\ s[n] \in X
      BY <2>1, <1>1
    <3>2. Total(W, <<s[n]>>) = W[s[n]]
      BY <3>1, TotalOfOne
    <3>3. QED
      BY <3>1, <3>2, <2>1, <1>3
  <2>2. ASSUME NEW n \in DOMAIN s, Key(s[n]) \notin keys  PROVE Total(W, ss[n]) = O[s[n]]
    <3>1. ss[n] = << >> /\ s[n] \in X
      BY <2>2, <1>1
    <3>2. QED
      BY <3>1, <2>2, <1>3, TotalOfNone
  <2>3. QED
    BY <2>1, <2>2
<1> HIDE DEF ss, O
<1>6. Total(W, FlattenSeq(ss)) = Total(O, s)
  <2>1. Total(W, FlattenSeq(ss)) = SumOf(Totals(W, ss), DOMAIN ss)
    BY <1>2, TotalOfFlatten
  <2>2. Totals(W, ss) = Along(O, s)
    BY <1>2, <1>5 DEF Along, Totals
  <2>3. QED
    BY <2>1, <2>2, <1>2 DEF Total
<1>7. /\ FilterBatch(s, keys) \in Seq(X)
      /\ Range(FilterBatch(s, keys)) = {x \in Range(s) : Key(x) \in keys}
  BY FilterIs
<1> DEFINE f == FilterBatch(s, keys)
           V == Values(W, f)
           U == Values(O, s)
<1>8. /\ V \in SUBSET Nat /\ V = {W[x] : x \in Range(f)}
      /\ U \in SUBSET Nat /\ U = {O[x] : x \in Range(s)}
      /\ IsGreatest(GreatestIn(U), U)
  <2>1. V \in SUBSET Nat /\ V = {W[x] : x \in Range(f)}
    BY <1>7, ValuesIs
  <2>2. U \in SUBSET Nat /\ U = {O[x] : x \in Range(s)} /\ IsGreatest(Highest(O, s), U)
    BY <1>3, ValuesIs
  <2>3. QED
    BY <2>1, <2>2 DEF Highest
<1>9. Range(s) \in SUBSET X
  BY DEF Range
<1> HIDE DEF V, U, f
<1>10. V \ {0} = U \ {0}
  <2>1. ASSUME NEW v \in V, v # 0  PROVE v \in U
    <3>1. PICK x \in Range(s) : Key(x) \in keys /\ v = W[x]
      BY <1>7, <1>8 DEF f
    <3>2. O[x] = v
      BY <3>1, <1>3, <1>9
    <3>3. QED
      BY <3>2, <1>8
  <2>2. ASSUME NEW u \in U, u # 0  PROVE u \in V
    <3>1. PICK x \in Range(s) : u = O[x]
      BY <1>8
    <3>2. Key(x) \in keys /\ W[x] = u
      BY <3>1, <2>2, <1>3, <1>9
    <3>3. QED
      BY <3>1, <3>2, <1>7, <1>8 DEF f
  <2>3. QED
    BY <2>1, <2>2
<1>11. LeastIn(V) = LeastIn(U) /\ GreatestIn(V) = GreatestIn(U)
  BY <1>8, <1>10, LeastSame, GreatestSame
<1>12. QED
  BY <1>4, <1>6, <1>11 DEF Lowest, Highest, V, U, f, O

-----------------------------------------------------------------------------
(* States in terms of measures.                                            *)

\* The values along a column are the values of the rows.
LEMMA AlongValues ==
  ASSUME NEW W, NEW s
  PROVE  {Along(W, s)[i] : i \in DOMAIN s} = Values(W, s)
BY DEF Along, Values

\* A state, in terms of measures.
LEMMA StateIs ==
  ASSUME NEW X, NEW W \in [X -> Nat], NEW s \in Seq(X)
  PROVE  State(W, s) = [count |-> Total(Ones(W), s), sum |-> Total(W, s),
                        seen |-> Total(W, s) # 0,
                        min |-> Lowest(W, s), max |-> Highest(W, s)]
<1>1. Ones(Along(W, s)) = Along(Ones(W), s)
  <2>1. DOMAIN W = X /\ \A i \in DOMAIN s : s[i] \in X
    OBVIOUS
  <2>2. QED
    BY <2>1 DEF Ones, Along
<1>2. QED
  BY <1>1, AlongValues DEF State, FormOf, Total, Lowest, Highest

\* The partial row of some rows.
PartialTuple(W, s) ==
  <<Total(Ones(W), s), Total(W, s), Lowest(W, s), Highest(W, s), Total(W, s),
    Total(Ones(W), s)>>

\* Measures are naturals.
LEMMA MeasuresNat ==
  ASSUME NEW X, NEW W \in [X -> Nat], NEW s \in Seq(X)
  PROVE  /\ Total(Ones(W), s) \in Nat /\ Total(W, s) \in Nat
         /\ Lowest(W, s) \in Nat /\ Highest(W, s) \in Nat
<1>1. Ones(W) \in [X -> Nat]
  BY DEF Ones
<1>2. Total(Ones(W), s) \in Nat
  BY <1>1, AlongIs
<1>3. Total(W, s) \in Nat
  BY AlongIs
<1>4. QED
  BY <1>2, <1>3, ValuesIs

\* A partial row, in terms of measures.
LEMMA PartialIs ==
  ASSUME NEW X, NEW W \in [X -> Nat], NEW s \in Seq(X)
  PROVE  /\ Partial(State(W, s)) = PartialTuple(W, s)
         /\ SumValue(State(W, s)) = Total(W, s)
<1>1. SumValue(State(W, s)) = Total(W, s)
  <2>1. State(W, s).sum = Total(W, s) /\ State(W, s).seen = (Total(W, s) # 0)
    BY StateIs
  <2>2. CASE Total(W, s) = 0
    BY <2>1, <2>2 DEF SumValue, Null
  <2>3. CASE Total(W, s) # 0
    BY <2>1, <2>3 DEF SumValue, Null
  <2>4. QED
    BY <2>2, <2>3
<1>2. QED
  BY <1>1, StateIs DEF Partial, PartialTuple

\* A finished state, in terms of measures.
LEMMA FinishedIs ==
  ASSUME NEW X, NEW W \in [X -> Nat], NEW s \in Seq(X)
  PROVE  Finished(State(W, s)) = <<Total(Ones(W), s), Total(W, s), Lowest(W, s),
                                   Highest(W, s), <<Total(W, s), Total(Ones(W), s)>>>>
BY StateIs, PartialIs DEF Finished

\* A merged state, in terms of measures.
LEMMA MergedIs ==
  ASSUME NEW W, NEW s
  PROVE  MergedForm(Columns(W, s), DOMAIN s) =
           [count |-> Total(W[1], s), sum |-> Total(W[2], s), seen |-> Total(W[2], s) # 0,
            min |-> Lowest(W[3], s), max |-> Highest(W[4], s),
            avgSum |-> Total(W[5], s), avgCount |-> Total(W[6], s)]
<1>1. /\ Columns(W, s)[1] = Along(W[1], s) /\ Columns(W, s)[2] = Along(W[2], s)
      /\ Columns(W, s)[3] = Along(W[3], s) /\ Columns(W, s)[4] = Along(W[4], s)
      /\ Columns(W, s)[5] = Along(W[5], s) /\ Columns(W, s)[6] = Along(W[6], s)
  BY DEF Columns
<1>2. /\ {Along(W[3], s)[i] : i \in DOMAIN s} = Values(W[3], s)
      /\ {Along(W[4], s)[i] : i \in DOMAIN s} = Values(W[4], s)
  BY AlongValues
<1>3. QED
  BY <1>1, <1>2 DEF MergedForm, Total, Lowest, Highest

\* No count, no sum.
LEMMA NothingCounted ==
  ASSUME NEW X, NEW W \in [X -> Nat], NEW s \in Seq(X), Total(Ones(W), s) = 0
  PROVE  Total(W, s) = 0
<1> DEFINE O == Ones(W)
<1>1. O \in [X -> Nat] /\ \A x \in X : O[x] = IF W[x] = 0 THEN 0 ELSE 1
  BY DEF Ones
<1>2. Total(O, s) = 0
  OBVIOUS
<1> HIDE DEF O
<1>3. /\ IsFiniteSet(DOMAIN s) /\ Along(O, s) \in [DOMAIN s -> Nat]
      /\ \A i \in DOMAIN s : Along(O, s)[i] = O[s[i]] /\ s[i] \in X
  BY <1>1, AlongIs
<1>4. /\ Along(W, s) \in [DOMAIN s -> Nat]
      /\ \A i \in DOMAIN s : Along(W, s)[i] = W[s[i]]
  BY AlongIs
<1>5. \A i \in DOMAIN s : Along(O, s)[i] = 0
  BY <1>2, <1>3, SumOfFew DEF Total
<1>6. \A i \in DOMAIN s : Along(W, s)[i] = 0
  BY <1>1, <1>3, <1>4, <1>5
<1>7. QED
  BY <1>3, <1>4, <1>6, SumOfFew DEF Total

\* Measures when one row at most is not NULL.
LEMMA FewRows ==
  ASSUME NEW X, NEW V \in [X -> Nat], NEW s \in Seq(X)
  PROVE  /\ \A n \in DOMAIN s : (\A i \in DOMAIN s \ {n} : V[s[i]] = 0) =>
              Total(V, s) = V[s[n]] /\ Lowest(V, s) = V[s[n]] /\ Highest(V, s) = V[s[n]]
         /\ (\A i \in DOMAIN s : V[s[i]] = 0) =>
              Total(V, s) = 0 /\ Lowest(V, s) = 0 /\ Highest(V, s) = 0
<1>1. /\ IsFiniteSet(DOMAIN s) /\ Along(V, s) \in [DOMAIN s -> Nat]
      /\ \A i \in DOMAIN s : Along(V, s)[i] = V[s[i]] /\ s[i] \in X
  BY AlongIs
<1>2. Values(V, s) \in SUBSET Nat
  BY ValuesIs
<1>3. ASSUME NEW n \in DOMAIN s, \A i \in DOMAIN s \ {n} : V[s[i]] = 0
      PROVE  Total(V, s) = V[s[n]] /\ Lowest(V, s) = V[s[n]] /\ Highest(V, s) = V[s[n]]
  <2>1. Total(V, s) = V[s[n]]
    BY <1>1, <1>3, SumOfFew DEF Total
  <2>2. V[s[n]] \in Nat /\ V[s[n]] \in Values(V, s)
    BY <1>1 DEF Values
  <2>3. \A x \in Values(V, s) : x = 0 \/ x = V[s[n]]
    BY <1>3 DEF Values
  <2>4. IsLeast(V[s[n]], Values(V, s)) /\ IsGreatest(V[s[n]], Values(V, s))
    BY <2>2, <2>3 DEF IsLeast, IsGreatest
  <2>5. QED
    BY <1>2, <2>1, <2>4, LeastUnique, GreatestUnique DEF Lowest, Highest
<1>4. ASSUME \A i \in DOMAIN s : V[s[i]] = 0
      PROVE  Total(V, s) = 0 /\ Lowest(V, s) = 0 /\ Highest(V, s) = 0
  <2>1. Total(V, s) = 0
    BY <1>1, <1>4, SumOfFew DEF Total
  <2>2. \A x \in Values(V, s) : x = 0
    BY <1>4 DEF Values
  <2>3. IsLeast(0, Values(V, s)) /\ IsGreatest(0, Values(V, s))
    BY <2>2 DEF IsLeast, IsGreatest
  <2>4. QED
    BY <1>2, <2>1, <2>3, LeastUnique, GreatestUnique DEF Lowest, Highest
<1>5. QED
  BY <1>3, <1>4

-----------------------------------------------------------------------------
(* Groups in the order of their keys.                                      *)

\* The keys of a table are those at its positions, finitely many.
LEMMA KeysFinite ==
  ASSUME NEW X, NEW s \in Seq(X)
  PROVE  IsFiniteSet(Keys(s)) /\ Keys(s) = {Key(s[i]) : i \in DOMAIN s}
<1> DEFINE f == [i \in DOMAIN s |-> Key(s[i])]
<1>1. Keys(s) = {Key(s[i]) : i \in DOMAIN s}
  BY DEF Keys, ToSet
<1>2. f \in Surjection(DOMAIN s, Keys(s))
  BY <1>1 DEF Surjection
<1>3. IsFiniteSet(DOMAIN s)
  <2>1. DOMAIN s = 1 .. Len(s) /\ Len(s) \in Nat
    OBVIOUS
  <2>2. QED
    BY <2>1, FS_Interval
<1> HIDE DEF f
<1>4. QED
  BY <1>1, <1>2, <1>3, FS_Surjection

\* Every key once.
LEMMA InOrder ==
  ASSUME NEW K \in SUBSET Nat, IsFiniteSet(K)
  PROVE  InOrderOf(K) \in Bijection(1 .. Cardinality(K), K)
<1> DEFINE n == Cardinality(K)
           Below(k) == {j \in K : j < k}
           rank == [k \in K |-> Cardinality(Below(k)) + 1]
<1>1. n \in Nat
  BY FS_CardinalityType
<1>2. \A k \in K : IsFiniteSet(Below(k)) /\ Cardinality(Below(k)) \in Nat
                   /\ Cardinality(Below(k)) <= n - 1
  <2>1. SUFFICES ASSUME NEW k \in K
                 PROVE  IsFiniteSet(Below(k)) /\ Cardinality(Below(k)) \in Nat
                        /\ Cardinality(Below(k)) <= n - 1
    OBVIOUS
  <2>2. IsFiniteSet(K \ {k}) /\ Cardinality(K \ {k}) = n - 1
    BY FS_RemoveElement
  <2>3. Below(k) \in SUBSET (K \ {k})
    <3>1. \A j \in K : j < k => j # k
      OBVIOUS
    <3>2. QED
      BY <3>1
  <2> HIDE DEF n, Below
  <2>4. IsFiniteSet(Below(k)) /\ Cardinality(Below(k)) <= Cardinality(K \ {k})
    BY <2>2, <2>3, FS_Subset
  <2>5. QED
    BY <2>2, <2>4, FS_CardinalityType
<1>3. ASSUME NEW k \in K, NEW l \in K, k < l
      PROVE  Cardinality(Below(k)) # Cardinality(Below(l))
  <2>1. Below(k) \in SUBSET Below(l) /\ k \in Below(l) /\ k \notin Below(k)
    <3>1. \A j \in K : j < k => j < l
      BY <1>3
    <3>2. ~(k < k)
      OBVIOUS
    <3>3. QED
      BY <1>3, <3>1, <3>2
  <2>2. IsFiniteSet(Below(l))
    BY <1>2
  <2> HIDE DEF Below
  <2>3. QED
    BY <2>1, <2>2, FS_Subset
<1> HIDE DEF n, Below
<1>4. rank \in [K -> 1 .. n] /\ \A k \in K : rank[k] = Cardinality(Below(k)) + 1
  <2>1. \A k \in K : Cardinality(Below(k)) + 1 \in 1 .. n
    BY <1>1, <1>2
  <2>2. QED
    BY <2>1
<1> HIDE DEF rank
<1>5. ASSUME NEW k \in K, NEW l \in K, rank[k] = rank[l]  PROVE k = l
  <2>1. Cardinality(Below(k)) = Cardinality(Below(l))
    BY <1>2, <1>4, <1>5
  <2>2. ~(k < l) /\ ~(l < k)
    BY <1>3, <2>1
  <2>3. k \in Nat /\ l \in Nat
    OBVIOUS
  <2>4. QED
    BY <2>2, <2>3
<1>6. rank \in Injection(K, 1 .. n)
  BY <1>4, <1>5 DEF Injection, IsInjective
<1>7. IsFiniteSet(1 .. n) /\ Cardinality(1 .. n) = n
  BY <1>1, FS_Interval
<1>8. rank \in Surjection(K, 1 .. n)
  <2>1. Cardinality(K) = Cardinality(1 .. n)
    BY <1>7 DEF n
  <2>2. QED
    BY <1>6, <1>7, <2>1, FS_Injection
<1> DEFINE keys == InOrderOf(K)
<1>9. \A m \in 1 .. n : \A k \in K : rank[k] = m <=> Cardinality(Below(k)) = m - 1
  BY <1>1, <1>2, <1>4
<1>10. \A m \in 1 .. n : \E k \in K : rank[k] = m
  BY <1>8 DEF Surjection
<1>11. keys = [m \in 1 .. n |-> CHOOSE k \in K : Cardinality(Below(k)) = m - 1]
  BY DEF InOrderOf, n, Below
<1>12. \A m \in 1 .. n : keys[m] \in K /\ rank[keys[m]] = m
  <2>1. SUFFICES ASSUME NEW m \in 1 .. n  PROVE keys[m] \in K /\ rank[keys[m]] = m
    OBVIOUS
  <2> DEFINE Q(k) == Cardinality(Below(k)) = m - 1
  <2>2. \E k \in K : Q(k)
    BY <1>9, <1>10
  <2>3. keys[m] = CHOOSE k \in K : Q(k)
    BY <1>11
  <2> HIDE DEF keys
  <2>4. keys[m] \in K /\ Q(keys[m])
    <3> HIDE DEF Q
    <3> QED BY <2>2, <2>3
  <2>5. QED
    BY <2>4, <1>9
<1>13. keys \in [1 .. n -> K]
  BY <1>11, <1>12
<1> HIDE DEF keys
<1>14. \A k \in K : \E m \in 1 .. n : keys[m] = k
  <2>1. SUFFICES ASSUME NEW k \in K  PROVE keys[rank[k]] = k
    BY <1>4
  <2>2. rank[k] \in 1 .. n
    BY <1>4
  <2>3. keys[rank[k]] \in K /\ rank[keys[rank[k]]] = rank[k]
    BY <1>12, <2>2
  <2>4. QED
    BY <1>5, <2>3
<1>15. \A a, b \in 1 .. n : keys[a] = keys[b] => a = b
  BY <1>12
<1>16. keys \in Bijection(1 .. n, K)
  BY <1>13, <1>14, <1>15 DEF Bijection, Injection, Surjection, IsInjective
<1>17. QED
  BY <1>16 DEF keys, n

\* A key in front of a row.
LEMMA KeyedRow ==
  ASSUME NEW Y, NEW k \in Y, NEW t \in Seq(Y)
  PROVE  /\ <<k>> \o t \in Seq(Y) /\ Len(<<k>> \o t) = Len(t) + 1
         /\ Key(<<k>> \o t) = k /\ Tail(<<k>> \o t) = t
<1> DEFINE r == <<k>> \o t
<1>1. /\ r \in Seq(Y) /\ Len(r) = Len(t) + 1 /\ Len(t) \in Nat /\ r # << >>
      /\ \A i \in 1 .. Len(t) + 1 : r[i] = IF i <= 1 THEN k ELSE t[i - 1]
  OBVIOUS
<1>2. r[1] = k
  BY <1>1
<1> HIDE DEF r
<1>3. /\ Tail(r) \in Seq(Y) /\ Len(Tail(r)) = Len(t)
      /\ \A i \in 1 .. Len(t) : Tail(r)[i] = r[i + 1]
  BY <1>1
<1>4. \A i \in 1 .. Len(t) : Tail(r)[i] = t[i]
  <2>1. ASSUME NEW i \in 1 .. Len(t) PROVE Tail(r)[i] = t[i]
    <3>1. i + 1 \in 1 .. Len(t) + 1 /\ ~(i + 1 <= 1) /\ (i + 1) - 1 = i
      BY <1>1
    <3>2. QED
      BY <1>1, <1>3, <3>1
  <2>2. QED
    BY <2>1
<1>5. Tail(r) = t
  BY <1>3, <1>4, SeqEqual
<1>6. QED
  BY <1>1, <1>2, <1>5 DEF r, Key

-----------------------------------------------------------------------------
(* Partial rows and what they measure.                                     *)

\* Rows of the table, a key and a value, and the column of the values.
Row == Nat \X Nat
Val == [x \in Row |-> x[2]]

\* Rows of partial states, without and with a key in front, and their columns.
PartialRow == {r \in Seq(Nat) : Len(r) = 6}
GroupRow == {r \in Seq(Nat) : Len(r) = 7}
PartialColumns == [j \in 1 .. 6 |-> [r \in PartialRow |-> r[j]]]
GroupColumns == [j \in 1 .. 6 |-> [r \in GroupRow |-> Tail(r)[j]]]

\* The columns of one group only.
ColumnsOf(k) == [j \in 1 .. 6 |-> Only(GroupColumns[j], {k})]

\* Whichever way the rows q are merged, their columns give t.
Measure(C, q, t) ==
  \A j \in 1 .. 6 : Total(C[j], q) = t[j] /\ Lowest(C[j], q) = t[j] /\ Highest(C[j], q) = t[j]

\* Rows have a value and a key.
LEMMA ValIs == Val \in [Row -> Nat] /\ \A x \in Row : Val[x] = x[2] /\ Key(x) \in Nat
BY DEF Val, Row, Key

\* The items and the tail of a tuple of known length.
LEMMA ItemsOf ==
  ASSUME NEW X, NEW n \in Nat, NEW r \in Seq(X), Len(r) = n
  PROVE  /\ \A j \in 1 .. n : r[j] \in X
         /\ n # 0 => r # << >> /\ Tail(r) \in Seq(X) /\ Len(Tail(r)) = n - 1
<1>1. \A j \in 1 .. n : r[j] \in X
  OBVIOUS
<1>2. n # 0 => r # << >>
  OBVIOUS
<1>3. QED
  BY <1>1, <1>2

\* The columns of partial rows hold naturals.
LEMMA ColumnTypes ==
  /\ PartialColumns \in [1 .. 6 -> [PartialRow -> Nat]]
  /\ \A j \in 1 .. 6, r \in PartialRow : PartialColumns[j][r] = r[j]
  /\ GroupColumns \in [1 .. 6 -> [GroupRow -> Nat]]
  /\ \A j \in 1 .. 6, r \in GroupRow : GroupColumns[j][r] = Tail(r)[j]
<1>a. 6 \in Nat /\ 7 \in Nat /\ 7 # 0 /\ 7 - 1 = 6
  OBVIOUS
<1>1. \A r \in PartialRow, j \in 1 .. 6 : r[j] \in Nat
  <2>1. \A r \in PartialRow : r \in Seq(Nat) /\ Len(r) = 6
    BY DEF PartialRow
  <2>2. \A r \in PartialRow : \A j \in 1 .. 6 : r[j] \in Nat
    BY <1>a, <2>1, ItemsOf
  <2>3. QED
    BY <2>2
<1>2. \A r \in GroupRow, j \in 1 .. 6 : Tail(r)[j] \in Nat
  <2>1. \A r \in GroupRow : r \in Seq(Nat) /\ Len(r) = 7
    BY DEF GroupRow
  <2>2. ASSUME NEW r \in GroupRow  PROVE Tail(r) \in Seq(Nat) /\ Len(Tail(r)) = 6
    <3>1. r \in Seq(Nat) /\ Len(r) = 7
      BY <2>1
    <3>2. Tail(r) \in Seq(Nat) /\ Len(Tail(r)) = 7 - 1
      BY <1>a, <3>1, ItemsOf
    <3>3. QED
      BY <3>2
  <2>3. \A r \in GroupRow : \A j \in 1 .. 6 : Tail(r)[j] \in Nat
    BY <1>a, <2>2, ItemsOf
  <2>4. QED
    BY <2>3
<1>3. QED
  BY <1>1, <1>2 DEF PartialColumns, GroupColumns

\* The six columns of a partial row.
LEMMA TupleIs ==
  ASSUME NEW X, NEW W \in [X -> Nat], NEW s \in Seq(X)
  PROVE  PartialTuple(W, s) \in PartialRow
BY MeasuresNat DEF PartialTuple, PartialRow

\* The columns of one group hold naturals, zero in the rows of other groups.
LEMMA ColumnsOfIs ==
  ASSUME NEW k
  PROVE  /\ ColumnsOf(k) \in [1 .. 6 -> [GroupRow -> Nat]]
         /\ \A j \in 1 .. 6, r \in GroupRow :
              ColumnsOf(k)[j][r] = IF Key(r) = k THEN Tail(r)[j] ELSE 0
<1>1. \A j \in 1 .. 6 : GroupColumns[j] \in [GroupRow -> Nat]
  BY ColumnTypes
<1>2. ASSUME NEW j \in 1 .. 6
      PROVE  /\ Only(GroupColumns[j], {k}) \in [GroupRow -> Nat]
             /\ \A r \in GroupRow : Only(GroupColumns[j], {k})[r]
                                      = IF Key(r) = k THEN GroupColumns[j][r] ELSE 0
  BY <1>1 DEF Only
<1>3. QED
  BY <1>2, ColumnTypes DEF ColumnsOf

\* The partial aggregate of a partition without GROUP BY.
LEMMA PartialAggregateIs ==
  ASSUME NEW rows \in Seq(Row)
  PROVE  /\ PartialOf(rows, FALSE) = <<PartialTuple(Val, rows)>>
         /\ PartialOf(rows, FALSE) \in Seq(PartialRow)
         /\ Len(PartialOf(rows, FALSE)) = 1
         /\ Measure(PartialColumns, PartialOf(rows, FALSE), PartialTuple(Val, rows))
<1> DEFINE t == PartialTuple(Val, rows)
<1>1. PartialOf(rows, FALSE) = <<t>>
  <2>1. StateOf(rows) = State(Val, rows)
    BY ValIs, UpdateFold DEF StateOf
  <2>2. QED
    BY <2>1, ValIs, PartialIs DEF PartialOf, PartialAggregate
<1>2. t \in PartialRow
  BY ValIs, TupleIs
<1> HIDE DEF t
<1>3. <<t>> \in Seq(PartialRow) /\ Len(<<t>>) = 1 /\ DOMAIN <<t>> = {1} /\ <<t>>[1] = t
  BY <1>2
<1>4. ASSUME NEW j \in 1 .. 6
      PROVE  LET V == PartialColumns[j]
             IN  Total(V, <<t>>) = t[j] /\ Lowest(V, <<t>>) = t[j] /\ Highest(V, <<t>>) = t[j]
  <2> DEFINE V == PartialColumns[j]
             q == <<t>>
  <2>1. V \in [PartialRow -> Nat] /\ V[t] = t[j]
    BY ColumnTypes, <1>2
  <2>2. q \in Seq(PartialRow) /\ 1 \in DOMAIN q /\ q[1] = t /\ DOMAIN q \ {1} = {}
    BY <1>3
  <2> HIDE DEF V, q
  <2>3. Total(V, q) = V[q[1]] /\ Lowest(V, q) = V[q[1]] /\ Highest(V, q) = V[q[1]]
    BY <2>1, <2>2, FewRows
  <2>4. QED
    BY <2>1, <2>2, <2>3 DEF V, q
<1>5. Measure(PartialColumns, <<t>>, t)
  BY <1>4 DEF Measure
<1>6. QED
  BY <1>1, <1>3, <1>5 DEF t

\* A group's rows, or all rows with the others made NULL.
LEMMA GroupTuple ==
  ASSUME NEW rows \in Seq(Row), NEW k
  PROVE  /\ RowsOf(rows, k) \in Seq(Row)
         /\ PartialTuple(Val, RowsOf(rows, k)) = PartialTuple(Only(Val, {k}), rows)
         /\ Only(Val, {k}) \in [Row -> Nat]
<1>1. Val \in [Row -> Nat] /\ Ones(Val) \in [Row -> Nat]
  BY ValIs DEF Ones
<1>2. RowsOf(rows, k) \in Seq(Row)
  BY FilterIs DEF RowsOf
<1>3. /\ Total(Val, RowsOf(rows, k)) = Total(Only(Val, {k}), rows)
      /\ Lowest(Val, RowsOf(rows, k)) = Lowest(Only(Val, {k}), rows)
      /\ Highest(Val, RowsOf(rows, k)) = Highest(Only(Val, {k}), rows)
  BY <1>1, FilterMeasures DEF RowsOf
<1>4. Total(Ones(Val), RowsOf(rows, k)) = Total(Only(Ones(Val), {k}), rows)
  BY <1>1, FilterMeasures DEF RowsOf
<1>5. Ones(Only(Val, {k})) = Only(Ones(Val), {k}) /\ Only(Val, {k}) \in [Row -> Nat]
  BY <1>1, OnlyIs
<1>6. QED
  BY <1>2, <1>3, <1>4, <1>5 DEF PartialTuple

\* A key without rows.
LEMMA NoGroup ==
  ASSUME NEW rows \in Seq(Row), NEW k, k \notin Keys(rows)
  PROVE  \A j \in 1 .. 6 : PartialTuple(Only(Val, {k}), rows)[j] = 0
<1> DEFINE W == Only(Val, {k})
           O == Ones(W)
<1>1. W \in [Row -> Nat] /\ \A x \in Row : Key(x) # k => W[x] = 0
  BY ValIs DEF Only
<1>2. O \in [Row -> Nat] /\ \A x \in Row : Key(x) # k => O[x] = 0
  BY <1>1 DEF Ones
<1>3. \A i \in DOMAIN rows : rows[i] \in Row /\ Key(rows[i]) # k
  BY KeysFinite
<1> HIDE DEF W, O
<1>4. Total(W, rows) = 0 /\ Lowest(W, rows) = 0 /\ Highest(W, rows) = 0
  BY <1>1, <1>3, FewRows
<1>5. Total(O, rows) = 0
  BY <1>2, <1>3, FewRows
<1>6. PartialTuple(W, rows) = <<0, 0, 0, 0, 0, 0>>
  BY <1>4, <1>5 DEF PartialTuple, O
<1>7. QED
  BY <1>6 DEF W

\* A key's rows start its group.
GroupsOf(rows) == [k \in Keys(rows) |-> State(Val, RowsOf(rows, k))]

\* hash_aggregate keeps one state per key, that of the key's rows.
LEMMA GroupsAre ==
  ASSUME NEW rows \in Seq(Row)
  PROVE  /\ GroupStates(rows, NewState, UpdateRow) = GroupsOf(rows)
         /\ Keys(rows) \in SUBSET Nat /\ IsFiniteSet(Keys(rows))
<1>1. \A k \in Keys(rows) : FoldLeft(UpdateRow, NewState, RowsOf(rows, k))
                              = State(Val, RowsOf(rows, k))
  <2>1. SUFFICES ASSUME NEW k \in Keys(rows)
                 PROVE  FoldLeft(UpdateRow, NewState, RowsOf(rows, k))
                          = State(Val, RowsOf(rows, k))
    OBVIOUS
  <2>2. RowsOf(rows, k) \in Seq(Row)
    BY GroupTuple
  <2>3. QED
    BY <2>2, ValIs, UpdateFold
<1>2. GroupStates(rows, NewState, UpdateRow) = GroupsOf(rows)
  BY <1>1 DEF GroupStates, GroupsOf
<1>3. Keys(rows) = {Key(rows[i]) : i \in DOMAIN rows} /\ IsFiniteSet(Keys(rows))
  BY KeysFinite
<1>4. \A i \in DOMAIN rows : Key(rows[i]) \in Nat
  BY ValIs
<1>5. QED
  BY <1>2, <1>3, <1>4

\* The partial aggregate of a partition with GROUP BY: a row for every key.
LEMMA PartialGroupByIs ==
  ASSUME NEW rows \in Seq(Row)
  PROVE  /\ PartialOf(rows, TRUE) \in Seq(GroupRow)
         /\ Keys(PartialOf(rows, TRUE)) = Keys(rows)
         /\ Len(PartialOf(rows, TRUE)) = Cardinality(Keys(rows))
         /\ \A k : Measure(ColumnsOf(k), PartialOf(rows, TRUE),
                           PartialTuple(Only(Val, {k}), rows))
<1> DEFINE K == Keys(rows)
           n == Cardinality(K)
           keys == InOrderOf(K)
           tuple == [k \in K |-> PartialTuple(Only(Val, {k}), rows)]
           B == PartialOf(rows, TRUE)
<1>1. K \in SUBSET Nat /\ IsFiniteSet(K) /\ n \in Nat
  BY GroupsAre, FS_CardinalityType
<1>2. keys \in Bijection(1 .. n, K)
  BY <1>1, InOrder
<1>3. \A k \in K : Partial(GroupsOf(rows)[k]) = tuple[k] /\ tuple[k] \in PartialRow
  <2>1. SUFFICES ASSUME NEW k \in K
                 PROVE  Partial(GroupsOf(rows)[k]) = tuple[k] /\ tuple[k] \in PartialRow
    OBVIOUS
  <2>2. GroupsOf(rows)[k] = State(Val, RowsOf(rows, k))
    BY DEF GroupsOf
  <2>3. RowsOf(rows, k) \in Seq(Row)
    BY GroupTuple
  <2>4. Partial(State(Val, RowsOf(rows, k))) = PartialTuple(Val, RowsOf(rows, k))
    BY <2>3, ValIs, PartialIs
  <2>5. PartialTuple(Val, RowsOf(rows, k)) = tuple[k]
    BY GroupTuple
  <2>6. PartialTuple(Val, RowsOf(rows, k)) \in PartialRow
    BY <2>3, ValIs, TupleIs
  <2>7. QED
    BY <2>2, <2>4, <2>5, <2>6
<1>4. B = [m \in DOMAIN keys |-> <<keys[m]>> \o Partial(GroupsOf(rows)[keys[m]])]
  <2>1. DOMAIN GroupsOf(rows) = K
    BY DEF GroupsOf
  <2>2. QED
    BY <2>1, GroupsAre DEF PartialOf, PartialGroupBy, InKeyOrder
<1>9. \A k \in K : tuple[k] = PartialTuple(Only(Val, {k}), rows)
  OBVIOUS
<1> HIDE DEF K, n, keys, tuple, B
<1>5. /\ keys \in [1 .. n -> K] /\ DOMAIN keys = 1 .. n
      /\ \A a, b \in 1 .. n : keys[a] = keys[b] => a = b
      /\ \A k \in K : \E m \in 1 .. n : keys[m] = k
  BY <1>2 DEF Bijection, Injection, Surjection, IsInjective
<1>6. B = [m \in 1 .. n |-> <<keys[m]>> \o tuple[keys[m]]]
  BY <1>3, <1>4, <1>5
<1>7. ASSUME NEW m \in 1 .. n
      PROVE  /\ B[m] \in GroupRow /\ Key(B[m]) = keys[m]
             /\ Tail(B[m]) = tuple[keys[m]]
  <2>1. B[m] = <<keys[m]>> \o tuple[keys[m]] /\ keys[m] \in K
    BY <1>5, <1>6
  <2>2. keys[m] \in Nat /\ tuple[keys[m]] \in Seq(Nat) /\ Len(tuple[keys[m]]) = 6
    BY <1>1, <1>3, <2>1 DEF PartialRow
  <2>3. ASSUME NEW k \in Nat, NEW t \in Seq(Nat)
        PROVE  /\ <<k>> \o t \in Seq(Nat) /\ Len(<<k>> \o t) = Len(t) + 1
               /\ Key(<<k>> \o t) = k /\ Tail(<<k>> \o t) = t
    BY KeyedRow
  <2>4. /\ B[m] \in Seq(Nat) /\ Len(B[m]) = Len(tuple[keys[m]]) + 1
        /\ Key(B[m]) = keys[m] /\ Tail(B[m]) = tuple[keys[m]]
    BY <2>1, <2>2, <2>3
  <2>5. Len(B[m]) = 7
    BY <2>2, <2>4
  <2>6. QED
    BY <2>4, <2>5 DEF GroupRow
<1>8. B \in Seq(GroupRow) /\ DOMAIN B = 1 .. n /\ Len(B) = n
  <2>1. B = [m \in 1 .. n |-> B[m]]
    BY <1>6
  <2>2. \A m \in 1 .. n : B[m] \in GroupRow
    BY <1>7
  <2>3. QED
    BY <1>1, <2>1, <2>2
<1>10. Keys(B) = K
  <2>1. Keys(B) = {Key(B[m]) : m \in 1 .. n}
    BY <1>8, KeysFinite
  <2>2. \A m \in 1 .. n : Key(B[m]) = keys[m] /\ keys[m] \in K
    BY <1>5, <1>7
  <2>3. QED
    BY <1>5, <2>1, <2>2
<1>11. ASSUME NEW k, NEW j \in 1 .. 6
       PROVE  LET V == ColumnsOf(k)[j]
                  t == PartialTuple(Only(Val, {k}), rows)
              IN  Total(V, B) = t[j] /\ Lowest(V, B) = t[j] /\ Highest(V, B) = t[j]
  <2> DEFINE V == ColumnsOf(k)[j]
             t == PartialTuple(Only(Val, {k}), rows)
  <2>1. /\ V \in [GroupRow -> Nat]
        /\ \A r \in GroupRow : V[r] = IF Key(r) = k THEN Tail(r)[j] ELSE 0
    BY ColumnsOfIs
  <2>2. k \notin K => t[j] = 0
    BY NoGroup DEF K
  <2>3. k \in K => tuple[k] = t
    BY <1>9
  <2> HIDE DEF V, t
  <2>4. \A m \in 1 .. n : V[B[m]] = IF keys[m] = k THEN tuple[k][j] ELSE 0
    BY <1>7, <2>1
  <2>5. CASE k \in K
    <3>1. PICK m \in 1 .. n : keys[m] = k
      BY <1>5, <2>5
    <3>2. V[B[m]] = t[j] /\ \A i \in 1 .. n \ {m} : V[B[i]] = 0
      BY <1>5, <2>3, <2>4, <2>5, <3>1
    <3>3. Total(V, B) = V[B[m]] /\ Lowest(V, B) = V[B[m]] /\ Highest(V, B) = V[B[m]]
      <4>1. V \in [GroupRow -> Nat] /\ B \in Seq(GroupRow) /\ DOMAIN B = 1 .. n
        BY <1>8, <2>1
      <4>2. \A a \in DOMAIN B : (\A i \in DOMAIN B \ {a} : V[B[i]] = 0) =>
              Total(V, B) = V[B[a]] /\ Lowest(V, B) = V[B[a]] /\ Highest(V, B) = V[B[a]]
        BY <4>1, FewRows
      <4>3. m \in DOMAIN B /\ \A i \in DOMAIN B \ {m} : V[B[i]] = 0
        BY <3>1, <3>2, <4>1
      <4>4. QED
        BY <4>2, <4>3
    <3>4. QED
      BY <3>2, <3>3 DEF V, t
  <2>6. CASE k \notin K
    <3>1. \A m \in 1 .. n : V[B[m]] = 0
      BY <1>5, <2>4, <2>6
    <3>2. Total(V, B) = 0 /\ Lowest(V, B) = 0 /\ Highest(V, B) = 0
      <4>1. V \in [GroupRow -> Nat] /\ B \in Seq(GroupRow) /\ DOMAIN B = 1 .. n
        BY <1>8, <2>1
      <4>2. \A i \in DOMAIN B : V[B[i]] = 0
        BY <3>1, <4>1
      <4>3. QED
        BY <4>1, <4>2, FewRows
    <3>3. QED
      BY <2>2, <2>6, <3>2 DEF V, t
  <2>7. QED
    BY <2>5, <2>6
<1>12. \A k : Measure(ColumnsOf(k), B, PartialTuple(Only(Val, {k}), rows))
  BY <1>11 DEF Measure
<1>13. QED
  BY <1>8, <1>10, <1>12 DEF B, K, n

-----------------------------------------------------------------------------
(* merge_partials.                                                         *)

\* Columns C of the batches qs give the partial tuples of the parts ss, in some order.
Measured(X, W, ss, Y, C, qs, order) ==
  /\ W \in [X -> Nat] /\ ss \in Seq(Seq(X))
  /\ C \in [1 .. 6 -> [Y -> Nat]] /\ qs \in Seq(Seq(Y))
  /\ order \in Bijection(DOMAIN qs, DOMAIN ss)
  /\ \A j \in DOMAIN qs : Measure(C, qs[j], PartialTuple(W, ss[order[j]]))

\* Measures of partial batches, in whatever order they came, are measures of the rows.
LEMMA MergedColumns ==
  ASSUME NEW X, NEW W, NEW ss, NEW Y, NEW C, NEW qs, NEW order,
         Measured(X, W, ss, Y, C, qs, order)
  PROVE  LET B == FlattenSeq(qs)
             T == FlattenSeq(ss)
         IN  /\ Total(C[1], B) = Total(Ones(W), T) /\ Total(C[2], B) = Total(W, T)
             /\ Lowest(C[3], B) = Lowest(W, T) /\ Highest(C[4], B) = Highest(W, T)
             /\ Total(C[5], B) = Total(W, T) /\ Total(C[6], B) = Total(Ones(W), T)
<1> DEFINE B == FlattenSeq(qs)
           T == FlattenSeq(ss)
<1>a. /\ W \in [X -> Nat] /\ ss \in Seq(Seq(X))
      /\ C \in [1 .. 6 -> [Y -> Nat]] /\ qs \in Seq(Seq(Y))
      /\ order \in Bijection(DOMAIN qs, DOMAIN ss)
      /\ \A j \in DOMAIN qs : Measure(C, qs[j], PartialTuple(W, ss[order[j]]))
  BY DEF Measured
<1>1. \A j \in DOMAIN qs :
        /\ Total(C[1], qs[j]) = Total(Ones(W), ss[order[j]])
        /\ Total(C[2], qs[j]) = Total(W, ss[order[j]])
        /\ Lowest(C[3], qs[j]) = Lowest(W, ss[order[j]])
        /\ Highest(C[4], qs[j]) = Highest(W, ss[order[j]])
        /\ Total(C[5], qs[j]) = Total(W, ss[order[j]])
        /\ Total(C[6], qs[j]) = Total(Ones(W), ss[order[j]])
  <2>1. SUFFICES ASSUME NEW j \in DOMAIN qs, NEW s, s = ss[order[j]], NEW q, q = qs[j]
                 PROVE  /\ Total(C[1], q) = Total(Ones(W), s) /\ Total(C[2], q) = Total(W, s)
                        /\ Lowest(C[3], q) = Lowest(W, s) /\ Highest(C[4], q) = Highest(W, s)
                        /\ Total(C[5], q) = Total(W, s) /\ Total(C[6], q) = Total(Ones(W), s)
    OBVIOUS
  <2>2. Measure(C, q, PartialTuple(W, s))
    BY <1>a, <2>1
  <2>3. /\ PartialTuple(W, s)[1] = Total(Ones(W), s) /\ PartialTuple(W, s)[2] = Total(W, s)
        /\ PartialTuple(W, s)[3] = Lowest(W, s) /\ PartialTuple(W, s)[4] = Highest(W, s)
        /\ PartialTuple(W, s)[5] = Total(W, s) /\ PartialTuple(W, s)[6] = Total(Ones(W), s)
    BY DEF PartialTuple
  <2>4. QED
    BY <2>2, <2>3 DEF Measure
<1>2. Ones(W) \in [X -> Nat] /\ \A j \in 1 .. 6 : C[j] \in [Y -> Nat]
  BY <1>a DEF Ones
<1>3. Total(C[1], B) = Total(Ones(W), T)
  <2> DEFINE V == C[1]
             U == Ones(W)
  <2>1. Merging(X, U, ss, Y, V, qs, order)
    BY <1>a, <1>2 DEF Merging
  <2>2. \A j \in DOMAIN qs : Total(V, qs[j]) = Total(U, ss[order[j]])
    BY <1>1
  <2> HIDE DEF V, U
  <2>3. Total(V, B) = Total(U, T)
    BY <2>1, <2>2, MergedMeasures DEF B, T
  <2>4. QED
    BY <2>3 DEF V, U
<1>4. Total(C[6], B) = Total(Ones(W), T)
  <2> DEFINE V == C[6]
             U == Ones(W)
  <2>1. Merging(X, U, ss, Y, V, qs, order)
    BY <1>a, <1>2 DEF Merging
  <2>2. \A j \in DOMAIN qs : Total(V, qs[j]) = Total(U, ss[order[j]])
    BY <1>1
  <2> HIDE DEF V, U
  <2>3. Total(V, B) = Total(U, T)
    BY <2>1, <2>2, MergedMeasures DEF B, T
  <2>4. QED
    BY <2>3 DEF V, U
<1>5. Total(C[2], B) = Total(W, T)
  <2> DEFINE V == C[2]
             U == W
  <2>1. Merging(X, U, ss, Y, V, qs, order)
    BY <1>a, <1>2 DEF Merging
  <2>2. \A j \in DOMAIN qs : Total(V, qs[j]) = Total(U, ss[order[j]])
    BY <1>1
  <2> HIDE DEF V, U
  <2>3. Total(V, B) = Total(U, T)
    BY <2>1, <2>2, MergedMeasures DEF B, T
  <2>4. QED
    BY <2>3 DEF V, U
<1>6. Total(C[5], B) = Total(W, T)
  <2> DEFINE V == C[5]
             U == W
  <2>1. Merging(X, U, ss, Y, V, qs, order)
    BY <1>a, <1>2 DEF Merging
  <2>2. \A j \in DOMAIN qs : Total(V, qs[j]) = Total(U, ss[order[j]])
    BY <1>1
  <2> HIDE DEF V, U
  <2>3. Total(V, B) = Total(U, T)
    BY <2>1, <2>2, MergedMeasures DEF B, T
  <2>4. QED
    BY <2>3 DEF V, U
<1>7. Lowest(C[3], B) = Lowest(W, T)
  <2> DEFINE V == C[3]
             U == W
  <2>1. Merging(X, U, ss, Y, V, qs, order)
    BY <1>a, <1>2 DEF Merging
  <2>2. \A j \in DOMAIN qs : Lowest(V, qs[j]) = Lowest(U, ss[order[j]])
    BY <1>1
  <2> HIDE DEF V, U
  <2>3. Lowest(V, B) = Lowest(U, T)
    BY <2>1, <2>2, MergedMeasures DEF B, T
  <2>4. QED
    BY <2>3 DEF V, U
<1>8. Highest(C[4], B) = Highest(W, T)
  <2> DEFINE V == C[4]
             U == W
  <2>1. Merging(X, U, ss, Y, V, qs, order)
    BY <1>a, <1>2 DEF Merging
  <2>2. \A j \in DOMAIN qs : Highest(V, qs[j]) = Highest(U, ss[order[j]])
    BY <1>1
  <2> HIDE DEF V, U
  <2>3. Highest(V, B) = Highest(U, T)
    BY <2>1, <2>2, MergedMeasures DEF B, T
  <2>4. QED
    BY <2>3 DEF V, U
<1>9. QED
  BY <1>3, <1>4, <1>5, <1>6, <1>7, <1>8

\* What merged states say of the rows, finished as aggregated ones.
LEMMA FinishMerged ==
  ASSUME NEW a \in Nat, NEW b \in Nat, NEW l, NEW h, a = 0 => b = 0
  PROVE  MergeFinished([count |-> a, sum |-> b, seen |-> b # 0, min |-> l, max |-> h,
                        avgSum |-> b, avgCount |-> a])
         = <<a, b, l, h, <<b, a>>>>
<1> DEFINE m == [count |-> a, sum |-> b, seen |-> b # 0, min |-> l, max |-> h,
                 avgSum |-> b, avgCount |-> a]
<1>1. SumValue(m) = b
  <2>1. CASE b = 0
    BY <2>1 DEF SumValue, Null
  <2>2. CASE b # 0
    BY <2>2 DEF SumValue, Null
  <2>3. QED
    BY <2>1, <2>2
<1>2. (IF a = 0 THEN <<0, 0>> ELSE <<b, a>>) = <<b, a>>
  OBVIOUS
<1>3. MergeFinished(m) = <<a, SumValue(m), l, h, IF a = 0 THEN <<0, 0>> ELSE <<b, a>>>>
  BY DEF MergeFinished
<1>4. QED
  BY <1>1, <1>2, <1>3

\* Finished merges of measures: those of the rows.
LEMMA MergedFinish ==
  ASSUME NEW X, NEW W, NEW ss, NEW Y, NEW C, NEW qs, NEW order,
         Measured(X, W, ss, Y, C, qs, order)
  PROVE  LET B == FlattenSeq(qs)
             T == FlattenSeq(ss)
         IN  MergeFinished([count |-> Total(C[1], B), sum |-> Total(C[2], B),
                            seen |-> Total(C[2], B) # 0,
                            min |-> Lowest(C[3], B), max |-> Highest(C[4], B),
                            avgSum |-> Total(C[5], B), avgCount |-> Total(C[6], B)])
             = <<Total(Ones(W), T), Total(W, T), Lowest(W, T), Highest(W, T),
                 <<Total(W, T), Total(Ones(W), T)>>>>
<1> DEFINE B == FlattenSeq(qs)
           T == FlattenSeq(ss)
<1>1. /\ Total(C[1], B) = Total(Ones(W), T) /\ Total(C[2], B) = Total(W, T)
      /\ Lowest(C[3], B) = Lowest(W, T) /\ Highest(C[4], B) = Highest(W, T)
      /\ Total(C[5], B) = Total(W, T) /\ Total(C[6], B) = Total(Ones(W), T)
  BY MergedColumns
<1>a. W \in [X -> Nat] /\ ss \in Seq(Seq(X))
  BY DEF Measured
<1>2. T \in Seq(X)
  BY <1>a, TotalOfFlatten
<1> HIDE DEF B, T
<1>3. Total(Ones(W), T) \in Nat /\ Total(W, T) \in Nat
  BY <1>a, <1>2, MeasuresNat
<1>4. Total(Ones(W), T) = 0 => Total(W, T) = 0
  BY <1>a, <1>2, NothingCounted
<1> DEFINE a == Total(Ones(W), T)
           b == Total(W, T)
           l == Lowest(W, T)
           h == Highest(W, T)
<1>5. a \in Nat /\ b \in Nat /\ (a = 0 => b = 0)
  BY <1>3, <1>4
<1>6. [count |-> Total(C[1], B), sum |-> Total(C[2], B), seen |-> Total(C[2], B) # 0,
       min |-> Lowest(C[3], B), max |-> Highest(C[4], B),
       avgSum |-> Total(C[5], B), avgCount |-> Total(C[6], B)]
      = [count |-> a, sum |-> b, seen |-> b # 0, min |-> l, max |-> h,
         avgSum |-> b, avgCount |-> a]
  BY <1>1
<1> HIDE DEF a, b, l, h
<1>7. MergeFinished([count |-> a, sum |-> b, seen |-> b # 0, min |-> l, max |-> h,
                     avgSum |-> b, avgCount |-> a])
      = <<a, b, l, h, <<b, a>>>>
  BY <1>5, FinishMerged
<1>8. QED
  BY <1>6, <1>7 DEF a, b, l, h, B, T

\* Batches are the partial aggregates of the partitions, each once, in some order.
Partials(got, table, grouped, order) ==
  /\ order \in Bijection(DOMAIN got, DOMAIN table)
  /\ \A j \in DOMAIN got : got[j] = PartialOf(table[order[j]], grouped)

\* A sequence of items that are all in Y.
LEMMA SeqOfItems ==
  ASSUME NEW X, NEW Y, NEW s \in Seq(X), \A j \in DOMAIN s : s[j] \in Y
  PROVE  s \in Seq(Y)
<1>1. s = [j \in 1 .. Len(s) |-> s[j]] /\ Len(s) \in Nat /\ DOMAIN s = 1 .. Len(s)
  OBVIOUS
<1>2. QED
  BY <1>1

\* merge_partials without GROUP BY gives the native aggregate, in whatever order
\* the batches came.
LEMMA MergeUngrouped ==
  ASSUME NEW table \in Seq(Seq(Row)), NEW X, NEW got \in Seq(X), NEW order,
         Partials(got, table, FALSE, order)
  PROVE  MergePartials(got, FALSE) = Aggregate(Concat(table))
<1> DEFINE T == FlattenSeq(table)
           B == FlattenSeq(got)
<1>1. \A j \in DOMAIN got : /\ table[order[j]] \in Seq(Row)
                                /\ got[j] = PartialOf(table[order[j]], FALSE)
  <2>1. order \in [DOMAIN got -> DOMAIN table]
    BY DEF Partials, Bijection, Surjection, Injection
  <2>2. \A p \in DOMAIN table : table[p] \in Seq(Row)
    OBVIOUS
  <2>3. QED
    BY <2>1, <2>2 DEF Partials
<1>2. \A j \in DOMAIN got :
        /\ got[j] \in Seq(PartialRow)
        /\ Measure(PartialColumns, got[j], PartialTuple(Val, table[order[j]]))
  BY <1>1, PartialAggregateIs
<1>3. got \in Seq(Seq(PartialRow))
  BY <1>2, SeqOfItems
<1>4. Val \in [Row -> Nat] /\ \A x \in Row : Val[x] = x[2]
  BY ValIs
<1>5. T \in Seq(Row)
  BY <1>4, TotalOfFlatten
<1>6. /\ PartialColumns \in [1 .. 6 -> [PartialRow -> Nat]]
      /\ \A j \in 1 .. 6, r \in PartialRow : PartialColumns[j][r] = r[j]
  BY ColumnTypes
<1>7. B \in Seq(PartialRow)
  <2> DEFINE W == [r \in PartialRow |-> 0]
  <2>1. W \in [PartialRow -> Nat]
    OBVIOUS
  <2> HIDE DEF W
  <2>2. QED
    BY <1>3, <2>1, TotalOfFlatten
<1>8. order \in Bijection(DOMAIN got, DOMAIN table)
  BY DEF Partials
<1> DEFINE C == PartialColumns
           rec == [count |-> Total(C[1], B), sum |-> Total(C[2], B),
                   seen |-> Total(C[2], B) # 0,
                   min |-> Lowest(C[3], B), max |-> Highest(C[4], B),
                   avgSum |-> Total(C[5], B), avgCount |-> Total(C[6], B)]
           fin == <<Total(Ones(Val), T), Total(Val, T), Lowest(Val, T), Highest(Val, T),
                    <<Total(Val, T), Total(Ones(Val), T)>>>>
<1>9. FoldLeft(Merge, NewMergeState, B) = rec
  <2>1. FoldLeft(Merge, NewMergeState, B) = MergedForm(Columns(C, B), DOMAIN B)
    <3> HIDE DEF B
    <3> QED BY <1>6, <1>7, MergeFold
  <2>2. MergedForm(Columns(C, B), DOMAIN B) = rec
    BY MergedIs
  <2>3. QED
    BY <2>1, <2>2
<1>10. MergeFinished(rec) = fin
  <2>1. Measured(Row, Val, table, PartialRow, C, got, order)
    BY <1>2, <1>3, <1>4, <1>6, <1>8 DEF Measured
  <2> HIDE DEF C
  <2>2. QED
    BY <2>1, MergedFinish
<1> HIDE DEF B, T
<1>11. Finished(StateOf(T)) = fin
  <2>1. StateOf(T) = State(Val, T)
    BY <1>4, <1>5, UpdateFold DEF StateOf
  <2>2. Finished(State(Val, T)) = fin
    BY <1>4, <1>5, FinishedIs
  <2>3. QED
    BY <2>1, <2>2
<1> HIDE DEF rec, fin, C
<1>12. MergePartials(got, FALSE) = <<MergeFinished(rec)>>
  BY <1>9 DEF MergePartials, Concat, B
<1>13. QED
  BY <1>10, <1>11, <1>12 DEF Aggregate, Concat, T

\* The keys of a table are those of its rows.
LEMMA KeysOfRange ==
  ASSUME NEW s
  PROVE  Keys(s) = {Key(x) : x \in Range(s)}
BY DEF Keys, ToSet, Range

\* The keys of partial batches are those of the rows.
LEMMA MergedKeys ==
  ASSUME NEW X, NEW ss \in Seq(Seq(X)), NEW Y, NEW qs \in Seq(Seq(Y)),
         NEW order \in Bijection(DOMAIN qs, DOMAIN ss),
         \A j \in DOMAIN qs : Keys(qs[j]) = Keys(ss[order[j]])
  PROVE  Keys(FlattenSeq(qs)) = Keys(FlattenSeq(ss))
<1>1. ASSUME NEW Z, NEW zs \in Seq(Seq(Z))
      PROVE  \A k : k \in Keys(FlattenSeq(zs)) <=> \E p \in DOMAIN zs : k \in Keys(zs[p])
  <2> DEFINE W == [z \in Z |-> 0]
  <2>1. W \in [Z -> Nat]
    OBVIOUS
  <2> HIDE DEF W
  <2>2. Range(FlattenSeq(zs)) = UNION {Range(zs[p]) : p \in DOMAIN zs}
    BY <1>1, <2>1, TotalOfFlatten
  <2>3. Keys(FlattenSeq(zs)) = {Key(x) : x \in Range(FlattenSeq(zs))}
    BY KeysOfRange
  <2>4. \A p \in DOMAIN zs : Keys(zs[p]) = {Key(x) : x \in Range(zs[p])}
    BY KeysOfRange
  <2>5. \A x : x \in Range(FlattenSeq(zs)) <=> \E p \in DOMAIN zs : x \in Range(zs[p])
    BY <2>2
  <2>6. QED
    BY <2>3, <2>4, <2>5
<1>2. \A k : k \in Keys(FlattenSeq(qs)) <=> \E j \in DOMAIN qs : k \in Keys(qs[j])
  BY <1>1
<1>3. \A k : k \in Keys(FlattenSeq(ss)) <=> \E p \in DOMAIN ss : k \in Keys(ss[p])
  BY <1>1
<1>4. order \in [DOMAIN qs -> DOMAIN ss] /\ \A p \in DOMAIN ss : \E j \in DOMAIN qs : order[j] = p
  BY DEF Bijection, Surjection
<1>5. \A k : k \in Keys(FlattenSeq(qs)) <=> k \in Keys(FlattenSeq(ss))
  BY <1>2, <1>3, <1>4
<1>6. QED
  BY <1>5 DEF Keys

\* The columns of a group's rows, or all rows with the others made NULL.
LEMMA GroupMeasures ==
  ASSUME NEW B \in Seq(GroupRow), NEW k
  PROVE  LET C == ColumnsOf(k)
             G == GroupColumns
             q == RowsOf(B, k)
         IN  \A j \in 1 .. 6 : /\ Total(G[j], q) = Total(C[j], B)
                               /\ Lowest(G[j], q) = Lowest(C[j], B)
                               /\ Highest(G[j], q) = Highest(C[j], B)
<1> DEFINE C == ColumnsOf(k)
           G == GroupColumns
           q == RowsOf(B, k)
<1>1. SUFFICES ASSUME NEW j \in 1 .. 6
               PROVE  /\ Total(G[j], q) = Total(C[j], B)
                      /\ Lowest(G[j], q) = Lowest(C[j], B)
                      /\ Highest(G[j], q) = Highest(C[j], B)
  OBVIOUS
<1> DEFINE V == G[j]
<1>2. V \in [GroupRow -> Nat]
  BY ColumnTypes
<1>3. C[j] = Only(V, {k})
  BY DEF ColumnsOf
<1> HIDE DEF V, C
<1>4. /\ Total(V, FilterBatch(B, {k})) = Total(Only(V, {k}), B)
      /\ Lowest(V, FilterBatch(B, {k})) = Lowest(Only(V, {k}), B)
      /\ Highest(V, FilterBatch(B, {k})) = Highest(Only(V, {k}), B)
  BY <1>2, FilterMeasures
<1>5. QED
  BY <1>3, <1>4 DEF V, RowsOf

\* The merge of one group.
LEMMA MergedGroup ==
  ASSUME NEW B \in Seq(GroupRow), NEW k
  PROVE  LET C == ColumnsOf(k)
         IN  FoldLeft(MergeGroupRow, NewMergeState, RowsOf(B, k))
             = [count |-> Total(C[1], B), sum |-> Total(C[2], B),
                seen |-> Total(C[2], B) # 0,
                min |-> Lowest(C[3], B), max |-> Highest(C[4], B),
                avgSum |-> Total(C[5], B), avgCount |-> Total(C[6], B)]
<1> DEFINE C == ColumnsOf(k)
           G == GroupColumns
           q == RowsOf(B, k)
<1>1. /\ G \in [1 .. 6 -> [GroupRow -> Nat]]
      /\ \A j \in 1 .. 6, r \in GroupRow : G[j][r] = Tail(r)[j]
  BY ColumnTypes
<1>2. q \in Seq(GroupRow)
  BY FilterIs DEF RowsOf
<1>3. \A j \in 1 .. 6 : /\ Total(G[j], q) = Total(C[j], B)
                        /\ Lowest(G[j], q) = Lowest(C[j], B)
                        /\ Highest(G[j], q) = Highest(C[j], B)
  BY GroupMeasures
<1> HIDE DEF C, G, q
<1>4. FoldLeft(MergeGroupRow, NewMergeState, q) = MergedForm(Columns(G, q), DOMAIN q)
  BY <1>1, <1>2, MergeGroupFold
<1>5. MergedForm(Columns(G, q), DOMAIN q) =
           [count |-> Total(G[1], q), sum |-> Total(G[2], q), seen |-> Total(G[2], q) # 0,
            min |-> Lowest(G[3], q), max |-> Highest(G[4], q),
            avgSum |-> Total(G[5], q), avgCount |-> Total(G[6], q)]
  BY MergedIs
<1>6. /\ Total(G[1], q) = Total(C[1], B) /\ Total(G[2], q) = Total(C[2], B)
      /\ Lowest(G[3], q) = Lowest(C[3], B) /\ Highest(G[4], q) = Highest(C[4], B)
      /\ Total(G[5], q) = Total(C[5], B) /\ Total(G[6], q) = Total(C[6], B)
  BY <1>3
<1>7. QED
  BY <1>4, <1>5, <1>6 DEF C, q

\* One group of the native aggregate.
LEMMA NativeGroup ==
  ASSUME NEW rows \in Seq(Row), NEW k
  PROVE  LET W == Only(Val, {k})
         IN  Finished(FoldLeft(UpdateRow, NewState, RowsOf(rows, k)))
             = <<Total(Ones(W), rows), Total(W, rows), Lowest(W, rows), Highest(W, rows),
                 <<Total(W, rows), Total(Ones(W), rows)>>>>
<1> DEFINE W == Only(Val, {k})
           q == RowsOf(rows, k)
<1>1. q \in Seq(Row) /\ PartialTuple(Val, q) = PartialTuple(W, rows)
  BY GroupTuple
<1>2. /\ PartialTuple(Val, q)[1] = Total(Ones(Val), q) /\ PartialTuple(Val, q)[2] = Total(Val, q)
      /\ PartialTuple(Val, q)[3] = Lowest(Val, q) /\ PartialTuple(Val, q)[4] = Highest(Val, q)
  BY DEF PartialTuple
<1>3. /\ PartialTuple(W, rows)[1] = Total(Ones(W), rows)
      /\ PartialTuple(W, rows)[2] = Total(W, rows)
      /\ PartialTuple(W, rows)[3] = Lowest(W, rows)
      /\ PartialTuple(W, rows)[4] = Highest(W, rows)
  BY DEF PartialTuple
<1> HIDE DEF W, q
<1>4. FoldLeft(UpdateRow, NewState, q) = State(Val, q)
  BY <1>1, ValIs, UpdateFold
<1>5. Finished(State(Val, q)) = <<Total(Ones(Val), q), Total(Val, q), Lowest(Val, q),
                                   Highest(Val, q), <<Total(Val, q), Total(Ones(Val), q)>>>>
  BY <1>1, ValIs, FinishedIs
<1>6. QED
  BY <1>1, <1>2, <1>3, <1>4, <1>5 DEF W, q

\* merge_partials with GROUP BY gives the native groups, in whatever order the
\* batches came.
LEMMA MergeGrouped ==
  ASSUME NEW table \in Seq(Seq(Row)), NEW X, NEW got \in Seq(X), NEW order,
         Partials(got, table, TRUE, order)
  PROVE  MergePartials(got, TRUE) = GroupBy(Concat(table))
<1> DEFINE T == FlattenSeq(table)
           B == FlattenSeq(got)
           K == Keys(T)
<1>1. \A j \in DOMAIN got : /\ table[order[j]] \in Seq(Row)
                                /\ got[j] = PartialOf(table[order[j]], TRUE)
  <2>1. order \in [DOMAIN got -> DOMAIN table]
    BY DEF Partials, Bijection, Surjection, Injection
  <2>2. \A p \in DOMAIN table : table[p] \in Seq(Row)
    OBVIOUS
  <2>3. QED
    BY <2>1, <2>2 DEF Partials
<1>2. \A j \in DOMAIN got :
        /\ got[j] \in Seq(GroupRow)
        /\ Keys(got[j]) = Keys(table[order[j]])
        /\ \A k : Measure(ColumnsOf(k), got[j], PartialTuple(Only(Val, {k}), table[order[j]]))
  BY <1>1, PartialGroupByIs
<1>3. got \in Seq(Seq(GroupRow))
  BY <1>2, SeqOfItems
<1>4. order \in Bijection(DOMAIN got, DOMAIN table)
  BY DEF Partials
<1>5. T \in Seq(Row)
  BY ValIs, TotalOfFlatten
<1>6. B \in Seq(GroupRow)
  <2> DEFINE W == [r \in GroupRow |-> 0]
  <2>1. W \in [GroupRow -> Nat]
    OBVIOUS
  <2> HIDE DEF W
  <2>2. QED
    BY <1>3, <2>1, TotalOfFlatten
<1>7. Keys(B) = K
  BY <1>2, <1>3, <1>4, MergedKeys
<1>8. ASSUME NEW k \in K
      PROVE  MergeFinished(FoldLeft(MergeGroupRow, NewMergeState, RowsOf(B, k)))
             = Finished(FoldLeft(UpdateRow, NewState, RowsOf(T, k)))
  <2> DEFINE C == ColumnsOf(k)
             W == Only(Val, {k})
  <2>1. W \in [Row -> Nat] /\ C \in [1 .. 6 -> [GroupRow -> Nat]]
    BY ColumnsOfIs, ValIs, OnlyIs
  <2>2. \A j \in DOMAIN got : Measure(C, got[j], PartialTuple(W, table[order[j]]))
    BY <1>2
  <2>3. Measured(Row, W, table, GroupRow, C, got, order)
    BY <1>3, <1>4, <2>1, <2>2 DEF Measured
  <2>4. FoldLeft(MergeGroupRow, NewMergeState, RowsOf(B, k))
        = [count |-> Total(C[1], B), sum |-> Total(C[2], B),
           seen |-> Total(C[2], B) # 0,
           min |-> Lowest(C[3], B), max |-> Highest(C[4], B),
           avgSum |-> Total(C[5], B), avgCount |-> Total(C[6], B)]
    <3> HIDE DEF B
    <3> QED BY <1>6, MergedGroup
  <2>5. Finished(FoldLeft(UpdateRow, NewState, RowsOf(T, k)))
        = <<Total(Ones(W), T), Total(W, T), Lowest(W, T), Highest(W, T),
            <<Total(W, T), Total(Ones(W), T)>>>>
    <3> HIDE DEF T
    <3> QED BY <1>5, NativeGroup
  <2> HIDE DEF C, W
  <2>6. QED
    BY <2>3, <2>4, <2>5, MergedFinish
<1> HIDE DEF T, B, K
<1> DEFINE merged == GroupStates(B, NewMergeState, MergeGroupRow)
           native == GroupStates(T, NewState, UpdateRow)
           keys == InOrderOf(K)
<1>9. DOMAIN merged = K /\ DOMAIN native = K
  BY <1>7 DEF GroupStates, K
<1>10. \A k \in K : MergeFinished(merged[k]) = Finished(native[k])
  <2>1. \A k \in K : merged[k] = FoldLeft(MergeGroupRow, NewMergeState, RowsOf(B, k))
    BY <1>7 DEF GroupStates
  <2>2. \A k \in K : native[k] = FoldLeft(UpdateRow, NewState, RowsOf(T, k))
    BY DEF GroupStates, K
  <2> HIDE DEF merged, native
  <2>3. QED
    BY <1>8, <2>1, <2>2
<1>11. \A m \in DOMAIN keys : keys[m] \in K
  <2>1. K \in SUBSET Nat /\ IsFiniteSet(K)
    BY <1>5, GroupsAre DEF K
  <2>2. keys \in Bijection(1 .. Cardinality(K), K)
    BY <2>1, InOrder
  <2>3. QED
    BY <2>2 DEF Bijection, Injection
<1>12. MergePartials(got, TRUE)
         = [m \in DOMAIN keys |-> <<keys[m]>> \o MergeFinished(merged[keys[m]])]
  BY <1>9 DEF MergePartials, InKeyOrder, Concat, B
<1>13. GroupBy(Concat(table))
         = [m \in DOMAIN keys |-> <<keys[m]>> \o Finished(native[keys[m]])]
  BY <1>9 DEF GroupBy, InKeyOrder, Concat, T
<1> HIDE DEF merged, native, keys
<1>14. QED
  BY <1>10, <1>11, <1>12, <1>13

-----------------------------------------------------------------------------
(* LocalCluster::execute: the invariant.                                    *)

\* Where execute may be, and what a task may be doing.
Places == {"begin", "head", "join", "ship", "exchange", "close", "ok", "err"}
TaskStates == {"pending", "spawned", "collected", "done", "failed", "joined", "dropped"}

\* What the tasks may send, and the messages it may arrive in.
PartialBatches == {Batch(p) : p \in Partitions}
Pieces == UNION {Range(Messages(Batch(p))) : p \in Partitions}

\* The variables, as far as the argument needs their types.
Typed ==
  /\ input \in Inputs
  /\ at \in Places
  /\ task \in [Partitions -> TaskStates]
  /\ batches \in Seq(Pieces)

\* A batch is on its way.
Shipping == at \in {"ship", "exchange"}

\* Where the partial batches came from: each from a task that was joined, none twice.
Origin(order) ==
  /\ order \in [DOMAIN batches -> Partitions]
  /\ \A j, l \in DOMAIN batches : order[j] = order[l] => j = l
  /\ \A j \in DOMAIN batches : /\ batches[j] = Batch(order[j])
                               /\ task[order[j]] = "joined"
                               /\ Shipping => order[j] # current

\* The batches have an order of origin, as long as each came in one message.
Arrived == Cut \/ \E order : Origin(order)

\* Until execute returns, every task that was joined has at least one message there, or
\* its batch is on its way.
Counted ==
  ~Emptied /\ ~Over =>
    Cardinality(Joined) <= Len(batches) + (IF Shipping THEN 1 ELSE 0)

\* The loop ships a joined partition, a failure has a cause, tasks are dropped only
\* when execute returns, the loop waits only for a task that ends, and it closes only
\* when all batches are in.
Shipped == Shipping => current \in Partitions /\ task[current] = "joined"
Causes == \A p \in Partitions : task[p] = "failed" => cause
Drops == \A p \in Partitions : task[p] = "dropped" => Over
Waits == at = "join" /\ ~Emptied => \E p \in Partitions : Alive(p) \/ Ended(p)
AllIn == at = "close" => Len(batches) >= Len(input.table)

\* The inductive invariant of execute.
LoopInv ==
  Typed /\ Arrived /\ Counted /\ Shipped /\ Causes /\ Drops /\ Waits /\ AllIn
    /\ DistributedMatchesNative

\* What is known of the input.
LEMMA InputIs ==
  ASSUME Typed
  PROVE  /\ input.table \in Seq(Seq(Row)) /\ input.grouped \in BOOLEAN
         /\ Partitions = 1 .. Len(input.table) /\ Len(input.table) \in Nat
         /\ IsFiniteSet(Partitions) /\ Cardinality(Partitions) = Len(input.table)
         /\ \A p \in Partitions : /\ input.table[p] \in Seq(Row)
                                  /\ Batch(p) \in Seq(PartialRow) \cup Seq(GroupRow)
                                  /\ Len(Batch(p)) \in Nat
                                  /\ ~Emptied => Len(Batch(p)) # 0
<1>1. input.table \in Seq(Seq(Row)) /\ input.grouped \in BOOLEAN
  BY InputAssumption DEF Typed, Row
<1>2. /\ Partitions = 1 .. Len(input.table) /\ Len(input.table) \in Nat
      /\ \A p \in Partitions : input.table[p] \in Seq(Row)
  BY <1>1 DEF Partitions
<1>3. IsFiniteSet(Partitions) /\ Cardinality(Partitions) = Len(input.table)
  <2>1. IsFiniteSet(1 .. Len(input.table)) /\ Cardinality(1 .. Len(input.table)) = Len(input.table)
    BY <1>2, FS_Interval
  <2>2. QED
    BY <1>2, <2>1
<1>4. ASSUME NEW p \in Partitions
      PROVE  /\ Batch(p) \in Seq(PartialRow) \cup Seq(GroupRow)
             /\ Len(Batch(p)) \in Nat
             /\ ~Emptied => Len(Batch(p)) # 0
  <2> DEFINE rows == input.table[p]
  <2>1. rows \in Seq(Row)
    BY <1>2
  <2>2. CASE input.grouped = FALSE
    <3>1. Batch(p) = PartialOf(rows, FALSE)
      BY <2>2 DEF Batch
    <3>2. PartialOf(rows, FALSE) \in Seq(PartialRow) /\ Len(PartialOf(rows, FALSE)) = 1
      <4> HIDE DEF rows
      <4> QED BY <2>1, PartialAggregateIs
    <3>3. Batch(p) \in Seq(PartialRow) /\ Len(Batch(p)) = 1
      BY <3>1, <3>2
    <3>4. Len(Batch(p)) \in Nat /\ Len(Batch(p)) # 0
      BY <3>3
    <3>5. QED
      BY <3>3, <3>4
  <2>3. CASE input.grouped = TRUE
    <3>1. Batch(p) = PartialOf(rows, TRUE)
      BY <2>3 DEF Batch
    <3>2. ~Emptied => rows # << >>
      BY <2>3 DEF Emptied
    <3> HIDE DEF rows
    <3>3. /\ PartialOf(rows, TRUE) \in Seq(GroupRow)
          /\ Len(PartialOf(rows, TRUE)) = Cardinality(Keys(rows))
      BY <2>1, PartialGroupByIs
    <3>4. IsFiniteSet(Keys(rows)) /\ Keys(rows) = {Key(rows[i]) : i \in DOMAIN rows}
      BY <2>1, KeysFinite
    <3>5. rows # << >> => Keys(rows) # {}
      <4>1. rows # << >> => 1 \in DOMAIN rows
        BY <2>1
      <4>2. QED
        BY <3>4, <4>1
    <3>6. Cardinality(Keys(rows)) \in Nat /\ (Keys(rows) # {} => Cardinality(Keys(rows)) # 0)
      BY <3>4, FS_CardinalityType, FS_EmptySet
    <3>7. QED
      BY <3>1, <3>2, <3>3, <3>5, <3>6
  <2>4. QED
    BY <1>1, <2>2, <2>3
<1>5. QED
  BY <1>1, <1>2, <1>3, <1>4

\* Quotients that are zero or one.
LEMMA OneQuotient ==
  ASSUME NEW a \in Nat, NEW b \in Nat \ {0}
  PROVE  /\ a < b => a \div b = 0
         /\ b <= a /\ a < 2 * b => a \div b = 1
<1>1. a < b => a \div b = 0
  OBVIOUS
<1>2. b <= a /\ a < 2 * b => a \div b = 1
  OBVIOUS
<1>3. QED
  BY <1>1, <1>2

\* A batch that fits goes as one message, and as none without rows.
LEMMA FewMessages ==
  ASSUME NEW X, NEW rows \in Seq(X), Len(rows) <= MessageRows
  PROVE  Messages(rows) = IF Len(rows) = 0 THEN << >> ELSE <<rows>>
<1> DEFINE n == Len(rows)
           count == (n + MessageRows - 1) \div MessageRows
           m == MessageRows
<1>1. n \in Nat /\ m \in Nat \ {0} /\ n <= m
  BY ConfigAssumption
<1>2. Messages(rows) = [i \in 1 .. count |->
         SubSeq(rows, (i - 1) * MessageRows + 1, Min({i * MessageRows, Len(rows)}))]
  BY DEF Messages
<1>3. n = 0 => count = 0
  <2>1. n = 0 => n + m - 1 \in Nat /\ n + m - 1 < m
    BY <1>1
  <2>2. QED
    BY <1>1, <2>1, OneQuotient
<1>4. n # 0 => count = 1
  <2>1. n # 0 => n + m - 1 \in Nat /\ m <= n + m - 1 /\ n + m - 1 < 2 * m
    BY <1>1
  <2>2. QED
    BY <1>1, <2>1, OneQuotient
<1>5. Min({1 * MessageRows, Len(rows)}) = n
  <2>1. {1 * MessageRows, Len(rows)} = {m, n}
    BY <1>1
  <2>2. Min({m, n}) = n
    <3> HIDE DEF m, n
    <3>1. Min({m, n}) = CHOOSE x \in {m, n} : \A y \in {m, n} : x <= y
      BY DEF Min
    <3>2. n \in {m, n} /\ \A y \in {m, n} : n <= y
      BY <1>1
    <3>3. \A x \in {m, n} : (\A y \in {m, n} : x <= y) => x = n
      BY <1>1
    <3>4. QED
      BY <3>1, <3>2, <3>3
  <2>3. QED
    BY <2>1, <2>2
<1>6. SubSeq(rows, 1, n) = rows
  OBVIOUS
<1>7. CASE n = 0
  BY <1>2, <1>3, <1>7
<1>8. CASE n # 0
  <2>1. (1 - 1) * MessageRows + 1 = 1
    BY <1>1
  <2> DEFINE F(i) == SubSeq(rows, (i - 1) * MessageRows + 1, Min({i * MessageRows, Len(rows)}))
  <2>2. F(1) = rows
    BY <1>5, <1>6, <2>1
  <2>3. Messages(rows) = [i \in 1 .. 1 |-> F(i)]
    BY <1>2, <1>4, <1>8
  <2> HIDE DEF F, n
  <2>4. [i \in 1 .. 1 |-> F(i)] = <<rows>>
    BY <2>2
  <2>5. QED
    BY <2>3, <2>4, <1>8 DEF n
<1>9. QED
  BY <1>7, <1>8

\* A batch arrives in messages of its own, at least one if it has rows.
LEMMA SomeMessages ==
  ASSUME Typed, NEW p \in Partitions
  PROVE  /\ Messages(Batch(p)) \in Seq(Pieces)
         /\ Len(Messages(Batch(p))) \in Nat
         /\ Len(Batch(p)) # 0 => Len(Messages(Batch(p))) >= 1
<1> DEFINE count == (Len(Batch(p)) + MessageRows - 1) \div MessageRows
<1>1. Len(Batch(p)) \in Nat /\ MessageRows \in Nat \ {0}
  BY InputIs, ConfigAssumption
<1>2. count \in Nat /\ (Len(Batch(p)) # 0 => count >= 1)
  <2>1. SUFFICES ASSUME NEW n \in Nat, NEW m \in Nat \ {0}
                 PROVE  /\ (n + m - 1) \div m \in Nat
                        /\ n # 0 => (n + m - 1) \div m >= 1
    BY <1>1
  <2>2. PICK k \in Nat : k = n + m - 1
    OBVIOUS
  <2>3. k \div m \in Nat /\ (m <= k => k \div m >= 1)
    OBVIOUS
  <2>4. QED
    BY <2>2, <2>3
<1>3. /\ DOMAIN Messages(Batch(p)) = 1 .. count
      /\ Messages(Batch(p)) = [n \in 1 .. count |-> Messages(Batch(p))[n]]
  BY DEF Messages
<1> HIDE DEF count
<1>4. \A n \in 1 .. count : Messages(Batch(p))[n] \in Pieces
  <2>1. \A n \in 1 .. count : Messages(Batch(p))[n] \in Range(Messages(Batch(p)))
    BY <1>3 DEF Range
  <2>2. Range(Messages(Batch(p))) \subseteq Pieces
    BY Zenon DEF Pieces
  <2>3. QED
    BY <2>1, <2>2
<1>5. Messages(Batch(p)) \in [1 .. count -> Pieces]
  BY <1>3, <1>4
<1>6. Messages(Batch(p)) \in Seq(Pieces) /\ Len(Messages(Batch(p))) = count
  BY <1>2, <1>5
<1>7. QED
  BY <1>2, <1>6

\* The partitions whose tasks were joined are finitely many, no more than there are.
LEMMA JoinedIs ==
  ASSUME Typed
  PROVE  /\ Joined \in SUBSET Partitions /\ IsFiniteSet(Joined)
         /\ Cardinality(Joined) \in Nat
<1>1. IsFiniteSet(Partitions) /\ Joined \in SUBSET Partitions
  BY InputIs DEF Joined
<1>2. QED
  BY <1>1, FS_Subset, FS_CardinalityType

\* The batches are finitely many, as many as their sequence is long.
LEMMA BatchCount ==
  ASSUME Typed
  PROVE  /\ IsFiniteSet(DOMAIN batches) /\ Cardinality(DOMAIN batches) = Len(batches)
         /\ Len(batches) \in Nat /\ DOMAIN batches = 1 .. Len(batches)
<1>1. batches \in Seq(Pieces)
  BY DEF Typed
<1>2. SUFFICES ASSUME NEW n \in Nat, n = Len(batches)
               PROVE  /\ IsFiniteSet(DOMAIN batches) /\ Cardinality(DOMAIN batches) = n
                      /\ DOMAIN batches = 1 .. n
  BY <1>1
<1>3. DOMAIN batches = 1 .. n
  BY <1>1, <1>2
<1>4. IsFiniteSet(1 .. n) /\ Cardinality(1 .. n) = n
  BY FS_Interval
<1>5. QED
  BY <1>3, <1>4

\* As many batches as partitions are all of theirs: the merge is the native result.
LEMMA MergeIsNative ==
  ASSUME Typed, NEW order, Origin(order), Len(batches) >= Len(input.table)
  PROVE  MergePartials(batches, input.grouped) = Native(input)
<1>1. /\ input.table \in Seq(Seq(Row)) /\ input.grouped \in BOOLEAN
      /\ IsFiniteSet(Partitions) /\ Cardinality(Partitions) = Len(input.table)
      /\ Len(input.table) \in Nat
  BY InputIs
<1>2. batches \in Seq(PartialBatches)
  <2>1. batches \in Seq(Pieces) /\ \A j \in DOMAIN batches : batches[j] \in PartialBatches
    BY DEF Typed, Origin, PartialBatches
  <2>2. QED
    BY <2>1, SeqOfItems
<1> DEFINE D == DOMAIN batches
<1>3. /\ order \in Injection(D, Partitions)
      /\ \A j \in D : batches[j] = Batch(order[j])
  BY DEF Origin, Injection, IsInjective
<1>4. IsFiniteSet(D) /\ Cardinality(D) = Len(batches) /\ Len(batches) \in Nat
  BY BatchCount
<1> HIDE DEF D
<1>5. Cardinality(D) <= Cardinality(Partitions)
  BY <1>1, <1>3, FS_Injection
<1>6. Cardinality(D) = Cardinality(Partitions)
  BY <1>1, <1>4, <1>5
<1>7. order \in Surjection(D, Partitions)
  BY <1>1, <1>3, <1>4, <1>6, FS_Injection
<1>8. order \in Bijection(DOMAIN batches, DOMAIN input.table)
  BY <1>3, <1>7 DEF Bijection, D, Partitions
<1>9. CASE input.grouped = TRUE
  <2>1. Partials(batches, input.table, TRUE, order)
    BY <1>3, <1>8, <1>9 DEF Partials, Batch, D
  <2>2. MergePartials(batches, TRUE) = GroupBy(Concat(input.table))
    <3>1. SUFFICES ASSUME NEW t \in Seq(Seq(Row)), t = input.table
                   PROVE  MergePartials(batches, TRUE) = GroupBy(Concat(t))
      BY <1>1
    <3>2. Partials(batches, t, TRUE, order)
      BY <2>1, <3>1
    <3>3. QED
      BY <1>2, <3>2, MergeGrouped
  <2>3. QED
    BY <1>9, <2>2 DEF Native
<1>10. CASE input.grouped = FALSE
  <2>1. Partials(batches, input.table, FALSE, order)
    BY <1>3, <1>8, <1>10 DEF Partials, Batch, D
  <2>2. MergePartials(batches, FALSE) = Aggregate(Concat(input.table))
    <3>1. SUFFICES ASSUME NEW t \in Seq(Seq(Row)), t = input.table
                   PROVE  MergePartials(batches, FALSE) = Aggregate(Concat(t))
      BY <1>1
    <3>2. Partials(batches, t, FALSE, order)
      BY <2>1, <3>1
    <3>3. QED
      BY <1>2, <3>2, MergeUngrouped
  <2>3. QED
    BY <1>10, <2>2 DEF Native
<1>11. QED
  BY <1>1, <1>9, <1>10

-----------------------------------------------------------------------------
(* LocalCluster::execute: every step keeps the invariant.                   *)

\* The invariant holds before execute begins.
LEMMA LoopInit ==
  ASSUME Init
  PROVE  LoopInv
<1>1. /\ input \in Inputs /\ at = "begin" /\ task = [p \in Partitions |-> "pending"]
      /\ batches = << >>
  BY DEF Init
<1>2. Typed
  <2>1. task \in [Partitions -> TaskStates]
    BY <1>1 DEF TaskStates
  <2>2. batches \in Seq(Pieces)
    BY <1>1
  <2>3. QED
    BY <1>1, <2>1, <2>2 DEF Typed, Places
<1>3. Arrived
  <2>1. Origin(<< >>)
    BY <1>1 DEF Origin
  <2>2. QED
    BY <2>1 DEF Arrived
<1>4. Counted
  <2>1. Joined = {} /\ Len(batches) = 0
    BY <1>1 DEF Joined
  <2>2. QED
    BY <2>1, FS_EmptySet DEF Counted
<1>5. Shipped /\ Waits /\ AllIn
  BY <1>1 DEF Shipped, Shipping, Waits, AllIn
<1>6. Causes /\ Drops
  BY <1>1 DEF Causes, Drops
<1>7. DistributedMatchesNative
  BY <1>1 DEF DistributedMatchesNative, FailsOnlyForCause
<1>8. QED
  BY <1>2, <1>3, <1>4, <1>5, <1>6, <1>7 DEF LoopInv

\* What a step that leaves the batches alone must keep.
LEMMA SameBatches ==
  ASSUME LoopInv, UNCHANGED <<input, batches>>,
         task' \in [Partitions -> TaskStates], at' \in Places,
         \A p \in Partitions : task[p] = "joined" => task'[p] = "joined",
         Shipping' => Shipping /\ current' = current
  PROVE  Typed' /\ Arrived'
<1>1. Partitions' = Partitions /\ Pieces' = Pieces
  BY DEF Partitions, Pieces, Batch, Messages
<1>2. \A p \in Partitions : Batch(p)' = Batch(p)
  BY DEF Batch
<1>3. Typed'
  BY <1>1 DEF LoopInv, Typed
<1>4. ASSUME NEW order, Origin(order)  PROVE Origin(order)'
  BY <1>1, <1>2, <1>4 DEF Origin
<1>5. Cut => Cut'
  BY <1>1, <1>2 DEF Cut, Joined
<1>6. QED
  BY <1>3, <1>4, <1>5 DEF LoopInv, Arrived

\* A step of a task.
TaskGoes(p, state) ==
  /\ task[p] # "joined" /\ state \in TaskStates \ {"pending", "joined"}
  /\ task' = [task EXCEPT ![p] = state]
  /\ UNCHANGED <<input, loopVars>>
  /\ cause => cause'
  /\ state = "failed" => cause'
  /\ state = "dropped" => Over

\* The invariant is kept when a task goes on and the loop stands still.
LEMMA TaskKeeps ==
  ASSUME LoopInv, NEW p \in Partitions, NEW state, TaskGoes(p, state)
  PROVE  LoopInv'
<1>a. /\ task[p] # "joined" /\ state \in TaskStates \ {"pending", "joined"}
      /\ task' = [task EXCEPT ![p] = state]
      /\ UNCHANGED <<input, loopVars>>
      /\ cause => cause'
      /\ state = "failed" => cause'
      /\ state = "dropped" => Over
  BY DEF TaskGoes
<1>1. /\ task \in [Partitions -> TaskStates] /\ at' = at /\ at \in Places
      /\ UNCHANGED <<input, batches, current, result>>
  BY <1>a DEF LoopInv, Typed, loopVars
<1>2. Partitions' = Partitions /\ (Over' <=> Over) /\ (Shipping' <=> Shipping)
      /\ (Emptied' <=> Emptied) /\ Native(input)' = Native(input)
  BY <1>1 DEF Partitions, Over, Shipping, Emptied, Native
<1>3. /\ task' \in [Partitions -> TaskStates] /\ task'[p] = state
      /\ \A r \in Partitions \ {p} : task'[r] = task[r]
      /\ \A r \in Partitions : task'[r] = "joined" <=> task[r] = "joined"
  BY <1>a, <1>1
<1>4. Typed' /\ Arrived'
  BY <1>1, <1>2, <1>3, SameBatches
<1>5. Joined' = Joined /\ (Cut' <=> Cut)
  <2>1. Joined' = Joined
    BY <1>2, <1>3 DEF Joined
  <2>2. \A r \in Partitions : Batch(r)' = Batch(r)
    BY <1>1 DEF Batch
  <2>3. QED
    BY <2>1, <2>2 DEF Cut, Joined
<1>6. Counted'
  BY <1>1, <1>2, <1>5 DEF LoopInv, Counted
<1>7. Shipped' /\ AllIn'
  BY <1>1, <1>2, <1>3 DEF LoopInv, Shipped, AllIn
<1>8. Causes' /\ Drops'
  BY <1>a, <1>2, <1>3 DEF LoopInv, Causes, Drops
<1>9. Waits'
  <2>1. SUFFICES ASSUME at = "join", ~Emptied
                 PROVE  \E r \in Partitions : Alive(r)' \/ Ended(r)'
    BY <1>1, <1>2 DEF Waits
  <2>2. PICK r \in Partitions : Alive(r) \/ Ended(r)
    BY <2>1 DEF LoopInv, Waits
  <2>3. r # p => Alive(r)' \/ Ended(r)'
    BY <1>3, <2>2 DEF Alive, Ended
  <2>4. ~Over
    BY <2>1 DEF Over
  <2>5. Alive(p)' \/ Ended(p)'
    BY <1>a, <1>3, <2>4 DEF Alive, Ended, TaskStates
  <2>6. QED
    BY <2>3, <2>5
<1>10. DistributedMatchesNative'
  BY <1>a, <1>1, <1>2, <1>5 DEF LoopInv, DistributedMatchesNative, FailsOnlyForCause
<1>11. QED
  BY <1>4, <1>6, <1>7, <1>8, <1>9, <1>10 DEF LoopInv

\* Something is returned.
LEMMA ReturnKeeps ==
  ASSUME LoopInv, UNCHANGED <<input, current, batches>>,
         task' \in [Partitions -> TaskStates],
         \A p \in Partitions : task'[p] \in {task[p], "joined"},
         cause => cause',
         \/ at' = "ok" /\ (result' = Native(input) \/ Cut)
         \/ at' = "err" /\ (Emptied \/ cause')
  PROVE  LoopInv'
<1>1. Partitions' = Partitions /\ (Emptied' <=> Emptied) /\ Native(input)' = Native(input)
  BY DEF Partitions, Emptied, Native
<1>2. Over' /\ ~Shipping' /\ at' \in Places /\ at' \notin {"join", "close"}
  BY DEF Over, Shipping, Places
<1>3. Typed' /\ Arrived'
  BY <1>2, SameBatches
<1>4. Counted' /\ (Cut => Cut')
  <2>1. \A r \in Partitions : Batch(r)' = Batch(r)
    BY DEF Batch
  <2>2. QED
    BY <1>1, <1>2, <2>1 DEF Counted, Cut, Joined
<1>5. Shipped' /\ Waits' /\ AllIn'
  BY <1>2 DEF Shipped, Waits, AllIn
<1>6. Drops'
  BY <1>2 DEF Drops
<1>7. Causes'
  BY <1>1 DEF LoopInv, Causes
<1>8. DistributedMatchesNative'
  <2>1. CASE at' = "ok" /\ (result' = Native(input) \/ Cut)
    BY <1>1, <1>4, <2>1 DEF DistributedMatchesNative, FailsOnlyForCause
  <2>2. CASE at' = "err" /\ (Emptied \/ cause')
    BY <1>1, <2>2 DEF DistributedMatchesNative, FailsOnlyForCause
  <2>3. QED
    BY <2>1, <2>2
<1>9. QED
  BY <1>3, <1>4, <1>5, <1>6, <1>7, <1>8 DEF LoopInv

\* The steps of a task.
LEMMA TaskSteps ==
  ASSUME LoopInv, NEW p \in Partitions, TaskStep(p)
  PROVE  LoopInv'
<1>1. CASE Collect(p)
  <2>1. \/ TaskGoes(p, "collected")
        \/ TaskGoes(p, "failed")
    BY <1>1 DEF Collect, TaskGoes, TaskStates, TaskFails, EndTask
  <2>2. QED
    BY <2>1, TaskKeeps
<1>2. CASE PartialAggregation(p)
  <2>1. \/ TaskGoes(p, "done")
        \/ TaskGoes(p, "failed")
    BY <1>2 DEF PartialAggregation, TaskGoes, TaskStates, TaskFails, EndTask
  <2>2. QED
    BY <2>1, TaskKeeps
<1>3. CASE Dropped(p)
  <2>1. TaskGoes(p, "dropped")
    BY <1>3 DEF Dropped, Alive, TaskGoes, TaskStates, EndTask
  <2>2. QED
    BY <2>1, TaskKeeps
<1>4. QED
  BY <1>1, <1>2, <1>3 DEF TaskStep

\* The loop goes on: nothing is returned, and the batches stay.
LEMMA LoopGoes ==
  ASSUME LoopInv, UNCHANGED <<input, batches, result>>, cause => cause',
         task' \in [Partitions -> TaskStates], at' \in Places \ {"ok", "err"},
         \A p \in Partitions : task[p] = "joined" => task'[p] = "joined",
         Shipping' => Shipping /\ current' = current
  PROVE  Typed' /\ Arrived' /\ DistributedMatchesNative'
<1>1. Typed' /\ Arrived'
  BY SameBatches
<1>2. DistributedMatchesNative'
  BY DEF DistributedMatchesNative, FailsOnlyForCause
<1>3. QED
  BY <1>1, <1>2

\* execute leaves a single partition to the native executor, enters its loop or fails.
LEMMA BeginKeeps ==
  ASSUME LoopInv, Begin
  PROVE  LoopInv'
<1>1. at = "begin" /\ UNCHANGED <<input, task>> /\ task \in [Partitions -> TaskStates]
  BY DEF Begin, LoopInv, Typed, tasksVars
<1>2. CASE Return("ok", Native(input)) /\ UNCHANGED cause
  BY <1>1, <1>2, ReturnKeeps DEF Return
<1>3. CASE at' = "head" /\ UNCHANGED <<current, batches, shuffle, result, cause>>
  <2>1. ~Shipping' /\ at' \in Places \ {"ok", "err"} /\ ~Over /\ ~Over' /\ ~Shipping
    BY <1>1, <1>3 DEF Shipping, Places, Over
  <2>2. Typed' /\ Arrived' /\ DistributedMatchesNative'
    BY <1>1, <1>3, <2>1, LoopGoes
  <2>3. Partitions' = Partitions /\ (Emptied' <=> Emptied)
    BY <1>1 DEF Partitions, Emptied
  <2>4. Joined' = Joined
    BY <1>1, <2>3 DEF Joined
  <2>5. Counted'
    BY <1>3, <2>1, <2>3, <2>4 DEF LoopInv, Counted
  <2>6. Shipped' /\ Waits' /\ AllIn'
    BY <1>3, <2>1 DEF Shipped, Waits, AllIn
  <2>7. Causes' /\ Drops'
    BY <1>1, <1>3, <2>1, <2>3 DEF LoopInv, Causes, Drops
  <2>8. QED
    BY <2>2, <2>5, <2>6, <2>7 DEF LoopInv
<1>4. CASE Fault
  BY <1>1, <1>4, ReturnKeeps DEF Fault, Fail, Return
<1>5. QED
  BY <1>2, <1>3, <1>4 DEF Begin

\* Somebody is at work, or can be given some.
LEMMA SomeAssigned ==
  ASSUME Typed, NEW p \in Partitions, task[p] = "pending",
         \A r \in Partitions : ~Alive(r) /\ ~Ended(r)
  PROVE  \E r \in Partitions : Assigned[r] = "spawned"
<1>1. /\ Partitions = 1 .. Len(input.table) /\ Len(input.table) \in Nat
  BY InputIs
<1>2. Free = Workers
  <2>1. {r \in Partitions : Alive(r) \/ Ended(r)} = {}
    OBVIOUS
  <2>2. Workers - 0 = Workers
    BY ConfigAssumption
  <2>3. QED
    BY <2>1, <2>2, FS_EmptySet DEF Free
<1> DEFINE P == {r \in Partitions : task[r] = "pending"}
<1>3. P \in SUBSET Nat /\ P # {}
  BY <1>1
<1>4. PICK m \in P : \A r \in P : m <= r
  BY <1>3, LeastNumber
<1>5. {r \in 1 .. m : task[r] = "pending"} = {m}
  <2>1. m \in 1 .. Len(input.table) /\ task[m] = "pending"
    BY <1>1, <1>4
  <2>2. \A r \in 1 .. m : r \in Partitions
    BY <1>1, <2>1
  <2>3. \A r \in 1 .. m : task[r] = "pending" => r = m
    BY <1>4, <2>1, <2>2
  <2>4. m \in 1 .. m
    BY <2>1
  <2>5. QED
    BY <2>1, <2>3, <2>4
<1>6. Cardinality({m}) = 1
  BY FS_Singleton
<1>7. Cardinality({r \in 1 .. m : task[r] = "pending"}) <= Free
  <2>1. 1 <= Workers
    BY ConfigAssumption
  <2>2. QED
    BY <1>2, <1>5, <1>6, <2>1
<1>8. Assigned[m] = "spawned"
  BY <1>4, <1>7 DEF Assigned
<1>9. QED
  BY <1>4, <1>8

\* The head of the loop: all batches are in, partitions are assigned, or the token is
\* found cancelled.
LEMMA HeadKeeps ==
  ASSUME LoopInv, LoopHead
  PROVE  LoopInv'
<1>1. /\ at = "head" /\ UNCHANGED input /\ task \in [Partitions -> TaskStates]
      /\ ~Shipping /\ ~Over
  BY DEF LoopHead, LoopInv, Typed, Shipping, Over
<1>2. CASE /\ Len(batches) >= Len(input.table) /\ at' = "close"
           /\ UNCHANGED <<task, current, batches, shuffle, result, cause>>
  <2>1. ~Shipping' /\ at' \in Places \ {"ok", "err"} /\ ~Over'
    BY <1>2 DEF Shipping, Places, Over
  <2>2. Typed' /\ Arrived' /\ DistributedMatchesNative'
    BY <1>1, <1>2, <2>1, LoopGoes
  <2>3. Partitions' = Partitions /\ (Emptied' <=> Emptied)
    BY <1>1 DEF Partitions, Emptied
  <2>4. Joined' = Joined
    BY <1>1, <1>2, <2>3 DEF Joined
  <2>5. Counted'
    BY <1>1, <1>2, <2>1, <2>3, <2>4 DEF LoopInv, Counted
  <2>6. Shipped' /\ Waits' /\ AllIn'
    BY <1>1, <1>2, <2>1 DEF Shipped, Waits, AllIn
  <2>7. Causes' /\ Drops'
    BY <1>1, <1>2, <2>1, <2>3 DEF LoopInv, Causes, Drops
  <2>8. QED
    BY <2>2, <2>5, <2>6, <2>7 DEF LoopInv
<1>3. CASE /\ Len(batches) < Len(input.table) /\ task' = Assigned /\ at' = "join"
           /\ UNCHANGED <<current, batches, shuffle, result, cause>>
  <2>1. ~Shipping' /\ at' \in Places \ {"ok", "err"} /\ ~Over'
    BY <1>3 DEF Shipping, Places, Over
  <2>2. /\ task' \in [Partitions -> TaskStates]
        /\ \A p \in Partitions : \/ task'[p] = task[p]
                                 \/ task[p] = "pending" /\ task'[p] = "spawned"
    BY <1>1, <1>3 DEF Assigned, TaskStates
  <2>3. Typed' /\ Arrived' /\ DistributedMatchesNative'
    BY <1>1, <1>3, <2>1, <2>2, LoopGoes
  <2>4. Partitions' = Partitions /\ (Emptied' <=> Emptied)
    BY <1>1 DEF Partitions, Emptied
  <2>5. Joined' = Joined
    BY <2>2, <2>4 DEF Joined
  <2>6. Counted'
    BY <1>1, <1>3, <2>1, <2>4, <2>5 DEF LoopInv, Counted
  <2>7. Shipped' /\ AllIn'
    BY <1>3, <2>1 DEF Shipped, AllIn
  <2>8. Causes' /\ Drops'
    BY <1>1, <1>3, <2>1, <2>2, <2>4 DEF LoopInv, Causes, Drops
  <2>9. Waits'
    <3>1. SUFFICES ASSUME ~Emptied  PROVE \E r \in Partitions : Alive(r)' \/ Ended(r)'
      BY <2>4 DEF Waits
    <3>2. CASE \E r \in Partitions : Alive(r) \/ Ended(r)
      BY <2>2, <3>2 DEF Alive, Ended
    <3>3. CASE \A r \in Partitions : ~Alive(r) /\ ~Ended(r)
      <4>1. Cardinality(Joined) <= Len(batches)
        BY <1>1, <3>1, BatchCount DEF LoopInv, Counted
      <4>2. \E p \in Partitions : task[p] # "joined"
        <5>1. SUFFICES ASSUME \A p \in Partitions : task[p] = "joined"  PROVE FALSE
          OBVIOUS
        <5>2. Joined = Partitions
          BY <5>1 DEF Joined
        <5>3. /\ Cardinality(Partitions) = Len(input.table) /\ Len(input.table) \in Nat
              /\ Len(batches) \in Nat
          BY InputIs, BatchCount DEF LoopInv
        <5>4. QED
          BY <1>3, <4>1, <5>2, <5>3
      <4>3. PICK p \in Partitions : task[p] # "joined"
        BY <4>2
      <4>4. task[p] = "pending"
        <5>1. task[p] \in TaskStates
          BY <1>1
        <5>2. task[p] # "dropped"
          BY <1>1 DEF LoopInv, Drops
        <5>3. QED
          BY <3>3, <4>3, <5>1, <5>2 DEF TaskStates, Alive, Ended
      <4>5. PICK r \in Partitions : Assigned[r] = "spawned"
        BY <3>3, <4>4, SomeAssigned DEF LoopInv
      <4>6. QED
        BY <1>3, <4>5 DEF Alive
    <3>4. QED
      BY <3>2, <3>3
  <2>10. QED
    BY <2>3, <2>6, <2>7, <2>8, <2>9 DEF LoopInv
<1>4. CASE Fault /\ UNCHANGED task
  BY <1>1, <1>4, ReturnKeeps DEF Fault, Fail, Return
<1>5. QED
  BY <1>2, <1>3, <1>4 DEF LoopHead

\* The loop joins a task that ended, and ships its batch or fails.
LEMMA JoinKeeps ==
  ASSUME LoopInv, Join
  PROVE  LoopInv'
<1>1. /\ at = "join" /\ UNCHANGED <<input, cause>> /\ task \in [Partitions -> TaskStates]
      /\ ~Shipping /\ ~Over
  BY DEF Join, LoopInv, Typed, Shipping, Over
<1>2. ASSUME NEW p \in Partitions, task[p] = "done", task' = [task EXCEPT ![p] = "joined"],
             current' = p, at' = "ship", UNCHANGED <<batches, shuffle, result>>
      PROVE  LoopInv'
  <2>1. Shipping' /\ at' \in Places /\ ~Over'
    BY <1>2 DEF Shipping, Places, Over
  <2>2. /\ task' \in [Partitions -> TaskStates] /\ task'[p] = "joined"
        /\ \A r \in Partitions \ {p} : task'[r] = task[r]
    BY <1>1, <1>2 DEF TaskStates
  <2>3. /\ Partitions' = Partitions /\ (Emptied' <=> Emptied)
        /\ Pieces' = Pieces /\ \A r \in Partitions : Batch(r)' = Batch(r)
    BY <1>1 DEF Partitions, Emptied, Pieces, Batch, Messages
  <2>4. Typed'
    BY <1>1, <1>2, <2>1, <2>2, <2>3 DEF LoopInv, Typed
  <2>5. \A order : Origin(order) => Origin(order)'
    <3>1. SUFFICES ASSUME NEW order, Origin(order)  PROVE Origin(order)'
      OBVIOUS
    <3>2. \A j \in DOMAIN batches : order[j] \in Partitions /\ order[j] # p
      BY <1>2, <3>1 DEF Origin
    <3>3. QED
      BY <1>2, <2>2, <2>3, <3>1, <3>2 DEF Origin
  <2>6. Counted'
    <3>1. Joined' = Joined \cup {p} /\ p \notin Joined
      BY <1>2, <2>2, <2>3 DEF Joined
    <3>2. IsFiniteSet(Joined) /\ Cardinality(Joined) \in Nat /\ Len(batches) \in Nat
      BY JoinedIs, BatchCount DEF LoopInv
    <3>3. Cardinality(Joined') = Cardinality(Joined) + 1
      BY <3>1, <3>2, FS_AddElement
    <3>4. ~Emptied => Cardinality(Joined) <= Len(batches)
      BY <1>1, <3>2 DEF LoopInv, Counted
    <3>5. QED
      BY <1>2, <2>1, <2>3, <3>2, <3>3, <3>4 DEF Counted
  <2>7. Arrived'
    <3>1. Cut => Cut'
      BY <2>2, <2>3 DEF Cut, Joined
    <3>2. QED
      BY <2>5, <3>1 DEF LoopInv, Arrived
  <2>8. Shipped' /\ AllIn' /\ Waits'
    BY <1>2, <2>2, <2>3 DEF Shipped, AllIn, Waits
  <2>9. Causes' /\ Drops'
    BY <1>1, <2>2, <2>3 DEF LoopInv, Causes, Drops
  <2>10. DistributedMatchesNative'
    BY <1>2 DEF DistributedMatchesNative, FailsOnlyForCause
  <2>11. QED
    BY <2>4, <2>6, <2>7, <2>8, <2>9, <2>10 DEF LoopInv
<1>3. ASSUME NEW p \in Partitions, task[p] = "failed", task' = [task EXCEPT ![p] = "joined"], Fail
      PROVE  LoopInv'
  <2>1. cause'
    BY <1>1, <1>3 DEF LoopInv, Causes
  <2>2. /\ task' \in [Partitions -> TaskStates]
        /\ \A r \in Partitions : task'[r] \in {task[r], "joined"}
    BY <1>1, <1>3 DEF TaskStates
  <2>3. QED
    BY <1>1, <1>3, <2>1, <2>2, ReturnKeeps DEF Fail, Return
<1>4. CASE (\A p \in Partitions : ~Alive(p) /\ ~Ended(p)) /\ Fail /\ UNCHANGED task
  <2>1. Emptied
    BY <1>1, <1>4 DEF LoopInv, Waits
  <2>2. QED
    BY <1>1, <1>4, <2>1, ReturnKeeps DEF Fail, Return
<1>5. QED
  BY <1>2, <1>3, <1>4 DEF Join

\* A batch is shipped, or fails to be.
LEMMA ShipKeeps ==
  ASSUME LoopInv, Ship
  PROVE  LoopInv'
<1>1. /\ at = "ship" /\ UNCHANGED <<input, task>> /\ task \in [Partitions -> TaskStates]
      /\ Shipping /\ ~Over
  BY DEF Ship, LoopInv, Typed, Shipping, Over, tasksVars
<1>2. CASE at' = "exchange" /\ UNCHANGED <<current, batches, result, cause>>
  <2>1. Shipping' /\ at' \in Places \ {"ok", "err"} /\ ~Over'
    BY <1>2 DEF Shipping, Places, Over
  <2>2. Typed' /\ Arrived' /\ DistributedMatchesNative'
    BY <1>1, <1>2, <2>1, LoopGoes
  <2>3. Partitions' = Partitions /\ (Emptied' <=> Emptied)
    BY <1>1 DEF Partitions, Emptied
  <2>4. Joined' = Joined
    BY <1>1, <1>2, <2>3 DEF Joined
  <2>5. Counted'
    BY <1>1, <1>2, <2>1, <2>3, <2>4 DEF LoopInv, Counted
  <2>6. Shipped' /\ Waits' /\ AllIn'
    BY <1>1, <1>2, <2>3 DEF LoopInv, Shipped, Waits, AllIn
  <2>7. Causes' /\ Drops'
    BY <1>1, <1>2, <2>1, <2>3 DEF LoopInv, Causes, Drops
  <2>8. QED
    BY <2>2, <2>5, <2>6, <2>7 DEF LoopInv
<1>3. CASE Fault
  BY <1>1, <1>3, ReturnKeeps DEF Fault, Fail, Return
<1>4. QED
  BY <1>2, <1>3 DEF Ship

\* A batch arrives: its partition joins the order of origin.
LEMMA ReceiveKeeps ==
  ASSUME LoopInv, Receive
  PROVE  LoopInv'
<1>1. /\ at = "exchange" /\ UNCHANGED <<input, task>> /\ task \in [Partitions -> TaskStates]
      /\ Shipping /\ ~Over /\ batches \in Seq(Pieces)
  BY DEF Receive, LoopInv, Typed, Shipping, Over, tasksVars
<1>2. CASE /\ batches' = batches \o Messages(Batch(current)) /\ at' = "head"
           /\ UNCHANGED <<current, shuffle, result, cause>>
  <2> DEFINE rows == Batch(current)
             got == Messages(rows)
             n == Len(batches)
  <2>1. current \in Partitions /\ task[current] = "joined"
    BY <1>1 DEF LoopInv, Shipped
  <2>2. /\ rows \in Seq(PartialRow) \cup Seq(GroupRow) /\ Len(rows) \in Nat
        /\ ~Emptied => Len(rows) # 0
    BY <2>1, InputIs DEF LoopInv
  <2>3. /\ got \in Seq(Pieces) /\ Len(got) \in Nat
        /\ Len(rows) # 0 => Len(got) >= 1
    BY <2>1, SomeMessages DEF LoopInv
  <2>4. ~Shipping' /\ at' \in Places \ {"ok", "err"} /\ ~Over'
    BY <1>2 DEF Shipping, Places, Over
  <2>5. /\ Partitions' = Partitions /\ (Emptied' <=> Emptied)
        /\ Pieces' = Pieces /\ \A r \in Partitions : Batch(r)' = Batch(r)
    BY <1>1 DEF Partitions, Emptied, Pieces, Batch, Messages
  <2>6. Shipped' /\ Waits' /\ AllIn'
    BY <1>2, <2>4 DEF Shipped, Waits, AllIn
  <2>7. Causes' /\ Drops'
    BY <1>1, <1>2, <2>4, <2>5 DEF LoopInv, Causes, Drops
  <2>8. DistributedMatchesNative'
    BY <1>2 DEF DistributedMatchesNative, FailsOnlyForCause
  <2>9. Typed' /\ Counted'
    <3>1. batches' = batches \o got
      BY <1>2
    <3> HIDE DEF got, rows
    <3>2. batches' \in Seq(Pieces) /\ Len(batches') = n + Len(got) /\ n \in Nat
      BY <1>1, <2>3, <3>1
    <3>3. Typed'
      BY <1>1, <2>4, <2>5, <3>2 DEF LoopInv, Typed
    <3>4. Joined' = Joined /\ Cardinality(Joined) \in Nat
      BY <1>1, <2>5, JoinedIs DEF LoopInv, Joined
    <3>5. ~Emptied => Cardinality(Joined) <= n + 1
      BY <1>1 DEF LoopInv, Counted
    <3>6. ~Emptied => Cardinality(Joined) <= n + Len(got)
      BY <2>2, <2>3, <3>2, <3>4, <3>5
    <3>7. ~Emptied => Cardinality(Joined') <= Len(batches')
      BY <3>2, <3>4, <3>6
    <3>8. Len(batches') + 0 = Len(batches')
      BY <2>3, <3>2
    <3>9. QED
      BY <2>4, <2>5, <3>3, <3>7, <3>8 DEF Counted
  <2>10. CASE Cut
    <3>1. Cut'
      BY <1>1, <2>5, <2>10 DEF Cut, Joined
    <3>2. QED
      BY <2>6, <2>7, <2>8, <2>9, <3>1 DEF LoopInv, Arrived
  <2>11. CASE ~Cut
    <3>1. PICK order : Origin(order)
      BY <2>11 DEF LoopInv, Arrived
    <3>2. Len(rows) <= MessageRows
      BY <2>1, <2>2, <2>11, ConfigAssumption DEF Cut, Joined
    <3>3. got = IF Len(rows) = 0 THEN << >> ELSE <<rows>>
      <4> HIDE DEF rows
      <4> QED BY <2>2, <3>2, FewMessages
    <3>4. CASE Len(rows) = 0
      <4>1. batches' = batches
        BY <1>1, <1>2, <3>3, <3>4
      <4>2. Arrived'
        BY <1>1, <1>2, <2>4, <4>1, LoopGoes
      <4>3. QED
        BY <2>6, <2>7, <2>8, <2>9, <4>2 DEF LoopInv
    <3>5. CASE Len(rows) # 0
      <4>1. batches' = Append(batches, rows)
        BY <1>1, <1>2, <3>3, <3>5
      <4>2. /\ DOMAIN batches = 1 .. n /\ DOMAIN batches' = 1 .. n + 1 /\ n \in Nat
            /\ batches'[n + 1] = rows /\ \A j \in 1 .. n : batches'[j] = batches[j]
        <5> HIDE DEF rows
        <5> QED BY <1>1, <4>1
      <4>a. PICK new : new = [j \in 1 .. n + 1 |-> IF j = n + 1 THEN current ELSE order[j]]
        OBVIOUS
      <4>3. /\ order \in [1 .. n -> Partitions]
            /\ \A j, l \in 1 .. n : order[j] = order[l] => j = l
            /\ \A j \in 1 .. n : /\ batches[j] = Batch(order[j])
                                 /\ task[order[j]] = "joined" /\ order[j] # current
        BY <1>1, <3>1, <4>2 DEF Origin
      <4>4. /\ \A j \in 1 .. n : j \in 1 .. n + 1 /\ j # n + 1
            /\ n + 1 \in 1 .. n + 1
            /\ \A j \in 1 .. n + 1 : j = n + 1 \/ j \in 1 .. n
        BY <4>2
      <4>5. /\ new[n + 1] = current /\ \A j \in 1 .. n : new[j] = order[j]
            /\ new \in [1 .. n + 1 -> Partitions]
        BY <2>1, <4>a, <4>3, <4>4
      <4> HIDE DEF n, rows, got
      <4>6. \A j, l \in 1 .. n + 1 : new[j] = new[l] => j = l
        BY <4>3, <4>4, <4>5
      <4>7. \A j \in 1 .. n + 1 : batches'[j] = Batch(new[j]) /\ task[new[j]] = "joined"
        BY <2>1, <4>2, <4>3, <4>4, <4>5 DEF rows
      <4>8. Origin(new)'
        BY <1>1, <2>4, <2>5, <4>2, <4>5, <4>6, <4>7 DEF Origin
      <4>9. QED
        BY <2>6, <2>7, <2>8, <2>9, <4>8 DEF LoopInv, Arrived
    <3>6. QED
      BY <3>4, <3>5
  <2>12. QED
    BY <2>10, <2>11
<1>3. CASE Fault
  BY <1>1, <1>3, ReturnKeeps DEF Fault, Fail, Return
<1>4. QED
  BY <1>2, <1>3 DEF Receive

\* The exchange is closed and the batches are merged: the result is the native one,
\* as all of them are in if none was cut.
LEMMA CloseKeeps ==
  ASSUME LoopInv, Close
  PROVE  LoopInv'
<1>1. at = "close" /\ UNCHANGED <<input, task>> /\ task \in [Partitions -> TaskStates]
  BY DEF Close, LoopInv, Typed, tasksVars
<1>2. CASE Return("ok", MergePartials(batches, input.grouped)) /\ UNCHANGED cause
  <2>1. Len(batches) >= Len(input.table)
    BY <1>1 DEF LoopInv, AllIn
  <2>2. CASE Cut
    BY <1>1, <1>2, <2>2, ReturnKeeps DEF Return
  <2>3. ASSUME NEW order, Origin(order)
        PROVE  MergePartials(batches, input.grouped) = Native(input)
    BY <2>1, <2>3, MergeIsNative DEF LoopInv
  <2>4. QED
    BY <1>1, <1>2, <2>2, <2>3, ReturnKeeps DEF Return, LoopInv, Arrived
<1>3. CASE Fault
  BY <1>1, <1>3, ReturnKeeps DEF Fault, Fail, Return
<1>4. QED
  BY <1>2, <1>3 DEF Close

\* What the client or nobody does.
LEMMA OthersKeep ==
  ASSUME LoopInv, UNCHANGED <<input, tasksVars, loopVars>>, cause => cause'
  PROVE  LoopInv'
<1>1. UNCHANGED <<input, task, at, current, batches, result>>
  BY DEF tasksVars, loopVars
<1>2. /\ Partitions' = Partitions /\ (Emptied' <=> Emptied) /\ (Over' <=> Over)
      /\ (Shipping' <=> Shipping) /\ Native(input)' = Native(input)
      /\ Pieces' = Pieces /\ \A r \in Partitions : Batch(r)' = Batch(r)
  BY <1>1 DEF Partitions, Emptied, Pieces, Batch, Messages, Over, Shipping, Native
<1>3. Typed'
  BY <1>1, <1>2 DEF LoopInv, Typed
<1>4. \A order : Origin(order) => Origin(order)'
  BY <1>1, <1>2 DEF Origin
<1>a. Joined' = Joined /\ (Cut' <=> Cut)
  BY <1>1, <1>2 DEF Joined, Cut
<1>5. Arrived' /\ Counted'
  BY <1>1, <1>2, <1>4, <1>a DEF LoopInv, Arrived, Counted
<1>6. Shipped' /\ AllIn'
  BY <1>1, <1>2 DEF LoopInv, Shipped, AllIn
<1>7. Waits'
  BY <1>1, <1>2 DEF LoopInv, Waits, Alive, Ended
<1>8. Causes' /\ Drops'
  BY <1>1, <1>2 DEF LoopInv, Causes, Drops
<1>9. DistributedMatchesNative'
  BY <1>1, <1>2, <1>a DEF LoopInv, DistributedMatchesNative, FailsOnlyForCause
<1>10. QED
  BY <1>3, <1>5, <1>6, <1>7, <1>8, <1>9 DEF LoopInv

-----------------------------------------------------------------------------
(* LocalCluster::execute: theorems.                                         *)

\* Every state of LocalCluster::execute satisfies the inductive invariant: whatever
\* order the tasks finish in and however the encoder cuts batches into messages, every
\* joined partition has sent at least one, the loop never waits for a task that cannot
\* come, and as long as no batch was cut those received are of distinct partitions.
THEOREM LoopInvariant == Spec => []LoopInv
<1>1. Init => LoopInv
  BY LoopInit
<1>2. LoopInv /\ [Next]_vars => LoopInv'
  <2>1. SUFFICES ASSUME LoopInv, [Next]_vars  PROVE LoopInv'
    OBVIOUS
  <2>2. ASSUME NEW p \in Partitions, TaskStep(p)  PROVE LoopInv'
    BY <2>1, <2>2, TaskSteps
  <2>3. CASE LoopStep
    BY <2>1, <2>3, BeginKeeps, HeadKeeps, JoinKeeps, ShipKeeps, ReceiveKeeps, CloseKeeps
    DEF LoopStep
  <2>4. CASE Cancel
    BY <2>1, <2>4, OthersKeep DEF Cancel
  <2>5. CASE UNCHANGED vars
    BY <2>1, <2>5, OthersKeep DEF vars
  <2>6. QED
    BY <2>1, <2>2, <2>3, <2>4, <2>5 DEF Next, Returned
<1>3. QED
  BY <1>1, <1>2, PTL DEF Spec

\* The in-process cluster is transparent: a result of LocalCluster::execute is that
\* of the native aggregate, for every table, NULLs, averages and empty partitions
\* included, or a batch it merged took more than one message; and it fails only for a
\* cause or for a grouped partition without rows (execute, merge_partials).
THEOREM ClusterIsTransparent == Spec => []DistributedMatchesNative
<1>1. Spec => []LoopInv
  BY LoopInvariant
<1>2. LoopInv => DistributedMatchesNative
  BY DEF LoopInv
<1>3. QED
  BY <1>1, <1>2, PTL

-----------------------------------------------------------------------------
(* How often a row is there.                                               *)

\* Occurrences of a row.
Is(row, X) == [x \in X |-> IF x = row THEN 1 ELSE 0]
Times(row, s) == Cardinality({n \in DOMAIN s : s[n] = row})

\* How often a row is there is a total: every occurrence weighs one.
LEMMA TimesIs ==
  ASSUME NEW X, NEW s \in Seq(X), NEW row
  PROVE  Times(row, s) = Total(Is(row, X), s) /\ Is(row, X) \in [X -> Nat]
<1> DEFINE W == Is(row, X)
           v == Along(W, s)
           D == DOMAIN s
           Of(R) == {n \in R : s[n] = row}
           T == {R \in SUBSET D : SumOf(v, R) # Cardinality(Of(R))}
<1>1. W \in [X -> Nat] /\ \A x \in X : W[x] = IF x = row THEN 1 ELSE 0
  BY DEF Is
<1> HIDE DEF W
<1>2. /\ IsFiniteSet(D) /\ v \in [D -> Nat] /\ v \in [D -> Int]
      /\ \A i \in D : v[i] = W[s[i]] /\ s[i] \in X
  BY <1>1, AlongIs
<1> HIDE DEF v, D
<1>3. \A i \in D : v[i] = IF s[i] = row THEN 1 ELSE 0
  BY <1>1, <1>2
<1>4. \A R \in SUBSET D : /\ SumOf(v, R) \in Int
                          /\ \A x \in R : SumOf(v, R) = v[x] + SumOf(v, R \ {x})
                          /\ R = {} => SumOf(v, R) = 0
  BY <1>2, SumOfIn
<1>5. ASSUME NEW R \in T  PROVE \E i \in R : R \ {i} \in T
  <2>1. R \in SUBSET D /\ SumOf(v, R) # Cardinality(Of(R))
    OBVIOUS
  <2>2. R # {}
    <3>1. SUFFICES ASSUME R = {}  PROVE FALSE
      OBVIOUS
    <3>2. Of(R) = {}
      BY <3>1
    <3>3. QED
      BY <1>4, <2>1, <3>1, <3>2, FS_EmptySet
  <2>3. PICK i \in R : TRUE
    BY <2>2
  <2>4. IsFiniteSet(Of(R)) /\ Cardinality(Of(R)) \in Nat
    <3>1. Of(R) \in SUBSET D
      BY <2>1
    <3> HIDE DEF Of
    <3>2. QED
      BY <1>2, <3>1, FS_Subset, FS_CardinalityType
  <2>5. SumOf(v, R) = v[i] + SumOf(v, R \ {i}) /\ SumOf(v, R \ {i}) \in Int
    BY <1>4, <2>1
  <2>6. CASE s[i] = row
    <3>1. v[i] = 1 /\ Of(R \ {i}) = Of(R) \ {i} /\ i \in Of(R)
      BY <1>3, <2>1, <2>6
    <3> HIDE DEF Of
    <3>2. Cardinality(Of(R) \ {i}) = Cardinality(Of(R)) - 1
      BY <2>4, <3>1, FS_RemoveElement
    <3>3. Cardinality(Of(R \ {i})) = Cardinality(Of(R)) - 1
      BY <3>1, <3>2
    <3>4. SumOf(v, R) = 1 + SumOf(v, R \ {i})
      BY <2>5, <3>1
    <3>5. SumOf(v, R \ {i}) # Cardinality(Of(R)) - 1
      BY <2>1, <2>4, <2>5, <3>4
    <3>6. R \ {i} \in SUBSET D /\ SumOf(v, R \ {i}) # Cardinality(Of(R \ {i}))
      BY <2>1, <3>3, <3>5
    <3>7. QED
      BY <3>6
  <2>7. CASE s[i] # row
    <3>1. v[i] = 0 /\ Of(R \ {i}) = Of(R)
      BY <1>3, <2>1, <2>7
    <3> HIDE DEF Of
    <3>2. SumOf(v, R \ {i}) # Cardinality(Of(R \ {i}))
      BY <2>1, <2>5, <3>1
    <3>3. QED
      BY <2>1, <3>2
  <2>8. QED
    BY <2>6, <2>7
<1>6. T = {}
  <2>1. T \in SUBSET SUBSET D
    OBVIOUS
  <2> HIDE DEF T
  <2>2. QED
    BY <1>2, <1>5, <2>1, NoneShrinks
<1>7. SumOf(v, D) = Cardinality(Of(D))
  BY <1>6
<1>8. QED
  BY <1>1, <1>7 DEF Total, Times, W, v, D

\* Tables in which every row is equally often have the same rows.
LEMMA SameTimes ==
  ASSUME NEW a, NEW b, \A row : Times(row, a) = Times(row, b)
  PROVE  SameRows(a, b)
BY DEF SameRows, Times

-----------------------------------------------------------------------------
(* Filtered and routed rows.                                               *)

\* Columns that agree on the rows of a table measure the same.
LEMMA MeasuresOfSame ==
  ASSUME NEW s, NEW V, NEW W, \A i \in DOMAIN s : V[s[i]] = W[s[i]]
  PROVE  /\ Total(V, s) = Total(W, s) /\ Lowest(V, s) = Lowest(W, s)
         /\ Highest(V, s) = Highest(W, s)
<1>1. Total(V, s) = Total(W, s)
  BY TotalOfSame
<1>2. Values(V, s) = Values(W, s)
  BY DEF Values
<1>3. QED
  BY <1>1, <1>2 DEF Lowest, Highest

\* A filter that keeps all of a key's rows does not matter to them.
KeepsKey(s, keys, k) == k \in Keys(s) => k \in keys

\* Column V measures the same in q as in s.
SameMeasures(V, q, s) ==
  Total(V, q) = Total(V, s) /\ Lowest(V, q) = Lowest(V, s) /\ Highest(V, q) = Highest(V, s)

\* The measures of a key's rows are the same after a filter that keeps the key.
LEMMA FilterOwn ==
  ASSUME NEW X, NEW W \in [X -> Nat], NEW s \in Seq(X), NEW keys, NEW k, KeepsKey(s, keys, k)
  PROVE  SameMeasures(Only(W, {k}), FilterBatch(s, keys), s)
<1> DEFINE V == Only(W, {k})
           U == Only(V, keys)
           f == FilterBatch(s, keys)
<1>1. V \in [X -> Nat] /\ \A x \in X : V[x] = IF Key(x) = k THEN W[x] ELSE 0
  BY DEF Only
<1> HIDE DEF V
<1>2. \A x \in X : U[x] = IF Key(x) \in keys THEN V[x] ELSE 0
  BY <1>1 DEF Only
<1>3. /\ Total(V, f) = Total(U, s) /\ Lowest(V, f) = Lowest(U, s)
      /\ Highest(V, f) = Highest(U, s)
  BY <1>1, FilterMeasures
<1>4. \A i \in DOMAIN s : U[s[i]] = V[s[i]]
  <2>1. \A i \in DOMAIN s : s[i] \in X /\ Key(s[i]) \in Keys(s)
    BY KeysFinite
  <2>2. QED
    BY <1>1, <1>2, <2>1 DEF KeepsKey
<1> HIDE DEF U
<1>5. /\ Total(U, s) = Total(V, s) /\ Lowest(U, s) = Lowest(V, s)
      /\ Highest(U, s) = Highest(V, s)
  BY <1>4, MeasuresOfSame
<1>6. QED
  BY <1>3, <1>5 DEF V, U, SameMeasures

\* Keys of rows s that go to destination n of N.
Sent(s, N, hash, n) == {k \in Keys(s) : hash[k] % N = n - 1}

\* What destination n gets of each producer.
Blocks(outputs, N, hash, n) ==
  [p \in DOMAIN outputs |-> FilterBatch(outputs[p], Sent(outputs[p], N, hash, n))]

\* What a destination reads: the blocks of the producers, one after the other.
LEMMA BlocksAre ==
  ASSUME NEW X, NEW outputs \in Seq(Seq(X)), NEW N \in Nat, NEW n \in 1 .. N, NEW hash
  PROVE  /\ Blocks(outputs, N, hash, n) \in Seq(Seq(X))
         /\ DOMAIN Blocks(outputs, N, hash, n) = DOMAIN outputs
         /\ Routed(outputs, N, hash)[n] = FlattenSeq(Blocks(outputs, N, hash, n))
         /\ Routed(outputs, N, hash)[n] \in Seq(X)
<1> DEFINE b == Blocks(outputs, N, hash, n)
<1>1. /\ DOMAIN b = DOMAIN outputs
      /\ \A p \in DOMAIN outputs :
           b[p] = FilterBatch(outputs[p], Sent(outputs[p], N, hash, n))
  BY DEF Blocks
<1>2. \A p \in DOMAIN outputs : outputs[p] \in Seq(X)
  OBVIOUS
<1>3. \A p \in DOMAIN outputs : b[p] \in Seq(X)
  BY <1>1, <1>2, FilterIs
<1>4. b \in Seq(Seq(X))
  <2>1. b = [p \in 1 .. Len(outputs) |-> b[p]] /\ Len(outputs) \in Nat
        /\ DOMAIN outputs = 1 .. Len(outputs)
    BY DEF Blocks
  <2> HIDE DEF b
  <2>2. QED
    BY <1>3, <2>1
<1>5. Routed(outputs, N, hash)[n] = FlattenSeq(b)
  <2>1. \A p \in DOMAIN outputs : Repartition(outputs[p], N, hash)[n] = b[p]
    BY <1>1 DEF Repartition, Sent
  <2>2. [p \in DOMAIN outputs |-> Repartition(outputs[p], N, hash)[n]] = b
    BY <2>1 DEF Blocks
  <2> HIDE DEF b
  <2>3. Routed(outputs, N, hash)[n]
          = Concat([p \in DOMAIN outputs |-> Repartition(outputs[p], N, hash)[n]])
    BY DEF Routed
  <2>4. QED
    BY <2>2, <2>3 DEF Concat
<1>6. FlattenSeq(b) \in Seq(X)
  <2> DEFINE W == [x \in X |-> 0]
  <2>1. W \in [X -> Nat]
    OBVIOUS
  <2> HIDE DEF W, b
  <2>2. QED
    BY <1>4, <2>1, TotalOfFlatten
<1>7. QED
  BY <1>1, <1>4, <1>5, <1>6

\* The keys of a table are those of its parts.
LEMMA KeysOfFlatten ==
  ASSUME NEW X, NEW ss \in Seq(Seq(X))
  PROVE  \A k : k \in Keys(FlattenSeq(ss)) <=> \E p \in DOMAIN ss : k \in Keys(ss[p])
<1> DEFINE W == [z \in X |-> 0]
<1>1. W \in [X -> Nat]
  OBVIOUS
<1> HIDE DEF W
<1>2. Range(FlattenSeq(ss)) = UNION {Range(ss[p]) : p \in DOMAIN ss}
  BY <1>1, TotalOfFlatten
<1>3. Keys(FlattenSeq(ss)) = {Key(x) : x \in Range(FlattenSeq(ss))}
  BY KeysOfRange
<1>4. \A p \in DOMAIN ss : Keys(ss[p]) = {Key(x) : x \in Range(ss[p])}
  BY KeysOfRange
<1>5. \A x : x \in Range(FlattenSeq(ss)) <=> \E p \in DOMAIN ss : x \in Range(ss[p])
  BY <1>2
<1>6. QED
  BY <1>3, <1>4, <1>5

\* The keys that a filter leaves.
LEMMA KeysOfFilter ==
  ASSUME NEW X, NEW s \in Seq(X), NEW keys
  PROVE  Keys(FilterBatch(s, keys)) = Keys(s) \cap keys
<1>1. Range(FilterBatch(s, keys)) = {x \in Range(s) : Key(x) \in keys}
  BY FilterIs
<1>2. /\ Keys(FilterBatch(s, keys)) = {Key(x) : x \in Range(FilterBatch(s, keys))}
      /\ Keys(s) = {Key(x) : x \in Range(s)}
  BY KeysOfRange
<1>3. QED
  BY <1>1, <1>2

\* A destination's keys are the ones that hash to it.
LEMMA RoutedKeys ==
  ASSUME NEW X, NEW outputs \in Seq(Seq(X)), NEW N \in Nat, NEW n \in 1 .. N, NEW hash
  PROVE  Keys(Routed(outputs, N, hash)[n]) = Sent(FlattenSeq(outputs), N, hash, n)
<1> DEFINE b == Blocks(outputs, N, hash, n)
           r == Routed(outputs, N, hash)[n]
<1>1. b \in Seq(Seq(X)) /\ DOMAIN b = DOMAIN outputs /\ r = FlattenSeq(b)
  BY BlocksAre
<1>2. \A p \in DOMAIN outputs :
        b[p] = FilterBatch(outputs[p], Sent(outputs[p], N, hash, n)) /\ outputs[p] \in Seq(X)
  BY DEF Blocks
<1> HIDE DEF b, r
<1>3. \A p \in DOMAIN outputs : Keys(b[p]) = Sent(outputs[p], N, hash, n)
  <2>1. \A p \in DOMAIN outputs :
          Keys(b[p]) = Keys(outputs[p]) \cap Sent(outputs[p], N, hash, n)
    BY <1>2, KeysOfFilter
  <2>2. QED
    BY <2>1 DEF Sent
<1>4. \A k : k \in Keys(r) <=> \E p \in DOMAIN outputs : k \in Keys(b[p])
  BY <1>1, KeysOfFlatten
<1>5. \A k : k \in Keys(FlattenSeq(outputs)) <=> \E p \in DOMAIN outputs : k \in Keys(outputs[p])
  BY KeysOfFlatten
<1>6. \A k : k \in Keys(r) <=> k \in Sent(FlattenSeq(outputs), N, hash, n)
  BY <1>3, <1>4, <1>5 DEF Sent
<1>7. QED
  BY <1>6 DEF r, Keys

-----------------------------------------------------------------------------
(* The final stage of a remote aggregate.                                  *)

\* The projection of the final stage, in terms of measures.
LEMMA ProjectIs ==
  ASSUME NEW W, NEW s
  PROVE  Project(ColumnsForm(Columns(W, s), DOMAIN s)) =
           <<Total(W[1], s), Total(W[2], s), Lowest(W[3], s), Highest(W[4], s),
             IF Total(W[5], s) # 0 THEN <<Total(W[5], s), Total(W[6], s)>> ELSE <<0, 0>>>>
<1> DEFINE f == ColumnsForm(Columns(W, s), DOMAIN s)
<1>1. \A j \in 1 .. 6 : f[j] = FormOf(Along(W[j], s), DOMAIN s)
  BY DEF ColumnsForm, Columns
<1>2. \A j \in 1 .. 6 : /\ f[j].sum = Total(W[j], s) /\ f[j].seen = (Total(W[j], s) # 0)
                        /\ f[j].min = Lowest(W[j], s) /\ f[j].max = Highest(W[j], s)
  <2>1. SUFFICES ASSUME NEW j \in 1 .. 6
                 PROVE  /\ f[j].sum = Total(W[j], s) /\ f[j].seen = (Total(W[j], s) # 0)
                        /\ f[j].min = Lowest(W[j], s) /\ f[j].max = Highest(W[j], s)
    OBVIOUS
  <2>2. f[j] = FormOf(Along(W[j], s), DOMAIN s)
    BY <1>1
  <2>3. {Along(W[j], s)[i] : i \in DOMAIN s} = Values(W[j], s)
    BY AlongValues
  <2> HIDE DEF f
  <2>4. QED
    BY <2>2, <2>3 DEF FormOf, Total, Lowest, Highest
<1> HIDE DEF f
<1>3. SumValue(f[2]) = Total(W[2], s)
  <2>1. f[2].sum = Total(W[2], s) /\ f[2].seen = (Total(W[2], s) # 0)
    BY <1>2
  <2>2. CASE Total(W[2], s) = 0
    BY <2>1, <2>2 DEF SumValue, Null
  <2>3. CASE Total(W[2], s) # 0
    BY <2>1, <2>3 DEF SumValue, Null
  <2>4. QED
    BY <2>2, <2>3
<1>4. /\ f[1].sum = Total(W[1], s) /\ f[3].min = Lowest(W[3], s) /\ f[4].max = Highest(W[4], s)
      /\ f[5].sum = Total(W[5], s) /\ f[5].seen = (Total(W[5], s) # 0)
      /\ f[6].sum = Total(W[6], s)
  BY <1>2
<1>5. QED
  BY <1>3, <1>4 DEF Project, f

\* No sum, no count: values that are not NULL are positive.
LEMMA NothingSummed ==
  ASSUME NEW X, NEW W \in [X -> Nat], NEW s \in Seq(X), Total(W, s) = 0
  PROVE  Total(Ones(W), s) = 0
<1> DEFINE O == Ones(W)
<1>1. O \in [X -> Nat] /\ \A x \in X : O[x] = IF W[x] = 0 THEN 0 ELSE 1
  BY DEF Ones
<1> HIDE DEF O
<1>3. /\ IsFiniteSet(DOMAIN s) /\ Along(O, s) \in [DOMAIN s -> Nat]
      /\ \A i \in DOMAIN s : Along(O, s)[i] = O[s[i]] /\ s[i] \in X
  BY <1>1, AlongIs
<1>4. /\ Along(W, s) \in [DOMAIN s -> Nat]
      /\ \A i \in DOMAIN s : Along(W, s)[i] = W[s[i]]
  BY AlongIs
<1>5. \A i \in DOMAIN s : Along(W, s)[i] = 0
  BY <1>3, <1>4, SumOfFew DEF Total
<1>6. \A i \in DOMAIN s : Along(O, s)[i] = 0
  BY <1>1, <1>3, <1>4, <1>5
<1>7. QED
  BY <1>3, <1>6, SumOfFew DEF Total, O

\* Projected sums of partial tuples: the aggregate of the rows.
LEMMA MergedProject ==
  ASSUME NEW X, NEW W, NEW ss, NEW Y, NEW C, NEW qs, NEW order,
         Measured(X, W, ss, Y, C, qs, order)
  PROVE  LET B == FlattenSeq(qs)
             T == FlattenSeq(ss)
         IN  <<Total(C[1], B), Total(C[2], B), Lowest(C[3], B), Highest(C[4], B),
               IF Total(C[5], B) # 0 THEN <<Total(C[5], B), Total(C[6], B)>> ELSE <<0, 0>>>>
             = <<Total(Ones(W), T), Total(W, T), Lowest(W, T), Highest(W, T),
                 <<Total(W, T), Total(Ones(W), T)>>>>
<1> DEFINE B == FlattenSeq(qs)
           T == FlattenSeq(ss)
<1>1. /\ Total(C[1], B) = Total(Ones(W), T) /\ Total(C[2], B) = Total(W, T)
      /\ Lowest(C[3], B) = Lowest(W, T) /\ Highest(C[4], B) = Highest(W, T)
      /\ Total(C[5], B) = Total(W, T) /\ Total(C[6], B) = Total(Ones(W), T)
  BY MergedColumns
<1>2. W \in [X -> Nat] /\ ss \in Seq(Seq(X))
  BY DEF Measured
<1>3. T \in Seq(X)
  BY <1>2, TotalOfFlatten
<1> HIDE DEF B, T
<1>4. Total(W, T) = 0 => Total(Ones(W), T) = 0
  BY <1>2, <1>3, NothingSummed
<1>5. (IF Total(W, T) # 0 THEN <<Total(W, T), Total(Ones(W), T)>> ELSE <<0, 0>>)
      = <<Total(W, T), Total(Ones(W), T)>>
  BY <1>4
<1>6. QED
  BY <1>1, <1>5 DEF B, T

\* The final stage of one group.
LEMMA FinalGroup ==
  ASSUME NEW B \in Seq(GroupRow), NEW k
  PROVE  LET C == ColumnsOf(k)
         IN  Project(FoldLeft(UpdateColumnsOfGroup, NewColumns, RowsOf(B, k)))
             = <<Total(C[1], B), Total(C[2], B), Lowest(C[3], B), Highest(C[4], B),
                 IF Total(C[5], B) # 0 THEN <<Total(C[5], B), Total(C[6], B)>> ELSE <<0, 0>>>>
<1> DEFINE C == ColumnsOf(k)
           G == GroupColumns
           q == RowsOf(B, k)
<1>1. /\ G \in [1 .. 6 -> [GroupRow -> Nat]]
      /\ \A j \in 1 .. 6, r \in GroupRow : G[j][r] = Tail(r)[j]
  BY ColumnTypes
<1>2. q \in Seq(GroupRow)
  BY FilterIs DEF RowsOf
<1>3. \A j \in 1 .. 6 : /\ Total(G[j], q) = Total(C[j], B)
                        /\ Lowest(G[j], q) = Lowest(C[j], B)
                        /\ Highest(G[j], q) = Highest(C[j], B)
  BY GroupMeasures
<1> HIDE DEF C, G, q
<1>4. FoldLeft(UpdateColumnsOfGroup, NewColumns, q) = ColumnsForm(Columns(G, q), DOMAIN q)
  BY <1>1, <1>2, ColumnsGroupFold
<1>5. Project(ColumnsForm(Columns(G, q), DOMAIN q)) =
           <<Total(G[1], q), Total(G[2], q), Lowest(G[3], q), Highest(G[4], q),
             IF Total(G[5], q) # 0 THEN <<Total(G[5], q), Total(G[6], q)>> ELSE <<0, 0>>>>
  BY ProjectIs
<1>6. /\ Total(G[1], q) = Total(C[1], B) /\ Total(G[2], q) = Total(C[2], B)
      /\ Lowest(G[3], q) = Lowest(C[3], B) /\ Highest(G[4], q) = Highest(C[4], B)
      /\ Total(G[5], q) = Total(C[5], B) /\ Total(G[6], q) = Total(C[6], B)
  BY <1>3
<1>7. QED
  BY <1>4, <1>5, <1>6 DEF C, q

\* The columns of a group measure the same after a filter that keeps its key.
LEMMA OwnColumns ==
  ASSUME NEW q \in Seq(GroupRow), NEW keys, NEW k, KeepsKey(q, keys, k),
         NEW j \in 1 .. 6
  PROVE  SameMeasures(ColumnsOf(k)[j], FilterBatch(q, keys), q)
<1> DEFINE W == GroupColumns[j]
<1>1. W \in [GroupRow -> Nat]
  BY ColumnTypes
<1>2. ColumnsOf(k)[j] = Only(W, {k})
  BY DEF ColumnsOf
<1> HIDE DEF W
<1>3. SameMeasures(Only(W, {k}), FilterBatch(q, keys), q)
  BY <1>1, FilterOwn
<1>4. QED
  BY <1>2, <1>3

\* A function on 1 .. n is a sequence.
LEMMA SeqOfMap ==
  ASSUME NEW X, NEW n \in Nat, NEW f, f = [p \in 1 .. n |-> f[p]], \A p \in 1 .. n : f[p] \in X
  PROVE  f \in Seq(X)
OBVIOUS

\* The partial batches of the partitions, grouped.
GroupPartials(table) == [p \in DOMAIN table |-> PartialOf(table[p], TRUE)]

\* A destination's group is the native one: its partial rows all went there.
LEMMA RoutedGroup ==
  ASSUME NEW table \in Seq(Seq(Row)), NEW N \in Nat, NEW n \in 1 .. N, NEW hash,
         NEW k, k \in Sent(FlattenSeq(table), N, hash, n)
  PROVE  Project(FoldLeft(UpdateColumnsOfGroup, NewColumns,
                          RowsOf(Routed(GroupPartials(table), N, hash)[n], k)))
         = Finished(FoldLeft(UpdateRow, NewState, RowsOf(FlattenSeq(table), k)))
<1> DEFINE partials == GroupPartials(table)
           b == Blocks(partials, N, hash, n)
           C == ColumnsOf(k)
           W == Only(Val, {k})
           T == FlattenSeq(table)
           order == [p \in DOMAIN table |-> p]
<1>1. \A p \in DOMAIN table :
        /\ table[p] \in Seq(Row) /\ partials[p] = PartialOf(table[p], TRUE)
        /\ partials[p] \in Seq(GroupRow) /\ Measure(C, partials[p], PartialTuple(W, table[p]))
  <2>1. \A p \in DOMAIN table : table[p] \in Seq(Row) /\ partials[p] = PartialOf(table[p], TRUE)
    BY DEF GroupPartials
  <2>2. QED
    BY <2>1, PartialGroupByIs
<1>2. DOMAIN partials = DOMAIN table /\ partials \in Seq(Seq(GroupRow))
  <2>1. DOMAIN partials = DOMAIN table
    BY DEF GroupPartials
  <2>2. partials = [p \in 1 .. Len(table) |-> partials[p]] /\ Len(table) \in Nat
        /\ DOMAIN table = 1 .. Len(table)
    BY DEF GroupPartials
  <2>3. \A p \in 1 .. Len(table) : partials[p] \in Seq(GroupRow)
    BY <1>1, <2>2
  <2>4. partials \in Seq(Seq(GroupRow))
    BY <2>2, <2>3, SeqOfMap
  <2>5. QED
    BY <2>1, <2>4
<1>3. /\ b \in Seq(Seq(GroupRow)) /\ DOMAIN b = DOMAIN table
      /\ Routed(partials, N, hash)[n] = FlattenSeq(b)
      /\ FlattenSeq(b) \in Seq(GroupRow)
  <2> HIDE DEF partials
  <2>1. /\ b \in Seq(Seq(GroupRow)) /\ DOMAIN b = DOMAIN partials
        /\ Routed(partials, N, hash)[n] = FlattenSeq(b)
        /\ Routed(partials, N, hash)[n] \in Seq(GroupRow)
    BY <1>2, BlocksAre
  <2>2. QED
    BY <1>2, <2>1
<1>4. C \in [1 .. 6 -> [GroupRow -> Nat]] /\ W \in [Row -> Nat]
  BY ColumnsOfIs, ValIs, OnlyIs
<1>5. \A p \in DOMAIN table : Measure(C, b[p], PartialTuple(W, table[p]))
  <2>1. SUFFICES ASSUME NEW p \in DOMAIN table
                 PROVE  Measure(C, b[p], PartialTuple(W, table[p]))
    OBVIOUS
  <2> DEFINE q == partials[p]
             keys == Sent(q, N, hash, n)
             t == PartialTuple(W, table[p])
  <2>2. q \in Seq(GroupRow) /\ Measure(C, q, t) /\ b[p] = FilterBatch(q, keys)
    BY <1>1, <1>2 DEF Blocks
  <2>3. KeepsKey(q, keys, k)
    BY DEF Sent, KeepsKey
  <2> HIDE DEF q, keys, t
  <2>4. ASSUME NEW j \in 1 .. 6
        PROVE  /\ Total(C[j], FilterBatch(q, keys)) = Total(C[j], q)
               /\ Lowest(C[j], FilterBatch(q, keys)) = Lowest(C[j], q)
               /\ Highest(C[j], FilterBatch(q, keys)) = Highest(C[j], q)
    <3>1. q \in Seq(GroupRow)
      BY <2>2
    <3>2. QED
      BY <2>3, <3>1, OwnColumns DEF SameMeasures
  <2> HIDE DEF C, b
  <2>5. QED
    BY <2>2, <2>4 DEF Measure, t
<1>6. order \in Bijection(DOMAIN b, DOMAIN table)
  BY <1>3 DEF Bijection, Injection, Surjection, IsInjective
<1>7. Measured(Row, W, table, GroupRow, C, b, order)
  BY <1>3, <1>4, <1>5, <1>6 DEF Measured
<1> HIDE DEF b, order
<1>8. Project(FoldLeft(UpdateColumnsOfGroup, NewColumns, RowsOf(FlattenSeq(b), k)))
        = <<Total(C[1], FlattenSeq(b)), Total(C[2], FlattenSeq(b)),
            Lowest(C[3], FlattenSeq(b)), Highest(C[4], FlattenSeq(b)),
            IF Total(C[5], FlattenSeq(b)) # 0
            THEN <<Total(C[5], FlattenSeq(b)), Total(C[6], FlattenSeq(b))>> ELSE <<0, 0>>>>
  BY <1>3, FinalGroup
<1>9. T \in Seq(Row)
  BY ValIs, TotalOfFlatten
<1>10. Finished(FoldLeft(UpdateRow, NewState, RowsOf(T, k)))
         = <<Total(Ones(W), T), Total(W, T), Lowest(W, T), Highest(W, T),
             <<Total(W, T), Total(Ones(W), T)>>>>
  <2> HIDE DEF T
  <2> QED BY <1>9, NativeGroup
<1> HIDE DEF C, W
<1>11. <<Total(C[1], FlattenSeq(b)), Total(C[2], FlattenSeq(b)),
         Lowest(C[3], FlattenSeq(b)), Highest(C[4], FlattenSeq(b)),
         IF Total(C[5], FlattenSeq(b)) # 0
         THEN <<Total(C[5], FlattenSeq(b)), Total(C[6], FlattenSeq(b))>> ELSE <<0, 0>>>>
       = <<Total(Ones(W), T), Total(W, T), Lowest(W, T), Highest(W, T),
           <<Total(W, T), Total(Ones(W), T)>>>>
  BY <1>7, MergedProject
<1>12. QED
  BY <1>3, <1>8, <1>10, <1>11

-----------------------------------------------------------------------------
(* Tables that list their groups.                                           *)

\* Values of finished rows; an average is a pair.
Cell == Nat \cup (Nat \X Nat)

\* s has one row for each key of K, and no other.
Lists(s, K, val) ==
  \A row : Times(row, s) = IF \E k \in K : row = <<k>> \o val[k] THEN 1 ELSE 0

\* Keys in front tell rows apart.
LEMMA KeyedApart ==
  ASSUME NEW k \in Nat, NEW l \in Nat, NEW t \in Seq(Cell), NEW u \in Seq(Cell),
         <<k>> \o t = <<l>> \o u
  PROVE  k = l
<1>1. ASSUME NEW j \in Nat, NEW v \in Seq(Cell)  PROVE Key(<<j>> \o v) = j
  <2>1. j \in Cell
    BY DEF Cell
  <2> HIDE DEF Cell
  <2>2. QED
    BY <2>1, KeyedRow
<1>2. Key(<<k>> \o t) = k /\ Key(<<l>> \o u) = l
  BY <1>1
<1>3. QED
  BY <1>2

\* Groups in key order list every key once.
LEMMA InOrderLists ==
  ASSUME NEW K \in SUBSET Nat, IsFiniteSet(K), NEW val \in [K -> Seq(Cell)], NEW s,
         s = [m \in DOMAIN InOrderOf(K) |-> <<InOrderOf(K)[m]>> \o val[InOrderOf(K)[m]]]
  PROVE  Lists(s, K, val) /\ s \in Seq(Seq(Cell))
<1> DEFINE keys == InOrderOf(K)
           n == Cardinality(K)
<1>1. n \in Nat
  BY FS_CardinalityType
<1>2. keys \in Bijection(1 .. n, K)
  BY InOrder
<1>3. s = [m \in DOMAIN keys |-> <<keys[m]>> \o val[keys[m]]]
  OBVIOUS
<1> HIDE DEF keys, n
<1>4. /\ keys \in [1 .. n -> K] /\ DOMAIN keys = 1 .. n
      /\ \A a, b \in 1 .. n : keys[a] = keys[b] => a = b
      /\ \A k \in K : \E m \in 1 .. n : keys[m] = k
  BY <1>2 DEF Bijection, Injection, Surjection, IsInjective
<1>5. DOMAIN s = 1 .. n /\ \A m \in 1 .. n : keys[m] \in K /\ s[m] = <<keys[m]>> \o val[keys[m]]
  BY <1>3, <1>4
<1>6. \A k \in K : k \in Nat /\ k \in Cell /\ val[k] \in Seq(Cell) /\ <<k>> \o val[k] \in Seq(Cell)
  <2>1. \A k \in K : k \in Nat /\ val[k] \in Seq(Cell)
    OBVIOUS
  <2>2. \A k \in K : k \in Cell
    BY <2>1 DEF Cell
  <2>3. ASSUME NEW k \in Cell, NEW t \in Seq(Cell)  PROVE <<k>> \o t \in Seq(Cell)
    OBVIOUS
  <2>4. QED
    BY <2>1, <2>2, <2>3
<1>7. s \in Seq(Seq(Cell))
  <2>1. s = [m \in 1 .. n |-> s[m]]
    BY <1>3, <1>4
  <2>2. \A m \in 1 .. n : s[m] \in Seq(Cell)
    BY <1>5, <1>6
  <2>3. QED
    BY <1>1, <2>1, <2>2, SeqOfMap
<1>8. \A k, l \in K : <<k>> \o val[k] = <<l>> \o val[l] => k = l
  BY <1>6, KeyedApart
<1>9. ASSUME NEW row
      PROVE  Times(row, s) = IF \E k \in K : row = <<k>> \o val[k] THEN 1 ELSE 0
  <2> DEFINE S == {m \in DOMAIN s : s[m] = row}
             Listed == \E k \in K : row = <<k>> \o val[k]
  <2>1. ASSUME Listed  PROVE Times(row, s) = 1
    <3>1. PICK k \in K : row = <<k>> \o val[k]
      BY <2>1
    <3>2. PICK m \in 1 .. n : keys[m] = k
      BY <1>4
    <3>3. m \in S
      BY <1>5, <3>1, <3>2
    <3>4. \A i \in S : i = m
      <4>1. SUFFICES ASSUME NEW i \in 1 .. n, s[i] = row  PROVE i = m
        BY <1>5
      <4>2. keys[i] \in K /\ <<keys[i]>> \o val[keys[i]] = <<k>> \o val[k]
        BY <1>5, <3>1, <4>1
      <4>3. keys[i] = k
        BY <1>8, <4>2
      <4>4. QED
        BY <1>4, <3>2, <4>3
    <3> HIDE DEF S
    <3>5. S = {m}
      BY <3>3, <3>4
    <3>6. Cardinality(S) = 1
      BY <3>5, FS_Singleton
    <3>7. Times(row, s) = Cardinality(S)
      BY DEF Times, S
    <3>8. QED
      BY <3>6, <3>7
  <2>2. ASSUME ~Listed  PROVE Times(row, s) = 0
    <3>1. ASSUME NEW m \in 1 .. n, s[m] = row  PROVE FALSE
      <4>1. keys[m] \in K /\ row = <<keys[m]>> \o val[keys[m]]
        BY <1>5, <3>1
      <4>2. QED
        BY <2>2, <4>1, Zenon
    <3>2. S = {}
      BY <1>5, <3>1
    <3>3. QED
      BY <3>2, FS_EmptySet DEF Times
  <2> HIDE DEF Listed
  <2>3. Times(row, s) = IF Listed THEN 1 ELSE 0
    BY <2>1, <2>2
  <2>4. QED
    BY <2>3, Zenon DEF Listed
<1>10. QED
  BY <1>7, <1>9 DEF Lists

\* The rows of the destinations, one after another, are the rows of all keys.
LEMMA ConcatLists ==
  ASSUME NEW K \in SUBSET Nat, NEW val \in [K -> Seq(Cell)], NEW N \in Nat,
         NEW ss \in Seq(Seq(Seq(Cell))), Len(ss) = N,
         NEW to \in [K -> 1 .. N],
         \A n \in 1 .. N : Lists(ss[n], {k \in K : to[k] = n}, val)
  PROVE  Lists(FlattenSeq(ss), K, val)
<1>1. SUFFICES ASSUME NEW row
               PROVE  Times(row, FlattenSeq(ss))
                        = IF \E k \in K : row = <<k>> \o val[k] THEN 1 ELSE 0
  BY DEF Lists
<1> DEFINE X == Seq(Cell)
           W == Is(row, X)
           D == 1 .. N
           v == Totals(W, ss)
           At(n) == \E k \in K : to[k] = n /\ row = <<k>> \o val[k]
<1>2. ss \in Seq(Seq(X)) /\ DOMAIN ss = D /\ \A n \in D : ss[n] \in Seq(X)
  OBVIOUS
<1>3. IsFiniteSet(D)
  BY FS_Interval
<1> HIDE DEF X
<1>4. W \in [X -> Nat]
  BY DEF Is
<1>5. FlattenSeq(ss) \in Seq(X) /\ Total(W, FlattenSeq(ss)) = SumOf(v, D)
  <2> HIDE DEF W
  <2> QED BY <1>2, <1>4, TotalOfFlatten
<1>6. Times(row, FlattenSeq(ss)) = SumOf(v, D)
  BY <1>5, TimesIs
<1>7. v \in [D -> Nat] /\ \A n \in D : v[n] = IF At(n) THEN 1 ELSE 0
  <2>1. \A n \in D : v[n] = Total(W, ss[n]) /\ DOMAIN v = D
    BY <1>2 DEF Totals
  <2>2. \A n \in D : Times(row, ss[n]) = Total(W, ss[n])
    BY <1>2, TimesIs
  <2>3. \A n \in D : Times(row, ss[n]) = IF At(n) THEN 1 ELSE 0
    BY DEF Lists
  <2>4. v = [n \in D |-> v[n]]
    BY <1>2 DEF Totals
  <2> HIDE DEF v, At, D
  <2>5. \A n \in D : v[n] = IF At(n) THEN 1 ELSE 0
    BY <2>1, <2>2, <2>3
  <2>6. \A n \in D : v[n] \in Nat
    BY <2>5
  <2>7. QED
    BY <2>4, <2>5, <2>6
<1> HIDE DEF v
<1>8. CASE \E k \in K : row = <<k>> \o val[k]
  <2>1. PICK k \in K : row = <<k>> \o val[k]
    BY <1>8
  <2>2. to[k] \in D /\ v[to[k]] = 1
    BY <1>7, <2>1
  <2>3. \A n \in D \ {to[k]} : v[n] = 0
    <3>1. SUFFICES ASSUME NEW n \in D, At(n)  PROVE n = to[k]
      BY <1>7
    <3>2. PICK l \in K : to[l] = n /\ row = <<l>> \o val[l]
      BY <3>1
    <3>3. l = k
      <4>1. l \in Nat /\ k \in Nat /\ val[l] \in Seq(Cell) /\ val[k] \in Seq(Cell)
        OBVIOUS
      <4>2. <<l>> \o val[l] = <<k>> \o val[k]
        BY <2>1, <3>2
      <4>3. QED
        BY <4>1, <4>2, KeyedApart
    <3>4. QED
      BY <3>2, <3>3
  <2> HIDE DEF D
  <2>4. SumOf(v, D) = v[to[k]]
    BY <1>3, <1>7, <2>2, <2>3, SumOfFew
  <2>5. QED
    BY <1>6, <1>8, <2>2, <2>4
<1>9. CASE ~\E k \in K : row = <<k>> \o val[k]
  <2>1. \A n \in D : v[n] = 0
    BY <1>7, <1>9
  <2> HIDE DEF D
  <2>2. SumOf(v, D) = 0
    BY <1>3, <1>7, <2>1, SumOfFew
  <2>3. QED
    BY <1>6, <1>9, <2>2
<1>10. QED
  BY <1>8, <1>9

\* A finished group is a row of cells.
LEMMA FinishedCells ==
  ASSUME NEW rows \in Seq(Row), NEW k
  PROVE  Finished(FoldLeft(UpdateRow, NewState, RowsOf(rows, k))) \in Seq(Cell)
<1> DEFINE W == Only(Val, {k})
<1>1. Finished(FoldLeft(UpdateRow, NewState, RowsOf(rows, k)))
        = <<Total(Ones(W), rows), Total(W, rows), Lowest(W, rows), Highest(W, rows),
            <<Total(W, rows), Total(Ones(W), rows)>>>>
  BY NativeGroup
<1>2. W \in [Row -> Nat]
  BY ValIs, OnlyIs
<1> HIDE DEF W
<1>3. /\ Total(Ones(W), rows) \in Nat /\ Total(W, rows) \in Nat
      /\ Lowest(W, rows) \in Nat /\ Highest(W, rows) \in Nat
  BY <1>2, MeasuresNat
<1>4. \A a, b, l, h \in Nat : <<a, b, l, h, <<b, a>>>> \in Seq(Cell)
  <2>1. SUFFICES ASSUME NEW a \in Nat, NEW b \in Nat, NEW l \in Nat, NEW h \in Nat
                 PROVE  <<a, b, l, h, <<b, a>>>> \in Seq(Cell)
    OBVIOUS
  <2>2. a \in Cell /\ b \in Cell /\ l \in Cell /\ h \in Cell /\ <<b, a>> \in Cell
    BY DEF Cell
  <2> HIDE DEF Cell
  <2>3. QED
    BY <2>2
<1>5. QED
  BY <1>1, <1>3, <1>4

\* The native aggregate lists its groups.
NativeOf(rows) ==
  [k \in Keys(rows) |-> Finished(FoldLeft(UpdateRow, NewState, RowsOf(rows, k)))]

\* The native aggregate has one row for each key.
LEMMA NativeLists ==
  ASSUME NEW rows \in Seq(Row)
  PROVE  /\ Lists(GroupBy(rows), Keys(rows), NativeOf(rows))
         /\ Keys(rows) \in SUBSET Nat /\ IsFiniteSet(Keys(rows))
         /\ NativeOf(rows) \in [Keys(rows) -> Seq(Cell)]
<1> DEFINE K == Keys(rows)
           val == NativeOf(rows)
           g == GroupStates(rows, NewState, UpdateRow)
<1>1. K \in SUBSET Nat /\ IsFiniteSet(K)
  BY GroupsAre
<1>2. val \in [K -> Seq(Cell)]
  BY FinishedCells DEF NativeOf
<1>3. DOMAIN g = K /\ \A k \in K : Finished(g[k]) = val[k]
  BY DEF GroupStates, NativeOf
<1>4. \A m \in DOMAIN InOrderOf(K) : InOrderOf(K)[m] \in K
  <2>1. InOrderOf(K) \in Bijection(1 .. Cardinality(K), K)
    BY <1>1, InOrder
  <2>2. QED
    BY <2>1 DEF Bijection, Injection
<1> HIDE DEF K, val, g
<1>5. GroupBy(rows)
        = [m \in DOMAIN InOrderOf(K) |-> <<InOrderOf(K)[m]>> \o Finished(g[InOrderOf(K)[m]])]
  BY <1>3 DEF GroupBy, InKeyOrder, g
<1>6. GroupBy(rows)
        = [m \in DOMAIN InOrderOf(K) |-> <<InOrderOf(K)[m]>> \o val[InOrderOf(K)[m]]]
  BY <1>3, <1>4, <1>5
<1>7. Lists(GroupBy(rows), K, val)
  BY <1>1, <1>2, <1>6, InOrderLists
<1>8. QED
  BY <1>1, <1>2, <1>7 DEF K, val

\* Hash of a key: where its rows go.
Hashing(table, hash, N) ==
  N \in Nat \ {0} /\ hash \in [Keys(FlattenSeq(table)) -> Nat]

\* A remote aggregate with GROUP BY has the rows of the native one: the
\* destinations share out the keys, and each lists the native groups of its own.
LEMMA GroupedRemote ==
  ASSUME NEW table \in Seq(Seq(Row)), NEW hash, Hashing(table, hash, Len(table))
  PROVE  SameRows(RemoteAggregate(table, TRUE, hash), GroupBy(FlattenSeq(table)))
<1> DEFINE T == FlattenSeq(table)
           K == Keys(T)
           val == NativeOf(T)
           N == Len(table)
           partials == [p \in DOMAIN table |-> PartialOf(table[p], TRUE)]
           inputs == Routed(partials, N, hash)
           to == [k \in K |-> (hash[k] % N) + 1]
           Here(n) == {k \in K : to[k] = n}
           finals == [n \in 1 .. N |-> FinalWorkerPlan(inputs[n], TRUE)]
<1>1. T \in Seq(Row)
  BY ValIs, TotalOfFlatten
<1>2. /\ Lists(GroupBy(T), K, val) /\ K \in SUBSET Nat /\ IsFiniteSet(K)
      /\ val \in [K -> Seq(Cell)]
  <2> HIDE DEF T
  <2> QED BY <1>1, NativeLists
<1>3. N \in Nat /\ N # 0 /\ \A k \in K : hash[k] \in Nat
  BY DEF Hashing
<1>4. to \in [K -> 1 .. N] /\ \A k \in K, n \in 1 .. N : to[k] = n <=> hash[k] % N = n - 1
  <2>1. \A a \in Nat : a % N \in 0 .. N - 1
    BY <1>3
  <2>2. \A k \in K : hash[k] % N \in 0 .. N - 1
    BY <1>3, <2>1
  <2>3. \A a \in 0 .. N - 1 : a + 1 \in 1 .. N /\ \A n \in 1 .. N : a + 1 = n <=> a = n - 1
    BY <1>3
  <2>4. \A k \in K : to[k] = (hash[k] % N) + 1
    OBVIOUS
  <2>5. \A k \in K : to[k] \in 1 .. N
    BY <2>2, <2>3, <2>4
  <2>6. \A k \in K, n \in 1 .. N : to[k] = n <=> hash[k] % N = n - 1
    BY <2>2, <2>3, <2>4
  <2>7. QED
    BY <2>5, <2>6
<1>5. \A n \in 1 .. N : Here(n) = Sent(T, N, hash, n)
  BY <1>4 DEF Sent
<1>6. partials \in Seq(Seq(GroupRow)) /\ DOMAIN partials = DOMAIN table
      /\ \A p \in DOMAIN table : Keys(partials[p]) = Keys(table[p])
  <2>1. \A p \in DOMAIN table : table[p] \in Seq(Row) /\ partials[p] = PartialOf(table[p], TRUE)
    OBVIOUS
  <2>2. \A p \in DOMAIN table : partials[p] \in Seq(GroupRow) /\ Keys(partials[p]) = Keys(table[p])
    BY <2>1, PartialGroupByIs
  <2>3. partials = [p \in 1 .. Len(table) |-> partials[p]] /\ DOMAIN table = 1 .. Len(table)
    OBVIOUS
  <2> HIDE DEF partials
  <2>4. partials \in Seq(Seq(GroupRow))
    BY <1>3, <2>2, <2>3, SeqOfMap
  <2>5. DOMAIN partials = DOMAIN table
    BY <2>3
  <2>6. QED
    BY <2>2, <2>4, <2>5
<1>7. Keys(FlattenSeq(partials)) = K
  <2>1. \A k : k \in Keys(FlattenSeq(partials)) <=> \E p \in DOMAIN table : k \in Keys(partials[p])
    <3> HIDE DEF partials
    <3> QED BY <1>6, KeysOfFlatten
  <2>2. \A k : k \in K <=> \E p \in DOMAIN table : k \in Keys(table[p])
    BY KeysOfFlatten
  <2> HIDE DEF partials, K
  <2>3. \A k : k \in Keys(FlattenSeq(partials)) <=> k \in K
    BY <1>6, <2>1, <2>2
  <2>4. QED
    BY <2>3 DEF Keys, K
<1>8. ASSUME NEW n \in 1 .. N
      PROVE  Lists(finals[n], Here(n), val) /\ finals[n] \in Seq(Seq(Cell))
  <2> DEFINE in == inputs[n]
             H == Here(n)
             hv == [k \in H |-> val[k]]
             g == GroupStates(in, NewColumns, UpdateColumnsOfGroup)
  <2>1. Keys(in) = H
    <3>1. Keys(in) = Sent(FlattenSeq(partials), N, hash, n)
      <4> HIDE DEF partials, N
      <4> QED BY <1>3, <1>6, RoutedKeys
    <3>2. Sent(FlattenSeq(partials), N, hash, n) = Sent(T, N, hash, n)
      BY <1>7 DEF Sent
    <3>3. QED
      BY <1>5, <3>1, <3>2
  <2>2. \A k \in H : Project(g[k]) = val[k]
    <3>1. SUFFICES ASSUME NEW k \in H  PROVE Project(g[k]) = val[k]
      OBVIOUS
    <3>2. g[k] = FoldLeft(UpdateColumnsOfGroup, NewColumns, RowsOf(in, k))
      BY <2>1 DEF GroupStates
    <3>3. val[k] = Finished(FoldLeft(UpdateRow, NewState, RowsOf(T, k)))
      BY DEF NativeOf
    <3>4. k \in Sent(T, N, hash, n)
      BY <1>5
    <3>5. Project(FoldLeft(UpdateColumnsOfGroup, NewColumns, RowsOf(in, k)))
            = Finished(FoldLeft(UpdateRow, NewState, RowsOf(T, k)))
      <4>1. partials = GroupPartials(table)
        BY DEF GroupPartials
      <4>2. Project(FoldLeft(UpdateColumnsOfGroup, NewColumns,
                             RowsOf(Routed(GroupPartials(table), N, hash)[n], k)))
              = Finished(FoldLeft(UpdateRow, NewState, RowsOf(T, k)))
        <5> HIDE DEF N
        <5> QED BY <1>3, <3>4, RoutedGroup
      <4>3. QED
        BY <4>1, <4>2
    <3>6. QED
      BY <3>2, <3>3, <3>5
  <2>3. H \in SUBSET Nat /\ H \in SUBSET K
    BY <1>2
  <2>4. IsFiniteSet(H)
    BY <1>2, <2>3, FS_Subset
  <2>5. hv \in [H -> Seq(Cell)] /\ \A k \in H : hv[k] = val[k]
    BY <1>2, <2>3
  <2>6. \A m \in DOMAIN InOrderOf(H) : InOrderOf(H)[m] \in H
    <3>1. InOrderOf(H) \in Bijection(1 .. Cardinality(H), H)
      <4> HIDE DEF H
      <4> QED BY <2>3, <2>4, InOrder
    <3> HIDE DEF H
    <3>2. QED
      BY <3>1 DEF Bijection, Injection
  <2>7. DOMAIN g = H
    BY <2>1 DEF GroupStates
  <2>8. finals[n]
          = [m \in DOMAIN InOrderOf(H) |-> <<InOrderOf(H)[m]>> \o Project(g[InOrderOf(H)[m]])]
    BY <2>7 DEF FinalWorkerPlan, InKeyOrder
  <2> HIDE DEF H, g, hv, finals, val, in
  <2>9. finals[n] = [m \in DOMAIN InOrderOf(H) |-> <<InOrderOf(H)[m]>> \o hv[InOrderOf(H)[m]]]
    <3>1. \A m \in DOMAIN InOrderOf(H) :
            Project(g[InOrderOf(H)[m]]) = hv[InOrderOf(H)[m]]
      BY <2>2, <2>5, <2>6
    <3>2. QED
      BY <2>8, <3>1
  <2>10. Lists(finals[n], H, hv) /\ finals[n] \in Seq(Seq(Cell))
    BY <2>3, <2>4, <2>5, <2>9, InOrderLists
  <2>11. Lists(finals[n], H, val)
    BY <2>5, <2>10 DEF Lists
  <2>12. QED
    BY <2>10, <2>11 DEF H
<1>9. RemoteAggregate(table, TRUE, hash) = FlattenSeq(finals)
  <2>1. DOMAIN inputs = 1 .. N
    BY DEF Routed
  <2>2. QED
    BY <2>1 DEF RemoteAggregate, Concat
<1>10. finals \in Seq(Seq(Seq(Cell))) /\ Len(finals) = N
  <2>1. finals = [n \in 1 .. N |-> finals[n]]
    OBVIOUS
  <2> HIDE DEF finals, N
  <2>2. finals \in Seq(Seq(Seq(Cell)))
    BY <1>3, <1>8, <2>1, SeqOfMap
  <2>3. Len(finals) = N
    BY <1>3, <2>1, <2>2
  <2>4. QED
    BY <2>2, <2>3
<1> HIDE DEF finals, to, N, val, K, T
<1>11. Lists(FlattenSeq(finals), K, val)
  BY <1>2, <1>3, <1>4, <1>8, <1>10, ConcatLists
<1>12. \A row : Times(row, FlattenSeq(finals)) = Times(row, GroupBy(T))
  BY <1>2, <1>11 DEF Lists
<1>13. QED
  BY <1>9, <1>12, SameTimes DEF T

\* Without GROUP BY one task merges the partials.
LEMMA UngroupedFinal ==
  ASSUME NEW table \in Seq(Seq(Row))
  PROVE  FinalWorkerPlan(FlattenSeq([p \in DOMAIN table |-> PartialOf(table[p], FALSE)]), FALSE)
         = Aggregate(FlattenSeq(table))
<1> DEFINE qs == [p \in DOMAIN table |-> PartialOf(table[p], FALSE)]
           order == [p \in DOMAIN table |-> p]
           T == FlattenSeq(table)
           B == FlattenSeq(qs)
           C == PartialColumns
<1>1. \A p \in DOMAIN table : table[p] \in Seq(Row) /\ qs[p] = PartialOf(table[p], FALSE)
  OBVIOUS
<1>2. \A p \in DOMAIN table : /\ qs[p] \in Seq(PartialRow)
                              /\ Measure(C, qs[p], PartialTuple(Val, table[p]))
  BY <1>1, PartialAggregateIs
<1>3. qs = [p \in 1 .. Len(table) |-> qs[p]] /\ DOMAIN table = 1 .. Len(table)
      /\ Len(table) \in Nat
  OBVIOUS
<1> HIDE DEF qs
<1>4. qs \in Seq(Seq(PartialRow)) /\ DOMAIN qs = DOMAIN table
  <2>1. \A p \in 1 .. Len(table) : qs[p] \in Seq(PartialRow)
    BY <1>2, <1>3
  <2>2. qs \in Seq(Seq(PartialRow))
    BY <1>3, <2>1, SeqOfMap
  <2>3. QED
    BY <1>3, <2>2
<1>5. order \in Bijection(DOMAIN qs, DOMAIN table)
  BY <1>4 DEF Bijection, Injection, Surjection, IsInjective
<1>6. /\ C \in [1 .. 6 -> [PartialRow -> Nat]]
      /\ \A j \in 1 .. 6, r \in PartialRow : C[j][r] = r[j]
  BY ColumnTypes
<1>7. Val \in [Row -> Nat] /\ \A x \in Row : Val[x] = x[2]
  BY ValIs
<1>8. Measured(Row, Val, table, PartialRow, C, qs, order)
  BY <1>2, <1>4, <1>5, <1>6, <1>7 DEF Measured
<1>9. T \in Seq(Row)
  BY <1>7, TotalOfFlatten
<1>10. B \in Seq(PartialRow)
  <2> DEFINE W == [r \in PartialRow |-> 0]
  <2>1. W \in [PartialRow -> Nat]
    OBVIOUS
  <2> HIDE DEF W
  <2>2. QED
    BY <1>4, <2>1, TotalOfFlatten
<1> HIDE DEF C, order
<1>11. FoldLeft(UpdateColumns, NewColumns, B) = ColumnsForm(Columns(C, B), DOMAIN B)
  <2> HIDE DEF B
  <2> QED BY <1>6, <1>10, ColumnsFold
<1>12. Project(ColumnsForm(Columns(C, B), DOMAIN B)) =
           <<Total(C[1], B), Total(C[2], B), Lowest(C[3], B), Highest(C[4], B),
             IF Total(C[5], B) # 0 THEN <<Total(C[5], B), Total(C[6], B)>> ELSE <<0, 0>>>>
  BY ProjectIs
<1>13. <<Total(C[1], B), Total(C[2], B), Lowest(C[3], B), Highest(C[4], B),
         IF Total(C[5], B) # 0 THEN <<Total(C[5], B), Total(C[6], B)>> ELSE <<0, 0>>>>
       = <<Total(Ones(Val), T), Total(Val, T), Lowest(Val, T), Highest(Val, T),
           <<Total(Val, T), Total(Ones(Val), T)>>>>
  BY <1>8, MergedProject
<1> HIDE DEF B, T
<1>14. Finished(StateOf(T)) = <<Total(Ones(Val), T), Total(Val, T), Lowest(Val, T),
                                Highest(Val, T), <<Total(Val, T), Total(Ones(Val), T)>>>>
  <2>1. StateOf(T) = State(Val, T)
    BY <1>7, <1>9, UpdateFold DEF StateOf
  <2>2. QED
    BY <1>7, <1>9, <2>1, FinishedIs
<1>15. FinalWorkerPlan(B, FALSE) = <<Finished(StateOf(T))>>
  <2>1. FinalWorkerPlan(B, FALSE) = <<Project(FoldLeft(UpdateColumns, NewColumns, B))>>
    BY DEF FinalWorkerPlan
  <2>2. QED
    BY <1>11, <1>12, <1>13, <1>14, <2>1
<1>16. QED
  BY <1>15 DEF Aggregate, B, T, qs

\* A single part is the whole.
LEMMA FlattenOne ==
  ASSUME NEW X, NEW s \in Seq(X), NEW row
  PROVE  Times(row, FlattenSeq(<<s>>)) = Times(row, s)
<1> DEFINE ss == <<s>>
           W == Is(row, X)
           v == Totals(W, ss)
<1>1. ss \in Seq(Seq(X)) /\ DOMAIN ss = {1} /\ ss[1] = s
  OBVIOUS
<1>2. W \in [X -> Nat]
  BY DEF Is
<1>3. Total(W, s) \in Nat
  <2> HIDE DEF W
  <2> QED BY <1>2, AlongIs
<1> HIDE DEF ss
<1>4. FlattenSeq(ss) \in Seq(X) /\ Total(W, FlattenSeq(ss)) = SumOf(v, {1})
  <2> HIDE DEF W
  <2>1. FlattenSeq(ss) \in Seq(X) /\ Total(W, FlattenSeq(ss)) = SumOf(v, DOMAIN ss)
    BY <1>1, <1>2, TotalOfFlatten
  <2>2. QED
    BY <1>1, <2>1
<1>5. v \in [{1} -> Nat] /\ v[1] = Total(W, s)
  BY <1>1, <1>3 DEF Totals
<1>6. SumOf(v, {1}) = v[1]
  <2> HIDE DEF v
  <2>1. IsFiniteSet({1}) /\ 1 \in {1} /\ {1} \ {1} = {}
    BY FS_Singleton
  <2>2. QED
    BY <1>5, <2>1, SumOfFew
<1>7. Times(row, FlattenSeq(ss)) = Total(W, FlattenSeq(ss))
  BY <1>4, TimesIs
<1>8. Times(row, s) = Total(W, s)
  BY TimesIs
<1>9. QED
  BY <1>4, <1>5, <1>6, <1>7, <1>8 DEF ss

\* A remote aggregate without GROUP BY has the one row of the native one.
LEMMA UngroupedRemote ==
  ASSUME NEW table \in Seq(Seq(Row)), NEW hash
  PROVE  SameRows(RemoteAggregate(table, FALSE, hash), Aggregate(FlattenSeq(table)))
<1> DEFINE in == FlattenSeq([p \in DOMAIN table |-> PartialOf(table[p], FALSE)])
           s == Aggregate(FlattenSeq(table))
           r == Finished(StateOf(FlattenSeq(table)))
<1>1. FinalWorkerPlan(in, FALSE) = s
  BY UngroupedFinal
<1>2. s = <<r>>
  BY DEF Aggregate
<1>3. RemoteAggregate(table, FALSE, hash)
        = FlattenSeq([n \in DOMAIN <<in>> |-> FinalWorkerPlan(<<in>>[n], FALSE)])
  BY DEF RemoteAggregate, Concat
<1> HIDE DEF in, r
<1>4. [n \in DOMAIN <<in>> |-> FinalWorkerPlan(<<in>>[n], FALSE)] = <<FinalWorkerPlan(in, FALSE)>>
  <2> DEFINE F(x) == FinalWorkerPlan(x, FALSE)
  <2> SUFFICES [n \in DOMAIN <<in>> |-> F(<<in>>[n])] = <<F(in)>>
    OBVIOUS
  <2> HIDE DEF F
  <2>1. DOMAIN <<in>> = 1 .. 1 /\ <<in>>[1] = in
    OBVIOUS
  <2>2. [n \in DOMAIN <<in>> |-> F(<<in>>[n])] = [n \in 1 .. 1 |-> F(in)]
    BY <2>1
  <2>3. QED
    BY <2>2
<1>5. RemoteAggregate(table, FALSE, hash) = FlattenSeq(<<s>>)
  BY <1>1, <1>3, <1>4
<1> HIDE DEF s
<1>6. s \in Seq({r})
  BY <1>2
<1>7. \A row : Times(row, FlattenSeq(<<s>>)) = Times(row, s)
  BY <1>6, FlattenOne
<1>8. QED
  BY <1>5, <1>7, SameTimes DEF s

\* No step changes the query or its table.
LEMMA InputStays == Spec => [](input \in Inputs)
<1>1. Init => input \in Inputs
  BY DEF Init
<1>2. input \in Inputs /\ [Next]_vars => (input \in Inputs)'
  <2>1. [Next]_vars => UNCHANGED input
    BY DEF Next, vars, TaskStep, Collect, PartialAggregation, Dropped, LoopStep, Begin, LoopHead,
           Join, Ship, Receive, Close, Cancel, Returned
  <2>2. QED
    BY <2>1
<1>3. QED
  BY <1>1, <1>2, PTL DEF Spec

\* A remote aggregate returns the rows of the native one, for every table and
\* wherever the hash sends its groups (final_worker_plan, repartition,
\* execute_sql_remote).
THEOREM RemoteAggregateIsNative == Spec => []RemoteAggregateMatches
<1>1. input \in Inputs => RemoteAggregateMatches
  <2>1. SUFFICES ASSUME input \in Inputs, NEW hash \in Hashes
                 PROVE  SameRows(RemoteAggregate(input.table, input.grouped, hash), Native(input))
    BY DEF RemoteAggregateMatches
  <2>2. /\ input.table \in Seq(Seq(Row)) /\ Len(input.table) > 0
        /\ input.grouped \in BOOLEAN
    BY <2>1, InputAssumption DEF Row
  <2>3. PICK t \in Seq(Seq(Row)) : t = input.table
    BY <2>2
  <2>4. Hashing(t, hash, Len(t))
    <3>1. Len(t) \in Nat \ {0}
      BY <2>2, <2>3
    <3>2. hash \in [Keys(FlattenSeq(t)) -> 0 .. Len(t) - 1]
      BY <2>3 DEF Hashes, Concat
    <3>3. 0 .. Len(t) - 1 \in SUBSET Nat
      BY <3>1
    <3>4. QED
      BY <3>1, <3>2, <3>3 DEF Hashing
  <2>5. CASE input.grouped = TRUE
    <3>1. SameRows(RemoteAggregate(t, TRUE, hash), GroupBy(FlattenSeq(t)))
      BY <2>4, GroupedRemote
    <3>2. QED
      BY <2>3, <2>5, <3>1 DEF Native, Concat
  <2>6. CASE input.grouped = FALSE
    <3>1. SameRows(RemoteAggregate(t, FALSE, hash), Aggregate(FlattenSeq(t)))
      BY UngroupedRemote
    <3>2. QED
      BY <2>3, <2>6, <3>1 DEF Native, Concat
  <2>7. QED
    BY <2>2, <2>5, <2>6
<1>2. QED
  BY <1>1, InputStays, PTL

-----------------------------------------------------------------------------
(* Joins.                                                                  *)

\* What a row of the left input gives.
ProbeOf(right, x, outer) ==
  IF Key(x) # Null /\ Key(x) \in Keys(right)
  THEN [n \in DOMAIN RowsOf(right, Key(x)) |-> x \o RowsOf(right, Key(x))[n]]
  ELSE IF outer THEN <<x \o <<Null, Null>>>> ELSE << >>

\* What rows may be joined to.
JoinedTo(x) == {x \o y : y \in Row}
JoinRow == UNION {JoinedTo(x) : x \in Row}

\* Joined rows, padded ones included.
LEMMA JoinedHas ==
  ASSUME NEW x \in Row, NEW y \in Row
  PROVE  x \o y \in JoinRow /\ x \o <<Null, Null>> \in JoinRow
<1>1. \A z \in Row : x \o z \in JoinedTo(x)
  BY Zenon DEF JoinedTo
<1>2. \A z \in JoinedTo(x) : z \in JoinRow
  BY Zenon DEF JoinRow
<1>3. <<Null, Null>> \in Row
  BY DEF Null, Row
<1>4. QED
  BY <1>1, <1>2, <1>3, Zenon

\* What the rows of the left input give.
Probes(left, right, outer) == [n \in DOMAIN left |-> ProbeOf(right, left[n], outer)]

\* hash_join is its left rows' matches, one after the other.
LEMMA JoinIsProbes ==
  ASSUME NEW left, NEW right, NEW outer
  PROVE  HashJoin(left, right, outer) = FlattenSeq(Probes(left, right, outer))
<1>1. DOMAIN Build(right) = Keys(right) \ {Null}
  BY DEF Build
<1>2. \A k \in Keys(right) \ {Null} : Build(right)[k] = RowsOf(right, k)
  BY DEF Build
<1>3. \A x : (IF Key(x) # Null /\ Key(x) \in DOMAIN Build(right)
              THEN [n \in DOMAIN Build(right)[Key(x)] |-> x \o Build(right)[Key(x)][n]]
              ELSE IF outer THEN <<x \o <<Null, Null>>>> ELSE << >>)
             = ProbeOf(right, x, outer)
  <2>1. SUFFICES ASSUME NEW x
                 PROVE  (IF Key(x) # Null /\ Key(x) \in DOMAIN Build(right)
                         THEN [n \in DOMAIN Build(right)[Key(x)] |-> x \o Build(right)[Key(x)][n]]
                         ELSE IF outer THEN <<x \o <<Null, Null>>>> ELSE << >>)
                        = ProbeOf(right, x, outer)
    OBVIOUS
  <2>2. CASE Key(x) # Null /\ Key(x) \in Keys(right)
    BY <1>1, <1>2, <2>2 DEF ProbeOf
  <2>3. CASE ~(Key(x) # Null /\ Key(x) \in Keys(right))
    BY <1>1, <2>3 DEF ProbeOf
  <2>4. QED
    BY <2>2, <2>3
<1>4. HashJoin(left, right, outer) = FlattenSeq([m \in DOMAIN left |->
         IF Key(left[m]) # Null /\ Key(left[m]) \in DOMAIN Build(right)
         THEN [n \in DOMAIN Build(right)[Key(left[m])] |->
                 left[m] \o Build(right)[Key(left[m])][n]]
         ELSE IF outer THEN <<left[m] \o <<Null, Null>>>> ELSE << >>])
  BY DEF HashJoin, Concat
<1>5. QED
  BY <1>3, <1>4 DEF Probes

\* Right rows that make row with x.
Match(row, x) == [y \in Row |-> IF x \o y = row THEN 1 ELSE 0]

\* How often a left row gives a joined row: once for each right row of its key that
\* makes it, and once with NULLs if it has none and is preserved.
LEMMA ProbeTimes ==
  ASSUME NEW right \in Seq(Row), NEW x \in Row, NEW outer \in BOOLEAN, NEW row
  PROVE  /\ ProbeOf(right, x, outer) \in Seq(JoinRow)
         /\ Times(row, ProbeOf(right, x, outer)) =
              IF Key(x) # Null /\ Key(x) \in Keys(right)
              THEN Total(Only(Match(row, x), {Key(x)}), right)
              ELSE IF outer /\ x \o <<Null, Null>> = row THEN 1 ELSE 0
<1> DEFINE k == Key(x)
           s == ProbeOf(right, x, outer)
<1>1. CASE k # Null /\ k \in Keys(right)
  <2> DEFINE q == RowsOf(right, k)
             M == Match(row, x)
  <2>1. q \in Seq(Row)
    BY GroupTuple
  <2>2. s = [n \in DOMAIN q |-> x \o q[n]]
    BY <1>1 DEF ProbeOf
  <2>3. M \in [Row -> Nat] /\ \A y \in Row : M[y] = IF x \o y = row THEN 1 ELSE 0
    BY DEF Match
  <2>4. Total(M, q) = Total(Only(M, {k}), right)
    <3> HIDE DEF M
    <3> QED BY <2>3, FilterMeasures DEF RowsOf
  <2> HIDE DEF q, s, M
  <2>5. DOMAIN q = 1 .. Len(q) /\ Len(q) \in Nat /\ \A n \in DOMAIN q : q[n] \in Row
    BY <2>1
  <2>6. \A n \in DOMAIN q : x \o q[n] \in JoinRow
    BY <2>5, JoinedHas, Zenon
  <2>7. DOMAIN s = DOMAIN q /\ \A n \in DOMAIN q : s[n] = x \o q[n]
    BY <2>2
  <2>8. s \in Seq(JoinRow)
    <3>1. s = [n \in 1 .. Len(q) |-> s[n]]
      BY <2>2, <2>5
    <3>2. ASSUME NEW n \in 1 .. Len(q)  PROVE s[n] \in JoinRow
      <4>1. n \in DOMAIN q
        BY <2>5, <3>2
      <4>2. s[n] = x \o q[n] /\ x \o q[n] \in JoinRow
        BY <2>6, <2>7, <4>1, Zenon
      <4>3. QED
        BY <4>2, Zenon
    <3>3. QED
      BY <2>5, <3>1, <3>2, SeqOfMap
  <2>9. Times(row, s) = Total(Is(row, JoinRow), s)
    BY <2>8, TimesIs
  <2>10. Along(Is(row, JoinRow), s) = Along(M, q)
    <3>1. \A n \in DOMAIN q : Is(row, JoinRow)[s[n]] = M[q[n]]
      BY <2>3, <2>5, <2>6, <2>7 DEF Is
    <3>2. QED
      BY <2>7, <3>1 DEF Along
  <2>11. Total(Is(row, JoinRow), s) = Total(M, q)
    BY <2>7, <2>10 DEF Total
  <2>12. QED
    BY <1>1, <2>4, <2>8, <2>9, <2>11 DEF s, M
<1>2. CASE ~(k # Null /\ k \in Keys(right)) /\ outer
  <2> DEFINE y == x \o <<Null, Null>>
  <2>1. s = <<y>>
    BY <1>2 DEF ProbeOf
  <2>2. y \in JoinRow
    BY JoinedHas, Zenon
  <2> HIDE DEF y, s
  <2>3. s \in Seq(JoinRow) /\ DOMAIN s = {1} /\ s[1] = y
    BY <2>1, <2>2
  <2>4. {n \in DOMAIN s : s[n] = row} = IF y = row THEN {1} ELSE {}
    BY <2>3
  <2>5. Times(row, s) = IF y = row THEN 1 ELSE 0
    BY <2>4, FS_Singleton, FS_EmptySet DEF Times
  <2>6. QED
    BY <1>2, <2>3, <2>5 DEF s, y
<1>3. CASE ~(k # Null /\ k \in Keys(right)) /\ ~outer
  <2>1. s = << >>
    BY <1>3 DEF ProbeOf
  <2> HIDE DEF s
  <2>2. s \in Seq(JoinRow) /\ {n \in DOMAIN s : s[n] = row} = {}
    BY <2>1
  <2>3. Times(row, s) = 0
    BY <2>2, FS_EmptySet DEF Times
  <2>4. QED
    BY <1>3, <2>2, <2>3 DEF s
<1>4. QED
  BY <1>1, <1>2, <1>3

\* How often row comes from each left row.
Weight(right, outer, row) == [x \in Row |-> Times(row, ProbeOf(right, x, outer))]

\* How often a row is in a join: the sum, over the left rows, of how often each
\* gives it.
LEMMA JoinTimes ==
  ASSUME NEW left \in Seq(Row), NEW right \in Seq(Row), NEW outer \in BOOLEAN, NEW row
  PROVE  /\ Weight(right, outer, row) \in [Row -> Nat]
         /\ HashJoin(left, right, outer) \in Seq(JoinRow)
         /\ Times(row, HashJoin(left, right, outer)) = Total(Weight(right, outer, row), left)
<1> DEFINE ps == Probes(left, right, outer)
           W == Weight(right, outer, row)
           V == Is(row, JoinRow)
<1>1. DOMAIN left = 1 .. Len(left) /\ Len(left) \in Nat /\ \A n \in DOMAIN left : left[n] \in Row
  OBVIOUS
<1>2. \A x \in Row : ProbeOf(right, x, outer) \in Seq(JoinRow)
  BY ProbeTimes
<1>3. \A n \in DOMAIN left : ps[n] = ProbeOf(right, left[n], outer) /\ ps[n] \in Seq(JoinRow)
  BY <1>1, <1>2 DEF Probes
<1>4. ps = [n \in 1 .. Len(left) |-> ps[n]] /\ DOMAIN ps = DOMAIN left
  BY <1>1 DEF Probes
<1> HIDE DEF ps
<1>5. ps \in Seq(Seq(JoinRow))
  <2>1. \A n \in 1 .. Len(left) : ps[n] \in Seq(JoinRow)
    BY <1>1, <1>3
  <2>2. QED
    BY <1>1, <1>4, <2>1, SeqOfMap
<1>6. V \in [JoinRow -> Nat]
  BY DEF Is
<1>7. \A q \in Seq(JoinRow) : Times(row, q) = Total(V, q) /\ Total(V, q) \in Nat
  <2>1. \A q \in Seq(JoinRow) : Times(row, q) = Total(V, q)
    BY TimesIs
  <2> HIDE DEF V
  <2>2. \A q \in Seq(JoinRow) : Total(V, q) \in Nat
    BY <1>6, AlongIs
  <2>3. QED
    BY <2>1, <2>2
<1>8. W \in [Row -> Nat] /\ \A x \in Row : W[x] = Times(row, ProbeOf(right, x, outer))
  <2>1. \A x \in Row : Times(row, ProbeOf(right, x, outer)) \in Nat
    BY <1>2, <1>7
  <2>2. QED
    BY <2>1 DEF Weight
<1>9. HashJoin(left, right, outer) = FlattenSeq(ps)
  BY JoinIsProbes DEF ps
<1> HIDE DEF V, W
<1>10. FlattenSeq(ps) \in Seq(JoinRow) /\ Total(V, FlattenSeq(ps)) = SumOf(Totals(V, ps), DOMAIN ps)
  BY <1>5, <1>6, TotalOfFlatten
<1>11. Totals(V, ps) = Along(W, left)
  <2>1. \A n \in DOMAIN left : Total(V, ps[n]) = W[left[n]]
    BY <1>1, <1>3, <1>7, <1>8
  <2>2. QED
    BY <1>4, <2>1 DEF Totals, Along
<1>12. Total(V, FlattenSeq(ps)) = Total(W, left)
  BY <1>4, <1>10, <1>11 DEF Total
<1>13. QED
  BY <1>7, <1>8, <1>9, <1>10, <1>12 DEF W

\* Routing keeps all rows of a key that belongs to the destination.
Belongs(k, outputs, N, hash, n) == k \in Keys(FlattenSeq(outputs)) => hash[k] % N = n - 1

\* The rows of a key weigh at its destination what they weigh in all outputs.
LEMMA RoutedSame ==
  ASSUME NEW X, NEW W \in [X -> Nat], NEW outputs \in Seq(Seq(X)), NEW N \in Nat,
         NEW n \in 1 .. N, NEW hash, NEW k, Belongs(k, outputs, N, hash, n)
  PROVE  Total(Only(W, {k}), Routed(outputs, N, hash)[n])
         = Total(Only(W, {k}), FlattenSeq(outputs))
<1> DEFINE b == Blocks(outputs, N, hash, n)
           r == Routed(outputs, N, hash)[n]
           V == Only(W, {k})
<1>1. b \in Seq(Seq(X)) /\ DOMAIN b = DOMAIN outputs /\ r = FlattenSeq(b)
  BY BlocksAre
<1>2. \A p \in DOMAIN outputs :
        b[p] = FilterBatch(outputs[p], Sent(outputs[p], N, hash, n)) /\ outputs[p] \in Seq(X)
  BY DEF Blocks
<1>3. V \in [X -> Nat]
  BY OnlyIs
<1>4. \A p \in DOMAIN outputs : KeepsKey(outputs[p], Sent(outputs[p], N, hash, n), k)
  <2>1. \A p \in DOMAIN outputs : k \in Keys(outputs[p]) => k \in Keys(FlattenSeq(outputs))
    BY KeysOfFlatten
  <2>2. QED
    BY <2>1 DEF Belongs, KeepsKey, Sent
<1>5. \A p \in DOMAIN outputs : Total(V, b[p]) = Total(V, outputs[p])
  <2>1. ASSUME NEW p \in DOMAIN outputs  PROVE Total(V, b[p]) = Total(V, outputs[p])
    <3> DEFINE keys == Sent(outputs[p], N, hash, n)
               s == outputs[p]
    <3>1. s \in Seq(X) /\ KeepsKey(s, keys, k) /\ b[p] = FilterBatch(s, keys)
      BY <1>2, <1>4
    <3> HIDE DEF keys, s
    <3>2. SameMeasures(Only(W, {k}), FilterBatch(s, keys), s)
      BY <3>1, FilterOwn
    <3>3. QED
      BY <3>1, <3>2 DEF SameMeasures, s
  <2>2. QED
    BY <2>1
<1> HIDE DEF b, r, V
<1>6. Totals(V, b) = Totals(V, outputs)
  BY <1>1, <1>5 DEF Totals
<1>7. Total(V, FlattenSeq(b)) = SumOf(Totals(V, b), DOMAIN b)
  BY <1>1, <1>3, TotalOfFlatten
<1>8. Total(V, FlattenSeq(outputs)) = SumOf(Totals(V, outputs), DOMAIN outputs)
  BY <1>3, TotalOfFlatten
<1>9. QED
  BY <1>1, <1>6, <1>7, <1>8 DEF V, r

\* A left row of a destination finds there the partners it has in the whole right
\* input.
LEMMA WeightRouted ==
  ASSUME NEW right \in Seq(Seq(Row)), NEW outer \in BOOLEAN, NEW row, NEW x \in Row,
         NEW N \in Nat, NEW n \in 1 .. N, NEW hash, hash[Key(x)] % N = n - 1
  PROVE  Weight(Routed(right, N, hash)[n], outer, row)[x]
         = Weight(FlattenSeq(right), outer, row)[x]
<1> DEFINE r == Routed(right, N, hash)[n]
           f == FlattenSeq(right)
           k == Key(x)
           M == Match(row, x)
<1>1. r \in Seq(Row)
  BY BlocksAre
<1>2. f \in Seq(Row)
  BY ValIs, TotalOfFlatten
<1>3. k \in Keys(r) <=> k \in Keys(f)
  <2>1. Keys(r) = Sent(f, N, hash, n)
    BY RoutedKeys
  <2> HIDE DEF r, f
  <2>2. QED
    BY <2>1 DEF Sent
<1>4. Total(Only(M, {k}), r) = Total(Only(M, {k}), f)
  <2>1. M \in [Row -> Nat]
    BY DEF Match
  <2>2. Belongs(k, right, N, hash, n)
    BY DEF Belongs
  <2> HIDE DEF M, k
  <2>3. QED
    BY <2>1, <2>2, RoutedSame
<1> HIDE DEF r, f
<1>5. Times(row, ProbeOf(r, x, outer)) = Times(row, ProbeOf(f, x, outer))
  <2>1. /\ Times(row, ProbeOf(r, x, outer)) =
             IF Key(x) # Null /\ Key(x) \in Keys(r)
             THEN Total(Only(Match(row, x), {Key(x)}), r)
             ELSE IF outer /\ x \o <<Null, Null>> = row THEN 1 ELSE 0
        /\ Times(row, ProbeOf(f, x, outer)) =
             IF Key(x) # Null /\ Key(x) \in Keys(f)
             THEN Total(Only(Match(row, x), {Key(x)}), f)
             ELSE IF outer /\ x \o <<Null, Null>> = row THEN 1 ELSE 0
    BY <1>1, <1>2, ProbeTimes
  <2>2. CASE Key(x) # Null /\ Key(x) \in Keys(f)
    <3>1. /\ Times(row, ProbeOf(r, x, outer)) = Total(Only(M, {k}), r)
          /\ Times(row, ProbeOf(f, x, outer)) = Total(Only(M, {k}), f)
      BY <1>3, <2>1, <2>2
    <3>2. QED
      BY <1>4, <3>1, Zenon
  <2>3. CASE ~(Key(x) # Null /\ Key(x) \in Keys(f))
    <3> DEFINE e == IF outer /\ x \o <<Null, Null>> = row THEN 1 ELSE 0
    <3>1. Times(row, ProbeOf(r, x, outer)) = e /\ Times(row, ProbeOf(f, x, outer)) = e
      <4>1. /\ Times(row, ProbeOf(r, x, outer)) =
                 IF Key(x) # Null /\ Key(x) \in Keys(r)
                 THEN Total(Only(Match(row, x), {Key(x)}), r) ELSE e
            /\ Times(row, ProbeOf(f, x, outer)) =
                 IF Key(x) # Null /\ Key(x) \in Keys(f)
                 THEN Total(Only(Match(row, x), {Key(x)}), f) ELSE e
        BY <2>1
      <4> HIDE DEF e
      <4>2. QED
        BY <1>3, <2>3, <4>1
    <3> HIDE DEF e
    <3>2. QED
      BY <3>1
  <2>4. QED
    BY <2>2, <2>3
<1>6. /\ Weight(r, outer, row)[x] = Times(row, ProbeOf(r, x, outer))
      /\ Weight(f, outer, row)[x] = Times(row, ProbeOf(f, x, outer))
  BY DEF Weight
<1>7. QED
  BY <1>5, <1>6 DEF r, f

\* The destination of a key.
LEMMA OneDestination ==
  ASSUME NEW N \in Nat \ {0}, NEW h \in Nat
  PROVE  /\ (h % N) + 1 \in 1 .. N
         /\ \A n \in 1 .. N : h % N = n - 1 <=> n = (h % N) + 1
<1>1. h % N \in 0 .. N - 1
  OBVIOUS
<1> DEFINE m == h % N
<1> HIDE DEF m
<1>2. m \in 0 .. N - 1
  BY <1>1 DEF m
<1>3. m + 1 \in 1 .. N /\ \A n \in 1 .. N : m = n - 1 <=> n = m + 1
  BY <1>2
<1>4. QED
  BY <1>3 DEF m

\* What the rows of a producer weigh, split over the destinations.
Split(W, s, N, hash) == [n \in 1 .. N |-> Total(Only(W, Sent(s, N, hash, n)), s)]

\* Rows split over the destinations weigh what they weigh together, as every key
\* has one destination.
LEMMA SplitTotal ==
  ASSUME NEW X, NEW W \in [X -> Nat], NEW s \in Seq(X), NEW N \in Nat \ {0}, NEW hash,
         \A k \in Keys(s) : hash[k] \in Nat
  PROVE  SumOf(Split(W, s, N, hash), 1 .. N) = Total(W, s)
<1> DEFINE D == DOMAIN s
           I == 1 .. N
           O(n) == Only(W, Sent(s, N, hash, n))
           M == [n \in I |-> Along(O(n), s)]
           col(i) == [n \in I |-> M[n][i]]
<1>1. /\ IsFiniteSet(D) /\ Along(W, s) \in [D -> Nat]
      /\ \A i \in D : Along(W, s)[i] = W[s[i]] /\ s[i] \in X /\ W[s[i]] \in Nat
  BY AlongIs
<1>2. IsFiniteSet(I)
  BY FS_Interval
<1>3. \A n \in I : /\ O(n) \in [X -> Nat]
                   /\ \A z \in X : O(n)[z] = IF Key(z) \in Sent(s, N, hash, n) THEN W[z] ELSE 0
  <2>1. \A keys : /\ Only(W, keys) \in [X -> Nat]
                  /\ \A z \in X : Only(W, keys)[z] = IF Key(z) \in keys THEN W[z] ELSE 0
    BY DEF Only
  <2>2. QED
    BY <2>1
<1>4. \A i \in D : Key(s[i]) \in Keys(s) /\ hash[Key(s[i])] \in Nat
  BY KeysFinite
<1> HIDE DEF O, I
<1>5. \A n \in I : /\ Along(O(n), s) \in [D -> Nat]
                   /\ \A i \in D : Along(O(n), s)[i] = O(n)[s[i]]
  BY <1>3, AlongIs
<1>6. M \in [I -> [D -> Nat]] /\ \A n \in I : M[n] = Along(O(n), s)
  BY <1>5
<1>7. \A n \in I, i \in D :
        M[n][i] = IF (hash[Key(s[i])] % N) = n - 1 THEN W[s[i]] ELSE 0
  <2>1. \A n \in I, i \in D : M[n][i] = O(n)[s[i]]
    BY <1>5, <1>6
  <2>2. \A n \in I, i \in D :
          O(n)[s[i]] = IF Key(s[i]) \in Sent(s, N, hash, n) THEN W[s[i]] ELSE 0
    BY <1>1, <1>3
  <2>3. \A n \in I, i \in D : Key(s[i]) \in Sent(s, N, hash, n) <=> (hash[Key(s[i])] % N) = n - 1
    BY <1>4 DEF Sent
  <2>4. QED
    BY <2>1, <2>2, <2>3
<1> HIDE DEF M
<1>8. \A i \in D : SumOf(col(i), I) = W[s[i]]
  <2>1. SUFFICES ASSUME NEW i \in D  PROVE SumOf(col(i), I) = W[s[i]]
    OBVIOUS
  <2> DEFINE h == hash[Key(s[i])]
             c == col(i)
             a == (h % N) + 1
  <2>2. h \in Nat
    BY <1>4
  <2>3. c \in [I -> Nat] /\ \A n \in I : c[n] = IF h % N = n - 1 THEN W[s[i]] ELSE 0
    BY <1>6, <1>7
  <2> HIDE DEF h, c
  <2>4. a \in I /\ \A n \in I : h % N = n - 1 <=> n = a
    BY <2>2, OneDestination DEF I
  <2> HIDE DEF a
  <2>5. c[a] = W[s[i]] /\ \A n \in I \ {a} : c[n] = 0
    BY <2>3, <2>4
  <2>6. SumOf(c, I) = c[a]
    BY <1>2, <2>3, <2>4, <2>5, SumOfFew
  <2>7. QED
    BY <2>5, <2>6 DEF c
<1>9. SumOf([n \in I |-> SumOf(M[n], D)], I) = SumOf([i \in D |-> SumOf(col(i), I)], D)
  BY <1>1, <1>2, <1>6, SumOfSums
<1>10. [i \in D |-> SumOf(col(i), I)] = Along(W, s)
  BY <1>8 DEF Along
<1>11. [n \in I |-> SumOf(M[n], D)] = Split(W, s, N, hash)
  <2>1. \A n \in I : SumOf(M[n], D) = Total(Only(W, Sent(s, N, hash, n)), s)
    BY <1>6 DEF Total, O
  <2>2. QED
    BY <2>1 DEF Split, I
<1>12. QED
  BY <1>9, <1>10, <1>11 DEF Total, I

\* What each destination's rows weigh.
RoutedTotals(W, outputs, N, hash) ==
  [n \in 1 .. N |-> Total(W, Routed(outputs, N, hash)[n])]

\* Every key of the outputs has a hash.
HashesAll(outputs, hash) == \A k \in Keys(FlattenSeq(outputs)) : hash[k] \in Nat

\* What all destinations hold weighs what the producers put out: routing neither
\* loses nor repeats a row.
LEMMA RoutedTotal ==
  ASSUME NEW X, NEW W \in [X -> Nat], NEW outputs \in Seq(Seq(X)), NEW N \in Nat \ {0},
         NEW hash, HashesAll(outputs, hash)
  PROVE  SumOf(RoutedTotals(W, outputs, N, hash), 1 .. N) = Total(W, FlattenSeq(outputs))
<1> DEFINE D == DOMAIN outputs
           I == 1 .. N
           M == [n \in I |-> Totals(W, Blocks(outputs, N, hash, n))]
           col(p) == [n \in I |-> M[n][p]]
<1>1. /\ IsFiniteSet(D) /\ \A p \in D : outputs[p] \in Seq(X) /\ Total(W, outputs[p]) \in Nat
  <2>1. D = 1 .. Len(outputs) /\ Len(outputs) \in Nat /\ \A p \in D : outputs[p] \in Seq(X)
    OBVIOUS
  <2>2. IsFiniteSet(1 .. Len(outputs))
    BY <2>1, FS_Interval
  <2>3. \A p \in D : Total(W, outputs[p]) \in Nat
    BY <2>1, AlongIs
  <2>4. QED
    BY <2>1, <2>2, <2>3
<1>2. IsFiniteSet(I) /\ N \in Nat
  BY FS_Interval
<1>3. ASSUME NEW n \in I
      PROVE  /\ Total(W, Routed(outputs, N, hash)[n])
                  = SumOf(Totals(W, Blocks(outputs, N, hash, n)), D)
             /\ Totals(W, Blocks(outputs, N, hash, n)) \in [D -> Nat]
             /\ \A p \in D : Totals(W, Blocks(outputs, N, hash, n))[p]
                               = Split(W, outputs[p], N, hash)[n]
  <2> DEFINE b == Blocks(outputs, N, hash, n)
             r == Routed(outputs, N, hash)[n]
  <2>1. b \in Seq(Seq(X)) /\ DOMAIN b = D /\ r = FlattenSeq(b)
    BY <1>2, <1>3, BlocksAre
  <2>2. \A p \in D : b[p] = FilterBatch(outputs[p], Sent(outputs[p], N, hash, n))
    BY DEF Blocks
  <2>3. \A p \in D : Total(W, b[p]) = Split(W, outputs[p], N, hash)[n]
    <3>1. \A p \in D : Total(W, b[p]) = Total(Only(W, Sent(outputs[p], N, hash, n)), outputs[p])
      BY <1>1, <2>2, FilterMeasures
    <3>2. QED
      BY <1>3, <3>1 DEF Split
  <2> HIDE DEF b, r
  <2>4. \A p \in D : b[p] \in Seq(X) /\ Total(W, b[p]) \in Nat
    <3>1. \A p \in D : b[p] \in Seq(X)
      BY <2>1
    <3>2. QED
      BY <3>1, AlongIs
  <2>5. Total(W, FlattenSeq(b)) = SumOf(Totals(W, b), DOMAIN b)
    BY <2>1, TotalOfFlatten
  <2>6. Totals(W, b) \in [D -> Nat] /\ \A p \in D : Totals(W, b)[p] = Total(W, b[p])
    BY <2>1, <2>4 DEF Totals
  <2>7. QED
    BY <2>1, <2>3, <2>5, <2>6 DEF b, r
<1>4. /\ M \in [I -> [D -> Nat]]
      /\ \A n \in I : /\ SumOf(M[n], D) = Total(W, Routed(outputs, N, hash)[n])
                      /\ \A p \in D : M[n][p] = Split(W, outputs[p], N, hash)[n]
  BY <1>3
<1> HIDE DEF M
<1>5. \A p \in D : col(p) = Split(W, outputs[p], N, hash)
  BY <1>4 DEF Split
<1>6. \A p \in D : SumOf(col(p), I) = Total(W, outputs[p])
  <2>1. SUFFICES ASSUME NEW p \in D
                 PROVE  SumOf(Split(W, outputs[p], N, hash), 1 .. N) = Total(W, outputs[p])
    BY <1>5
  <2>2. PICK s \in Seq(X) : s = outputs[p]
    BY <1>1
  <2>3. \A k \in Keys(s) : hash[k] \in Nat
    <3>1. \A k \in Keys(s) : k \in Keys(FlattenSeq(outputs))
      BY <2>2, KeysOfFlatten
    <3>2. QED
      BY <3>1 DEF HashesAll
  <2>4. SumOf(Split(W, s, N, hash), 1 .. N) = Total(W, s)
    BY <2>3, SplitTotal
  <2>5. QED
    BY <2>2, <2>4
<1>7. SumOf([n \in I |-> SumOf(M[n], D)], I) = SumOf([p \in D |-> SumOf(col(p), I)], D)
  BY <1>1, <1>2, <1>4, SumOfSums
<1>8. [n \in I |-> SumOf(M[n], D)] = RoutedTotals(W, outputs, N, hash)
  BY <1>4 DEF RoutedTotals
<1>9. [p \in D |-> SumOf(col(p), I)] = Totals(W, outputs)
  BY <1>6 DEF Totals
<1>10. Total(W, FlattenSeq(outputs)) = SumOf(Totals(W, outputs), D)
  BY TotalOfFlatten
<1>11. QED
  BY <1>7, <1>8, <1>9, <1>10

\* What the join of destination n returns.
JoinedAt(left, right, outer, hash, N) ==
  [n \in 1 .. N |-> HashJoin(Routed(left, N, hash)[n], Routed(right, N, hash)[n], outer)]

\* A remote join has the rows of the native one: equal keys meet at one
\* destination, and a row without partner or with a NULL key is preserved where it
\* is sent.
LEMMA JoinRemote ==
  ASSUME NEW left \in Seq(Seq(Row)), NEW right \in Seq(Seq(Row)), NEW outer \in BOOLEAN,
         NEW hash, HashesAll(left, hash), Len(left) > 0
  PROVE  SameRows(RemoteJoin(left, right, outer, hash),
                  HashJoin(FlattenSeq(left), FlattenSeq(right), outer))
<1> DEFINE count == JoinPartitions(left, right)
<1>1. count \in Nat \ {0}
  BY DEF JoinPartitions
<1> HIDE DEF count
<1>2. PICK N \in Nat \ {0} : N = count
  BY <1>1
<1> DEFINE I == 1 .. N
           js == JoinedAt(left, right, outer, hash, N)
           f == FlattenSeq(right)
           g == FlattenSeq(left)
<1>3. RemoteJoin(left, right, outer, hash) = FlattenSeq(js)
  BY <1>2 DEF RemoteJoin, JoinedAt, Concat, count
<1>4. f \in Seq(Row) /\ g \in Seq(Row)
  BY ValIs, TotalOfFlatten
<1>5. \A n \in I : Routed(left, N, hash)[n] \in Seq(Row) /\ Routed(right, N, hash)[n] \in Seq(Row)
  BY BlocksAre
<1>6. /\ DOMAIN js = I /\ js = [n \in 1 .. N |-> js[n]]
      /\ \A n \in I : js[n] = HashJoin(Routed(left, N, hash)[n], Routed(right, N, hash)[n], outer)
  BY DEF JoinedAt
<1>7. \A n \in I : js[n] \in Seq(JoinRow)
  <2>1. \A a, b \in Seq(Row) : /\ Weight(b, outer, Null) \in [Row -> Nat]
                                /\ HashJoin(a, b, outer) \in Seq(JoinRow)
    BY JoinTimes
  <2> HIDE DEF js
  <2>2. ASSUME NEW n \in I  PROVE js[n] \in Seq(JoinRow)
    <3>1. PICK l \in Seq(Row), r \in Seq(Row) :
            l = Routed(left, N, hash)[n] /\ r = Routed(right, N, hash)[n]
      BY <1>5, <2>2
    <3>2. js[n] = HashJoin(l, r, outer)
      BY <1>6, <2>2, <3>1
    <3>3. QED
      BY <2>1, <3>2
  <2>3. QED
    BY <2>2
<1> HIDE DEF js
<1>8. js \in Seq(Seq(JoinRow))
  BY <1>6, <1>7, SeqOfMap
<1>9. SUFFICES ASSUME NEW row
               PROVE  Times(row, FlattenSeq(js)) = Times(row, HashJoin(g, f, outer))
  BY <1>3, SameTimes
<1> DEFINE V == Is(row, JoinRow)
           W == Weight(f, outer, row)
<1>10. V \in [JoinRow -> Nat]
  BY DEF Is
<1>11. W \in [Row -> Nat] /\ Times(row, HashJoin(g, f, outer)) = Total(W, g)
  <2> HIDE DEF f, g
  <2> QED BY <1>4, JoinTimes
<1>12. \A n \in I : Total(V, js[n]) = Total(W, Routed(left, N, hash)[n])
  <2>1. SUFFICES ASSUME NEW n \in I
                 PROVE  Total(V, js[n]) = Total(W, Routed(left, N, hash)[n])
    OBVIOUS
  <2> DEFINE l == Routed(left, N, hash)[n]
             r == Routed(right, N, hash)[n]
             U == Weight(r, outer, row)
  <2>2. l \in Seq(Row) /\ r \in Seq(Row) /\ js[n] = HashJoin(l, r, outer) /\ js[n] \in Seq(JoinRow)
    BY <1>5, <1>6, <1>7
  <2>3. Keys(l) = Sent(g, N, hash, n)
    BY RoutedKeys
  <2>4. \A x \in Row : hash[Key(x)] % N = n - 1 => U[x] = W[x]
    BY WeightRouted
  <2> HIDE DEF l, r, U, V, W, g
  <2>5. \A i \in DOMAIN l : U[l[i]] = W[l[i]]
    <3>1. \A i \in DOMAIN l : l[i] \in Row /\ Key(l[i]) \in Keys(l)
      BY <2>2, KeysFinite
    <3>2. \A i \in DOMAIN l : hash[Key(l[i])] % N = n - 1
      BY <2>3, <3>1 DEF Sent
    <3>3. QED
      BY <2>4, <3>1, <3>2
  <2>6. Total(U, l) = Total(W, l)
    BY <2>5, TotalOfSame
  <2>7. Times(row, js[n]) = Total(U, l)
    BY <2>2, JoinTimes DEF U
  <2>8. Times(row, js[n]) = Total(V, js[n])
    BY <2>2, TimesIs DEF V
  <2>9. QED
    BY <2>6, <2>7, <2>8 DEF l
<1>13. Times(row, FlattenSeq(js)) = SumOf(Totals(V, js), I)
  <2>1. FlattenSeq(js) \in Seq(JoinRow) /\ Total(V, FlattenSeq(js)) = SumOf(Totals(V, js), DOMAIN js)
    <3> HIDE DEF V
    <3> QED BY <1>8, <1>10, TotalOfFlatten
  <2>2. Times(row, FlattenSeq(js)) = Total(V, FlattenSeq(js))
    BY <2>1, TimesIs
  <2>3. QED
    BY <1>6, <2>1, <2>2
<1> HIDE DEF V, W, f
<1>14. Totals(V, js) = RoutedTotals(W, left, N, hash)
  BY <1>6, <1>12 DEF Totals, RoutedTotals
<1>15. SumOf(RoutedTotals(W, left, N, hash), I) = Total(W, g)
  BY <1>11, RoutedTotal
<1>16. QED
  BY <1>11, <1>13, <1>14, <1>15

\* A remote join, inner or left outer, returns the rows of the native one, each as
\* often, for every table and wherever the hash sends its keys (plan_remote_join,
\* repartition, hash_join).
THEOREM RemoteJoinIsNative == Spec => []RemoteJoinMatches
<1>1. input \in Inputs => RemoteJoinMatches
  <2>1. SUFFICES ASSUME input \in Inputs, NEW hash \in Hashes, NEW outer \in BOOLEAN
                 PROVE  SameRows(RemoteJoin(input.table, <<input.table[1]>>, outer, hash),
                                 HashJoin(Concat(input.table), Concat(<<input.table[1]>>), outer))
    BY DEF RemoteJoinMatches
  <2>2. input.table \in Seq(Seq(Row)) /\ Len(input.table) > 0
    BY <2>1, InputAssumption DEF Row
  <2>3. PICK t \in Seq(Seq(Row)) : t = input.table
    BY <2>2
  <2>4. PICK u \in Seq(Seq(Row)) : u = <<t[1]>>
    <3>1. PICK s \in Seq(Row) : s = t[1]
      BY <2>2, <2>3
    <3>2. <<s>> \in Seq(Seq(Row))
      OBVIOUS
    <3>3. QED
      BY <3>1, <3>2
  <2>5. HashesAll(t, hash)
    <3>1. Len(t) \in Nat \ {0}
      BY <2>2, <2>3
    <3>2. hash \in [Keys(FlattenSeq(t)) -> 0 .. Len(t) - 1]
      BY <2>3 DEF Hashes, Concat
    <3>3. QED
      BY <3>1, <3>2 DEF HashesAll
  <2>6. SameRows(RemoteJoin(t, u, outer, hash), HashJoin(FlattenSeq(t), FlattenSeq(u), outer))
    BY <2>2, <2>3, <2>5, JoinRemote
  <2>7. QED
    BY <2>3, <2>4, <2>6 DEF Concat
<1>2. QED
  BY <1>1, InputStays, PTL
=============================================================================
