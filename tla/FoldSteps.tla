------------------------------ MODULE FoldSteps ------------------------------
(***************************************************************************)
(* Induction.  First facts about orders that several proofs use: least and *)
(* greatest members of sets of naturals, what follows for recursive        *)
(* definitions, and how many entries an eviction removes.  Then induction  *)
(* along a fold.  What FoldLeft and FoldSet compute is defined by          *)
(* recursion, and a theorem about every operator they may be given would   *)
(* quantify over operators.  Here the operators are constants: a module of *)
(* proofs takes this one with INSTANCE ... WITH, once for each operator it *)
(* folds and each statement that it makes of it.                           *)
(***************************************************************************)
EXTENDS Integers, FiniteSetTheorems, TLAPS

CONSTANTS
  Op(_, _, _),   \* context, value so far, element -> the next value
  Inv(_, _, _),  \* context, elements folded so far, value -> BOOLEAN
  Weight(_, _)   \* context, member of a set -> what it counts for in a sum

----------------------------------------------------------------------------
(* Orders                                                                   *)

\* A set of naturals that is not empty has a least member.
LEMMA LeastMember ==
    ASSUME NEW T \in SUBSET Nat, T # {}
    PROVE  \E n \in T : \A m \in T : n <= m
<1> DEFINE Less == {x \in Nat \X Nat : x[1] < x[2]}
<1>1. IsWellFoundedOn(Less, Nat)
  BY NatLessThanWellFounded DEF OpToRel
<1>2. PICK n \in T : \A m \in T : <<m, n>> \notin Less
  <2> HIDE DEF Less
  <2> QED
    BY <1>1, WFMin
<1>3. ASSUME NEW m \in T
      PROVE  n <= m
  <2>1. <<m, n>> \notin Less /\ m \in Nat /\ n \in Nat
    BY <1>2
  <2>2. ~(m < n)
    BY <2>1
  <2> QED
    BY <2>1, <2>2
<1> QED
  BY <1>2, <1>3

\* Induction, for a property that is given as the set of those that have it.
LEMMA SetInduction ==
    ASSUME NEW S, 0 \in S, \A n \in Nat : n \in S => n + 1 \in S
    PROVE  Nat \subseteq S
<1> DEFINE T == Nat \ S
<1> SUFFICES ASSUME T # {}
             PROVE  FALSE
  OBVIOUS
<1>1. PICK n \in T : \A m \in T : n <= m
  BY LeastMember
<1>2. n # 0 /\ n \in Nat
  BY <1>1
<1>3. n - 1 \in Nat /\ n - 1 \notin T
  BY <1>1, <1>2
<1> QED
  BY <1>1, <1>2, <1>3

\* One that is bounded has a greatest member.
LEMMA GreatestMember ==
    ASSUME NEW T, NEW bound \in Nat, T \subseteq 1..bound, T # {}
    PROVE  \E n \in T : \A m \in T : m <= n
<1> DEFINE above == {k \in Nat : \A m \in T : m <= k}
<1>1. bound \in above
  OBVIOUS
<1>2. PICK k \in above : \A j \in above : k <= j
  BY <1>1, LeastMember
<1>3. PICK x \in T : TRUE
  OBVIOUS
<1>4. k \in Nat /\ x <= k /\ x \in 1..bound
  BY <1>2, <1>3
<1>5. k - 1 \in Nat /\ k - 1 \notin above
  BY <1>2, <1>4
<1>6. PICK m \in T : ~(m <= k - 1)
  BY <1>5
<1>7. m = k
  BY <1>2, <1>4, <1>6
<1> QED
  BY <1>2, <1>6, <1>7

(***************************************************************************)
(* In a finite set S that is ordered, where below[x] are the members before *)
(* x, how many are before a member tells which it is: each number less than *)
(* the set's size is that of exactly one.                                   *)
(***************************************************************************)
LEMMA RanksOnto ==
    ASSUME NEW S, IsFiniteSet(S), NEW below \in [S -> SUBSET S],
           \A x \in S : x \notin below[x],
           \A x, y \in S : x # y => x \in below[y] \/ y \in below[x],
           \A x, y \in S : y \in below[x] => below[y] \subseteq below[x]
    PROVE  /\ Cardinality(S) \in Nat
           /\ \A x \in S : Cardinality(below[x]) \in 0..(Cardinality(S) - 1)
           /\ \A x, y \in S : Cardinality(below[x]) = Cardinality(below[y]) => x = y
           /\ \A x, y \in S : y \in below[x] => Cardinality(below[y]) < Cardinality(below[x])
           /\ \A j \in 0..(Cardinality(S) - 1) : \E x \in S : Cardinality(below[x]) = j
<1> DEFINE n == Cardinality(S)
           rank == [x \in S |-> Cardinality(below[x])]
<1>1. n \in Nat
  BY FS_CardinalityType
<1>2. ASSUME NEW x \in S
      PROVE  IsFiniteSet(below[x]) /\ rank[x] \in 0..(n - 1)
  <2>1. below[x] \in SUBSET (S \ {x})
    OBVIOUS
  <2>2. IsFiniteSet(S \ {x}) /\ Cardinality(S \ {x}) = n - 1
    BY FS_RemoveElement
  <2>3. IsFiniteSet(below[x]) /\ Cardinality(below[x]) <= n - 1
    BY <2>1, <2>2, FS_Subset
  <2>4. Cardinality(below[x]) \in Nat
    BY <2>3, FS_CardinalityType
  <2> HIDE DEF n
  <2> QED
    BY <1>1, <2>3, <2>4
<1>3. ASSUME NEW x \in S, NEW y \in S, y \in below[x]
      PROVE  rank[y] < rank[x]
  <2>1. below[y] \in SUBSET below[x] /\ below[y] # below[x]
    BY <1>3
  <2>2. IsFiniteSet(below[x])
    BY <1>2
  <2>3. /\ Cardinality(below[y]) <= Cardinality(below[x])
        /\ Cardinality(below[y]) # Cardinality(below[x])
    BY <2>1, <2>2, FS_Subset
  <2>4. rank[x] = Cardinality(below[x]) /\ rank[y] = Cardinality(below[y])
    OBVIOUS
  <2>5. rank[x] \in Int /\ rank[y] \in Int
    BY <1>1, <1>2
  <2> HIDE DEF rank
  <2> QED
    BY <2>3, <2>4, <2>5
<1>4. \A x, y \in S : rank[x] = rank[y] => x = y
  <2> SUFFICES ASSUME NEW x \in S, NEW y \in S, x # y PROVE rank[x] # rank[y]
    OBVIOUS
  <2>1. rank[x] < rank[y] \/ rank[y] < rank[x]
    BY <1>3
  <2>2. rank[x] \in Int /\ rank[y] \in Int
    BY <1>1, <1>2
  <2> HIDE DEF rank
  <2> QED
    BY <2>1, <2>2
<1>5. rank \in Injection(S, 0..(n - 1))
  <2>1. rank \in [S -> 0..(n - 1)]
    BY <1>2
  <2> HIDE DEF rank, n
  <2> QED
    BY <1>4, <2>1 DEF Injection, IsInjective
<1>6. Cardinality(0..(n - 1)) = n /\ IsFiniteSet(0..(n - 1))
  <2> HIDE DEF n
  <2>1. 0 \in Int /\ n - 1 \in Int
    BY <1>1
  <2>2. /\ IsFiniteSet(0..(n - 1))
        /\ Cardinality(0..(n - 1)) = IF 0 > n - 1 THEN 0 ELSE (n - 1) - 0 + 1
    BY <2>1, FS_Interval
  <2> QED
    BY <1>1, <2>2
<1>7. rank \in Surjection(S, 0..(n - 1))
  BY <1>5, <1>6, FS_Injection
<1>8. \A j \in 0..(n - 1) : \E x \in S : rank[x] = j
  <2> HIDE DEF rank, n
  <2> QED
    BY <1>7 DEF Surjection
<1>9. /\ \A x \in S : rank[x] = Cardinality(below[x]) /\ rank[x] \in 0..(n - 1)
      /\ \A x, y \in S : y \in below[x] => rank[y] < rank[x]
  BY <1>2, <1>3
<1> HIDE DEF rank
<1>10. /\ n \in Nat
       /\ \A x \in S : Cardinality(below[x]) \in 0..(n - 1)
       /\ \A x, y \in S : Cardinality(below[x]) = Cardinality(below[y]) => x = y
       /\ \A x, y \in S : y \in below[x] => Cardinality(below[y]) < Cardinality(below[x])
       /\ \A j \in 0..(n - 1) : \E x \in S : Cardinality(below[x]) = j
  <2> HIDE DEF n
  <2> QED
    BY <1>1, <1>4, <1>8, <1>9
<1> QED
  BY <1>10

(***************************************************************************)
(* Both caches of the program, RunManager.evictUnlocked and releaseStream  *)
(* of the journal's store, remove idle entries from the least recently     *)
(* used one up until few enough are left.  How many that removes:          *)
(* where S is ordered by use, below[x] are those used before x: as long as *)
(* one with k others before it exists, exactly k have fewer before them.   *)
(***************************************************************************)
LEMMA RemovedExactly ==
    ASSUME NEW S, IsFiniteSet(S), NEW below \in [S -> SUBSET S],
           \A x \in S : x \notin below[x],
           \A x, y \in S : x # y => x \in below[y] \/ y \in below[x],
           \A x, y \in S : y \in below[x] => below[y] \subseteq below[x],
           NEW k \in Nat, NEW left \in S, Cardinality(below[left]) >= k
    PROVE  Cardinality({x \in S : Cardinality(below[x]) < k}) = k
<1> DEFINE n == Cardinality(S)
           rank == [x \in S |-> Cardinality(below[x])]
           R == {x \in S : rank[x] < k}
           first == [x \in R |-> rank[x]]
<1>1. /\ n \in Nat
      /\ \A x \in S : rank[x] \in 0..(n - 1)
      /\ \A x, y \in S : rank[x] = rank[y] => x = y
      /\ \A j \in 0..(n - 1) : \E x \in S : rank[x] = j
  BY RanksOnto
<1>2. k <= n - 1
  <2>1. rank[left] \in 0..(n - 1) /\ rank[left] >= k
    BY <1>1
  <2> HIDE DEF rank, n
  <2> QED
    BY <1>1, <2>1
<1>3. first \in Surjection(R, 0..(k - 1)) /\ first \in Injection(R, 0..(k - 1))
  <2>1. \A x \in R : rank[x] \in 0..(k - 1) /\ x \in S
    <3>1. \A x \in S : rank[x] \in 0..(n - 1)
      BY <1>1
    <3> HIDE DEF rank, n
    <3> QED
      BY <1>1, <3>1
  <2>2. \A j \in 0..(k - 1) : \E x \in R : rank[x] = j
    <3> HIDE DEF rank, n
    <3>1. \A j \in 0..(k - 1) : j \in 0..(n - 1) /\ j < k
      BY <1>1, <1>2
    <3> QED
      BY <1>1, <3>1
  <2> HIDE DEF rank, R
  <2>3. first \in [R -> 0..(k - 1)] /\ \A x \in R : first[x] = rank[x]
    BY <2>1
  <2> HIDE DEF first
  <2>4. first \in Surjection(R, 0..(k - 1))
    BY <2>2, <2>3 DEF Surjection
  <2>5. first \in Injection(R, 0..(k - 1))
    BY <1>1, <2>1, <2>3 DEF Injection, IsInjective
  <2> QED
    BY <2>4, <2>5
<1>4. IsFiniteSet(R)
  BY FS_Subset
<1>5. Cardinality(0..(k - 1)) = Cardinality(R)
  <2> HIDE DEF first, R
  <2> QED
    BY <1>3, <1>4, FS_Surjection
<1>6. Cardinality(0..(k - 1)) = k
  <2>1. 0 \in Int /\ k - 1 \in Int
    OBVIOUS
  <2>2. Cardinality(0..(k - 1)) = IF 0 > k - 1 THEN 0 ELSE (k - 1) - 0 + 1
    BY <2>1, FS_Interval
  <2> QED
    BY <2>2
<1>7. R = {x \in S : Cardinality(below[x]) < k}
  OBVIOUS
<1> QED
  BY <1>5, <1>6, <1>7

(***************************************************************************)
(* Of the entries in memory the idle ones may be removed: when one of them *)
(* is left, no more than the limit is.                                     *)
(***************************************************************************)
LEMMA LeftWithinLimit ==
    ASSUME NEW opened, IsFiniteSet(opened), NEW idle \in SUBSET opened, NEW limit \in Nat,
           NEW below \in [idle -> SUBSET idle],
           \A x \in idle : x \notin below[x],
           \A x, y \in idle : x # y => x \in below[y] \/ y \in below[x],
           \A x, y \in idle : y \in below[x] => below[y] \subseteq below[x],
           NEW removed, NEW left \in idle \ removed,
           removed = {x \in idle : Cardinality(below[x]) < Cardinality(opened) - limit}
    PROVE  IsFiniteSet(opened \ removed) /\ Cardinality(opened \ removed) <= limit
<1> DEFINE n == Cardinality(opened)
<1>1. n \in Nat /\ IsFiniteSet(idle)
  BY FS_CardinalityType, FS_Subset
<1>2. /\ IsFiniteSet(opened \ removed) /\ Cardinality(opened \ removed) \in Nat
      /\ Cardinality(opened \ removed) <= n
  <2>1. opened \ removed \in SUBSET opened
    OBVIOUS
  <2> QED
    BY <2>1, FS_Subset, FS_CardinalityType
<1>3. CASE n <= limit
  <2> HIDE DEF n
  <2> QED
    BY <1>1, <1>2, <1>3
<1>4. CASE ~(n <= limit)
  <2>1. n - limit \in Nat
    <3> HIDE DEF n
    <3> QED
      BY <1>1, <1>4
  <2>2. Cardinality(below[left]) \in Nat
    <3>1. below[left] \in SUBSET idle
      OBVIOUS
    <3> QED
      BY <1>1, <3>1, FS_Subset, FS_CardinalityType
  <2>3. Cardinality(below[left]) >= n - limit
    <3>1. ~(Cardinality(below[left]) < n - limit)
      OBVIOUS
    <3> HIDE DEF n
    <3> QED
      BY <2>1, <2>2, <3>1
  <2>4. Cardinality(removed) = n - limit
    <3> DEFINE k == n - limit
    <3>1. removed = {x \in idle : Cardinality(below[x]) < k}
      OBVIOUS
    <3>2. k \in Nat /\ Cardinality(below[left]) >= k /\ left \in idle
      BY <2>1, <2>3
    <3> HIDE DEF k
    <3>3. Cardinality({x \in idle : Cardinality(below[x]) < k}) = k
      BY <1>1, <3>2, RemovedExactly
    <3>4. k = n - limit
      BY DEF k
    <3> QED
      BY <3>1, <3>3, <3>4
  <2>5. Cardinality(opened \ removed) = n - Cardinality(removed)
    <3>1. opened \cap removed = removed
      OBVIOUS
    <3>2. Cardinality(opened \ removed) = n - Cardinality(opened \cap removed)
      BY FS_Difference
    <3> QED
      BY <3>1, <3>2
  <2> HIDE DEF n
  <2> QED
    BY <1>1, <1>2, <2>4, <2>5
<1> QED
  BY <1>3, <1>4

----------------------------------------------------------------------------
(* Folds                                                                    *)

\* FoldLeft of Op over seq from base, which takes the last element first.
Max(S) == CHOOSE x \in S : \A y \in S : x >= y
Folded(c, base, seq) ==
  MapThenFoldSet(LAMBDA x, y : Op(c, y, x), base, LAMBDA i : seq[i], LAMBDA S : Max(S), DOMAIN seq)

\* Max, which FoldLeft takes its elements by, is a member that is greatest.
LEMMA MaxMember ==
    ASSUME NEW n \in Nat, NEW S \in SUBSET (1..n), S # {}
    PROVE  Max(S) \in S /\ \A x \in S : x <= Max(S)
<1>1. \E m \in S : \A x \in S : x <= m
  BY GreatestMember
<1> QED
  BY <1>1 DEF Max

Body(c, it, base, seq, n) ==
    [S \in SUBSET (1..n) |-> IF S = {} THEN base ELSE Op(c, it[S \ {Max(S)}], seq[Max(S)])]

\* The function that MapThenFoldSet chooses to define a fold exists.
LEMMA IterationExists ==
    ASSUME NEW c, NEW base, NEW seq, NEW n \in Nat
    PROVE  \E it : it = Body(c, it, base, seq, n)
<1> DEFINE T == {k \in Nat : \E it : it = Body(c, it, base, seq, k)}
<1>1. 0 \in T
  <2> DEFINE it == [S \in SUBSET (1..0) |-> base]
  <2>1. it = Body(c, it, base, seq, 0)
    BY DEF Body
  <2> QED
    BY <2>1
<1>2. ASSUME NEW k \in Nat, k \in T
      PROVE  k + 1 \in T
  <2>1. PICK it : it = Body(c, it, base, seq, k)
    BY <1>2
  <2> HIDE DEF T
  <2> DEFINE m == k + 1
             new == [S \in SUBSET (1..m) |->
                       IF m \in S THEN Op(c, it[S \ {m}], seq[m]) ELSE it[S]]
  <2>2. m \in Nat /\ m = k + 1
    OBVIOUS
  <2>3. \A S \in SUBSET (1..m) : new[S] = IF m \in S THEN Op(c, it[S \ {m}], seq[m]) ELSE it[S]
    OBVIOUS
  <2>4. new = [S \in SUBSET (1..m) |-> new[S]]
    OBVIOUS
  <2> HIDE DEF new, m
  <2>5. ASSUME NEW S \in SUBSET (1..m)
        PROVE  new[S] = IF S = {} THEN base ELSE Op(c, new[S \ {Max(S)}], seq[Max(S)])
    <3>1. CASE S = {}
      <4>1. it[S] = base /\ new[S] = it[S]
        BY <2>1, <2>3, <3>1 DEF Body
      <4> QED
        BY <3>1, <4>1
    <3>2. CASE S # {}
      <4>1. Max(S) \in S /\ \A x \in S : x <= Max(S)
        BY <2>2, <3>2, MaxMember
      <4>2. CASE m \in S
        <5>1. Max(S) = m
          <6>1. Max(S) \in 1..m /\ m <= Max(S)
            BY <4>1, <4>2
          <6> QED
            BY <2>2, <6>1
        <5>2. S \ {m} \in SUBSET (1..m) /\ m \notin S \ {m}
          OBVIOUS
        <5>3. new[S \ {m}] = it[S \ {m}] /\ new[S] = Op(c, it[S \ {m}], seq[m])
          BY <2>3, <4>2, <5>2
        <5> QED
          BY <3>2, <5>1, <5>3
      <4>3. CASE m \notin S
        <5>1. S \in SUBSET (1..k) /\ S \ {Max(S)} \in SUBSET (1..k)
          <6>1. \A x \in S : x \in 1..m /\ x # m
            BY <4>3
          <6>2. \A x \in S : x \in 1..k
            BY <2>2, <6>1
          <6> QED
            BY <6>2
        <5>2. it[S] = Op(c, it[S \ {Max(S)}], seq[Max(S)])
          BY <2>1, <3>2, <5>1 DEF Body
        <5>3. S \ {Max(S)} \in SUBSET (1..m) /\ m \notin S \ {Max(S)}
          BY <4>3
        <5>4. new[S \ {Max(S)}] = it[S \ {Max(S)}] /\ new[S] = it[S]
          BY <2>3, <4>3, <5>3
        <5> QED
          BY <3>2, <5>2, <5>4
      <4> QED
        BY <4>2, <4>3
    <3> QED
      BY <3>1, <3>2
  <2>6. new = Body(c, new, base, seq, m)
    BY <2>4, <2>5 DEF Body
  <2> QED
    BY <2>2, <2>6 DEF T
<1>3. Nat \subseteq T
  <2> HIDE DEF T
  <2> QED
    BY <1>1, <1>2, SetInduction
<1> QED
  BY <1>3

Unfolds(g, c, base, seq, n) ==
    /\ g[0] = base
    /\ \A i \in 1..n : g[i] = Op(c, g[i - 1], seq[i])
    /\ Folded(c, base, seq) = g[n]

\* A fold goes through values of which each comes from the one before.
LEMMA Unfolded ==
    ASSUME NEW c, NEW base, NEW seq, NEW n \in Nat, DOMAIN seq = 1..n
    PROVE  \E g : Unfolds(g, c, base, seq, n)
<1> DEFINE it == CHOOSE it : it = Body(c, it, base, seq, n)
           g == [i \in 0..n |-> it[1..i]]
<1>1. it = Body(c, it, base, seq, n)
  BY IterationExists
<1>2. Folded(c, base, seq) = it[1..n]
  BY DEF Folded, MapThenFoldSet, Body
<1> HIDE DEF it
<1>3. \A i \in 0..n : g[i] = it[1..i]
  OBVIOUS
<1> HIDE DEF g
<1>4. g[0] = base
  <2>1. 1..0 = {} /\ {} \in SUBSET (1..n)
    OBVIOUS
  <2>2. it[{}] = base
    BY <1>1, <2>1 DEF Body
  <2> QED
    BY <1>3, <2>1, <2>2
<1>5. ASSUME NEW i \in 1..n
      PROVE  g[i] = Op(c, g[i - 1], seq[i])
  <2>1. (1..i) \in SUBSET (1..n) /\ 1..i # {} /\ i \in 1..i
    OBVIOUS
  <2>2. Max(1..i) = i
    <3>1. Max(1..i) \in 1..i /\ i <= Max(1..i)
      BY <2>1, MaxMember
    <3> QED
      BY <3>1
  <2>3. (1..i) \ {i} = 1..(i - 1)
    OBVIOUS
  <2>4. it[1..i] = Op(c, it[(1..i) \ {i}], seq[i])
    BY <1>1, <2>1, <2>2 DEF Body
  <2>5. g[i] = it[1..i] /\ g[i - 1] = it[1..(i - 1)]
    BY <1>3
  <2> QED
    BY <2>3, <2>4, <2>5
<1>6. Folded(c, base, seq) = g[n]
  BY <1>2, <1>3
<1>7. Unfolds(g, c, base, seq, n)
  BY <1>4, <1>5, <1>6 DEF Unfolds
<1> QED
  BY <1>7

\* Inv holds of a fold if it holds of its base and every element keeps it.
LEMMA FoldKeeps ==
    ASSUME NEW c, NEW base, NEW seq, NEW n \in Nat, DOMAIN seq = 1..n,
           Inv(c, 0, base),
           \A k \in 0..(n - 1) : \A x : Inv(c, k, x) => Inv(c, k + 1, Op(c, x, seq[k + 1]))
    PROVE  Inv(c, n, Folded(c, base, seq))
<1>0. PICK g : Unfolds(g, c, base, seq, n)
  BY Unfolded
<1>1. /\ g[0] = base
      /\ \A i \in 1..n : g[i] = Op(c, g[i - 1], seq[i])
      /\ Folded(c, base, seq) = g[n]
  BY <1>0 DEF Unfolds
<1> DEFINE T == {k \in Nat : k <= n => Inv(c, k, g[k])}
<1>2. 0 \in T
  BY <1>1
<1>3. ASSUME NEW k \in Nat, k \in T
      PROVE  k + 1 \in T
  <2> SUFFICES ASSUME k + 1 <= n
               PROVE  Inv(c, k + 1, g[k + 1])
    OBVIOUS
  <2>1. Inv(c, k, g[k]) /\ k \in 0..(n - 1)
    BY <1>3
  <2>2. k + 1 \in 1..n
    OBVIOUS
  <2>3. g[k + 1] = Op(c, g[k], seq[k + 1])
    BY <1>1, <2>2
  <2>4. Inv(c, k + 1, Op(c, g[k], seq[k + 1]))
    BY <2>1
  <2> QED
    BY <2>3, <2>4
<1>4. Nat \subseteq T
  <2> HIDE DEF T
  <2> QED
    BY <1>2, <1>3, SetInduction
<1>5. Inv(c, n, g[n])
  <2>1. n \in T
    BY <1>4
  <2> QED
    BY <2>1
<1>6. Folded(c, base, seq) = g[n]
  BY <1>1
<1> HIDE DEF T
<1> QED
  BY <1>5, <1>6, Zenon

\* Folding a sequence is folding its first n elements and then the m others.
Appended(pq, p, n, q, m) ==
    /\ DOMAIN p = 1..n /\ DOMAIN q = 1..m /\ DOMAIN pq = 1..(n + m)
    /\ \A i \in 1..n : pq[i] = p[i]
    /\ \A i \in 1..m : pq[n + i] = q[i]

LEMMA FoldAppend ==
    ASSUME NEW c, NEW base, NEW p, NEW q, NEW pq, NEW n \in Nat, NEW m \in Nat,
           Appended(pq, p, n, q, m)
    PROVE  Folded(c, base, pq) = Folded(c, Folded(c, base, p), q)
<1>0. /\ DOMAIN p = 1..n /\ DOMAIN q = 1..m /\ DOMAIN pq = 1..(n + m)
      /\ \A i \in 1..n : pq[i] = p[i]
      /\ \A i \in 1..m : pq[n + i] = q[i]
  BY DEF Appended
<1>1. PICK g : Unfolds(g, c, base, p, n)
  BY <1>0, Unfolded
<1>2. PICK h : Unfolds(h, c, Folded(c, base, p), q, m)
  BY <1>0, Unfolded
<1>3. PICK f : Unfolds(f, c, base, pq, n + m)
  <2>1. n + m \in Nat /\ DOMAIN pq = 1..(n + m)
    BY <1>0
  <2> DEFINE l == n + m
  <2>2. l \in Nat /\ DOMAIN pq = 1..l
    BY <2>1
  <2> HIDE DEF l
  <2>3. \E f : Unfolds(f, c, base, pq, l)
    BY <2>2, Unfolded
  <2> QED
    BY <2>3 DEF l
<1>4. /\ g[0] = base /\ \A i \in 1..n : g[i] = Op(c, g[i - 1], p[i])
      /\ Folded(c, base, p) = g[n]
  BY <1>1 DEF Unfolds
<1>5. /\ h[0] = g[n] /\ \A i \in 1..m : h[i] = Op(c, h[i - 1], q[i])
      /\ Folded(c, Folded(c, base, p), q) = h[m]
  BY <1>2, <1>4 DEF Unfolds
<1>6. /\ f[0] = base /\ \A i \in 1..(n + m) : f[i] = Op(c, f[i - 1], pq[i])
      /\ Folded(c, base, pq) = f[n + m]
  BY <1>3 DEF Unfolds
<1> DEFINE T == {k \in Nat : k <= n => f[k] = g[k]}
           U == {k \in Nat : k <= m => f[n + k] = h[k]}
<1>7. 0 \in T
  BY <1>4, <1>6
<1>8. ASSUME NEW k \in Nat, k \in T
      PROVE  k + 1 \in T
  <2> SUFFICES ASSUME k + 1 <= n
               PROVE  f[k + 1] = g[k + 1]
    OBVIOUS
  <2>1. f[k] = g[k]
    BY <1>8
  <2>2. k + 1 \in 1..n /\ k + 1 \in 1..(n + m) /\ (k + 1) - 1 = k
    OBVIOUS
  <2>3. f[k + 1] = Op(c, f[k], pq[k + 1])
    BY <1>6, <2>2
  <2>4. g[k + 1] = Op(c, g[k], p[k + 1])
    BY <1>4, <2>2
  <2> QED
    BY <1>0, <2>1, <2>2, <2>3, <2>4
<1>9. n \in T
  <2> HIDE DEF T
  <2> QED
    BY <1>7, <1>8, SetInduction
<1>10. 0 \in U
  BY <1>5, <1>9
<1>11. ASSUME NEW k \in Nat, k \in U
       PROVE  k + 1 \in U
  <2> SUFFICES ASSUME k + 1 <= m
               PROVE  f[n + (k + 1)] = h[k + 1]
    OBVIOUS
  <2>1. f[n + k] = h[k]
    BY <1>11
  <2>2. /\ k + 1 \in 1..m /\ n + (k + 1) \in 1..(n + m)
        /\ (k + 1) - 1 = k /\ (n + (k + 1)) - 1 = n + k
    OBVIOUS
  <2>3. f[n + (k + 1)] = Op(c, f[n + k], pq[n + (k + 1)])
    BY <1>6, <2>2
  <2>4. h[k + 1] = Op(c, h[k], q[k + 1])
    BY <1>5, <2>2
  <2>5. pq[n + (k + 1)] = q[k + 1]
    BY <1>0, <2>2
  <2> QED
    BY <2>1, <2>3, <2>4, <2>5
<1>12. m \in U
  <2> HIDE DEF U
  <2> QED
    BY <1>10, <1>11, SetInduction
<1> QED
  BY <1>5, <1>6, <1>12

----------------------------------------------------------------------------
(* Sums                                                                     *)

\* The sum of the weights of the members of S, as FoldSet takes it.
Total(c, S) ==
  MapThenFoldSet(LAMBDA x, acc : acc + Weight(c, x), 0, LAMBDA x : x,
                 LAMBDA T : CHOOSE x \in T : TRUE, S)

\* Induction over the parts of a finite set, for a property given as a set.
LEMMA FiniteInduction ==
    ASSUME NEW U, IsFiniteSet(U), NEW F, {} \in F,
           \A S \in SUBSET U : \A x \in U \ S : S \in F => S \cup {x} \in F
    PROVE  U \in F
<1> DEFINE T == {n \in Nat : \A S \in SUBSET U : Cardinality(S) = n => S \in F}
<1>1. 0 \in T
  <2>1. \A S \in SUBSET U : Cardinality(S) = 0 => S = {}
    BY FS_Subset, FS_EmptySet
  <2> QED
    BY <2>1
<1>2. ASSUME NEW n \in Nat, n \in T
      PROVE  n + 1 \in T
  <2> SUFFICES ASSUME NEW S \in SUBSET U, Cardinality(S) = n + 1
               PROVE  S \in F
    OBVIOUS
  <2>1. IsFiniteSet(S)
    BY FS_Subset
  <2>2. S # {}
    BY FS_EmptySet
  <2>3. PICK x \in S : TRUE
    BY <2>2
  <2>4. Cardinality(S \ {x}) = n
    <3> HIDE DEF T
    <3>1. Cardinality(S \ {x}) = (n + 1) - 1
      BY <2>1, FS_RemoveElement
    <3> QED
      BY <3>1
  <2>5. S \ {x} \in F
    BY <1>2, <2>4
  <2>6. (S \ {x}) \cup {x} \in F /\ (S \ {x}) \cup {x} = S
    BY <2>5
  <2> QED
    BY <2>6
<1>3. Nat \subseteq T
  <2> HIDE DEF T
  <2> QED
    BY <1>1, <1>2, SetInduction
<1>4. Cardinality(U) \in Nat
  BY FS_CardinalityType
<1>5. Cardinality(U) \in T
  BY <1>3, <1>4
<1> QED
  BY <1>5

\* f gives the sum over every part of S, whatever member is counted last.
Sums(c, f, S) ==
    /\ f \in [SUBSET S -> Int] /\ f[{}] = 0
    /\ \A T \in SUBSET S : \A x \in T : f[T] = f[T \ {x}] + Weight(c, x)

\* There is a function that gives the sum over every part of a finite set.
LEMMA SumsExist ==
    ASSUME NEW c, NEW U, IsFiniteSet(U), \A x \in U : Weight(c, x) \in Int
    PROVE  \E f : Sums(c, f, U)
<1> DEFINE F == {S \in SUBSET U : \E f : Sums(c, f, S)}
<1>1. {} \in F
  <2> DEFINE f == [T \in SUBSET {} |-> 0]
  <2>1. Sums(c, f, {})
    BY DEF Sums
  <2> QED
    BY <2>1
<1>2. ASSUME NEW S \in SUBSET U, NEW x \in U \ S, S \in F
      PROVE  S \cup {x} \in F
  <2>1. PICK f : Sums(c, f, S)
    BY <1>2
  <2>2. /\ f \in [SUBSET S -> Int] /\ f[{}] = 0
        /\ \A T \in SUBSET S : \A y \in T : f[T] = f[T \ {y}] + Weight(c, y)
    BY <2>1 DEF Sums
  <2> DEFINE R == S \cup {x}
             g == [T \in SUBSET R |-> IF x \in T THEN f[T \ {x}] + Weight(c, x) ELSE f[T]]
  <2>3. Weight(c, x) \in Int
    OBVIOUS
  <2>4. \A T \in SUBSET R : T \ {x} \in SUBSET S /\ (x \notin T => T \in SUBSET S)
    OBVIOUS
  <2>5. g \in [SUBSET R -> Int]
    BY <2>2, <2>3, <2>4
  <2>6. \A T \in SUBSET R : g[T] = IF x \in T THEN f[T \ {x}] + Weight(c, x) ELSE f[T]
    OBVIOUS
  <2> HIDE DEF g
  <2>7. g[{}] = 0
    BY <2>2, <2>6
  <2>8. ASSUME NEW T \in SUBSET R, NEW y \in T
        PROVE  g[T] = g[T \ {y}] + Weight(c, y)
    <3>1. T \ {y} \in SUBSET R
      OBVIOUS
    <3>2. Weight(c, y) \in Int /\ f[T \ {x}] \in Int
      BY <2>2, <2>4
    <3>3. CASE y = x
      <4>1. g[T \ {y}] = f[T \ {x}] /\ g[T] = f[T \ {x}] + Weight(c, x)
        BY <2>6, <3>1, <3>3
      <4> QED
        BY <3>3, <4>1
    <3>4. CASE y # x /\ x \in T
      <4>1. g[T] = f[T \ {x}] + Weight(c, x)
        BY <2>6, <3>4
      <4>2. g[T \ {y}] = f[(T \ {y}) \ {x}] + Weight(c, x)
        BY <2>6, <3>1, <3>4
      <4>3. (T \ {y}) \ {x} = (T \ {x}) \ {y} /\ y \in T \ {x}
        BY <3>4
      <4>4. f[T \ {x}] = f[(T \ {x}) \ {y}] + Weight(c, y)
        BY <2>2, <2>4, <4>3
      <4>5. f[(T \ {x}) \ {y}] \in Int
        BY <2>2, <2>4
      <4> DEFINE rest == f[(T \ {x}) \ {y}]
      <4>6. /\ g[T] = (rest + Weight(c, y)) + Weight(c, x)
            /\ g[T \ {y}] = rest + Weight(c, x) /\ rest \in Int
        BY <4>1, <4>2, <4>3, <4>4, <4>5
      <4> HIDE DEF rest
      <4> QED
        BY <2>3, <3>2, <4>6
    <3>5. CASE x \notin T
      <4>1. g[T] = f[T] /\ g[T \ {y}] = f[T \ {y}] /\ T \in SUBSET S
        BY <2>4, <2>6, <3>1, <3>5
      <4> QED
        BY <2>2, <4>1
    <3> QED
      BY <3>3, <3>4, <3>5
  <2>9. Sums(c, g, R)
    BY <2>5, <2>7, <2>8 DEF Sums
  <2> QED
    BY <2>9
<1> HIDE DEF F
<1>3. U \in F
  BY <1>1, <1>2, FiniteInduction
<1> QED
  BY <1>3 DEF F

\* What FoldSet computes is that sum, whatever order CHOOSE takes.
LEMMA TotalIsSum ==
    ASSUME NEW c, NEW U, IsFiniteSet(U), NEW f, Sums(c, f, U)
    PROVE  Total(c, U) = f[U]
<1> DEFINE pick(s) == CHOOSE x \in s : TRUE
           Iterates(it) == it = [s \in SUBSET U |->
                                   IF s = {} THEN 0
                                   ELSE it[s \ {pick(s)}] + Weight(c, pick(s))]
           it == CHOOSE it : Iterates(it)
           F == {S \in SUBSET U : it[S] = f[S]}
<1>1. /\ f \in [SUBSET U -> Int] /\ f[{}] = 0
      /\ \A T \in SUBSET U : \A x \in T : f[T] = f[T \ {x}] + Weight(c, x)
  BY DEF Sums
<1>2. \A s : s # {} => pick(s) \in s
  OBVIOUS
<1>3. Total(c, U) = it[U]
  BY DEF Total, MapThenFoldSet
<1> HIDE DEF pick
<1>4. f = [s \in SUBSET U |-> IF s = {} THEN 0 ELSE f[s \ {pick(s)}] + Weight(c, pick(s))]
  <2>1. f = [s \in SUBSET U |-> f[s]]
    BY <1>1
  <2>2. \A s \in SUBSET U :
          f[s] = IF s = {} THEN 0 ELSE f[s \ {pick(s)}] + Weight(c, pick(s))
    BY <1>1, <1>2
  <2> QED
    BY <2>1, <2>2
<1>5. Iterates(it)
  <2>1. \E g : Iterates(g)
    BY <1>4
  <2> QED
    BY <2>1
<1>6. \A s \in SUBSET U : it[s] = IF s = {} THEN 0 ELSE it[s \ {pick(s)}] + Weight(c, pick(s))
  BY <1>5
<1> HIDE DEF it
<1>7. ASSUME NEW n \in Nat, \A S \in SUBSET U : Cardinality(S) = n => it[S] = f[S]
      PROVE  \A S \in SUBSET U : Cardinality(S) = n + 1 => it[S] = f[S]
  <2> SUFFICES ASSUME NEW S \in SUBSET U, Cardinality(S) = n + 1
               PROVE  it[S] = f[S]
    OBVIOUS
  <2>1. IsFiniteSet(S) /\ S # {}
    BY FS_Subset, FS_EmptySet
  <2>2. pick(S) \in S
    BY <1>2, <2>1
  <2>3. Cardinality(S \ {pick(S)}) = n
    BY <2>1, <2>2, FS_RemoveElement
  <2>4. it[S \ {pick(S)}] = f[S \ {pick(S)}]
    BY <1>7, <2>3
  <2> QED
    BY <1>1, <1>6, <2>1, <2>2, <2>4
<1> DEFINE N == {n \in Nat : \A S \in SUBSET U : Cardinality(S) = n => it[S] = f[S]}
<1>8. 0 \in N
  <2>1. \A S \in SUBSET U : Cardinality(S) = 0 => S = {}
    BY FS_Subset, FS_EmptySet
  <2>2. it[{}] = 0
    BY <1>6
  <2> QED
    BY <1>1, <2>1, <2>2
<1>9. \A n \in Nat : n \in N => n + 1 \in N
  BY <1>7
<1>10. Nat \subseteq N
  <2> HIDE DEF N
  <2> QED
    BY <1>8, <1>9, SetInduction
<1>11. Cardinality(U) \in N
  BY <1>10, FS_CardinalityType
<1>12. it[U] = f[U]
  BY <1>11
<1> QED
  BY <1>3, <1>12

\* What is known of every part of a set that is summed over.
LEMMA TotalOfParts ==
    ASSUME NEW c, NEW U, IsFiniteSet(U), \A x \in U : Weight(c, x) \in Int
    PROVE  /\ Total(c, {}) = 0
           /\ \A T \in SUBSET U : Total(c, T) \in Int
           /\ \A T \in SUBSET U : \A x \in T : Total(c, T) = Total(c, T \ {x}) + Weight(c, x)
<1>1. PICK f : Sums(c, f, U)
  BY SumsExist
<1>2. ASSUME NEW T \in SUBSET U
      PROVE  Total(c, T) = f[T]
  <2> DEFINE g == [S \in SUBSET T |-> f[S]]
  <2>1. Sums(c, g, T)
    BY <1>1 DEF Sums
  <2>2. IsFiniteSet(T)
    BY FS_Subset
  <2> HIDE DEF g
  <2>3. Total(c, T) = g[T]
    BY <2>1, <2>2, TotalIsSum
  <2> QED
    BY <2>3 DEF g
<1> QED
  BY <1>1, <1>2 DEF Sums

\* A sum is that over a part of the set and that over the rest.
LEMMA TotalSplit ==
    ASSUME NEW c, NEW U, IsFiniteSet(U), \A x \in U : Weight(c, x) \in Int, NEW A \in SUBSET U
    PROVE  Total(c, U) = Total(c, A) + Total(c, U \ A)
<1> DEFINE t(S) == Total(c, S)
           F == {S \in SUBSET U : t(S) = t(S \cap A) + t(S \ A)}
<1>1. /\ t({}) = 0
      /\ \A T \in SUBSET U : t(T) \in Int
      /\ \A T \in SUBSET U : \A x \in T : t(T) = t(T \ {x}) + Weight(c, x)
  BY TotalOfParts
<1> HIDE DEF t
<1>2. {} \in F
  BY <1>1
<1>3. ASSUME NEW S \in SUBSET U, NEW x \in U \ S, S \in F
      PROVE  S \cup {x} \in F
  <2> DEFINE R == S \cup {x}
  <2>1. Weight(c, x) \in Int /\ t(S) = t(S \cap A) + t(S \ A)
    BY <1>3
  <2>2. t(R) = t(S) + Weight(c, x)
    <3>1. R \ {x} = S
      OBVIOUS
    <3> QED
      BY <1>1, <3>1
  <2>3. CASE x \in A
    <3>1. R \ A = S \ A /\ (R \cap A) \ {x} = S \cap A /\ x \in R \cap A /\ R \cap A \in SUBSET U
      BY <2>3
    <3>2. t(R \cap A) = t(S \cap A) + Weight(c, x) /\ t(R \ A) = t(S \ A)
      BY <1>1, <3>1
    <3>3. t(S \cap A) \in Int /\ t(S \ A) \in Int
      BY <1>1
    <3>4. t(R) = t(R \cap A) + t(R \ A)
      BY <2>1, <2>2, <3>2, <3>3
    <3> QED
      BY <3>4
  <2>4. CASE x \notin A
    <3>1. R \cap A = S \cap A /\ (R \ A) \ {x} = S \ A /\ x \in R \ A /\ R \ A \in SUBSET U
      BY <2>4
    <3>2. t(R \ A) = t(S \ A) + Weight(c, x) /\ t(R \cap A) = t(S \cap A)
      BY <1>1, <3>1
    <3>3. t(S \cap A) \in Int /\ t(S \ A) \in Int
      BY <1>1
    <3>4. t(R) = t(R \cap A) + t(R \ A)
      BY <2>1, <2>2, <3>2, <3>3
    <3> QED
      BY <3>4
  <2> QED
    BY <2>3, <2>4
<1> HIDE DEF F
<1>4. U \in F
  BY <1>2, <1>3, FiniteInduction
<1>5. t(U) = t(U \cap A) + t(U \ A) /\ U \cap A = A
  BY <1>4 DEF F
<1> QED
  BY <1>5 DEF t

\* A sum of naturals is a natural, and none of them is more than it.
LEMMA TotalOfNaturals ==
    ASSUME NEW c, NEW U, IsFiniteSet(U), \A x \in U : Weight(c, x) \in Nat
    PROVE  Total(c, U) \in Nat /\ \A x \in U : Weight(c, x) <= Total(c, U)
<1> DEFINE t(S) == Total(c, S)
           F == {S \in SUBSET U : t(S) \in Nat /\ \A x \in S : Weight(c, x) <= t(S)}
<1>1. /\ t({}) = 0
      /\ \A T \in SUBSET U : \A x \in T : t(T) = t(T \ {x}) + Weight(c, x)
  BY TotalOfParts
<1> HIDE DEF t
<1>2. {} \in F
  BY <1>1
<1>3. ASSUME NEW S \in SUBSET U, NEW x \in U \ S, S \in F
      PROVE  S \cup {x} \in F
  <2>1. (S \cup {x}) \ {x} = S /\ Weight(c, x) \in Nat
    OBVIOUS
  <2>2. t(S \cup {x}) = t(S) + Weight(c, x)
    BY <1>1, <2>1
  <2>3. t(S) \in Nat /\ \A y \in S : Weight(c, y) \in Nat /\ Weight(c, y) <= t(S)
    BY <1>3
  <2>4. t(S \cup {x}) \in Nat /\ \A y \in S \cup {x} : Weight(c, y) <= t(S \cup {x})
    BY <2>1, <2>2, <2>3
  <2> QED
    BY <2>4
<1> HIDE DEF F
<1>4. U \in F
  BY <1>2, <1>3, FiniteInduction
<1> QED
  BY <1>4 DEF F, t

\* Sums of the same terms are the same.
LEMMA TotalSame ==
    ASSUME NEW c, NEW d, NEW U, IsFiniteSet(U),
           \A x \in U : Weight(c, x) \in Int /\ Weight(c, x) = Weight(d, x)
    PROVE  Total(c, U) = Total(d, U)
<1> DEFINE t(S) == Total(c, S)
           u(S) == Total(d, S)
           F == {S \in SUBSET U : t(S) = u(S)}
<1>1. /\ t({}) = 0
      /\ \A T \in SUBSET U : \A x \in T : t(T) = t(T \ {x}) + Weight(c, x)
  BY TotalOfParts
<1>2. /\ u({}) = 0
      /\ \A T \in SUBSET U : \A x \in T : u(T) = u(T \ {x}) + Weight(d, x)
  <2>1. \A x \in U : Weight(d, x) \in Int
    OBVIOUS
  <2> QED
    BY <2>1, TotalOfParts
<1> HIDE DEF t, u
<1>3. {} \in F
  BY <1>1, <1>2
<1>4. ASSUME NEW S \in SUBSET U, NEW x \in U \ S, S \in F
      PROVE  S \cup {x} \in F
  <2>1. (S \cup {x}) \ {x} = S /\ t(S) = u(S) /\ Weight(c, x) = Weight(d, x)
    BY <1>4
  <2>2. t(S \cup {x}) = t(S) + Weight(c, x) /\ u(S \cup {x}) = u(S) + Weight(d, x)
    BY <1>1, <1>2, <2>1
  <2> QED
    BY <2>1, <2>2
<1> HIDE DEF F
<1>5. U \in F
  BY <1>3, <1>4, FiniteInduction
<1> QED
  BY <1>5 DEF F, t, u
==============================================================================
