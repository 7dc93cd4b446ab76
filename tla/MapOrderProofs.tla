--------------------------- MODULE MapOrderProofs ---------------------------
(* What the iteration of a std::map visits, and what the proofs about loops  *)
(* need: induction over the naturals for a set, and the existence of the     *)
(* function a loop defines by recursion on the number of its turns.          *)
EXTENDS MapOrder, FiniteSetTheorems, TLAPS

\* A set of naturals with 0 and the successor of each of its members is Nat:
\* the last member missing would have a predecessor that is missing too.
LEMMA SetInduction ==
    ASSUME NEW T, 0 \in T, \A n \in Nat : n \in T => n + 1 \in T
    PROVE  Nat \subseteq T
  <1> DEFINE R == OpToRel(<, Nat)
             S == Nat \ T
  <1>1. IsWellFoundedOn(R, Nat)
    BY NatLessThanWellFounded, Zenon
  <1>2. SUFFICES ASSUME S # {} PROVE FALSE
    OBVIOUS
  <1>3. PICK x \in S : \A y \in S : ~(<<y, x>> \in R)
    <2> HIDE DEF R
    <2>1. S \subseteq Nat
      OBVIOUS
    <2> QED BY <1>1, <1>2, <2>1, WFMin
  <1>4. x - 1 \in S /\ x - 1 < x
    OBVIOUS
  <1>5. <<x - 1, x>> \in R
    <2>1. <<x - 1, x>> \in Nat \X Nat
      BY <1>4
    <2> QED BY <1>4, <2>1, Zenon DEF OpToRel
  <1> QED BY <1>3, <1>4, <1>5

\* The same for an interval: what holds before a loop and is kept by its turns.
LEMMA TurnInduction ==
    ASSUME NEW T, NEW n \in Nat, 0 \in T, \A i \in 1..n : i - 1 \in T => i \in T
    PROVE  0..n \subseteq T
  <1> DEFINE U == {m \in Nat : m <= n => m \in T}
  <1>1. 0 \in U
    OBVIOUS
  <1>2. ASSUME NEW m \in Nat, m \in U PROVE m + 1 \in U
    <2> SUFFICES ASSUME m + 1 <= n PROVE m + 1 \in T
      OBVIOUS
    <2>1. m + 1 \in 1..n /\ (m + 1) - 1 = m /\ m \in T
      BY <1>2
    <2> QED BY <2>1
  <1> HIDE DEF U
  <1>3. Nat \subseteq U
    BY <1>1, <1>2, SetInduction
  <1> QED BY <1>3 DEF U

\* A loop of n turns: step[i] is what turn i makes of what it finds.
IsLoop(n, X, first, step) == n \in Nat /\ first \in X /\ step \in [1..n -> [X -> X]]

LEMMA LoopDefined ==
    ASSUME NEW n, NEW X, NEW first, NEW step, IsLoop(n, X, first, step)
    PROVE  \E acc \in [0..n -> X] :
              acc[0] = first /\ \A i \in 1..n : acc[i] = step[i][acc[i - 1]]
  <1> USE DEF IsLoop
  <1> DEFINE Turns(acc, m) == acc[0] = first /\ \A i \in 1..m : acc[i] = step[i][acc[i - 1]]
             T == {m \in Nat : m <= n => \E acc \in [0..m -> X] : Turns(acc, m)}
  <1>1. 0 \in T
    <2> DEFINE g == [i \in 0..0 |-> first]
    <2>1. g \in [0..0 -> X] /\ Turns(g, 0)
      OBVIOUS
    <2> QED BY <2>1
  <1>2. ASSUME NEW m \in Nat, m \in T PROVE m + 1 \in T
    <2> SUFFICES ASSUME m + 1 <= n
                 PROVE  \E acc \in [0..(m + 1) -> X] : Turns(acc, m + 1)
      OBVIOUS
    <2>1. PICK g \in [0..m -> X] : Turns(g, m)
      BY <1>2
    <2> DEFINE h == [i \in 0..(m + 1) |-> IF i = m + 1 THEN step[m + 1][g[m]] ELSE g[i]]
    <2>2. step[m + 1] \in [X -> X] /\ g[m] \in X
      OBVIOUS
    <2>3. h \in [0..(m + 1) -> X]
      BY <2>2
    <2>4. ASSUME NEW i \in 1..(m + 1) PROVE h[i] = step[i][h[i - 1]]
      <3>1. i - 1 \in 0..m /\ h[i - 1] = g[i - 1]
        OBVIOUS
      <3>2. CASE i = m + 1
        BY <3>1, <3>2
      <3>3. CASE i # m + 1
        <4>1. i \in 1..m /\ h[i] = g[i]
          BY <3>3
        <4> QED BY <2>1, <3>1, <4>1
      <3> QED BY <3>2, <3>3
    <2>5. Turns(h, m + 1)
      BY <2>1, <2>4
    <2> QED BY <2>3, <2>5
  <1>3. n \in T
    <2> HIDE DEF T
    <2> QED BY <1>1, <1>2, SetInduction
  <1> QED BY <1>3

----------------------------------------------------------------------------
\* The keys before each key of a finite map, under a strict total order.
IsOrder(before) ==
    /\ IsFiniteSet(DOMAIN before)
    /\ \A k \in DOMAIN before : before[k] \subseteq DOMAIN before /\ k \notin before[k]
    /\ \A k, l \in DOMAIN before : l \in before[k] => before[l] \subseteq before[k]
    /\ \A k, l \in DOMAIN before : k # l => k \in before[l] \/ l \in before[k]

\* Every key is visited, once, after those before it.
LEMMA VisitsInOrder ==
    ASSUME NEW before, IsOrder(before)
    PROVE  /\ Cardinality(DOMAIN before) \in Nat
           /\ InKeyOrder(before) \in [1..Cardinality(DOMAIN before) -> DOMAIN before]
           /\ \A k \in DOMAIN before :
                \E i \in DOMAIN InKeyOrder(before) : InKeyOrder(before)[i] = k
           /\ \A i, j \in DOMAIN InKeyOrder(before) :
                i < j <=> InKeyOrder(before)[i] \in before[InKeyOrder(before)[j]]
  <1> DEFINE D == DOMAIN before
             N == Cardinality(D)
             rank == [k \in D |-> Cardinality(before[k])]
  <1>1. IsFiniteSet(D) /\ N \in Nat
    BY FS_CardinalityType DEF IsOrder
  <1>2. ASSUME NEW k \in D
        PROVE  IsFiniteSet(before[k]) /\ rank[k] \in 0..(N - 1)
    <2>1. before[k] \in SUBSET D /\ k \notin before[k]
      BY DEF IsOrder
    <2>2. /\ IsFiniteSet(before[k]) /\ Cardinality(before[k]) <= N
          /\ N = Cardinality(before[k]) => D = before[k]
      BY <1>1, <2>1, FS_Subset
    <2>3. Cardinality(before[k]) \in Nat
      BY <2>2, FS_CardinalityType
    <2> HIDE DEF N
    <2> QED BY <1>1, <2>1, <2>2, <2>3
  <1>3. ASSUME NEW k \in D, NEW l \in D, l \in before[k]
        PROVE  rank[l] < rank[k]
    <2>1. before[l] \in SUBSET before[k] /\ before[l] # before[k]
      BY <1>3 DEF IsOrder
    <2>2. /\ Cardinality(before[l]) <= Cardinality(before[k])
          /\ Cardinality(before[k]) # Cardinality(before[l])
      BY <1>2, <2>1, FS_Subset
    <2> QED BY <1>2, <2>2
  <1>4. \A k, l \in D : rank[k] < rank[l] <=> k \in before[l]
    <2> SUFFICES ASSUME NEW k \in D, NEW l \in D, rank[k] < rank[l], k \notin before[l]
                 PROVE  FALSE
      BY <1>3
    <2>1. k = l \/ l \in before[k]
      BY DEF IsOrder
    <2> QED BY <1>2, <1>3, <2>1
  <1>5. rank \in Injection(D, 0..(N - 1))
    <2>1. rank \in [D -> 0..(N - 1)]
      BY <1>2
    <2>2. \A k, l \in D : rank[k] = rank[l] => k = l
      <3> SUFFICES ASSUME NEW k \in D, NEW l \in D, rank[k] = rank[l], k # l PROVE FALSE
        OBVIOUS
      <3>1. k \in before[l] \/ l \in before[k]
        BY DEF IsOrder
      <3> QED BY <1>2, <1>3, <3>1
    <2> HIDE DEF rank, N, D
    <2> QED BY <2>1, <2>2 DEF Injection, IsInjective
  <1>6. ASSUME NEW i \in 1..N PROVE \E k \in D : rank[k] = i - 1
    <2>1. IsFiniteSet(0..(N - 1)) /\ Cardinality(0..(N - 1)) = N
      <3> HIDE DEF N
      <3> QED BY <1>1, FS_Interval
    <2>2. rank \in Surjection(D, 0..(N - 1))
      <3> HIDE DEF rank
      <3>1. Cardinality(D) = Cardinality(0..(N - 1)) <=> rank \in Surjection(D, 0..(N - 1))
        BY <1>5, <2>1, FS_Injection
      <3> QED BY <2>1, <3>1
    <2>3. i - 1 \in 0..(N - 1)
      <3> HIDE DEF N
      <3> QED BY <1>1
    <2> HIDE DEF rank, N, D
    <2> QED BY <2>2, <2>3 DEF Surjection
  <1>7. /\ DOMAIN InKeyOrder(before) = 1..N
        /\ \A i \in 1..N : InKeyOrder(before)[i] \in D /\ rank[InKeyOrder(before)[i]] = i - 1
    BY <1>6 DEF InKeyOrder
  <1> HIDE DEF rank, N
  <1>8. \A k \in D : \E i \in 1..N : InKeyOrder(before)[i] = k
    <2> TAKE k \in D
    <2>1. rank[k] + 1 \in 1..N /\ rank[k] = (rank[k] + 1) - 1
      BY <1>1, <1>2
    <2>2. rank[InKeyOrder(before)[rank[k] + 1]] = rank[k]
      BY <1>7, <2>1
    <2> QED BY <1>5, <1>7, <2>1, <2>2 DEF Injection, IsInjective
  <1>9. \A i, j \in 1..N : i < j <=> InKeyOrder(before)[i] \in before[InKeyOrder(before)[j]]
    BY <1>4, <1>7
  <1>10. InKeyOrder(before) \in [1..N -> D]
    BY <1>7 DEF InKeyOrder, N
  <1> QED BY <1>1, <1>7, <1>8, <1>9, <1>10 DEF N
=============================================================================
