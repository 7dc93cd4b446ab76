-------------------------- MODULE EnumerationProofs --------------------------
(* What holds of a multirange expression and of an enumeration's labels for  *)
(* every set of literals, texts and aliases.                                 *)
(*                                                                           *)
(* The core is SimplifiedSays: the loop of simplifyLiteral, by induction on  *)
(* its turns, writes exactly the values it visits, in ranges with gaps       *)
(* between them.  From there on every setter keeps the literal and its       *)
(* values aligned.                                                           *)
EXTENDS Enumeration, MapOrderProofs

\* What simplifyLiteral keeps from one turn to the next.
Runs == [texts : Seq(Seq(Nat)), min : Nat, max : Nat, prev : Nat]

\* A turn leaves what the next one needs.
LEMMA VisitTyped ==
    ASSUME NEW run \in Runs, NEW value \in Nat
    PROVE  Visit(run, value) \in Runs
  <1>1. RangeText(run.min, run.max) \in Seq(Nat)
    BY DEF RangeText, Runs
  <1>2. Append(run.texts, RangeText(run.min, run.max)) \in Seq(Seq(Nat))
    BY <1>1 DEF Runs
  <1>3. CASE value - run.prev > 1
    <2> DEFINE t == Append(run.texts, RangeText(run.min, run.max))
    <2>1. Visit(run, value) = [texts |-> t, min |-> value, max |-> value, prev |-> value]
      BY <1>3 DEF Visit
    <2> HIDE DEF t
    <2> QED BY <1>2, <2>1 DEF Runs, t
  <1>4. CASE ~(value - run.prev > 1)
    BY <1>4 DEF Visit, Runs
  <1> QED BY <1>3, <1>4

\* The loop of simplifyLiteral does what one turn after the other does.
LEMMA LoopOfSimplify ==
    ASSUME NEW sorted \in Seq(Nat), Len(sorted) > 0
    PROVE  /\ Visited(sorted) \in [0..Len(sorted) -> Runs]
           /\ Visited(sorted)[0] =
                [texts |-> <<>>, min |-> sorted[1], max |-> sorted[1], prev |-> sorted[1]]
           /\ \A i \in 1..Len(sorted) :
                Visited(sorted)[i] = Visit(Visited(sorted)[i - 1], sorted[i])
  <1> DEFINE n == Len(sorted)
             first == [texts |-> <<>>, min |-> sorted[1], max |-> sorted[1], prev |-> sorted[1]]
             step == [i \in 1..n |-> [run \in Runs |-> Visit(run, sorted[i])]]
             Turns(f) == f = [i \in 0..n |-> IF i = 0 THEN first ELSE Visit(f[i - 1], sorted[i])]
  <1>1. first \in Runs
    BY DEF Runs
  <1>2. step \in [1..n -> [Runs -> Runs]]
    BY VisitTyped
  <1>3. PICK f \in [0..n -> Runs] : f[0] = first /\ \A i \in 1..n : f[i] = step[i][f[i - 1]]
    <2>1. IsLoop(n, Runs, first, step)
      BY <1>1, <1>2 DEF IsLoop
    <2> HIDE DEF first, step, n
    <2> QED BY <2>1, LoopDefined
  <1>4. \A i \in 1..n : step[i][f[i - 1]] = Visit(f[i - 1], sorted[i])
    OBVIOUS
  <1>5. f = [i \in 0..n |-> IF i = 0 THEN first ELSE Visit(f[i - 1], sorted[i])]
    <2> HIDE DEF first, step
    <2> QED BY <1>3, <1>4
  <1>6. Visited(sorted) = CHOOSE g : Turns(g)
    BY DEF Visited
  <1> HIDE DEF first, step
  <1>7. Turns(Visited(sorted))
    BY <1>5, <1>6
  <1> DEFINE v == Visited(sorted)
  <1> HIDE DEF v
  <1>8. v = [i \in 0..n |-> IF i = 0 THEN first ELSE Visit(v[i - 1], sorted[i])]
    BY <1>7 DEF v
  <1>9. v[0] = first /\ \A i \in 1..n : v[i] = Visit(v[i - 1], sorted[i])
    BY <1>8
  <1>10. 0..n \subseteq {i \in 0..n : v[i] \in Runs}
    <2> DEFINE T == {i \in 0..n : v[i] \in Runs}
    <2>1. n \in Nat /\ 0 \in T
      BY <1>1, <1>9
    <2>2. ASSUME NEW i \in 1..n, i - 1 \in T PROVE i \in T
      <3>1. v[i] = Visit(v[i - 1], sorted[i]) /\ v[i - 1] \in Runs /\ sorted[i] \in Nat
        BY <1>9, <2>2
      <3> QED BY <3>1, VisitTyped
    <2> HIDE DEF T, n
    <2> QED BY <2>1, <2>2, TurnInduction DEF T
  <1>11. v \in [0..n -> Runs]
    BY <1>8, <1>10
  <1> QED BY <1>9, <1>11 DEF first, v

----------------------------------------------------------------------------
\* The loop visits every value, in ascending order.
LEMMA SortedValues ==
    ASSUME NEW values \in SUBSET Nat, IsFiniteSet(values), values # {}
    PROVE  /\ Sorted(values) \in Seq(values) /\ Len(Sorted(values)) > 0
           /\ \A v \in values : \E i \in 1..Len(Sorted(values)) : Sorted(values)[i] = v
           /\ \A i, j \in 1..Len(Sorted(values)) : i < j => Sorted(values)[i] < Sorted(values)[j]
  <1> DEFINE before == [v \in values |-> {w \in values : w < v}]
             n == Cardinality(DOMAIN before)
  <1>1. IsOrder(before)
    <2>1. DOMAIN before = values /\ \A v, w \in values : w \in before[v] <=> w < v
      OBVIOUS
    <2>2. \A v \in values : before[v] \subseteq values
      OBVIOUS
    <2> HIDE DEF before
    <2>3. ASSUME NEW v \in values, NEW w \in values, w \in before[v], NEW x \in before[w]
          PROVE  x \in before[v]
      <3>1. x \in values /\ w < v /\ x < w
        BY <2>1, <2>2, <2>3
      <3>2. \A y \in values : y \in Int
        OBVIOUS
      <3> QED BY <2>1, <3>1, <3>2
    <2>4. \A v, w \in values : v \notin before[v] /\ (v # w => v \in before[w] \/ w \in before[v])
      BY <2>1
    <2> QED BY <2>1, <2>2, <2>3, <2>4 DEF IsOrder
  <1>2. /\ n \in Nat /\ Sorted(values) \in [1..n -> values]
        /\ \A v \in values : \E i \in 1..n : Sorted(values)[i] = v
        /\ \A i, j \in 1..n : i < j <=> Sorted(values)[i] \in before[Sorted(values)[j]]
    <2>1. DOMAIN before = values /\ Sorted(values) = InKeyOrder(before)
      BY DEF Sorted
    <2> HIDE DEF before
    <2>2. /\ n \in Nat /\ InKeyOrder(before) \in [1..n -> DOMAIN before]
          /\ \A v \in DOMAIN before : \E i \in DOMAIN InKeyOrder(before) : InKeyOrder(before)[i] = v
          /\ \A i, j \in DOMAIN InKeyOrder(before) :
               i < j <=> InKeyOrder(before)[i] \in before[InKeyOrder(before)[j]]
      BY <1>1, VisitsInOrder
    <2> HIDE DEF n
    <2> QED BY <2>1, <2>2
  <1>3. Sorted(values) \in Seq(values) /\ Len(Sorted(values)) = n
    <2> HIDE DEF n, before
    <2> QED BY <1>2
  <1>4. n > 0
    <2>1. PICK v \in values : TRUE
      OBVIOUS
    <2>2. PICK i \in 1..n : Sorted(values)[i] = v
      BY <1>2
    <2> HIDE DEF n
    <2> QED BY <1>2
  <1> HIDE DEF n
  <1>5. \A i, j \in 1..n : i < j => Sorted(values)[i] < Sorted(values)[j]
    BY <1>2
  <1> QED BY <1>2, <1>3, <1>4, <1>5
----------------------------------------------------------------------------
\* The values of the texts written so far.
Covered(texts) == UNION {Span(texts[j]) : j \in DOMAIN texts}

\* The texts ascend with a gap between each two of them.
Spaced(texts) ==
    /\ \A j \in 1..Len(texts) : texts[j] # <<>>
    /\ \A j \in 1..(Len(texts) - 1) : Last(texts[j]) + 1 < texts[j + 1][1]

\* The range at hand can follow the texts written.
Follows(texts, min, max) ==
    /\ texts \in Seq(Seq(Nat)) /\ min \in Nat /\ max \in Nat /\ min <= max
    /\ Spaced(texts)
    /\ Len(texts) > 0 => Last(texts[Len(texts)]) + 1 < min

\* What the loop has when it has been through the first i values.
Gathered(run, sorted, i) ==
    /\ run \in Runs
    /\ run.max = sorted[i] /\ run.prev = sorted[i]
    /\ Follows(run.texts, run.min, run.max)
    /\ Covered(run.texts) \cup (run.min .. run.max) = {sorted[k] : k \in 1..i}

\* One range more: its span, and the gap before it.
LEMMA RangeAppended ==
    ASSUME NEW texts, NEW min, NEW max, Follows(texts, min, max)
    PROVE  LET longer == Append(texts, RangeText(min, max)) IN
           /\ longer \in Seq(Seq(Nat)) /\ Len(longer) = Len(texts) + 1
           /\ Spaced(longer) /\ Last(longer[Len(longer)]) = max
           /\ Covered(longer) = Covered(texts) \cup (min .. max)
  <1> DEFINE t == RangeText(min, max)
             n == Len(texts)
             longer == Append(texts, t)
  <1>1. t \in Seq(Nat) /\ t # <<>> /\ t[1] = min /\ Last(t) = max
    BY DEF RangeText, Last, Follows
  <1>2. Span(t) = min .. max
    BY DEF RangeText, Span, Follows
  <1> HIDE DEF t
  <1>3. /\ longer \in Seq(Seq(Nat)) /\ Len(longer) = n + 1 /\ longer[n + 1] = t
        /\ n \in Nat /\ DOMAIN texts = 1..n /\ DOMAIN longer = 1..(n + 1)
        /\ \A j \in 1..n : longer[j] = texts[j]
    BY <1>1 DEF Follows
  <1>4. /\ n > 0 => Last(texts[n]) + 1 < min
        /\ \A j \in 1..n : texts[j] # <<>>
        /\ \A j \in 1..(n - 1) : Last(texts[j]) + 1 < texts[j + 1][1]
    BY DEF Follows, Spaced
  <1> HIDE DEF longer, n
  <1>5. Covered(longer) = Covered(texts) \cup Span(t)
    <2> DEFINE A == {Span(texts[j]) : j \in DOMAIN texts}
               B == {Span(longer[j]) : j \in DOMAIN longer}
    <2>1. \A x : x \in B <=> \E j \in 1..(n + 1) : x = Span(longer[j])
      BY <1>3
    <2>2. \A x : x \in A <=> \E j \in 1..n : x = Span(texts[j])
      BY <1>3
    <2>3. 1..(n + 1) = (1..n) \cup {n + 1}
      BY <1>3
    <2>4. Covered(longer) = UNION B /\ Covered(texts) = UNION A
      BY DEF Covered
    <2> HIDE DEF A, B
    <2>5. \A x : x \in B <=> x \in A \/ x = Span(t)
      BY <1>3, <2>1, <2>2, <2>3
    <2> QED BY <2>4, <2>5
  <1>6. \A j \in 1..n : Last(longer[j]) + 1 < longer[j + 1][1]
    <2> TAKE j \in 1..n
    <2>1. CASE j = n
      BY <1>1, <1>3, <1>4, <2>1
    <2>2. CASE j # n
      <3>1. j \in 1..(n - 1) /\ j + 1 \in 1..n
        BY <1>3, <2>2
      <3> QED BY <1>3, <1>4, <3>1
    <2> QED BY <2>1, <2>2
  <1>7. \A j \in 1..(n + 1) : longer[j] # <<>>
    <2> TAKE j \in 1..(n + 1)
    <2>1. j \in 1..n \/ j = n + 1
      BY <1>3
    <2> QED BY <1>1, <1>3, <1>4, <2>1
  <1>8. Spaced(longer)
    BY <1>3, <1>6, <1>7 DEF Spaced
  <1> QED BY <1>1, <1>2, <1>3, <1>5, <1>8 DEF longer, n, t

\* A turn takes one value more into the range at hand or begins another one.
LEMMA VisitGathers ==
    ASSUME NEW sorted \in Seq(Nat), NEW i \in 1..Len(sorted), NEW p \in 1..i,
           p = i - 1 \/ (p = 1 /\ i = 1),
           \A j, k \in 1..Len(sorted) : j < k => sorted[j] < sorted[k],
           NEW run, Gathered(run, sorted, p)
    PROVE  Gathered(Visit(run, sorted[i]), sorted, i)
  <1> DEFINE value == sorted[i]
             next == Visit(run, value)
  <1>1. /\ value \in Nat /\ run \in Runs /\ next \in Runs
        /\ run.min \in Nat /\ run.max \in Nat /\ run.texts \in Seq(Seq(Nat))
    <2>1. run \in Runs /\ value \in Nat
      BY DEF Gathered
    <2>2. next \in Runs
      BY <2>1, VisitTyped
    <2> QED BY <2>1, <2>2 DEF Runs
  <1>2. /\ run.max = sorted[p] /\ run.prev = sorted[p] /\ Follows(run.texts, run.min, run.max)
        /\ run.min <= run.max /\ run.prev \in Nat
        /\ Covered(run.texts) \cup (run.min .. run.max) = {sorted[k] : k \in 1..p}
    BY DEF Gathered, Follows, Runs
  <1>3. {sorted[k] : k \in 1..i} = {sorted[k] : k \in 1..p} \cup {value}
    <2>1. 1..i = (1..p) \cup {i}
      OBVIOUS
    <2> QED BY <2>1
  <1>4. sorted[p] \in Nat /\ sorted[p] <= value
    <2>1. p \in 1..Len(sorted) /\ (p = i \/ p < i)
      OBVIOUS
    <2> QED BY <2>1
  <1> HIDE DEF value, next
  <1>5. CASE value - run.prev > 1
    <2>1. /\ next.texts = Append(run.texts, RangeText(run.min, run.max))
          /\ next.min = value /\ next.max = value /\ next.prev = value
      BY <1>5 DEF Visit, next
    <2>2. /\ next.texts \in Seq(Seq(Nat)) /\ Len(next.texts) = Len(run.texts) + 1
          /\ Spaced(next.texts) /\ Last(next.texts[Len(next.texts)]) = run.max
          /\ Covered(next.texts) = Covered(run.texts) \cup (run.min .. run.max)
      BY <1>2, <2>1, RangeAppended
    <2>3. value .. value = {value}
      BY <1>1
    <2>4. Covered(next.texts) \cup (next.min .. next.max) = {sorted[k] : k \in 1..i}
      BY <1>2, <1>3, <2>1, <2>2, <2>3
    <2>5. run.max + 1 < value
      BY <1>1, <1>2, <1>5
    <2>6. Follows(next.texts, next.min, next.max)
      BY <1>1, <2>1, <2>2, <2>5 DEF Follows
    <2> QED BY <1>1, <2>1, <2>4, <2>6 DEF Gathered, value, next
  <1>6. CASE ~(value - run.prev > 1)
    <2>1. /\ next.texts = run.texts /\ next.min = run.min
          /\ next.max = value /\ next.prev = value
      BY <1>1, <1>6 DEF Visit, Runs, next
    <2>2. value = run.max \/ value = run.max + 1
      BY <1>1, <1>2, <1>4, <1>6
    <2>3. run.min .. value = (run.min .. run.max) \cup {value}
      BY <1>1, <1>2, <2>2
    <2>4. Covered(next.texts) \cup (next.min .. next.max) = {sorted[k] : k \in 1..i}
      BY <1>2, <1>3, <2>1, <2>3
    <2>5. Follows(next.texts, next.min, next.max)
      BY <1>1, <1>2, <2>1, <2>2 DEF Follows
    <2> QED BY <1>1, <2>1, <2>4, <2>5 DEF Gathered, value, next
  <1> QED BY <1>5, <1>6 DEF next, value

\* simplifyLiteral writes a literal of the values it has, the shortest one.
LEMMA SimplifiedSays ==
    ASSUME NEW values \in SUBSET Nat, IsFiniteSet(values), values # {}
    PROVE  /\ Simplified(values) \in Seq(Seq(Nat)) \ {<<>>} /\ Simplified(values) # Empty
           /\ Expand(Simplified(values)) = values /\ Spaced(Simplified(values))
  <1> DEFINE sorted == Sorted(values)
             n == Len(sorted)
             run == Visited(sorted)
             l == Simplified(values)
  <1>1. /\ sorted \in Seq(values) /\ n \in Nat /\ n > 0
        /\ \A v \in values : \E i \in 1..n : sorted[i] = v
        /\ \A i, j \in 1..n : i < j => sorted[i] < sorted[j]
    BY SortedValues
  <1>2. sorted \in Seq(Nat)
    <2> HIDE DEF sorted
    <2>1. \A i \in 1..n : sorted[i] \in values
      BY <1>1
    <2>2. \A i \in 1..n : sorted[i] \in Nat
      BY <2>1
    <2> QED BY <1>1, <2>2
  <1> HIDE DEF sorted
  <1>3. /\ run[0] = [texts |-> <<>>, min |-> sorted[1], max |-> sorted[1], prev |-> sorted[1]]
        /\ \A i \in 1..n : run[i] = Visit(run[i - 1], sorted[i])
    BY <1>1, <1>2, LoopOfSimplify
  <1> HIDE DEF run
  <1>4. Gathered(run[n], sorted, n)
    <2> DEFINE T == {i \in 0..n : Gathered(run[i], sorted, IF i = 0 THEN 1 ELSE i)}
    <2>1. 0 \in T
      <3>1. run[0] \in Runs /\ run[0].texts = <<>>
        BY <1>1, <1>2, <1>3 DEF Runs
      <3>2. Covered(<<>>) = {} /\ Spaced(<<>>)
        BY DEF Covered, Spaced
      <3>3. sorted[1] .. sorted[1] = {sorted[k] : k \in 1..1}
        BY <1>1, <1>2
      <3>4. Gathered(run[0], sorted, 1)
        BY <1>1, <1>2, <1>3, <3>1, <3>2, <3>3 DEF Gathered, Follows
      <3> QED BY <1>1, <3>4
    <2>2. ASSUME NEW i \in 1..n, i - 1 \in T PROVE i \in T
      <3> DEFINE p == IF i = 1 THEN 1 ELSE i - 1
      <3>1. p \in 1..i /\ (p = i - 1 \/ (p = 1 /\ i = 1)) /\ Gathered(run[i - 1], sorted, p)
        BY <2>2
      <3> HIDE DEF p
      <3>2. Gathered(Visit(run[i - 1], sorted[i]), sorted, i)
        BY <1>1, <1>2, <3>1, VisitGathers
      <3> QED BY <1>3, <3>2
    <2> HIDE DEF T
    <2>3. 0..n \subseteq T
      BY <1>1, <2>1, <2>2, TurnInduction
    <2>4. n \in T
      BY <1>1, <2>3
    <2> QED BY <1>1, <2>4 DEF T
  <1> DEFINE r == run[n]
  <1>5. l = Append(r.texts, RangeText(r.min, r.max))
    BY DEF Simplified, run, sorted
  <1>6. /\ Follows(r.texts, r.min, r.max)
        /\ Covered(r.texts) \cup (r.min .. r.max) = {sorted[k] : k \in 1..n}
    BY <1>4 DEF Gathered
  <1> HIDE DEF l, r, n
  <1>7. /\ l \in Seq(Seq(Nat)) /\ Len(l) = Len(r.texts) + 1 /\ Spaced(l)
        /\ Covered(l) = {sorted[k] : k \in 1..n}
    <2>1. /\ l \in Seq(Seq(Nat)) /\ Len(l) = Len(r.texts) + 1 /\ Spaced(l)
          /\ Covered(l) = Covered(r.texts) \cup (r.min .. r.max)
      BY <1>5, <1>6, RangeAppended
    <2> QED BY <1>6, <2>1
  <1>8. {sorted[k] : k \in 1..n} = values
    <2>1. \A k \in 1..n : sorted[k] \in values
      BY <1>1 DEF n
    <2> QED BY <1>1, <2>1 DEF n
  <1>9. /\ l # <<>> /\ Len(l) \in Nat /\ Len(l) > 0 /\ Last(l) # <<>> /\ l # Empty
    BY <1>6, <1>7 DEF Spaced, Last, Empty, Follows
  <1>10. Expand(l) = Covered(l)
    <2>1. Ranges(l) = l
      BY <1>9 DEF Ranges
    <2> QED BY <2>1 DEF Expand, Covered, ToSet
  <1> QED BY <1>7, <1>8, <1>9, <1>10 DEF l

----------------------------------------------------------------------------
\* A literal says finitely many values.
LEMMA ExpandFinite ==
    ASSUME NEW l \in Seq(Seq(Nat)) \ {<<>>}
    PROVE  IsFiniteSet(Expand(l)) /\ Expand(l) \in SUBSET Nat
  <1> DEFINE r == Ranges(l)
             f == [i \in 1..Len(r) |-> Span(r[i])]
             S == {Span(r[i]) : i \in 1..Len(r)}
  <1>1. r \in Seq(Seq(Nat))
    BY DEF Ranges, Front
  <1> HIDE DEF r
  <1>2. \A i \in 1..Len(r) : r[i] \in Seq(Nat) /\ Len(r) \in Nat
    BY <1>1
  <1>3. ASSUME NEW t \in Seq(Nat) PROVE IsFiniteSet(Span(t)) /\ Span(t) \subseteq Nat
    <2>1. CASE t = <<>>
      <3>1. Span(t) = {0}
        BY <2>1 DEF Span
      <3>2. IsFiniteSet({0})
        BY FS_Singleton
      <3> QED BY <3>1, <3>2
    <2>2. CASE t # <<>>
      <3> DEFINE max == IF Len(t) = 1 THEN t[1] ELSE t[2]
      <3>1. t[1] \in Nat /\ max \in Nat
        <4>1. Len(t) \in Nat /\ Len(t) > 0 /\ \A i \in 1..Len(t) : t[i] \in Nat
          BY <2>2
        <4>2. t[1] \in Nat
          BY <4>1
        <4>3. Len(t) = 1 \/ Len(t) >= 2
          <5> DEFINE n == Len(t)
          <5>1. n \in Nat /\ n > 0
            BY <4>1
          <5> HIDE DEF n
          <5>2. n = 1 \/ n >= 2
            BY <5>1
          <5> QED BY <5>2 DEF n
        <4>4. Len(t) # 1 => t[2] \in Nat
          BY <4>1, <4>3
        <4> QED BY <4>2, <4>4
      <3>2. Span(t) = t[1] .. max
        BY <2>2 DEF Span
      <3> HIDE DEF max
      <3>3. IsFiniteSet(t[1] .. max)
        BY <3>1, FS_Interval
      <3>4. t[1] .. max \subseteq Nat
        BY <3>1
      <3> QED BY <3>2, <3>3, <3>4
    <2> QED BY <2>1, <2>2
  <1>4. IsFiniteSet(S)
    <2>1. Len(r) \in Nat /\ IsFiniteSet(1..Len(r))
      BY <1>1, FS_Interval
    <2>2. f \in Surjection(1..Len(r), S)
      BY DEF Surjection
    <2> HIDE DEF f, S
    <2> QED BY <2>1, <2>2, FS_Surjection
  <1>5. Expand(l) = UNION S
    <2>1. DOMAIN r = 1..Len(r)
      BY <1>1
    <2> QED BY <2>1 DEF Expand, ToSet, r
  <1>6. \A s \in S : IsFiniteSet(s) /\ s \subseteq Nat
    BY <1>2, <1>3
  <1> HIDE DEF S
  <1>7. IsFiniteSet(UNION S)
    BY <1>4, <1>6, FS_UNION
  <1> QED BY <1>5, <1>6, <1>7

\* The empty literal is one empty text.
LEMMA EmptyMeans ==
    ASSUME NEW l \in Seq(Seq(Nat))
    PROVE  l = Empty <=> Len(l) = 1 /\ l[1] = <<>>
  <1>1. Len(Empty) = 1 /\ Empty[1] = <<>> /\ Empty \in Seq(Seq(Nat))
    BY DEF Empty
  <1>2. ASSUME Len(l) = 1, l[1] = <<>> PROVE l = Empty
    <2>1. \A i \in 1..Len(l) : l[i] = Empty[i]
      BY <1>1, <1>2
    <2> QED BY <1>1, <1>2, <2>1
  <1> QED BY <1>1, <1>2

\* The values of a literal with a comma and another one after it.
LEMMA ExpandJoined ==
    ASSUME NEW k \in Seq(Seq(Nat)) \ {<<>>}, NEW l \in Seq(Seq(Nat)) \ {<<>>}, l # Empty
    PROVE  Expand(k \o l) = (IF k = Empty THEN {} ELSE Expand(k)) \cup Expand(l)
                             \cup (IF Last(k) = <<>> THEN {0} ELSE {})
  <1> DEFINE ValuesOf(m, n) == UNION {Span(m[i]) : i \in 1..n}
  <1>1. \A m \in Seq(Seq(Nat)) \ {<<>>} :
            Expand(m) = ValuesOf(m, IF Len(m) > 1 /\ m[Len(m)] = <<>> THEN Len(m) - 1 ELSE Len(m))
    <2> TAKE m \in Seq(Seq(Nat)) \ {<<>>}
    <2>1. CASE Len(m) > 1 /\ m[Len(m)] = <<>>
      <3>1. Ranges(m) = SubSeq(m, 1, Len(m) - 1)
        BY <2>1 DEF Ranges, Last, Front
      <3>2. /\ DOMAIN Ranges(m) = 1..(Len(m) - 1)
            /\ \A i \in 1..(Len(m) - 1) : Ranges(m)[i] = m[i]
        BY <2>1, <3>1
      <3>3. {Span(t) : t \in ToSet(Ranges(m))} = {Span(m[i]) : i \in 1..(Len(m) - 1)}
        BY <3>2 DEF ToSet
      <3> QED BY <2>1, <3>3 DEF Expand
    <2>2. CASE ~(Len(m) > 1 /\ m[Len(m)] = <<>>)
      <3>1. Ranges(m) = m /\ DOMAIN m = 1..Len(m)
        BY <2>2 DEF Ranges, Last
      <3>2. {Span(t) : t \in ToSet(Ranges(m))} = {Span(m[i]) : i \in 1..Len(m)}
        BY <3>1 DEF ToSet
      <3> QED BY <2>2, <3>2 DEF Expand
    <2> QED BY <2>1, <2>2
  <1> DEFINE a == Len(k)
             b == Len(l)
             last == IF b > 1 /\ l[b] = <<>> THEN b - 1 ELSE b
  <1>2. /\ a \in Nat /\ a > 0 /\ b \in Nat /\ b > 0 /\ last \in 1..b
        /\ k \o l \in Seq(Seq(Nat)) \ {<<>>} /\ Len(k \o l) = a + b
        /\ \A i \in 1..a : (k \o l)[i] = k[i]
        /\ \A i \in 1..b : (k \o l)[a + i] = l[i]
    OBVIOUS
  <1>3. l[b] = <<>> => b > 1
    <2>1. ~(b = 1 /\ l[1] = <<>>)
      BY EmptyMeans
    <2> HIDE DEF b
    <2> SUFFICES ASSUME l[b] = <<>>, ~(b > 1) PROVE FALSE
      OBVIOUS
    <2>2. b = 1
      BY <1>2
    <2> QED BY <2>1, <2>2
  <1> HIDE DEF a, b
  <1>4. Expand(k \o l) = ValuesOf(k \o l, a + last)
    <2>1. Len(k \o l) > 1 /\ (k \o l)[a + b] = l[b]
      BY <1>2
    <2>2. CASE l[b] = <<>>
      <3>1. (a + b) - 1 = a + last
        BY <1>2, <1>3, <2>2
      <3> HIDE DEF last, ValuesOf
      <3> QED BY <1>1, <1>2, <2>1, <2>2, <3>1
    <2>3. CASE l[b] # <<>>
      <3>1. last = b
        BY <2>3
      <3> HIDE DEF last, ValuesOf
      <3> QED BY <1>1, <1>2, <2>1, <2>3, <3>1
    <2> QED BY <2>2, <2>3
  <1>5. Expand(l) = ValuesOf(l, last)
    <2> HIDE DEF ValuesOf
    <2> QED BY <1>1 DEF b
  <1> HIDE DEF last
  <1>6. ValuesOf(k \o l, a + last) = ValuesOf(k, a) \cup ValuesOf(l, last)
    <2>1. ASSUME NEW x
          PROVE  (\E i \in 1..(a + last) : x \in Span((k \o l)[i]))
                   <=> (\E i \in 1..a : x \in Span(k[i])) \/ (\E i \in 1..last : x \in Span(l[i]))
      <3>1. ASSUME NEW i \in 1..(a + last), x \in Span((k \o l)[i])
            PROVE  (\E j \in 1..a : x \in Span(k[j])) \/ (\E j \in 1..last : x \in Span(l[j]))
        <4>1. CASE i <= a
          <5>1. i \in 1..a
            BY <4>1
          <5> QED BY <1>2, <3>1, <5>1
        <4>2. CASE ~(i <= a)
          <5>1. i - a \in 1..last /\ i - a \in 1..b /\ a + (i - a) = i
            BY <1>2, <4>2
          <5>2. (k \o l)[i] = l[i - a]
            BY <1>2, <5>1
          <5> QED BY <3>1, <5>1, <5>2
        <4> QED BY <4>1, <4>2
      <3>2. \A i \in 1..a : i \in 1..(a + last) /\ (k \o l)[i] = k[i]
        BY <1>2
      <3>3. \A i \in 1..last : a + i \in 1..(a + last) /\ (k \o l)[a + i] = l[i]
        BY <1>2
      <3> QED BY <3>1, <3>2, <3>3
    <2> QED BY <2>1
  <1>7. ValuesOf(k, a) = (IF k = Empty THEN {} ELSE Expand(k))
                            \cup (IF Last(k) = <<>> THEN {0} ELSE {})
    <2>1. Last(k) = k[a] /\ Span(<<>>) = {0}
      BY DEF Last, a, Span
    <2>2. CASE k[a] # <<>>
      <3>1. Expand(k) = ValuesOf(k, a) /\ k # Empty
        <4>1. k # Empty
          BY <1>2, <2>2, EmptyMeans DEF a
        <4> HIDE DEF ValuesOf
        <4> QED BY <1>1, <2>2, <4>1 DEF a
      <3> QED BY <2>1, <2>2, <3>1
    <2>3. CASE k[a] = <<>> /\ a = 1
      <3>1. k = Empty
        BY <2>3, EmptyMeans DEF a
      <3>2. ValuesOf(k, a) = {0}
        BY <2>1, <2>3
      <3> QED BY <2>1, <2>3, <3>1, <3>2
    <2>4. CASE k[a] = <<>> /\ a # 1
      <3>1. k # Empty /\ a > 1
        <4>1. k = Empty <=> a = 1 /\ k[1] = <<>>
          BY EmptyMeans DEF a
        <4> QED BY <1>2, <2>4, <4>1
      <3>2. Expand(k) = ValuesOf(k, a - 1)
        <4> HIDE DEF ValuesOf
        <4> QED BY <1>1, <2>4, <3>1 DEF a
      <3>3. ValuesOf(k, a) = ValuesOf(k, a - 1) \cup Span(k[a])
        <4>1. 1..a = (1..(a - 1)) \cup {a}
          BY <1>2
        <4> QED BY <4>1
      <3> QED BY <2>1, <2>4, <3>1, <3>2, <3>3
    <2> QED BY <2>2, <2>3, <2>4
  <1> HIDE DEF ValuesOf
  <1> QED BY <1>4, <1>5, <1>6, <1>7

----------------------------------------------------------------------------
\* The types, and a finite std::map: what the loop over it needs.
ExpressionTyped ==
    /\ literal \in Seq(Seq(Nat)) \ {<<>>}
    /\ data \in SUBSET Nat /\ IsFiniteSet(data)

ExpressionInv == ExpressionTyped /\ AlignedUnlessEmpty

\* What a setter stores is a literal, and its values.
LEMMA Refreshed ==
    ASSUME ExpressionTyped, NEW l \in Seq(Seq(Nat)) \ {<<>>}
    PROVE  /\ Refresh(l) \in SUBSET Nat /\ IsFiniteSet(Refresh(l))
           /\ l # Empty => Refresh(l) = Expand(l)
  BY ExpandFinite DEF Refresh, ExpressionTyped

\* A literal that something was added to is not empty.
LEMMA JoinedTyped ==
    ASSUME NEW k \in Seq(Seq(Nat)) \ {<<>>}, NEW l \in Seq(Seq(Nat)) \ {<<>>}
    PROVE  k \o l \in Seq(Seq(Nat)) \ {<<>>} /\ k \o l # Empty
  <1>1. k \o l \in Seq(Seq(Nat)) /\ Len(k \o l) = Len(k) + Len(l)
    OBVIOUS
  <1> DEFINE a == Len(k)
             b == Len(l)
  <1>2. a \in Nat /\ b \in Nat /\ a > 0 /\ b > 0
    OBVIOUS
  <1> HIDE DEF a, b
  <1>3. a + b # 0 /\ a + b # 1
    BY <1>2
  <1>4. Len(k \o l) # 0 /\ Len(k \o l) # 1
    BY <1>1, <1>3 DEF a, b
  <1>5. k \o l # <<>>
    BY <1>4
  <1>6. k \o l # Empty
    BY <1>1, <1>4, EmptyMeans
  <1> QED BY <1>1, <1>5, <1>6

\* The expression's own calls, and the AVP's, keep literal and values aligned.
LEMMA ExpressionStep ==
    ASSUME ExpressionInv, Next
    PROVE  ExpressionInv'
  <1> USE DEF ExpressionInv, ExpressionTyped, AlignedUnlessEmpty
  <1>1. ASSUME NEW l \in Literals, SetLiteral(l) PROVE ExpressionInv'
    BY <1>1, LiteralsAssumption, Refreshed DEF SetLiteral
  <1>2. ASSUME NEW l \in Literals, AddLiteral(l) PROVE ExpressionInv'
    <2>1. literal \o l \in Seq(Seq(Nat)) \ {<<>>} /\ literal \o l # Empty
      BY LiteralsAssumption, JoinedTyped
    <2>2. literal' = literal \o l /\ data' = Refresh(literal \o l)
      BY <1>2 DEF AddLiteral
    <2> QED BY <2>1, <2>2, Refreshed
  <1>3. ASSUME SimplifyLiteral PROVE ExpressionInv'
    BY <1>3, SimplifiedSays DEF SimplifyLiteral
  <1> QED BY <1>1, <1>2, <1>3 DEF Next

\* So do the calls of an AVP on its expression, exports and loads included.
LEMMA EnumerationStep ==
    ASSUME ExpressionInv, [EnumNext]_enumVars
    PROVE  ExpressionInv'
  <1> USE DEF ExpressionInv, ExpressionTyped, AlignedUnlessEmpty
  <1>1. ASSUME Alone PROVE ExpressionInv'
    <2>1. Next
      BY <1>1 DEF Alone
    <2> HIDE DEF ExpressionInv
    <2> QED BY <2>1, ExpressionStep
  <1>2. ASSUME NEW l \in Literals, SetEnums(l) PROVE ExpressionInv'
    BY <1>2, LiteralsAssumption, Refreshed DEF SetEnums, SetLiteral
  <1>3. ASSUME NEW l \in Literals, AddEnums(l) PROVE ExpressionInv'
    <2>1. /\ data' = IF l = Empty THEN data ELSE Refresh(Joined(l))
          /\ literal' = IF data' = {} THEN Joined(l) ELSE Simplified(data')
      BY <1>3 DEF AddEnums
    <2>2. /\ Joined(l) \in Seq(Seq(Nat)) \ {<<>>}
          /\ l = Empty => Joined(l) = literal
          /\ l # Empty => Joined(l) # Empty
      BY LiteralsAssumption, JoinedTyped DEF Joined
    <2>3. /\ data' \in SUBSET Nat /\ IsFiniteSet(data')
          /\ Joined(l) # Empty => data' = Expand(Joined(l))
      BY <2>1, <2>2, Refreshed
    <2>4. CASE data' = {}
      BY <2>1, <2>2, <2>3, <2>4
    <2>5. CASE data' # {}
      BY <2>1, <2>3, <2>5, SimplifiedSays
    <2> QED BY <2>4, <2>5
  <1>4. ASSUME ExportAndLoad PROVE ExpressionInv'
    <2>1. /\ EnumsWritten \in Seq(Seq(Nat)) \ {<<>>} /\ literal' = EnumsWritten
          /\ data' = IF EnumsWritten = Empty THEN {} ELSE Expand(EnumsWritten)
      BY <1>4 DEF ExportAndLoad, EnumsWritten, Empty
    <2>2. IsFiniteSet({})
      BY FS_EmptySet
    <2> QED BY <2>1, <2>2, ExpandFinite
  <1>5. ASSUME NEW text \in Texts, NEW alias \in Aliases, AddLabel(text, alias)
        PROVE  ExpressionInv'
    BY <1>5 DEF AddLabel
  <1>6. ASSUME UNCHANGED enumVars PROVE ExpressionInv'
    BY <1>6 DEF enumVars
  <1> QED BY <1>1, <1>2, <1>3, <1>4, <1>5, <1>6 DEF EnumNext

\* A new expression is empty and has no values.
LEMMA ExpressionInitially == Init => ExpressionInv
  <1>1. IsFiniteSet({})
    BY FS_EmptySet
  <1> QED BY <1>1 DEF Init, ExpressionInv, ExpressionTyped, AlignedUnlessEmpty, Empty

\* Whatever is called on an expression, a literal that is not empty and its
\* values agree.
THEOREM ExpressionAligned == Spec => []AlignedUnlessEmpty
  <1>1. ExpressionInv /\ [Next]_vars => ExpressionInv'
    <2>1. ExpressionInv /\ UNCHANGED vars => ExpressionInv'
      BY DEF vars, ExpressionInv, ExpressionTyped, AlignedUnlessEmpty
    <2> QED BY <2>1, ExpressionStep
  <1>2. ExpressionInv => AlignedUnlessEmpty
    BY DEF ExpressionInv
  <1> QED BY <1>1, <1>2, ExpressionInitially, PTL DEF Spec

\* The invariant of an expression that an AVP may have.
LEMMA EnumerationInvariance == EnumSpec => []ExpressionInv
  <1>1. EnumInit => ExpressionInv
    BY ExpressionInitially DEF EnumInit
  <1> QED BY <1>1, EnumerationStep, PTL DEF EnumSpec

\* The same for the expression of an AVP.
THEOREM EnumerationAligned == EnumSpec => []AlignedUnlessEmpty
  <1>1. ExpressionInv => AlignedUnlessEmpty
    BY DEF ExpressionInv
  <1> QED BY <1>1, EnumerationInvariance, PTL

\* simplifyLiteral leaves no two ranges that could be one.
THEOREM SimplifiedAlwaysShortest == EnumSpec => SimplifiedIsShortest
  <1> DEFINE Shortest ==
        SimplifyLiteral /\ data # {} =>
            \A i \in 1 .. Len(literal') - 1 : Last(literal'[i]) + 1 < literal'[i + 1][1]
  <1>1. ExpressionInv => Shortest
    BY SimplifiedSays DEF ExpressionInv, ExpressionTyped, SimplifyLiteral, Spaced
  <1>2. ExpressionInv => [Shortest]_vars
    BY <1>1
  <1> HIDE DEF Shortest
  <1>3. EnumSpec => [][Shortest]_vars
    BY <1>2, EnumerationInvariance, PTL
  <1> QED BY <1>3 DEF SimplifiedIsShortest, Shortest

\* An addition keeps the values there were and brings those it says, and the 0
\* of an empty text before its comma.
THEOREM AdditionAlwaysBrings == EnumSpec => AddingBringsItsValues
  <1> DEFINE Brings(l) ==
        (owner = "none" /\ AddLiteral(l)) \/ AddEnums(l) =>
            data' = (IF literal = Empty THEN {} ELSE data) \cup Expand(l)
                    \cup (IF Last(literal) = <<>> THEN {0} ELSE {})
  <1>1. ASSUME ExpressionInv, NEW l \in Literals \ {Empty} PROVE Brings(l)
    <2> USE <1>1 DEF ExpressionInv, ExpressionTyped, AlignedUnlessEmpty
    <2>1. l \in Seq(Seq(Nat)) \ {<<>>} /\ l # Empty
      BY LiteralsAssumption
    <2>2. literal \o l # Empty
      BY <2>1, JoinedTyped
    <2>3. AddLiteral(l) \/ AddEnums(l) => data' = Expand(literal \o l)
      BY <2>1, <2>2 DEF AddLiteral, AddEnums, Joined, Refresh
    <2>4. Expand(literal \o l) = (IF literal = Empty THEN {} ELSE Expand(literal)) \cup Expand(l)
                                 \cup (IF Last(literal) = <<>> THEN {0} ELSE {})
      BY <2>1, ExpandJoined
    <2> QED BY <2>3, <2>4
  <1>2. ExpressionInv => [\A l \in Literals \ {Empty} : Brings(l)]_enumVars
    BY <1>1
  <1> HIDE DEF Brings
  <1>3. EnumSpec => [][\A l \in Literals \ {Empty} : Brings(l)]_enumVars
    BY <1>2, EnumerationInvariance, PTL
  <1> QED BY <1>3 DEF AddingBringsItsValues, Brings

----------------------------------------------------------------------------
\* Labels are found under texts, one for each number.
LabelsInv ==
    /\ labels = [t \in DOMAIN labels |-> labels[t]]
    /\ IsFiniteSet(DOMAIN labels) /\ DOMAIN labels \subseteq Texts
    /\ \A t, u \in DOMAIN labels : NumberIn[t] = NumberIn[u] => t = u

\* The loop of extractAvps over the labels of a document gives back the labels
\* it was written from: after i of them, those of the first i texts.
LEMMA LabelsRestored ==
    ASSUME LabelsInv
    PROVE  LabelsLoaded = labels
  <1> DEFINE texts == DOMAIN labels
             before == [t \in texts |-> {u \in texts : NumberIn[u] < NumberIn[t]}]
             sorted == InKeyOrder(before)
             N == Cardinality(DOMAIN before)
             n == Len(sorted)
             first(i) == {sorted[k] : k \in 1..i}
             Turns(f) == f = [i \in 0..n |->
                                IF i = 0 THEN NoLabels
                                ELSE WithLabel(f[i - 1], sorted[i], labels[sorted[i]])]
  <1>1. IsOrder(before)
    <2>1. \A t \in texts : NumberIn[t] \in Int
      BY NumberAssumption DEF LabelsInv
    <2>2. DOMAIN before = texts /\ \A t, u \in texts : u \in before[t] <=> NumberIn[u] < NumberIn[t]
      OBVIOUS
    <2>3. \A t \in texts : before[t] \subseteq texts
      OBVIOUS
    <2> HIDE DEF before
    <2>4. ASSUME NEW t \in texts, NEW u \in texts, u \in before[t], NEW x \in before[u]
          PROVE  x \in before[t]
      <3>1. x \in texts /\ NumberIn[u] < NumberIn[t] /\ NumberIn[x] < NumberIn[u]
        BY <2>2, <2>3, <2>4
      <3> QED BY <2>1, <2>2, <3>1
    <2>5. \A t, u \in texts :
            t \notin before[t] /\ (t # u => t \in before[u] \/ u \in before[t])
      BY <2>1, <2>2 DEF LabelsInv
    <2>6. IsFiniteSet(texts)
      BY DEF LabelsInv
    <2> HIDE DEF texts
    <2> QED BY <2>2, <2>3, <2>4, <2>5, <2>6 DEF IsOrder
  <1>2. /\ n \in Nat /\ DOMAIN sorted = 1..n
        /\ \A i \in 1..n : sorted[i] \in texts
        /\ \A t \in texts : \E i \in 1..n : sorted[i] = t
        /\ \A i, j \in 1..n : i < j => sorted[i] # sorted[j]
    <2>1. DOMAIN before = texts
      OBVIOUS
    <2>2. \A t \in texts : t \notin before[t]
      BY <1>1, <2>1 DEF IsOrder
    <2> HIDE DEF before, texts
    <2>3. /\ N \in Nat /\ sorted \in [1..N -> texts]
          /\ \A t \in texts : \E i \in DOMAIN sorted : sorted[i] = t
          /\ \A i, j \in DOMAIN sorted : i < j <=> sorted[i] \in before[sorted[j]]
      BY <1>1, <2>1, VisitsInOrder
    <2> HIDE DEF sorted, N
    <2>4. n = N
      BY <2>3
    <2> QED BY <2>2, <2>3, <2>4
  <1>3. LabelsLoaded = (CHOOSE f : Turns(f))[n]
    BY DEF LabelsLoaded
  <1> HIDE DEF before, sorted, n
  <1>4. NoLabels = [t \in first(0) |-> labels[t]]
    <2>1. first(0) = {}
      BY <1>2
    <2> QED BY <2>1 DEF NoLabels
  <1>5. ASSUME NEW i \in 1..n
        PROVE  WithLabel([t \in first(i - 1) |-> labels[t]], sorted[i], labels[sorted[i]])
                 = [t \in first(i) |-> labels[t]]
    <2> DEFINE m == [t \in first(i - 1) |-> labels[t]]
    <2>1. first(i) = first(i - 1) \cup {sorted[i]}
      <3>1. 1..i = (1..(i - 1)) \cup {i}
        OBVIOUS
      <3> QED BY <3>1
    <2>2. \A t \in first(i - 1) : t \in texts /\ t # sorted[i]
      <3>1. \A k \in 1..(i - 1) : k \in 1..n /\ k < i
        BY <1>2
      <3> QED BY <1>2, <3>1
    <2>3. SameNumber(m, sorted[i]) = {}
      BY <1>2, <2>2 DEF SameNumber, LabelsInv
    <2>4. DOMAIN m = first(i - 1) /\ \A t \in first(i - 1) : m[t] = labels[t]
      OBVIOUS
    <2> HIDE DEF m, first
    <2>5. WithLabel(m, sorted[i], labels[sorted[i]])
            = [t \in first(i - 1) \cup {sorted[i]} |->
                  IF t \in {sorted[i]} THEN labels[sorted[i]] ELSE m[t]]
      BY <2>3, <2>4 DEF WithLabel
    <2>6. WithLabel(m, sorted[i], labels[sorted[i]]) = [t \in first(i) |-> labels[t]]
      BY <2>1, <2>4, <2>5
    <2> QED BY <2>6 DEF m
  <1> HIDE DEF first
  <1>6. \E f : Turns(f)
    <2> DEFINE g == [i \in 0..n |-> [t \in first(i) |-> labels[t]]]
    <2>1. ASSUME NEW i \in 0..n
          PROVE  g[i] = IF i = 0 THEN NoLabels
                        ELSE WithLabel(g[i - 1], sorted[i], labels[sorted[i]])
      <3>1. CASE i = 0
        BY <1>4, <3>1
      <3>2. CASE i # 0
        <4>1. i \in 1..n /\ i - 1 \in 0..n
          BY <1>2, <3>2
        <4>2. g[i - 1] = [t \in first(i - 1) |-> labels[t]]
          BY <4>1
        <4> QED BY <1>5, <3>2, <4>1, <4>2
      <3> QED BY <3>1, <3>2
    <2>2. Turns(g)
      BY <2>1
    <2> HIDE DEF g, Turns
    <2> QED BY <2>2
  <1> DEFINE v == CHOOSE f : Turns(f)
  <1>7. Turns(v)
    <2> HIDE DEF Turns
    <2> QED BY <1>6
  <1> HIDE DEF v
  <1>8. v[n] = [t \in first(n) |-> labels[t]]
    <2> DEFINE T == {i \in 0..n : v[i] = [t \in first(i) |-> labels[t]]}
    <2>1. 0 \in T
      BY <1>2, <1>4, <1>7
    <2>2. ASSUME NEW i \in 1..n, i - 1 \in T PROVE i \in T
      <3>1. v[i] = WithLabel(v[i - 1], sorted[i], labels[sorted[i]])
        BY <1>2, <1>7
      <3>2. v[i - 1] = [t \in first(i - 1) |-> labels[t]]
        BY <2>2
      <3>3. v[i] = [t \in first(i) |-> labels[t]]
        BY <1>5, <3>1, <3>2
      <3> QED BY <1>2, <3>3
    <2> HIDE DEF T
    <2>3. 0..n \subseteq T
      BY <1>2, <2>1, <2>2, TurnInduction
    <2> QED BY <1>2, <2>3 DEF T
  <1>9. first(n) = texts
    BY <1>2 DEF first
  <1> HIDE DEF texts, Turns
  <1>10. LabelsLoaded = [t \in texts |-> labels[t]]
    BY <1>3, <1>8, <1>9 DEF v
  <1> QED BY <1>10 DEF LabelsInv, texts

\* No two texts of the labels ever say the same number.
LEMMA LabelsStep ==
    ASSUME LabelsInv, [EnumNext]_enumVars
    PROVE  LabelsInv'
  <1>1. ASSUME UNCHANGED labels PROVE LabelsInv'
    BY <1>1 DEF LabelsInv
  <1>2. ASSUME NEW text \in Texts, NEW alias \in Aliases, AddLabel(text, alias)
        PROVE  LabelsInv'
    <2> DEFINE same == SameNumber(labels, text)
               key == IF same = {} THEN {text} ELSE same
    <2>1. labels' = [t \in DOMAIN labels \cup key |-> IF t \in key THEN alias ELSE labels[t]]
      BY <1>2 DEF AddLabel, WithLabel
    <2>2. \E k \in Texts : key = {k} /\ NumberIn[k] = NumberIn[text]
      BY DEF SameNumber, LabelsInv
    <2>3. \A t \in DOMAIN labels : NumberIn[t] = NumberIn[text] => t \in key
      BY DEF SameNumber
    <2> HIDE DEF key
    <2>4. PICK k \in Texts : key = {k} /\ NumberIn[k] = NumberIn[text]
      BY <2>2
    <2>5. DOMAIN labels' = DOMAIN labels \cup {k}
      BY <2>1, <2>4
    <2>6. IsFiniteSet(DOMAIN labels')
      BY <2>5, FS_AddElement DEF LabelsInv
    <2>7. \A t, u \in DOMAIN labels' : NumberIn[t] = NumberIn[u] => t = u
      BY <2>3, <2>4, <2>5 DEF LabelsInv
    <2>8. labels' = [t \in DOMAIN labels' |-> labels'[t]]
      BY <2>1
    <2>9. DOMAIN labels' \subseteq Texts
      BY <2>4, <2>5 DEF LabelsInv
    <2> QED BY <2>6, <2>7, <2>8, <2>9 DEF LabelsInv
  <1>3. ASSUME ExportAndLoad PROVE UNCHANGED labels
    BY <1>3, LabelsRestored DEF ExportAndLoad
  <1> QED
    BY <1>1, <1>2, <1>3 DEF EnumNext, Alone, SetEnums, AddEnums, enumVars

\* What an export and a load leave of an enumeration is all of it.
THEOREM EnumerationAlwaysKept == EnumSpec => ExportKeepsEnums
  <1> DEFINE Kept ==
        ExportAndLoad =>
            /\ labels' = labels
            /\ owner = "Enumerated" /\ literal # Empty => data' = data
  <1>1. EnumInit => LabelsInv
    <2>1. IsFiniteSet({})
      BY FS_EmptySet
    <2> QED BY <2>1 DEF EnumInit, NoLabels, LabelsInv
  <1>2. EnumSpec => []LabelsInv
    BY <1>1, LabelsStep, PTL DEF EnumSpec
  <1>3. ExpressionInv /\ LabelsInv => [Kept]_enumVars
    BY LabelsRestored DEF ExportAndLoad, EnumsWritten, ExpressionInv, AlignedUnlessEmpty
  <1> HIDE DEF Kept
  <1>4. EnumSpec => [][Kept]_enumVars
    BY <1>2, <1>3, EnumerationInvariance, PTL
  <1> QED BY <1>4 DEF ExportKeepsEnums, Kept

\* Whatever labels there are, an alias given for a text is found under every
\* text of its number, and what is found under the others stays.
THEOREM AliasAlwaysOfTheNumber == EnumSpec => AliasIsOfTheNumber
  <1> DEFINE Gives(text, alias) ==
        \A t \in Texts :
            AliasOf(t)' = IF NumberIn[t] = NumberIn[text] THEN {alias} ELSE AliasOf(t)
  <1>1. ASSUME NEW text \in Texts, NEW alias \in Aliases, AddLabel(text, alias), NEW t \in Texts
        PROVE  AliasOf(t)' = IF NumberIn[t] = NumberIn[text] THEN {alias} ELSE AliasOf(t)
    <2> DEFINE same == SameNumber(labels, text)
               key == IF same = {} THEN {text} ELSE same
    <2>1. /\ DOMAIN labels' = DOMAIN labels \cup key
          /\ \A u \in DOMAIN labels' : labels'[u] = IF u \in key THEN alias ELSE labels[u]
      BY <1>1 DEF AddLabel, WithLabel
    <2>2. /\ key # {} /\ \A u \in key : NumberIn[u] = NumberIn[text]
          /\ \A u \in DOMAIN labels : NumberIn[u] = NumberIn[text] => u \in key
      BY DEF SameNumber
    <2> HIDE DEF key
    <2>3. AliasOf(t)' = {labels'[u] : u \in {v \in DOMAIN labels' : NumberIn[v] = NumberIn[t]}}
      BY DEF AliasOf, SameNumber
    <2>4. CASE NumberIn[t] = NumberIn[text]
      <3>1. {v \in DOMAIN labels' : NumberIn[v] = NumberIn[t]} = key
        BY <2>1, <2>2, <2>4
      <3> QED BY <2>1, <2>2, <2>3, <2>4, <3>1
    <2>5. CASE NumberIn[t] # NumberIn[text]
      <3>1. /\ {v \in DOMAIN labels' : NumberIn[v] = NumberIn[t]} = SameNumber(labels, t)
            /\ \A u \in SameNumber(labels, t) : labels'[u] = labels[u]
        BY <2>1, <2>2, <2>5 DEF SameNumber
      <3> QED BY <2>3, <2>5, <3>1 DEF AliasOf
    <2> QED BY <2>4, <2>5
  <1>2. [EnumNext]_enumVars =>
            [\A text \in Texts, alias \in Aliases : AddLabel(text, alias) =>
                Gives(text, alias)]_enumVars
    BY <1>1
  <1> QED BY <1>2, PTL DEF EnumSpec, AliasIsOfTheNumber
=============================================================================
