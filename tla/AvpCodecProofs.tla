--------------------------- MODULE AvpCodecProofs ---------------------------
(* What the operators of AvpCodec return, for every base and every           *)
(* dictionary.                                                               *)
EXTENDS AvpCodec, MapOrderProofs, SequenceTheorems

----------------------------------------------------------------------------
(* Recursion on what nests: A is made of layers, and what is computed on a   *)
(* layer goes by what was on the one below.                                  *)

\* Every step leads from one function of F to another, and two functions that
\* agree on a layer lead to two that agree on the layer above.
IsRecursion(A, F, N, layer, step) ==
    /\ N \in Nat /\ layer[N] = A
    /\ F # {} /\ step \in [F -> F]
    /\ \A f \in F : f = [a \in A |-> f[a]]
    /\ \A f, g \in F : \A a \in layer[0] : step[f][a] = step[g][a]
    /\ \A n \in 1..N : \A f, g \in F :
        (\A a \in layer[n - 1] : f[a] = g[a]) => \A a \in layer[n] : step[f][a] = step[g][a]

LEMMA LayerInduction ==
    ASSUME NEW N \in Nat, NEW layer, NEW T, layer[0] \subseteq T,
           \A n \in 1..N : layer[n - 1] \subseteq T => layer[n] \subseteq T
    PROVE  \A n \in 0..N : layer[n] \subseteq T
  <1> DEFINE U == {n \in 0..N : layer[n] \subseteq T}
  <1>1. 0 \in U
    OBVIOUS
  <1>2. ASSUME NEW n \in 1..N, n - 1 \in U PROVE n \in U
    BY <1>2
  <1> HIDE DEF U
  <1>3. 0..N \subseteq U
    BY <1>1, <1>2, TurnInduction
  <1> QED BY <1>3 DEF U

\* Such a recursion has a result.
LEMMA RecursionDefined ==
    ASSUME NEW A, NEW F, NEW N, NEW layer, NEW step, IsRecursion(A, F, N, layer, step)
    PROVE  \E h \in F : h = step[h]
  <1> USE DEF IsRecursion
  <1> DEFINE T == {n \in 0..N : \E f \in F : \A a \in layer[n] : f[a] = step[f][a]}
  <1>1. 0 \in T
    <2>1. PICK f \in F : TRUE
      OBVIOUS
    <2>2. step[f] \in F /\ \A a \in layer[0] : step[f][a] = step[step[f]][a]
      BY <2>1
    <2> QED BY <2>2
  <1>2. ASSUME NEW n \in 1..N, n - 1 \in T PROVE n \in T
    <2>1. PICK f \in F : \A a \in layer[n - 1] : f[a] = step[f][a]
      BY <1>2
    <2>2. step[f] \in F
      OBVIOUS
    <2>3. \A a \in layer[n] : step[f][a] = step[step[f]][a]
      BY <2>1, <2>2
    <2> QED BY <2>2, <2>3
  <1>3. N \in T
    <2> HIDE DEF T
    <2> QED BY <1>1, <1>2, TurnInduction
  <1>4. PICK h \in F : \A a \in A : h[a] = step[h][a]
    BY <1>3
  <1>5. step[h] \in F
    OBVIOUS
  <1>6. h = [a \in A |-> h[a]] /\ step[h] = [a \in A |-> step[h][a]]
    BY <1>5
  <1>7. h = step[h]
    BY <1>4, <1>6
  <1> QED BY <1>7

\* And one only.
AreResults(A, N, layer, f, g) ==
    /\ N \in Nat /\ layer[N] = A
    /\ f = [a \in A |-> f[a]] /\ g = [a \in A |-> g[a]]
    /\ \A a \in layer[0] : f[a] = g[a]
    /\ \A n \in 1..N :
        (\A a \in layer[n - 1] : f[a] = g[a]) => \A a \in layer[n] : f[a] = g[a]

LEMMA RecursionUnique ==
    ASSUME NEW A, NEW N, NEW layer, NEW f, NEW g, AreResults(A, N, layer, f, g)
    PROVE  f = g
  <1> USE DEF AreResults
  <1> DEFINE T == {n \in 0..N : \A a \in layer[n] : f[a] = g[a]}
  <1>1. 0 \in T
    OBVIOUS
  <1>2. ASSUME NEW n \in 1..N, n - 1 \in T PROVE n \in T
    BY <1>2
  <1>3. N \in T
    <2> HIDE DEF T
    <2> QED BY <1>1, <1>2, TurnInduction
  <1> QED BY <1>3

\* Two loops that begin and go on alike.
Alike(n, f, g) ==
    n \in Nat /\ f[0] = g[0] /\ \A i \in 1..n : f[i - 1] = g[i - 1] => f[i] = g[i]

LEMMA TurnsAgree ==
    ASSUME NEW n, NEW f, NEW g, Alike(n, f, g)
    PROVE  \A i \in 0..n : f[i] = g[i]
  <1> USE DEF Alike
  <1> DEFINE T == {i \in 0..n : f[i] = g[i]}
  <1>1. 0 \in T
    OBVIOUS
  <1>2. \A i \in 1..n : i - 1 \in T => i \in T
    OBVIOUS
  <1> HIDE DEF T
  <1>3. 0..n \subseteq T
    BY <1>1, <1>2, TurnInduction
  <1> QED BY <1>3 DEF T

----------------------------------------------------------------------------
(* Numbers                                                                   *)

LEMMA ValuesDefined ==
    /\ Values \in [0..8 -> Nat \ {0}]
    /\ Values[0] = 1 /\ \A n \in 1..8 : Values[n] = Base * Values[n - 1]
  <1> DEFINE m == 8
             X == Nat \ {0}
             step == [n \in 1..m |-> [x \in X |-> Base * x]]
             Body(f) == [n \in 0..8 |-> IF n = 0 THEN 1 ELSE Base * f[n - 1]]
  <1>1. Base \in X
    BY SizeAssumption
  <1>2. \A x \in X : Base * x \in X
    BY <1>1
  <1>3. IsLoop(m, X, 1, step)
    BY <1>2 DEF IsLoop
  <1>4. PICK acc \in [0..m -> X] : acc[0] = 1 /\ \A n \in 1..m : acc[n] = step[n][acc[n - 1]]
    <2> HIDE DEF m, X, step
    <2> QED BY <1>3, LoopDefined
  <1>5. \A n \in 1..8 : acc[n] = Base * acc[n - 1]
    BY <1>4
  <1>6. acc = Body(acc)
    BY <1>4, <1>5
  <1>7. Values = Body(Values)
    BY <1>6 DEF Values
  <1>8. Values[0] = 1 /\ \A n \in 1..8 : Values[n] = Base * Values[n - 1]
    BY <1>7
  <1>9. 0..8 \subseteq {n \in 0..8 : Values[n] = acc[n]}
    <2> DEFINE T == {n \in 0..8 : Values[n] = acc[n]}
    <2>1. 0 \in T
      BY <1>4, <1>8
    <2>2. \A n \in 1..8 : n - 1 \in T => n \in T
      BY <1>5, <1>8
    <2> HIDE DEF T
    <2> QED BY <2>1, <2>2, TurnInduction DEF T
  <1>10. Values = [n \in 0..8 |-> Values[n]]
    BY <1>7
  <1>11. \A n \in 0..8 : Values[n] \in X
    BY <1>9
  <1> QED BY <1>8, <1>10, <1>11

LEMMA ValuesKnown ==
    /\ \A n \in 0..8 : Values[n] \in Nat /\ Values[n] >= 1
    /\ Values[1] = Base /\ Base \in Nat /\ Base >= 4
    /\ Values[3] <= Values[4] /\ Values[3] >= 12
  <1>1. Base \in Nat /\ Base >= 4
    BY SizeAssumption
  <1>2. \A n \in 0..8 : Values[n] \in Nat /\ Values[n] >= 1
    BY ValuesDefined
  <1>3. /\ Values[0] = 1 /\ Values[1] = Base * Values[0] /\ Values[2] = Base * Values[1]
        /\ Values[3] = Base * Values[2] /\ Values[4] = Base * Values[3]
    <2>1. \A n \in 1..8 : Values[n] = Base * Values[n - 1]
      BY ValuesDefined
    <2> QED BY <2>1, ValuesDefined
  <1>4. Values[1] = Base
    BY <1>1, <1>3
  <1>5. \A x \in Nat, b \in Nat : b >= 4 => b * x >= 4 * x
    OBVIOUS
  <1>6. Values[2] >= 16 /\ Values[3] >= 64 /\ Values[4] >= Values[3]
    BY <1>1, <1>2, <1>3, <1>4, <1>5
  <1> QED BY <1>1, <1>2, <1>4, <1>6

\* The cast to a number without a sign is in the range of its octets.
LEMMA UnsignedInRange ==
    ASSUME NEW v \in Int, NEW n \in 0..8
    PROVE  Unsigned(v, n) \in 0..(Values[n] - 1)
  BY ValuesKnown DEF Unsigned

LEMMA SignedInRange ==
    ASSUME NEW v \in Int, NEW n \in 0..8
    PROVE  Signed(v, n) \in Int /\ -Values[n] <= 2 * Signed(v, n) /\ 2 * Signed(v, n) < Values[n]
  <1>1. Unsigned(v, n) \in 0..(Values[n] - 1) /\ Values[n] \in Nat
    BY UnsignedInRange, ValuesKnown
  <1> QED BY <1>1 DEF Signed

LEMMA SignedNumbersHold ==
    ASSUME NEW v \in Int
    PROVE  Signed(v, 4) \in SignedNumbers /\ 0 \in SignedNumbers
  <1>1. Values[4] \in Nat /\ Values[4] >= 1
    BY ValuesKnown
  <1>2. 0 \in SignedNumbers
    BY <1>1 DEF SignedNumbers, SignedOf
  <1> QED BY <1>2, SignedInRange DEF SignedNumbers, SignedOf

LEMMA OctetsTyped ==
    ASSUME NEW v \in Int, NEW n \in 0..8
    PROVE  Octets(v, n) \in Seq(Octet) /\ Len(Octets(v, n)) = n
  <1>1. Base \in Nat /\ Base >= 4
    BY ValuesKnown
  <1>2. ASSUME NEW i \in 1..n PROVE (Unsigned(v, n) \div Values[n - i]) % Base \in Octet
    <2>1. Unsigned(v, n) \in Nat /\ Values[n - i] \in Nat /\ Values[n - i] >= 1
      <3>1. n - i \in 0..8 /\ Values[n] \in Nat
        BY ValuesKnown
      <3>2. Unsigned(v, n) \in 0..(Values[n] - 1)
        BY UnsignedInRange
      <3> QED BY <3>1, <3>2, ValuesKnown
    <2>2. Unsigned(v, n) \div Values[n - i] \in Int
      BY <2>1
    <2> QED BY <1>1, <2>2 DEF Octet
  <1>3. Octets(v, n) \in [1..n -> Octet]
    BY <1>2 DEF Octets
  <1>4. Len(Octets(v, n)) = n
    BY <1>3
  <1> QED BY <1>3, <1>4

\* Octets read as a number: the number of any, and its range for up to eight.
LEMMA NumberLoop ==
    ASSUME NEW octets \in Seq(Octet)
    PROVE  \E acc \in [0..Len(octets) -> Nat] :
              /\ acc[0] = 0 /\ \A i \in 1..Len(octets) : acc[i] = acc[i - 1] * Base + octets[i]
              /\ Number(octets) = acc[Len(octets)]
  <1> DEFINE n == Len(octets)
             step == [i \in 1..n |-> [x \in Nat |-> x * Base + octets[i]]]
             Body(f) == [i \in 0..n |-> IF i = 0 THEN 0 ELSE f[i - 1] * Base + octets[i]]
             number == CHOOSE f : f = Body(f)
  <1>1. n \in Nat /\ \A i \in 1..n : octets[i] \in Nat
    <2>1. \A i \in 1..n : octets[i] \in Octet
      OBVIOUS
    <2> QED BY <2>1, SizeAssumption DEF Octet
  <1>2. ASSUME NEW i \in 1..n, NEW x \in Nat PROVE x * Base + octets[i] \in Nat
    <2>1. \A a, b, c \in Nat : a * b + c \in Nat
      OBVIOUS
    <2> QED BY <1>1, <2>1, SizeAssumption
  <1>3. Number(octets) = number[n]
    BY DEF Number
  <1> HIDE DEF n
  <1>4. IsLoop(n, Nat, 0, step)
    BY <1>1, <1>2 DEF IsLoop
  <1>5. PICK acc : /\ acc \in [0..n -> Nat]
                   /\ acc[0] = 0 /\ \A i \in 1..n : acc[i] = step[i][acc[i - 1]]
    <2> HIDE DEF step
    <2> QED BY <1>4, LoopDefined
  <1>6. \A i \in 1..n : acc[i] = acc[i - 1] * Base + octets[i]
    <2> TAKE i \in 1..n
    <2>1. acc[i - 1] \in Nat
      BY <1>1, <1>5
    <2> QED BY <1>5, <2>1
  <1>7. acc = Body(acc)
    BY <1>5, <1>6
  <1>8. number = Body(number)
    BY <1>7
  <1> HIDE DEF number
  <1>9. number[0] = 0 /\ \A i \in 1..n : number[i] = number[i - 1] * Base + octets[i]
    BY <1>1, <1>8
  <1>10. \A i \in 1..n : number[i - 1] = acc[i - 1] => number[i] = acc[i]
    BY <1>6, <1>9
  <1>11. \A i \in 0..n : number[i] = acc[i]
    <2>1. Alike(n, number, acc)
      BY <1>1, <1>5, <1>9, <1>10 DEF Alike
    <2> QED BY <2>1, TurnsAgree
  <1> QED BY <1>1, <1>3, <1>5, <1>6, <1>11 DEF n

LEMMA NumberInRange ==
    ASSUME NEW octets \in Seq(Octet)
    PROVE  /\ Number(octets) \in Nat
           /\ Len(octets) <= 8 => Number(octets) < Values[Len(octets)]
  <1> DEFINE n == Len(octets)
  <1>1. PICK acc \in [0..n -> Nat] :
          /\ acc[0] = 0 /\ \A i \in 1..n : acc[i] = acc[i - 1] * Base + octets[i]
          /\ Number(octets) = acc[n]
    BY NumberLoop
  <1>2. n \in Nat /\ \A i \in 1..n : octets[i] \in Octet
    OBVIOUS
  <1> HIDE DEF n
  <1>3. /\ \A o \in Octet : o \in Int /\ o <= Base - 1
        /\ Base \in Nat /\ Base >= 4
    BY SizeAssumption DEF Octet
  <1>4. ASSUME n <= 8 PROVE acc[n] < Values[n]
    <2> DEFINE T == {i \in 0..n : acc[i] < Values[i]}
    <2>1. 0 \in T
      BY <1>1, <1>2, ValuesDefined
    <2>2. ASSUME NEW i \in 1..n, i - 1 \in T PROVE i \in T
      <3>1. acc[i - 1] \in Nat /\ Values[i - 1] \in Nat /\ acc[i - 1] <= Values[i - 1] - 1
        <4>1. i - 1 \in 0..8 /\ i - 1 \in 0..n /\ acc[i - 1] < Values[i - 1]
          BY <1>2, <1>4, <2>2
        <4>2. acc[i - 1] \in Nat /\ Values[i - 1] \in Nat
          BY <4>1, ValuesDefined
        <4> QED BY <4>1, <4>2
      <3>2. octets[i] \in Int /\ octets[i] <= Base - 1 /\ Base \in Nat /\ Base >= 4
        <4>1. octets[i] \in Octet
          BY <1>2
        <4> HIDE DEF T
        <4> QED BY ONLY <1>3, <4>1
      <3>3. acc[i] = acc[i - 1] * Base + octets[i] /\ Values[i] = Base * Values[i - 1]
        <4>1. i \in 1..8
          BY <1>2, <1>4
        <4> QED BY <1>1, <4>1, ValuesDefined
      <3>4. \A a, b \in Nat, k \in Nat : a <= b - 1 => a * k <= k * b - k
        OBVIOUS
      <3>5. acc[i - 1] * Base <= Base * Values[i - 1] - Base
        BY <3>1, <3>2, <3>4
      <3>6. acc[i - 1] * Base \in Int /\ Base * Values[i - 1] \in Int
        BY <3>1, <3>2
      <3> QED BY <3>2, <3>3, <3>5, <3>6
    <2> HIDE DEF T
    <2>3. 0..n \subseteq T
      BY <1>2, <2>1, <2>2, TurnInduction
    <2> QED BY <1>2, <2>3 DEF T
  <1> QED BY <1>1, <1>2, <1>4 DEF n

----------------------------------------------------------------------------
(* Sequences joined and numbers added up                                     *)

LEMMA Counted ==
    ASSUME NEW S, NEW s \in Seq(S)
    PROVE  Cardinality(DOMAIN s) = Len(s) /\ Len(s) \in Nat /\ DOMAIN s = 1..Len(s)
  <1> DEFINE n == Len(s)
  <1>1. n \in Nat /\ DOMAIN s = 1..n
    OBVIOUS
  <1> HIDE DEF n
  <1>2. Cardinality(1..n) = n
    <2>1. Cardinality(1..n) = IF 1 > n THEN 0 ELSE n - 1 + 1
      BY <1>1, FS_Interval
    <2> QED BY <1>1, <2>1
  <1> QED BY <1>1, <1>2 DEF n

LEMMA JoinedLoop ==
    ASSUME NEW S, NEW parts \in Seq(Seq(S))
    PROVE  \E acc : /\ acc \in [0..Len(parts) -> Seq(S)] /\ acc[0] = <<>>
                    /\ \A i \in 1..Len(parts) : acc[i] = acc[i - 1] \o parts[i]
                    /\ Joined(parts) = acc[Len(parts)]
  <1> DEFINE n == Len(parts)
             step == [i \in 1..n |-> [x \in Seq(S) |-> x \o parts[i]]]
             Body(f) == [i \in 0..n |-> IF i = 0 THEN <<>> ELSE f[i - 1] \o parts[i]]
             joined == CHOOSE f : f = Body(f)
  <1>1. n \in Nat /\ \A i \in 1..n : parts[i] \in Seq(S)
    OBVIOUS
  <1>2. Cardinality(DOMAIN parts) = n
    BY Counted
  <1>3. Joined(parts) = joined[n]
    BY <1>2 DEF Joined
  <1> HIDE DEF n
  <1>4. IsLoop(n, Seq(S), <<>>, step)
    <2>1. <<>> \in Seq(S)
      OBVIOUS
    <2>2. ASSUME NEW i \in 1..n, NEW x \in Seq(S) PROVE x \o parts[i] \in Seq(S)
      BY <1>1
    <2> QED BY <1>1, <2>1, <2>2 DEF IsLoop
  <1>5. PICK acc : /\ acc \in [0..n -> Seq(S)]
                   /\ acc[0] = <<>> /\ \A i \in 1..n : acc[i] = step[i][acc[i - 1]]
    <2> HIDE DEF step
    <2> QED BY <1>4, LoopDefined
  <1>6. \A i \in 1..n : acc[i] = acc[i - 1] \o parts[i]
    <2> TAKE i \in 1..n
    <2>1. acc[i - 1] \in Seq(S)
      BY <1>1, <1>5
    <2> QED BY <1>5, <2>1
  <1>7. acc = Body(acc)
    <2>1. \A i \in 0..n : acc[i] = Body(acc)[i]
      <3> TAKE i \in 0..n
      <3>1. Body(acc)[i] = IF i = 0 THEN <<>> ELSE acc[i - 1] \o parts[i]
        OBVIOUS
      <3>2. i # 0 => i \in 1..n
        BY <1>1
      <3> HIDE DEF Body
      <3> QED BY <1>5, <1>6, <3>1, <3>2
    <2>2. acc = [i \in 0..n |-> acc[i]]
      BY <1>5
    <2>3. Body(acc) = [i \in 0..n |-> Body(acc)[i]]
      OBVIOUS
    <2> HIDE DEF Body
    <2> QED BY <2>1, <2>2, <2>3
  <1>8. joined = Body(joined)
    BY <1>7
  <1> HIDE DEF joined
  <1>9. joined[0] = <<>> /\ \A i \in 1..n : joined[i] = joined[i - 1] \o parts[i]
    <2> HIDE DEF n
    <2>1. joined = Body(joined)
      BY <1>8
    <2>2. \A i \in 0..n : Body(joined)[i] = IF i = 0 THEN <<>> ELSE joined[i - 1] \o parts[i]
      OBVIOUS
    <2>3. \A i \in 0..n : joined[i] = IF i = 0 THEN <<>> ELSE joined[i - 1] \o parts[i]
      BY <2>1, <2>2, Zenon
    <2>4. 0 \in 0..n /\ \A i \in 1..n : i \in 0..n /\ i # 0
      BY <1>1
    <2> QED BY <2>3, <2>4, Zenon
  <1>10. \A i \in 0..n : joined[i] = acc[i]
    <2>1. Alike(n, joined, acc)
      BY <1>1, <1>5, <1>6, <1>9 DEF Alike
    <2> QED BY <2>1, TurnsAgree
  <1>11. Joined(parts) = acc[n]
    BY <1>1, <1>3, <1>10
  <1> HIDE DEF step, Body
  <1> QED BY <1>5, <1>6, <1>11, Zenon DEF n

LEMMA TotalLoop ==
    ASSUME NEW numbers \in Seq(Nat)
    PROVE  \E acc : /\ acc \in [0..Len(numbers) -> Nat] /\ acc[0] = 0
                    /\ \A i \in 1..Len(numbers) : acc[i] = acc[i - 1] + numbers[i]
                    /\ Total(numbers) = acc[Len(numbers)]
  <1> DEFINE n == Len(numbers)
             step == [i \in 1..n |-> [x \in Nat |-> x + numbers[i]]]
             Body(f) == [i \in 0..n |-> IF i = 0 THEN 0 ELSE f[i - 1] + numbers[i]]
             total == CHOOSE f : f = Body(f)
  <1>1. n \in Nat /\ \A i \in 1..n : numbers[i] \in Nat
    OBVIOUS
  <1>2. Cardinality(DOMAIN numbers) = n
    BY Counted
  <1>3. Total(numbers) = total[n]
    BY <1>2 DEF Total
  <1> HIDE DEF n
  <1>4. IsLoop(n, Nat, 0, step)
    BY <1>1 DEF IsLoop
  <1>5. PICK acc : /\ acc \in [0..n -> Nat]
                   /\ acc[0] = 0 /\ \A i \in 1..n : acc[i] = step[i][acc[i - 1]]
    <2> HIDE DEF step
    <2> QED BY <1>4, LoopDefined
  <1>6. \A i \in 1..n : acc[i] = acc[i - 1] + numbers[i]
    <2> TAKE i \in 1..n
    <2>1. acc[i - 1] \in Nat
      BY <1>1, <1>5
    <2> QED BY <1>5, <2>1
  <1>7. acc = Body(acc)
    BY <1>5, <1>6
  <1>8. total = Body(total)
    BY <1>7
  <1> HIDE DEF total
  <1>9. total[0] = 0 /\ \A i \in 1..n : total[i] = total[i - 1] + numbers[i]
    BY <1>1, <1>8
  <1>10. \A i \in 0..n : total[i] = acc[i]
    <2>1. Alike(n, total, acc)
      BY <1>1, <1>5, <1>6, <1>9 DEF Alike
    <2> QED BY <2>1, TurnsAgree
  <1>11. Total(numbers) = acc[n]
    BY <1>1, <1>3, <1>10
  <1> HIDE DEF step, Body
  <1> QED BY <1>5, <1>6, <1>11, Zenon DEF n

LEMMA JoinedTyped ==
    ASSUME NEW S, NEW parts \in Seq(Seq(S))
    PROVE  Joined(parts) \in Seq(S)
  <1>1. Len(parts) \in 0..Len(parts)
    OBVIOUS
  <1>2. PICK acc : acc \in [0..Len(parts) -> Seq(S)] /\ Joined(parts) = acc[Len(parts)]
    BY JoinedLoop
  <1> QED BY <1>1, <1>2

\* The length of what is joined is the total of the lengths.
LEMMA JoinedLength ==
    ASSUME NEW S, NEW parts \in Seq(Seq(S)), NEW lengths \in Seq(Nat),
           Len(lengths) = Len(parts), \A i \in 1..Len(parts) : Len(parts[i]) = lengths[i]
    PROVE  Len(Joined(parts)) = Total(lengths)
  <1>1. PICK joined : /\ joined \in [0..Len(parts) -> Seq(S)] /\ joined[0] = <<>>
                      /\ \A i \in 1..Len(parts) : joined[i] = joined[i - 1] \o parts[i]
                      /\ Joined(parts) = joined[Len(parts)]
    BY JoinedLoop
  <1>2. PICK total : /\ total \in [0..Len(lengths) -> Nat] /\ total[0] = 0
                     /\ \A i \in 1..Len(lengths) : total[i] = total[i - 1] + lengths[i]
                     /\ Total(lengths) = total[Len(lengths)]
    BY TotalLoop
  <1> DEFINE n == Len(parts)
             T == {i \in 0..n : Len(joined[i]) = total[i]}
  <1>3. n \in Nat /\ n = Len(lengths) /\ \A i \in 1..n : parts[i] \in Seq(S)
    OBVIOUS
  <1>4. \A i \in 1..n : Len(parts[i]) = lengths[i]
    OBVIOUS
  <1> HIDE DEF n
  <1>5. 0 \in T
    BY <1>1, <1>2, <1>3
  <1>6. ASSUME NEW i \in 1..n, i - 1 \in T PROVE i \in T
    <2>1. joined[i] = joined[i - 1] \o parts[i] /\ total[i] = total[i - 1] + lengths[i]
      BY <1>1, <1>2, <1>3 DEF n
    <2>2. joined[i - 1] \in Seq(S) /\ parts[i] \in Seq(S)
      <3>1. i - 1 \in 0..n
        BY <1>3
      <3> QED BY <1>1, <1>3, <3>1 DEF n
    <2>3. Len(joined[i]) = Len(joined[i - 1]) + Len(parts[i])
      BY <2>1, <2>2
    <2>4. Len(joined[i - 1]) = total[i - 1] /\ Len(parts[i]) = lengths[i] /\ i \in 0..n
      BY <1>3, <1>4, <1>6
    <2>5. Len(joined[i]) = total[i]
      BY <2>1, <2>3, <2>4
    <2> QED BY <2>4, <2>5
  <1>7. 0..n \subseteq T
    <2> HIDE DEF T
    <2> QED BY <1>3, <1>5, <1>6, TurnInduction
  <1>8. n \in T
    BY <1>3, <1>7
  <1> QED BY <1>1, <1>2, <1>3, <1>8 DEF n

----------------------------------------------------------------------------
(* AVPs and their nesting                                                    *)

LEMMA NestedDefined ==
    \A d \in 0..MaxDepth :
        Nested[d] = AvpsWith(IF d = 0 THEN {<<>>} ELSE Seq(Nested[d - 1]))
  <1> DEFINE Level(f, d) == AvpsWith(IF d = 0 THEN {<<>>} ELSE Seq(f[d - 1]))
             Body(f, m) == [d \in 0..m |-> Level(f, d)]
             T == {m \in 0..MaxDepth : \E f : f = Body(f, m)}
  <1>1. MaxDepth \in Nat
    BY SizeAssumption
  <1>2. 0 \in T
    <2> DEFINE f == [d \in 0..0 |-> AvpsWith({<<>>})]
    <2>1. \A d \in 0..0 : Level(f, d) = AvpsWith({<<>>})
      OBVIOUS
    <2>2. f = Body(f, 0)
      <3> HIDE DEF Level
      <3> QED BY <2>1
    <2> HIDE DEF f
    <2> QED BY <1>1, <2>2
  <1>3. ASSUME NEW m \in 1..MaxDepth, m - 1 \in T PROVE m \in T
    <2>1. PICK f : f = Body(f, m - 1)
      BY <1>3
    <2> DEFINE g == [d \in 0..m |-> IF d = m THEN AvpsWith(Seq(f[m - 1])) ELSE f[d]]
    <2>2. \A d \in 0..m : g[d] = IF d = m THEN AvpsWith(Seq(f[m - 1])) ELSE f[d]
      OBVIOUS
    <2>3. \A d \in 0..(m - 1) : f[d] = Level(f, d)
      <3> HIDE DEF Level
      <3> QED BY <2>1
    <2>4. ASSUME NEW d \in 0..m PROVE g[d] = Level(g, d)
      <3> HIDE DEF g
      <3>1. CASE d = m
        <4>1. m - 1 \in 0..m /\ m - 1 # m /\ d # 0
          BY <3>1
        <4>2. g[m - 1] = f[m - 1]
          BY <2>2, <4>1
        <4> QED BY <2>2, <3>1, <4>1, <4>2
      <3>2. CASE d # m /\ d # 0
        <4>1. d \in 0..(m - 1) /\ d - 1 \in 0..m /\ d - 1 # m
          BY <3>2
        <4>2. g[d - 1] = f[d - 1] /\ g[d] = f[d]
          BY <2>2, <3>2, <4>1
        <4> QED BY <2>3, <3>2, <4>1, <4>2
      <3>3. CASE d = 0
        <4>1. d \in 0..(m - 1) /\ d # m
          BY <3>3
        <4> QED BY <2>2, <2>3, <3>3, <4>1
      <3> QED BY <3>1, <3>2, <3>3
    <2>5. g = Body(g, m)
      <3> HIDE DEF Level
      <3> QED BY <2>4
    <2> HIDE DEF g
    <2> QED BY <2>5
  <1>4. MaxDepth \in T
    <2> HIDE DEF T
    <2>1. 0..MaxDepth \subseteq T
      BY <1>1, <1>2, <1>3, TurnInduction
    <2> QED BY <1>1, <2>1
  <1>5. Nested = Body(Nested, MaxDepth)
    BY <1>4 DEF Nested
  <1> HIDE DEF Level
  <1>6. \A d \in 0..MaxDepth : Nested[d] = Level(Nested, d)
    BY <1>5
  <1> QED BY <1>6 DEF Level

\* The lists of AVPs within an AVP nested so deep.
Within(d) == IF d = 0 THEN {<<>>} ELSE Seq(Nested[d - 1])

\* What has the fields of an AVP is one.
LEMMA AvpFields ==
    ASSUME NEW d \in 0..MaxDepth, NEW avp
    PROVE  avp \in Nested[d] <=>
              /\ avp = [id |-> avp.id, flags |-> avp.flags, raw |-> avp.raw, data |-> avp.data]
              /\ avp.id \in AvpIds /\ avp.flags \in Octet /\ avp.raw \in BOOLEAN
              /\ avp.data \in DataWith(Within(d))
  <1>1. Nested[d] = [id : AvpIds, flags : Octet, raw : BOOLEAN, data : DataWith(Within(d))]
    BY NestedDefined DEF AvpsWith, Within
  <1> QED BY <1>1

LEMMA EmptyTyped ==
    <<>> \in Texts
  BY DEF Texts

LEMMA DataFields ==
    ASSUME NEW lists, <<>> \in lists, NEW data \in DataWith(lists)
    PROVE  /\ data = [kind |-> data.kind, num |-> data.num, text |-> data.text,
                      kids |-> data.kids]
           /\ data.kind \in DOMAIN NumbersOf /\ data.num \in Int
           /\ data.text \in Texts /\ data.kids \in lists
           /\ data.num \in NumbersOf[data.kind]
           /\ data.kind # "string" => data.text = <<>>
           /\ data.kind # "avps" => data.kids = <<>>
  BY DEF DataWith

\* What a kind holds.
LEMMA NumbersKnown ==
    /\ DOMAIN NumbersOf = {"monostate", "string", "avps", "int32", "uint32", "int64", "uint64"}
    /\ NumbersOf["monostate"] = {0} /\ NumbersOf["string"] = {0} /\ NumbersOf["avps"] = {0}
    /\ NumbersOf["int32"] = SignedOf(4) /\ NumbersOf["uint32"] = UnsignedOf(4)
    /\ NumbersOf["int64"] = SignedOf(8) /\ NumbersOf["uint64"] = UnsignedOf(8)
    /\ \A kind \in DOMAIN NumbersOf : NumbersOf[kind] \subseteq Int
  <1>1. SignedOf(4) \subseteq Int /\ SignedOf(8) \subseteq Int
    BY DEF SignedOf
  <1>2. UnsignedOf(4) \subseteq Int /\ UnsignedOf(8) \subseteq Int
    BY ValuesKnown DEF UnsignedOf
  <1> QED BY <1>1, <1>2 DEF NumbersOf

\* What an integer becomes as a value of a type is a number of the type's kind.
LEMMA AsTypedHeld ==
    ASSUME NEW v \in Int, NEW type, IsNumber(type)
    PROVE  Kind[type] \in DOMAIN NumbersOf /\ AsTyped(v, type) \in NumbersOf[Kind[type]]
  <1>1. ASSUME NEW n \in 0..8
        PROVE  Signed(v, n) \in SignedOf(n) /\ Unsigned(v, n) \in UnsignedOf(n)
    BY SignedInRange, UnsignedInRange DEF SignedOf, UnsignedOf
  <1>2. /\ Signed(v, 4) \in SignedOf(4) /\ Signed(v, 8) \in SignedOf(8)
        /\ Unsigned(v, 4) \in UnsignedOf(4) /\ Unsigned(v, 8) \in UnsignedOf(8)
    <2>1. 4 \in 0..8 /\ 8 \in 0..8
      OBVIOUS
    <2> QED BY <1>1, <2>1
  <1>3. type \in {"Integer32", "Enumerated", "Integer64", "Unsigned32", "Time", "Unsigned64"}
    BY DEF IsNumber, Width
  <1>4. AsTyped(v, type) = IF IsSigned(type) THEN Signed(v, Width[type])
                                             ELSE Unsigned(v, Width[type])
    BY DEF AsTyped
  <1>5. CASE type \in {"Integer32", "Enumerated"}
    <2>1. Kind[type] = "int32" /\ Width[type] = 4 /\ IsSigned(type)
      BY <1>5 DEF Kind, Width, IsSigned
    <2> QED BY <1>2, <1>4, <2>1, NumbersKnown
  <1>6. CASE type = "Integer64"
    <2>1. Kind[type] = "int64" /\ Width[type] = 8 /\ IsSigned(type)
      BY <1>6 DEF Kind, Width, IsSigned
    <2> QED BY <1>2, <1>4, <2>1, NumbersKnown
  <1>7. CASE type \in {"Unsigned32", "Time"}
    <2>1. Kind[type] = "uint32" /\ Width[type] = 4 /\ ~IsSigned(type)
      BY <1>7 DEF Kind, Width, IsSigned
    <2> QED BY <1>2, <1>4, <2>1, NumbersKnown
  <1>8. CASE type = "Unsigned64"
    <2>1. Kind[type] = "uint64" /\ Width[type] = 8 /\ ~IsSigned(type)
      BY <1>8 DEF Kind, Width, IsSigned
    <2> QED BY <1>2, <1>4, <2>1, NumbersKnown
  <1> QED BY <1>3, <1>5, <1>6, <1>7, <1>8

LEMMA DataOf ==
    ASSUME NEW d \in 0..MaxDepth, NEW avp \in Nested[d]
    PROVE  /\ avp.data.kind \in DOMAIN NumbersOf /\ avp.data.num \in Int
           /\ avp.data.text \in Texts /\ avp.data.kids \in Within(d)
  <1>1. <<>> \in Within(d)
    BY DEF Within
  <1>2. avp.data \in DataWith(Within(d))
    BY AvpFields
  <1> QED BY <1>1, <1>2, DataFields

LEMMA AvpTyped ==
    ASSUME NEW avp \in Avps
    PROVE  /\ avp.id \in AvpIds /\ avp.id[1] \in Int /\ avp.id[2] \in Int
           /\ avp.flags \in Octet /\ avp.raw \in BOOLEAN
           /\ avp.data.kind \in DOMAIN NumbersOf /\ avp.data.num \in Int
           /\ avp.data.text \in Texts /\ avp.data.kids \in Within(MaxDepth)
  <1>1. MaxDepth \in 0..MaxDepth /\ avp \in Nested[MaxDepth]
    BY SizeAssumption DEF Avps
  <1>2. avp.id \in AvpIds /\ avp.flags \in Octet /\ avp.raw \in BOOLEAN
    BY <1>1, AvpFields
  <1>3. avp.id[1] \in Int /\ avp.id[2] \in Int
    BY <1>2 DEF AvpIds, SignedNumbers, SignedOf
  <1> QED BY <1>1, <1>2, <1>3, DataOf

\* A deeper AVP may be as shallow as another.
LEMMA NestedGrows ==
    ASSUME NEW d \in 1..MaxDepth
    PROVE  Nested[d - 1] \subseteq Nested[d]
  <1> DEFINE T == {e \in 0..MaxDepth : e # 0 => Nested[e - 1] \subseteq Nested[e]}
  <1>1. 0 \in T /\ MaxDepth \in Nat
    BY SizeAssumption
  <1>2. ASSUME NEW e \in 1..MaxDepth, e - 1 \in T PROVE e \in T
    <2>1. Within(e - 1) \subseteq Within(e)
      <3>1. CASE e - 1 = 0
        BY <3>1 DEF Within
      <3>2. CASE e - 1 # 0
        <4>1. Nested[e - 1 - 1] \subseteq Nested[e - 1]
          BY <1>2, <3>2
        <4>2. Seq(Nested[e - 1 - 1]) \subseteq Seq(Nested[e - 1])
          BY <4>1
        <4> QED BY <3>2, <4>2 DEF Within
      <3> QED BY <3>1, <3>2
    <2>2. DataWith(Within(e - 1)) \subseteq DataWith(Within(e))
      BY <2>1 DEF DataWith
    <2>3. e - 1 \in 0..MaxDepth /\ e \in 0..MaxDepth
      BY <1>1
    <2>4. \A avp : avp \in Nested[e - 1] => avp \in Nested[e]
      BY <2>2, <2>3, AvpFields
    <2> QED BY <2>3, <2>4
  <1>3. 0..MaxDepth \subseteq T
    <2> HIDE DEF T
    <2> QED BY <1>1, <1>2, TurnInduction
  <1> QED BY <1>1, <1>3

LEMMA NestedWithinAvps ==
    ASSUME NEW d \in 0..MaxDepth
    PROVE  Nested[d] \subseteq Avps
  <1> DEFINE T == {e \in 0..MaxDepth : Nested[MaxDepth - e] \subseteq Avps}
  <1>1. 0 \in T /\ MaxDepth \in Nat
    BY SizeAssumption DEF Avps
  <1>2. ASSUME NEW e \in 1..MaxDepth, e - 1 \in T PROVE e \in T
    <2>1. MaxDepth - (e - 1) \in 1..MaxDepth /\ MaxDepth - (e - 1) - 1 = MaxDepth - e
      BY <1>1
    <2>2. Nested[MaxDepth - e] \subseteq Nested[MaxDepth - (e - 1)]
      BY <2>1, NestedGrows
    <2> QED BY <1>2, <2>2
  <1>3. 0..MaxDepth \subseteq T
    <2> HIDE DEF T
    <2> QED BY <1>1, <1>2, TurnInduction
  <1>4. MaxDepth - d \in T
    BY <1>1, <1>3
  <1>5. MaxDepth - (MaxDepth - d) = d
    BY <1>1
  <1> QED BY <1>4, <1>5

\* What is computed from the AVPs within another.
Each(f, kids) == [i \in DOMAIN kids |-> f[kids[i]]]

InBelow(f, X, d) == d # 0 => \A avp \in Nested[d - 1] : f[avp] \in X
AlikeBelow(f, g, d) == d # 0 => \A avp \in Nested[d - 1] : f[avp] = g[avp]

LEMMA EachTyped ==
    ASSUME NEW d \in 0..MaxDepth, NEW kids \in Within(d), NEW X, NEW f, InBelow(f, X, d)
    PROVE  Each(f, kids) \in Seq(X) /\ Len(Each(f, kids)) = Len(kids)
  <1>1. \A i \in DOMAIN kids : f[kids[i]] \in X
    <2>1. CASE d = 0
      BY <2>1 DEF Within
    <2>2. CASE d # 0
      <3>1. d \in 1..MaxDepth /\ kids \in Seq(Nested[d - 1])
        BY <2>2, SizeAssumption DEF Within
      <3>2. \A i \in DOMAIN kids : kids[i] \in Nested[d - 1]
        BY <3>1
      <3> QED BY <2>2, <3>1, <3>2 DEF InBelow
    <2> QED BY <2>1, <2>2
  <1>2. Len(kids) \in Nat /\ DOMAIN kids = 1..Len(kids)
    BY DEF Within
  <1>3. Each(f, kids) \in [1..Len(kids) -> X]
    BY <1>1, <1>2 DEF Each
  <1> QED BY <1>2, <1>3

LEMMA EachAlike ==
    ASSUME NEW d \in 0..MaxDepth, NEW kids \in Within(d), NEW f, NEW g, AlikeBelow(f, g, d)
    PROVE  Each(f, kids) = Each(g, kids)
  <1>1. \A i \in DOMAIN kids : f[kids[i]] = g[kids[i]]
    <2>1. CASE d = 0
      BY <2>1 DEF Within
    <2>2. CASE d # 0
      <3>1. d \in 1..MaxDepth /\ kids \in Seq(Nested[d - 1])
        BY <2>2, SizeAssumption DEF Within
      <3>2. \A i \in DOMAIN kids : kids[i] \in Nested[d - 1]
        BY <3>1
      <3> QED BY <2>2, <3>1, <3>2 DEF AlikeBelow
    <2> QED BY <2>1, <2>2
  <1> QED BY <1>1 DEF Each

\* A function on AVPs that of[avp] makes of what it is for those within: of an
\* AVP nested so deep it is in X[d], if it was in X[d - 1] for those within.
Below(X, d) == IF d = 0 THEN {} ELSE X[d - 1]

IsBuilding(X, of) ==
    /\ \E x : \A d \in 0..MaxDepth : x \in X[d]
    /\ \A d \in 0..MaxDepth : X[d] \subseteq X[MaxDepth]
    /\ \A d \in 0..MaxDepth : \A avp \in Nested[d] : \A values \in Seq(Below(X, d)) :
        Len(values) = Len(avp.data.kids) => of[avp][values] \in X[d]

Layered(X) == {f \in [Avps -> X[MaxDepth]] :
                  \A d \in 0..MaxDepth : \A avp \in Nested[d] : f[avp] \in X[d]}

LEMMA BuildingDefined ==
    ASSUME NEW X, NEW of, IsBuilding(X, of)
    PROVE  \E f \in Layered(X) : f = [avp \in Avps |-> of[avp][Each(f, avp.data.kids)]]
  <1> DEFINE Built(f) == [avp \in Avps |-> of[avp][Each(f, avp.data.kids)]]
             F == Layered(X)
             step == [f \in F |-> Built(f)]
  <1>1. MaxDepth \in Nat /\ Nested[MaxDepth] = Avps
    BY SizeAssumption DEF Avps
  <1>2. ASSUME NEW f \in F, NEW d \in 0..MaxDepth, NEW avp \in Nested[d]
        PROVE  of[avp][Each(f, avp.data.kids)] \in X[d]
    <2>1. avp.data.kids \in Within(d)
      BY DataOf
    <2>2. InBelow(f, Below(X, d), d)
      <3>1. d # 0 => d - 1 \in 0..MaxDepth
        BY <1>1
      <3> QED BY <3>1 DEF InBelow, Below, Layered
    <2>3. /\ Each(f, avp.data.kids) \in Seq(Below(X, d))
          /\ Len(Each(f, avp.data.kids)) = Len(avp.data.kids)
      BY <2>1, <2>2, EachTyped
    <2> QED BY <2>3 DEF IsBuilding
  <1>3. ASSUME NEW f \in F PROVE Built(f) \in F
    <2>1. ASSUME NEW d \in 0..MaxDepth, NEW avp \in Nested[d]
          PROVE  Built(f)[avp] \in X[d]
      <3>1. avp \in Avps
        BY NestedWithinAvps
      <3>2. Built(f)[avp] = of[avp][Each(f, avp.data.kids)]
        BY <3>1
      <3> QED BY <1>2, <3>2
    <2>2. MaxDepth \in 0..MaxDepth
      BY <1>1
    <2>3. \A avp \in Avps : of[avp][Each(f, avp.data.kids)] \in X[MaxDepth]
      BY <1>1, <1>2, <2>2
    <2>4. Built(f) \in [Avps -> X[MaxDepth]]
      BY <2>3
    <2> HIDE DEF Built
    <2> QED BY <2>1, <2>4 DEF Layered
  <1>4. F # {}
    <2>1. PICK x : \A d \in 0..MaxDepth : x \in X[d]
      BY DEF IsBuilding
    <2> DEFINE f == [avp \in Avps |-> x]
    <2>2. f \in [Avps -> X[MaxDepth]]
      BY <1>1, <2>1
    <2>3. \A d \in 0..MaxDepth : \A avp \in Nested[d] : f[avp] \in X[d]
      BY <2>1, NestedWithinAvps
    <2> QED BY <2>2, <2>3 DEF Layered
  <1>5. \A f \in F : f = [avp \in Avps |-> f[avp]]
    BY DEF Layered
  <1>6. ASSUME NEW n \in 0..MaxDepth, NEW f \in F, NEW g \in F, AlikeBelow(f, g, n)
        PROVE  \A avp \in Nested[n] : step[f][avp] = step[g][avp]
    <2> TAKE avp \in Nested[n]
    <2>1. avp \in Avps
      BY NestedWithinAvps
    <2>2. avp.data.kids \in Within(n)
      BY DataOf
    <2>3. Each(f, avp.data.kids) = Each(g, avp.data.kids)
      BY <1>6, <2>2, EachAlike
    <2>4. Built(f)[avp] = Built(g)[avp]
      BY <2>1, <2>3
    <2> HIDE DEF Built
    <2> QED BY <2>4
  <1>7. step \in [F -> F]
    <2> HIDE DEF Built, F
    <2> QED BY <1>3
  <1>8. IsRecursion(Avps, F, MaxDepth, Nested, step)
    <2>1. \A f, g \in F : \A avp \in Nested[0] : step[f][avp] = step[g][avp]
      <3> HIDE DEF step
      <3> TAKE f, g \in F
      <3>1. 0 \in 0..MaxDepth /\ AlikeBelow(f, g, 0)
        BY <1>1 DEF AlikeBelow
      <3> QED BY <1>6, <3>1
    <2>2. \A n \in 1..MaxDepth : \A f, g \in F :
            (\A avp \in Nested[n - 1] : f[avp] = g[avp])
                => \A avp \in Nested[n] : step[f][avp] = step[g][avp]
      <3> HIDE DEF step
      <3> TAKE n \in 1..MaxDepth
      <3> TAKE f, g \in F
      <3> HAVE \A avp \in Nested[n - 1] : f[avp] = g[avp]
      <3>1. n \in 0..MaxDepth /\ AlikeBelow(f, g, n)
        BY DEF AlikeBelow
      <3> QED BY <1>6, <3>1
    <2> HIDE DEF step, F
    <2> QED BY <1>1, <1>4, <1>5, <1>7, <2>1, <2>2 DEF IsRecursion
  <1>9. PICK h \in F : h = step[h]
    <2> HIDE DEF step, F
    <2> QED BY <1>8, RecursionDefined
  <1>10. h = Built(h)
    <2> HIDE DEF Built
    <2> QED BY <1>9
  <1> QED BY <1>10

\* There is no other.
AreBuilt(f, g) ==
    /\ f = [avp \in Avps |-> f[avp]] /\ g = [avp \in Avps |-> g[avp]]
    /\ \A avp \in Avps : Each(f, avp.data.kids) = Each(g, avp.data.kids) => f[avp] = g[avp]

LEMMA BuildingUnique ==
    ASSUME NEW f, NEW g, AreBuilt(f, g)
    PROVE  f = g
  <1> USE DEF AreBuilt
  <1>1. MaxDepth \in Nat /\ Nested[MaxDepth] = Avps
    BY SizeAssumption DEF Avps
  <1>2. ASSUME NEW n \in 0..MaxDepth, AlikeBelow(f, g, n)
        PROVE  \A avp \in Nested[n] : f[avp] = g[avp]
    <2> TAKE avp \in Nested[n]
    <2>1. avp \in Avps
      BY NestedWithinAvps
    <2>2. avp.data.kids \in Within(n)
      BY DataOf
    <2>3. Each(f, avp.data.kids) = Each(g, avp.data.kids)
      BY <1>2, <2>2, EachAlike
    <2> QED BY <2>1, <2>3
  <1>3. \A avp \in Nested[0] : f[avp] = g[avp]
    <2>1. 0 \in 0..MaxDepth /\ AlikeBelow(f, g, 0)
      BY <1>1 DEF AlikeBelow
    <2> QED BY <1>2, <2>1
  <1>4. \A n \in 1..MaxDepth :
            (\A avp \in Nested[n - 1] : f[avp] = g[avp])
                => \A avp \in Nested[n] : f[avp] = g[avp]
    <2> TAKE n \in 1..MaxDepth
    <2> HAVE \A avp \in Nested[n - 1] : f[avp] = g[avp]
    <2>1. n \in 0..MaxDepth /\ AlikeBelow(f, g, n)
      BY DEF AlikeBelow
    <2> QED BY <1>2, <2>1
  <1>5. AreResults(Avps, MaxDepth, Nested, f, g)
    BY <1>1, <1>3, <1>4 DEF AreResults
  <1> QED BY <1>5, RecursionUnique

----------------------------------------------------------------------------
(* Texts                                                                     *)

LEMMA DigitsKnown ==
    /\ Base \in Nat /\ Base >= 4
    /\ Digits \in Nat /\ Digits >= 2 /\ Digits <= Base - 1 /\ Digits * Digits = Base
  <1>1. Base \in Nat /\ Base >= 4 /\ Digits \in Nat /\ Digits * Digits = Base
    BY SizeAssumption, DigitsAssumption
  <1>2. Digits >= 2
    <2>1. CASE Digits = 0
      BY <1>1, <2>1
    <2>2. CASE Digits = 1
      BY <1>1, <2>2
    <2> QED BY <1>1, <2>1, <2>2
  <1>3. \A x \in Nat : x >= 2 => x * x >= 2 * x
    OBVIOUS
  <1> QED BY <1>1, <1>2, <1>3

Digit == 0 .. (Digits - 1)

LEMMA DigitsAreOctets ==
    Digit \subseteq Octet /\ Separator \in Octet
  BY DigitsKnown DEF Digit, Octet, Separator

\* An octet is two digits.
LEMMA OctetDigits ==
    ASSUME NEW o \in Octet
    PROVE  o \div Digits \in Digit /\ o % Digits \in Digit
           /\ (o \div Digits) * Digits + (o % Digits) = o
  <1> DEFINE d == Digits
             q == o \div d
             r == o % d
  <1>1. d \in Nat /\ d >= 2 /\ d * d = Base /\ o \in Nat /\ o <= Base - 1
    BY DigitsKnown DEF Octet
  <1> HIDE DEF d
  <1>2. q \in Int /\ r \in 0..(d - 1) /\ o = d * q + r
    BY <1>1
  <1> HIDE DEF q, r
  <1>3. q >= 0
    <2>1. \A x \in Nat : (-(x + 1)) * d <= -d
      BY <1>1
    <2>2. CASE q <= -1
      <3>1. -q - 1 \in Nat /\ -((-q - 1) + 1) = q
        BY <1>2, <2>2
      <3>2. q * d <= -d
        <4> DEFINE x == -q - 1
        <4>1. x \in Nat /\ -(x + 1) = q
          BY <3>1
        <4> HIDE DEF x
        <4>2. (-(x + 1)) * d <= -d
          BY <2>1, <4>1
        <4>3. q * d = (-(x + 1)) * d
          BY <4>1
        <4> QED BY <4>2, <4>3
      <3>3. q * d = d * q /\ d * q \in Int
        BY <1>1, <1>2
      <3> QED BY <1>1, <1>2, <3>2, <3>3
    <2> QED BY <1>2, <2>2
  <1>4. q <= d - 1
    <2>1. CASE q >= d
      <3>1. \A x, y \in Nat : x >= y => y * x >= y * y
        OBVIOUS
      <3>2. d * q >= d * d /\ d * q \in Int
        BY <1>1, <1>2, <2>1, <3>1
      <3> QED BY <1>1, <1>2, <3>2
    <2> QED BY <1>1, <1>2, <2>1
  <1>5. q * d = d * q
    BY <1>1, <1>2
  <1>6. q \in 0..(d - 1) /\ q * d + r = o
    BY <1>1, <1>2, <1>3, <1>4, <1>5
  <1>7. q \in 0..(d - 1) /\ r \in 0..(d - 1) /\ q * d + r = o
    BY <1>2, <1>6
  <1> QED BY <1>7, Zenon DEF Digit, q, r, d

\* Two digits are an octet.
LEMMA DigitsMakeOctet ==
    ASSUME NEW a \in Digit, NEW b \in Digit
    PROVE  a * Digits + b \in Octet
  <1>1. /\ Digits \in Nat /\ Digits >= 2 /\ Digits * Digits = Base
        /\ a \in Nat /\ a <= Digits - 1 /\ b \in Nat /\ b <= Digits - 1
    BY DigitsKnown DEF Digit
  <1>2. a * Digits \in Nat /\ a * Digits <= (Digits - 1) * Digits
    BY <1>1
  <1>3. (Digits - 1) * Digits = Base - Digits
    BY <1>1
  <1> QED BY <1>1, <1>2, <1>3 DEF Octet

\* toHex writes what fromHex reads.
LEMMA ToHexTyped ==
    ASSUME NEW octets \in Seq(Octet)
    PROVE  ToHex(octets) \in Texts /\ IsHex(ToHex(octets)) /\ FromHex(ToHex(octets)) = octets
  <1> DEFINE n == Len(octets)
             text == ToHex(octets)
  <1>1. n \in Nat /\ octets \in [1..n -> Octet]
    OBVIOUS
  <1>2. ASSUME NEW i \in 1..(2 * n)
        PROVE  (i + 1) \div 2 \in 1..n
    BY <1>1, <1>2
  <1>3. \A i \in 1..(2 * n) : /\ octets[(i + 1) \div 2] \div Digits \in Digit
                             /\ octets[(i + 1) \div 2] % Digits \in Digit
    BY <1>1, <1>2, OctetDigits
  <1>4. text \in [1..(2 * n) -> Digit]
    BY <1>3 DEF ToHex
  <1>5. ASSUME NEW i \in 1..n
        PROVE  text[2 * i - 1] * Digits + text[2 * i] = octets[i]
    <2>1. /\ 2 * i - 1 \in 1..(2 * n) /\ (2 * i - 1) % 2 = 1 /\ ((2 * i - 1) + 1) \div 2 = i
          /\ 2 * i \in 1..(2 * n) /\ (2 * i) % 2 = 0 /\ (2 * i + 1) \div 2 = i
      BY <1>1
    <2>2. text[2 * i - 1] = octets[i] \div Digits /\ text[2 * i] = octets[i] % Digits
      BY <2>1 DEF ToHex
    <2>3. octets[i] \in Octet
      BY <1>1
    <2>4. (octets[i] \div Digits) * Digits + (octets[i] % Digits) = octets[i]
      BY <2>3, OctetDigits
    <2> HIDE DEF text
    <2> QED BY <2>2, <2>4, Zenon
  <1> HIDE DEF text
  <1>6. 2 * n \in Nat /\ text \in Seq(Octet) /\ Len(text) = 2 * n
    <2>1. 2 * n \in Nat
      BY <1>1
    <2>2. text \in [1..(2 * n) -> Octet]
      BY <1>4, DigitsAreOctets
    <2>3. \A m \in Nat : \A s \in [1..m -> Octet] : s \in Seq(Octet) /\ Len(s) = m
      OBVIOUS
    <2> QED BY <2>1, <2>2, <2>3
  <1>7. IsHex(text)
    <2>1. \A i \in 1..(2 * n) : text[i] < Digits
      BY <1>4, DigitsKnown DEF Digit
    <2>2. (2 * n) % 2 = 0
      BY <1>1
    <2>3. DOMAIN text = 1..(2 * n)
      BY <1>4
    <2> QED BY <1>6, <2>1, <2>2, <2>3 DEF IsHex
  <1>8. FromHex(text) = octets
    <2>1. Len(text) \div 2 = n
      <3> HIDE DEF n
      <3> QED BY <1>1, <1>6
    <2>2. FromHex(text) = [i \in 1..n |-> octets[i]]
      BY <1>5, <2>1 DEF FromHex
    <2> HIDE DEF n
    <2> QED BY <1>1, <2>2
  <1> QED BY <1>6, <1>7, <1>8 DEF text, Texts

LEMMA FromHexTyped ==
    ASSUME NEW text \in Texts, IsHex(text)
    PROVE  FromHex(text) \in Texts
  <1> DEFINE n == Len(text) \div 2
  <1>1. Len(text) \in Nat /\ n \in Nat /\ text \in [1..Len(text) -> Octet]
    BY DEF Texts
  <1>2. ASSUME NEW i \in 1..n
        PROVE  text[2 * i - 1] * Digits + text[2 * i] \in Octet
    <2>1. 2 * i - 1 \in 1..Len(text) /\ 2 * i \in 1..Len(text)
      BY <1>1
    <2>2. text[2 * i - 1] \in Digit /\ text[2 * i] \in Digit
      BY <1>1, <2>1, DigitsKnown DEF IsHex, Octet, Digit
    <2> QED BY <2>2, DigitsMakeOctet
  <1> HIDE DEF n
  <1>3. [i \in 1..n |-> text[2 * i - 1] * Digits + text[2 * i]] \in [1..n -> Octet]
    BY <1>2
  <1>4. FromHex(text) \in [1..n -> Octet]
    BY <1>3 DEF FromHex, n
  <1> QED BY <1>1, <1>4 DEF Texts

LEMMA HostTextTyped ==
    ASSUME NEW host \in Seq(Octet), host # <<>>
    PROVE  HostText(host) \in Texts
  <1> DEFINE n == Len(host)
             m == 2 * n - 1
  <1>1. n \in Nat /\ n >= 1 /\ host \in [1..n -> Octet] /\ m \in Nat
    BY EmptySeq
  <1>2. ASSUME NEW i \in 1..m, i % 2 = 1 PROVE host[(i + 1) \div 2] \in Octet
    <2>1. (i + 1) \div 2 \in 1..n
      BY <1>1
    <2> QED BY <1>1, <2>1
  <1>3. HostText(host) \in [1..m -> Octet]
    BY <1>2, DigitsAreOctets DEF HostText
  <1> HIDE DEF m
  <1> QED BY <1>1, <1>3 DEF Texts

\* inet_pton reads what inet_ntop writes.
LEMMA HostBack ==
    ASSUME NEW text \in Texts, NEW n \in {4, 16}, SpellsHost(text, n)
    PROVE  /\ HostOf(text) \in Seq(Octet) /\ Len(HostOf(text)) = n
           /\ HostText(HostOf(text)) = text
  <1> DEFINE host == HostOf(text)
             m == 2 * n - 1
  <1>1. /\ m \in Nat /\ (Len(text) + 1) \div 2 = n /\ Len(text) = m
        /\ text \in [1..m -> Octet]
        /\ \A i \in 1..(n - 1) : text[2 * i] = Separator
    BY DEF SpellsHost, Texts
  <1>2. ASSUME NEW i \in 1..n PROVE text[2 * i - 1] \in Octet
    <2>1. 2 * i - 1 \in 1..m
      OBVIOUS
    <2> HIDE DEF m
    <2> QED BY <1>1, <2>1
  <1>3. host = [i \in 1..n |-> text[2 * i - 1]]
    BY <1>1 DEF HostOf
  <1>4. host \in [1..n -> Octet] /\ n \in Nat
    BY <1>2, <1>3
  <1>5. host \in Seq(Octet) /\ Len(host) = n
    <2>1. \A k \in Nat : \A s \in [1..k -> Octet] : s \in Seq(Octet) /\ Len(s) = k
      OBVIOUS
    <2> HIDE DEF host
    <2> QED BY <1>4, <2>1
  <1>6. ASSUME NEW i \in 1..m
        PROVE  (IF i % 2 = 1 THEN host[(i + 1) \div 2] ELSE Separator) = text[i]
    <2>1. CASE i % 2 = 1
      <3>1. (i + 1) \div 2 \in 1..n /\ 2 * ((i + 1) \div 2) - 1 = i
        BY <2>1
      <3> HIDE DEF host
      <3> QED BY <1>3, <2>1, <3>1
    <2>2. CASE i % 2 # 1
      <3>1. i \div 2 \in 1..(n - 1) /\ 2 * (i \div 2) = i
        BY <2>2
      <3> QED BY <1>1, <2>2, <3>1
    <2> QED BY <2>1, <2>2
  <1>7. HostText(host) = [i \in 1..m |-> text[i]]
    <2> HIDE DEF host
    <2> QED BY <1>5, <1>6 DEF HostText
  <1> HIDE DEF host, m
  <1>8. HostText(host) = text
    BY <1>1, <1>7
  <1> QED BY <1>5, <1>8 DEF host

\* What an address is encoded to.
Addressed(text) == Octets(Family(text), 2) \o HostOf(text)

LEMMA AddressLength ==
    ASSUME NEW text \in Texts, IsAddress(text)
    PROVE  /\ HostOf(text) \in Seq(Octet) /\ HostText(HostOf(text)) = text
           /\ Len(HostOf(text)) = IF SpellsHost(text, 4) THEN 4 ELSE 16
  <1>1. CASE SpellsHost(text, 4)
    BY <1>1, HostBack
  <1>2. CASE ~SpellsHost(text, 4)
    <2>1. SpellsHost(text, 16)
      BY <1>2 DEF IsAddress
    <2> QED BY <1>2, <2>1, HostBack
  <1> QED BY <1>1, <1>2

\* An octet of any text stands at an odd place of it or is left out.
LEMMA HostTyped ==
    ASSUME NEW text \in Texts
    PROVE  HostOf(text) \in Seq(Octet)
  <1> DEFINE m == (Len(text) + 1) \div 2
  <1>1. m \in Nat /\ Len(text) \in Nat /\ text \in [1..Len(text) -> Octet]
    BY DEF Texts
  <1>2. \A i \in 1..m : 2 * i - 1 \in 1..Len(text)
    BY <1>1
  <1> HIDE DEF m
  <1>3. [i \in 1..m |-> text[2 * i - 1]] \in [1..m -> Octet]
    BY <1>1, <1>2
  <1>4. HostOf(text) \in [1..m -> Octet]
    BY <1>3 DEF HostOf, m
  <1> QED BY <1>1, <1>4

LEMMA AddressedTyped ==
    ASSUME NEW text \in Texts
    PROVE  Addressed(text) \in Seq(Octet)
  <1>1. Octets(Family(text), 2) \in Seq(Octet)
    BY OctetsTyped DEF Family
  <1> QED BY <1>1, HostTyped DEF Addressed

----------------------------------------------------------------------------
(* The wire                                                                  *)

LEMMA PaddedUp ==
    ASSUME NEW n \in Nat
    PROVE  Padded(n) \in Nat /\ n <= Padded(n) /\ Padded(n) <= n + 3
  BY DEF Padded

\* The header, the data and the padding of an AVP.
LEMMA FramedTyped ==
    ASSUME NEW avp \in Avps, NEW data \in Seq(Octet)
    PROVE  /\ Framed(avp, data) \in Seq(Octet)
           /\ Len(Framed(avp, data)) = Padded(HeaderLen(avp) + Len(data))
  <1> DEFINE vendor == IF HasVendorBit(avp.flags) THEN Octets(avp.id[2], 4) ELSE <<>>
             length == 8 + Len(vendor) + Len(data)
             padding == [i \in 1..(Padded(length) - length) |-> 0]
             code == Octets(avp.id[1], 4)
             size == Octets(length, 3)
  <1>1. avp.id[1] \in Int /\ avp.id[2] \in Int /\ avp.flags \in Octet
    BY AvpTyped
  <1>0. ASSUME NEW v \in Int
        PROVE  /\ Octets(v, 4) \in Seq(Octet) /\ Len(Octets(v, 4)) = 4
               /\ Octets(v, 3) \in Seq(Octet) /\ Len(Octets(v, 3)) = 3
    <2>1. 4 \in 0..8 /\ 3 \in 0..8
      OBVIOUS
    <2> QED BY <2>1, OctetsTyped
  <1>2. vendor \in Seq(Octet) /\ Len(vendor) = IF HasVendorBit(avp.flags) THEN 4 ELSE 0
    <2>1. <<>> \in Seq(Octet) /\ Len(<<>>) = 0
      OBVIOUS
    <2>2. CASE HasVendorBit(avp.flags)
      BY <1>0, <1>1, <2>2
    <2>3. CASE ~HasVendorBit(avp.flags)
      BY <2>1, <2>3
    <2> QED BY <2>2, <2>3
  <1>3. length \in Nat /\ length = HeaderLen(avp) + Len(data)
    <2>1. Len(data) \in Nat
      OBVIOUS
    <2> HIDE DEF vendor
    <2> QED BY <1>2, <2>1 DEF HeaderLen
  <1>4. code \in Seq(Octet) /\ Len(code) = 4
    BY <1>0, <1>1
  <1>5. size \in Seq(Octet) /\ Len(size) = 3
    <2> HIDE DEF length
    <2> QED BY <1>0, <1>3
  <1>17. length = 8 + Len(vendor) + Len(data)
    OBVIOUS
  <1> HIDE DEF length
  <1>6. padding \in Seq(Octet) /\ Len(padding) = Padded(length) - length
    <2> DEFINE n == Padded(length) - length
    <2>1. n \in Nat
      <3>1. Padded(length) \in Nat /\ length <= Padded(length) /\ length \in Nat
        BY <1>3, PaddedUp
      <3> QED BY <3>1
    <2>2. 0 \in Octet
      BY SizeAssumption DEF Octet
    <2> HIDE DEF n
    <2>3. [i \in 1..n |-> 0] \in [1..n -> Octet]
      BY <2>2
    <2>4. Len([i \in 1..n |-> 0]) = n
      BY <2>1
    <2> QED BY <2>1, <2>3, <2>4 DEF n
  <1>7. Framed(avp, data) = code \o <<avp.flags>> \o size \o vendor \o data \o padding
    BY DEF Framed, length
  <1> HIDE DEF code, size, vendor, padding
  <1>16. \A s, t \in Seq(Octet) : s \o t \in Seq(Octet) /\ Len(s \o t) = Len(s) + Len(t)
    OBVIOUS
  <1>8. <<avp.flags>> \in Seq(Octet) /\ Len(<<avp.flags>>) = 1
    BY <1>1
  <1> DEFINE s1 == code \o <<avp.flags>>
             s2 == s1 \o size
             s3 == s2 \o vendor
             s4 == s3 \o data
  <1>9. Framed(avp, data) = s4 \o padding
    BY <1>7
  <1>10. s1 \in Seq(Octet) /\ Len(s1) = 5
    <2>1. s1 \in Seq(Octet) /\ Len(s1) = Len(code) + Len(<<avp.flags>>)
      BY <1>16, <1>4, <1>8, Zenon
    <2>2. 4 + 1 = 5
      OBVIOUS
    <2> QED BY <1>4, <1>8, <2>1, <2>2, Zenon
  <1> HIDE DEF s1
  <1>11. s2 \in Seq(Octet) /\ Len(s2) = 8
    <2>1. s2 \in Seq(Octet) /\ Len(s2) = Len(s1) + Len(size)
      BY <1>16, <1>5, <1>10, Zenon
    <2>2. 5 + 3 = 8
      OBVIOUS
    <2> QED BY <1>5, <1>10, <2>1, <2>2, Zenon
  <1> HIDE DEF s2
  <1>12. s3 \in Seq(Octet) /\ Len(s3) = 8 + Len(vendor)
    BY <1>16, <1>2, <1>11
  <1> HIDE DEF s3
  <1>13. s4 \in Seq(Octet) /\ Len(s4) = length
    BY <1>16, <1>12, <1>17
  <1> HIDE DEF s4
  <1>14. /\ Framed(avp, data) \in Seq(Octet)
         /\ Len(Framed(avp, data)) = length + (Padded(length) - length)
    BY <1>16, <1>6, <1>9, <1>13
  <1>15. Padded(length) \in Nat
    BY <1>3, PaddedUp
  <1> QED BY <1>3, <1>14, <1>15

LEMMA WidthKnown ==
    ASSUME NEW type, IsNumber(type)
    PROVE  Width[type] \in 0..8 /\ Width[type] \in {4, 8}
  BY DEF IsNumber, Width

LEMMA EncodeDataTyped ==
    ASSUME NEW avp \in Avps, NEW kids \in Seq(Seq(Octet))
    PROVE  EncodeData(avp, kids) \in Seq(Octet)
  <1> DEFINE type == CodingType(avp)
  <1>1. avp.data.num \in Int /\ avp.data.text \in Texts
    BY AvpTyped
  <1>2. CASE IsNumber(type)
    <2>1. EncodeData(avp, kids) = Octets(avp.data.num, Width[type])
      BY <1>2 DEF EncodeData
    <2> QED BY <1>1, <1>2, <2>1, WidthKnown, OctetsTyped
  <1>3. CASE ~IsNumber(type) /\ type = "Grouped"
    BY <1>3, JoinedTyped DEF EncodeData
  <1>4. CASE ~IsNumber(type) /\ type = "Address"
    <2>1. EncodeData(avp, kids) = Addressed(avp.data.text)
      BY <1>4 DEF EncodeData, Addressed
    <2> QED BY <1>1, <2>1, AddressedTyped
  <1>5. CASE ~IsNumber(type) /\ type # "Grouped" /\ type # "Address"
    BY <1>1, <1>5 DEF EncodeData, Texts
  <1> QED BY <1>2, <1>3, <1>4, <1>5

LEMMA KidsAreAvps ==
    ASSUME NEW avp \in Avps
    PROVE  avp.data.kids \in Seq(Avps)
  <1>1. MaxDepth \in Nat /\ avp.data.kids \in Within(MaxDepth)
    BY AvpTyped, SizeAssumption
  <1>2. CASE MaxDepth = 0
    <2>1. avp.data.kids = <<>>
      BY <1>1, <1>2 DEF Within
    <2>2. <<>> \in Seq(Avps)
      OBVIOUS
    <2> QED BY <2>1, <2>2, Zenon
  <1>3. CASE MaxDepth # 0
    <2>1. MaxDepth - 1 \in 0..MaxDepth
      BY <1>1, <1>3
    <2>2. Nested[MaxDepth - 1] \subseteq Avps
      BY <2>1, NestedWithinAvps
    <2> QED BY <1>1, <1>3, <2>2 DEF Within
  <1> QED BY <1>2, <1>3

LEMMA EachOf ==
    ASSUME NEW avps \in Seq(Avps), NEW X, NEW f \in [Avps -> X]
    PROVE  /\ Each(f, avps) \in Seq(X) /\ Len(Each(f, avps)) = Len(avps)
           /\ \A i \in 1..Len(avps) : avps[i] \in Avps /\ Each(f, avps)[i] = f[avps[i]]
  <1>1. Len(avps) \in Nat /\ DOMAIN avps = 1..Len(avps)
    OBVIOUS
  <1>2. \A i \in 1..Len(avps) : avps[i] \in Avps
    OBVIOUS
  <1>3. Each(f, avps) \in [1..Len(avps) -> X]
    BY <1>1, <1>2 DEF Each
  <1>4. \A i \in 1..Len(avps) : Each(f, avps)[i] = f[avps[i]]
    BY <1>1 DEF Each
  <1> QED BY <1>1, <1>2, <1>3, <1>4

\* The same when what is made of an AVP is in one set, however deep it is.
IsFold(S, of) ==
    S # {} /\ \A avp \in Avps : \A values \in Seq(S) : of[avp][values] \in S

LEMMA FoldDefined ==
    ASSUME NEW S, NEW of, IsFold(S, of)
    PROVE  \E f \in [Avps -> S] :
            /\ \A avp \in Avps : Each(f, avp.data.kids) \in Seq(S)
            /\ f = [avp \in Avps |-> of[avp][Each(f, avp.data.kids)]]
  <1> DEFINE X == [d \in 0..MaxDepth |-> S]
  <1>1. MaxDepth \in 0..MaxDepth
    BY SizeAssumption
  <1>2. IsBuilding(X, of)
    <2>1. \E x : \A d \in 0..MaxDepth : x \in X[d]
      BY DEF IsFold
    <2>2. \A d \in 0..MaxDepth : X[d] \subseteq X[MaxDepth]
      BY <1>1
    <2>3. ASSUME NEW d \in 0..MaxDepth, NEW avp \in Nested[d], NEW values \in Seq(Below(X, d))
          PROVE  of[avp][values] \in X[d]
      <3>1. Below(X, d) \subseteq S
        BY SizeAssumption DEF Below
      <3>2. values \in Seq(S) /\ avp \in Avps
        <4> HIDE DEF X
        <4> QED BY <3>1, NestedWithinAvps
      <3> QED BY <3>2 DEF IsFold
    <2> HIDE DEF X
    <2> QED BY <2>1, <2>2, <2>3 DEF IsBuilding
  <1>3. PICK f \in Layered(X) : f = [avp \in Avps |-> of[avp][Each(f, avp.data.kids)]]
    <2> HIDE DEF X
    <2> QED BY <1>2, BuildingDefined
  <1>4. f \in [Avps -> S]
    BY <1>1, <1>3 DEF Layered
  <1>5. \A avp \in Avps : Each(f, avp.data.kids) \in Seq(S)
    <2> HIDE DEF X
    <2> QED BY <1>4, KidsAreAvps, EachOf
  <1> HIDE DEF X
  <1> QED BY <1>3, <1>4, <1>5

\* Encode is what its definition says, and octets.
LEMMA EncodeDefined ==
    /\ Encode \in [Avps -> Seq(Octet)]
    /\ \A avp \in Avps :
        Encode[avp] = Framed(avp, EncodeData(avp, Each(Encode, avp.data.kids)))
  <1> DEFINE S == Seq(Octet)
             Of(avp, values) == Framed(avp, EncodeData(avp, values))
             of == [avp \in Avps |-> [values \in Seq(S) |-> Of(avp, values)]]
             Body(f) == [avp \in Avps |-> Of(avp, Each(f, avp.data.kids))]
  <1>1. ASSUME NEW avp \in Avps, NEW values \in Seq(S) PROVE Of(avp, values) \in S
    BY <1>1, EncodeDataTyped, FramedTyped
  <1>2. \A avp \in Avps : \A values \in Seq(S) : of[avp][values] = Of(avp, values)
    <2> HIDE DEF Of, S
    <2> QED OBVIOUS
  <1>3. IsFold(S, of)
    <2>1. <<>> \in S
      OBVIOUS
    <2> HIDE DEF S, of, Of
    <2> QED BY <1>1, <1>2, <2>1 DEF IsFold
  <1>4. PICK f \in [Avps -> S] :
          /\ \A avp \in Avps : Each(f, avp.data.kids) \in Seq(S)
          /\ f = [avp \in Avps |-> of[avp][Each(f, avp.data.kids)]]
    <2> HIDE DEF S, of
    <2> QED BY <1>3, FoldDefined
  <1>5. f = Body(f)
    <2> HIDE DEF of, Of, S
    <2>1. \A avp \in Avps :
            of[avp][Each(f, avp.data.kids)] = Of(avp, Each(f, avp.data.kids))
      BY <1>2, <1>4
    <2> QED BY <1>4, <2>1
  <1>6. Encode = Body(Encode)
    <2> USE DEF Each
    <2> QED BY <1>5 DEF Encode
  <1>7. Encode = f
    <2> HIDE DEF Of
    <2>1. AreBuilt(Encode, f)
      BY <1>5, <1>6 DEF AreBuilt
    <2> QED BY <2>1, BuildingUnique
  <1> HIDE DEF Of
  <1>8. \A avp \in Avps : Encode[avp] = Of(avp, Each(Encode, avp.data.kids))
    BY <1>6
  <1> QED BY <1>4, <1>7, <1>8 DEF Of

\* The total of some lengths, each padded.
LEMMA TogetherTyped ==
    ASSUME NEW lengths \in Seq(Nat)
    PROVE  /\ Together(lengths) \in Nat
           /\ Together(lengths) = Total([i \in DOMAIN lengths |-> Padded(lengths[i])])
           /\ [i \in DOMAIN lengths |-> Padded(lengths[i])] \in Seq(Nat)
           /\ Len([i \in DOMAIN lengths |-> Padded(lengths[i])]) = Len(lengths)
  <1> DEFINE n == Len(lengths)
             padded == [i \in DOMAIN lengths |-> Padded(lengths[i])]
  <1>1. n \in Nat /\ DOMAIN lengths = 1..n /\ \A i \in 1..n : lengths[i] \in Nat
    OBVIOUS
  <1>2. \A i \in 1..n : Padded(lengths[i]) \in Nat
    BY <1>1, PaddedUp
  <1>3. padded \in [1..n -> Nat]
    BY <1>1, <1>2
  <1>4. padded \in Seq(Nat) /\ Len(padded) = n
    <2> HIDE DEF n, padded
    <2> QED BY <1>1, <1>3
  <1>5. Together(lengths) = Total(padded)
    BY DEF Together
  <1> HIDE DEF padded
  <1>6. Total(padded) \in Nat
    <2>1. Len(padded) \in 0..Len(padded)
      BY <1>4
    <2>2. PICK acc : acc \in [0..Len(padded) -> Nat] /\ Total(padded) = acc[Len(padded)]
      BY <1>4, TotalLoop
    <2> QED BY <2>1, <2>2
  <1> QED BY <1>4, <1>5, <1>6 DEF padded

\* getLength, with the lengths of the AVPs within.
LengthWith(avp, lengths) ==
    LET type == CodingType(avp) IN
    HeaderLen(avp) +
        IF IsNumber(type) THEN Width[type]
        ELSE IF type = "Grouped" THEN Together(lengths)
        ELSE IF type = "Address" THEN IF SpellsHost(avp.data.text, 4) THEN 6 ELSE 18
        ELSE Len(avp.data.text)

LEMMA LengthWithTyped ==
    ASSUME NEW avp \in Avps, NEW lengths \in Seq(Nat)
    PROVE  LengthWith(avp, lengths) \in Nat
  <1>1. HeaderLen(avp) \in Nat
    BY DEF HeaderLen
  <1>2. Together(lengths) \in Nat
    BY TogetherTyped
  <1>3. Len(avp.data.text) \in Nat
    BY AvpTyped DEF Texts
  <1>4. IsNumber(CodingType(avp)) => Width[CodingType(avp)] \in Nat
    BY WidthKnown
  <1> DEFINE type == CodingType(avp)
             width == IF IsNumber(type) THEN Width[type]
                      ELSE IF type = "Grouped" THEN Together(lengths)
                      ELSE IF type = "Address" THEN IF SpellsHost(avp.data.text, 4) THEN 6 ELSE 18
                      ELSE Len(avp.data.text)
  <1>5. width \in Nat
    BY <1>2, <1>3, <1>4
  <1>6. LengthWith(avp, lengths) = HeaderLen(avp) + width
    BY DEF LengthWith
  <1> HIDE DEF width
  <1> QED BY <1>1, <1>5, <1>6

\* LengthOf is what its definition says, and a number.
LEMMA LengthDefined ==
    /\ LengthOf \in [Avps -> Nat]
    /\ \A avp \in Avps :
        LengthOf[avp] = LengthWith(avp, Each(LengthOf, avp.data.kids))
  <1> DEFINE S == Nat
             Of(avp, values) == LengthWith(avp, values)
             of == [avp \in Avps |-> [values \in Seq(S) |-> Of(avp, values)]]
             Body(f) == [avp \in Avps |-> Of(avp, Each(f, avp.data.kids))]
  <1>1. ASSUME NEW avp \in Avps, NEW values \in Seq(S) PROVE Of(avp, values) \in S
    BY <1>1, LengthWithTyped
  <1>2. \A avp \in Avps : \A values \in Seq(S) : of[avp][values] = Of(avp, values)
    <2> HIDE DEF Of, S
    <2> QED OBVIOUS
  <1>3. IsFold(S, of)
    <2>1. 0 \in S
      OBVIOUS
    <2> HIDE DEF S, of, Of
    <2> QED BY <1>1, <1>2, <2>1 DEF IsFold
  <1>4. PICK f \in [Avps -> S] :
          /\ \A avp \in Avps : Each(f, avp.data.kids) \in Seq(S)
          /\ f = [avp \in Avps |-> of[avp][Each(f, avp.data.kids)]]
    <2> HIDE DEF S, of
    <2> QED BY <1>3, FoldDefined
  <1>5. f = Body(f)
    <2> HIDE DEF of, Of, S
    <2>1. \A avp \in Avps :
            of[avp][Each(f, avp.data.kids)] = Of(avp, Each(f, avp.data.kids))
      BY <1>2, <1>4
    <2> QED BY <1>4, <2>1
  <1>6. LengthOf = Body(LengthOf)
    <2> USE DEF Each, LengthWith
    <2> QED BY <1>5 DEF LengthOf
  <1>7. LengthOf = f
    <2> HIDE DEF Of
    <2>1. AreBuilt(LengthOf, f)
      BY <1>5, <1>6 DEF AreBuilt
    <2> QED BY <2>1, BuildingUnique
  <1> HIDE DEF Of
  <1>8. \A avp \in Avps : LengthOf[avp] = Of(avp, Each(LengthOf, avp.data.kids))
    BY <1>6
  <1> QED BY <1>4, <1>7, <1>8 DEF Of

\* What AVPs are encoded to, and their lengths.
LEMMA EachEncoded ==
    ASSUME NEW avps \in Seq(Avps)
    PROVE  /\ Each(Encode, avps) \in Seq(Seq(Octet)) /\ Len(Each(Encode, avps)) = Len(avps)
           /\ \A i \in 1..Len(avps) :
                avps[i] \in Avps /\ Each(Encode, avps)[i] = Encode[avps[i]]
  <1>1. Encode \in [Avps -> Seq(Octet)]
    BY EncodeDefined
  <1> QED BY <1>1, EachOf

LEMMA EachMeasured ==
    ASSUME NEW avps \in Seq(Avps)
    PROVE  /\ Each(LengthOf, avps) \in Seq(Nat) /\ Len(Each(LengthOf, avps)) = Len(avps)
           /\ \A i \in 1..Len(avps) :
                avps[i] \in Avps /\ Each(LengthOf, avps)[i] = LengthOf[avps[i]]
  <1>1. LengthOf \in [Avps -> Nat]
    BY LengthDefined
  <1> QED BY <1>1, EachOf

\* An AVP and the parts of those within it.
PartsWith(avp, parts) == {avp} \cup UNION {parts[i] : i \in DOMAIN parts}

LEMMA PartsOfEach ==
    ASSUME NEW f, NEW avp
    PROVE  PartsWith(avp, Each(f, avp.data.kids))
              = {avp} \cup UNION {f[avp.data.kids[i]] : i \in DOMAIN avp.data.kids}
  BY DEF PartsWith, Each

\* Parts is what its definition says, and AVPs.
LEMMA PartsDefined ==
    /\ Parts \in [Avps -> SUBSET Avps]
    /\ \A avp \in Avps :
        Parts[avp] = PartsWith(avp, Each(Parts, avp.data.kids))
  <1> DEFINE S == SUBSET Avps
             Of(avp, values) == PartsWith(avp, values)
             of == [avp \in Avps |-> [values \in Seq(S) |-> Of(avp, values)]]
             Body(f) == [avp \in Avps |-> Of(avp, Each(f, avp.data.kids))]
  <1>1. ASSUME NEW avp \in Avps, NEW values \in Seq(S) PROVE Of(avp, values) \in S
    BY <1>1 DEF PartsWith
  <1>2. \A avp \in Avps : \A values \in Seq(S) : of[avp][values] = Of(avp, values)
    <2> HIDE DEF Of, S
    <2> QED OBVIOUS
  <1>3. IsFold(S, of)
    <2>1. {} \in S
      OBVIOUS
    <2> HIDE DEF S, of, Of
    <2> QED BY <1>1, <1>2, <2>1 DEF IsFold
  <1>4. PICK f \in [Avps -> S] :
          /\ \A avp \in Avps : Each(f, avp.data.kids) \in Seq(S)
          /\ f = [avp \in Avps |-> of[avp][Each(f, avp.data.kids)]]
    <2> HIDE DEF S, of
    <2> QED BY <1>3, FoldDefined
  <1>5. f = Body(f)
    <2> HIDE DEF of, Of, S
    <2>1. \A avp \in Avps :
            of[avp][Each(f, avp.data.kids)] = Of(avp, Each(f, avp.data.kids))
      BY <1>2, <1>4
    <2> QED BY <1>4, <2>1
  <1>6. Parts = Body(Parts)
    <2> DEFINE Written(g) == [avp \in Avps |->
            {avp} \cup UNION {g[avp.data.kids[i]] : i \in DOMAIN avp.data.kids}]
    <2>1. ASSUME NEW g PROVE Body(g) = Written(g)
      BY PartsOfEach
    <2>2. f = Written(f)
      BY <1>5, <2>1
    <2>3. Parts = Written(Parts)
      BY <2>2 DEF Parts
    <2> QED BY <2>1, <2>3
  <1>7. Parts = f
    <2> HIDE DEF Of
    <2>1. AreBuilt(Parts, f)
      BY <1>5, <1>6 DEF AreBuilt
    <2> QED BY <2>1, BuildingUnique
  <1> HIDE DEF Of
  <1>8. \A avp \in Avps : Parts[avp] = Of(avp, Each(Parts, avp.data.kids))
    BY <1>6
  <1> QED BY <1>4, <1>7, <1>8 DEF Of

\* What holds of an AVP when it does of those within it, holds of all.
LEMMA AvpInduction ==
    ASSUME NEW T, \A avp \in Avps :
              (\A i \in 1..Len(avp.data.kids) : avp.data.kids[i] \in T) => avp \in T
    PROVE  Avps \subseteq T
  <1>1. MaxDepth \in Nat /\ Avps = Nested[MaxDepth]
    BY SizeAssumption DEF Avps
  <1>2. ASSUME NEW d \in 0..MaxDepth, d # 0 => Nested[d - 1] \subseteq T
        PROVE  Nested[d] \subseteq T
    <2> SUFFICES ASSUME NEW avp \in Nested[d] PROVE avp \in T
      OBVIOUS
    <2>1. avp \in Avps /\ avp.data.kids \in Within(d)
      BY DataOf, NestedWithinAvps
    <2>2. ASSUME NEW i \in 1..Len(avp.data.kids) PROVE avp.data.kids[i] \in T
      <3>1. CASE d = 0
        BY <2>1, <3>1 DEF Within
      <3>2. CASE d # 0
        <4>1. avp.data.kids \in Seq(Nested[d - 1])
          BY <2>1, <3>2 DEF Within
        <4>2. avp.data.kids[i] \in Nested[d - 1]
          BY <4>1
        <4> QED BY <1>2, <3>2, <4>2
      <3> QED BY <3>1, <3>2
    <2> QED BY <2>1, <2>2
  <1>3. Nested[0] \subseteq T
    BY <1>1, <1>2
  <1>4. \A d \in 1..MaxDepth : Nested[d - 1] \subseteq T => Nested[d] \subseteq T
    BY <1>1, <1>2
  <1>5. \A d \in 0..MaxDepth : Nested[d] \subseteq T
    BY <1>1, <1>3, <1>4, LayerInduction
  <1> QED BY <1>1, <1>5

LEMMA PartsWithin ==
    ASSUME NEW avp \in Avps
    PROVE  /\ avp \in Parts[avp] /\ Parts[avp] \subseteq Avps
           /\ \A i \in 1..Len(avp.data.kids) : Parts[avp.data.kids[i]] \subseteq Parts[avp]
  <1> DEFINE kids == avp.data.kids
  <1>1. Parts[avp] = {avp} \cup UNION {Parts[kids[i]] : i \in DOMAIN kids}
    BY PartsDefined, PartsOfEach
  <1>2. kids \in Seq(Avps)
    BY KidsAreAvps
  <1>3. DOMAIN kids = 1..Len(kids)
    BY <1>2
  <1>4. Parts[avp] \subseteq Avps
    BY PartsDefined
  <1> HIDE DEF kids
  <1> QED BY <1>1, <1>3, <1>4 DEF kids

\* Every Address within an AVP is one that inet_pton accepts.
AddressesFit(avp) ==
    \A part \in Parts[avp] : CodingType(part) = "Address" => IsAddress(part.data.text)

\* Octets of these lengths, one behind the other.
Filled(parts, lengths) ==
    /\ parts \in Seq(Seq(Octet)) /\ lengths \in Seq(Nat) /\ Len(parts) = Len(lengths)
    /\ \A i \in 1..Len(parts) : Len(parts[i]) = Padded(lengths[i])

LEMMA TogetherLength ==
    ASSUME NEW parts, NEW lengths, Filled(parts, lengths)
    PROVE  Len(Joined(parts)) = Together(lengths)
  <1> DEFINE padded == [i \in DOMAIN lengths |-> Padded(lengths[i])]
  <1>1. parts \in Seq(Seq(Octet)) /\ lengths \in Seq(Nat) /\ Len(parts) = Len(lengths)
    BY DEF Filled
  <1>2. padded \in Seq(Nat) /\ Len(padded) = Len(parts) /\ Together(lengths) = Total(padded)
    BY <1>1, TogetherTyped
  <1>3. \A i \in 1..Len(parts) : Len(parts[i]) = padded[i]
    <2>1. DOMAIN lengths = 1..Len(parts)
      BY <1>1
    <2> QED BY <2>1 DEF Filled
  <1> HIDE DEF padded
  <1> QED BY <1>1, <1>2, <1>3, JoinedLength

\* The octets of an AVP are as many as getLength says, and padding.
LEMMA EncodedLength ==
    ASSUME NEW avp \in Avps, AddressesFit(avp)
    PROVE  Len(Encode[avp]) = Padded(LengthOf[avp])
  <1> DEFINE T == {a \in Avps : AddressesFit(a) => Len(Encode[a]) = Padded(LengthOf[a])}
  <1>1. ASSUME NEW a \in Avps, AddressesFit(a),
               \A i \in 1..Len(a.data.kids) : a.data.kids[i] \in T
        PROVE  Len(Encode[a]) = Padded(LengthOf[a])
    <2> DEFINE kids == a.data.kids
               type == CodingType(a)
               octets == Each(Encode, kids)
               lengths == Each(LengthOf, kids)
               data == EncodeData(a, octets)
    <2>1. kids \in Seq(Avps) /\ a.data.num \in Int /\ a.data.text \in Texts
      BY AvpTyped, KidsAreAvps
    <2>2. octets \in Seq(Seq(Octet)) /\ lengths \in Seq(Nat) /\ data \in Seq(Octet)
      <3> HIDE DEF kids
      <3>1. octets \in Seq(Seq(Octet)) /\ lengths \in Seq(Nat)
        BY <2>1, EachEncoded, EachMeasured
      <3> HIDE DEF octets
      <3> QED BY <2>1, <3>1, EncodeDataTyped
    <2>3. Filled(octets, lengths)
      <3>1. /\ Len(octets) = Len(kids) /\ Len(lengths) = Len(kids)
            /\ \A i \in 1..Len(kids) : /\ kids[i] \in Avps
                                       /\ octets[i] = Encode[kids[i]]
                                       /\ lengths[i] = LengthOf[kids[i]]
        <4>1. /\ Len(octets) = Len(kids)
              /\ \A i \in 1..Len(kids) : kids[i] \in Avps /\ octets[i] = Encode[kids[i]]
          <5> HIDE DEF kids
          <5> QED BY <2>1, EachEncoded
        <4>2. /\ Len(lengths) = Len(kids)
              /\ \A i \in 1..Len(kids) : lengths[i] = LengthOf[kids[i]]
          <5> HIDE DEF kids
          <5> QED BY <2>1, EachMeasured
        <4> QED BY <4>1, <4>2
      <3>2. \A i \in 1..Len(kids) : AddressesFit(kids[i])
        BY <1>1, PartsWithin DEF AddressesFit
      <3>3. \A i \in 1..Len(kids) : Len(octets[i]) = Padded(lengths[i])
        <4> HIDE DEF octets, lengths
        <4> QED BY <1>1, <3>1, <3>2
      <3> HIDE DEF octets, lengths, kids
      <3> QED BY <2>2, <3>1, <3>3 DEF Filled
    <2>4. Encode[a] = Framed(a, data) /\ LengthOf[a] = LengthWith(a, lengths)
      BY EncodeDefined, LengthDefined
    <2>5. HeaderLen(a) + Len(data) = LengthWith(a, lengths)
      <3> HIDE DEF octets, lengths, kids
      <3>1. CASE IsNumber(type)
        <4>1. data = Octets(a.data.num, Width[type])
          BY <3>1 DEF EncodeData
        <4>2. Len(data) = Width[type]
          BY <2>1, <3>1, <4>1, WidthKnown, OctetsTyped
        <4> HIDE DEF data
        <4> QED BY <3>1, <4>2 DEF LengthWith
      <3>2. CASE ~IsNumber(type) /\ type = "Grouped"
        <4>1. data = Joined(octets)
          BY <3>2 DEF EncodeData
        <4>2. Len(data) = Together(lengths)
          BY <2>3, <4>1, TogetherLength
        <4> HIDE DEF data
        <4> QED BY <3>2, <4>2 DEF LengthWith
      <3>3. CASE ~IsNumber(type) /\ type = "Address"
        <4> DEFINE text == a.data.text
                   family == Octets(Family(text), 2)
                   host == HostOf(text)
        <4>1. data = family \o host
          BY <3>3 DEF EncodeData
        <4>2. IsAddress(text)
          BY <1>1, <3>3, PartsWithin DEF AddressesFit
        <4>3. family \in Seq(Octet) /\ Len(family) = 2
          <5>1. Family(text) \in Int /\ 2 \in 0..8
            BY DEF Family
          <5> QED BY <5>1, OctetsTyped
        <4>4. host \in Seq(Octet) /\ Len(host) = IF SpellsHost(text, 4) THEN 4 ELSE 16
          BY <2>1, <4>2, AddressLength
        <4> HIDE DEF family, host
        <4>5. Len(data) = Len(family) + Len(host)
          <5>1. \A s, t \in Seq(Octet) : Len(s \o t) = Len(s) + Len(t)
            OBVIOUS
          <5> QED BY <4>1, <4>3, <4>4, <5>1
        <4> HIDE DEF data
        <4>6. Len(data) = IF SpellsHost(text, 4) THEN 6 ELSE 18
          BY <4>3, <4>4, <4>5
        <4> QED BY <3>3, <4>6 DEF LengthWith
      <3>4. CASE ~IsNumber(type) /\ type # "Grouped" /\ type # "Address"
        <4>1. data = a.data.text
          BY <3>4 DEF EncodeData
        <4> HIDE DEF data
        <4> QED BY <3>4, <4>1 DEF LengthWith
      <3> QED BY <3>1, <3>2, <3>3, <3>4
    <2> HIDE DEF data
    <2>6. Len(Framed(a, data)) = Padded(HeaderLen(a) + Len(data))
      BY <2>2, FramedTyped
    <2> QED BY <2>4, <2>5, <2>6
  <1>2. \A a \in Avps : (\A i \in 1..Len(a.data.kids) : a.data.kids[i] \in T) => a \in T
    BY <1>1
  <1>3. Avps \subseteq T
    <2> HIDE DEF T
    <2> QED BY <1>2, AvpInduction
  <1> QED BY <1>3

LEMMA AllEncodedLength ==
    ASSUME NEW avps \in Seq(Avps), \A i \in 1..Len(avps) : AddressesFit(avps[i])
    PROVE  Len(EncodeAll(avps)) = LengthOfAll(avps)
  <1> DEFINE octets == Each(Encode, avps)
             lengths == Each(LengthOf, avps)
  <1>1. /\ octets \in Seq(Seq(Octet)) /\ lengths \in Seq(Nat)
        /\ Len(octets) = Len(avps) /\ Len(lengths) = Len(avps)
        /\ \A i \in 1..Len(avps) : /\ avps[i] \in Avps
                                   /\ octets[i] = Encode[avps[i]]
                                   /\ lengths[i] = LengthOf[avps[i]]
    <2>1. /\ octets \in Seq(Seq(Octet)) /\ Len(octets) = Len(avps)
          /\ \A i \in 1..Len(avps) : avps[i] \in Avps /\ octets[i] = Encode[avps[i]]
      BY EachEncoded
    <2>2. /\ lengths \in Seq(Nat) /\ Len(lengths) = Len(avps)
          /\ \A i \in 1..Len(avps) : lengths[i] = LengthOf[avps[i]]
      BY EachMeasured
    <2> QED BY <2>1, <2>2
  <1>2. EncodeAll(avps) = Joined(octets) /\ LengthOfAll(avps) = Together(lengths)
    BY DEF EncodeAll, LengthOfAll, Each
  <1> HIDE DEF octets, lengths
  <1>3. \A i \in 1..Len(avps) : Len(octets[i]) = Padded(lengths[i])
    BY <1>1, EncodedLength
  <1>4. Filled(octets, lengths)
    BY <1>1, <1>3 DEF Filled
  <1> QED BY <1>2, <1>4, TogetherLength

LEMMA EncodeAllTyped ==
    ASSUME NEW avps \in Seq(Avps)
    PROVE  EncodeAll(avps) \in Seq(Octet) /\ LengthOfAll(avps) \in Nat
  <1>1. Each(Encode, avps) \in Seq(Seq(Octet)) /\ Each(LengthOf, avps) \in Seq(Nat)
    BY EachEncoded, EachMeasured
  <1>2. /\ EncodeAll(avps) = Joined(Each(Encode, avps))
        /\ LengthOfAll(avps) = Together(Each(LengthOf, avps))
    BY DEF EncodeAll, LengthOfAll, Each
  <1> QED BY <1>1, <1>2, JoinedTyped, TogetherTyped

\* What an AVP is encoded to by the kind of value it holds, whatever its format,
\* but that an address is one of hosts: of an AVP that can be encoded, and whose
\* addresses are those.
AreHosts(hosts, avp) ==
    Encodable(avp) /\ \A part \in Parts[avp] : part \in hosts <=> CodingType(part) = "Address"

DataByKind(hosts, avp, kids) ==
    IF avp.data.kind \in {"int32", "uint32"} THEN Octets(avp.data.num, 4)
    ELSE IF avp.data.kind \in {"int64", "uint64"} THEN Octets(avp.data.num, 8)
    ELSE IF avp.data.kind = "avps" THEN Joined(kids)
    ELSE IF avp \in hosts THEN Addressed(avp.data.text)
    ELSE avp.data.text

ByKindOf(hosts) ==
    LET byKind[avp \in Avps] ==
            Framed(avp, DataByKind(hosts, avp,
                                   [i \in DOMAIN avp.data.kids |-> byKind[avp.data.kids[i]]]))
    IN  byKind

AllByKind(hosts, avps) == Joined(Each(ByKindOf(hosts), avps))

LEMMA DataByKindTyped ==
    ASSUME NEW hosts, NEW avp \in Avps, NEW kids \in Seq(Seq(Octet))
    PROVE  DataByKind(hosts, avp, kids) \in Seq(Octet)
  <1>1. avp.data.num \in Int /\ avp.data.text \in Texts
    BY AvpTyped
  <1>2. 4 \in 0..8 /\ 8 \in 0..8
    OBVIOUS
  <1>3. Octets(avp.data.num, 4) \in Seq(Octet) /\ Octets(avp.data.num, 8) \in Seq(Octet)
    BY <1>1, <1>2, OctetsTyped
  <1>4. /\ Joined(kids) \in Seq(Octet) /\ avp.data.text \in Seq(Octet)
        /\ Addressed(avp.data.text) \in Seq(Octet)
    BY <1>1, JoinedTyped, AddressedTyped DEF Texts
  <1> QED BY <1>3, <1>4 DEF DataByKind

LEMMA ByKindDefined ==
    ASSUME NEW hosts
    PROVE  /\ ByKindOf(hosts) \in [Avps -> Seq(Octet)]
           /\ \A avp \in Avps :
                ByKindOf(hosts)[avp]
                    = Framed(avp, DataByKind(hosts, avp, Each(ByKindOf(hosts), avp.data.kids)))
  <1> DEFINE ByKind == ByKindOf(hosts)
             S == Seq(Octet)
             Of(avp, values) == Framed(avp, DataByKind(hosts, avp, values))
             of == [avp \in Avps |-> [values \in Seq(S) |-> Of(avp, values)]]
             Body(f) == [avp \in Avps |-> Of(avp, Each(f, avp.data.kids))]
  <1>1. ASSUME NEW avp \in Avps, NEW values \in Seq(S) PROVE Of(avp, values) \in S
    BY <1>1, DataByKindTyped, FramedTyped
  <1>2. \A avp \in Avps : \A values \in Seq(S) : of[avp][values] = Of(avp, values)
    <2> HIDE DEF Of, S
    <2> QED OBVIOUS
  <1>3. IsFold(S, of)
    <2>1. <<>> \in S
      OBVIOUS
    <2> HIDE DEF S, of, Of
    <2> QED BY <1>1, <1>2, <2>1 DEF IsFold
  <1>4. PICK f \in [Avps -> S] :
          /\ \A avp \in Avps : Each(f, avp.data.kids) \in Seq(S)
          /\ f = [avp \in Avps |-> of[avp][Each(f, avp.data.kids)]]
    <2> HIDE DEF S, of
    <2> QED BY <1>3, FoldDefined
  <1>5. f = Body(f)
    <2> HIDE DEF of, Of, S
    <2>1. \A avp \in Avps :
            of[avp][Each(f, avp.data.kids)] = Of(avp, Each(f, avp.data.kids))
      BY <1>2, <1>4
    <2> QED BY <1>4, <2>1
  <1>6. ByKind = Body(ByKind)
    <2> USE DEF Each
    <2> QED BY <1>5 DEF ByKindOf
  <1> HIDE DEF ByKind
  <1>7. ByKind = f
    <2> HIDE DEF Of
    <2>1. AreBuilt(ByKind, f)
      BY <1>5, <1>6 DEF AreBuilt
    <2> QED BY <2>1, BuildingUnique
  <1> HIDE DEF Of
  <1>8. \A avp \in Avps : ByKind[avp] = Of(avp, Each(ByKind, avp.data.kids))
    BY <1>6
  <1> QED BY <1>4, <1>7, <1>8 DEF Of, ByKind

\* The format that an AVP is coded by and the kind of its value go together.
LEMMA DataIsByKind ==
    ASSUME NEW hosts, NEW avp \in Avps, AreHosts(hosts, avp), NEW kids
    PROVE  EncodeData(avp, kids) = DataByKind(hosts, avp, kids)
  <1> DEFINE type == CodingType(avp)
             kind == avp.data.kind
  <1>1. avp \in Parts[avp]
    BY PartsWithin
  <1>2. HoldsData(avp) /\ (avp \in hosts <=> type = "Address")
    BY <1>1 DEF AreHosts, Encodable, Holds
  <1>4. CASE IsNumber(type)
    <2>1. kind = Kind[type]
      BY <1>2, <1>4 DEF HoldsData, HoldsNumber
    <2>2. \/ type \in {"Integer32", "Enumerated", "Unsigned32", "Time"}
          \/ type \in {"Integer64", "Unsigned64"}
      BY <1>4 DEF IsNumber, Width
    <2> HIDE DEF type
    <2>3. \/ kind \in {"int32", "uint32"} /\ Width[type] = 4
          \/ kind \in {"int64", "uint64"} /\ Width[type] = 8
      BY <2>1, <2>2 DEF Kind, Width
    <2>4. EncodeData(avp, kids) = Octets(avp.data.num, Width[type])
      BY <1>4 DEF EncodeData, type
    <2>5. CASE kind \in {"int32", "uint32"} /\ Width[type] = 4
      <3>1. DataByKind(hosts, avp, kids) = Octets(avp.data.num, 4)
        BY <2>5 DEF DataByKind
      <3> QED BY <2>4, <2>5, <3>1
    <2>6. CASE kind \in {"int64", "uint64"} /\ Width[type] = 8
      <3>1. kind \notin {"int32", "uint32"}
        BY <2>6
      <3>2. DataByKind(hosts, avp, kids) = Octets(avp.data.num, 8)
        BY <2>6, <3>1 DEF DataByKind
      <3> QED BY <2>4, <2>6, <3>2
    <2> HIDE DEF kind
    <2> QED BY <2>3, <2>5, <2>6
  <1>5. CASE ~IsNumber(type) /\ type = "Grouped"
    <2>1. kind = "avps"
      BY <1>2, <1>5 DEF HoldsData
    <2>2. DataByKind(hosts, avp, kids) = Joined(kids)
      BY <2>1 DEF DataByKind
    <2> QED BY <1>5, <2>2 DEF EncodeData
  <1>6. CASE ~IsNumber(type) /\ type # "Grouped"
    <2>1. kind = "string"
      BY <1>2, <1>6 DEF HoldsData
    <2>2. DataByKind(hosts, avp, kids)
            = IF type = "Address" THEN Addressed(avp.data.text) ELSE avp.data.text
      BY <1>2, <2>1 DEF DataByKind
    <2> QED BY <1>6, <2>2 DEF EncodeData, Addressed
  <1> QED BY <1>4, <1>5, <1>6

LEMMA EncodedByKind ==
    ASSUME NEW hosts, NEW avp \in Avps, AreHosts(hosts, avp)
    PROVE  Encode[avp] = ByKindOf(hosts)[avp]
  <1> DEFINE ByKind == ByKindOf(hosts)
             T == {a \in Avps : AreHosts(hosts, a) => Encode[a] = ByKind[a]}
  <1>1. ASSUME NEW a \in Avps, AreHosts(hosts, a),
               \A i \in 1..Len(a.data.kids) : a.data.kids[i] \in T
        PROVE  Encode[a] = ByKind[a]
    <2> DEFINE kids == a.data.kids
    <2>1. kids \in Seq(Avps)
      BY KidsAreAvps
    <2>2. ASSUME NEW i \in 1..Len(kids) PROVE Encode[kids[i]] = ByKind[kids[i]]
      <3>1. Parts[kids[i]] \subseteq Parts[a]
        BY PartsWithin
      <3>2. AreHosts(hosts, kids[i])
        BY <1>1, <3>1 DEF AreHosts, Encodable, Holds
      <3> QED BY <1>1, <3>2
    <2>3. Each(Encode, kids) = Each(ByKind, kids)
      <3> HIDE DEF kids
      <3>1. DOMAIN kids = 1..Len(kids)
        BY <2>1
      <3> QED BY <2>2, <3>1 DEF Each
    <2>4. Encode[a] = Framed(a, EncodeData(a, Each(Encode, kids)))
      BY EncodeDefined
    <2>5. ByKind[a] = Framed(a, DataByKind(hosts, a, Each(ByKind, kids)))
      BY ByKindDefined
    <2> HIDE DEF kids, ByKind
    <2>6. EncodeData(a, Each(Encode, kids)) = DataByKind(hosts, a, Each(Encode, kids))
      BY <1>1, DataIsByKind
    <2> QED BY <2>3, <2>4, <2>5, <2>6
  <1>2. \A a \in Avps : (\A i \in 1..Len(a.data.kids) : a.data.kids[i] \in T) => a \in T
    BY <1>1
  <1>3. Avps \subseteq T
    <2> HIDE DEF T
    <2> QED BY <1>2, AvpInduction
  <1> QED BY <1>3

LEMMA AllEncodedByKind ==
    ASSUME NEW hosts, NEW avps \in Seq(Avps),
           \A i \in DOMAIN avps : AreHosts(hosts, avps[i])
    PROVE  EncodeAll(avps) = AllByKind(hosts, avps)
  <1> DEFINE ByKind == ByKindOf(hosts)
  <1>1. \A i \in DOMAIN avps : Encode[avps[i]] = ByKind[avps[i]]
    <2>1. \A i \in DOMAIN avps : avps[i] \in Avps
      OBVIOUS
    <2> QED BY <2>1, EncodedByKind
  <1>2. Each(Encode, avps) = Each(ByKind, avps)
    <2> HIDE DEF ByKind
    <2> QED BY <1>1 DEF Each
  <1> QED BY <1>2 DEF EncodeAll, AllByKind, Each

----------------------------------------------------------------------------
(* Octets into AVPs                                                          *)

LEMMA PartOf ==
    ASSUME NEW octets \in Seq(Octet), NEW m \in Nat, NEW n \in Nat,
           m >= 1, n <= Len(octets)
    PROVE  /\ SubSeq(octets, m, n) \in Seq(Octet)
           /\ Len(SubSeq(octets, m, n)) = IF m <= n THEN n - m + 1 ELSE 0
  <1>1. \A i \in m..n : octets[i] \in Octet
    <2> TAKE i \in m..n
    <2>1. Len(octets) \in Nat /\ i \in 1..Len(octets)
      OBVIOUS
    <2> QED BY <2>1
  <1> QED BY <1>1, SubSeqProperties

\* The header, the length it gives and the octets there are agree.
Fits(octets) ==
    /\ 8 <= Len(octets) /\ HeaderLenIn(octets) <= Len(octets)
    /\ HeaderLenIn(octets) <= LengthIn(octets) /\ LengthIn(octets) <= Len(octets)

LEMMA HeaderTyped ==
    ASSUME NEW octets \in Seq(Octet), Len(octets) >= 8
    PROVE  /\ octets[5] \in Octet /\ HeaderLenIn(octets) \in {8, 12}
           /\ LengthIn(octets) \in Nat /\ LengthIn(octets) < Values[3]
           /\ HeaderLenIn(octets) <= Len(octets) => IdIn(octets) \in AvpIds
  <1> DEFINE n == Len(octets)
  <1>1. n \in Nat /\ n >= 8
    OBVIOUS
  <1>2. octets[5] \in Octet
    <2>1. 5 \in 1..Len(octets)
      BY <1>1
    <2> QED BY <2>1
  <1>3. HeaderLenIn(octets) \in {8, 12}
    BY DEF HeaderLenIn
  <1>4. LengthIn(octets) \in Nat /\ LengthIn(octets) < Values[3]
    <2>1. SubSeq(octets, 6, 8) \in Seq(Octet) /\ Len(SubSeq(octets, 6, 8)) = 3
      <3>1. 8 <= n /\ 6 \in Nat /\ 8 \in Nat
        BY <1>1
      <3>2. Len(SubSeq(octets, 6, 8)) = IF 6 <= 8 THEN 8 - 6 + 1 ELSE 0
        BY <3>1, PartOf
      <3> QED BY <3>1, <3>2, PartOf
    <2> DEFINE part == SubSeq(octets, 6, 8)
    <2>2. LengthIn(octets) = Number(part)
      BY DEF LengthIn
    <2> HIDE DEF part
    <2>3. part \in Seq(Octet) /\ Len(part) = 3
      BY <2>1 DEF part
    <2>4. Number(part) \in Nat /\ Number(part) < Values[3]
      <3>1. Len(part) <= 8
        BY <2>3
      <3>2. Number(part) \in Nat /\ Number(part) < Values[Len(part)]
        BY <2>3, <3>1, NumberInRange
      <3> QED BY <2>3, <3>2, Zenon
    <2> QED BY <2>2, <2>4
  <1>5. ASSUME HeaderLenIn(octets) <= n PROVE IdIn(octets) \in AvpIds
    <2>1. Number(SubSeq(octets, 1, 4)) \in Int
      <3> DEFINE part == SubSeq(octets, 1, 4)
      <3>1. part \in Seq(Octet)
        BY <1>1, PartOf
      <3> HIDE DEF part
      <3>2. Number(part) \in Int
        BY <3>1, NumberInRange
      <3> QED BY <3>2 DEF part
    <2>2. Signed(Number(SubSeq(octets, 1, 4)), 4) \in SignedNumbers /\ 0 \in SignedNumbers
      BY <2>1, SignedNumbersHold
    <2>3. ASSUME HasVendorBit(octets[5])
          PROVE  Signed(Number(SubSeq(octets, 9, 12)), 4) \in SignedNumbers
      <3>1. 12 <= n
        BY <1>5, <2>3 DEF HeaderLenIn
      <3> DEFINE part == SubSeq(octets, 9, 12)
      <3>2. part \in Seq(Octet)
        BY <1>1, <3>1, PartOf
      <3> HIDE DEF part
      <3>3. Number(part) \in Int
        BY <3>2, NumberInRange
      <3>4. Signed(Number(part), 4) \in SignedNumbers
        BY <3>3, SignedNumbersHold
      <3> QED BY <3>4 DEF part
    <2> QED BY <2>2, <2>3 DEF IdIn, AvpIds
  <1> QED BY <1>2, <1>3, <1>4, <1>5

\* The data and what is behind are octets, and fewer by a header at least.
LEMMA PartsTyped ==
    ASSUME NEW octets \in Seq(Octet), Fits(octets)
    PROVE  /\ DataIn(octets) \in OctetStrings
           /\ Len(DataIn(octets)) = LengthIn(octets) - HeaderLenIn(octets)
           /\ Len(DataIn(octets)) + 8 <= Len(octets)
           /\ Behind(octets) \in Seq(Octet) /\ Len(Behind(octets)) + 8 <= Len(octets)
  <1> DEFINE n == Len(octets)
             h == HeaderLenIn(octets)
             l == LengthIn(octets)
  <1>1. n \in Nat /\ h \in {8, 12} /\ l \in Nat /\ l < Values[3] /\ h <= l /\ l <= n
    BY HeaderTyped DEF Fits
  <1>2. Padded(l) \in Nat /\ l <= Padded(l)
    BY <1>1, PaddedUp
  <1> HIDE DEF n, h, l
  <1>3. /\ DataIn(octets) = SubSeq(octets, h + 1, l)
        /\ Behind(octets) = SubSeq(octets, Padded(l) + 1, n)
    BY DEF DataIn, Behind, n, h, l
  <1>4. h + 1 \in Nat /\ h + 1 >= 1 /\ l <= Len(octets) /\ Padded(l) + 1 \in Nat /\ n <= Len(octets)
    BY <1>1, <1>2 DEF n
  <1>5. /\ DataIn(octets) \in Seq(Octet)
        /\ Len(DataIn(octets)) = IF h + 1 <= l THEN l - (h + 1) + 1 ELSE 0
    BY <1>1, <1>3, <1>4, PartOf
  <1>6. /\ Behind(octets) \in Seq(Octet)
        /\ Len(Behind(octets)) = IF Padded(l) + 1 <= n THEN n - (Padded(l) + 1) + 1 ELSE 0
    <2>1. Padded(l) + 1 >= 1
      BY <1>2
    <2> QED BY <1>1, <1>3, <1>4, <2>1, PartOf
  <1>7. Len(DataIn(octets)) = l - h
    BY <1>1, <1>5
  <1>8. Len(DataIn(octets)) < Values[3] /\ Len(DataIn(octets)) + 8 <= n
    <2>1. Values[3] \in Nat
      BY ValuesKnown
    <2> QED BY <1>1, <1>7, <2>1
  <1>9. Len(Behind(octets)) + 8 <= n
    BY <1>1, <1>2, <1>6
  <1>10. DataIn(octets) \in OctetStrings
    BY <1>5, <1>8 DEF OctetStrings
  <1> QED BY <1>6, <1>7, <1>8, <1>9, <1>10 DEF n, h, l

\* The data there can be.
LEMMA DataMade ==
    ASSUME NEW d \in 0..MaxDepth
    PROVE  /\ Unset \in DataWith(Within(d))
           /\ \A text \in Texts : Str(text) \in DataWith(Within(d))
           /\ \A kind \in DOMAIN NumbersOf : \A v \in NumbersOf[kind] :
                Num(kind, v) \in DataWith(Within(d))
           /\ \A kids \in Within(d) : Kids(kids) \in DataWith(Within(d))
  <1>1. <<>> \in Within(d)
    BY DEF Within
  <1>2. ASSUME NEW text \in Texts PROVE Str(text) \in DataWith(Within(d))
    BY <1>1, NumbersKnown DEF Str, Unset, DataWith
  <1>3. ASSUME NEW kind \in DOMAIN NumbersOf, NEW v \in NumbersOf[kind]
        PROVE  Num(kind, v) \in DataWith(Within(d))
    BY <1>1, EmptyTyped, NumbersKnown DEF Num, Unset, DataWith
  <1>4. ASSUME NEW kids \in Within(d) PROVE Kids(kids) \in DataWith(Within(d))
    BY EmptyTyped, NumbersKnown DEF Kids, Unset, DataWith
  <1>5. Unset \in DataWith(Within(d))
    BY <1>1, EmptyTyped, NumbersKnown DEF Unset, DataWith
  <1> QED BY <1>2, <1>3, <1>4, <1>5

\* What decodeData makes of some octets is data, nested as deep as the AVPs
\* there are in them.
LEMMA DecodeDataTyped ==
    ASSUME NEW type, NEW octets \in Seq(Octet), NEW d \in 0..MaxDepth, NEW kids,
           kids.ok \in BOOLEAN, kids.avps \in Within(d)
    PROVE  LET value == DecodeData(type, octets, kids) IN
           value.ok \in BOOLEAN /\ value.data \in DataWith(Within(d))
  <1> DEFINE value == DecodeData(type, octets, kids)
  <1>1. /\ Unset \in DataWith(Within(d))
        /\ \A text \in Texts : Str(text) \in DataWith(Within(d))
        /\ \A kind \in DOMAIN NumbersOf : \A v \in NumbersOf[kind] :
             Num(kind, v) \in DataWith(Within(d))
        /\ \A avps \in Within(d) : Kids(avps) \in DataWith(Within(d))
    BY DataMade
  <1>2. CASE IsNumber(type)
    <2> DEFINE v == AsTyped(Number(octets), type)
    <2>1. Number(octets) \in Int
      BY NumberInRange
    <2>4. Kind[type] \in DOMAIN NumbersOf /\ v \in NumbersOf[Kind[type]]
      BY <1>2, <2>1, AsTypedHeld
    <2>5. value = [ok |-> Len(octets) = Width[type], data |-> Num(Kind[type], v)]
      BY <1>2 DEF DecodeData
    <2> HIDE DEF v
    <2>6. Num(Kind[type], v) \in DataWith(Within(d))
      BY <1>1, <2>4
    <2> QED BY <2>5, <2>6
  <1>3. CASE ~IsNumber(type) /\ type = "Grouped"
    <2>1. value = [ok |-> kids.ok, data |-> Kids(kids.avps)]
      BY <1>3 DEF DecodeData
    <2>2. Kids(kids.avps) \in DataWith(Within(d))
      BY <1>1
    <2> QED BY <2>1, <2>2
  <1>4. CASE ~IsNumber(type) /\ type = "Address"
    <2>1. CASE Len(octets) < 2
      <3>1. value = [ok |-> FALSE, data |-> Unset]
        BY <1>4, <2>1 DEF DecodeData
      <3> QED BY <1>1, <3>1
    <2>2. CASE ~(Len(octets) < 2)
      <3>1. value = [ok |-> TRUE, data |-> Str(AddressText(octets))]
        BY <1>4, <2>2 DEF DecodeData
      <3>2. AddressText(octets) \in Texts
        <4> DEFINE host == SubSeq(octets, 3, Len(octets))
        <4>1. Len(octets) \in Nat
          OBVIOUS
        <4>2. host \in Seq(Octet) /\ Len(host) = Len(octets) - 2
          <5>1. Len(host) = IF 3 <= Len(octets) THEN Len(octets) - 3 + 1 ELSE 0
            BY <4>1, PartOf
          <5>2. host \in Seq(Octet)
            BY <4>1, PartOf
          <5> DEFINE n == Len(octets)
          <5>3. n \in Nat /\ ~(n < 2) /\ Len(host) = IF 3 <= n THEN n - 3 + 1 ELSE 0
            BY <2>2, <4>1, <5>1
          <5> HIDE DEF host, n
          <5>4. Len(host) = n - 2
            BY <5>3
          <5> QED BY <5>2, <5>4 DEF n
        <4>3. \/ AddressText(octets) = HostText(host) /\ Len(octets) \in {6, 18}
              \/ AddressText(octets) = ToHex(octets)
          BY DEF AddressText
        <4> HIDE DEF host
        <4>4. CASE AddressText(octets) = HostText(host) /\ Len(octets) \in {6, 18}
          <5>1. Len(octets) - 2 # 0
            <6>1. Len(octets) = 6 \/ Len(octets) = 18
              BY <4>4
            <6>2. \A n \in {6, 18} : n - 2 # 0
              OBVIOUS
            <6> QED BY ONLY <6>1, <6>2
          <5>2. host # <<>>
            <6>1. Len(host) # 0
              BY <4>2, <5>1
            <6> QED BY <4>2, <6>1, EmptySeq
          <5> QED BY <4>2, <4>4, <5>2, HostTextTyped
        <4>5. CASE AddressText(octets) = ToHex(octets)
          BY <4>5, ToHexTyped
        <4> QED BY <4>3, <4>4, <4>5
      <3> QED BY <1>1, <3>1, <3>2
    <2> QED BY <2>1, <2>2
  <1>5. CASE ~IsNumber(type) /\ type # "Grouped" /\ type # "Address"
    <2>1. value = [ok |-> TRUE, data |-> Str(octets)]
      BY <1>5 DEF DecodeData
    <2>2. octets \in Texts
      BY DEF Texts
    <2> QED BY <1>1, <2>1, <2>2
  <1> QED BY <1>2, <1>3, <1>4, <1>5

\* decode into an AVP leaves an AVP, which has in it what was in the octets, or
\* what it had.
LEMMA DecodeIntoTyped ==
    ASSUME NEW d \in 0..MaxDepth, NEW avp \in Nested[d], NEW octets \in Seq(Octet), NEW kids,
           Fits(octets) => kids.ok \in BOOLEAN /\ kids.avps \in Within(d)
    PROVE  /\ DecodeInto(avp, octets, kids).ok \in BOOLEAN
           /\ DecodeInto(avp, octets, kids).avp \in Nested[d]
           /\ DecodeInto(avp, octets, kids).ok => Fits(octets)
  <1> DEFINE flagged == [avp EXCEPT !.flags = octets[5]]
             named == [flagged EXCEPT !.id = IdIn(octets)]
             value == DecodeData(FormatType(IdIn(octets)), DataIn(octets), kids)
             result == DecodeInto(avp, octets, kids)
  <1>1. /\ avp = [id |-> avp.id, flags |-> avp.flags, raw |-> avp.raw, data |-> avp.data]
        /\ avp.id \in AvpIds /\ avp.flags \in Octet /\ avp.raw \in BOOLEAN
        /\ avp.data \in DataWith(Within(d))
    BY AvpFields
  <1>2. Len(octets) \in Nat
    OBVIOUS
  <1>3. CASE Len(octets) < 8
    <2>1. result = [ok |-> FALSE, avp |-> avp]
      BY <1>3 DEF DecodeInto
    <2> QED BY <2>1
  <1>4. ASSUME Len(octets) >= 8
        PROVE  flagged \in Nested[d]
    <2>1. octets[5] \in Octet
      BY <1>4, HeaderTyped
    <2>2. flagged = [id |-> avp.id, flags |-> octets[5], raw |-> avp.raw, data |-> avp.data]
      BY <1>1
    <2> HIDE DEF flagged
    <2> QED BY <1>1, <2>1, <2>2, AvpFields
  <1>5. ASSUME Len(octets) >= 8, HeaderLenIn(octets) <= Len(octets)
        PROVE  /\ named \in Nested[d]
               /\ \A data \in DataWith(Within(d)) : [named EXCEPT !.data = data] \in Nested[d]
    <2>1. octets[5] \in Octet /\ IdIn(octets) \in AvpIds
      BY <1>5, HeaderTyped
    <2>2. named = [id |-> IdIn(octets), flags |-> octets[5], raw |-> avp.raw, data |-> avp.data]
      <3>1. flagged = [id |-> avp.id, flags |-> octets[5], raw |-> avp.raw, data |-> avp.data]
        BY <1>1
      <3> HIDE DEF flagged
      <3> QED BY <3>1
    <2> HIDE DEF named
    <2>3. named \in Nested[d]
      BY <1>1, <2>1, <2>2, AvpFields
    <2>4. ASSUME NEW data \in DataWith(Within(d))
          PROVE  [named EXCEPT !.data = data] \in Nested[d]
      <3> DEFINE made == [named EXCEPT !.data = data]
      <3>1. made = [id |-> IdIn(octets), flags |-> octets[5], raw |-> avp.raw, data |-> data]
        BY <2>2
      <3> HIDE DEF made
      <3>2. made \in Nested[d]
        BY <1>1, <2>1, <2>4, <3>1, AvpFields
      <3> QED BY <3>2 DEF made
    <2> QED BY <2>3, <2>4
  <1>6. HeaderLenIn(octets) \in Nat
    BY DEF HeaderLenIn
  <1>7. CASE ~(Len(octets) < 8) /\ Len(octets) < HeaderLenIn(octets)
    <2>1. result = [ok |-> FALSE, avp |-> flagged]
      BY <1>7 DEF DecodeInto
    <2> HIDE DEF flagged
    <2> QED BY <1>2, <1>4, <1>7, <2>1
  <1>8. CASE /\ ~(Len(octets) < 8) /\ ~(Len(octets) < HeaderLenIn(octets))
             /\ LengthIn(octets) < HeaderLenIn(octets) \/ Len(octets) < LengthIn(octets)
                \/ ~value.ok
    <2>1. result = [ok |-> FALSE, avp |-> named]
      BY <1>8 DEF DecodeInto
    <2> HIDE DEF named
    <2> QED BY <1>2, <1>5, <1>6, <1>8, <2>1
  <1>9. CASE /\ ~(Len(octets) < 8) /\ ~(Len(octets) < HeaderLenIn(octets))
             /\ ~(LengthIn(octets) < HeaderLenIn(octets)) /\ ~(Len(octets) < LengthIn(octets))
             /\ value.ok
    <2>1. result = [ok |-> TRUE, avp |-> [named EXCEPT !.data = value.data]]
      BY <1>9 DEF DecodeInto
    <2>2. Len(octets) >= 8 /\ HeaderLenIn(octets) <= Len(octets)
      BY <1>2, <1>6, <1>9
    <2>3. LengthIn(octets) \in Nat
      BY <2>2, HeaderTyped
    <2>4. Fits(octets)
      BY <1>2, <1>6, <1>9, <2>3 DEF Fits
    <2>5. DataIn(octets) \in Seq(Octet)
      BY <2>4, PartsTyped DEF OctetStrings
    <2>6. value.data \in DataWith(Within(d))
      BY <2>4, <2>5, DecodeDataTyped
    <2> HIDE DEF named, value
    <2> QED BY <1>5, <2>1, <2>2, <2>4, <2>6
  <1> QED BY <1>3, <1>7, <1>8, <1>9

\* The AVPs within play no part unless the octets agree with the header.
LEMMA DecodeIntoAlike ==
    ASSUME NEW avp, NEW octets \in Seq(Octet), NEW kids, NEW others,
           Fits(octets) => kids = others
    PROVE  DecodeInto(avp, octets, kids) = DecodeInto(avp, octets, others)
  <1>1. CASE Fits(octets)
    BY <1>1
  <1>2. CASE ~Fits(octets)
    <2>1. Len(octets) \in Nat /\ HeaderLenIn(octets) \in Nat
      BY DEF HeaderLenIn
    <2>2. Len(octets) >= 8 => LengthIn(octets) \in Nat
      BY HeaderTyped
    <2>3. \/ Len(octets) < 8
          \/ ~(Len(octets) < 8) /\ Len(octets) < HeaderLenIn(octets)
          \/ /\ ~(Len(octets) < 8) /\ ~(Len(octets) < HeaderLenIn(octets))
             /\ LengthIn(octets) < HeaderLenIn(octets) \/ Len(octets) < LengthIn(octets)
      BY <1>2, <2>1, <2>2 DEF Fits
    <2> QED BY <2>3 DEF DecodeInto
  <1> QED BY <1>1, <1>2

LEMMA OneTyped ==
    ASSUME NEW S, NEW x \in S
    PROVE  <<x>> \in Seq(S) /\ Len(<<x>>) = 1
  OBVIOUS

\* The octets that AVPs nested so deep, and no deeper, can be in.
Shallow(d) == {octets \in OctetStrings : Len(octets) < 8 * (d + 1)}

LEMMA NewAvpTyped ==
    ASSUME NEW d \in 0..MaxDepth
    PROVE  NewAvp \in Nested[d]
  <1>1. <<0, 0>> \in AvpIds
    <2>1. 0 \in SignedNumbers
      BY SignedNumbersHold
    <2> QED BY <2>1 DEF AvpIds
  <1>2. 0 \in Octet
    BY SizeAssumption DEF Octet
  <1>3. Unset \in DataWith(Within(d))
    BY DataMade
  <1>4. NewAvp = [id |-> <<0, 0>>, flags |-> 0, raw |-> FALSE, data |-> Unset]
    BY DEF NewAvp
  <1> QED BY <1>1, <1>2, <1>3, <1>4, AvpFields

\* DecodeAll, with what it is for other octets.
DecodeAllWith(f, octets) ==
    IF octets = <<>> THEN [ok |-> TRUE, avps |-> <<>>]
    ELSE LET first == DecodeInto(NewAvp, octets, f[DataIn(octets)]) IN
         IF ~first.ok THEN Failure
         ELSE LET rest == f[Behind(octets)]
              IN  [ok |-> rest.ok, avps |-> <<first.avp>> \o rest.avps]

\* Reads of AVPs: all of them or those before the first failure.
ReadsOf(avps) == [ok : BOOLEAN, avps : Seq(avps)]

LEMMA PartsShallow ==
    ASSUME NEW d \in 0..MaxDepth, NEW octets \in Shallow(d), Fits(octets)
    PROVE  /\ d \in 1..MaxDepth
           /\ DataIn(octets) \in Shallow(d - 1) /\ Behind(octets) \in Shallow(d - 1)
  <1> DEFINE n == Len(octets)
             k == Len(DataIn(octets))
             r == Len(Behind(octets))
  <1>1. octets \in Seq(Octet) /\ n \in Nat /\ n < Values[3] /\ n < 8 * (d + 1)
    BY DEF Shallow, OctetStrings
  <1>2. /\ DataIn(octets) \in OctetStrings /\ k + 8 <= n
        /\ Behind(octets) \in Seq(Octet) /\ r + 8 <= n
    BY <1>1, PartsTyped
  <1>3. k \in Nat /\ r \in Nat /\ Values[3] \in Nat
    <2>1. \A s \in Seq(Octet) : Len(s) \in Nat
      OBVIOUS
    <2>2. DataIn(octets) \in Seq(Octet)
      BY <1>2 DEF OctetStrings
    <2> QED BY <1>2, <2>1, <2>2, ValuesKnown
  <1> HIDE DEF n, k, r
  <1>4. d # 0
    BY <1>1, <1>2, <1>3
  <1>5. k < 8 * (d - 1 + 1) /\ r < 8 * (d - 1 + 1) /\ r < Values[3]
    BY <1>1, <1>2, <1>3
  <1> QED BY <1>2, <1>4, <1>5, SizeAssumption DEF Shallow, OctetStrings, k, r

LEMMA DecodeAllWithTyped ==
    ASSUME NEW d \in 0..MaxDepth, NEW octets \in Shallow(d), NEW f,
           d # 0 => \A part \in Shallow(d - 1) : f[part] \in ReadsOf(Nested[d - 1])
    PROVE  DecodeAllWith(f, octets) \in ReadsOf(Nested[d])
  <1> DEFINE first == DecodeInto(NewAvp, octets, f[DataIn(octets)])
             rest == f[Behind(octets)]
  <1>1. octets \in Seq(Octet) /\ NewAvp \in Nested[d]
    BY NewAvpTyped DEF Shallow, OctetStrings
  <1>2. ASSUME Fits(octets)
        PROVE  /\ d # 0 /\ f[DataIn(octets)] \in ReadsOf(Nested[d - 1])
               /\ rest \in ReadsOf(Nested[d - 1])
    <2>1. /\ d \in 1..MaxDepth
          /\ DataIn(octets) \in Shallow(d - 1) /\ Behind(octets) \in Shallow(d - 1)
      BY <1>2, PartsShallow
    <2> QED BY <2>1
  <1>3. Fits(octets) => /\ f[DataIn(octets)].ok \in BOOLEAN
                        /\ f[DataIn(octets)].avps \in Within(d)
    BY <1>2 DEF ReadsOf, Within
  <1>4. /\ first.ok \in BOOLEAN /\ first.avp \in Nested[d]
        /\ first.ok => Fits(octets)
    BY <1>1, <1>3, DecodeIntoTyped
  <1>5. Failure \in ReadsOf(Nested[d]) /\ [ok |-> TRUE, avps |-> <<>>] \in ReadsOf(Nested[d])
    BY DEF Failure, ReadsOf
  <1>6. ASSUME first.ok
        PROVE  [ok |-> rest.ok, avps |-> <<first.avp>> \o rest.avps] \in ReadsOf(Nested[d])
    <2>1. d \in 1..MaxDepth /\ rest \in ReadsOf(Nested[d - 1])
      BY <1>2, <1>4, <1>6
    <2>2. Nested[d - 1] \subseteq Nested[d]
      BY <2>1, NestedGrows
    <2>3. rest.ok \in BOOLEAN /\ rest.avps \in Seq(Nested[d - 1])
      BY <2>1 DEF ReadsOf
    <2> HIDE DEF first, rest
    <2>4. rest.avps \in Seq(Nested[d])
      BY <2>2, <2>3
    <2>5. <<first.avp>> \in Seq(Nested[d])
      BY <1>4, OneTyped
    <2>6. <<first.avp>> \o rest.avps \in Seq(Nested[d])
      BY <2>4, <2>5, ConcatProperties
    <2> QED BY <2>3, <2>6 DEF ReadsOf
  <1> HIDE DEF first, rest
  <1>7. DecodeAllWith(f, octets) =
            IF octets = <<>> THEN [ok |-> TRUE, avps |-> <<>>]
            ELSE IF ~first.ok THEN Failure
            ELSE [ok |-> rest.ok, avps |-> <<first.avp>> \o rest.avps]
    BY DEF DecodeAllWith, first, rest
  <1> QED BY <1>5, <1>6, <1>7

LEMMA DecodeAllWithAlike ==
    ASSUME NEW d \in 0..MaxDepth, NEW octets \in Shallow(d), NEW f, NEW g,
           d # 0 => \A part \in Shallow(d - 1) : f[part] = g[part]
    PROVE  DecodeAllWith(f, octets) = DecodeAllWith(g, octets)
  <1>1. octets \in Seq(Octet) /\ NewAvp \in Nested[d]
    BY NewAvpTyped DEF Shallow, OctetStrings
  <1>2. ASSUME Fits(octets)
        PROVE  f[DataIn(octets)] = g[DataIn(octets)] /\ f[Behind(octets)] = g[Behind(octets)]
    <2>1. /\ d \in 1..MaxDepth
          /\ DataIn(octets) \in Shallow(d - 1) /\ Behind(octets) \in Shallow(d - 1)
      BY <1>2, PartsShallow
    <2> QED BY <2>1
  <1> DEFINE first(h) == DecodeInto(NewAvp, octets, h[DataIn(octets)])
  <1>3. first(f) = first(g)
    BY <1>1, <1>2, DecodeIntoAlike
  <1>4. CASE Fits(octets)
    BY <1>2, <1>4 DEF DecodeAllWith
  <1>5. CASE ~Fits(octets)
    <2>1. ~first(f).ok
      <3>1. first(f).ok => Fits(octets)
        BY <1>1, <1>5, DecodeIntoTyped
      <3> QED BY <1>5, <3>1
    <2>2. ~first(g).ok
      BY <1>3, <2>1
    <2> QED BY <2>1, <2>2 DEF DecodeAllWith
  <1> QED BY <1>4, <1>5

\* DecodeAll is what its definition says, and AVPs nested as deep as the octets
\* have room for.
LEMMA DecodeAllDefined ==
    /\ \A octets \in OctetStrings :
        /\ DecodeAll[octets] = DecodeAllWith(DecodeAll, octets)
        /\ DecodeAll[octets] \in ReadsOf(Avps)
    /\ \A d \in 0..MaxDepth : \A octets \in Shallow(d) : DecodeAll[octets] \in ReadsOf(Nested[d])
  <1> DEFINE A == OctetStrings
             R == [d \in 0..MaxDepth |-> ReadsOf(Nested[d])]
             F == {f \in [A -> ReadsOf(Avps)] :
                      \A d \in 0..MaxDepth : \A octets \in Shallow(d) : f[octets] \in R[d]}
             layer == [d \in 0..MaxDepth |-> Shallow(d)]
             Body(f) == [octets \in A |-> DecodeAllWith(f, octets)]
             step == [f \in F |-> Body(f)]
  <1>1. MaxDepth \in Nat /\ Nested[MaxDepth] = Avps /\ MaxDepth \in 0..MaxDepth
    BY SizeAssumption DEF Avps
  <1>2. layer[MaxDepth] = A
    <2>1. \A octets \in A : Len(octets) \in Nat /\ Len(octets) < Values[3]
      BY DEF OctetStrings
    <2>2. Values[3] \in Nat /\ Values[3] <= 8 * (MaxDepth + 1)
      BY ValuesKnown, SizeAssumption
    <2>3. \A octets \in A : Len(octets) < 8 * (MaxDepth + 1)
      <3> HIDE DEF A
      <3> QED BY <1>1, <2>1, <2>2
    <2>4. Shallow(MaxDepth) = A
      BY <2>3 DEF Shallow
    <2> QED BY <1>1, <2>4
  <1>3. \A d \in 0..MaxDepth : layer[d] = Shallow(d) /\ Shallow(d) \subseteq A
    BY DEF Shallow
  <1>4. ASSUME NEW f \in F PROVE Body(f) \in F
    <2>1. ASSUME NEW d \in 0..MaxDepth, NEW octets \in Shallow(d)
          PROVE  Body(f)[octets] \in R[d]
      <3>1. d # 0 => \A part \in Shallow(d - 1) : f[part] \in ReadsOf(Nested[d - 1])
        <4> SUFFICES ASSUME d # 0, NEW part \in Shallow(d - 1)
                     PROVE  f[part] \in ReadsOf(Nested[d - 1])
          OBVIOUS
        <4>1. d - 1 \in 0..MaxDepth
          BY <1>1
        <4>2. f[part] \in R[d - 1]
          <5> HIDE DEF R
          <5> QED BY <4>1
        <4> QED BY <4>1, <4>2
      <3>2. DecodeAllWith(f, octets) \in ReadsOf(Nested[d])
        BY <3>1, DecodeAllWithTyped
      <3>3. octets \in A
        BY <1>3
      <3> QED BY <3>2, <3>3
    <2>2. \A octets \in A : Body(f)[octets] \in ReadsOf(Avps)
      <3> HIDE DEF A, Body
      <3> QED BY <1>1, <1>2, <1>3, <2>1
    <2>3. Body(f) = [octets \in A |-> Body(f)[octets]]
      OBVIOUS
    <2>4. Body(f) \in [A -> ReadsOf(Avps)]
      <3> HIDE DEF Body, A
      <3> QED BY <2>2, <2>3
    <2> HIDE DEF Body, A, R
    <2> QED BY <2>1, <2>4
  <1>5. F # {}
    <2> DEFINE f == [octets \in A |-> Failure]
    <2>1. \A avps : Failure \in ReadsOf(avps)
      BY DEF Failure, ReadsOf
    <2>2. f \in [A -> ReadsOf(Avps)]
      BY <2>1
    <2>3. \A d \in 0..MaxDepth : \A octets \in Shallow(d) : f[octets] \in R[d]
      BY <1>3, <2>1
    <2> HIDE DEF f, A, R
    <2> QED BY <2>2, <2>3
  <1>6. ASSUME NEW n \in 0..MaxDepth, NEW f, NEW g,
               n # 0 => \A part \in Shallow(n - 1) : f[part] = g[part]
        PROVE  \A octets \in Shallow(n) : DecodeAllWith(f, octets) = DecodeAllWith(g, octets)
    BY <1>6, DecodeAllWithAlike
  <1>7. \A f \in F : \A octets \in A : step[f][octets] = DecodeAllWith(f, octets)
    <2> HIDE DEF F, A
    <2> QED OBVIOUS
  <1>8. step \in [F -> F]
    <2> HIDE DEF Body, F
    <2> QED BY <1>4
  <1>9. IsRecursion(A, F, MaxDepth, layer, step)
    <2>1. \A f \in F : f = [a \in A |-> f[a]]
      OBVIOUS
    <2> HIDE DEF step, F, A
    <2>2. \A f, g \in F : \A octets \in layer[0] : step[f][octets] = step[g][octets]
      <3> TAKE f, g \in F
      <3>1. 0 \in 0..MaxDepth
        BY <1>1
      <3>2. \A octets \in Shallow(0) : DecodeAllWith(f, octets) = DecodeAllWith(g, octets)
        BY <1>6, <3>1
      <3> QED BY <1>3, <1>7, <3>1, <3>2
    <2>3. \A n \in 1..MaxDepth : \A f, g \in F :
            (\A octets \in layer[n - 1] : f[octets] = g[octets])
                => \A octets \in layer[n] : step[f][octets] = step[g][octets]
      <3> TAKE n \in 1..MaxDepth
      <3> TAKE f, g \in F
      <3> HAVE \A octets \in layer[n - 1] : f[octets] = g[octets]
      <3>1. n \in 0..MaxDepth /\ n - 1 \in 0..MaxDepth
        BY <1>1
      <3> HIDE DEF layer
      <3>2. \A octets \in Shallow(n) : DecodeAllWith(f, octets) = DecodeAllWith(g, octets)
        BY <1>3, <1>6, <3>1
      <3> QED BY <1>3, <1>7, <3>1, <3>2
    <2> HIDE DEF layer
    <2> QED BY <1>1, <1>2, <1>5, <1>8, <2>1, <2>2, <2>3 DEF IsRecursion
  <1>10. PICK h \in F : h = step[h]
    <2> HIDE DEF step, F, A, layer
    <2> QED BY <1>9, RecursionDefined
  <1>11. h = Body(h)
    <2> HIDE DEF Body, F
    <2> QED BY <1>10
  <1>12. DecodeAll = Body(DecodeAll)
    BY <1>11 DEF DecodeAll, DecodeAllWith
  <1>13. DecodeAll = h
    <2> DEFINE f == DecodeAll
    <2>1. \A octets \in A : /\ f[octets] = DecodeAllWith(f, octets)
                            /\ h[octets] = DecodeAllWith(h, octets)
      <3> HIDE DEF A, F
      <3> QED BY <1>11, <1>12
    <2>2. f = [octets \in A |-> f[octets]] /\ h = [octets \in A |-> h[octets]]
      <3> HIDE DEF A, F
      <3> QED BY <1>11, <1>12
    <2> HIDE DEF A, f, F, Body
    <2>3. \A octets \in layer[0] : f[octets] = h[octets]
      <3>1. 0 \in 0..MaxDepth
        BY <1>1
      <3>2. \A octets \in Shallow(0) : DecodeAllWith(f, octets) = DecodeAllWith(h, octets)
        BY <1>6, <3>1
      <3> QED BY <1>3, <2>1, <3>1, <3>2
    <2>4. \A n \in 1..MaxDepth :
            (\A octets \in layer[n - 1] : f[octets] = h[octets])
                => \A octets \in layer[n] : f[octets] = h[octets]
      <3> TAKE n \in 1..MaxDepth
      <3> HAVE \A octets \in layer[n - 1] : f[octets] = h[octets]
      <3>1. n \in 0..MaxDepth /\ n - 1 \in 0..MaxDepth
        BY <1>1
      <3> HIDE DEF layer
      <3>2. \A octets \in Shallow(n) : DecodeAllWith(f, octets) = DecodeAllWith(h, octets)
        BY <1>3, <1>6, <3>1
      <3> QED BY <1>3, <2>1, <3>1, <3>2
    <2> HIDE DEF layer
    <2>5. AreResults(A, MaxDepth, layer, f, h)
      BY <1>1, <1>2, <2>2, <2>3, <2>4 DEF AreResults
    <2> QED BY <2>5, RecursionUnique DEF f
  <1>14. \A octets \in A : DecodeAll[octets] = DecodeAllWith(DecodeAll, octets)
    <2> HIDE DEF A
    <2> QED BY <1>12
  <1>15. \A d \in 0..MaxDepth : \A octets \in Shallow(d) : DecodeAll[octets] \in ReadsOf(Nested[d])
    BY <1>10, <1>13
  <1>16. \A octets \in A : DecodeAll[octets] \in ReadsOf(Avps)
    BY <1>10, <1>13
  <1> QED BY <1>14, <1>15, <1>16

----------------------------------------------------------------------------
(* JSON                                                                      *)

\* The entries of the objects nested so deep.
ItemsWithin(values, d) == IF d = 0 THEN {<<>>} ELSE Seq(EntriesOf(values[d - 1]))

LEMMA JsonNestedDefined ==
    \A d \in 0..MaxDepth :
        JsonNested[d] = JsonWith(ItemsWithin(JsonNested, d))
  <1> DEFINE Level(f, d) == JsonWith(IF d = 0 THEN {<<>>} ELSE Seq(EntriesOf(f[d - 1])))
             Body(f, m) == [d \in 0..m |-> Level(f, d)]
             T == {m \in 0..MaxDepth : \E f : f = Body(f, m)}
  <1>1. MaxDepth \in Nat
    BY SizeAssumption
  <1>2. 0 \in T
    <2> DEFINE f == [d \in 0..0 |-> JsonWith({<<>>})]
    <2>1. \A d \in 0..0 : Level(f, d) = JsonWith({<<>>})
      OBVIOUS
    <2>2. f = Body(f, 0)
      <3> HIDE DEF Level
      <3> QED BY <2>1
    <2> HIDE DEF f
    <2> QED BY <1>1, <2>2
  <1>3. ASSUME NEW m \in 1..MaxDepth, m - 1 \in T PROVE m \in T
    <2>1. PICK f : f = Body(f, m - 1)
      BY <1>3
    <2> DEFINE g == [d \in 0..m |-> IF d = m THEN JsonWith(Seq(EntriesOf(f[m - 1]))) ELSE f[d]]
    <2>2. \A d \in 0..m : g[d] = IF d = m THEN JsonWith(Seq(EntriesOf(f[m - 1]))) ELSE f[d]
      OBVIOUS
    <2>3. \A d \in 0..(m - 1) : f[d] = Level(f, d)
      <3> HIDE DEF Level
      <3> QED BY <2>1
    <2>4. ASSUME NEW d \in 0..m PROVE g[d] = Level(g, d)
      <3> HIDE DEF g
      <3>1. CASE d = m
        <4>1. m - 1 \in 0..m /\ m - 1 # m /\ d # 0
          BY <3>1
        <4>2. g[m - 1] = f[m - 1]
          BY <2>2, <4>1
        <4> QED BY <2>2, <3>1, <4>1, <4>2
      <3>2. CASE d # m /\ d # 0
        <4>1. d \in 0..(m - 1) /\ d - 1 \in 0..m /\ d - 1 # m
          BY <3>2
        <4>2. g[d - 1] = f[d - 1] /\ g[d] = f[d]
          BY <2>2, <3>2, <4>1
        <4> QED BY <2>3, <3>2, <4>1, <4>2
      <3>3. CASE d = 0
        <4>1. d \in 0..(m - 1) /\ d # m
          BY <3>3
        <4> QED BY <2>2, <2>3, <3>3, <4>1
      <3> QED BY <3>1, <3>2, <3>3
    <2>5. g = Body(g, m)
      <3> HIDE DEF Level
      <3> QED BY <2>4
    <2> HIDE DEF g
    <2> QED BY <2>5
  <1>4. MaxDepth \in T
    <2> HIDE DEF T
    <2>1. 0..MaxDepth \subseteq T
      BY <1>1, <1>2, <1>3, TurnInduction
    <2> QED BY <1>1, <2>1
  <1>5. JsonNested = Body(JsonNested, MaxDepth)
    BY <1>4 DEF JsonNested
  <1> HIDE DEF Level
  <1>6. \A d \in 0..MaxDepth : JsonNested[d] = Level(JsonNested, d)
    BY <1>5
  <1> QED BY <1>6 DEF Level, ItemsWithin

JsonWithin(d) == ItemsWithin(JsonNested, d)

LEMMA JsonFields ==
    ASSUME NEW d \in 0..MaxDepth, NEW value \in JsonNested[d]
    PROVE  /\ value.num \in Int /\ value.text \in Texts /\ value.items \in JsonWithin(d)
  <1>1. value \in JsonWith(JsonWithin(d)) /\ <<>> \in JsonWithin(d)
    BY JsonNestedDefined DEF JsonWithin, ItemsWithin
  <1> HIDE DEF JsonWithin
  <1> QED BY <1>1, EmptyTyped DEF JsonWith

LEMMA EntryFields ==
    ASSUME NEW V, NEW entry \in EntriesOf(V)
    PROVE  /\ entry.key \in Keys /\ entry.isArray \in BOOLEAN /\ entry.values \in Seq(V)
           /\ ~entry.isArray => entry.values[1] \in V
  <1>1. \A n \in Nat : [1..n -> V] \subseteq Seq(V)
    OBVIOUS
  <1>2. CASE entry \in [key : Keys, isArray : {TRUE}, values : Seq(V)]
    BY <1>2
  <1>3. CASE entry \in [key : Keys, isArray : {FALSE}, values : [1..1 -> V]]
    <2>1. entry.key \in Keys /\ entry.isArray = FALSE /\ entry.values \in [1..1 -> V]
      BY <1>3
    <2>2. entry.values \in Seq(V) /\ entry.values[1] \in V
      <3>1. 1 \in Nat /\ 1 \in 1..1
        OBVIOUS
      <3>2. [1..1 -> V] \subseteq Seq(V)
        BY <1>1, <3>1, Zenon
      <3>3. \A s \in [1..1 -> V] : s[1] \in V
        OBVIOUS
      <3> QED BY <2>1, <3>2, <3>3, Zenon
    <2> QED BY <2>1, <2>2
  <1> QED BY <1>2, <1>3 DEF EntriesOf

LEMMA EntriesGrow ==
    ASSUME NEW V, NEW W, V \subseteq W
    PROVE  Seq(EntriesOf(V)) \subseteq Seq(EntriesOf(W))
  <1>1. Seq(V) \subseteq Seq(W) /\ [1..1 -> V] \subseteq [1..1 -> W]
    OBVIOUS
  <1>2. EntriesOf(V) \subseteq EntriesOf(W)
    BY <1>1 DEF EntriesOf
  <1> HIDE DEF EntriesOf
  <1> QED BY <1>2

LEMMA JsonGrows ==
    ASSUME NEW d \in 1..MaxDepth
    PROVE  JsonNested[d - 1] \subseteq JsonNested[d]
  <1> DEFINE T == {e \in 0..MaxDepth : e # 0 => JsonNested[e - 1] \subseteq JsonNested[e]}
  <1>1. 0 \in T /\ MaxDepth \in Nat
    BY SizeAssumption
  <1>2. ASSUME NEW e \in 1..MaxDepth, e - 1 \in T PROVE e \in T
    <2>1. JsonWithin(e - 1) \subseteq JsonWithin(e)
      <3>1. CASE e - 1 = 0
        <4>1. \A V : <<>> \in Seq(EntriesOf(V))
          OBVIOUS
        <4> QED BY <3>1, <4>1 DEF JsonWithin, ItemsWithin
      <3>2. CASE e - 1 # 0
        <4>1. JsonNested[e - 1 - 1] \subseteq JsonNested[e - 1]
          BY <1>2, <3>2
        <4>2. Seq(EntriesOf(JsonNested[e - 1 - 1])) \subseteq Seq(EntriesOf(JsonNested[e - 1]))
          BY <4>1, EntriesGrow
        <4> QED BY <3>2, <4>2 DEF JsonWithin, ItemsWithin
      <3> QED BY <3>1, <3>2
    <2>2. JsonWith(JsonWithin(e - 1)) \subseteq JsonWith(JsonWithin(e))
      <3> HIDE DEF JsonWithin
      <3> QED BY <2>1 DEF JsonWith
    <2>3. e - 1 \in 0..MaxDepth /\ e \in 0..MaxDepth
      BY <1>1
    <2>4. JsonNested[e - 1] \subseteq JsonNested[e]
      BY <2>2, <2>3, JsonNestedDefined DEF JsonWithin
    <2> QED BY <2>3, <2>4
  <1>3. 0..MaxDepth \subseteq T
    <2> HIDE DEF T
    <2> QED BY <1>1, <1>2, TurnInduction
  <1> QED BY <1>1, <1>3

LEMMA JsonNestedWithinValues ==
    ASSUME NEW d \in 0..MaxDepth
    PROVE  JsonNested[d] \subseteq JsonValues
  <1> DEFINE T == {e \in 0..MaxDepth : JsonNested[MaxDepth - e] \subseteq JsonValues}
  <1>1. 0 \in T /\ MaxDepth \in Nat
    BY SizeAssumption DEF JsonValues
  <1>2. ASSUME NEW e \in 1..MaxDepth, e - 1 \in T PROVE e \in T
    <2>1. MaxDepth - (e - 1) \in 1..MaxDepth /\ MaxDepth - (e - 1) - 1 = MaxDepth - e
      BY <1>1
    <2>2. JsonNested[MaxDepth - e] \subseteq JsonNested[MaxDepth - (e - 1)]
      BY <2>1, JsonGrows
    <2> QED BY <1>2, <2>2
  <1>3. 0..MaxDepth \subseteq T
    <2> HIDE DEF T
    <2> QED BY <1>1, <1>2, TurnInduction
  <1>4. MaxDepth - d \in T
    BY <1>1, <1>3
  <1>5. MaxDepth - (MaxDepth - d) = d
    BY <1>1
  <1> QED BY <1>4, <1>5

LEMMA LeastOf ==
    ASSUME NEW S \in SUBSET Nat, S # {}
    PROVE  \E n \in S : \A m \in S : n <= m
  <1> DEFINE R == OpToRel(<, Nat)
  <1>1. IsWellFoundedOn(R, Nat)
    BY NatLessThanWellFounded, Zenon
  <1>2. PICK n \in S : \A m \in S : ~(<<m, n>> \in R)
    <2> HIDE DEF R
    <2> QED BY <1>1, WFMin
  <1>3. ASSUME NEW m \in S PROVE n <= m
    <2>1. m \in Nat /\ n \in Nat
      OBVIOUS
    <2>2. m < n => <<m, n>> \in R
      <3>1. <<m, n>> \in Nat \X Nat
        BY <2>1
      <3> QED BY <2>1, <3>1, Zenon DEF OpToRel
    <2> HIDE DEF R
    <2>3. ~(m < n)
      BY <1>2, <2>2
    <2> QED BY <2>1, <2>3
  <1> QED BY <1>3

LEMMA RankTyped ==
    ASSUME NEW avp, NEW X, NEW rules \in Seq(X)
    PROVE  Rank(avp, rules) \in Nat
  <1> DEFINE places == {i \in DOMAIN rules : rules[i] = avp.id /\ ~avp.raw}
  <1>1. Len(rules) \in Nat /\ DOMAIN rules = 1..Len(rules)
    OBVIOUS
  <1>2. places \in SUBSET Nat
    BY <1>1
  <1>3. Rank(avp, rules) = IF places = {} THEN Len(rules) + 1
                           ELSE CHOOSE i \in places : \A j \in places : i <= j
    BY DEF Rank
  <1> HIDE DEF places
  <1> DEFINE least == CHOOSE i \in places : \A j \in places : i <= j
  <1>4. places # {} => least \in places
    BY <1>2, LeastOf
  <1>5. Rank(avp, rules) = IF places = {} THEN Len(rules) + 1 ELSE least
    BY <1>3
  <1> HIDE DEF least
  <1>6. CASE places = {}
    BY <1>1, <1>5, <1>6
  <1>7. CASE places # {}
    BY <1>2, <1>4, <1>5, <1>7
  <1> QED BY <1>6, <1>7

\* sortByRules leaves the AVPs there are, each once.
Arrangement(p, n) ==
    /\ p \in [1..n -> 1..n]
    /\ \A k \in 1..n : \E i \in 1..n : p[i] = k

LEMMA SortArranges ==
    ASSUME NEW S, NEW avps \in Seq(S), NEW X, NEW rules \in Seq(X)
    PROVE  \E order :
            /\ Arrangement(order, Len(avps))
            /\ SortByRules(avps, rules) = [i \in 1..Len(avps) |-> avps[order[i]]]
            /\ \A i, j \in 1..Len(avps) : i < j =>
                \/ Rank(avps[order[i]], rules) < Rank(avps[order[j]], rules)
                \/ Rank(avps[order[i]], rules) = Rank(avps[order[j]], rules) /\ order[i] < order[j]
  <1> DEFINE n == Len(avps)
             rank == [i \in DOMAIN avps |-> Rank(avps[i], rules)]
             before == [i \in DOMAIN avps |->
                    {j \in DOMAIN avps : rank[j] < rank[i] \/ (rank[j] = rank[i] /\ j < i)}]
             order == InKeyOrder(before)
  <1>1. n \in Nat /\ DOMAIN avps = 1..n /\ \A i \in 1..n : avps[i] \in S
    OBVIOUS
  <1>2. Cardinality(DOMAIN avps) = n
    BY Counted
  <1>3. SortByRules(avps, rules) = [i \in DOMAIN order |-> avps[order[i]]]
    BY DEF SortByRules
  <1> HIDE DEF n
  <1>4. \A i \in 1..n : rank[i] \in Nat
    BY <1>1, RankTyped
  <1> HIDE DEF rank
  <1>5. IsOrder(before)
    <2>1. DOMAIN before = 1..n /\ IsFiniteSet(1..n)
      BY <1>1, FS_Interval
    <2>2. \A i \in 1..n : \A j : j \in before[i] <=>
            j \in 1..n /\ (rank[j] < rank[i] \/ (rank[j] = rank[i] /\ j < i))
      BY <1>1
    <2> HIDE DEF before
    <2>3. \A i \in 1..n : before[i] \subseteq 1..n /\ i \notin before[i]
      BY <1>1, <1>4, <2>2
    <2>4. \A i, j \in 1..n : j \in before[i] => before[j] \subseteq before[i]
      <3> SUFFICES ASSUME NEW i \in 1..n, NEW j \in 1..n, j \in before[i], NEW k \in before[j]
                   PROVE  k \in before[i]
        OBVIOUS
      <3>1. k \in 1..n
        BY <2>3
      <3>2. /\ rank[j] < rank[i] \/ (rank[j] = rank[i] /\ j < i)
            /\ rank[k] < rank[j] \/ (rank[k] = rank[j] /\ k < j)
        BY <2>2
      <3>3. rank[k] < rank[i] \/ (rank[k] = rank[i] /\ k < i)
        BY <1>1, <1>4, <3>1, <3>2
      <3> QED BY <2>2, <3>1, <3>3
    <2>5. \A i, j \in 1..n : i # j => i \in before[j] \/ j \in before[i]
      BY <1>1, <1>4, <2>2
    <2> QED BY <2>1, <2>3, <2>4, <2>5 DEF IsOrder
  <1>6. DOMAIN before = DOMAIN avps
    OBVIOUS
  <1>7. \A i \in 1..n : \A j : j \in before[i] <=>
            j \in 1..n /\ (rank[j] < rank[i] \/ (rank[j] = rank[i] /\ j < i))
    BY <1>1
  <1> HIDE DEF before
  <1>8. /\ order \in [1..n -> 1..n]
        /\ \A k \in 1..n : \E i \in 1..n : order[i] = k
        /\ \A i, j \in 1..n : i < j <=> order[i] \in before[order[j]]
    BY <1>1, <1>2, <1>5, <1>6, VisitsInOrder
  <1>9. SortByRules(avps, rules) = [i \in 1..n |-> avps[order[i]]]
    BY <1>3, <1>8
  <1>10. \A i \in 1..n : rank[i] = Rank(avps[i], rules)
    BY <1>1 DEF rank
  <1> HIDE DEF order
  <1>11. ASSUME NEW i \in 1..n, NEW j \in 1..n, i < j
         PROVE  \/ Rank(avps[order[i]], rules) < Rank(avps[order[j]], rules)
                \/ Rank(avps[order[i]], rules) = Rank(avps[order[j]], rules) /\ order[i] < order[j]
    <2>1. order[i] \in before[order[j]] /\ order[i] \in 1..n /\ order[j] \in 1..n
      BY <1>8, <1>11
    <2>2. rank[order[i]] < rank[order[j]] \/ (rank[order[i]] = rank[order[j]] /\ order[i] < order[j])
      BY <1>7, <2>1
    <2>3. /\ rank[order[i]] = Rank(avps[order[i]], rules)
          /\ rank[order[j]] = Rank(avps[order[j]], rules)
      BY <1>10, <2>1
    <2> QED BY <2>2, <2>3
  <1>12. Arrangement(order, n)
    BY <1>8 DEF Arrangement
  <1> QED BY <1>9, <1>11, <1>12 DEF n

LEMMA SortedTyped ==
    ASSUME NEW S, NEW avps \in Seq(S), NEW X, NEW rules \in Seq(X)
    PROVE  SortByRules(avps, rules) \in Seq(S) /\ Len(SortByRules(avps, rules)) = Len(avps)
  <1> DEFINE n == Len(avps)
  <1>1. n \in Nat /\ \A i \in 1..n : avps[i] \in S
    OBVIOUS
  <1> HIDE DEF n
  <1>2. PICK order : /\ Arrangement(order, n)
                     /\ SortByRules(avps, rules) = [i \in 1..n |-> avps[order[i]]]
    BY SortArranges DEF n
  <1>3. [i \in 1..n |-> avps[order[i]]] \in [1..n -> S]
    BY <1>1, <1>2 DEF Arrangement
  <1>4. \A s \in [1..n -> S] : s \in Seq(S) /\ Len(s) = n
    BY <1>1
  <1> QED BY <1>2, <1>3, <1>4 DEF n

\* The order of a std::map's keys is one.
KeysBefore(keys) == [k \in keys |-> {l \in keys : KeyBefore(l, k)}]

LEMMA KeysAreOrdered ==
    ASSUME NEW keys \in SUBSET Keys, IsFiniteSet(keys)
    PROVE  IsOrder(KeysBefore(keys)) /\ InOrder(keys) = InKeyOrder(KeysBefore(keys))
  <1> DEFINE before == [k \in keys |-> {l \in keys : KeyBefore(l, k)}]
  <1>1. \A k \in Keys : k[2] \in Int /\ k[3] \in Int /\ KeyRank[k[1]] \in Nat
                        /\ k = <<k[1], k[2], k[3]>> /\ k[1] \in DOMAIN KeyRank
    BY RankAssumption DEF Keys
  <1>2. \A k, l \in Keys : KeyRank[k[1]] = KeyRank[l[1]] => k[1] = l[1]
    BY <1>1, RankAssumption DEF IsInjective
  <1>3. \A k \in keys : \A l : l \in before[k] <=> l \in keys /\ KeyBefore(l, k)
    OBVIOUS
  <1>4. DOMAIN before = keys /\ InOrder(keys) = InKeyOrder(before)
    BY DEF InOrder
  <1> HIDE DEF before
  <1>5. \A k \in keys : before[k] \subseteq keys /\ k \notin before[k]
    <2>1. \A k \in keys : ~KeyBefore(k, k)
      BY <1>1 DEF KeyBefore
    <2> QED BY <1>3, <2>1
  <1>6. ASSUME NEW k \in Keys, NEW l \in Keys, NEW m \in Keys, KeyBefore(l, k), KeyBefore(m, l)
        PROVE  KeyBefore(m, k)
    <2>1. \/ KeyRank[l[1]] < KeyRank[k[1]]
          \/ KeyRank[l[1]] = KeyRank[k[1]] /\ (l[2] < k[2] \/ (l[2] = k[2] /\ l[3] < k[3]))
      BY <1>6 DEF KeyBefore
    <2>2. \/ KeyRank[m[1]] < KeyRank[l[1]]
          \/ KeyRank[m[1]] = KeyRank[l[1]] /\ (m[2] < l[2] \/ (m[2] = l[2] /\ m[3] < l[3]))
      BY <1>6 DEF KeyBefore
    <2>3. \/ KeyRank[m[1]] < KeyRank[k[1]]
          \/ KeyRank[m[1]] = KeyRank[k[1]] /\ (m[2] < k[2] \/ (m[2] = k[2] /\ m[3] < k[3]))
      BY <1>1, <2>1, <2>2
    <2> QED BY <1>2, <2>3 DEF KeyBefore
  <1>7. \A k, l \in keys : l \in before[k] => before[l] \subseteq before[k]
    <2> SUFFICES ASSUME NEW k \in keys, NEW l \in keys, l \in before[k], NEW m \in before[l]
                 PROVE  m \in before[k]
      OBVIOUS
    <2>1. m \in keys /\ KeyBefore(m, l) /\ KeyBefore(l, k)
      BY <1>3
    <2>2. KeyBefore(m, k)
      BY <1>6, <2>1
    <2> QED BY <1>3, <2>1, <2>2
  <1>8. ASSUME NEW k \in Keys, NEW l \in Keys, k # l PROVE KeyBefore(k, l) \/ KeyBefore(l, k)
    <2>1. CASE KeyRank[k[1]] # KeyRank[l[1]]
      BY <1>1, <2>1 DEF KeyBefore
    <2>2. CASE KeyRank[k[1]] = KeyRank[l[1]]
      <3>1. k[1] = l[1]
        BY <1>2, <2>2
      <3>2. k[2] # l[2] \/ k[3] # l[3]
        BY <1>1, <1>8, <3>1, Zenon
      <3> QED BY <1>1, <3>1, <3>2 DEF KeyBefore
    <2> QED BY <2>1, <2>2
  <1>9. \A k, l \in keys : k # l => k \in before[l] \/ l \in before[k]
    BY <1>3, <1>8
  <1>10. IsOrder(before)
    BY <1>4, <1>5, <1>7, <1>9 DEF IsOrder
  <1> QED BY <1>4, <1>10 DEF KeysBefore, before

LEMMA KeysOrdered ==
    ASSUME NEW keys \in SUBSET Keys, IsFiniteSet(keys)
    PROVE  /\ Cardinality(keys) \in Nat
           /\ InOrder(keys) \in [1..Cardinality(keys) -> keys]
           /\ \A k \in keys : \E i \in DOMAIN InOrder(keys) : InOrder(keys)[i] = k
           /\ \A i, j \in DOMAIN InOrder(keys) :
                i < j <=> KeyBefore(InOrder(keys)[i], InOrder(keys)[j])
  <1> DEFINE before == KeysBefore(keys)
             order == InOrder(keys)
  <1>1. IsOrder(before) /\ order = InKeyOrder(before)
    BY KeysAreOrdered
  <1>2. DOMAIN before = keys /\ \A k \in keys : before[k] = {l \in keys : KeyBefore(l, k)}
    BY DEF KeysBefore
  <1> HIDE DEF before, order
  <1>3. /\ Cardinality(keys) \in Nat
        /\ order \in [1..Cardinality(keys) -> keys]
        /\ \A k \in keys : \E i \in DOMAIN order : order[i] = k
        /\ \A i, j \in DOMAIN order : i < j <=> order[i] \in before[order[j]]
    BY <1>1, <1>2, VisitsInOrder
  <1>4. \A i, j \in DOMAIN order : order[i] \in before[order[j]] <=> KeyBefore(order[i], order[j])
    BY <1>2, <1>3
  <1> QED BY <1>3, <1>4 DEF order

LEMMA NameTyped ==
    ASSUME NEW avp \in Avps
    PROVE  NameOf(avp) \in Keys
  <1>1. avp.id[1] \in Int /\ avp.id[2] \in Int /\ 0 \in Int
    BY AvpTyped
  <1>2. "avp-" \in DOMAIN KeyRank /\ \A id \in DOMAIN Dict : Dict[id].name \in DOMAIN KeyRank
    BY RankAssumption
  <1> QED BY <1>1, <1>2 DEF NameOf, Keys

\* The names of AVPs are keys.
LEMMA NamesTyped ==
    ASSUME NEW avps \in Seq(Avps)
    PROVE  LET names == {NameOf(avps[i]) : i \in DOMAIN avps} IN
           names \in SUBSET Keys /\ IsFiniteSet(names)
  <1> DEFINE n == Len(avps)
             names == {NameOf(avps[i]) : i \in DOMAIN avps}
             f == [i \in 1..n |-> NameOf(avps[i])]
  <1>1. n \in Nat /\ DOMAIN avps = 1..n /\ \A i \in 1..n : avps[i] \in Avps
    OBVIOUS
  <1> HIDE DEF n
  <1>2. names \in SUBSET Keys
    BY <1>1, NameTyped
  <1>3. IsFiniteSet(1..n)
    BY <1>1, FS_Interval
  <1>4. f \in Surjection(1..n, names)
    BY <1>1 DEF Surjection
  <1> HIDE DEF f, names
  <1>5. IsFiniteSet(names)
    BY <1>3, <1>4, FS_Surjection
  <1> QED BY <1>2, <1>5 DEF names

LEMMA AscendingTyped ==
    ASSUME NEW n \in Nat, NEW S \in SUBSET (1..n)
    PROVE  /\ Cardinality(S) \in Nat
           /\ Ascending(S) \in [1..Cardinality(S) -> S]
           /\ \A k \in S : \E i \in DOMAIN Ascending(S) : Ascending(S)[i] = k
           /\ \A i, j \in DOMAIN Ascending(S) : i < j => Ascending(S)[i] < Ascending(S)[j]
  <1> DEFINE before == [k \in S |-> {m \in S : m < k}]
  <1>1. IsFiniteSet(S)
    <2>1. IsFiniteSet(1..n)
      BY FS_Interval
    <2> QED BY <2>1, FS_Subset
  <1>2. \A k \in S : k \in Nat
    OBVIOUS
  <1>3. IsOrder(before)
    <2>1. \A k \in S : \A m : m \in before[k] <=> m \in S /\ m < k
      OBVIOUS
    <2>2. DOMAIN before = S
      OBVIOUS
    <2> HIDE DEF before
    <2>3. \A k \in S : before[k] \subseteq S /\ k \notin before[k]
      BY <1>2, <2>1
    <2>4. \A k, l \in S : l \in before[k] => before[l] \subseteq before[k]
      <3> SUFFICES ASSUME NEW k \in S, NEW l \in S, l \in before[k], NEW m \in before[l]
                   PROVE  m \in before[k]
        OBVIOUS
      <3>1. m \in S /\ m < l /\ l < k
        BY <2>1
      <3>2. m < k
        BY <1>2, <3>1
      <3> QED BY <2>1, <3>1, <3>2
    <2>5. \A k, l \in S : k # l => k \in before[l] \/ l \in before[k]
      BY <1>2, <2>1
    <2> QED BY <1>1, <2>2, <2>3, <2>4, <2>5 DEF IsOrder
  <1>4. Ascending(S) = InKeyOrder(before) /\ DOMAIN before = S
    BY DEF Ascending
  <1>5. \A k \in S : \A l : l \in before[k] => l < k
    OBVIOUS
  <1> HIDE DEF before
  <1>6. /\ Cardinality(S) \in Nat
        /\ Ascending(S) \in [1..Cardinality(S) -> S]
        /\ \A k \in S : \E i \in DOMAIN Ascending(S) : Ascending(S)[i] = k
        /\ \A i, j \in DOMAIN Ascending(S) : i < j <=> Ascending(S)[i] \in before[Ascending(S)[j]]
    BY <1>3, <1>4, VisitsInOrder
  <1>7. \A i, j \in DOMAIN Ascending(S) : i < j => Ascending(S)[i] < Ascending(S)[j]
    BY <1>5, <1>6
  <1> QED BY <1>6, <1>7

\* The entries of an object for some AVPs and their values.
LEMMA ItemsTyped ==
    ASSUME NEW avps \in Seq(Avps), NEW V, NEW values \in Seq(V), Len(values) = Len(avps)
    PROVE  ItemsOf(avps, values) \in Seq(EntriesOf(V))
  <1> DEFINE n == Len(avps)
             names == {NameOf(avps[i]) : i \in DOMAIN avps}
             keys == InOrder(names)
             at(key) == {i \in DOMAIN avps : NameOf(avps[i]) = key}
             places(key) == Ascending(at(key))
             under(key) == [j \in DOMAIN places(key) |-> values[places(key)[j]]]
  <1>1. n \in Nat /\ DOMAIN avps = 1..n /\ \A i \in 1..n : avps[i] \in Avps
    OBVIOUS
  <1>2. \A i \in 1..n : values[i] \in V
    OBVIOUS
  <1>3. ItemsOf(avps, values) = [k \in DOMAIN keys |-> Collect(keys[k], under(keys[k]))]
    BY DEF ItemsOf
  <1> HIDE DEF n
  <1>4. names \in SUBSET Keys /\ IsFiniteSet(names)
    BY NamesTyped
  <1>5. /\ Cardinality(names) \in Nat /\ keys \in [1..Cardinality(names) -> names]
    <2> HIDE DEF names
    <2> QED BY <1>4, KeysOrdered
  <1>6. ASSUME NEW key \in names
        PROVE  Collect(key, under(key)) \in EntriesOf(V)
    <2>1. at(key) \in SUBSET (1..n)
      BY <1>1
    <2>2. /\ Cardinality(at(key)) \in Nat
          /\ places(key) \in [1..Cardinality(at(key)) -> at(key)]
      <3> HIDE DEF at
      <3> QED BY <1>1, <2>1, AscendingTyped
    <2> DEFINE m == Cardinality(at(key))
               list == under(key)
    <2>3. list \in [1..m -> V]
      <3>1. DOMAIN places(key) = 1..m
        BY <2>2
      <3>2. \A j \in 1..m : values[places(key)[j]] \in V
        <4> HIDE DEF places, at
        <4> QED BY <1>2, <2>1, <2>2
      <3> HIDE DEF places, m
      <3> QED BY <3>1, <3>2
    <2> HIDE DEF at, places, under, list, m
    <2>4. m \in Nat
      BY <2>2 DEF m
    <2>5. list \in Seq(V) /\ Len(list) = m
      BY <2>3, <2>4
    <2>6. key \in Keys
      BY <1>4
    <2>7. Collect(key, list) = [key |-> key, isArray |-> Len(list) # 1, values |-> list]
      BY DEF Collect
    <2>8. CASE Len(list) = 1
      <3>1. list \in [1..1 -> V]
        BY <2>3, <2>5, <2>8
      <3>2. Collect(key, list) = [key |-> key, isArray |-> FALSE, values |-> list]
        BY <2>7, <2>8
      <3> QED BY <2>6, <3>1, <3>2 DEF EntriesOf, list
    <2>9. CASE Len(list) # 1
      <3>1. Collect(key, list) = [key |-> key, isArray |-> TRUE, values |-> list]
        BY <2>7, <2>9
      <3> QED BY <2>5, <2>6, <3>1 DEF EntriesOf, list
    <2> QED BY <2>8, <2>9
  <1> HIDE DEF under, keys, names
  <1>7. \A k \in 1..Cardinality(names) : Collect(keys[k], under(keys[k])) \in EntriesOf(V)
    BY <1>5, <1>6
  <1>8. ItemsOf(avps, values) \in [1..Cardinality(names) -> EntriesOf(V)]
    BY ONLY <1>3, <1>5, <1>7
  <1> DEFINE m == Cardinality(names)
             X == EntriesOf(V)
             items == ItemsOf(avps, values)
  <1>9. m \in Nat /\ items \in [1..m -> X]
    BY ONLY <1>5, <1>8
  <1> HIDE DEF m, X, items
  <1>10. items \in Seq(X)
    BY ONLY <1>9
  <1> QED BY <1>10 DEF X, items

LEMMA NoItems ==
    ASSUME NEW values
    PROVE  ItemsOf(<<>>, values) = <<>>
  <1> DEFINE names == {NameOf(<<>>[i]) : i \in DOMAIN <<>>}
  <1>1. names = {} /\ Cardinality(names) = 0 /\ IsFiniteSet(names)
    <2>1. names = {}
      OBVIOUS
    <2> HIDE DEF names
    <2> QED BY <2>1, FS_EmptySet
  <1>2. DOMAIN InOrder(names) = {}
    <2>1. InOrder(names) \in [1..0 -> names]
      <3> HIDE DEF names
      <3>1. names \in SUBSET Keys
        BY <1>1
      <3> QED BY <1>1, <3>1, KeysOrdered
    <2> HIDE DEF names
    <2> QED BY <2>1
  <1>3. DOMAIN ItemsOf(<<>>, values) = {}
    BY <1>2 DEF ItemsOf
  <1>4. \E f : ItemsOf(<<>>, values) = [k \in {} |-> f[k]]
    <2> DEFINE items == ItemsOf(<<>>, values)
    <2>1. items = [k \in DOMAIN items |-> items[k]]
      BY DEF ItemsOf
    <2> HIDE DEF items
    <2> QED BY <1>3, <2>1 DEF items
  <1>5. \A f : [k \in {} |-> f[k]] = <<>>
    OBVIOUS
  <1> QED BY <1>4, <1>5, Zenon

LEMMA JsonBuilt ==
    ASSUME NEW d \in 0..MaxDepth
    PROVE  /\ JsonNull \in JsonNested[d]
           /\ \A v \in Int : JsonNumber(v) \in JsonNested[d]
           /\ \A text \in Texts : JsonText(text) \in JsonNested[d]
           /\ \A items \in JsonWithin(d) : JsonObject(items) \in JsonNested[d]
  <1> DEFINE plain == [kind : {"null", "number", "text", "array"}, num : Int, text : Texts,
                       items : {<<>>}]
             objects == [kind : {"object"}, num : {0}, text : {<<>>}, items : JsonWithin(d)]
  <1>1. JsonNested[d] = plain \cup objects
    BY JsonNestedDefined DEF JsonWith, JsonWithin
  <1>2. JsonNull \in plain
    BY EmptyTyped DEF JsonNull
  <1>3. ASSUME NEW v \in Int PROVE JsonNumber(v) \in plain
    BY EmptyTyped DEF JsonNull, JsonNumber
  <1>4. ASSUME NEW text \in Texts PROVE JsonText(text) \in plain
    <2>1. JsonText(text) \in [kind : {"text"}, num : {0}, text : {text}, items : {<<>>}]
      BY DEF JsonNull, JsonText
    <2> QED BY <2>1
  <1>5. ASSUME NEW items \in JsonWithin(d) PROVE JsonObject(items) \in objects
    <2>1. JsonObject(items)
             \in [kind : {"object"}, num : {0}, text : {<<>>}, items : {items}]
      BY DEF JsonNull, JsonObject
    <2> QED BY <2>1
  <1> HIDE DEF plain, objects
  <1> QED BY <1>1, <1>2, <1>3, <1>4, <1>5

LEMMA DataToJsonTyped ==
    ASSUME NEW d \in 0..MaxDepth, NEW avp \in Nested[d],
           NEW values \in Seq(Below(JsonNested, d)), Len(values) = Len(avp.data.kids)
    PROVE  DataToJson(avp, values) \in JsonNested[d]
  <1> DEFINE type == CodingType(avp)
             kids == avp.data.kids
  <1>1. avp \in Avps /\ avp.data.num \in Int /\ avp.data.text \in Texts /\ kids \in Within(d)
    BY DataOf, NestedWithinAvps
  <1>2. CASE type = "Time"
    <2>1. Unsigned(avp.data.num - EpochOffset, 4) \in Int
      <3> DEFINE v == avp.data.num - EpochOffset
      <3>1. v \in Int /\ 4 \in 0..8
        BY <1>1, SizeAssumption
      <3> HIDE DEF v
      <3>2. Unsigned(v, 4) \in 0..(Values[4] - 1) /\ Values[4] \in Nat
        BY <3>1, UnsignedInRange, ValuesKnown
      <3>3. Unsigned(v, 4) \in Int
        BY <3>2
      <3> QED BY <3>3 DEF v
    <2>2. DataToJson(avp, values) = JsonNumber(Unsigned(avp.data.num - EpochOffset, 4))
      BY <1>2 DEF DataToJson
    <2> QED BY <2>1, <2>2, JsonBuilt
  <1>3. CASE type # "Time" /\ IsNumber(type)
    <2>1. DataToJson(avp, values) = JsonNumber(avp.data.num)
      BY <1>3 DEF DataToJson
    <2> QED BY <1>1, <2>1, JsonBuilt
  <1>4. CASE type # "Time" /\ ~IsNumber(type) /\ type = "Grouped"
    <2>1. ItemsOf(kids, values) \in JsonWithin(d)
      <3>1. CASE d = 0
        <4>1. kids = <<>>
          BY <1>1, <3>1 DEF Within
        <4>2. ItemsOf(kids, values) = <<>>
          BY <4>1, NoItems
        <4> QED BY <3>1, <4>2 DEF JsonWithin, ItemsWithin
      <3>2. CASE d # 0
        <4>1. kids \in Seq(Avps)
          BY <1>1, KidsAreAvps
        <4>2. ItemsOf(kids, values) \in Seq(EntriesOf(Below(JsonNested, d)))
          <5> HIDE DEF kids
          <5> QED BY <4>1, ItemsTyped DEF kids
        <4> QED BY <3>2, <4>2 DEF JsonWithin, ItemsWithin, Below
      <3> QED BY <3>1, <3>2
    <2>2. DataToJson(avp, values) = JsonObject(ItemsOf(kids, values))
      BY <1>4 DEF DataToJson
    <2> QED BY <2>1, <2>2, JsonBuilt
  <1>5. CASE /\ type # "Time" /\ ~IsNumber(type) /\ type # "Grouped"
             /\ IsText(type) \/ type = "Address"
    <2>1. DataToJson(avp, values) = JsonText(avp.data.text)
      BY <1>5 DEF DataToJson
    <2> QED BY <1>1, <2>1, JsonBuilt
  <1>6. CASE /\ type # "Time" /\ ~IsNumber(type) /\ type # "Grouped"
             /\ ~(IsText(type) \/ type = "Address")
    <2> DEFINE text == ToHex(avp.data.text)
    <2>1. DataToJson(avp, values) = JsonText(text)
      BY <1>6 DEF DataToJson, Hex
    <2>2. text \in Texts
      BY <1>1, ToHexTyped DEF Texts
    <2> QED BY <2>1, <2>2, JsonBuilt
  <1> QED BY <1>2, <1>3, <1>4, <1>5, <1>6

\* ToJson is what its definition says, and a value nested as deep as the AVP.
LEMMA ToJsonDefined ==
    /\ ToJson \in [Avps -> JsonValues]
    /\ \A d \in 0..MaxDepth : \A avp \in Nested[d] : ToJson[avp] \in JsonNested[d]
    /\ \A avp \in Avps :
        ToJson[avp] = DataToJson(avp, Each(ToJson, avp.data.kids))
  <1> DEFINE X == JsonNested
             S == JsonValues
             Of(avp, values) == DataToJson(avp, values)
             of == [avp \in Avps |-> [values \in Seq(S) |-> Of(avp, values)]]
             Body(f) == [avp \in Avps |-> Of(avp, Each(f, avp.data.kids))]
  <1>1. MaxDepth \in 0..MaxDepth /\ X[MaxDepth] = S
    BY SizeAssumption DEF JsonValues
  <1>3. \A avp \in Avps : \A values \in Seq(S) : of[avp][values] = Of(avp, values)
    <2> HIDE DEF Of, S
    <2> QED OBVIOUS
  <1>4. IsBuilding(X, of)
    <2>1. \E x : \A d \in 0..MaxDepth : x \in X[d]
      BY JsonBuilt
    <2>2. \A d \in 0..MaxDepth : X[d] \subseteq X[MaxDepth]
      BY <1>1, JsonNestedWithinValues
    <2>3. ASSUME NEW d \in 0..MaxDepth, NEW avp \in Nested[d], NEW values \in Seq(Below(X, d)),
                 Len(values) = Len(avp.data.kids)
          PROVE  of[avp][values] \in X[d]
      <3>1. Below(X, d) \subseteq S
        <4>1. d # 0 => d - 1 \in 0..MaxDepth
          BY SizeAssumption
        <4> HIDE DEF S
        <4> QED BY <1>1, <2>2, <4>1 DEF Below
      <3>2. values \in Seq(S) /\ avp \in Avps
        <4> HIDE DEF S, X
        <4> QED BY <3>1, NestedWithinAvps
      <3>3. Of(avp, values) \in X[d]
        BY <2>3, DataToJsonTyped
      <3> HIDE DEF S, of, Of
      <3> QED BY <1>3, <3>2, <3>3
    <2> HIDE DEF X, of
    <2> QED BY <2>1, <2>2, <2>3 DEF IsBuilding
  <1>5. PICK f \in Layered(X) : f = [avp \in Avps |-> of[avp][Each(f, avp.data.kids)]]
    <2> HIDE DEF X, of
    <2> QED BY <1>4, BuildingDefined
  <1>6. f \in [Avps -> S]
    <2> HIDE DEF S
    <2> QED BY <1>1, <1>5 DEF Layered
  <1>7. \A avp \in Avps : Each(f, avp.data.kids) \in Seq(S)
    <2> HIDE DEF S
    <2> QED BY <1>6, KidsAreAvps, EachOf
  <1>8. f = Body(f)
    <2> HIDE DEF of, Of, S, X
    <2>1. \A avp \in Avps :
            of[avp][Each(f, avp.data.kids)] = Of(avp, Each(f, avp.data.kids))
      BY <1>3, <1>7
    <2> QED BY <1>5, <2>1
  <1>9. ToJson = Body(ToJson)
    <2> USE DEF Each
    <2> QED BY <1>8 DEF ToJson
  <1>10. ToJson = f
    <2> HIDE DEF Of
    <2>1. AreBuilt(ToJson, f)
      BY <1>8, <1>9 DEF AreBuilt
    <2> QED BY <2>1, BuildingUnique
  <1> HIDE DEF Of
  <1>11. \A avp \in Avps : ToJson[avp] = Of(avp, Each(ToJson, avp.data.kids))
    BY <1>9
  <1>12. \A d \in 0..MaxDepth : \A avp \in Nested[d] : ToJson[avp] \in JsonNested[d]
    BY <1>5, <1>10 DEF Layered
  <1> QED BY <1>6, <1>10, <1>11, <1>12 DEF Of

LEMMA AllToJsonTyped ==
    ASSUME NEW avps \in Seq(Avps)
    PROVE  ItemsOfAll(avps) \in Seq(EntriesOf(JsonValues))
  <1>1. Each(ToJson, avps) \in Seq(JsonValues) /\ Len(Each(ToJson, avps)) = Len(avps)
    BY EachOf, ToJsonDefined
  <1>2. ItemsOfAll(avps) = ItemsOf(avps, Each(ToJson, avps))
    BY DEF ItemsOfAll, Each
  <1> QED BY <1>1, <1>2, ItemsTyped

----------------------------------------------------------------------------
(* JSON into AVPs                                                            *)

\* What the loops over an object visit: a key and a value.
ElemsOf(values) == [key : Keys, value : values]

LEMMA VisitedTyped ==
    ASSUME NEW V, NEW items \in Seq(EntriesOf(V))
    PROVE  Visited(items) \in Seq(ElemsOf(V))
  <1> DEFINE of(entry) == [j \in DOMAIN entry.values |->
                              [key |-> entry.key, value |-> entry.values[j]]]
             parts == [i \in DOMAIN items |-> of(items[i])]
  <1>1. ASSUME NEW entry \in EntriesOf(V) PROVE of(entry) \in Seq(ElemsOf(V))
    <2> DEFINE values == entry.values
               key == entry.key
               n == Len(values)
    <2>1. key \in Keys /\ values \in Seq(V)
      BY EntryFields
    <2>2. of(entry) = [j \in DOMAIN values |-> [key |-> key, value |-> values[j]]]
      OBVIOUS
    <2> HIDE DEF values, key, n, of
    <2>3. n \in Nat /\ DOMAIN values = 1..n /\ \A j \in 1..n : values[j] \in V
      BY <2>1 DEF n
    <2>4. of(entry) \in [1..n -> ElemsOf(V)]
      BY <2>1, <2>2, <2>3 DEF ElemsOf
    <2> QED BY <2>3, <2>4
  <1>2. parts \in Seq(Seq(ElemsOf(V)))
    <2> DEFINE n == Len(items)
    <2>1. n \in Nat /\ DOMAIN items = 1..n /\ \A i \in 1..n : items[i] \in EntriesOf(V)
      OBVIOUS
    <2> HIDE DEF of, n
    <2>2. parts \in [1..n -> Seq(ElemsOf(V))]
      BY <1>1, <2>1
    <2> HIDE DEF parts
    <2> QED BY <2>1, <2>2
  <1>3. Visited(items) = Joined(parts)
    BY DEF Visited
  <1> HIDE DEF parts
  <1> QED BY <1>2, <1>3, JoinedTyped

LEMMA GatheredTyped ==
    ASSUME NEW S, NEW built \in Seq(ReadsOf(S))
    PROVE  Gathered(built) \in ReadsOf(S)
  <1> DEFINE parts == [i \in DOMAIN built |-> built[i].avps]
  <1>1. parts \in Seq(Seq(S))
    <2> DEFINE n == Len(built)
    <2>1. n \in Nat /\ DOMAIN built = 1..n /\ \A i \in 1..n : built[i] \in ReadsOf(S)
      OBVIOUS
    <2>2. \A read \in ReadsOf(S) : read.avps \in Seq(S)
      BY DEF ReadsOf
    <2> HIDE DEF n
    <2>3. parts \in [1..n -> Seq(S)]
      BY <2>1, <2>2
    <2> HIDE DEF parts
    <2> QED BY <2>1, <2>3
  <1>2. Joined(parts) \in Seq(S)
    <2> HIDE DEF parts
    <2> QED BY <1>1, JoinedTyped
  <1>3. \/ Gathered(built) = [ok |-> TRUE, avps |-> Joined(parts)]
        \/ Gathered(built) = Failure
    BY DEF Gathered
  <1>4. Failure \in ReadsOf(S)
    BY DEF Failure, ReadsOf
  <1> HIDE DEF parts
  <1>5. [ok |-> TRUE, avps |-> Joined(parts)] \in ReadsOf(S)
    BY <1>2 DEF ReadsOf
  <1> QED BY <1>3, <1>4, <1>5

LEMMA WithinBelow ==
    ASSUME NEW d \in 0..MaxDepth
    PROVE  /\ Within(d) = Seq(Below(Nested, d))
           /\ JsonWithin(d) \subseteq Seq(EntriesOf(Below(JsonNested, d)))
  <1>1. ASSUME NEW s \in Seq({}) PROVE s = <<>>
    <2>1. Len(s) \in Nat /\ \A i \in 1..Len(s) : s[i] \in {}
      OBVIOUS
    <2>2. Len(s) = 0
      BY <2>1
    <2> QED BY <2>2
  <1>2. Seq({}) = {<<>>}
    <2>1. <<>> \in Seq({})
      OBVIOUS
    <2> QED BY <1>1, <2>1
  <1>3. \A S : <<>> \in Seq(S)
    OBVIOUS
  <1>4. Within(d) = Seq(Below(Nested, d))
    BY <1>2 DEF Within, Below
  <1>5. JsonWithin(d) \subseteq Seq(EntriesOf(Below(JsonNested, d)))
    BY <1>3 DEF JsonWithin, ItemsWithin, Below
  <1> QED BY <1>4, <1>5

\* A list of one AVP is a read.
LEMMA OneRead ==
    ASSUME NEW S, NEW avp \in S
    PROVE  [ok |-> TRUE, avps |-> <<avp>>] \in ReadsOf(S) /\ Failure \in ReadsOf(S)
  <1>1. <<avp>> \in Seq(S)
    BY OneTyped
  <1> QED BY <1>1 DEF ReadsOf, Failure

LEMMA FlagsTyped ==
    /\ FlagVendor \in Octet /\ FlagMandatory \in Octet /\ 0 \in Octet
    /\ FlagVendor + FlagMandatory \in Octet
  BY SizeAssumption DEF FlagVendor, FlagMandatory, Octet

LEMMA RawAvpTyped ==
    ASSUME NEW d \in 0..MaxDepth, NEW key \in Keys, NEW hex, hex.text \in Texts,
           IsHex(hex.text), NEW flags \in Octet
    PROVE  RawAvp(key, hex, flags) \in Nested[d]
  <1> DEFINE text == FromHex(hex.text)
             id == <<Signed(key[2], 4), Signed(key[3], 4)>>
  <1>1. text \in Texts
    BY FromHexTyped
  <1>2. Str(text) \in DataWith(Within(d))
    <2> HIDE DEF text
    <2> QED BY <1>1, DataMade
  <1>3. id \in AvpIds
    <2>1. key[2] \in Int /\ key[3] \in Int
      BY DEF Keys
    <2>2. Signed(key[2], 4) \in SignedNumbers /\ Signed(key[3], 4) \in SignedNumbers
      BY <2>1, SignedNumbersHold
    <2> QED BY <2>2 DEF AvpIds
  <1>4. RawAvp(key, hex, flags) = [id |-> id, flags |-> flags, raw |-> TRUE, data |-> Str(text)]
    BY DEF RawAvp
  <1> HIDE DEF text, id
  <1> QED BY <1>2, <1>3, <1>4, AvpFields

\* What an object has under a key is one of its values.
LEMMA FoundTyped ==
    ASSUME NEW d \in 0..MaxDepth, NEW items \in JsonWithin(d), NEW key
    PROVE  Found(items, key) \subseteq JsonValues
  <1>1. items \in Seq(EntriesOf(Below(JsonNested, d)))
    BY WithinBelow
  <1>2. Below(JsonNested, d) \subseteq JsonValues
    <2>1. d # 0 => d - 1 \in 0..MaxDepth
      BY SizeAssumption
    <2> QED BY <2>1, JsonNestedWithinValues DEF Below
  <1>3. SUFFICES ASSUME NEW j \in DOMAIN items, ~items[j].isArray
                 PROVE  items[j].values[1] \in JsonValues
    BY DEF Found
  <1>4. items[j] \in EntriesOf(Below(JsonNested, d))
    BY <1>1
  <1> DEFINE entry == items[j]
  <1> HIDE DEF entry
  <1>5. entry.values[1] \in Below(JsonNested, d)
    <2>1. entry \in EntriesOf(Below(JsonNested, d)) /\ ~entry.isArray
      BY <1>3, <1>4 DEF entry
    <2> QED BY <2>1, EntryFields
  <1> QED BY <1>2, <1>5 DEF entry

LEMMA ValueFields ==
    ASSUME NEW value \in JsonValues
    PROVE  value.num \in Int /\ value.text \in Texts
  <1>1. MaxDepth \in 0..MaxDepth
    BY SizeAssumption
  <1> QED BY <1>1, JsonFields DEF JsonValues

LEMMA RawFromJsonTyped ==
    ASSUME NEW d \in 0..MaxDepth, NEW key \in Keys, NEW value \in JsonNested[d]
    PROVE  RawFromJson(key, value) \in ReadsOf(Nested[d])
  <1> DEFINE hexes == {v \in {value} \cup Found(value.items, HexKey) : IsHexText(v)}
             given == {v.num : v \in {w \in Found(value.items, FlagsKey) : w.kind = "number"}}
                         \cap Octet
             flags == IF HasKey(value.items, FlagsKey) THEN given
                      ELSE {IF key[3] # 0 THEN FlagVendor ELSE 0}
             one == RawAvp(key, CHOOSE v \in hexes : TRUE, CHOOSE f \in flags : TRUE)
  <1>1. RawFromJson(key, value) = IF IsRawKey(key) /\ hexes # {} /\ flags # {}
                                  THEN [ok |-> TRUE, avps |-> <<one>>] ELSE Failure
    BY DEF RawFromJson
  <1>2. flags \subseteq Octet
    BY FlagsTyped
  <1>3. \A v \in hexes : v.text \in Texts /\ IsHex(v.text)
    <2>1. Found(value.items, HexKey) \subseteq JsonValues
      BY JsonFields, FoundTyped
    <2>2. value \in JsonValues
      BY JsonNestedWithinValues
    <2>3. \A v \in hexes : v \in JsonValues /\ IsHex(v.text)
      BY <2>1, <2>2 DEF IsHexText
    <2> HIDE DEF hexes
    <2> QED BY <2>3, ValueFields
  <1> HIDE DEF flags, hexes
  <1>4. ASSUME hexes # {}, flags # {} PROVE one \in Nested[d]
    <2> DEFINE v == CHOOSE u \in hexes : TRUE
               f == CHOOSE g \in flags : TRUE
    <2>1. v \in hexes /\ f \in flags
      BY <1>4
    <2>2. v.text \in Texts /\ IsHex(v.text) /\ f \in Octet
      BY <1>2, <1>3, <2>1
    <2> HIDE DEF v, f
    <2>3. RawAvp(key, v, f) \in Nested[d]
      BY <2>2, RawAvpTyped
    <2> QED BY <2>3 DEF v, f
  <1> HIDE DEF one
  <1>5. CASE IsRawKey(key) /\ hexes # {} /\ flags # {}
    BY <1>1, <1>4, <1>5, OneRead
  <1>6. CASE ~(IsRawKey(key) /\ hexes # {} /\ flags # {})
    <2>1. Failure \in ReadsOf(Nested[d])
      BY DEF Failure, ReadsOf
    <2> QED BY <1>1, <1>6, <2>1
  <1> QED BY <1>5, <1>6

LEMMA DataFromJsonTyped ==
    ASSUME NEW d \in 0..MaxDepth, NEW id \in DOMAIN Dict, NEW value \in JsonNested[d],
           NEW kids \in ReadsOf(Below(Nested, d))
    PROVE  /\ DataFromJson(id, value, kids).ok \in BOOLEAN
           /\ DataFromJson(id, value, kids).ok =>
                DataFromJson(id, value, kids).data \in DataWith(Within(d))
  <1> DEFINE type == FormatType(id)
             number == value.num + IF type = "Time" THEN EpochOffset ELSE 0
             read == DataFromJson(id, value, kids)
             Data == DataWith(Within(d))
  <1>1. /\ Unset \in Data
        /\ \A text \in Texts : Str(text) \in Data
        /\ \A kind \in DOMAIN NumbersOf : \A v \in NumbersOf[kind] : Num(kind, v) \in Data
        /\ \A avps \in Within(d) : Kids(avps) \in Data
    BY DataMade
  <1>2. value.num \in Int /\ value.text \in Texts
    BY JsonFields
  <1>3. CASE IsNumber(type)
    <2>1. read = [ok |-> value.kind = "number", data |-> Num(Kind[type], AsTyped(number, type))]
      BY <1>3 DEF DataFromJson
    <2>2. number \in Int
      BY <1>2, SizeAssumption
    <2> HIDE DEF number, type, Data
    <2>3. Kind[type] \in DOMAIN NumbersOf /\ AsTyped(number, type) \in NumbersOf[Kind[type]]
      BY <1>3, <2>2, AsTypedHeld
    <2>4. Num(Kind[type], AsTyped(number, type)) \in Data
      BY <1>1, <2>3
    <2> QED BY <2>1, <2>4 DEF Data
  <1>4. CASE ~IsNumber(type) /\ type = "Grouped" /\ IsIterable(value)
    <2> DEFINE sorted == SortByRules(kids.avps, Dict[id].rules)
    <2>1. read = [ok |-> kids.ok, data |-> Kids(sorted)]
      BY <1>4 DEF DataFromJson, GroupedData
    <2>2. kids.ok \in BOOLEAN /\ kids.avps \in Seq(Below(Nested, d))
      BY DEF ReadsOf
    <2>3. sorted \in Seq(Below(Nested, d))
      BY <2>2, DictTyped, SortedTyped
    <2> HIDE DEF sorted, Data
    <2>4. Kids(sorted) \in Data
      BY <1>1, <2>3, WithinBelow
    <2> QED BY <2>1, <2>2, <2>4 DEF Data
  <1>5. CASE ~IsNumber(type) /\ type = "Grouped" /\ ~IsIterable(value)
    <2>1. read = [ok |-> FALSE, data |-> Unset]
      BY <1>5 DEF DataFromJson
    <2> QED BY <1>1, <2>1
  <1>6. CASE ~IsNumber(type) /\ type # "Grouped" /\ (IsText(type) \/ type = "Address")
    <2>1. read = [ok |-> value.kind = "text", data |-> Str(value.text)]
      BY <1>6 DEF DataFromJson
    <2> QED BY <1>1, <1>2, <2>1
  <1>7. CASE ~IsNumber(type) /\ type # "Grouped" /\ ~(IsText(type) \/ type = "Address")
    <2> DEFINE text == FromHex(value.text)
               ok == Dict[id].type # "Any" /\ IsHexText(value)
    <2>1. read = [ok |-> ok, data |-> Str(text)]
      BY <1>7 DEF DataFromJson
    <2>2. ok => text \in Texts
      BY <1>2, FromHexTyped DEF IsHexText
    <2>3. ok \in BOOLEAN
      OBVIOUS
    <2> HIDE DEF text, ok, Data
    <2> QED BY <1>1, <2>1, <2>2, <2>3 DEF Data
  <1> QED BY <1>3, <1>4, <1>5, <1>6, <1>7

LEMMA NamedTyped ==
    ASSUME NEW d \in 0..MaxDepth, NEW id \in DOMAIN Dict, NEW read,
           read.ok => read.data \in DataWith(Within(d))
    PROVE  Named(id, read) \in ReadsOf(Nested[d])
  <1> DEFINE flags == (IF Dict[id].vBit THEN FlagVendor ELSE 0)
                      + (IF Dict[id].mBit THEN FlagMandatory ELSE 0)
             avp == [NewAvp EXCEPT !.id = id, !.flags = flags, !.data = read.data]
  <1>1. flags \in Octet
    BY FlagsTyped DEF Octet
  <1>2. id \in AvpIds
    BY DictTyped
  <1>3. Named(id, read) = IF read.ok THEN [ok |-> TRUE, avps |-> <<avp>>] ELSE Failure
    BY DEF Named
  <1>4. avp = [id |-> id, flags |-> flags, raw |-> FALSE, data |-> read.data]
    <2> DEFINE data == read.data
               new == NewAvp
               named == [new EXCEPT !.id = id]
               flagged == [named EXCEPT !.flags = flags]
    <2>1. /\ new = [id |-> new.id, flags |-> new.flags, raw |-> new.raw, data |-> new.data]
          /\ new.raw = FALSE
      BY DEF NewAvp
    <2>2. avp = [flagged EXCEPT !.data = data]
      OBVIOUS
    <2> HIDE DEF flags, data, new, avp
    <2>3. named = [id |-> id, flags |-> new.flags, raw |-> new.raw, data |-> new.data]
      BY <2>1
    <2> HIDE DEF named
    <2>4. flagged = [id |-> id, flags |-> flags, raw |-> new.raw, data |-> new.data]
      BY <2>3
    <2> HIDE DEF flagged
    <2>5. [flagged EXCEPT !.data = data]
             = [id |-> id, flags |-> flags, raw |-> new.raw, data |-> data]
      BY <2>4
    <2> QED BY <2>1, <2>2, <2>5 DEF data
  <1> HIDE DEF flags, avp
  <1>5. CASE read.ok
    <2>1. avp \in Nested[d]
      BY <1>1, <1>2, <1>4, <1>5, AvpFields
    <2> QED BY <1>3, <1>5, <2>1, OneRead
  <1>6. CASE ~read.ok
    <2>1. Failure \in ReadsOf(Nested[d])
      BY DEF Failure, ReadsOf
    <2> QED BY <1>3, <1>6, <2>1
  <1> QED BY <1>5, <1>6

\* FromJson, with what it is for other elements.
FromJsonWith(f, elem) ==
    AvpFromJson(elem.key, elem.value, Gathered(Each(f, Visited(elem.value.items))))

Elems(d) == ElemsOf(JsonNested[d])

LEMMA ElemsWithin ==
    ASSUME NEW d \in 0..MaxDepth, NEW elem \in Elems(d)
    PROVE  /\ elem.key \in Keys /\ elem.value \in JsonNested[d]
           /\ Visited(elem.value.items) \in Seq(ElemsOf(Below(JsonNested, d)))
  <1>1. elem.key \in Keys /\ elem.value \in JsonNested[d]
    BY DEF Elems, ElemsOf
  <1>2. elem.value.items \in Seq(EntriesOf(Below(JsonNested, d)))
    BY <1>1, JsonFields, WithinBelow
  <1> QED BY <1>1, <1>2, VisitedTyped

LEMMA FromJsonWithTyped ==
    ASSUME NEW d \in 0..MaxDepth, NEW elem \in Elems(d), NEW f,
           d # 0 => \A part \in Elems(d - 1) : f[part] \in ReadsOf(Nested[d - 1])
    PROVE  FromJsonWith(f, elem) \in ReadsOf(Nested[d])
  <1> DEFINE within == Visited(elem.value.items)
             kids == Gathered(Each(f, within))
             key == elem.key
             value == elem.value
  <1>1. key \in Keys /\ value \in JsonNested[d] /\ within \in Seq(ElemsOf(Below(JsonNested, d)))
    BY ElemsWithin
  <1>2. \A part \in ElemsOf(Below(JsonNested, d)) : f[part] \in ReadsOf(Below(Nested, d))
    BY DEF Below, Elems, ElemsOf
  <1>3. Each(f, within) \in Seq(ReadsOf(Below(Nested, d)))
    <2> DEFINE n == Len(within)
    <2> HIDE DEF within
    <2>1. n \in Nat /\ DOMAIN within = 1..n
          /\ \A i \in 1..n : within[i] \in ElemsOf(Below(JsonNested, d))
      BY <1>1
    <2> HIDE DEF n
    <2>2. Each(f, within) \in [1..n -> ReadsOf(Below(Nested, d))]
      BY <1>2, <2>1 DEF Each
    <2> QED BY <2>1, <2>2
  <1>4. kids \in ReadsOf(Below(Nested, d))
    <2> HIDE DEF within
    <2> QED BY <1>3, GatheredTyped
  <1>5. FromJsonWith(f, elem) = AvpFromJson(key, value, kids)
    BY DEF FromJsonWith
  <1> HIDE DEF within, kids, key, value
  <1>6. CASE Known(key)
    <2> DEFINE id == IdOf(key)
               read == DataFromJson(id, value, kids)
    <2>1. id \in DOMAIN Dict
      BY <1>6, DictAssumption DEF Known, IdOf
    <2> HIDE DEF id
    <2>2. read.ok => read.data \in DataWith(Within(d))
      BY <1>1, <1>4, <2>1, DataFromJsonTyped
    <2>3. AvpFromJson(key, value, kids) = Named(id, read)
      BY <1>6 DEF AvpFromJson, id
    <2> HIDE DEF read
    <2> QED BY <1>5, <2>1, <2>2, <2>3, NamedTyped
  <1>7. CASE ~Known(key)
    <2>1. AvpFromJson(key, value, kids) = RawFromJson(key, value)
      BY <1>7 DEF AvpFromJson
    <2> QED BY <1>1, <1>5, <2>1, RawFromJsonTyped
  <1> QED BY <1>6, <1>7

LEMMA FromJsonWithAlike ==
    ASSUME NEW d \in 0..MaxDepth, NEW elem \in Elems(d), NEW f, NEW g,
           d # 0 => \A part \in Elems(d - 1) : f[part] = g[part]
    PROVE  FromJsonWith(f, elem) = FromJsonWith(g, elem)
  <1> DEFINE within == Visited(elem.value.items)
  <1>1. within \in Seq(ElemsOf(Below(JsonNested, d)))
    BY ElemsWithin
  <1>2. \A part \in ElemsOf(Below(JsonNested, d)) : f[part] = g[part]
    BY DEF Below, Elems, ElemsOf
  <1> HIDE DEF within
  <1>3. \A i \in DOMAIN within : within[i] \in ElemsOf(Below(JsonNested, d))
    BY <1>1
  <1>4. Each(f, within) = Each(g, within)
    BY <1>2, <1>3 DEF Each
  <1> QED BY <1>4 DEF FromJsonWith, within

\* FromJson is what its definition says, and AVPs nested as deep as the value.
LEMMA FromJsonDefined ==
    /\ \A elem \in JsonElements :
        /\ FromJson[elem] = FromJsonWith(FromJson, elem)
        /\ FromJson[elem] \in ReadsOf(Avps)
    /\ \A d \in 0..MaxDepth : \A elem \in Elems(d) : FromJson[elem] \in ReadsOf(Nested[d])
  <1> DEFINE A == Elems(MaxDepth)
             R == [d \in 0..MaxDepth |-> ReadsOf(Nested[d])]
             F == {f \in [A -> ReadsOf(Avps)] :
                      \A d \in 0..MaxDepth : \A elem \in Elems(d) : f[elem] \in R[d]}
             layer == [d \in 0..MaxDepth |-> Elems(d)]
             Body(f) == [elem \in A |-> FromJsonWith(f, elem)]
             step == [f \in F |-> Body(f)]
  <1>1. MaxDepth \in Nat /\ Nested[MaxDepth] = Avps /\ MaxDepth \in 0..MaxDepth
    BY SizeAssumption DEF Avps
  <1>2. layer[MaxDepth] = A
    <2> HIDE DEF A
    <2> QED BY <1>1 DEF A
  <1>3. \A d \in 0..MaxDepth : layer[d] = Elems(d) /\ Elems(d) \subseteq A
    <2>1. \A V, W : V \subseteq W => ElemsOf(V) \subseteq ElemsOf(W)
      BY DEF ElemsOf
    <2>2. \A d \in 0..MaxDepth : JsonNested[d] \subseteq JsonNested[MaxDepth]
      BY JsonNestedWithinValues DEF JsonValues
    <2> QED BY <2>1, <2>2 DEF Elems
  <1>4. ASSUME NEW f \in F PROVE Body(f) \in F
    <2>1. ASSUME NEW d \in 0..MaxDepth, NEW elem \in Elems(d)
          PROVE  Body(f)[elem] \in R[d]
      <3>1. d # 0 => \A part \in Elems(d - 1) : f[part] \in ReadsOf(Nested[d - 1])
        <4> SUFFICES ASSUME d # 0, NEW part \in Elems(d - 1)
                     PROVE  f[part] \in ReadsOf(Nested[d - 1])
          OBVIOUS
        <4>1. d - 1 \in 0..MaxDepth
          BY <1>1
        <4>2. f[part] \in R[d - 1]
          <5> HIDE DEF R
          <5> QED BY <4>1
        <4> QED BY <4>1, <4>2
      <3>2. FromJsonWith(f, elem) \in ReadsOf(Nested[d])
        BY <3>1, FromJsonWithTyped
      <3>3. elem \in A
        BY <1>3
      <3> QED BY <3>2, <3>3
    <2>2. \A elem \in A : Body(f)[elem] \in ReadsOf(Avps)
      <3> HIDE DEF A, Body
      <3> QED BY <1>1, <1>2, <1>3, <2>1
    <2>3. Body(f) = [elem \in A |-> Body(f)[elem]]
      OBVIOUS
    <2>4. Body(f) \in [A -> ReadsOf(Avps)]
      <3> HIDE DEF Body, A
      <3> QED BY <2>2, <2>3
    <2> HIDE DEF Body, A, R
    <2> QED BY <2>1, <2>4
  <1>5. F # {}
    <2> DEFINE f == [elem \in A |-> Failure]
    <2>1. \A avps : Failure \in ReadsOf(avps)
      BY DEF Failure, ReadsOf
    <2>2. f \in [A -> ReadsOf(Avps)]
      BY <2>1
    <2>3. \A d \in 0..MaxDepth : \A elem \in Elems(d) : f[elem] \in R[d]
      BY <1>3, <2>1
    <2> HIDE DEF f, A, R
    <2> QED BY <2>2, <2>3
  <1>6. ASSUME NEW n \in 0..MaxDepth, NEW f, NEW g,
               n # 0 => \A part \in Elems(n - 1) : f[part] = g[part]
        PROVE  \A elem \in Elems(n) : FromJsonWith(f, elem) = FromJsonWith(g, elem)
    BY <1>6, FromJsonWithAlike
  <1>7. \A f \in F : \A elem \in A : step[f][elem] = FromJsonWith(f, elem)
    <2> HIDE DEF F, A
    <2> QED OBVIOUS
  <1>8. step \in [F -> F]
    <2> HIDE DEF Body, F
    <2> QED BY <1>4
  <1>9. IsRecursion(A, F, MaxDepth, layer, step)
    <2>1. \A f \in F : f = [a \in A |-> f[a]]
      OBVIOUS
    <2> HIDE DEF step, F, A
    <2>2. \A f, g \in F : \A elem \in layer[0] : step[f][elem] = step[g][elem]
      <3> TAKE f, g \in F
      <3>1. 0 \in 0..MaxDepth
        BY <1>1
      <3>2. \A elem \in Elems(0) : FromJsonWith(f, elem) = FromJsonWith(g, elem)
        BY <1>6, <3>1
      <3> QED BY <1>3, <1>7, <3>1, <3>2
    <2>3. \A n \in 1..MaxDepth : \A f, g \in F :
            (\A elem \in layer[n - 1] : f[elem] = g[elem])
                => \A elem \in layer[n] : step[f][elem] = step[g][elem]
      <3> TAKE n \in 1..MaxDepth
      <3> TAKE f, g \in F
      <3> HAVE \A elem \in layer[n - 1] : f[elem] = g[elem]
      <3>1. n \in 0..MaxDepth /\ n - 1 \in 0..MaxDepth
        BY <1>1
      <3> HIDE DEF layer
      <3>2. \A elem \in Elems(n) : FromJsonWith(f, elem) = FromJsonWith(g, elem)
        BY <1>3, <1>6, <3>1
      <3> QED BY <1>3, <1>7, <3>1, <3>2
    <2> HIDE DEF layer
    <2> QED BY <1>1, <1>2, <1>5, <1>8, <2>1, <2>2, <2>3 DEF IsRecursion
  <1>10. PICK h \in F : h = step[h]
    <2> HIDE DEF step, F, A, layer
    <2> QED BY <1>9, RecursionDefined
  <1>11. h = Body(h)
    <2> HIDE DEF Body, F
    <2> QED BY <1>10
  <1>12. FromJson = Body(FromJson)
    BY <1>11 DEF FromJson, FromJsonWith, Each, Elems, ElemsOf, JsonElements, JsonValues
  <1>13. FromJson = h
    <2> DEFINE f == FromJson
    <2>1. \A elem \in A : /\ f[elem] = FromJsonWith(f, elem)
                            /\ h[elem] = FromJsonWith(h, elem)
      <3> HIDE DEF A, F
      <3> QED BY <1>11, <1>12
    <2>2. f = [elem \in A |-> f[elem]] /\ h = [elem \in A |-> h[elem]]
      <3> HIDE DEF A, F
      <3> QED BY <1>11, <1>12
    <2> HIDE DEF A, f, F, Body
    <2>3. \A elem \in layer[0] : f[elem] = h[elem]
      <3>1. 0 \in 0..MaxDepth
        BY <1>1
      <3>2. \A elem \in Elems(0) : FromJsonWith(f, elem) = FromJsonWith(h, elem)
        BY <1>6, <3>1
      <3> QED BY <1>3, <2>1, <3>1, <3>2
    <2>4. \A n \in 1..MaxDepth :
            (\A elem \in layer[n - 1] : f[elem] = h[elem])
                => \A elem \in layer[n] : f[elem] = h[elem]
      <3> TAKE n \in 1..MaxDepth
      <3> HAVE \A elem \in layer[n - 1] : f[elem] = h[elem]
      <3>1. n \in 0..MaxDepth /\ n - 1 \in 0..MaxDepth
        BY <1>1
      <3> HIDE DEF layer
      <3>2. \A elem \in Elems(n) : FromJsonWith(f, elem) = FromJsonWith(h, elem)
        BY <1>3, <1>6, <3>1
      <3> QED BY <1>3, <2>1, <3>1, <3>2
    <2> HIDE DEF layer
    <2>5. AreResults(A, MaxDepth, layer, f, h)
      BY <1>1, <1>2, <2>2, <2>3, <2>4 DEF AreResults
    <2> QED BY <2>5, RecursionUnique DEF f
  <1>14. \A elem \in A : FromJson[elem] = FromJsonWith(FromJson, elem)
    <2> HIDE DEF A
    <2> QED BY <1>12
  <1>15. \A d \in 0..MaxDepth : \A elem \in Elems(d) : FromJson[elem] \in ReadsOf(Nested[d])
    BY <1>10, <1>13
  <1>16. \A elem \in A : FromJson[elem] \in ReadsOf(Avps)
    BY <1>10, <1>13
  <1>17. A = JsonElements
    BY DEF Elems, ElemsOf, JsonElements, JsonValues
  <1> HIDE DEF A
  <1> QED BY <1>14, <1>15, <1>16, <1>17

LEMMA FromItemsTyped ==
    ASSUME NEW items \in Seq(EntriesOf(JsonValues))
    PROVE  FromItems(items) \in ReadsOf(Avps)
  <1> DEFINE elems == Visited(items)
             E == JsonElements
  <1>1. elems \in Seq(E)
    <2>1. E = ElemsOf(JsonValues)
      BY DEF ElemsOf, JsonElements
    <2> QED BY <2>1, VisitedTyped
  <1>2. \A elem \in E : FromJson[elem] \in ReadsOf(Avps)
    BY FromJsonDefined
  <1>3. Each(FromJson, elems) \in Seq(ReadsOf(Avps))
    <2> DEFINE n == Len(elems)
    <2> HIDE DEF elems, E
    <2>1. n \in Nat /\ DOMAIN elems = 1..n /\ \A i \in 1..n : elems[i] \in E
      BY <1>1
    <2> HIDE DEF n
    <2>2. Each(FromJson, elems) \in [1..n -> ReadsOf(Avps)]
      BY <1>2, <2>1 DEF Each
    <2> QED BY <2>1, <2>2
  <1>4. FromItems(items) = Gathered(Each(FromJson, elems))
    BY DEF FromItems, Each
  <1> HIDE DEF elems, E
  <1> QED BY <1>3, <1>4, GatheredTyped

\* The loop of a message reads what it does not pass over.
LEMMA FromMessageTyped ==
    ASSUME NEW items \in Seq(EntriesOf(JsonValues))
    PROVE  FromMessage(items) \in ReadsOf(Avps)
  <1> DEFINE X == EntriesOf(JsonValues)
             n == Len(items)
             read == [i \in DOMAIN items |-> IF items[i].key = HeaderKey THEN Passed ELSE items[i]]
  <1>1. Passed \in X
    <2>1. HeaderKey \in Keys
      BY RankAssumption DEF HeaderKey, Keys
    <2>2. <<>> \in Seq(JsonValues)
      OBVIOUS
    <2> QED BY <2>1, <2>2 DEF Passed, EntriesOf
  <1> HIDE DEF X
  <1>2. n \in Nat /\ DOMAIN items = 1..n /\ \A i \in 1..n : items[i] \in X
    BY DEF X
  <1> HIDE DEF n
  <1>3. read \in [1..n -> X]
    BY <1>1, <1>2
  <1> HIDE DEF read
  <1>4. read \in Seq(X)
    BY <1>2, <1>3
  <1>5. FromMessage(items) = FromItems(read)
    BY DEF FromMessage, read
  <1> QED BY <1>4, <1>5, FromItemsTyped DEF X
----------------------------------------------------------------------------
(* Numbers and their octets                                                  *)

\* A number has one quotient and one remainder.
LEMMA Divided ==
    ASSUME NEW d \in Nat, d >= 1, NEW q \in Int, NEW r \in 0..(d - 1)
    PROVE  (d * q + r) \div d = q /\ (d * q + r) % d = r
  <1> DEFINE a == d * q + r
             k == a \div d
             s == a % d
  <1>1. a \in Int /\ d * q \in Int
    OBVIOUS
  <1>2. k \in Int /\ s \in 0..(d - 1) /\ a = d * k + s
    <2> HIDE DEF a
    <2> QED BY <1>1
  <1>3. d * q + r = d * k + s
    BY <1>2
  <1> HIDE DEF a, k, s
  <1>4. \A x, y \in Int : x >= y + 1 => d * x >= d * y + d
    <2> TAKE x, y \in Int
    <2> HAVE x >= y + 1
    <2>1. d * (x - y - 1) >= 0
      <3> DEFINE z == x - y - 1
      <3>1. z \in Nat
        OBVIOUS
      <3> HIDE DEF z
      <3>2. d * z >= 0
        BY <3>1
      <3> QED BY <3>2 DEF z
    <2>2. d * (x - y - 1) = d * x - d * y - d
      OBVIOUS
    <2>3. d * x \in Int /\ d * y \in Int
      OBVIOUS
    <2> QED BY <2>1, <2>2, <2>3
  <1>5. q = k
    <2>1. d * q \in Int /\ d * k \in Int
      BY <1>2
    <2>2. CASE q >= k + 1
      <3>1. d * q >= d * k + d
        BY <1>2, <1>4, <2>2
      <3> QED BY <1>2, <1>3, <2>1, <3>1
    <2>3. CASE k >= q + 1
      <3>1. d * k >= d * q + d
        BY <1>2, <1>4, <2>3
      <3> QED BY <1>2, <1>3, <2>1, <3>1
    <2> QED BY <1>2, <2>2, <2>3
  <1>6. r = s
    BY <1>1, <1>2, <1>3, <1>5
  <1> QED BY <1>5, <1>6 DEF a, k, s

\* Divided by a number and by another, as by both at once.
LEMMA DividedTwice ==
    ASSUME NEW u \in Nat, NEW b \in Nat, b >= 1, NEW w \in Nat, w >= 1
    PROVE  u \div (b * w) = (u \div w) \div b
  <1> DEFINE q == u \div w
             r == u % w
             p == q \div b
             s == q % b
             x == w * s + r
  <1>1. q \in Nat /\ r \in 0..(w - 1) /\ u = w * q + r
    OBVIOUS
  <1> HIDE DEF q, r
  <1>2. p \in Nat /\ s \in 0..(b - 1) /\ q = b * p + s
    BY <1>1
  <1> HIDE DEF p, s
  <1>3. w * q = (b * w) * p + w * s
    <2>1. w * (b * p + s) = w * (b * p) + w * s
      BY <1>2
    <2>2. w * (b * p) = (b * w) * p
      BY <1>2
    <2> QED BY <1>2, <2>1, <2>2
  <1>4. b * w \in Nat /\ b * w >= 1
    <2>1. b * w \in Nat
      OBVIOUS
    <2>2. b * w # 0
      OBVIOUS
    <2> QED BY <2>1, <2>2
  <1>5. w * s \in Nat /\ w * s <= w * b - w
    <2>1. w * (b - 1 - s) >= 0
      <3> DEFINE z == b - 1 - s
      <3>1. z \in Nat
        BY <1>2
      <3> HIDE DEF z
      <3>2. w * z >= 0
        BY <3>1
      <3> QED BY <3>2 DEF z
    <2>2. w * (b - 1 - s) = w * b - w - w * s
      BY <1>2
    <2>3. w * s \in Nat /\ w * b \in Nat
      BY <1>2
    <2> QED BY <2>1, <2>2, <2>3
  <1>6. x \in 0..(b * w - 1)
    <2>1. w * b = b * w
      OBVIOUS
    <2> QED BY <1>1, <1>4, <1>5, <2>1
  <1>7. u = (b * w) * p + x
    <2> DEFINE y == (b * w) * p
               z == w * s
    <2>1. y \in Nat
      BY <1>2, <1>4
    <2>2. w * q = y + z /\ x = z + r /\ z \in Nat /\ u = w * q + r
      BY <1>1, <1>3, <1>5
    <2> HIDE DEF y, z
    <2>3. u = y + x
      BY <1>1, <2>1, <2>2
    <2> QED BY <2>3 DEF y
  <1> HIDE DEF x
  <1>8. u \div (b * w) = p
    <2> DEFINE d == b * w
    <2>1. d \in Nat /\ d >= 1 /\ x \in 0..(d - 1) /\ u = d * p + x
      BY <1>4, <1>6, <1>7
    <2> HIDE DEF d
    <2>2. (d * p + x) \div d = p
      BY <1>2, <2>1, Divided
    <2> QED BY <2>1, <2>2 DEF d
  <1> QED BY <1>8 DEF p, q

\* The octets of a number are the number.
LEMMA NumberOfOctets ==
    ASSUME NEW v \in Int, NEW n \in 0..8
    PROVE  Number(Octets(v, n)) = Unsigned(v, n)
  <1> DEFINE u == Unsigned(v, n)
             octets == Octets(v, n)
  <1>1. octets \in Seq(Octet) /\ Len(octets) = n
    BY OctetsTyped
  <1>2. u \in Nat /\ u < Values[n] /\ Values[n] \in Nat
    <2>1. u \in 0..(Values[n] - 1) /\ Values[n] \in Nat
      BY UnsignedInRange, ValuesKnown
    <2> HIDE DEF u
    <2> QED BY <2>1
  <1>3. \A i \in 1..n : octets[i] = (u \div Values[n - i]) % Base
    BY DEF Octets
  <1> HIDE DEF u, octets
  <1>4. PICK acc \in [0..Len(octets) -> Nat] :
          /\ acc[0] = 0 /\ \A i \in 1..Len(octets) : acc[i] = acc[i - 1] * Base + octets[i]
          /\ Number(octets) = acc[Len(octets)]
    BY <1>1, NumberLoop
  <1>5. /\ acc[0] = 0 /\ \A i \in 1..n : acc[i] = acc[i - 1] * Base + octets[i]
        /\ Number(octets) = acc[n] /\ n \in Nat
    BY <1>1, <1>4
  <1> DEFINE T == {i \in 0..n : acc[i] = u \div Values[n - i]}
  <1>6. 0 \in T
    <2>1. \A m \in Nat : \A k \in Nat : k < m => k \div m = 0
      <3> TAKE m \in Nat
      <3> TAKE k \in Nat
      <3> HAVE k < m
      <3>1. (m * 0 + k) \div m = 0
        BY Divided
      <3>2. m * 0 + k = k
        OBVIOUS
      <3> QED BY <3>1, <3>2
    <2>2. u \div Values[n] = 0
      BY <1>2, <2>1
    <2> QED BY <1>5, <2>2
  <1>7. ASSUME NEW i \in 1..n, i - 1 \in T PROVE i \in T
    <2> DEFINE w == Values[n - i]
               q == u \div w
    <2>1. w \in Nat /\ w >= 1 /\ Base \in Nat /\ Base >= 4
      <3>1. n - i \in 0..8
        OBVIOUS
      <3> QED BY <3>1, ValuesKnown
    <2>2. Values[n - (i - 1)] = Base * w
      <3>1. n - (i - 1) \in 1..8 /\ n - (i - 1) - 1 = n - i
        OBVIOUS
      <3> QED BY <3>1, ValuesDefined
    <2>3. acc[i - 1] = u \div (Base * w)
      BY <1>7, <2>2
    <2>4. acc[i] = acc[i - 1] * Base + (q % Base)
      BY <1>3, <1>5
    <2> HIDE DEF w
    <2>5. u \div (Base * w) = q \div Base
      <3>1. u \in Nat /\ Base >= 1
        BY <1>2, <2>1
      <3> HIDE DEF T
      <3>2. u \div (Base * w) = (u \div w) \div Base
        BY ONLY <2>1, <3>1, DividedTwice
      <3> QED BY <3>2
    <2>6. q \in Nat
      BY <1>2, <2>1
    <2> HIDE DEF q
    <2>7. (q \div Base) * Base + (q % Base) = q
      BY <2>1, <2>6
    <2>8. acc[i] = q
      BY <2>3, <2>4, <2>5, <2>7
    <2> QED BY <2>8 DEF q, w
  <1>8. n \in T
    <2> HIDE DEF T
    <2>1. 0..n \subseteq T
      BY <1>5, <1>6, <1>7, TurnInduction
    <2> QED BY <1>5, <2>1
  <1>9. acc[n] = u
    <2>1. n - n = 0 /\ Values[0] = 1
      BY ValuesDefined
    <2>2. u \div 1 = u
      BY <1>2
    <2> QED BY <1>8, <2>1, <2>2
  <1> QED BY <1>5, <1>9 DEF u, octets

\* The casts between signed and unsigned numbers of n octets keep the number.
LEMMA CastBack ==
    ASSUME NEW n \in 0..8
    PROVE  /\ \A v \in UnsignedOf(n) : v \in Int /\ Unsigned(v, n) = v
           /\ \A v \in SignedOf(n) : v \in Int /\ Signed(Unsigned(v, n), n) = v
  <1> DEFINE V == Values[n]
  <1>1. V \in Nat /\ V >= 1
    BY ValuesKnown
  <1>2. ASSUME NEW v \in UnsignedOf(n) PROVE v \in Int /\ Unsigned(v, n) = v
    <2>1. v \in 0..(V - 1)
      BY DEF UnsignedOf
    <2> HIDE DEF V
    <2>2. (V * 0 + v) % V = v
      BY <1>1, <2>1, Divided
    <2>3. V * 0 + v = v
      BY <1>1, <2>1
    <2> QED BY <1>1, <2>1, <2>2, <2>3 DEF Unsigned, V
  <1>3. ASSUME NEW v \in SignedOf(n) PROVE v \in Int /\ Signed(Unsigned(v, n), n) = v
    <2>1. v \in Int /\ -V <= 2 * v /\ 2 * v < V
      BY DEF SignedOf
    <2>2. Unsigned(v, n) = v % V
      BY DEF Unsigned
    <2> HIDE DEF V
    <2>3. v % V = IF v >= 0 THEN v ELSE v + V
      <3>1. CASE v >= 0
        <4>1. v \in 0..(V - 1)
          BY <1>1, <2>1, <3>1
        <4>2. (V * 0 + v) % V = v
          BY <1>1, <4>1, Divided
        <4>3. V * 0 + v = v
          BY <1>1, <2>1
        <4> QED BY <3>1, <4>2, <4>3
      <3>2. CASE v < 0
        <4>1. v + V \in 0..(V - 1) /\ -1 \in Int
          BY <1>1, <2>1, <3>2
        <4> DEFINE w == v + V
        <4>2. w \in 0..(V - 1)
          BY <4>1
        <4> HIDE DEF w
        <4>3. (V * (-1) + w) % V = w
          BY <1>1, <4>2, Divided
        <4>4. V * (-1) + w = v
          BY <1>1, <2>1 DEF w
        <4>5. v % V = w /\ ~(v >= 0)
          BY <2>1, <3>2, <4>3, <4>4
        <4> QED BY <4>5 DEF w
      <3> QED BY <2>1, <3>1, <3>2
    <2> DEFINE u == v % V
    <2>4. u \in 0..(V - 1)
      BY <1>1, <2>1
    <2>5. u % V = u
      <3> HIDE DEF u
      <3>1. (V * 0 + u) % V = u
        BY <1>1, <2>4, Divided
      <3> QED BY <1>1, <2>4, <3>1
    <2>6. Signed(Unsigned(v, n), n) = IF 2 * u >= V THEN u - V ELSE u
      BY <2>2, <2>5 DEF Signed, Unsigned, V
    <2> QED BY <1>1, <2>1, <2>3, <2>6
  <1> QED BY <1>2, <1>3

----------------------------------------------------------------------------
(* The pieces of a sequence                                                  *)

\* A part of a sequence, behind its first k elements.
At(s, k, part) ==
    k \in Nat /\ k + Len(part) <= Len(s) /\ \A i \in 1..Len(part) : s[k + i] = part[i]

LEMMA PartAt ==
    ASSUME NEW S, NEW s \in Seq(S), NEW part \in Seq(S), NEW k, At(s, k, part)
    PROVE  SubSeq(s, k + 1, k + Len(part)) = part
  <1> DEFINE n == Len(part)
             sub == SubSeq(s, k + 1, k + n)
  <1>1. n \in Nat /\ k \in Nat /\ Len(s) \in Nat /\ k + n <= Len(s)
    BY DEF At
  <1>2. \A i \in 1..n : s[k + i] = part[i]
    BY DEF At
  <1> HIDE DEF n
  <1>3. \A i \in (k + 1)..(k + n) : s[i] \in S
    <2> TAKE i \in (k + 1)..(k + n)
    <2>1. i \in 1..Len(s)
      BY <1>1
    <2> QED BY <2>1
  <1>4. k + 1 \in Int /\ k + n \in Int /\ (k + n) - (k + 1) + 1 = n
    BY <1>1
  <1>5. /\ sub \in Seq(S) /\ Len(sub) = IF k + 1 <= k + n THEN (k + n) - (k + 1) + 1 ELSE 0
        /\ \A i \in 1..((k + n) - (k + 1) + 1) : sub[i] = s[(k + 1) + i - 1]
    BY <1>3, <1>4, SubSeqProperties
  <1> HIDE DEF sub
  <1>6. Len(sub) = n
    BY <1>1, <1>4, <1>5
  <1>7. \A i \in 1..n : sub[i] = part[i]
    <2> TAKE i \in 1..n
    <2>1. (k + 1) + i - 1 = k + i
      BY <1>1
    <2> QED BY <1>2, <1>4, <1>5, <2>1
  <1>8. part \in Seq(S) /\ Len(part) = n
    BY DEF n
  <1>9. \A a, b \in Seq(S) :
          Len(a) = Len(b) /\ (\A i \in 1..Len(a) : a[i] = b[i]) => a = b
    OBVIOUS
  <1>10. sub \in Seq(S)
    BY <1>5
  <1>11. sub = part
    BY <1>6, <1>7, <1>8, <1>9, <1>10
  <1> QED BY <1>11 DEF sub, n

\* What is appended is behind what there was, whose parts stay.
LEMMA Grown ==
    ASSUME NEW S, NEW s \in Seq(S), NEW t \in Seq(S)
    PROVE  /\ s \o t \in Seq(S) /\ Len(s \o t) = Len(s) + Len(t)
           /\ At(s \o t, Len(s), t)
           /\ \A part \in Seq(S) : \A k : At(s, k, part) => At(s \o t, k, part)
  <1>1. /\ s \o t \in Seq(S) /\ Len(s \o t) = Len(s) + Len(t)
        /\ \A i \in 1..(Len(s) + Len(t)) :
             (s \o t)[i] = IF i <= Len(s) THEN s[i] ELSE t[i - Len(s)]
    BY ConcatProperties
  <1>2. Len(s) \in Nat /\ Len(t) \in Nat
    OBVIOUS
  <1> DEFINE m == Len(s)
             n == Len(t)
             all == s \o t
  <1>3. /\ Len(all) = m + n /\ m \in Nat /\ n \in Nat
        /\ \A i \in 1..(m + n) : all[i] = IF i <= m THEN s[i] ELSE t[i - m]
    BY <1>1, <1>2
  <1> HIDE DEF all, m, n
  <1>4. At(all, m, t)
    <2>1. \A i \in 1..n : all[m + i] = t[i]
      <3> TAKE i \in 1..n
      <3>1. m + i \in 1..(m + n) /\ ~(m + i <= m) /\ (m + i) - m = i
        BY <1>3
      <3> QED BY <1>3, <3>1
    <2> QED BY <1>3, <2>1 DEF At, n
  <1>5. ASSUME NEW part \in Seq(S), NEW k, At(s, k, part) PROVE At(all, k, part)
    <2> DEFINE l == Len(part)
    <2>1. k \in Nat /\ l \in Nat /\ k + l <= m /\ \A i \in 1..l : s[k + i] = part[i]
      BY <1>5 DEF At, m
    <2> HIDE DEF l
    <2>2. \A i \in 1..l : all[k + i] = part[i]
      <3> TAKE i \in 1..l
      <3>1. k + i \in 1..(m + n) /\ k + i <= m
        BY <1>3, <2>1
      <3> QED BY <1>3, <2>1, <3>1
    <2>3. k + l <= Len(all)
      BY <1>3, <2>1
    <2> QED BY <2>1, <2>2, <2>3 DEF At, l
  <1> QED BY <1>1, <1>4, <1>5 DEF all, m

\* An AVP that the wire has room for, and no raw one.
IsFaithful(avp) ==
    ~avp.raw /\ (avp.id[2] # 0 => HasVendorBit(avp.flags))

\* What is framed is found again.
LEMMA FramedParts ==
    ASSUME NEW avp \in Avps, IsFaithful(avp), NEW data \in Seq(Octet), NEW rest \in Seq(Octet),
           HeaderLen(avp) + Len(data) < Values[3]
    PROVE  LET octets == Framed(avp, data) \o rest IN
           /\ octets \in Seq(Octet) /\ Fits(octets)
           /\ octets[5] = avp.flags /\ IdIn(octets) = avp.id
           /\ DataIn(octets) = data /\ Behind(octets) = rest
  <1> DEFINE vendor == IF HasVendorBit(avp.flags) THEN Octets(avp.id[2], 4) ELSE <<>>
             length == 8 + Len(vendor) + Len(data)
             padding == [i \in 1..(Padded(length) - length) |-> 0]
             code == Octets(avp.id[1], 4)
             size == Octets(length, 3)
             flags == <<avp.flags>>
  <1>1. /\ avp.id[1] \in SignedNumbers /\ avp.id[2] \in SignedNumbers
        /\ avp.id = <<avp.id[1], avp.id[2]>> /\ avp.flags \in Octet
        /\ avp.id[1] \in Int /\ avp.id[2] \in Int
    <2>1. avp.id \in AvpIds /\ avp.flags \in Octet /\ avp.id[1] \in Int /\ avp.id[2] \in Int
      BY AvpTyped
    <2> QED BY <2>1 DEF AvpIds
  <1>2. ASSUME NEW v \in Int
        PROVE  /\ Octets(v, 4) \in Seq(Octet) /\ Len(Octets(v, 4)) = 4
               /\ Octets(v, 3) \in Seq(Octet) /\ Len(Octets(v, 3)) = 3
               /\ Number(Octets(v, 4)) = Unsigned(v, 4)
               /\ Number(Octets(v, 3)) = Unsigned(v, 3)
    <2>1. 4 \in 0..8 /\ 3 \in 0..8
      OBVIOUS
    <2> QED BY <2>1, OctetsTyped, NumberOfOctets
  <1>3. vendor \in Seq(Octet) /\ Len(vendor) = IF HasVendorBit(avp.flags) THEN 4 ELSE 0
    <2>1. <<>> \in Seq(Octet) /\ Len(<<>>) = 0
      OBVIOUS
    <2>2. CASE HasVendorBit(avp.flags)
      BY <1>1, <1>2, <2>2
    <2>3. CASE ~HasVendorBit(avp.flags)
      BY <2>1, <2>3
    <2> QED BY <2>2, <2>3
  <1>4. Len(data) \in Nat /\ length \in Nat /\ length = HeaderLen(avp) + Len(data)
    <2>1. Len(data) \in Nat
      OBVIOUS
    <2> HIDE DEF vendor
    <2> QED BY <1>3, <2>1 DEF HeaderLen
  <1>5. code \in Seq(Octet) /\ Len(code) = 4 /\ Signed(Number(code), 4) = avp.id[1]
    <2>1. 4 \in 0..8
      OBVIOUS
    <2>2. Signed(Unsigned(avp.id[1], 4), 4) = avp.id[1]
      BY <1>1, <2>1, CastBack DEF SignedNumbers
    <2> QED BY <1>1, <1>2, <2>2
  <1>6. size \in Seq(Octet) /\ Len(size) = 3 /\ Number(size) = length
    <2>1. 3 \in 0..8 /\ Values[3] \in Nat
      BY ValuesKnown
    <2>2. length < Values[3]
      BY <1>4
    <2> HIDE DEF length
    <2>3. length \in UnsignedOf(3)
      BY <1>4, <2>1, <2>2 DEF UnsignedOf
    <2>4. Unsigned(length, 3) = length
      BY <2>1, <2>3, CastBack
    <2> QED BY <1>2, <1>4, <2>4
  <1>7. length = 8 + Len(vendor) + Len(data)
    OBVIOUS
  <1> HIDE DEF length
  <1>8. padding \in Seq(Octet) /\ Len(padding) = Padded(length) - length
    <2> DEFINE n == Padded(length) - length
    <2>1. n \in Nat
      <3>1. Padded(length) \in Nat /\ length <= Padded(length) /\ length \in Nat
        BY <1>4, PaddedUp
      <3> QED BY <3>1
    <2>2. 0 \in Octet
      BY SizeAssumption DEF Octet
    <2> HIDE DEF n
    <2>3. [i \in 1..n |-> 0] \in [1..n -> Octet]
      BY <2>2
    <2>4. Len([i \in 1..n |-> 0]) = n
      BY <2>1
    <2> QED BY <2>1, <2>3, <2>4 DEF n
  <1>9. HasVendorBit(avp.flags) => Signed(Number(vendor), 4) = avp.id[2]
    <2>1. 4 \in 0..8
      OBVIOUS
    <2>2. Signed(Unsigned(avp.id[2], 4), 4) = avp.id[2]
      BY <1>1, <2>1, CastBack DEF SignedNumbers
    <2> QED BY <1>1, <1>2, <2>2
  <1>10. Framed(avp, data) = code \o flags \o size \o vendor \o data \o padding
    BY DEF Framed, length
  <1>11. flags \in Seq(Octet) /\ Len(flags) = 1 /\ flags[1] = avp.flags
    BY <1>1
  <1> HIDE DEF code, size, vendor, padding, flags
  <1> DEFINE s1 == code \o flags
             s2 == s1 \o size
             s3 == s2 \o vendor
             s4 == s3 \o data
             s5 == s4 \o padding
             octets == s5 \o rest
  <1>12. Framed(avp, data) \o rest = octets
    BY <1>10
  <1>13. At(code, 0, code)
    <2>1. 0 \in Nat /\ \A i \in 1..4 : 0 + i = i
      OBVIOUS
    <2> QED BY <1>5, <2>1 DEF At
  <1>14. s1 \in Seq(Octet) /\ Len(s1) = 5 /\ At(s1, 0, code) /\ At(s1, 4, flags)
    <2>1. /\ s1 \in Seq(Octet) /\ Len(s1) = Len(code) + Len(flags) /\ At(s1, Len(code), flags)
          /\ \A part \in Seq(Octet) : \A k : At(code, k, part) => At(s1, k, part)
      BY <1>5, <1>11, Grown
    <2> HIDE DEF s1
    <2> QED BY <1>5, <1>11, <1>13, <2>1
  <1> HIDE DEF s1
  <1>15. /\ s2 \in Seq(Octet) /\ Len(s2) = 8
         /\ At(s2, 0, code) /\ At(s2, 4, flags) /\ At(s2, 5, size)
    <2>1. /\ s2 \in Seq(Octet) /\ Len(s2) = Len(s1) + Len(size) /\ At(s2, Len(s1), size)
          /\ \A part \in Seq(Octet) : \A k : At(s1, k, part) => At(s2, k, part)
      BY <1>14, <1>6, Grown
    <2> HIDE DEF s2
    <2> QED BY <1>5, <1>6, <1>11, <1>14, <2>1
  <1> HIDE DEF s2
  <1>16. /\ s3 \in Seq(Octet) /\ Len(s3) = 8 + Len(vendor)
         /\ At(s3, 0, code) /\ At(s3, 4, flags) /\ At(s3, 5, size) /\ At(s3, 8, vendor)
    <2>1. /\ s3 \in Seq(Octet) /\ Len(s3) = Len(s2) + Len(vendor) /\ At(s3, Len(s2), vendor)
          /\ \A part \in Seq(Octet) : \A k : At(s2, k, part) => At(s3, k, part)
      BY <1>15, <1>3, Grown
    <2> HIDE DEF s3
    <2> QED BY <1>5, <1>6, <1>11, <1>15, <2>1
  <1> HIDE DEF s3
  <1> DEFINE h == 8 + Len(vendor)
  <1>17. h = HeaderLen(avp) /\ h \in {8, 12}
    BY <1>3 DEF HeaderLen
  <1>18. /\ s4 \in Seq(Octet) /\ Len(s4) = length
         /\ At(s4, 0, code) /\ At(s4, 4, flags) /\ At(s4, 5, size) /\ At(s4, 8, vendor)
         /\ At(s4, h, data)
    <2>1. /\ s4 \in Seq(Octet) /\ Len(s4) = Len(s3) + Len(data) /\ At(s4, Len(s3), data)
          /\ \A part \in Seq(Octet) : \A k : At(s3, k, part) => At(s4, k, part)
      BY <1>16, Grown
    <2> HIDE DEF s4
    <2> QED BY <1>3, <1>5, <1>6, <1>7, <1>11, <1>16, <2>1
  <1> HIDE DEF s4
  <1>19. /\ s5 \in Seq(Octet) /\ Len(s5) = Padded(length)
         /\ At(s5, 0, code) /\ At(s5, 4, flags) /\ At(s5, 5, size) /\ At(s5, 8, vendor)
         /\ At(s5, h, data)
    <2>1. /\ s5 \in Seq(Octet) /\ Len(s5) = Len(s4) + Len(padding)
          /\ \A part \in Seq(Octet) : \A k : At(s4, k, part) => At(s5, k, part)
      BY <1>18, <1>8, Grown
    <2>2. Padded(length) \in Nat
      BY <1>4, PaddedUp
    <2>3. Len(s5) = Padded(length)
      BY <1>4, <1>8, <1>18, <2>1, <2>2
    <2> HIDE DEF s5, h
    <2> QED BY <1>3, <1>5, <1>6, <1>11, <1>18, <2>1, <2>3
  <1> HIDE DEF s5
  <1>20. /\ octets \in Seq(Octet) /\ Len(octets) = Padded(length) + Len(rest)
         /\ At(octets, 0, code) /\ At(octets, 4, flags) /\ At(octets, 5, size)
         /\ At(octets, 8, vendor) /\ At(octets, h, data) /\ At(octets, Padded(length), rest)
    <2>1. /\ octets \in Seq(Octet) /\ Len(octets) = Len(s5) + Len(rest)
          /\ At(octets, Len(s5), rest)
          /\ \A part \in Seq(Octet) : \A k : At(s5, k, part) => At(octets, k, part)
      BY <1>19, Grown
    <2> HIDE DEF octets, h
    <2> QED BY <1>3, <1>5, <1>6, <1>11, <1>19, <2>1
  <1> HIDE DEF octets, h
  <1>21. octets[5] = avp.flags
    BY <1>11, <1>20 DEF At
  <1>22. LengthIn(octets) = length
    <2>1. SubSeq(octets, 5 + 1, 5 + Len(size)) = size
      BY <1>6, <1>20, PartAt
    <2>2. SubSeq(octets, 6, 8) = size
      BY <1>6, <2>1
    <2> QED BY <1>6, <2>2 DEF LengthIn
  <1>23. HeaderLenIn(octets) = h
    BY <1>17, <1>21 DEF HeaderLen, HeaderLenIn
  <1>24. IdIn(octets) = avp.id
    <2>1. SubSeq(octets, 0 + 1, 0 + Len(code)) = code
      BY <1>5, <1>20, PartAt
    <2>2. SubSeq(octets, 1, 4) = code
      BY <1>5, <2>1
    <2>3. CASE HasVendorBit(avp.flags)
      <3>1. SubSeq(octets, 8 + 1, 8 + Len(vendor)) = vendor
        BY <1>3, <1>20, PartAt
      <3>2. SubSeq(octets, 9, 12) = vendor
        BY <1>3, <2>3, <3>1
      <3> QED BY <1>1, <1>5, <1>9, <1>21, <2>2, <2>3, <3>2 DEF IdIn
    <2>4. CASE ~HasVendorBit(avp.flags)
      <3>1. avp.id[2] = 0
        BY <2>4 DEF IsFaithful
      <3> QED BY <1>1, <1>5, <1>21, <2>2, <2>4, <3>1 DEF IdIn
    <2> QED BY <2>3, <2>4
  <1>25. DataIn(octets) = data
    <2>1. SubSeq(octets, h + 1, h + Len(data)) = data
      BY <1>20, PartAt
    <2>2. h + Len(data) = length
      BY <1>4, <1>17
    <2> QED BY <1>22, <1>23, <2>1, <2>2 DEF DataIn
  <1>26. Behind(octets) = rest
    <2>1. SubSeq(octets, Padded(length) + 1, Padded(length) + Len(rest)) = rest
      BY <1>20, PartAt
    <2> QED BY <1>20, <1>22, <2>1 DEF Behind
  <1>27. Fits(octets)
    <2>1. Padded(length) \in Nat /\ length <= Padded(length)
      BY <1>4, PaddedUp
    <2>2. Len(rest) \in Nat
      OBVIOUS
    <2> QED BY <1>4, <1>17, <1>20, <1>22, <1>23, <2>1, <2>2 DEF Fits
  <1> QED BY <1>12, <1>20, <1>21, <1>24, <1>25, <1>26, <1>27

----------------------------------------------------------------------------
(* What is joined, and the values of the types                               *)

\* What is joined begins with the first part, and the others are behind it.
LEMMA JoinedHead ==
    ASSUME NEW S, NEW parts \in Seq(Seq(S)), parts # <<>>
    PROVE  Joined(parts) = parts[1] \o Joined(Tail(parts))
  <1> DEFINE n == Len(parts)
             tail == Tail(parts)
  <1>1. /\ tail \in Seq(Seq(S)) /\ Len(tail) = n - 1 /\ n \in Nat /\ n >= 1
        /\ \A i \in 1..(n - 1) : tail[i] = parts[i + 1]
        /\ \A i \in 1..n : parts[i] \in Seq(S)
    BY HeadTailProperties
  <1>2. PICK joined : /\ joined \in [0..n -> Seq(S)] /\ joined[0] = <<>>
                      /\ \A i \in 1..n : joined[i] = joined[i - 1] \o parts[i]
                      /\ Joined(parts) = joined[n]
    BY JoinedLoop
  <1> HIDE DEF tail
  <1>3. PICK rest : /\ rest \in [0..Len(tail) -> Seq(S)] /\ rest[0] = <<>>
                    /\ \A i \in 1..Len(tail) : rest[i] = rest[i - 1] \o tail[i]
                    /\ Joined(tail) = rest[Len(tail)]
    BY <1>1, JoinedLoop
  <1> HIDE DEF n
  <1> DEFINE T == {i \in 0..(n - 1) : joined[i + 1] = parts[1] \o rest[i]}
  <1>4. 0 \in T
    <2>1. joined[1] = joined[0] \o parts[1] /\ parts[1] \in Seq(S)
      <3>1. 1 \in 1..n /\ 1 - 1 = 0
        BY <1>1
      <3> QED BY <1>1, <1>2, <3>1
    <2>2. <<>> \o parts[1] = parts[1] /\ parts[1] \o <<>> = parts[1]
      BY <2>1, ConcatEmptySeq
    <2>3. 0 \in 0..(n - 1) /\ 0 + 1 = 1
      BY <1>1
    <2> QED BY <1>2, <1>3, <2>1, <2>2, <2>3
  <1>5. ASSUME NEW i \in 1..(n - 1), i - 1 \in T PROVE i \in T
    <2>1. joined[(i - 1) + 1] = parts[1] \o rest[i - 1]
      BY <1>5
    <2>2. joined[i + 1] = joined[i] \o parts[i + 1]
      <3>1. i + 1 \in 1..n /\ (i + 1) - 1 = i
        BY <1>1
      <3> QED BY <1>2, <3>1
    <2>3. rest[i] = rest[i - 1] \o tail[i] /\ rest[i - 1] \in Seq(S) /\ tail[i] = parts[i + 1]
      <3>1. i \in 1..Len(tail) /\ i - 1 \in 0..Len(tail)
        BY <1>1
      <3> QED BY <1>1, <1>3, <3>1
    <2>4. parts[1] \in Seq(S) /\ parts[i + 1] \in Seq(S)
      <3>1. 1 \in 1..n /\ i + 1 \in 1..n
        BY <1>1
      <3> QED BY <1>1, <3>1
    <2>5. \A a, b, c \in Seq(S) : (a \o b) \o c = a \o (b \o c)
      OBVIOUS
    <2>6. (i - 1) + 1 = i /\ i \in 0..(n - 1)
      BY <1>1
    <2>7. (parts[1] \o rest[i - 1]) \o parts[i + 1] = parts[1] \o (rest[i - 1] \o parts[i + 1])
      BY <2>3, <2>4, <2>5
    <2>8. joined[i + 1] = parts[1] \o rest[i]
      BY <2>1, <2>2, <2>3, <2>6, <2>7
    <2> QED BY <2>6, <2>8
  <1>6. n - 1 \in T
    <2> HIDE DEF T
    <2>1. n - 1 \in Nat
      BY <1>1
    <2>2. 0..(n - 1) \subseteq T
      BY <1>4, <1>5, <2>1, TurnInduction
    <2> QED BY <2>1, <2>2
  <1>7. joined[n] = parts[1] \o rest[n - 1]
    <2>1. (n - 1) + 1 = n
      BY <1>1
    <2> QED BY <1>6, <2>1
  <1> QED BY <1>1, <1>2, <1>3, <1>7 DEF tail

\* A value of a type, from its octets.
LEMMA ValueBack ==
    ASSUME NEW type, IsNumber(type), NEW v \in NumbersOf[Kind[type]]
    PROVE  /\ v \in Int /\ Len(Octets(v, Width[type])) = Width[type]
           /\ AsTyped(Number(Octets(v, Width[type])), type) = v
  <1>1. type \in {"Integer32", "Enumerated", "Integer64", "Unsigned32", "Time", "Unsigned64"}
    BY DEF IsNumber, Width
  <1>2. /\ AsTyped(Number(Octets(v, Width[type])), type)
            = IF IsSigned(type) THEN Signed(Number(Octets(v, Width[type])), Width[type])
                                ELSE Unsigned(Number(Octets(v, Width[type])), Width[type])
        /\ Width[type] \in 0..8 /\ Kind[type] \in DOMAIN NumbersOf
    BY <1>1, WidthKnown, AsTypedHeld DEF AsTyped
  <1>3. v \in Int
    BY <1>2, NumbersKnown
  <1>4. /\ Number(Octets(v, Width[type])) = Unsigned(v, Width[type])
        /\ Len(Octets(v, Width[type])) = Width[type]
    BY <1>2, <1>3, NumberOfOctets, OctetsTyped
  <1>5. CASE IsSigned(type)
    <2>1. v \in SignedOf(Width[type])
      <3>1. CASE type \in {"Integer32", "Enumerated"}
        BY <3>1, NumbersKnown DEF Kind, Width
      <3>2. CASE type = "Integer64"
        BY <3>2, NumbersKnown DEF Kind, Width
      <3> QED BY <1>5, <3>1, <3>2 DEF IsSigned
    <2>2. Signed(Unsigned(v, Width[type]), Width[type]) = v
      BY <1>2, <2>1, CastBack
    <2> QED BY <1>2, <1>3, <1>4, <1>5, <2>2
  <1>6. CASE ~IsSigned(type)
    <2>1. v \in UnsignedOf(Width[type])
      <3>1. CASE type \in {"Unsigned32", "Time"}
        BY <3>1, NumbersKnown DEF Kind, Width
      <3>2. CASE type = "Unsigned64"
        BY <3>2, NumbersKnown DEF Kind, Width
      <3> QED BY <1>1, <1>6, <3>1, <3>2 DEF IsSigned
    <2>2. Unsigned(v, Width[type]) = v
      BY <1>2, <2>1, CastBack
    <2>3. Unsigned(Unsigned(v, Width[type]), Width[type]) = v
      BY <2>2
    <2> QED BY <1>2, <1>3, <1>4, <1>6, <2>3
  <1> QED BY <1>5, <1>6

\* An address, from its family and its octets.
LEMMA AddressBack ==
    ASSUME NEW text \in Texts, IsAddress(text)
    PROVE  LET octets == Octets(Family(text), 2) \o HostOf(text) IN
           octets \in Seq(Octet) /\ ~(Len(octets) < 2) /\ AddressText(octets) = text
  <1> DEFINE family == Octets(Family(text), 2)
             host == HostOf(text)
             octets == family \o host
  <1>1. Family(text) \in {1, 2} /\ 2 \in 0..8
    BY DEF Family
  <1>2. family \in Seq(Octet) /\ Len(family) = 2 /\ Number(family) = Family(text)
    <2>1. Values[2] >= 3 /\ Values[2] \in Nat
      <3>1. Values[2] = Base * Values[1] /\ Values[1] = Base /\ Base \in Nat /\ Base >= 4
        <4>1. 2 \in 1..8 /\ 2 - 1 = 1
          OBVIOUS
        <4> QED BY <4>1, ValuesDefined, ValuesKnown
      <3>2. Base * Base >= Base
        BY <3>1
      <3> QED BY <3>1, <3>2
    <2>2. Family(text) \in UnsignedOf(2)
      BY <1>1, <2>1 DEF UnsignedOf
    <2>3. Unsigned(Family(text), 2) = Family(text)
      BY <1>1, <2>2, CastBack
    <2> QED BY <1>1, <2>3, OctetsTyped, NumberOfOctets
  <1>3. /\ host \in Seq(Octet) /\ HostText(host) = text
        /\ Len(host) = IF SpellsHost(text, 4) THEN 4 ELSE 16
    BY AddressLength
  <1> HIDE DEF family, host
  <1>5. /\ octets \in Seq(Octet) /\ Len(octets) = 2 + Len(host)
        /\ At(octets, 2, host)
        /\ \A part \in Seq(Octet) : \A k : At(family, k, part) => At(octets, k, part)
    BY <1>2, <1>3, Grown
  <1>6. At(family, 0, family)
    <2>1. 0 \in Nat /\ \A i \in 1..2 : 0 + i = i
      OBVIOUS
    <2> QED BY <1>2, <2>1 DEF At
  <1>7. At(octets, 0, family)
    BY <1>2, <1>5, <1>6
  <1> HIDE DEF octets
  <1>8. SubSeq(octets, 1, 2) = family
    <2>1. SubSeq(octets, 0 + 1, 0 + Len(family)) = family
      BY <1>2, <1>5, <1>7, PartAt
    <2> QED BY <1>2, <2>1
  <1>9. SubSeq(octets, 3, Len(octets)) = host
    <2>1. SubSeq(octets, 2 + 1, 2 + Len(host)) = host
      BY <1>3, <1>5, PartAt
    <2> QED BY <1>5, <2>1
  <1>10. AddressText(octets) = text
    <2>0. Number(SubSeq(octets, 1, 2)) = Family(text)
      BY <1>2, <1>8
    <2>1. CASE SpellsHost(text, 4)
      <3>1. Number(SubSeq(octets, 1, 2)) = 1 /\ Len(octets) = 6
        BY <1>3, <1>5, <2>0, <2>1 DEF Family
      <3> QED BY <1>3, <1>9, <3>1 DEF AddressText
    <2>2. CASE ~SpellsHost(text, 4)
      <3>1. Number(SubSeq(octets, 1, 2)) = 2 /\ Len(octets) = 18
        BY <1>3, <1>5, <2>0, <2>2 DEF Family
      <3> QED BY <1>3, <1>9, <3>1 DEF AddressText
    <2> QED BY <2>1, <2>2
  <1>11. ~(Len(octets) < 2)
    BY <1>3, <1>5
  <1> QED BY <1>5, <1>10, <1>11 DEF octets, family, host

LEMMA DataRecords ==
    /\ \A k, v : Num(k, v) = [kind |-> k, num |-> v, text |-> <<>>, kids |-> <<>>]
    /\ \A t : Str(t) = [kind |-> "string", num |-> 0, text |-> t, kids |-> <<>>]
    /\ \A a : Kids(a) = [kind |-> "avps", num |-> 0, text |-> <<>>, kids |-> a]
  <1> DEFINE Only(k, v, t, a) == [kind : {k}, num : {v}, text : {t}, kids : {a}]
  <1>1. \A k, v, t, a : \A r \in Only(k, v, t, a) :
            r = [kind |-> k, num |-> v, text |-> t, kids |-> a]
    OBVIOUS
  <1>2. \A k, v : Num(k, v) \in Only(k, v, <<>>, <<>>)
    BY DEF Num, Unset
  <1>3. \A t : Str(t) \in Only("string", 0, t, <<>>)
    BY DEF Str, Unset
  <1>4. \A a : Kids(a) \in Only("avps", 0, <<>>, a)
    BY DEF Kids, Unset
  <1> HIDE DEF Only
  <1> QED BY <1>1, <1>2, <1>3, <1>4

\* The data of an AVP is what its format calls for, and what was read in it are the
\* AVPs it holds.
IsReadable(avp, read) ==
    /\ HoldsData(avp) /\ ~avp.raw
    /\ CodingType(avp) = "Address" => IsAddress(avp.data.text)
    /\ CodingType(avp) = "Grouped" => read = [ok |-> TRUE, avps |-> avp.data.kids]

\* The data of an AVP that holds what its format calls for.
LEMMA DataHeld ==
    ASSUME NEW avp \in Avps, HoldsData(avp)
    PROVE  LET type == CodingType(avp) IN
           /\ IsNumber(type) => /\ avp.data = Num(Kind[type], avp.data.num)
                                /\ avp.data.num \in NumbersOf[Kind[type]]
           /\ ~IsNumber(type) /\ type # "Grouped" =>
                /\ avp.data = Str(avp.data.text) /\ avp.data.kids = <<>>
           /\ ~IsNumber(type) /\ type = "Grouped" => avp.data = Kids(avp.data.kids)
  <1> DEFINE type == CodingType(avp)
             data == avp.data
  <1>1. /\ data = [kind |-> data.kind, num |-> data.num, text |-> data.text, kids |-> data.kids]
        /\ data.num \in NumbersOf[data.kind] /\ data.kind \in DOMAIN NumbersOf
        /\ data.kind # "string" => data.text = <<>>
        /\ data.kind # "avps" => data.kids = <<>>
    <2>1. MaxDepth \in 0..MaxDepth /\ Avps = Nested[MaxDepth]
      BY SizeAssumption DEF Avps
    <2>2. avp.data \in DataWith(Within(MaxDepth))
      BY <2>1, AvpFields
    <2>3. <<>> \in Within(MaxDepth)
      BY DEF Within
    <2> QED BY <2>2, <2>3, DataFields
  <1>2. /\ IsNumber(type) => data.kind = Kind[type] /\ Kind[type] \notin {"string", "avps"}
        /\ ~IsNumber(type) /\ type # "Grouped" => data.kind = "string"
        /\ ~IsNumber(type) /\ type = "Grouped" => data.kind = "avps"
    <2>1. IsNumber(type) => Kind[type] \notin {"string", "avps"}
      BY DEF IsNumber, Kind, Width
    <2> QED BY <2>1 DEF HoldsData, HoldsNumber
  <1> HIDE DEF type, data
  <1>3. data.kind \in {"string", "avps"} => data.num = 0
    BY <1>1, NumbersKnown
  <1>4. CASE IsNumber(type)
    <2>1. data.kind = Kind[type] /\ data.text = <<>> /\ data.kids = <<>>
      BY <1>1, <1>2, <1>4
    <2>2. data = Num(Kind[type], data.num)
      BY <1>1, <2>1, DataRecords
    <2> QED BY <1>1, <1>4, <2>1, <2>2 DEF type, data
  <1>5. CASE ~IsNumber(type) /\ type # "Grouped"
    <2>1. data.kind = "string" /\ data.num = 0 /\ data.kids = <<>>
      BY <1>1, <1>2, <1>3, <1>5
    <2>2. data = Str(data.text)
      BY <1>1, <2>1, DataRecords
    <2> QED BY <1>5, <2>1, <2>2 DEF type, data
  <1>6. CASE ~IsNumber(type) /\ type = "Grouped"
    <2>1. data.kind = "avps" /\ data.num = 0 /\ data.text = <<>>
      BY <1>1, <1>2, <1>3, <1>6
    <2>2. data = Kids(data.kids)
      BY <1>1, <2>1, DataRecords
    <2> QED BY <1>6, <2>2 DEF type, data
  <1> QED BY <1>4, <1>5, <1>6

\* The data of an AVP comes back from what it is encoded to, if those within do.
LEMMA DataBack ==
    ASSUME NEW avp \in Avps, NEW parts \in Seq(Seq(Octet)), NEW read, IsReadable(avp, read)
    PROVE  DecodeData(FormatType(avp.id), EncodeData(avp, parts), read)
              = [ok |-> TRUE, data |-> avp.data]
  <1> DEFINE type == CodingType(avp)
             data == avp.data
             octets == EncodeData(avp, parts)
  <1>1. /\ HoldsData(avp) /\ FormatType(avp.id) = type /\ data.text \in Texts
        /\ type = "Address" => IsAddress(data.text)
        /\ type = "Grouped" => read = [ok |-> TRUE, avps |-> data.kids]
    BY AvpTyped DEF IsReadable, CodingType
  <1>2. /\ IsNumber(type) => data = Num(Kind[type], data.num)
                             /\ data.num \in NumbersOf[Kind[type]]
        /\ ~IsNumber(type) /\ type # "Grouped" => data = Str(data.text)
        /\ ~IsNumber(type) /\ type = "Grouped" => data = Kids(data.kids)
    BY <1>1, DataHeld
  <1>3. octets = IF IsNumber(type) THEN Octets(data.num, Width[type])
                 ELSE IF type = "Grouped" THEN Joined(parts)
                 ELSE IF type = "Address" THEN Octets(Family(data.text), 2) \o HostOf(data.text)
                 ELSE data.text
    BY DEF EncodeData
  <1> HIDE DEF type, data, octets
  <1>4. CASE IsNumber(type)
    <2>1. Len(octets) = Width[type] /\ AsTyped(Number(octets), type) = data.num
      BY <1>2, <1>3, <1>4, ValueBack
    <2>2. DecodeData(type, octets, read)
            = [ok |-> Len(octets) = Width[type],
               data |-> Num(Kind[type], AsTyped(Number(octets), type))]
      BY <1>4 DEF DecodeData
    <2> QED BY <1>1, <1>2, <1>4, <2>1, <2>2 DEF octets, data
  <1>5. CASE ~IsNumber(type) /\ type = "Grouped"
    <2>1. DecodeData(type, octets, read) = [ok |-> read.ok, data |-> Kids(read.avps)]
      BY <1>5 DEF DecodeData
    <2> QED BY <1>1, <1>2, <1>5, <2>1 DEF octets, data
  <1>6. CASE ~IsNumber(type) /\ type = "Address"
    <2>1. ~(Len(octets) < 2) /\ AddressText(octets) = data.text
      BY <1>1, <1>3, <1>6, AddressBack
    <2>2. DecodeData(type, octets, read) = [ok |-> TRUE, data |-> Str(AddressText(octets))]
      BY <1>6, <2>1 DEF DecodeData
    <2> QED BY <1>1, <1>2, <1>6, <2>1, <2>2 DEF octets, data
  <1>7. CASE ~IsNumber(type) /\ type # "Grouped" /\ type # "Address"
    <2>1. DecodeData(type, octets, read) = [ok |-> TRUE, data |-> Str(octets)]
      BY <1>7 DEF DecodeData
    <2> QED BY <1>1, <1>2, <1>3, <1>7, <2>1 DEF octets, data
  <1> QED BY <1>4, <1>5, <1>6, <1>7

----------------------------------------------------------------------------
(* From AVPs to octets and back                                              *)

\* An AVP that can be encoded, and that the wire has room for with those within.
Carried(avp) == Encodable(avp) /\ \A part \in Parts[avp] : IsFaithful(part)

LEMMA CarriedParts ==
    ASSUME NEW avp \in Avps, Carried(avp)
    PROVE  /\ HoldsData(avp) /\ IsFaithful(avp) /\ ~avp.raw
           /\ CodingType(avp) = "Address" => IsAddress(avp.data.text)
           /\ \A i \in 1..Len(avp.data.kids) : Carried(avp.data.kids[i])
  <1>1. /\ avp \in Parts[avp]
        /\ \A i \in 1..Len(avp.data.kids) : Parts[avp.data.kids[i]] \subseteq Parts[avp]
    BY PartsWithin
  <1>2. \A part \in Parts[avp] :
          /\ HoldsData(part) /\ IsFaithful(part)
          /\ CodingType(part) = "Address" => IsAddress(part.data.text)
    BY DEF Carried, Encodable, Holds
  <1>3. ASSUME NEW i \in 1..Len(avp.data.kids) PROVE Carried(avp.data.kids[i])
    BY <1>1, <1>2 DEF Carried, Encodable, Holds
  <1>4. IsFaithful(avp)
    BY <1>1, <1>2
  <1> QED BY <1>1, <1>2, <1>3, <1>4 DEF IsFaithful

LEMMA SameSequences ==
    ASSUME NEW S, NEW s \in Seq(S), NEW t \in Seq(S), Len(s) = Len(t),
           \A i \in 1..Len(s) : s[i] = t[i]
    PROVE  s = t
  OBVIOUS

OneAvp(id, flags, raw, data) == [id : {id}, flags : {flags}, raw : {raw}, data : {data}]

LEMMA OneAvpIs ==
    \A id, flags, raw, data : \A avp \in OneAvp(id, flags, raw, data) :
        avp = [id |-> id, flags |-> flags, raw |-> raw, data |-> data]
  BY DEF OneAvp

\* The AVPs of a message or a Grouped AVP, one behind the other.
LEMMA AllEncodedHead ==
    /\ EncodeAll(<<>>) = <<>>
    /\ \A avps \in Seq(Avps) : avps # <<>> =>
        /\ avps[1] \in Avps /\ Tail(avps) \in Seq(Avps)
        /\ EncodeAll(avps) = Encode[avps[1]] \o EncodeAll(Tail(avps))
        /\ Len(EncodeAll(avps)) = Len(Encode[avps[1]]) + Len(EncodeAll(Tail(avps)))
  <1>1. ASSUME NEW avps \in Seq(Avps) PROVE EncodeAll(avps) = Joined(Each(Encode, avps))
    BY DEF EncodeAll, Each
  <1>2. EncodeAll(<<>>) = <<>>
    <2> DEFINE none == Each(Encode, <<>>)
    <2>1. <<>> \in Seq(Avps) /\ Len(<<>>) = 0
      OBVIOUS
    <2>2. none \in Seq(Seq(Octet)) /\ Len(none) = 0
      BY <2>1, EachEncoded
    <2> HIDE DEF none
    <2>3. PICK acc : acc[0] = <<>> /\ Joined(none) = acc[Len(none)]
      BY <2>2, JoinedLoop
    <2> QED BY <1>1, <2>1, <2>2, <2>3 DEF none
  <1>3. ASSUME NEW avps \in Seq(Avps), avps # <<>>
        PROVE  /\ avps[1] \in Avps /\ Tail(avps) \in Seq(Avps)
               /\ EncodeAll(avps) = Encode[avps[1]] \o EncodeAll(Tail(avps))
               /\ Len(EncodeAll(avps)) = Len(Encode[avps[1]]) + Len(EncodeAll(Tail(avps)))
    <2> DEFINE all == Each(Encode, avps)
               rest == Each(Encode, Tail(avps))
    <2>1. /\ Tail(avps) \in Seq(Avps) /\ Len(Tail(avps)) = Len(avps) - 1
          /\ Len(avps) \in Nat /\ Len(avps) >= 1
          /\ \A i \in 1..(Len(avps) - 1) : Tail(avps)[i] = avps[i + 1]
      BY <1>3, HeadTailProperties
    <2>2. /\ all \in Seq(Seq(Octet)) /\ Len(all) = Len(avps)
          /\ \A i \in 1..Len(avps) : avps[i] \in Avps /\ all[i] = Encode[avps[i]]
      BY EachEncoded
    <2>3. /\ rest \in Seq(Seq(Octet)) /\ Len(rest) = Len(Tail(avps))
          /\ \A i \in 1..Len(Tail(avps)) : rest[i] = Encode[Tail(avps)[i]]
      BY <2>1, EachEncoded
    <2> HIDE DEF all, rest
    <2>4. 1 \in 1..Len(avps) /\ all # <<>>
      BY <2>1, <2>2
    <2>5. /\ Tail(all) \in Seq(Seq(Octet)) /\ Len(Tail(all)) = Len(all) - 1
          /\ \A i \in 1..(Len(all) - 1) : Tail(all)[i] = all[i + 1]
      BY <2>2, <2>4, HeadTailProperties
    <2>6. Tail(all) = rest
      <3> DEFINE T == Tail(all)
                 U == Tail(avps)
                 n == Len(avps) - 1
      <3>2. /\ T \in Seq(Seq(Octet)) /\ Len(T) = n /\ \A i \in 1..n : T[i] = all[i + 1]
            /\ Len(rest) = n /\ \A i \in 1..n : rest[i] = Encode[U[i]]
            /\ \A i \in 1..n : U[i] = avps[i + 1]
        BY <2>1, <2>2, <2>3, <2>5
      <3> HIDE DEF T, U
      <3>3. \A i \in 1..n : T[i] = rest[i]
        <4> TAKE i \in 1..n
        <4>1. i + 1 \in 1..Len(avps)
          BY <2>1
        <4> QED BY <2>2, <3>2, <4>1
      <3>4. T = rest
        BY <2>3, <3>2, <3>3, SameSequences
      <3> QED BY <3>4 DEF T
    <2>7. Joined(all) = all[1] \o Joined(Tail(all))
      BY <2>2, <2>4, JoinedHead
    <2>8. EncodeAll(avps) = Encode[avps[1]] \o EncodeAll(Tail(avps))
      BY <1>1, <2>1, <2>2, <2>4, <2>6, <2>7 DEF all, rest
    <2>9. Encode[avps[1]] \in Seq(Octet) /\ EncodeAll(Tail(avps)) \in Seq(Octet)
      BY <2>1, <2>2, <2>4, EncodeDefined, EncodeAllTyped
    <2>10. Len(EncodeAll(avps)) = Len(Encode[avps[1]]) + Len(EncodeAll(Tail(avps)))
      BY <2>8, <2>9, ConcatProperties
    <2> QED BY <2>1, <2>2, <2>4, <2>8, <2>10
  <1> QED BY <1>2, <1>3

\* An AVP comes back from the octets it is encoded to, whatever follows them.
LEMMA IntoBack ==
    ASSUME NEW avp \in Avps, Carried(avp), NEW rest \in Seq(Octet), NEW read,
           LET data == EncodeData(avp, Each(Encode, avp.data.kids)) IN
           /\ HeaderLen(avp) + Len(data) < Values[3]
           /\ CodingType(avp) = "Grouped" => read = [ok |-> TRUE, avps |-> avp.data.kids]
    PROVE  LET octets == Encode[avp] \o rest IN
           /\ octets \in Seq(Octet) /\ octets # <<>> /\ Behind(octets) = rest
           /\ DataIn(octets) = EncodeData(avp, Each(Encode, avp.data.kids))
           /\ DecodeInto(NewAvp, octets, read) = [ok |-> TRUE, avp |-> avp]
  <1> DEFINE parts == Each(Encode, avp.data.kids)
             data == EncodeData(avp, parts)
             octets == Encode[avp] \o rest
  <1>1. /\ HoldsData(avp) /\ IsFaithful(avp) /\ ~avp.raw
        /\ CodingType(avp) = "Address" => IsAddress(avp.data.text)
    BY CarriedParts
  <1>2. avp.data.kids \in Seq(Avps)
    BY KidsAreAvps
  <1>3. parts \in Seq(Seq(Octet))
    BY <1>2, EachEncoded
  <1>4. data \in Seq(Octet) /\ HeaderLen(avp) + Len(data) < Values[3]
    <2> HIDE DEF parts
    <2> QED BY <1>3, EncodeDataTyped DEF parts
  <1>5. Encode[avp] = Framed(avp, data)
    BY EncodeDefined
  <1> HIDE DEF parts
  <1>8. DecodeData(FormatType(avp.id), data, read) = [ok |-> TRUE, data |-> avp.data]
    <2>1. IsReadable(avp, read)
      BY <1>1 DEF IsReadable
    <2> QED BY <1>3, <2>1, DataBack
  <1> HIDE DEF data
  <1>9. /\ octets \in Seq(Octet) /\ Fits(octets)
        /\ octets[5] = avp.flags /\ IdIn(octets) = avp.id
        /\ DataIn(octets) = data /\ Behind(octets) = rest
    <2> DEFINE framed == Framed(avp, data) \o rest
    <2>1. /\ framed \in Seq(Octet) /\ Fits(framed)
          /\ framed[5] = avp.flags /\ IdIn(framed) = avp.id
          /\ DataIn(framed) = data /\ Behind(framed) = rest
      BY ONLY <1>1, <1>4, FramedParts
    <2> HIDE DEF framed
    <2>2. octets = framed
      BY <1>5 DEF framed
    <2> QED BY <2>1, <2>2
  <1>11. avp = [id |-> avp.id, flags |-> avp.flags, raw |-> FALSE, data |-> avp.data]
    <2>1. MaxDepth \in 0..MaxDepth /\ avp \in Nested[MaxDepth]
      BY SizeAssumption DEF Avps
    <2>2. avp = [id |-> avp.id, flags |-> avp.flags, raw |-> avp.raw, data |-> avp.data]
      BY <2>1, AvpFields
    <2>3. avp.raw \in BOOLEAN
      BY AvpTyped
    <2> QED BY <1>1, <2>2, <2>3
  <1> HIDE DEF octets
  <1> DEFINE value == avp.data
             flagged == [NewAvp EXCEPT !.flags = octets[5]]
             named == [flagged EXCEPT !.id = IdIn(octets)]
             made == [named EXCEPT !.data = value]
  <1> HIDE DEF value
  <1>14. made \in OneAvp(avp.id, avp.flags, FALSE, value)
    BY <1>9 DEF NewAvp, OneAvp
  <1>15. made = avp
    <2>1. avp = [id |-> avp.id, flags |-> avp.flags, raw |-> FALSE, data |-> value]
      BY <1>11 DEF value
    <2> HIDE DEF made
    <2> QED BY <1>14, <2>1, OneAvpIs
  <1>16. DecodeInto(NewAvp, octets, read) = [ok |-> TRUE, avp |-> made]
    <2>1. /\ ~(Len(octets) < 8) /\ ~(Len(octets) < HeaderLenIn(octets))
          /\ ~(LengthIn(octets) < HeaderLenIn(octets)) /\ ~(Len(octets) < LengthIn(octets))
      <3>1. Len(octets) \in Nat /\ 8 <= Len(octets)
        BY <1>9 DEF Fits
      <3>2. HeaderLenIn(octets) \in {8, 12} /\ LengthIn(octets) \in Nat
        BY <1>9, <3>1, HeaderTyped
      <3> QED BY <1>9, <3>1, <3>2 DEF Fits
    <2>2. DecodeData(FormatType(IdIn(octets)), DataIn(octets), read)
            = [ok |-> TRUE, data |-> value]
      BY <1>8, <1>9 DEF value
    <2> QED BY <2>1, <2>2 DEF DecodeInto
  <1>17. octets # <<>>
    BY <1>9 DEF Fits
  <1> QED BY <1>9, <1>15, <1>16, <1>17 DEF octets, data, parts

\* AVPs that the wire has room for come back from what they are encoded to, each
\* with what is in it and in their order.
LEMMA DecodedBack ==
    ASSUME NEW avps \in Seq(Avps), \A i \in 1..Len(avps) : Carried(avps[i]),
           Len(EncodeAll(avps)) < Values[3]
    PROVE  DecodeAll[EncodeAll(avps)] = [ok |-> TRUE, avps |-> avps]
  <1> DEFINE AllCarried(list) == \A i \in 1..Len(list) : Carried(list[i])
             Back(list) == DecodeAll[EncodeAll(list)] = [ok |-> TRUE, avps |-> list]
             n == Values[3] - 1
             T == {k \in 0..n : \A list \in Seq(Avps) :
                        AllCarried(list) /\ Len(EncodeAll(list)) <= k => Back(list)}
  <1>1. Values[3] \in Nat /\ n \in Nat /\ Values[3] >= 1
    <2>1. 3 \in 0..8
      OBVIOUS
    <2>2. Values[3] \in Nat /\ Values[3] >= 1
      BY <2>1, ValuesKnown
    <2> QED BY <2>2
  <1> HIDE DEF n
  <1>2. Back(<<>>)
    <2>1. <<>> \in OctetStrings
      BY <1>1 DEF OctetStrings
    <2>2. DecodeAll[<<>>] = [ok |-> TRUE, avps |-> <<>>]
      BY <2>1, DecodeAllDefined DEF DecodeAllWith
    <2> QED BY <2>2, AllEncodedHead
  <1>3. ASSUME NEW list \in Seq(Avps), list # <<>>, AllCarried(list),
               NEW k \in 0..n, Len(EncodeAll(list)) <= k,
               \A l \in Seq(Avps) : AllCarried(l) /\ Len(EncodeAll(l)) < k => Back(l)
        PROVE  Back(list)
    <2> DEFINE avp == list[1]
               tail == Tail(list)
               kids == avp.data.kids
               data == EncodeData(avp, Each(Encode, kids))
               rest == EncodeAll(tail)
               octets == Encode[avp] \o rest
               read == DecodeAll[data]
    <2>1. /\ avp \in Avps /\ tail \in Seq(Avps) /\ EncodeAll(list) = octets
          /\ Len(EncodeAll(list)) = Len(Encode[avp]) + Len(rest)
      BY <1>3, AllEncodedHead
    <2>2. /\ Len(tail) = Len(list) - 1 /\ Len(list) \in Nat /\ Len(list) >= 1
          /\ \A i \in 1..(Len(list) - 1) : tail[i] = list[i + 1]
      BY <1>3, HeadTailProperties
    <2> HIDE DEF tail
    <2>3. Carried(avp) /\ AllCarried(tail)
      <3>1. 1 \in 1..Len(list) /\ \A i \in 1..(Len(list) - 1) : i + 1 \in 1..Len(list)
        BY <2>2
      <3> HIDE DEF Carried
      <3> QED BY <1>3, <2>2, <3>1
    <2> HIDE DEF avp
    <2>4. kids \in Seq(Avps) /\ AllCarried(kids)
      BY <2>1, <2>3, KidsAreAvps, CarriedParts
    <2>5. data \in Seq(Octet) /\ Encode[avp] = Framed(avp, data)
      <3>1. Each(Encode, kids) \in Seq(Seq(Octet))
        BY <2>4, EachEncoded
      <3> HIDE DEF kids
      <3> QED BY <2>1, <3>1, EncodeDataTyped, EncodeDefined DEF kids
    <2>6. rest \in Seq(Octet)
      BY <2>1, EncodeAllTyped
    <2> DEFINE h == HeaderLen(avp)
    <2>7. h \in {8, 12} /\ Len(Encode[avp]) = Padded(h + Len(data))
      <3> HIDE DEF data
      <3> QED BY <2>1, <2>5, FramedTyped DEF HeaderLen
    <2> HIDE DEF data, rest, h
    <2>8. /\ Len(data) \in Nat /\ Len(rest) \in Nat /\ k < Values[3]
          /\ h + Len(data) < Values[3] /\ Len(data) < k /\ Len(rest) < k
          /\ Len(EncodeAll(list)) < Values[3]
      <3>1. Len(data) \in Nat /\ Len(rest) \in Nat
        BY <2>5, <2>6
      <3> DEFINE a == Len(data)
                 b == Len(rest)
                 p == Padded(h + a)
                 l == Len(EncodeAll(list))
      <3>2. p \in Nat /\ h + a <= p
        <4>1. h + a \in Nat
          BY <2>7, <3>1
        <4> QED BY <4>1, PaddedUp
      <3>3. l = p + b /\ l <= k /\ k < Values[3] /\ k \in Nat
        BY <1>1, <1>3, <2>1, <2>7 DEF n
      <3> HIDE DEF a, b, p, l
      <3>4. a \in Nat /\ b \in Nat
        BY <3>1 DEF a, b
      <3>5. /\ a \in Nat /\ b \in Nat /\ k < Values[3] /\ h + a < Values[3] /\ a < k /\ b < k
            /\ l < Values[3]
        BY ONLY <1>1, <2>7, <3>2, <3>3, <3>4
      <3> QED BY <3>5 DEF a, b, l
    <2>9. CodingType(avp) = "Grouped" => read = [ok |-> TRUE, avps |-> kids]
      <3> SUFFICES ASSUME CodingType(avp) = "Grouped" PROVE Back(kids) /\ data = EncodeAll(kids)
        OBVIOUS
      <3>1. data = EncodeAll(kids)
        <4>1. ~IsNumber("Grouped")
          BY DEF IsNumber, Width
        <4>2. data = Joined(Each(Encode, kids))
          BY <4>1 DEF EncodeData, data
        <4> QED BY <4>2 DEF EncodeAll, Each
      <3>2. Back(kids)
        <4> HIDE DEF kids, AllCarried, Back
        <4> QED BY <1>3, <2>4, <2>8, <3>1
      <3> QED BY <3>1, <3>2
    <2>10. /\ octets \in Seq(Octet) /\ octets # <<>> /\ Behind(octets) = rest
           /\ DataIn(octets) = data
           /\ DecodeInto(NewAvp, octets, read) = [ok |-> TRUE, avp |-> avp]
      <3> HIDE DEF read
      <3>1. HeaderLen(avp) + Len(data) < Values[3]
        BY <2>8 DEF h
      <3>2. data = EncodeData(avp, Each(Encode, kids))
        BY DEF data
      <3> QED BY <2>1, <2>3, <2>6, <2>9, <3>1, <3>2, IntoBack
    <2>11. Back(tail)
      <3> HIDE DEF AllCarried, Back
      <3> QED BY <1>3, <2>1, <2>3, <2>8 DEF rest
    <2> HIDE DEF octets
    <2>12. octets \in OctetStrings
      BY <2>1, <2>8, <2>10 DEF OctetStrings
    <2>13. DecodeAll[octets] = [ok |-> TRUE, avps |-> <<avp>> \o tail]
      <3>1. DecodeAll[octets] = DecodeAllWith(DecodeAll, octets)
        BY <2>12, DecodeAllDefined
      <3>2. DecodeAll[rest] = [ok |-> TRUE, avps |-> tail]
        BY <2>11 DEF rest
      <3> DEFINE first == DecodeInto(NewAvp, octets, read)
      <3>3. first.ok = TRUE /\ first.avp = avp
        BY <2>10
      <3> HIDE DEF first
      <3>4. DecodeAllWith(DecodeAll, octets)
              = [ok |-> DecodeAll[rest].ok, avps |-> <<first.avp>> \o DecodeAll[rest].avps]
        BY <2>10, <3>3 DEF DecodeAllWith, first
      <3> QED BY <3>1, <3>2, <3>3, <3>4
    <2>14. <<avp>> \o tail = list
      <3> DEFINE one == <<avp>>
                 joined == one \o tail
                 m == Len(list)
      <3>1. one \in Seq(Avps) /\ Len(one) = 1 /\ one[1] = avp
        BY <2>1
      <3> HIDE DEF one
      <3>2. /\ joined \in Seq(Avps) /\ Len(joined) = Len(one) + Len(tail)
            /\ \A i \in 1..(Len(one) + Len(tail)) :
                 joined[i] = IF i <= Len(one) THEN one[i] ELSE tail[i - Len(one)]
        <4>1. tail \in Seq(Avps)
          BY <2>1
        <4> QED BY ONLY <3>1, <4>1, ConcatProperties
      <3>3. m \in Nat /\ m >= 1 /\ Len(tail) = m - 1
        BY <2>2
      <3> HIDE DEF joined
      <3>4. \A i \in 1..m : joined[i] = list[i]
        <4> TAKE i \in 1..m
        <4>1. CASE i = 1
          BY <3>1, <3>2, <3>3, <4>1 DEF avp
        <4>2. CASE i # 1
          <5>1. i - 1 \in 1..(m - 1) /\ ~(i <= 1) /\ (i - 1) + 1 = i
            BY <3>3, <4>2
          <5>2. joined[i] = tail[i - 1]
            BY <3>1, <3>2, <3>3, <5>1
          <5> QED BY <2>2, <5>1, <5>2
        <4> QED BY <4>1, <4>2
      <3>5. Len(joined) = m
        BY <3>1, <3>2, <3>3
      <3> HIDE DEF m
      <3>6. joined = list
        BY <1>3, <3>2, <3>4, <3>5, SameSequences DEF m
      <3> QED BY <3>6 DEF joined, one
    <2> QED BY <2>1, <2>13, <2>14
  <1>4. 0 \in T
    <2>1. ASSUME NEW list \in Seq(Avps), AllCarried(list), Len(EncodeAll(list)) <= 0
          PROVE  Back(list)
      <3>1. ASSUME NEW l \in Seq(Avps), AllCarried(l), Len(EncodeAll(l)) < 0 PROVE Back(l)
        <4>1. EncodeAll(l) \in Seq(Octet)
          BY EncodeAllTyped
        <4>2. Len(EncodeAll(l)) \in Nat
          BY <4>1
        <4> QED BY <3>1, <4>2
      <3>2. 0 \in 0..n
        BY <1>1
      <3> HIDE DEF AllCarried, Back
      <3> QED BY <1>2, <1>3, <2>1, <3>1, <3>2
    <2> HIDE DEF AllCarried, Back
    <2> QED BY <1>1, <2>1
  <1>5. ASSUME NEW k \in 1..n, k - 1 \in T PROVE k \in T
    <2>1. ASSUME NEW list \in Seq(Avps), AllCarried(list), Len(EncodeAll(list)) <= k
          PROVE  Back(list)
      <3>1. ASSUME NEW l \in Seq(Avps), AllCarried(l), Len(EncodeAll(l)) < k PROVE Back(l)
        <4>1. EncodeAll(l) \in Seq(Octet)
          BY EncodeAllTyped
        <4>2. Len(EncodeAll(l)) \in Nat
          BY <4>1
        <4>3. Len(EncodeAll(l)) <= k - 1
          BY <3>1, <4>2
        <4> HIDE DEF AllCarried, Back
        <4> QED BY <1>5, <3>1, <4>3
      <3>2. k \in 0..n
        BY <1>1
      <3> HIDE DEF AllCarried, Back
      <3> QED BY <1>2, <1>3, <2>1, <3>1, <3>2
    <2>2. k \in 0..n
      BY <1>1
    <2> HIDE DEF AllCarried, Back
    <2> QED BY <2>1, <2>2
  <1>6. n \in T
    <2> HIDE DEF T
    <2>1. 0..n \subseteq T
      BY <1>1, <1>4, <1>5, TurnInduction
    <2> QED BY <1>1, <2>1
  <1>7. Len(EncodeAll(avps)) <= n
    <2>1. EncodeAll(avps) \in Seq(Octet)
      BY EncodeAllTyped
    <2>2. Len(EncodeAll(avps)) \in Nat
      BY <2>1
    <2> QED BY <1>1, <2>2 DEF n
  <1>8. Back(avps)
    <2> HIDE DEF Back, AllCarried
    <2>1. AllCarried(avps)
      BY DEF AllCarried
    <2> QED BY <1>6, <1>7, <2>1
  <1> QED BY <1>8

----------------------------------------------------------------------------
(* What joins sequences, part by part                                       *)

\* Every element of every part is in the whole.
LEMMA JoinedReaches ==
    ASSUME NEW S, NEW parts \in Seq(Seq(S)), NEW k \in 1..Len(parts), NEW j \in 1..Len(parts[k])
    PROVE  \E i \in 1..Len(Joined(parts)) : Joined(parts)[i] = parts[k][j]
  <1> DEFINE n == Len(parts)
             x == parts[k][j]
  <1>1. n \in Nat /\ \A i \in 1..n : parts[i] \in Seq(S)
    OBVIOUS
  <1>2. PICK acc : /\ acc \in [0..n -> Seq(S)] /\ acc[0] = <<>>
                   /\ \A i \in 1..n : acc[i] = acc[i - 1] \o parts[i]
                   /\ Joined(parts) = acc[n]
    BY JoinedLoop
  <1> DEFINE Has(s) == \E i \in 1..Len(s) : s[i] = x
             T == {m \in 0..n : m >= k => Has(acc[m])}
  <1>3. 0 \in T
    BY <1>1
  <1>4. ASSUME NEW m \in 1..n, m - 1 \in T PROVE m \in T
    <2> DEFINE s == acc[m - 1]
               t == parts[m]
    <2>1. m - 1 \in 0..n /\ m \in 0..n /\ s \in Seq(S) /\ t \in Seq(S) /\ acc[m] = s \o t
      <3> HIDE DEF n
      <3>1. m - 1 \in 0..n /\ m \in 0..n
        BY <1>1
      <3> QED BY <1>1, <1>2, <3>1
    <2> SUFFICES ASSUME m >= k PROVE Has(s \o t)
      <3> HIDE DEF n, Has
      <3> QED BY <2>1
    <2>2. CASE m = k
      <3>1. j \in 1..Len(t) /\ x = t[j]
        BY <2>2
      <3> HIDE DEF s, t, x
      <3>2. Len(s) + j \in 1..Len(s \o t) /\ (s \o t)[Len(s) + j] = t[j]
        BY <2>1, <3>1
      <3> QED BY <3>1, <3>2
    <2>3. CASE m # k
      <3>1. m - 1 >= k
        BY <1>1, <2>3
      <3> HIDE DEF x
      <3>2. PICK i \in 1..Len(s) : s[i] = x
        BY <1>4, <3>1
      <3> HIDE DEF s, t
      <3>3. i \in 1..Len(s \o t) /\ (s \o t)[i] = s[i]
        BY <2>1, <3>2
      <3> QED BY <3>2, <3>3
    <2> QED BY <2>2, <2>3
  <1> HIDE DEF T
  <1>5. n \in T
    <2>1. 0..n \subseteq T
      BY <1>1, <1>3, <1>4, TurnInduction
    <2> QED BY <1>1, <2>1
  <1> QED BY <1>1, <1>2, <1>5 DEF T

\* The parts follow each other in an order, each of them in that order too.
IsRanked(parts, R) ==
    /\ \A k \in DOMAIN parts : \A i, j \in 1..Len(parts[k]) :
        i < j => <<parts[k][i], parts[k][j]>> \in R
    /\ \A k, l \in DOMAIN parts : k < l =>
        \A i \in 1..Len(parts[k]) : \A j \in 1..Len(parts[l]) : <<parts[k][i], parts[l][j]>> \in R

\* So does the whole.
LEMMA JoinedRanked ==
    ASSUME NEW S, NEW parts \in Seq(Seq(S)), NEW R, IsRanked(parts, R)
    PROVE  \A i, j \in 1..Len(Joined(parts)) :
              i < j => <<Joined(parts)[i], Joined(parts)[j]>> \in R
  <1> DEFINE n == Len(parts)
  <1>1. n \in Nat /\ DOMAIN parts = 1..n /\ \A i \in 1..n : parts[i] \in Seq(S)
    OBVIOUS
  <1>2. PICK acc : /\ acc \in [0..n -> Seq(S)] /\ acc[0] = <<>>
                   /\ \A i \in 1..n : acc[i] = acc[i - 1] \o parts[i]
                   /\ Joined(parts) = acc[n]
    BY JoinedLoop
  <1> DEFINE Sorted(s) == \A i, j \in 1..Len(s) : i < j => <<s[i], s[j]>> \in R
             Before(s, m) == \A i \in 1..Len(s) : \E k \in 1..m :
                                \E j \in 1..Len(parts[k]) : s[i] = parts[k][j]
             T == {m \in 0..n : Sorted(acc[m]) /\ Before(acc[m], m)}
  <1>3. 0 \in T
    BY <1>1, <1>2
  <1>4. ASSUME NEW m \in 1..n, m - 1 \in T PROVE m \in T
    <2> DEFINE s == acc[m - 1]
               t == parts[m]
    <2>1. m - 1 \in 0..n /\ m \in 0..n /\ s \in Seq(S) /\ t \in Seq(S) /\ acc[m] = s \o t
      <3> HIDE DEF n
      <3>1. m - 1 \in 0..n /\ m \in 0..n
        BY <1>1
      <3> QED BY <1>1, <1>2, <3>1
    <2>2. Sorted(s) /\ Before(s, m - 1)
      BY <1>4
    <2>3. /\ Len(s) \in Nat /\ Len(t) \in Nat /\ Len(s \o t) = Len(s) + Len(t)
          /\ \A i \in 1..Len(s) : (s \o t)[i] = s[i]
          /\ \A i \in 1..Len(t) : (s \o t)[Len(s) + i] = t[i]
      <3> HIDE DEF s, t
      <3> QED BY <2>1
    <2>4. \A i \in 1..Len(s \o t) : i \in 1..Len(s) \/ (i - Len(s) \in 1..Len(t)
                                                         /\ (s \o t)[i] = t[i - Len(s)])
      <3> HIDE DEF s, t
      <3> TAKE i \in 1..Len(s \o t)
      <3>1. i \notin 1..Len(s) => i - Len(s) \in 1..Len(t) /\ i = Len(s) + (i - Len(s))
        BY <2>3
      <3> QED BY <2>3, <3>1
    <2>5. Before(s \o t, m)
      <3> SUFFICES ASSUME NEW i \in 1..Len(s \o t)
                   PROVE  \E k \in 1..m : \E j \in 1..Len(parts[k]) : (s \o t)[i] = parts[k][j]
        OBVIOUS
      <3>1. CASE i \in 1..Len(s)
        <4>1. PICK k \in 1..(m - 1) : \E j \in 1..Len(parts[k]) : s[i] = parts[k][j]
          BY <2>2, <3>1
        <4>2. k \in 1..m /\ (s \o t)[i] = s[i]
          BY <1>1, <2>3, <3>1, <4>1
        <4> QED BY <4>1, <4>2
      <3>2. CASE i \notin 1..Len(s)
        <4>1. m \in 1..m
          OBVIOUS
        <4> QED BY <2>4, <3>2, <4>1
      <3> QED BY <3>1, <3>2
    <2>6. \A i \in 1..Len(s) : \A j \in 1..Len(t) : <<s[i], t[j]>> \in R
      <3> TAKE i \in 1..Len(s)
      <3> TAKE j \in 1..Len(t)
      <3>1. PICK k \in 1..(m - 1) : \E l \in 1..Len(parts[k]) : s[i] = parts[k][l]
        BY <2>2
      <3>2. k \in DOMAIN parts /\ m \in DOMAIN parts /\ k < m
        BY <1>1, <3>1
      <3> HIDE DEF s
      <3> QED BY <3>1, <3>2 DEF IsRanked
    <2>7. Sorted(t)
      BY <1>1 DEF IsRanked
    <2>8. Sorted(s \o t)
      <3> SUFFICES ASSUME NEW i \in 1..Len(s \o t), NEW j \in 1..Len(s \o t), i < j
                   PROVE  <<(s \o t)[i], (s \o t)[j]>> \in R
        OBVIOUS
      <3> HIDE DEF s, t
      <3>1. CASE j \in 1..Len(s)
        <4>1. i \in 1..Len(s)
          BY <2>3, <3>1
        <4> QED BY <2>2, <2>3, <3>1, <4>1
      <3>2. CASE j \notin 1..Len(s) /\ i \in 1..Len(s)
        BY <2>3, <2>4, <2>6, <3>2
      <3>3. CASE j \notin 1..Len(s) /\ i \notin 1..Len(s)
        <4> DEFINE a == i - Len(s)
                   b == j - Len(s)
        <4>1. /\ a \in 1..Len(t) /\ (s \o t)[i] = t[a]
              /\ b \in 1..Len(t) /\ (s \o t)[j] = t[b]
          BY <2>4, <3>3
        <4>2. a < b
          BY <2>3
        <4> QED BY <2>7, <4>1, <4>2
      <3> QED BY <3>1, <3>2, <3>3
    <2> HIDE DEF Sorted, Before, s, t
    <2> QED BY <2>1, <2>5, <2>8
  <1> HIDE DEF T
  <1>5. n \in T
    <2>1. 0..n \subseteq T
      BY <1>1, <1>3, <1>4, TurnInduction
    <2> QED BY <1>1, <2>1
  <1> QED BY <1>2, <1>5 DEF T

\* What is made of each element of the whole is that of the parts joined.
LEMMA JoinedEach ==
    ASSUME NEW S, NEW parts \in Seq(Seq(S)), NEW X, NEW f \in [S -> X]
    PROVE  Joined([k \in DOMAIN parts |-> Each(f, parts[k])]) = Each(f, Joined(parts))
  <1> DEFINE n == Len(parts)
             mapped == [k \in DOMAIN parts |-> Each(f, parts[k])]
  <1>1. n \in Nat /\ DOMAIN parts = 1..n /\ \A i \in 1..n : parts[i] \in Seq(S)
    OBVIOUS
  <1>2. ASSUME NEW s \in Seq(S) PROVE Each(f, s) \in Seq(X) /\ Len(Each(f, s)) = Len(s)
    <2>1. Each(f, s) \in [1..Len(s) -> X] /\ Len(s) \in Nat
      BY DEF Each
    <2> QED BY <2>1
  <1>3. ASSUME NEW s \in Seq(S), NEW t \in Seq(S)
        PROVE  Each(f, s \o t) = Each(f, s) \o Each(f, t)
    <2> DEFINE w == s \o t
    <2>1. /\ w \in Seq(S) /\ Len(w) = Len(s) + Len(t) /\ Len(s) \in Nat /\ Len(t) \in Nat
          /\ \A i \in 1..Len(w) : w[i] = IF i <= Len(s) THEN s[i] ELSE t[i - Len(s)]
      OBVIOUS
    <2>2. /\ Each(f, w) \in Seq(X) /\ Len(Each(f, w)) = Len(w)
          /\ Each(f, s) \in Seq(X) /\ Len(Each(f, s)) = Len(s)
          /\ Each(f, t) \in Seq(X) /\ Len(Each(f, t)) = Len(t)
      BY <1>2, <2>1
    <2>3. /\ \A i \in 1..Len(w) : Each(f, w)[i] = f[w[i]]
          /\ \A i \in 1..Len(s) : Each(f, s)[i] = f[s[i]]
          /\ \A i \in 1..Len(t) : Each(f, t)[i] = f[t[i]]
      BY <2>1 DEF Each
    <2> DEFINE u == Each(f, s)
               v == Each(f, t)
    <2> HIDE DEF w, u, v
    <2>4. /\ u \o v \in Seq(X) /\ Len(u \o v) = Len(s) + Len(t)
          /\ \A i \in 1..Len(w) : (u \o v)[i] = IF i <= Len(s) THEN u[i] ELSE v[i - Len(s)]
      BY <2>1, <2>2 DEF u, v
    <2>5. \A i \in 1..Len(w) : Each(f, w)[i] = (u \o v)[i]
      <3> TAKE i \in 1..Len(w)
      <3>1. CASE i <= Len(s)
        <4>1. i \in 1..Len(s) /\ w[i] = s[i] /\ (u \o v)[i] = u[i]
          <5>1. i \in 1..Len(s)
            BY ONLY <2>1, <3>1, i \in 1..Len(w)
          <5>2. w[i] = s[i]
            BY ONLY <2>1, <3>1, i \in 1..Len(w)
          <5>3. (u \o v)[i] = u[i]
            BY ONLY <2>4, <3>1, i \in 1..Len(w)
          <5> QED BY <5>1, <5>2, <5>3
        <4>2. u[i] = f[s[i]] /\ Each(f, w)[i] = f[w[i]]
          BY <2>3, <4>1 DEF u
        <4> QED BY <4>1, <4>2
      <3>2. CASE ~(i <= Len(s))
        <4> DEFINE j == i - Len(s)
        <4>1. j \in 1..Len(t) /\ w[i] = t[j] /\ (u \o v)[i] = v[j]
          <5>1. j \in 1..Len(t)
            BY ONLY <2>1, <3>2, i \in 1..Len(w)
          <5>2. w[i] = t[j]
            BY ONLY <2>1, <3>2, i \in 1..Len(w)
          <5>3. (u \o v)[i] = v[j]
            BY ONLY <2>4, <3>2, i \in 1..Len(w)
          <5> QED BY <5>1, <5>2, <5>3
        <4> HIDE DEF j
        <4>2. v[j] = f[t[j]] /\ Each(f, w)[i] = f[w[i]]
          BY <2>3, <4>1 DEF v
        <4> QED BY <4>1, <4>2
      <3> QED BY <3>1, <3>2
    <2> QED BY <2>1, <2>2, <2>4, <2>5, SameSequences DEF w, u, v
  <1>4. mapped \in Seq(Seq(X)) /\ Len(mapped) = n /\ \A k \in 1..n : mapped[k] = Each(f, parts[k])
    <2> HIDE DEF n
    <2>1. mapped \in [1..n -> Seq(X)]
      BY <1>1, <1>2
    <2> QED BY <1>1, <2>1
  <1>5. PICK acc : /\ acc \in [0..n -> Seq(S)] /\ acc[0] = <<>>
                   /\ \A i \in 1..n : acc[i] = acc[i - 1] \o parts[i]
                   /\ Joined(parts) = acc[n]
    BY JoinedLoop
  <1> HIDE DEF n, mapped
  <1>6. PICK made : /\ made \in [0..n -> Seq(X)] /\ made[0] = <<>>
                    /\ \A i \in 1..n : made[i] = made[i - 1] \o mapped[i]
                    /\ Joined(mapped) = made[n]
    BY <1>4, JoinedLoop
  <1> DEFINE T == {m \in 0..n : made[m] = Each(f, acc[m])}
  <1>7. 0 \in T
    <2>1. Each(f, <<>>) = <<>>
      BY DEF Each
    <2> QED BY <1>1, <1>5, <1>6, <2>1
  <1>8. ASSUME NEW m \in 1..n, m - 1 \in T PROVE m \in T
    <2>1. m - 1 \in 0..n /\ m \in 0..n /\ acc[m - 1] \in Seq(S) /\ parts[m] \in Seq(S)
      <3>1. m - 1 \in 0..n /\ m \in 0..n
        BY <1>1
      <3> QED BY <1>1, <1>5, <3>1
    <2>2. made[m] = Each(f, acc[m - 1]) \o Each(f, parts[m])
      BY <1>4, <1>6, <1>8
    <2>3. made[m] = Each(f, acc[m])
      BY <1>3, <1>5, <2>1, <2>2
    <2> QED BY <2>1, <2>3
  <1> HIDE DEF T
  <1>9. n \in T
    <2>1. 0..n \subseteq T
      BY <1>1, <1>7, <1>8, TurnInduction
    <2> QED BY <1>1, <2>1
  <1> QED BY <1>5, <1>6, <1>9 DEF T, mapped

\* What one AVP each was built from builds them all.
LEMMA OnesGathered ==
    ASSUME NEW S, NEW b \in Seq(S)
    PROVE  Gathered([i \in DOMAIN b |-> [ok |-> TRUE, avps |-> <<b[i]>>]]) = [ok |-> TRUE, avps |-> b]
  <1> DEFINE n == Len(b)
             ones == [i \in DOMAIN b |-> <<b[i]>>]
             built == [i \in DOMAIN b |-> [ok |-> TRUE, avps |-> <<b[i]>>]]
  <1>1. n \in Nat /\ DOMAIN b = 1..n /\ \A i \in 1..n : b[i] \in S
    OBVIOUS
  <1>2. /\ DOMAIN built = 1..n
        /\ \A i \in 1..n : built[i].ok /\ built[i].avps = <<b[i]>>
    BY <1>1
  <1>3. [i \in DOMAIN built |-> built[i].avps] = ones
    BY <1>1, <1>2
  <1>4. Gathered(built) = [ok |-> TRUE, avps |-> Joined(ones)]
    <2> HIDE DEF built, ones, n
    <2> QED BY <1>2, <1>3 DEF Gathered
  <1>5. ones \in Seq(Seq(S)) /\ Len(ones) = n /\ \A i \in 1..n : ones[i] = <<b[i]>>
    <2> HIDE DEF n
    <2>1. \A i \in 1..n : <<b[i]>> \in Seq(S)
      BY <1>1
    <2>2. ones \in [1..n -> Seq(S)]
      BY <1>1, <2>1
    <2> QED BY <1>1, <2>2
  <1> HIDE DEF n, ones, built
  <1>6. PICK acc : /\ acc \in [0..n -> Seq(S)] /\ acc[0] = <<>>
                   /\ \A i \in 1..n : acc[i] = acc[i - 1] \o ones[i]
                   /\ Joined(ones) = acc[n]
    BY <1>5, JoinedLoop
  <1> DEFINE T == {m \in 0..n : Len(acc[m]) = m /\ \A i \in 1..m : acc[m][i] = b[i]}
  <1>7. 0 \in T
    BY <1>1, <1>6
  <1>8. ASSUME NEW m \in 1..n, m - 1 \in T PROVE m \in T
    <2> DEFINE s == acc[m - 1]
    <2>1. m - 1 \in 0..n /\ m \in 0..n /\ s \in Seq(S) /\ b[m] \in S
          /\ acc[m] = s \o <<b[m]>>
      <3>1. m - 1 \in 0..n /\ m \in 0..n
        BY <1>1
      <3> QED BY <1>1, <1>5, <1>6, <3>1
    <2>2. Len(s) = m - 1 /\ \A i \in 1..(m - 1) : s[i] = b[i]
      BY <1>8
    <2> HIDE DEF s
    <2>3. Len(acc[m]) = m /\ \A i \in 1..m : acc[m][i] = b[i]
      BY <2>1, <2>2
    <2> QED BY <2>1, <2>3
  <1> HIDE DEF T
  <1>9. n \in T
    <2>1. 0..n \subseteq T
      BY <1>1, <1>7, <1>8, TurnInduction
    <2> QED BY <1>1, <2>1
  <1>10. /\ Joined(ones) \in Seq(S) /\ Len(Joined(ones)) = Len(b)
         /\ \A i \in 1..Len(Joined(ones)) : Joined(ones)[i] = b[i]
    BY <1>1, <1>6, <1>9 DEF T, n
  <1>11. Joined(ones) = b
    BY <1>10, SameSequences
  <1> QED BY <1>4, <1>11 DEF built

----------------------------------------------------------------------------
(* The AVPs of an object in JSON, in the order they are visited in           *)

\* A sequence that has each of n numbers once is n long.
LEMMA OnceEach ==
    ASSUME NEW n \in Nat, NEW p \in Seq(1..n),
           \A k \in 1..n : \E i \in 1..Len(p) : p[i] = k,
           \A i, j \in 1..Len(p) : i < j => p[i] # p[j]
    PROVE  Len(p) = n /\ Arrangement(p, n)
  <1> DEFINE m == Len(p)
             S == 1..n
  <1>1. m \in Nat /\ p \in [1..m -> 1..n]
    <2>1. p \in Seq(S)
      OBVIOUS
    <2> HIDE DEF S
    <2>2. m \in Nat /\ p \in [1..m -> S]
      BY <2>1
    <2> QED BY <2>2 DEF S
  <1> HIDE DEF m
  <1>2. \A i, j \in 1..m : p[i] = p[j] => i = j
    <2> SUFFICES ASSUME NEW i \in 1..m, NEW j \in 1..m, p[i] = p[j], i # j PROVE FALSE
      OBVIOUS
    <2>1. i < j \/ j < i
      BY <1>1
    <2> QED BY <2>1 DEF m
  <1>3. p \in Bijection(1..m, 1..n)
    BY <1>1, <1>2 DEF Bijection, Injection, Surjection, IsInjective, m
  <1>4. /\ IsFiniteSet(1..m) /\ Cardinality(1..m) = m
        /\ IsFiniteSet(1..n) /\ Cardinality(1..n) = n
    BY <1>1, FS_Interval
  <1>5. Cardinality(1..m) = Cardinality(1..n)
    <2>1. ExistsBijection(1..m, 1..n)
      BY <1>3 DEF ExistsBijection
    <2> QED BY <1>4, <2>1, FS_Bijection
  <1>6. m = n
    BY <1>4, <1>5
  <1> QED BY <1>1, <1>6 DEF Arrangement, m

\* One AVP is visited before another by its name, or by its place if they share it.
VisitedBefore(avps, i, j) ==
    \/ KeyBefore(NameOf(avps[i]), NameOf(avps[j]))
    \/ NameOf(avps[i]) = NameOf(avps[j]) /\ i < j

\* The AVPs in the order they are visited in.
Visits(avps, p) ==
    /\ Arrangement(p, Len(avps))
    /\ \A i, j \in 1..Len(avps) : i < j => VisitedBefore(avps, p[i], p[j])

\* Nothing comes before itself there.
LEMMA NeverBeforeItself ==
    ASSUME NEW k \in Keys PROVE ~KeyBefore(k, k)
  <1>1. k[2] \in Int /\ k[3] \in Int /\ KeyRank[k[1]] \in Nat
    BY RankAssumption DEF Keys
  <1> QED BY <1>1 DEF KeyBefore

\* The loop over the items of an object comes to each AVP of it once, in that
\* order, with its name and its value.
LEMMA VisitArranges ==
    ASSUME NEW avps \in Seq(Avps), NEW V, NEW values \in Seq(V), Len(values) = Len(avps)
    PROVE  \E p : /\ Visits(avps, p)
                  /\ Visited(ItemsOf(avps, values))
                       = [k \in 1..Len(avps) |->
                             [key |-> NameOf(avps[p[k]]), value |-> values[p[k]]]]
  <1> DEFINE n == Len(avps)
             names == {NameOf(avps[i]) : i \in DOMAIN avps}
             keys == InOrder(names)
             at(key) == {i \in DOMAIN avps : NameOf(avps[i]) = key}
             places(key) == Ascending(at(key))
             under(key) == [j \in DOMAIN places(key) |-> values[places(key)[j]]]
             m == Cardinality(names)
             parts == [k \in DOMAIN keys |-> places(keys[k])]
             elem == [i \in 1..n |-> [key |-> NameOf(avps[i]), value |-> values[i]]]
             items == ItemsOf(avps, values)
             R == {pair \in (1..n) \X (1..n) : VisitedBefore(avps, pair[1], pair[2])}
  <1>1. n \in Nat /\ DOMAIN avps = 1..n /\ \A i \in 1..n : avps[i] \in Avps
    OBVIOUS
  <1>2. items = [k \in DOMAIN keys |-> Collect(keys[k], under(keys[k]))]
    BY DEF ItemsOf
  <1> HIDE DEF n, items
  <1>3. names \in SUBSET Keys /\ IsFiniteSet(names)
    BY NamesTyped
  <1>4. /\ m \in Nat /\ keys \in [1..m -> names]
        /\ \A k \in names : \E i \in DOMAIN keys : keys[i] = k
        /\ \A i, j \in DOMAIN keys : i < j <=> KeyBefore(keys[i], keys[j])
    <2> HIDE DEF names
    <2> QED BY <1>3, KeysOrdered
  <1>5. \A i \in 1..n : NameOf(avps[i]) \in names
    BY <1>1
  <1>6. \A key : \A i : i \in at(key) <=> i \in 1..n /\ NameOf(avps[i]) = key
    BY <1>1
  <1> HIDE DEF names, keys, m
  <1>7. DOMAIN parts = 1..m /\ \A k \in 1..m : parts[k] = places(keys[k])
    BY <1>4
  <1> HIDE DEF parts
  <1>8. ASSUME NEW k \in 1..m
        PROVE  /\ parts[k] \in Seq(1..n) /\ DOMAIN parts[k] = 1..Len(parts[k])
               /\ \A j \in 1..Len(parts[k]) :
                    parts[k][j] \in 1..n /\ NameOf(avps[parts[k][j]]) = keys[k]
               /\ \A i \in at(keys[k]) : \E j \in 1..Len(parts[k]) : parts[k][j] = i
               /\ \A i, j \in 1..Len(parts[k]) : i < j => parts[k][i] < parts[k][j]
    <2> DEFINE set == at(keys[k])
               part == parts[k]
               l == Cardinality(set)
    <2>1. set \in SUBSET (1..n)
      BY <1>6
    <2>2. part = Ascending(set)
      BY <1>7
    <2>3. \A i \in set : i \in 1..n /\ NameOf(avps[i]) = keys[k]
      BY <1>6
    <2> HIDE DEF set, part
    <2>4. /\ l \in Nat /\ part \in [1..l -> set]
          /\ \A i \in set : \E j \in DOMAIN part : part[j] = i
          /\ \A i, j \in DOMAIN part : i < j => part[i] < part[j]
      BY <1>1, <2>1, <2>2, AscendingTyped
    <2> HIDE DEF l
    <2>5. part \in Seq(1..n) /\ Len(part) = l /\ DOMAIN part = 1..l
      <3> DEFINE S == 1..n
      <3>1. part \in [1..l -> S]
        BY <2>3, <2>4
      <3> HIDE DEF S
      <3>2. part \in Seq(S) /\ Len(part) = l /\ DOMAIN part = 1..l
        BY <2>4, <3>1
      <3> QED BY <3>2 DEF S
    <2>6. \A j \in 1..l : part[j] \in set
      BY <2>4
    <2> QED BY <2>3, <2>4, <2>5, <2>6 DEF set, part
  <1>9. parts \in Seq(Seq(1..n)) /\ Len(parts) = m
    <2>1. parts \in [1..m -> Seq(1..n)]
      <3>1. parts = [k \in 1..m |-> parts[k]]
        BY <1>7 DEF parts
      <3> QED BY <1>8, <3>1
    <2> QED BY <1>4, <2>1
  <1>10. elem \in [1..n -> ElemsOf(V)]
    <2>1. \A i \in 1..n : values[i] \in V /\ NameOf(avps[i]) \in Keys
      BY <1>1, NameTyped DEF n
    <2> QED BY <2>1 DEF ElemsOf
  <1>11. \A i \in 1..n : elem[i] = [key |-> NameOf(avps[i]), value |-> values[i]]
    OBVIOUS
  <1>12. elem = [i \in 1..n |-> elem[i]]
    OBVIOUS
  <1> HIDE DEF elem
  <1>13. ASSUME NEW k \in 1..m
         PROVE  [j \in DOMAIN items[k].values |->
                   [key |-> items[k].key, value |-> items[k].values[j]]] = Each(elem, parts[k])
    <2> DEFINE part == parts[k]
    <2>1. items[k] = Collect(keys[k], [j \in DOMAIN part |-> values[part[j]]])
      <3>1. DOMAIN keys = 1..m
        BY <1>4
      <3>2. items[k] = Collect(keys[k], under(keys[k]))
        BY <1>2, <3>1
      <3> QED BY <1>7, <3>2
    <2> HIDE DEF part
    <2>2. items[k].key = keys[k] /\ items[k].values = [j \in DOMAIN part |-> values[part[j]]]
      BY <2>1 DEF Collect
    <2>3. \A j \in DOMAIN part :
            [key |-> keys[k], value |-> values[part[j]]] = elem[part[j]]
      <3> TAKE j \in DOMAIN part
      <3>1. j \in 1..Len(part)
        BY <1>8 DEF part
      <3>2. part[j] \in 1..n /\ NameOf(avps[part[j]]) = keys[k]
        BY <1>8, <3>1 DEF part
      <3>3. elem[part[j]] = [key |-> NameOf(avps[part[j]]), value |-> values[part[j]]]
        BY <1>11, <3>2
      <3> QED BY <3>2, <3>3
    <2>4. [j \in DOMAIN items[k].values |->
              [key |-> items[k].key, value |-> items[k].values[j]]]
            = [j \in DOMAIN part |-> [key |-> keys[k], value |-> values[part[j]]]]
      BY <2>2
    <2>5. Each(elem, part) = [j \in DOMAIN part |-> elem[part[j]]]
      BY DEF Each
    <2> QED BY <2>3, <2>4, <2>5 DEF part
  <1>14. DOMAIN items = 1..m
    BY <1>2, <1>4
  <1>15. Visited(items) = Joined([k \in 1..m |-> Each(elem, parts[k])])
    <2>1. Visited(items) = Joined([k \in 1..m |-> [j \in DOMAIN items[k].values |->
                   [key |-> items[k].key, value |-> items[k].values[j]]]])
      BY <1>14 DEF Visited
    <2>2. [k \in 1..m |-> [j \in DOMAIN items[k].values |->
                   [key |-> items[k].key, value |-> items[k].values[j]]]]
            = [k \in 1..m |-> Each(elem, parts[k])]
      BY <1>13
    <2> QED BY <2>1, <2>2
  <1> DEFINE p == Joined(parts)
  <1>16. Visited(items) = Each(elem, p)
    <2> DEFINE S == 1..n
               X == ElemsOf(V)
    <2> HIDE DEF S, X
    <2>1. parts \in Seq(Seq(S)) /\ elem \in [S -> X]
      BY <1>9, <1>10 DEF S, X
    <2>2. Joined([k \in DOMAIN parts |-> Each(elem, parts[k])]) = Each(elem, Joined(parts))
      BY <2>1, JoinedEach
    <2> QED BY <1>7, <1>15, <2>2
  <1>17. p \in Seq(1..n)
    BY <1>9, JoinedTyped
  <1>18. IsRanked(parts, R)
    <2>1. ASSUME NEW k \in 1..m, NEW i \in 1..Len(parts[k]), NEW j \in 1..Len(parts[k]), i < j
          PROVE  <<parts[k][i], parts[k][j]>> \in R
      <3>1. /\ parts[k][i] \in 1..n /\ parts[k][j] \in 1..n /\ parts[k][i] < parts[k][j]
            /\ NameOf(avps[parts[k][i]]) = NameOf(avps[parts[k][j]])
        BY <1>8, <2>1
      <3> QED BY <3>1 DEF VisitedBefore
    <2>2. ASSUME NEW k \in 1..m, NEW l \in 1..m, k < l,
                 NEW i \in 1..Len(parts[k]), NEW j \in 1..Len(parts[l])
          PROVE  <<parts[k][i], parts[l][j]>> \in R
      <3>1. /\ parts[k][i] \in 1..n /\ NameOf(avps[parts[k][i]]) = keys[k]
            /\ parts[l][j] \in 1..n /\ NameOf(avps[parts[l][j]]) = keys[l]
        BY <1>8
      <3>2. KeyBefore(keys[k], keys[l])
        BY <1>4, <2>2
      <3> QED BY <3>1, <3>2 DEF VisitedBefore
    <2> HIDE DEF R
    <2> QED BY <1>7, <2>1, <2>2 DEF IsRanked
  <1>19. \A i, j \in 1..Len(p) : i < j => VisitedBefore(avps, p[i], p[j])
    <2>1. \A i, j \in 1..Len(p) : i < j => <<p[i], p[j]>> \in R
      <3> HIDE DEF R
      <3> QED BY <1>9, <1>18, JoinedRanked
    <2> HIDE DEF p
    <2> QED BY <2>1
  <1>20. \A i \in 1..n : \E k \in 1..Len(p) : p[k] = i
    <2> TAKE i \in 1..n
    <2>1. PICK k \in 1..m : keys[k] = NameOf(avps[i])
      BY <1>4, <1>5
    <2>2. i \in at(keys[k])
      BY <1>6, <2>1
    <2>3. PICK j \in 1..Len(parts[k]) : parts[k][j] = i
      BY <1>8, <2>2
    <2>4. \E x \in 1..Len(p) : p[x] = parts[k][j]
      <3>1. k \in 1..Len(parts)
        BY <1>9
      <3> HIDE DEF p
      <3> QED BY <1>9, <3>1, JoinedReaches DEF p
    <2> QED BY <2>3, <2>4
  <1> HIDE DEF p
  <1>21. \A i \in 1..n : ~VisitedBefore(avps, i, i)
    BY <1>1, NameTyped, NeverBeforeItself DEF VisitedBefore
  <1>22. \A i, j \in 1..Len(p) : i < j => p[i] # p[j]
    <2> DEFINE S == 1..n
    <2>1. p \in Seq(S)
      BY <1>17
    <2> HIDE DEF S
    <2>2. \A i \in 1..Len(p) : p[i] \in S
      BY <2>1
    <2> QED BY <1>19, <1>21, <2>2 DEF S
  <1>23. Len(p) = n /\ Arrangement(p, n)
    BY <1>1, <1>17, <1>20, <1>22, OnceEach
  <1>24. Visits(avps, p)
    BY <1>19, <1>23 DEF Visits, n
  <1>25. Each(elem, p) = [k \in 1..n |-> [key |-> NameOf(avps[p[k]]), value |-> values[p[k]]]]
    <2>1. DOMAIN p = 1..n /\ \A k \in 1..n : p[k] \in 1..n
      BY <1>23 DEF Arrangement
    <2> QED BY <1>11, <2>1 DEF Each
  <1> QED BY <1>16, <1>24, <1>25 DEF items, n

----------------------------------------------------------------------------
(* Arrangements                                                              *)

\* A key is not before one that is before it.
LEMMA KeysOneWay ==
    ASSUME NEW k \in Keys, NEW l \in Keys, KeyBefore(k, l)
    PROVE  k # l /\ ~KeyBefore(l, k)
  <1>1. /\ k[2] \in Int /\ k[3] \in Int /\ KeyRank[k[1]] \in Nat
        /\ l[2] \in Int /\ l[3] \in Int /\ KeyRank[l[1]] \in Nat
    BY RankAssumption DEF Keys
  <1>2. ~KeyBefore(l, k)
    BY <1>1 DEF KeyBefore
  <1> QED BY <1>2

\* An arrangement has each number once.
LEMMA ArrangedOnce ==
    ASSUME NEW n \in Nat, NEW p, Arrangement(p, n)
    PROVE  p \in Bijection(1..n, 1..n) /\ \A i, j \in 1..n : p[i] = p[j] => i = j
  <1>1. p \in Surjection(1..n, 1..n)
    BY DEF Arrangement, Surjection
  <1>2. IsFiniteSet(1..n)
    BY FS_Interval
  <1>3. p \in Injection(1..n, 1..n)
    BY <1>1, <1>2, FS_Surjection
  <1> QED BY <1>1, <1>3 DEF Bijection, Injection, IsInjective

\* What is arranged twice is arranged.
LEMMA ArrangedAgain ==
    ASSUME NEW n \in Nat, NEW p, NEW r, Arrangement(p, n), Arrangement(r, n)
    PROVE  Arrangement([i \in 1..n |-> p[r[i]]], n)
  <1> DEFINE q == [i \in 1..n |-> p[r[i]]]
  <1>1. \A i \in 1..n : r[i] \in 1..n /\ p[r[i]] \in 1..n
    BY DEF Arrangement
  <1>2. \A k \in 1..n : \E i \in 1..n : q[i] = k
    <2> TAKE k \in 1..n
    <2>1. PICK j \in 1..n : p[j] = k
      BY DEF Arrangement
    <2>2. PICK i \in 1..n : r[i] = j
      BY DEF Arrangement
    <2>3. q[i] = k
      BY <2>1, <2>2
    <2> QED BY <2>3
  <1>3. q \in [1..n -> 1..n]
    BY <1>1
  <1> QED BY <1>2, <1>3 DEF Arrangement

\* The only arrangement of numbers that leaves them in order is theirs.
LEMMA RisingIsTheirs ==
    ASSUME NEW n \in Nat, NEW p, Arrangement(p, n),
           \A i, j \in 1..n : i < j => p[i] < p[j]
    PROVE  \A i \in 1..n : p[i] = i
  <1> DEFINE T == {m \in 0..n : \A i \in 1..m : p[i] = i}
  <1>1. \A i \in 1..n : p[i] \in 1..n
    BY DEF Arrangement
  <1>2. 0 \in T
    OBVIOUS
  <1>3. ASSUME NEW m \in 1..n, m - 1 \in T PROVE m \in T
    <2>1. \A i \in 1..(m - 1) : p[i] = i
      BY <1>3
    <2>2. ~(p[m] < m)
      <3> SUFFICES ASSUME p[m] < m PROVE FALSE
        OBVIOUS
      <3> DEFINE k == p[m]
      <3>1. k \in 1..(m - 1) /\ k \in 1..n /\ k < m
        BY <1>1
      <3>2. p[k] = k /\ p[k] < k
        BY <2>1, <3>1
      <3> QED BY <3>1, <3>2
    <2>3. ~(p[m] > m)
      <3> SUFFICES ASSUME p[m] > m PROVE FALSE
        OBVIOUS
      <3>1. PICK i \in 1..n : p[i] = m
        BY DEF Arrangement
      <3>2. CASE i < m
        <4>1. i \in 1..(m - 1)
          BY <3>2
        <4> QED BY <2>1, <3>1, <3>2, <4>1
      <3>3. CASE i > m
        BY <1>1, <3>1, <3>3
      <3>4. CASE i = m
        BY <3>1, <3>4
      <3> QED BY <3>2, <3>3, <3>4
    <2>4. p[m] = m
      BY <1>1, <2>2, <2>3
    <2>5. \A i \in 1..m : p[i] = i
      <3> TAKE i \in 1..m
      <3>1. i = m \/ i \in 1..(m - 1)
        OBVIOUS
      <3> QED BY <2>1, <2>4, <3>1
    <2> QED BY <2>5
  <1> HIDE DEF T
  <1>4. n \in T
    <2>1. 0..n \subseteq T
      BY <1>2, <1>3, TurnInduction
    <2> QED BY <2>1
  <1> QED BY <1>4 DEF T

\* Arranged anew, a sequence has the same elements as often.
LEMMA CountsArranged ==
    ASSUME NEW S, NEW x \in Seq(S), NEW q, Arrangement(q, Len(x))
    PROVE  Counts([i \in 1..Len(x) |-> x[q[i]]]) = Counts(x)
  <1> DEFINE n == Len(x)
             y == [i \in 1..n |-> x[q[i]]]
  <1>1. n \in Nat /\ DOMAIN x = 1..n
    OBVIOUS
  <1> HIDE DEF n
  <1>2. Arrangement(q, n)
    BY DEF n
  <1>3. q \in Bijection(1..n, 1..n) /\ \A i, j \in 1..n : q[i] = q[j] => i = j
    BY <1>1, <1>2, ArrangedOnce
  <1>4. /\ \A i \in 1..n : q[i] \in 1..n
        /\ \A k \in 1..n : \E i \in 1..n : q[i] = k
    BY <1>2 DEF Arrangement
  <1>5. DOMAIN y = 1..n /\ \A i \in 1..n : y[i] = x[q[i]]
    OBVIOUS
  <1> HIDE DEF y
  <1>6. ToSet(y) = ToSet(x)
    <2>1. ToSet(y) = {y[i] : i \in 1..n} /\ ToSet(x) = {x[i] : i \in 1..n}
      BY <1>1, <1>5 DEF ToSet
    <2>2. \A i \in 1..n : y[i] \in {x[k] : k \in 1..n}
      BY <1>4, <1>5
    <2>3. \A k \in 1..n : x[k] \in {y[i] : i \in 1..n}
      <3> TAKE k \in 1..n
      <3>1. PICK i \in 1..n : q[i] = k
        BY <1>4
      <3>2. y[i] = x[k]
        BY <1>5, <3>1
      <3> QED BY <3>2
    <2> QED BY <2>1, <2>2, <2>3
  <1>7. ASSUME NEW e
        PROVE  Cardinality({i \in DOMAIN y : y[i] = e}) = Cardinality({i \in DOMAIN x : x[i] = e})
    <2> DEFINE A == {i \in 1..n : y[i] = e}
               B == {i \in 1..n : x[i] = e}
               f == [i \in A |-> q[i]]
    <2>1. \A i \in A : i \in 1..n /\ q[i] \in B
      BY <1>4, <1>5
    <2>2. \A k \in B : \E i \in A : q[i] = k
      <3> TAKE k \in B
      <3>1. PICK i \in 1..n : q[i] = k
        BY <1>4
      <3>2. i \in A
        BY <1>5, <3>1
      <3> QED BY <3>1, <3>2
    <2>3. IsFiniteSet(A)
      <3>1. IsFiniteSet(1..n) /\ A \subseteq 1..n
        BY <1>1, FS_Interval
      <3> QED BY <3>1, FS_Subset
    <2> HIDE DEF A, B
    <2>4. f \in Bijection(A, B)
      BY <1>3, <2>1, <2>2 DEF Bijection, Injection, Surjection, IsInjective
    <2>5. Cardinality(B) = Cardinality(A)
      <3>1. ExistsBijection(A, B)
        BY <2>4 DEF ExistsBijection
      <3> QED BY <2>3, <3>1, FS_Bijection
    <2> QED BY <1>1, <1>5, <2>5 DEF A, B
  <1>8. Counts(y) = Counts(x)
    BY <1>6, <1>7 DEF Counts
  <1> QED BY <1>8 DEF y, n

----------------------------------------------------------------------------
(* An AVP among the values of an object, and what is built from it           *)

\* The element that an AVP is, and what is read when one AVP is.
Elem(avp) == [key |-> NameOf(avp), value |-> ToJson[avp]]
One(avp) == [ok |-> TRUE, avps |-> <<avp>>]

\* The AVP that JSON makes of another one: it has the same name, and JSON makes
\* it of itself.
ComesBack(avp, b) ==
    /\ b \in Avps /\ NameOf(b) = NameOf(avp)
    /\ FromJson[Elem(avp)] = One(b) /\ FromJson[Elem(b)] = One(b)

\* Each AVP is read as the one in its place, which has its name.
Back(avps, back) ==
    /\ avps \in Seq(Avps) /\ back \in Seq(Avps) /\ Len(back) = Len(avps)
    /\ \A i \in 1..Len(avps) : /\ FromJson[Elem(avps[i])] = One(back[i])
                               /\ NameOf(back[i]) = NameOf(avps[i])

\* AVPs are read as theirs, in the order they are visited in.
LEMMA ItemsBack ==
    ASSUME NEW avps, NEW back, Back(avps, back)
    PROVE  \E p : /\ Visits(avps, p)
                  /\ FromItems(ItemsOfAll(avps))
                       = [ok |-> TRUE, avps |-> [k \in 1..Len(avps) |-> back[p[k]]]]
  <1> USE DEF Back
  <1> DEFINE n == Len(avps)
             values == Each(ToJson, avps)
  <1>1. n \in Nat /\ \A i \in 1..n : avps[i] \in Avps /\ back[i] \in Avps
    OBVIOUS
  <1>2. values \in Seq(JsonValues) /\ Len(values) = n /\ \A i \in 1..n : values[i] = ToJson[avps[i]]
    BY EachOf, ToJsonDefined
  <1>3. ItemsOfAll(avps) = ItemsOf(avps, values)
    BY DEF ItemsOfAll, Each
  <1> HIDE DEF values
  <1>4. PICK p : /\ Visits(avps, p)
                 /\ Visited(ItemsOf(avps, values))
                      = [k \in 1..n |-> [key |-> NameOf(avps[p[k]]), value |-> values[p[k]]]]
    <2>1. avps \in Seq(Avps) /\ values \in Seq(JsonValues) /\ Len(values) = Len(avps)
      BY <1>2
    <2> HIDE DEF Back
    <2> QED BY <2>1, VisitArranges
  <1>5. \A k \in 1..n : p[k] \in 1..n
    BY <1>4 DEF Visits, Arrangement
  <1> DEFINE elems == Visited(ItemsOfAll(avps))
             b == [k \in 1..n |-> back[p[k]]]
  <1>6. elems = [k \in 1..n |-> Elem(avps[p[k]])]
    BY <1>2, <1>3, <1>4, <1>5 DEF Elem
  <1> HIDE DEF n
  <1>7. b \in Seq(Avps) /\ DOMAIN b = 1..n
    <2>1. b \in [1..n -> Avps]
      BY <1>1, <1>5
    <2> QED BY <1>1, <2>1
  <1>8. [i \in DOMAIN elems |-> FromJson[elems[i]]]
          = [i \in DOMAIN b |-> [ok |-> TRUE, avps |-> <<b[i]>>]]
    <2>1. \A i \in 1..n : FromJson[Elem(avps[p[i]])] = One(back[p[i]])
      BY <1>5 DEF n
    <2>2. \A i \in 1..n : FromJson[elems[i]] = [ok |-> TRUE, avps |-> <<b[i]>>]
      <3> HIDE DEF elems
      <3> QED BY <1>6, <2>1 DEF One
    <2>3. DOMAIN elems = 1..n
      BY <1>6
    <2> HIDE DEF elems, b
    <2> QED BY <1>7, <2>2, <2>3
  <1>9. FromItems(ItemsOfAll(avps)) = Gathered([i \in DOMAIN elems |-> FromJson[elems[i]]])
    BY DEF FromItems
  <1> HIDE DEF elems, b
  <1>10. FromItems(ItemsOfAll(avps)) = [ok |-> TRUE, avps |-> b]
    BY <1>7, <1>8, <1>9, OnesGathered
  <1> QED BY <1>4, <1>10 DEF b, n

\* The order sortByRules leaves AVPs in that were visited by their names.
RankedBefore(avps, rules, i, j) ==
    \/ Rank(avps[i], rules) < Rank(avps[j], rules)
    \/ Rank(avps[i], rules) = Rank(avps[j], rules) /\ VisitedBefore(avps, i, j)

\* What fromJson makes, by these rules, of what toJson wrote.
Rebuilt(avps, rules) == SortByRules(FromItems(ItemsOfAll(avps)).avps, rules)

\* It is what the AVPs are read as, in that order.
LEMMA RebuiltArranges ==
    ASSUME NEW avps, NEW back, Back(avps, back), NEW X, NEW rules \in Seq(X)
    PROVE  /\ FromItems(ItemsOfAll(avps)).ok
           /\ \E q : /\ Arrangement(q, Len(avps))
                     /\ Rebuilt(avps, rules) = [i \in 1..Len(avps) |-> back[q[i]]]
                     /\ \A i, j \in 1..Len(avps) : i < j => RankedBefore(back, rules, q[i], q[j])
  <1> DEFINE n == Len(avps)
  <1>1. /\ n \in Nat /\ back \in Seq(Avps) /\ Len(back) = n
        /\ \A i \in 1..n : NameOf(back[i]) = NameOf(avps[i]) /\ back[i] \in Avps
    BY DEF Back
  <1>2. PICK p : /\ Visits(avps, p)
                 /\ FromItems(ItemsOfAll(avps)) = [ok |-> TRUE, avps |-> [k \in 1..n |-> back[p[k]]]]
    BY ItemsBack
  <1> HIDE DEF n
  <1>3. /\ Arrangement(p, n) /\ \A k \in 1..n : p[k] \in 1..n
        /\ \A i, j \in 1..n : i < j => VisitedBefore(avps, p[i], p[j])
    BY <1>2 DEF Visits, Arrangement, n
  <1> DEFINE b == [k \in 1..n |-> back[p[k]]]
  <1>4. b \in Seq(Avps) /\ Len(b) = n
    <2>1. b \in [1..n -> Avps]
      BY <1>1, <1>3
    <2> HIDE DEF b
    <2> QED BY <1>1, <2>1
  <1>5. \A k \in 1..n : b[k] = back[p[k]]
    OBVIOUS
  <1>6. FromItems(ItemsOfAll(avps)).ok /\ Rebuilt(avps, rules) = SortByRules(b, rules)
    BY <1>2 DEF Rebuilt
  <1> HIDE DEF b
  <1>7. PICK r : /\ Arrangement(r, n)
                 /\ SortByRules(b, rules) = [i \in 1..n |-> b[r[i]]]
                 /\ \A i, j \in 1..n : i < j =>
                      \/ Rank(b[r[i]], rules) < Rank(b[r[j]], rules)
                      \/ Rank(b[r[i]], rules) = Rank(b[r[j]], rules) /\ r[i] < r[j]
    BY <1>4, SortArranges
  <1> DEFINE q == [i \in 1..n |-> p[r[i]]]
  <1>8. Arrangement(q, n)
    BY <1>1, <1>3, <1>7, ArrangedAgain
  <1>9. \A i \in 1..n : r[i] \in 1..n /\ q[i] = p[r[i]] /\ b[r[i]] = back[q[i]]
    BY <1>5, <1>7 DEF Arrangement
  <1> HIDE DEF q
  <1>10. Rebuilt(avps, rules) = [i \in 1..n |-> back[q[i]]]
    BY <1>6, <1>7, <1>9
  <1>11. ASSUME NEW i \in 1..n, NEW j \in 1..n, i < j PROVE RankedBefore(back, rules, q[i], q[j])
    <2>1. \/ Rank(back[q[i]], rules) < Rank(back[q[j]], rules)
          \/ Rank(back[q[i]], rules) = Rank(back[q[j]], rules) /\ r[i] < r[j]
      BY <1>7, <1>9, <1>11
    <2>2. r[i] < r[j] => VisitedBefore(avps, q[i], q[j])
      BY <1>3, <1>9
    <2>3. q[i] \in 1..n /\ q[j] \in 1..n
      BY <1>8 DEF Arrangement
    <2>4. VisitedBefore(avps, q[i], q[j]) => VisitedBefore(back, q[i], q[j])
      BY <1>1, <2>3 DEF VisitedBefore
    <2> QED BY <2>1, <2>2, <2>4 DEF RankedBefore
  <1> QED BY <1>6, <1>8, <1>10, <1>11 DEF n

\* AVPs in that order, each of which comes back as it is, come back in it.
InRankOrder(avps, rules) ==
    \A i, j \in 1..Len(avps) : i < j =>
        \/ Rank(avps[i], rules) < Rank(avps[j], rules)
        \/ /\ Rank(avps[i], rules) = Rank(avps[j], rules)
           /\ \/ KeyBefore(NameOf(avps[i]), NameOf(avps[j]))
              \/ NameOf(avps[i]) = NameOf(avps[j])

\* Nothing is left to do about AVPs in that order.
LEMMA RebuiltAsTheyAre ==
    ASSUME NEW avps, Back(avps, avps), NEW X, NEW rules \in Seq(X), InRankOrder(avps, rules)
    PROVE  FromItems(ItemsOfAll(avps)).ok /\ Rebuilt(avps, rules) = avps
  <1> DEFINE n == Len(avps)
  <1>1. /\ n \in Nat /\ avps \in Seq(Avps) /\ avps = [i \in 1..n |-> avps[i]]
        /\ \A i \in 1..n : avps[i] \in Avps
    BY DEF Back
  <1>2. FromItems(ItemsOfAll(avps)).ok
    BY RebuiltArranges
  <1>3. PICK q : /\ Arrangement(q, n)
                 /\ Rebuilt(avps, rules) = [i \in 1..n |-> avps[q[i]]]
                 /\ \A i, j \in 1..n : i < j => RankedBefore(avps, rules, q[i], q[j])
    BY RebuiltArranges
  <1>4. /\ \A i \in 1..n : q[i] \in 1..n
        /\ \A i, j \in 1..n : q[i] = q[j] => i = j
    BY <1>1, <1>3, ArrangedOnce DEF Arrangement
  <1>5. \A i \in 1..n : Rank(avps[i], rules) \in Nat /\ NameOf(avps[i]) \in Keys
    BY <1>1, RankTyped, NameTyped
  <1>6. ASSUME NEW i \in 1..n, NEW j \in 1..n, i < j PROVE q[i] < q[j]
    <2> DEFINE k == q[i]
               l == q[j]
    <2>1. k \in 1..n /\ l \in 1..n /\ k # l /\ RankedBefore(avps, rules, k, l)
      BY <1>3, <1>4, <1>6
    <2> HIDE DEF k, l
    <2> SUFFICES ASSUME l < k PROVE FALSE
      BY <2>1 DEF k, l
    <2>2. \/ Rank(avps[l], rules) < Rank(avps[k], rules)
          \/ /\ Rank(avps[l], rules) = Rank(avps[k], rules)
             /\ \/ KeyBefore(NameOf(avps[l]), NameOf(avps[k]))
                \/ NameOf(avps[l]) = NameOf(avps[k])
      BY <2>1 DEF InRankOrder
    <2>3. /\ Rank(avps[l], rules) = Rank(avps[k], rules)
          /\ VisitedBefore(avps, k, l)
          /\ \/ KeyBefore(NameOf(avps[l]), NameOf(avps[k]))
             \/ NameOf(avps[l]) = NameOf(avps[k])
      BY <1>5, <2>1, <2>2 DEF RankedBefore
    <2>4. KeyBefore(NameOf(avps[k]), NameOf(avps[l]))
      BY <1>1, <2>1, <2>3 DEF VisitedBefore
    <2>5. /\ NameOf(avps[k]) # NameOf(avps[l])
          /\ ~KeyBefore(NameOf(avps[l]), NameOf(avps[k]))
      BY <1>5, <2>1, <2>4, KeysOneWay
    <2> QED BY <2>3, <2>5
  <1> HIDE DEF n
  <1>7. \A i \in 1..n : q[i] = i
    BY <1>1, <1>3, <1>6, RisingIsTheirs
  <1> QED BY <1>1, <1>2, <1>3, <1>7

\* What is rebuilt from AVPs that come back: them in another order, which
\* rebuilding it leaves.
AllComeBack(avps, back) ==
    Len(back) = Len(avps) /\ \A i \in 1..Len(avps) : ComesBack(avps[i], back[i])

LEMMA ListBack ==
    ASSUME NEW avps \in Seq(Avps), NEW back \in Seq(Avps), AllComeBack(avps, back),
           NEW X, NEW rules \in Seq(X)
    PROVE  LET s == Rebuilt(avps, rules) IN
           /\ FromItems(ItemsOfAll(avps)).ok
           /\ \E q : Arrangement(q, Len(avps)) /\ s = [i \in 1..Len(avps) |-> back[q[i]]]
           /\ s \in Seq(Avps) /\ Len(s) = Len(avps)
           /\ FromItems(ItemsOfAll(s)).ok /\ Rebuilt(s, rules) = s
  <1> DEFINE n == Len(avps)
             s == Rebuilt(avps, rules)
  <1>1. n \in Nat /\ \A i \in 1..n : back[i] \in Avps
    BY DEF AllComeBack
  <1>2. Back(avps, back)
    BY DEF Back, AllComeBack, ComesBack
  <1>3. FromItems(ItemsOfAll(avps)).ok
    BY <1>2, RebuiltArranges
  <1>4. PICK q : /\ Arrangement(q, n) /\ s = [i \in 1..n |-> back[q[i]]]
                 /\ \A i, j \in 1..n : i < j => RankedBefore(back, rules, q[i], q[j])
    BY <1>2, RebuiltArranges
  <1>5. \A i \in 1..n : ComesBack(avps[i], back[i])
    BY DEF AllComeBack
  <1> HIDE DEF n, s
  <1>6. \A i \in 1..n : q[i] \in 1..n /\ s[i] = back[q[i]]
    BY <1>4 DEF Arrangement
  <1>7. s \in Seq(Avps) /\ Len(s) = n
    <2>1. s \in [1..n -> Avps]
      BY <1>1, <1>4, <1>6
    <2> QED BY <1>1, <2>1
  <1>8. Back(s, s)
    BY <1>5, <1>6, <1>7 DEF Back, ComesBack
  <1>9. InRankOrder(s, rules)
    <2> SUFFICES ASSUME NEW i \in 1..n, NEW j \in 1..n, i < j
                 PROVE  \/ Rank(s[i], rules) < Rank(s[j], rules)
                        \/ /\ Rank(s[i], rules) = Rank(s[j], rules)
                           /\ \/ KeyBefore(NameOf(s[i]), NameOf(s[j]))
                              \/ NameOf(s[i]) = NameOf(s[j])
      BY <1>7 DEF InRankOrder
    <2>1. RankedBefore(back, rules, q[i], q[j])
      BY <1>4
    <2> QED BY <1>6, <2>1 DEF RankedBefore, VisitedBefore
  <1>10. FromItems(ItemsOfAll(s)).ok /\ Rebuilt(s, rules) = s
    BY <1>8, <1>9, RebuiltAsTheyAre
  <1> QED BY <1>3, <1>4, <1>7, <1>10 DEF n, s

----------------------------------------------------------------------------
(* Numbers                                                                   *)

\* A number that an alternative holds is read from JSON as it is.
LEMMA TypedBack ==
    ASSUME NEW type, IsNumber(type), NEW v \in NumbersOf[Kind[type]]
    PROVE  v \in Int /\ AsTyped(v, type) = v
  <1> DEFINE n == Width[type]
  <1>1. type \in {"Integer32", "Enumerated", "Integer64", "Unsigned32", "Time", "Unsigned64"}
    BY DEF IsNumber, Width
  <1>2. v \in Int /\ n \in 0..8
    BY ValueBack, WidthKnown
  <1>3. AsTyped(v, type) = IF IsSigned(type) THEN Signed(v, n) ELSE Unsigned(v, n)
    BY DEF AsTyped
  <1>4. CASE IsSigned(type)
    <2>1. v \in SignedOf(n)
      <3>1. CASE type \in {"Integer32", "Enumerated"}
        BY <3>1, NumbersKnown DEF Kind, Width
      <3>2. CASE type = "Integer64"
        BY <3>2, NumbersKnown DEF Kind, Width
      <3> QED BY <1>4, <3>1, <3>2 DEF IsSigned
    <2> HIDE DEF n
    <2> DEFINE u == Unsigned(v, n)
    <2>2. Signed(u, n) = v
      BY <1>2, <2>1, CastBack
    <2>3. u \in UnsignedOf(n)
      BY <1>2, UnsignedInRange DEF UnsignedOf
    <2>4. Unsigned(u, n) = u
      <3> HIDE DEF u
      <3> QED BY <1>2, <2>3, CastBack
    <2>5. Signed(v, n) = Signed(u, n)
      BY <2>4 DEF Signed
    <2> QED BY <1>2, <1>3, <1>4, <2>2, <2>5
  <1>5. CASE ~IsSigned(type)
    <2>1. v \in UnsignedOf(n)
      <3>1. CASE type \in {"Unsigned32", "Time"}
        BY <3>1, NumbersKnown DEF Kind, Width
      <3>2. CASE type = "Unsigned64"
        BY <3>2, NumbersKnown DEF Kind, Width
      <3> QED BY <1>1, <1>5, <3>1, <3>2 DEF IsSigned
    <2>2. Unsigned(v, n) = v
      BY <1>2, <2>1, CastBack
    <2> QED BY <1>2, <1>3, <1>5, <2>2
  <1> QED BY <1>4, <1>5

\* A time, as the seconds since another epoch.
LEMMA TimeBack ==
    ASSUME NEW v \in UnsignedOf(4)
    PROVE  AsTyped(Unsigned(v - EpochOffset, 4) + EpochOffset, "Time") = v
  <1> DEFINE V == Values[4]
             E == EpochOffset
             k == (v - E) \div V
             u == (v - E) % V
  <1>1. V \in Nat /\ V >= 1 /\ v \in 0..(V - 1) /\ E \in Int /\ v \in Int
    BY ValuesKnown, SizeAssumption DEF UnsignedOf
  <1>2. /\ Unsigned(v - EpochOffset, 4) = u
        /\ AsTyped(Unsigned(v - EpochOffset, 4) + EpochOffset, "Time") = (u + E) % V
    BY DEF Unsigned, AsTyped, IsSigned, Width
  <1> HIDE DEF V, E
  <1>3. k \in Int /\ u \in Int /\ v - E = V * k + u
    <2> DEFINE a == v - E
    <2>1. a \in Int
      BY <1>1
    <2> HIDE DEF a
    <2>2. a \div V \in Int /\ (a % V) \in Int /\ a = V * (a \div V) + (a % V)
      BY <1>1, <2>1
    <2> QED BY <2>2 DEF a
  <1> HIDE DEF k, u
  <1> DEFINE j == 0 - k
  <1>4. j \in Int /\ u + E = V * j + v
    <2>1. V * (0 - k) = 0 - V * k
      BY <1>1, <1>3
    <2>2. V * k \in Int
      BY <1>1, <1>3
    <2> QED BY <1>1, <1>3, <2>1, <2>2
  <1> HIDE DEF j
  <1>5. (V * j + v) % V = v
    BY <1>1, <1>4, Divided
  <1> QED BY <1>2, <1>4, <1>5

----------------------------------------------------------------------------
(* Which AVPs are the same                                                   *)

\* The likeness of an AVP from those of the AVPs within it.
LikenessWith(avp, kids) ==
    [id |-> avp.id, data |-> [avp.data EXCEPT !.kids = <<>>], kids |-> Counts(kids)]

\* Likeness is what its definition says: it is for AVPs nested so deep, and then
\* for those that are nested one deeper.
LEMMA LikenessDefined ==
    \A avp \in Avps : Likeness[avp] = LikenessWith(avp, Each(Likeness, avp.data.kids))
  <1> DEFINE Body(f, A) == [avp \in A |-> LikenessWith(avp, Each(f, avp.data.kids))]
             T == {d \in 0..MaxDepth : \E f : f = Body(f, Nested[d])}
  <1>1. MaxDepth \in Nat /\ Nested[MaxDepth] = Avps
    BY SizeAssumption DEF Avps
  <1>2. 0 \in T
    <2> DEFINE f == [avp \in Nested[0] |-> LikenessWith(avp, <<>>)]
    <2>1. \A avp \in Nested[0] : avp.data.kids = <<>>
      BY <1>1, DataOf DEF Within
    <2>2. \A avp \in Nested[0] : Each(f, avp.data.kids) = <<>>
      BY <2>1 DEF Each
    <2>3. f = Body(f, Nested[0])
      <3> HIDE DEF LikenessWith
      <3> QED BY <2>2
    <2> HIDE DEF f
    <2> QED BY <1>1, <2>3
  <1>3. ASSUME NEW d \in 1..MaxDepth, d - 1 \in T PROVE d \in T
    <2>1. d \in 0..MaxDepth /\ d - 1 \in 0..MaxDepth
      BY <1>1
    <2>2. PICK f : f = Body(f, Nested[d - 1])
      BY <1>3
    <2> DEFINE g == Body(f, Nested[d])
    <2>3. \A avp \in Nested[d - 1] : g[avp] = f[avp]
      <3> TAKE avp \in Nested[d - 1]
      <3>1. avp \in Nested[d]
        BY NestedGrows
      <3>2. g[avp] = LikenessWith(avp, Each(f, avp.data.kids))
        BY <3>1
      <3>3. f[avp] = LikenessWith(avp, Each(f, avp.data.kids))
        <4> DEFINE h == Body(f, Nested[d - 1])
        <4>1. h[avp] = LikenessWith(avp, Each(f, avp.data.kids))
          OBVIOUS
        <4> HIDE DEF h
        <4>2. f = h
          BY <2>2 DEF h
        <4> QED BY <4>1, <4>2
      <3> QED BY <3>2, <3>3
    <2>4. \A avp \in Nested[d] : Each(g, avp.data.kids) = Each(f, avp.data.kids)
      <3> HIDE DEF g
      <3> TAKE avp \in Nested[d]
      <3>1. avp.data.kids \in Within(d)
        BY <2>1, DataOf
      <3>2. AlikeBelow(g, f, d)
        BY <2>3 DEF AlikeBelow
      <3> QED BY <2>1, <3>1, <3>2, EachAlike
    <2>5. g = Body(g, Nested[d])
      <3>1. \A avp \in Nested[d] : LikenessWith(avp, Each(f, avp.data.kids))
                                      = LikenessWith(avp, Each(g, avp.data.kids))
        BY <2>4
      <3>2. Body(f, Nested[d]) = Body(g, Nested[d])
        <4> HIDE DEF g
        <4> QED BY <3>1
      <3> QED BY <3>2
    <2> HIDE DEF g, Body
    <2> QED BY <2>1, <2>5
  <1> HIDE DEF T
  <1>4. MaxDepth \in T
    <2>1. 0..MaxDepth \subseteq T
      BY <1>1, <1>2, <1>3, TurnInduction
    <2> QED BY <1>1, <2>1
  <1>5. PICK f : f = Body(f, Avps)
    BY <1>1, <1>4 DEF T
  <1>6. Likeness = Body(Likeness, Avps)
    BY <1>5 DEF Likeness, LikenessWith, Each
  <1> DEFINE h == Body(Likeness, Avps)
  <1>7. \A avp \in Avps : h[avp] = LikenessWith(avp, Each(Likeness, avp.data.kids))
    OBVIOUS
  <1>8. Likeness = h
    BY <1>6
  <1> HIDE DEF h
  <1> QED BY <1>7, <1>8

\* What JSON may change of the data leaves the likeness.
LEMMA SameLikeness ==
    ASSUME NEW avp \in Avps, NEW b \in Avps, b.id = avp.id,
           b.data.kind = avp.data.kind, b.data.num = avp.data.num,
           b.data.text = avp.data.text,
           Counts(Each(Likeness, b.data.kids)) = Counts(Each(Likeness, avp.data.kids))
    PROVE  Likeness[b] = Likeness[avp]
  <1> DEFINE of(x) == [x.data EXCEPT !.kids = <<>>]
             all(x) == [kind |-> x.data.kind, num |-> x.data.num,
                        text |-> x.data.text, kids |-> <<>>]
  <1>1. ASSUME NEW x \in Avps PROVE of(x) = all(x)
    <2> DEFINE data == x.data
    <2>1. data = [kind |-> data.kind, num |-> data.num, text |-> data.text, kids |-> data.kids]
      <3>1. MaxDepth \in 0..MaxDepth /\ Avps = Nested[MaxDepth]
        BY SizeAssumption DEF Avps
      <3>2. x.data \in DataWith(Within(MaxDepth))
        BY <3>1, AvpFields
      <3>3. <<>> \in Within(MaxDepth)
        BY DEF Within
      <3> QED BY <3>2, <3>3, DataFields
    <2> HIDE DEF data
    <2>2. [data EXCEPT !.kids = <<>>]
            = [kind |-> data.kind, num |-> data.num, text |-> data.text, kids |-> <<>>]
      BY <2>1
    <2> QED BY <2>2 DEF data
  <1>2. of(b) = of(avp)
    BY <1>1
  <1>3. LikenessWith(b, Each(Likeness, b.data.kids)) = LikenessWith(avp, Each(Likeness, avp.data.kids))
    BY <1>2 DEF LikenessWith
  <1> QED BY <1>3, LikenessDefined

----------------------------------------------------------------------------
(* One AVP                                                                   *)

\* An AVP that toJson writes by its name.
IsNamed(avp) == ~avp.raw /\ avp.id \in DOMAIN Dict

\* fromJson finds the AVP by the name that toJson gave it, or by its number.
Returnable(avp) ==
    /\ HoldsData(avp)
    /\ IF IsNamed(avp)
       THEN /\ Dict[avp.id].type # "Any"
            /\ Dict[avp.id].name \in DOMAIN Index /\ Index[Dict[avp.id].name] = avp.id
       ELSE avp.id[1] >= 0 /\ avp.id[2] >= 0

\* No AVP has a name of the form an unknown one is written by.
NoNameIsRaw == "avp-" \notin DOMAIN Index

\* The values that toJson writes, field by field.
LEMMA JsonRecords ==
    /\ \A v : JsonNumber(v) = [kind |-> "number", num |-> v, text |-> <<>>, items |-> <<>>]
    /\ \A t : JsonText(t) = [kind |-> "text", num |-> 0, text |-> t, items |-> <<>>]
    /\ \A s : JsonObject(s) = [kind |-> "object", num |-> 0, text |-> <<>>, items |-> s]
  <1> DEFINE Only(k, v, t, a) == [kind : {k}, num : {v}, text : {t}, items : {a}]
  <1>1. \A k, v, t, a : \A r \in Only(k, v, t, a) :
            r = [kind |-> k, num |-> v, text |-> t, items |-> a]
    OBVIOUS
  <1>2. \A v : JsonNumber(v) \in Only("number", v, <<>>, <<>>)
    BY DEF JsonNumber, JsonNull
  <1>3. \A t : JsonText(t) \in Only("text", 0, t, <<>>)
    BY DEF JsonText, JsonNull
  <1>4. \A a : JsonObject(a) \in Only("object", 0, <<>>, a)
    BY DEF JsonObject, JsonNull
  <1> HIDE DEF Only
  <1> QED BY <1>1, <1>2, <1>3, <1>4

\* What is built from the element an AVP is, from the definition.
LEMMA ElementRead ==
    ASSUME NEW avp \in Avps
    PROVE  /\ FromJson[Elem(avp)] = AvpFromJson(NameOf(avp), ToJson[avp], FromItems(ToJson[avp].items))
           /\ FromJson[Elem(avp)] \in ReadsOf(Avps)
           /\ ToJson[avp] = DataToJson(avp, Each(ToJson, avp.data.kids))
           /\ avp.data.kids \in Seq(Avps)
           /\ ItemsOf(avp.data.kids, Each(ToJson, avp.data.kids)) = ItemsOfAll(avp.data.kids)
  <1>1. Elem(avp) \in JsonElements
    BY NameTyped, ToJsonDefined DEF Elem, JsonElements
  <1>2. Elem(avp).key = NameOf(avp) /\ Elem(avp).value = ToJson[avp]
    BY DEF Elem
  <1>3. /\ FromJson[Elem(avp)] = FromJsonWith(FromJson, Elem(avp))
        /\ FromJson[Elem(avp)] \in ReadsOf(Avps)
    BY <1>1, FromJsonDefined
  <1>4. FromItems(ToJson[avp].items) = Gathered(Each(FromJson, Visited(ToJson[avp].items)))
    BY DEF FromItems, Each
  <1>5. FromJson[Elem(avp)] = AvpFromJson(NameOf(avp), ToJson[avp], FromItems(ToJson[avp].items))
    BY <1>2, <1>3, <1>4 DEF FromJsonWith
  <1>6. ItemsOf(avp.data.kids, Each(ToJson, avp.data.kids)) = ItemsOfAll(avp.data.kids)
    BY DEF ItemsOfAll, Each
  <1> QED BY <1>3, <1>5, <1>6, ToJsonDefined, KidsAreAvps

\* The AVP that an unknown one comes back as.
RawOf(id, text) ==
    [id |-> id, flags |-> IF id[2] # 0 THEN FlagVendor ELSE 0, raw |-> TRUE,
     data |-> Str(text)]

\* An AVP written by its number is read as a raw one.
LEMMA UnnamedBack ==
    ASSUME NoNameIsRaw, NEW avp \in Avps, Returnable(avp), ~IsNamed(avp)
    PROVE  FromJson[Elem(avp)] = One(RawOf(avp.id, avp.data.text))
  <1> DEFINE id == avp.id
             key == <<"avp-", id[1], id[2]>>
             text == ToHex(avp.data.text)
             value == JsonText(text)
  <1>1. /\ id \in AvpIds /\ id[1] \in Int /\ id[2] \in Int /\ id[1] >= 0 /\ id[2] >= 0
        /\ avp.data.text \in Texts
    BY AvpTyped DEF Returnable
  <1>2. NameOf(avp) = key /\ CodingType(avp) = "Unknown"
    BY DEF NameOf, CodingType, FormatType, IsNamed
  <1>3. ToJson[avp] = value
    <2>1. /\ "Unknown" # "Time" /\ ~IsNumber("Unknown") /\ "Unknown" # "Grouped"
          /\ ~IsText("Unknown") /\ "Unknown" # "Address"
      BY DEF IsNumber, IsText, Width
    <2>2. DataToJson(avp, Each(ToJson, avp.data.kids)) = Hex(avp.data.text)
      BY <1>2, <2>1 DEF DataToJson
    <2> QED BY <2>2, ElementRead DEF Hex
  <1>4. value = [kind |-> "text", num |-> 0, text |-> text, items |-> <<>>]
    BY JsonRecords
  <1>5. FromJson[Elem(avp)] = RawFromJson(key, value)
    <2>1. ~Known(key)
      BY DEF Known, NoNameIsRaw
    <2> QED BY <1>2, <1>3, <2>1, ElementRead DEF AvpFromJson
  <1>6. id = <<id[1], id[2]>>
    BY <1>1 DEF AvpIds
  <1>7. /\ id[1] \in 0..(Values[4] - 1) /\ id[2] \in 0..(Values[4] - 1)
        /\ Signed(id[1], 4) = id[1] /\ Signed(id[2], 4) = id[2]
    <2>1. ASSUME NEW v \in SignedNumbers, v >= 0
          PROVE  v \in 0..(Values[4] - 1) /\ Signed(v, 4) = v
      <3>1. v \in Int /\ 2 * v < Values[4] /\ Values[4] \in Nat /\ v \in SignedOf(4)
        BY ValuesKnown DEF SignedNumbers, SignedOf
      <3>2. v \in 0..(Values[4] - 1)
        BY <2>1, <3>1
      <3>3. Signed(Unsigned(v, 4), 4) = v /\ Unsigned(v, 4) = v
        BY <3>1, <3>2, CastBack DEF UnsignedOf
      <3> QED BY <3>2, <3>3
    <2>2. id[1] \in SignedNumbers /\ id[2] \in SignedNumbers
      BY <1>1 DEF AvpIds
    <2> QED BY <1>1, <2>1, <2>2
  <1>8. IsRawKey(key)
    <2>1. key[1] = "avp-" /\ key[2] = id[1] /\ key[3] = id[2]
      OBVIOUS
    <2> QED BY <1>7, <2>1 DEF IsRawKey
  <1> DEFINE flags == IF key[3] # 0 THEN FlagVendor ELSE 0
  <1>9. /\ Found(value.items, HexKey) = {} /\ ~HasKey(value.items, FlagsKey)
        /\ IsHexText(value) /\ FromHex(value.text) = avp.data.text
    BY <1>1, <1>4, ToHexTyped DEF Found, HasKey, IsHexText, Texts
  <1> HIDE DEF value, key, flags
  <1>10. RawFromJson(key, value) = [ok |-> TRUE, avps |-> <<RawAvp(key, value, flags)>>]
    <2>1. {v \in {value} \cup Found(value.items, HexKey) : IsHexText(v)} = {value}
      BY <1>9
    <2>2. (CHOOSE v \in {value} : TRUE) = value /\ (CHOOSE f \in {flags} : TRUE) = flags
      OBVIOUS
    <2> DEFINE hexes == {v \in {value} \cup Found(value.items, HexKey) : IsHexText(v)}
               given == {v.num : v \in {w \in Found(value.items, FlagsKey) : w.kind = "number"}}
                           \cap Octet
               all == IF HasKey(value.items, FlagsKey) THEN given
                      ELSE {IF key[3] # 0 THEN FlagVendor ELSE 0}
    <2>3. RawFromJson(key, value)
            = IF IsRawKey(key) /\ hexes # {} /\ all # {}
              THEN [ok |-> TRUE,
                    avps |-> <<RawAvp(key, CHOOSE v \in hexes : TRUE, CHOOSE f \in all : TRUE)>>]
              ELSE Failure
      BY DEF RawFromJson
    <2>4. hexes = {value} /\ all = {flags}
      BY <1>9, <2>1 DEF flags
    <2> HIDE DEF hexes, all
    <2> QED BY <1>8, <2>2, <2>3, <2>4
  <1>11. RawAvp(key, value, flags) = RawOf(id, avp.data.text)
    <2>1. key[2] = id[1] /\ key[3] = id[2]
      BY DEF key
    <2> QED BY <1>6, <1>7, <1>9, <2>1 DEF RawAvp, RawOf, flags
  <1> QED BY <1>5, <1>10, <1>11 DEF One

\* The flags fromJson sets for a name, and the AVP that a named one comes back as.
FlagsOf(id) ==
    (IF Dict[id].vBit THEN FlagVendor ELSE 0) + (IF Dict[id].mBit THEN FlagMandatory ELSE 0)

NamedOf(id, data) == [id |-> id, flags |-> FlagsOf(id), raw |-> FALSE, data |-> data]

\* The data of an AVP after JSON, when the AVPs within it come back as these.
DataOnceMore(avp, kids) ==
    IF CodingType(avp) = "Grouped" THEN Kids(kids) ELSE avp.data

\* A name and the data read for it make that AVP.
LEMMA NamedRead ==
    ASSUME NEW id, NEW data
    PROVE  Named(id, [ok |-> TRUE, data |-> data]) = One(NamedOf(id, data))
  <1> DEFINE flags == (IF Dict[id].vBit THEN FlagVendor ELSE 0)
                      + (IF Dict[id].mBit THEN FlagMandatory ELSE 0)
             read == [ok |-> TRUE, data |-> data]
             avp == [NewAvp EXCEPT !.id = id, !.flags = flags, !.data = read.data]
  <1>1. Named(id, read) = [ok |-> TRUE, avps |-> <<avp>>]
    BY DEF Named
  <1>2. flags = FlagsOf(id)
    BY DEF FlagsOf
  <1>3. avp \in OneAvp(id, flags, FALSE, data)
    <2> HIDE DEF flags
    <2> QED BY DEF NewAvp, OneAvp
  <1>4. avp = NamedOf(id, data)
    <2> HIDE DEF avp, flags
    <2>1. avp = [id |-> id, flags |-> flags, raw |-> FALSE, data |-> data]
      BY <1>3, OneAvpIs
    <2> QED BY <1>2, <2>1 DEF NamedOf
  <1> QED BY <1>1, <1>4 DEF One

\* An AVP written by its name is read by it.
LEMMA NamedBack ==
    ASSUME NEW avp \in Avps, Returnable(avp), IsNamed(avp),
           CodingType(avp) = "Grouped" => FromItems(ItemsOfAll(avp.data.kids)).ok
    PROVE  FromJson[Elem(avp)]
              = One(NamedOf(avp.id,
                      DataOnceMore(avp, Rebuilt(avp.data.kids, Dict[avp.id].rules))))
  <1> DEFINE id == avp.id
             key == <<Dict[id].name, 0, 0>>
             type == FormatType(id)
             value == ToJson[avp]
             kids == FromItems(value.items)
             read == DataFromJson(id, value, kids)
             rebuilt == Rebuilt(avp.data.kids, Dict[id].rules)
  <1>1. /\ NameOf(avp) = key /\ CodingType(avp) = type /\ type = Dict[id].type /\ type # "Any"
        /\ Known(key) /\ IdOf(key) = id
    BY DEF NameOf, CodingType, FormatType, IsNamed, Returnable, Known, IdOf
  <1>2. FromJson[Elem(avp)] = Named(id, read)
    BY <1>1, ElementRead DEF AvpFromJson
  <1>3. /\ IsNumber(type) => /\ avp.data = Num(Kind[type], avp.data.num)
                             /\ avp.data.num \in NumbersOf[Kind[type]]
        /\ ~IsNumber(type) /\ type # "Grouped" =>
             avp.data = Str(avp.data.text) /\ avp.data.kids = <<>>
    BY <1>1, DataHeld DEF Returnable
  <1>4. value = DataToJson(avp, Each(ToJson, avp.data.kids))
    BY ElementRead
  <1>5. \A t : (IsNumber(t) => t # "Grouped" /\ ~IsText(t) /\ t # "Address")
               /\ (IsText(t) => t # "Grouped" /\ t # "Time") /\ IsNumber("Time")
    BY DEF IsNumber, IsText, Width
  <1> HIDE DEF value, type, kids, rebuilt
  <1>6. CASE IsNumber(type) /\ type = "Time"
    <2> DEFINE v == avp.data.num
    <2>1. value = JsonNumber(Unsigned(v - EpochOffset, 4))
      BY <1>1, <1>4, <1>6 DEF DataToJson
    <2>2. value.kind = "number" /\ value.num = Unsigned(v - EpochOffset, 4)
      BY <2>1, JsonRecords
    <2>3. read = [ok |-> TRUE,
                  data |-> Num(Kind[type], AsTyped(Unsigned(v - EpochOffset, 4) + EpochOffset, type))]
      BY <1>6, <2>2 DEF DataFromJson, type
    <2>4. v \in UnsignedOf(4)
      BY <1>3, <1>6, NumbersKnown DEF Kind
    <2>5. AsTyped(Unsigned(v - EpochOffset, 4) + EpochOffset, type) = v
      <3> HIDE DEF v
      <3> QED BY <1>6, <2>4, TimeBack
    <2>6. read = [ok |-> TRUE, data |-> avp.data]
      BY <1>3, <1>6, <2>3, <2>5
    <2>7. DataOnceMore(avp, rebuilt) = avp.data
      BY <1>1, <1>5, <1>6 DEF DataOnceMore
    <2> HIDE DEF read
    <2> QED BY <1>2, <2>6, <2>7, NamedRead DEF rebuilt
  <1>7. CASE IsNumber(type) /\ type # "Time"
    <2> DEFINE v == avp.data.num
    <2>1. value = JsonNumber(v)
      BY <1>1, <1>4, <1>7 DEF DataToJson
    <2>2. value.kind = "number" /\ value.num = v
      BY <2>1, JsonRecords
    <2>3. v \in Int /\ v + 0 = v /\ AsTyped(v, type) = v
      <3>1. v \in Int /\ AsTyped(v, type) = v
        BY <1>3, <1>7, TypedBack
      <3> QED BY <3>1
    <2>4. read = [ok |-> TRUE, data |-> Num(Kind[type], AsTyped(v + 0, type))]
      BY <1>7, <2>2 DEF DataFromJson, type
    <2>5. read = [ok |-> TRUE, data |-> avp.data]
      BY <1>3, <1>7, <2>3, <2>4
    <2>6. DataOnceMore(avp, rebuilt) = avp.data
      BY <1>1, <1>5, <1>7 DEF DataOnceMore
    <2> HIDE DEF read
    <2> QED BY <1>2, <2>5, <2>6, NamedRead DEF rebuilt
  <1>8. CASE ~IsNumber(type) /\ type = "Grouped"
    <2>1. value = JsonObject(ItemsOfAll(avp.data.kids))
      BY <1>1, <1>4, <1>8, ElementRead DEF DataToJson
    <2>2. value.kind = "object" /\ value.items = ItemsOfAll(avp.data.kids)
      BY <2>1, JsonRecords
    <2>3. kids.ok /\ kids = FromItems(ItemsOfAll(avp.data.kids))
      BY <1>1, <1>8, <2>2 DEF kids
    <2>4. kids.ok = TRUE
      <3>1. ItemsOfAll(avp.data.kids) \in Seq(EntriesOf(JsonValues))
        BY ElementRead, AllToJsonTyped
      <3>2. kids \in ReadsOf(Avps)
        BY <2>3, <3>1, FromItemsTyped
      <3> QED BY <2>3, <3>2 DEF ReadsOf
    <2>5. read = [ok |-> TRUE, data |-> Kids(rebuilt)]
      BY <1>8, <2>2, <2>3, <2>4 DEF DataFromJson, IsIterable, GroupedData, Rebuilt, rebuilt, type
    <2>6. DataOnceMore(avp, rebuilt) = Kids(rebuilt)
      BY <1>1, <1>8 DEF DataOnceMore
    <2> HIDE DEF read
    <2> QED BY <1>2, <2>5, <2>6, NamedRead DEF rebuilt
  <1>9. CASE ~IsNumber(type) /\ type # "Grouped" /\ (IsText(type) \/ type = "Address")
    <2>1. value = JsonText(avp.data.text)
      BY <1>1, <1>4, <1>5, <1>9 DEF DataToJson
    <2>2. value.kind = "text" /\ value.text = avp.data.text
      BY <2>1, JsonRecords
    <2>3. read = [ok |-> TRUE, data |-> Str(avp.data.text)]
      BY <1>9, <2>2 DEF DataFromJson, type
    <2>4. DataOnceMore(avp, rebuilt) = avp.data
      BY <1>1, <1>9 DEF DataOnceMore
    <2>5. avp.data = Str(avp.data.text)
      BY <1>3, <1>9
    <2> HIDE DEF read
    <2> QED BY <1>2, <2>3, <2>4, <2>5, NamedRead DEF rebuilt
  <1>10. CASE ~IsNumber(type) /\ type # "Grouped" /\ ~(IsText(type) \/ type = "Address")
    <2>1. value = JsonText(ToHex(avp.data.text))
      BY <1>1, <1>4, <1>5, <1>10 DEF DataToJson, Hex
    <2>2. value.kind = "text" /\ value.text = ToHex(avp.data.text)
      BY <2>1, JsonRecords
    <2>3. IsHexText(value) /\ FromHex(value.text) = avp.data.text
      BY <2>2, AvpTyped, ToHexTyped DEF IsHexText, Texts
    <2>4. read = [ok |-> TRUE, data |-> Str(avp.data.text)]
      BY <1>1, <1>10, <2>3 DEF DataFromJson, type
    <2>5. DataOnceMore(avp, rebuilt) = avp.data
      BY <1>1, <1>10 DEF DataOnceMore
    <2>6. avp.data = Str(avp.data.text)
      BY <1>3, <1>10
    <2> HIDE DEF read
    <2> QED BY <1>2, <2>4, <2>5, <2>6, NamedRead DEF rebuilt
  <1> QED BY <1>6, <1>7, <1>8, <1>9, <1>10

----------------------------------------------------------------------------
(* From AVPs to JSON and back                                                *)

\* The one AVP read is an AVP.
LEMMA OneOf ==
    ASSUME NEW b, One(b) \in ReadsOf(Avps) PROVE b \in Avps
  <1>1. <<b>> \in Seq(Avps)
    BY DEF One, ReadsOf
  <1>2. 1 \in 1..Len(<<b>>) /\ <<b>>[1] = b
    OBVIOUS
  <1> QED BY <1>1, <1>2

\* An AVP of this likeness is what JSON makes of the AVP.
Settles(avp) == \E b \in Avps : ComesBack(avp, b) /\ Likeness[b] = Likeness[avp]

\* One written by its number does.
LEMMA UnnamedSettles ==
    ASSUME NoNameIsRaw, NEW avp \in Avps, Returnable(avp), ~IsNamed(avp)
    PROVE  Settles(avp)
  <1> DEFINE id == avp.id
             text == avp.data.text
             b == RawOf(id, text)
  <1>1. FromJson[Elem(avp)] = One(b)
    BY UnnamedBack
  <1>2. b \in Avps
    BY <1>1, ElementRead, OneOf
  <1>4. Str(text) = [kind |-> "string", num |-> 0, text |-> text, kids |-> <<>>]
    BY DataRecords
  <1>5. /\ b.id = id /\ b.raw = TRUE /\ b.data.kind = "string" /\ b.data.num = 0
        /\ b.data.text = text /\ b.data.kids = <<>>
    BY <1>4 DEF RawOf
  <1>6. ~IsNumber("Unknown") /\ "Unknown" # "Grouped"
    BY DEF IsNumber, Width
  <1>7. CodingType(avp) = "Unknown"
    BY DEF CodingType, FormatType, IsNamed
  <1>8. /\ avp.data = Str(text) /\ avp.data.kids = <<>>
    BY <1>6, <1>7, DataHeld DEF Returnable
  <1>9. avp.data.kind = "string" /\ avp.data.num = 0
    BY <1>8, DataRecords
  <1> HIDE DEF b
  <1>10. ~IsNamed(b) /\ NameOf(b) = NameOf(avp)
    BY <1>5 DEF IsNamed, NameOf
  <1>11. Returnable(b)
    <2>1. CodingType(b) = "Unknown"
      BY <1>5 DEF CodingType
    <2>2. HoldsData(b)
      BY <1>5, <1>6, <2>1 DEF HoldsData
    <2> QED BY <1>5, <1>10, <2>2 DEF Returnable
  <1>12. FromJson[Elem(b)] = One(b)
    <2>1. FromJson[Elem(b)] = One(RawOf(b.id, b.data.text))
      BY <1>2, <1>10, <1>11, UnnamedBack
    <2> QED BY <1>5, <2>1 DEF b
  <1>13. Likeness[b] = Likeness[avp]
    <2>1. b.data.kids = avp.data.kids
      BY <1>5, <1>8
    <2>2. b.data.text = avp.data.text
      BY <1>5
    <2> QED BY <1>2, <1>5, <1>9, <2>1, <2>2, SameLikeness
  <1>14. ComesBack(avp, b)
    BY <1>1, <1>2, <1>10, <1>12 DEF ComesBack
  <1> QED BY <1>2, <1>13, <1>14 DEF Settles

\* Of AVPs that settle: what they come back as.
LEMMA AllSettle ==
    ASSUME NEW avps \in Seq(Avps), \A i \in 1..Len(avps) : Settles(avps[i])
    PROVE  \E back \in Seq(Avps) :
            /\ Len(back) = Len(avps)
            /\ \A i \in 1..Len(avps) :
                ComesBack(avps[i], back[i]) /\ Likeness[back[i]] = Likeness[avps[i]]
  <1> DEFINE n == Len(avps)
             Of(i) == CHOOSE b \in Avps : ComesBack(avps[i], b) /\ Likeness[b] = Likeness[avps[i]]
             back == [i \in 1..n |-> Of(i)]
  <1>1. n \in Nat
    OBVIOUS
  <1>2. \A i \in 1..n : /\ Of(i) \in Avps /\ ComesBack(avps[i], Of(i))
                        /\ Likeness[Of(i)] = Likeness[avps[i]]
    BY DEF Settles
  <1> HIDE DEF Of
  <1>3. back \in [1..n -> Avps] /\ \A i \in 1..n : back[i] = Of(i)
    BY <1>2
  <1> HIDE DEF back
  <1>4. back \in Seq(Avps) /\ Len(back) = n
    BY <1>1, <1>3
  <1>5. \A i \in 1..n : ComesBack(avps[i], back[i]) /\ Likeness[back[i]] = Likeness[avps[i]]
    BY <1>2, <1>3
  <1> QED BY <1>4, <1>5

\* AVPs alike, each to the one in its place.
AlikeEach(avps, back) ==
    Len(back) = Len(avps) /\ \A i \in 1..Len(avps) : Likeness[back[i]] = Likeness[avps[i]]

\* AVPs alike, in another order, are the same AVPs.
LEMMA SameArranged ==
    ASSUME NEW avps \in Seq(Avps), NEW back \in Seq(Avps), AlikeEach(avps, back),
           NEW q, Arrangement(q, Len(avps))
    PROVE  SameAvps(avps, [i \in 1..Len(avps) |-> back[q[i]]])
  <1> DEFINE n == Len(avps)
             s == [i \in 1..n |-> back[q[i]]]
             x == Each(Likeness, avps)
             S == {Likeness[avp] : avp \in Avps}
  <1>1. n \in Nat /\ DOMAIN avps = 1..n /\ \A i \in 1..n : avps[i] \in Avps
    OBVIOUS
  <1>2. \A i \in 1..n : Likeness[back[i]] = Likeness[avps[i]]
    BY DEF AlikeEach
  <1>3. Arrangement(q, n)
    OBVIOUS
  <1> HIDE DEF n
  <1>4. DOMAIN s = 1..n /\ \A i \in 1..n : q[i] \in 1..n /\ s[i] = back[q[i]]
    BY <1>3 DEF Arrangement
  <1> HIDE DEF s
  <1>5. x \in Seq(S) /\ Len(x) = n /\ \A i \in 1..n : x[i] = Likeness[avps[i]]
    <2>1. x = [i \in 1..n |-> Likeness[avps[i]]] /\ \A i \in 1..n : Likeness[avps[i]] \in S
      BY <1>1 DEF Each
    <2> HIDE DEF x, S
    <2>2. x \in [1..n -> S] /\ \A i \in 1..n : x[i] = Likeness[avps[i]]
      BY <2>1
    <2>3. x \in Seq(S) /\ Len(x) = n
      BY <1>1, <2>2
    <2> QED BY <2>2, <2>3
  <1> HIDE DEF x, S
  <1>6. Counts([i \in 1..n |-> x[q[i]]]) = Counts(x)
    BY <1>3, <1>5, CountsArranged
  <1>7. Each(Likeness, s) = [i \in 1..n |-> x[q[i]]]
    <2>1. \A i \in 1..n : Likeness[s[i]] = x[q[i]]
      <3> TAKE i \in 1..n
      <3>1. q[i] \in 1..n
        BY <1>4
      <3>2. Likeness[back[q[i]]] = Likeness[avps[q[i]]] /\ x[q[i]] = Likeness[avps[q[i]]]
        BY <1>2, <1>5, <3>1
      <3> QED BY <1>4, <3>2
    <2> QED BY <1>4, <2>1 DEF Each
  <1>8. SameAvps(avps, s)
    BY <1>6, <1>7 DEF SameAvps, Each, x
  <1> QED BY <1>8 DEF s, n

\* Every AVP has the name of one of the others.
NamesAmong(s, avps) ==
    \A i \in DOMAIN s : \E j \in DOMAIN avps : NameOf(s[i]) = NameOf(avps[j])

\* What they are read as, and what is rebuilt from that, are the same AVPs.
LEMMA SameRebuilt ==
    ASSUME NEW avps \in Seq(Avps), \A i \in 1..Len(avps) : Settles(avps[i]),
           NEW X, NEW rules \in Seq(X)
    PROVE  LET s == Rebuilt(avps, rules) IN
           /\ FromItems(ItemsOfAll(avps)).ok
           /\ SameAvps(avps, FromItems(ItemsOfAll(avps)).avps) /\ SameAvps(avps, s)
           /\ s \in Seq(Avps) /\ FromItems(ItemsOfAll(s)).ok /\ Rebuilt(s, rules) = s
           /\ NamesAmong(s, avps)
  <1> DEFINE n == Len(avps)
             s == Rebuilt(avps, rules)
             read == FromItems(ItemsOfAll(avps))
  <1>1. PICK back \in Seq(Avps) :
            /\ Len(back) = Len(avps)
            /\ \A i \in 1..Len(avps) : ComesBack(avps[i], back[i]) /\ Likeness[back[i]] = Likeness[avps[i]]
    BY AllSettle
  <1>2. AllComeBack(avps, back) /\ AlikeEach(avps, back) /\ Back(avps, back)
    BY <1>1 DEF AllComeBack, AlikeEach, Back, ComesBack
  <1> HIDE DEF n, s
  <1>3. LET t == Rebuilt(avps, rules) IN
        /\ FromItems(ItemsOfAll(avps)).ok
        /\ \E q : Arrangement(q, Len(avps)) /\ t = [i \in 1..Len(avps) |-> back[q[i]]]
        /\ t \in Seq(Avps) /\ Len(t) = Len(avps)
        /\ FromItems(ItemsOfAll(t)).ok /\ Rebuilt(t, rules) = t
    BY <1>2, ListBack
  <1>4. SameAvps(avps, s)
    <2>1. PICK q : Arrangement(q, Len(avps)) /\ s = [i \in 1..Len(avps) |-> back[q[i]]]
      BY <1>3 DEF s
    <2> QED BY <1>2, <2>1, SameArranged
  <1>5. SameAvps(avps, read.avps)
    <2>1. PICK p : /\ Visits(avps, p)
                   /\ read = [ok |-> TRUE, avps |-> [k \in 1..Len(avps) |-> back[p[k]]]]
      BY <1>2, ItemsBack
    <2>2. Arrangement(p, Len(avps))
      BY <2>1 DEF Visits
    <2>3. read.avps = [k \in 1..Len(avps) |-> back[p[k]]]
      BY <2>1
    <2> HIDE DEF read
    <2>4. SameAvps(avps, [k \in 1..Len(avps) |-> back[p[k]]])
      BY <1>2, <2>2, SameArranged
    <2> QED BY <2>3, <2>4
  <1>6. NamesAmong(s, avps)
    <2>1. PICK q : Arrangement(q, Len(avps)) /\ s = [i \in 1..Len(avps) |-> back[q[i]]]
      BY <1>3 DEF s
    <2>2. DOMAIN avps = 1..Len(avps) /\ DOMAIN s = 1..Len(avps)
      BY <2>1
    <2>3. \A i \in 1..Len(avps) : q[i] \in 1..Len(avps) /\ s[i] = back[q[i]]
      BY <2>1 DEF Arrangement
    <2>4. \A j \in 1..Len(avps) : NameOf(back[j]) = NameOf(avps[j])
      BY <1>2 DEF Back
    <2> QED BY <2>2, <2>3, <2>4 DEF NamesAmong
  <1> QED BY <1>3, <1>4, <1>5, <1>6 DEF s

\* One written by its name does, when those within it do.
LEMMA NamedSettles ==
    ASSUME NEW avp \in Avps, Returnable(avp), IsNamed(avp),
           \A i \in 1..Len(avp.data.kids) : Settles(avp.data.kids[i])
    PROVE  Settles(avp)
  <1> DEFINE id == avp.id
             type == CodingType(avp)
             rules == Dict[id].rules
             s == Rebuilt(avp.data.kids, rules)
             data == DataOnceMore(avp, s)
             b == NamedOf(id, data)
             text == avp.data.text
  <1>1. avp.data.kids \in Seq(Avps) /\ rules \in Seq(AvpIds) /\ text \in Texts
    BY KidsAreAvps, DictTyped, AvpTyped DEF IsNamed
  <1>2. /\ FromItems(ItemsOfAll(avp.data.kids)).ok
        /\ Counts(Each(Likeness, s)) = Counts(Each(Likeness, avp.data.kids))
        /\ s \in Seq(Avps) /\ FromItems(ItemsOfAll(s)).ok /\ Rebuilt(s, rules) = s
    <2>1. /\ FromItems(ItemsOfAll(avp.data.kids)).ok /\ SameAvps(avp.data.kids, s)
          /\ s \in Seq(Avps) /\ FromItems(ItemsOfAll(s)).ok /\ Rebuilt(s, rules) = s
      BY <1>1, SameRebuilt
    <2> QED BY <2>1 DEF SameAvps, Each
  <1>3. FromJson[Elem(avp)] = One(b)
    BY <1>2, NamedBack
  <1>4. b \in Avps
    BY <1>3, ElementRead, OneOf
  <1>5. b.id = id /\ b.raw = FALSE /\ b.data = data
    BY DEF NamedOf
  <1>6. HoldsData(avp) /\ ~avp.raw /\ id \in DOMAIN Dict
    BY DEF Returnable, IsNamed
  <1>7. /\ IsNumber(type) => avp.data = Num(Kind[type], avp.data.num)
        /\ ~IsNumber(type) /\ type # "Grouped" => avp.data = Str(text) /\ avp.data.kids = <<>>
        /\ ~IsNumber(type) /\ type = "Grouped" => avp.data = Kids(avp.data.kids)
    BY <1>6, DataHeld
  <1>8. CodingType(b) = type
    BY <1>5, <1>6 DEF CodingType
  <1>10. /\ \A t : Str(t) = [kind |-> "string", num |-> 0, text |-> t, kids |-> <<>>]
         /\ \A a : Kids(a) = [kind |-> "avps", num |-> 0, text |-> <<>>, kids |-> a]
    BY DataRecords
  <1>11. IsNumber(type) => type # "Grouped"
    BY DEF IsNumber, Width
  <1> HIDE DEF b, s, text
  <1> DEFINE Kept == /\ HoldsData(b)
                     /\ DataOnceMore(b, Rebuilt(b.data.kids, rules)) = b.data
                     /\ type = "Grouped" => FromItems(ItemsOfAll(b.data.kids)).ok
                     /\ b.data.kind = avp.data.kind /\ b.data.num = avp.data.num
                     /\ b.data.text = text
                     /\ Counts(Each(Likeness, b.data.kids)) = Counts(Each(Likeness, avp.data.kids))
  <1>12. ASSUME type = "Grouped"
        PROVE  Kept
    <2>1. data = Kids(s) /\ ~IsNumber(type)
      BY <1>11, <1>12 DEF DataOnceMore
    <2>2. /\ b.data.kids = s /\ b.data.kind = "avps" /\ b.data.num = 0 /\ b.data.text = <<>>
          /\ avp.data.kind = "avps" /\ avp.data.num = 0 /\ text = <<>>
      BY <1>5, <1>7, <1>10, <1>12, <2>1 DEF text
    <2>3. HoldsData(b)
      BY <1>8, <1>12, <2>1, <2>2 DEF HoldsData
    <2>4. DataOnceMore(b, Rebuilt(b.data.kids, rules)) = b.data
      BY <1>2, <1>5, <1>8, <1>12, <2>1, <2>2 DEF DataOnceMore
    <2> QED BY <1>2, <2>2, <2>3, <2>4
  <1>13. ASSUME type # "Grouped"
        PROVE  Kept
    <2>1. data = avp.data
      BY <1>13 DEF DataOnceMore
    <2>2. HoldsData(b)
      BY <1>5, <1>6, <1>8, <2>1 DEF HoldsData
    <2>3. DataOnceMore(b, Rebuilt(b.data.kids, rules)) = b.data
      BY <1>8, <1>13 DEF DataOnceMore
    <2> QED BY <1>5, <1>13, <2>1, <2>2, <2>3 DEF text
  <1>15. Kept
    BY <1>12, <1>13
  <1> HIDE DEF Kept
  <1>16. IsNamed(b) /\ NameOf(b) = NameOf(avp)
    BY <1>5, <1>6 DEF IsNamed, NameOf
  <1>17. Returnable(b)
    BY <1>5, <1>15, <1>16 DEF Returnable, Kept
  <1>18. FromJson[Elem(b)] = One(b)
    <2>1. FromJson[Elem(b)]
            = One(NamedOf(b.id, DataOnceMore(b, Rebuilt(b.data.kids, Dict[b.id].rules))))
      BY <1>4, <1>8, <1>15, <1>16, <1>17, NamedBack DEF Kept
    <2>2. FromJson[Elem(b)] = One(NamedOf(id, data))
      BY <1>5, <1>15, <2>1 DEF Kept
    <2> QED BY <2>2 DEF b
  <1>19. Likeness[b] = Likeness[avp]
    BY <1>4, <1>5, <1>15, SameLikeness DEF Kept, text
  <1>20. ComesBack(avp, b)
    BY <1>3, <1>4, <1>16, <1>18 DEF ComesBack
  <1> QED BY <1>4, <1>19, <1>20 DEF Settles

\* An AVP whose parts can all be found again comes back from JSON, with the AVPs
\* within it in another order at most, and from then on as it is.
LEMMA AvpSettles ==
    ASSUME NoNameIsRaw, NEW avp \in Avps, \A part \in Parts[avp] : Returnable(part)
    PROVE  Settles(avp)
  <1> DEFINE T == {a \in Avps : (\A part \in Parts[a] : Returnable(part)) => Settles(a)}
  <1>1. ASSUME NEW a \in Avps, \A i \in 1..Len(a.data.kids) : a.data.kids[i] \in T
        PROVE  a \in T
    <2> SUFFICES ASSUME \A part \in Parts[a] : Returnable(part) PROVE Settles(a)
      OBVIOUS
    <2>1. /\ a \in Parts[a]
          /\ \A i \in 1..Len(a.data.kids) : Parts[a.data.kids[i]] \subseteq Parts[a]
      BY PartsWithin
    <2>2. Returnable(a)
      BY <2>1
    <2>3. \A i \in 1..Len(a.data.kids) : Settles(a.data.kids[i])
      BY <1>1, <2>1
    <2> QED BY <2>2, <2>3, UnnamedSettles, NamedSettles
  <1> HIDE DEF T
  <1>2. Avps \subseteq T
    BY <1>1, AvpInduction
  <1> QED BY <1>2 DEF T

\* What fromJson makes of what toJson wrote of these AVPs, and that in the order
\* of the rules.
LEMMA AllRebuilt ==
    ASSUME NoNameIsRaw, NEW avps \in Seq(Avps),
           \A part \in AllAvps(avps) : Returnable(part), NEW X, NEW rules \in Seq(X)
    PROVE  LET s == Rebuilt(avps, rules) IN
           /\ FromItems(ItemsOfAll(avps)).ok
           /\ SameAvps(avps, FromItems(ItemsOfAll(avps)).avps) /\ SameAvps(avps, s)
           /\ s \in Seq(Avps) /\ FromItems(ItemsOfAll(s)).ok /\ Rebuilt(s, rules) = s
           /\ NamesAmong(s, avps)
  <1>1. \A i \in 1..Len(avps) : Settles(avps[i])
    <2> TAKE i \in 1..Len(avps)
    <2>1. i \in DOMAIN avps /\ avps[i] \in Avps
      OBVIOUS
    <2>2. \A part \in Parts[avps[i]] : Returnable(part)
      BY <2>1 DEF AllAvps
    <2> QED BY <2>1, <2>2, AvpSettles
  <1> QED BY <1>1, SameRebuilt

\* What fromJson reads of what toJson wrote, in the order it is in.
LEMMA AllReadBack ==
    ASSUME NoNameIsRaw, NEW avps \in Seq(Avps), \A part \in AllAvps(avps) : Returnable(part)
    PROVE  LET read == FromItems(ItemsOfAll(avps)) IN read.ok /\ SameAvps(avps, read.avps)
  <1> DEFINE none == <<>>
  <1>1. none \in Seq(AvpIds)
    OBVIOUS
  <1> HIDE DEF none
  <1> QED BY <1>1, AllRebuilt

----------------------------------------------------------------------------
(* The key of the header                                                     *)

NoHeaderAmong(avps) == \A i \in DOMAIN avps : NameOf(avps[i]) # HeaderKey

\* The keys of an object for some AVPs are their names.
LEMMA KeysAreNames ==
    ASSUME NEW avps \in Seq(Avps)
    PROVE  LET items == ItemsOfAll(avps) IN
           \A k \in DOMAIN items : \E i \in DOMAIN avps : items[k].key = NameOf(avps[i])
  <1> DEFINE names == {NameOf(avps[i]) : i \in DOMAIN avps}
             keys == InOrder(names)
             items == ItemsOfAll(avps)
  <1>1. names \in SUBSET Keys /\ IsFiniteSet(names)
    BY NamesTyped
  <1>2. DOMAIN items = DOMAIN keys /\ \A k \in DOMAIN keys : items[k].key = keys[k]
    BY DEF ItemsOfAll, ItemsOf, Collect
  <1> HIDE DEF items
  <1>3. keys \in [1..Cardinality(names) -> names]
    <2> HIDE DEF names
    <2> QED BY <1>1, KeysOrdered
  <1> HIDE DEF keys
  <1>4. \A k \in DOMAIN items : items[k].key \in names
    BY <1>2, <1>3
  <1> QED BY <1>4 DEF items

\* So when no AVP is named as the header's key, the header is alone there and the
\* loop passes over nothing else.
LEMMA ReadAsItems ==
    ASSUME NEW avps \in Seq(Avps), NoHeaderAmong(avps)
    PROVE  /\ ~HasKey(ItemsOfAll(avps), HeaderKey)
           /\ FromMessage(ItemsOfAll(avps)) = FromItems(ItemsOfAll(avps))
  <1> DEFINE items == ItemsOfAll(avps)
  <1>1. \A k \in DOMAIN items : items[k].key # HeaderKey
    BY KeysAreNames DEF NoHeaderAmong
  <1>2. items = [k \in DOMAIN items |-> items[k]]
    BY DEF ItemsOfAll, ItemsOf
  <1> HIDE DEF items
  <1>3. ~HasKey(items, HeaderKey)
    BY <1>1 DEF HasKey
  <1>4. [k \in DOMAIN items |-> IF items[k].key = HeaderKey THEN Passed ELSE items[k]] = items
    BY <1>1, <1>2
  <1> QED BY <1>3, <1>4 DEF FromMessage, items

\* And it stays so for AVPs that have their names from these.
LEMMA NoHeaderStays ==
    ASSUME NEW s, NEW avps, NamesAmong(s, avps), NoHeaderAmong(avps)
    PROVE  NoHeaderAmong(s)
  BY DEF NamesAmong, NoHeaderAmong

\* What a message is read back as, in the order it is in.
LEMMA MessageReadBack ==
    ASSUME NoNameIsRaw, NEW avps \in Seq(Avps), NoHeaderAmong(avps),
           \A part \in AllAvps(avps) : Returnable(part)
    PROVE  LET read == FromMessage(ItemsOfAll(avps)) IN read.ok /\ SameAvps(avps, read.avps)
  BY ReadAsItems, AllReadBack
=============================================================================
