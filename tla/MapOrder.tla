------------------------------ MODULE MapOrder ------------------------------
(* The iteration of a std::map: its keys, in their order.  The order is      *)
(* given as the function that has, for every key, the keys before it.        *)
EXTENDS Integers, FiniteSets

InKeyOrder(before) ==
    [i \in 1..Cardinality(DOMAIN before) |->
        CHOOSE k \in DOMAIN before : Cardinality(before[k]) = i - 1]

\* The order of numbers.
Ascending(S) == InKeyOrder([n \in S |-> {m \in S : m < n}])
=============================================================================
