---------------------------- MODULE MultiRange ----------------------------
(* core::MultiRangeExpression: a literal such as "1-4,23" and the set of     *)
(* values it expands to, which the setters recompute and simplifyLiteral     *)
(* writes back as the shortest literal.                                      *)
(*                                                                           *)
(* A literal is the sequence of texts between its commas, and such a text    *)
(* the sequence of numbers between its dashes, a missing number being the 0  *)
(* atoi makes of it: "-5" is <<0, 5>>, and an empty text is <<>>.  The empty *)
(* literal is one empty text.  Numbers are those an int holds; the others,   *)
(* undefined for atoi, are left out.                                         *)
EXTENDS Integers, Sequences, SequencesExt, MapOrder

CONSTANTS Literals,    \* the literals callers pass
          MaxTexts     \* bound on the length of the stored literal

ASSUME LiteralsAssumption == Literals \subseteq Seq(Seq(Nat)) \ {<<>>}

VARIABLES literal,     \* literal_
          data         \* the keys of data_

vars == <<literal, data>>

Empty == << <<>> >>

Init == literal = Empty /\ data = {}

\* What the regex iterator cuts a literal into: the text after a last comma is
\* left out when it is empty.
Ranges(l) == IF Len(l) > 1 /\ Last(l) = <<>> THEN Front(l) ELSE l

\* Only the first two numbers of a text count.
Span(text) == IF text = <<>> THEN {0}
              ELSE text[1] .. (IF Len(text) = 1 THEN text[1] ELSE text[2])

Expand(l) == UNION {Span(text) : text \in ToSet(Ranges(l))}

\* (variant) data_.clear() forgotten.
RefreshKeeping(l) == IF l = Empty THEN data ELSE data \cup Expand(l)

\* refresh() does nothing for an empty literal.
Refresh(l) == IF l = Empty THEN data ELSE Expand(l)

SetLiteral(l) ==
    /\ literal' = l
    /\ data' = Refresh(l)

\* (variant) only the new part is expanded.
AddLiteralAlone(l) ==
    /\ l # Empty /\ Len(literal) + Len(l) <= MaxTexts
    /\ literal' = literal \o l
    /\ data' = Refresh(l)

AddLiteral(l) ==
    /\ l # Empty /\ Len(literal) + Len(l) <= MaxTexts
    /\ literal' = literal \o l
    /\ data' = Refresh(literal')

RangeText(min, max) == IF max # min THEN <<min, max>> ELSE <<min>>

\* (variant) a text of its own for every value.
VisitSplitting(run, value) ==
    IF value > run.prev
    THEN [texts |-> Append(run.texts, RangeText(run.min, run.max)),
          min |-> value, max |-> value, prev |-> value]
    ELSE [run EXCEPT !.max = value, !.prev = value]

\* One turn of simplifyLiteral's loop, over the values in order.
Visit(run, value) ==
    IF value - run.prev > 1
    THEN [texts |-> Append(run.texts, RangeText(run.min, run.max)),
          min |-> value, max |-> value, prev |-> value]
    ELSE [run EXCEPT !.max = value, !.prev = value]

\* The keys of data_ in their order.
Sorted(values) == InKeyOrder([v \in values |-> {w \in values : w < v}])

\* What the loop has gathered when it has visited the first i values.
Visited(sorted) ==
    LET first == [texts |-> <<>>, min |-> sorted[1], max |-> sorted[1], prev |-> sorted[1]]
        run[i \in 0..Len(sorted)] == IF i = 0 THEN first ELSE Visit(run[i - 1], sorted[i])
    IN  run

Simplified(values) ==
    LET sorted == Sorted(values)
        run == Visited(sorted)[Len(sorted)]
    IN  Append(run.texts, RangeText(run.min, run.max))

\* Nothing is done, and null returned, when there are no values.
SimplifyLiteral ==
    /\ literal' = IF data = {} THEN literal ELSE Simplified(data)
    /\ UNCHANGED data

Next == \/ \E l \in Literals : SetLiteral(l) \/ AddLiteral(l)
        \/ SimplifyLiteral

Spec == Init /\ [][Next]_vars

----------------------------------------------------------------------------
(* Properties                                                                *)

\* A literal that is not empty and its values agree, whichever of the setters
\* and simplifyLiteral were called, in any order (MultiRangeExpression.hpp:59).
AlignedUnlessEmpty == literal # Empty => data = Expand(literal)

\* The simplified literal is the shortest: its ranges ascend with a gap between
\* each two of them.
SimplifiedIsShortest ==
    [][SimplifyLiteral /\ data # {} =>
         \A i \in 1 .. Len(literal') - 1 :
            Last(literal'[i]) + 1 < literal'[i + 1][1]]_vars

\* refresh: "align 'data_' and 'literal_'" (MultiRangeExpression.hpp:59), with
\* an empty literal having no values.  The code does not: setLiteral("") keeps
\* the values of the literal it replaces.
Aligned == data = IF literal = Empty THEN {} ELSE Expand(literal)
=============================================================================
