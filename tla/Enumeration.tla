---------------------------- MODULE Enumeration ----------------------------
(* The values and aliases stack::Avp keeps of an enumeration: enums_, a      *)
(* MultiRangeExpression, and labels_, a map from texts to aliases ordered by *)
(* the number atoi reads in a text, so that "1" and "01" are the same key.   *)
(* asJson writes both and extractAvps gives them to a new AVP.               *)
(*                                                                           *)
(* The expression is on its own too, a class the application may use as it   *)
(* likes: owner says which, and an AVP makes its own calls only.  The format *)
(* of the AVP is given once, as a document gives it.                         *)
EXTENDS MultiRange

CONSTANTS Texts,      \* data of the labels
          NumberIn,   \* text -> the number atoi reads in it
          Aliases,
          Owners      \* "none" and formats of AVPs

ASSUME NumberAssumption == NumberIn \in [Texts -> Int]

VARIABLES owner,      \* "none", or the format of the AVP that has the expression
          labels      \* labels_

enumVars == <<literal, data, owner, labels>>

NoLabels == [text \in {} |-> text]

EnumInit ==
    /\ Init
    /\ owner \in Owners
    /\ labels = NoLabels

\* The expression by itself.
Alone == owner = "none" /\ Next /\ UNCHANGED <<owner, labels>>

SetEnums(l) ==
    /\ owner # "none"
    /\ SetLiteral(l)
    /\ UNCHANGED <<owner, labels>>

\* (variant) addEnums without addLiteral's comma: the joint becomes a range.
JoinedByDash(l) ==
    Front(literal) \o << Last(literal) \o l[1] >> \o Tail(l)

\* What addLiteral leaves, an empty text being no addition.
Joined(l) == IF l = Empty THEN literal ELSE literal \o l

\* addLiteral and simplifyLiteral in one call.
AddEnums(l) ==
    /\ owner # "none"
    /\ Len(literal) + Len(l) <= MaxTexts
    /\ data' = IF l = Empty THEN data ELSE Refresh(Joined(l))
    /\ literal' = IF data' = {} THEN Joined(l) ELSE Simplified(data')
    /\ UNCHANGED <<owner, labels>>

\* (variant) the keys are compared as texts.
SameNumberByText(map, text) == {t \in DOMAIN map : t = text}

\* The keys lessLabel does not tell from a text.
SameNumber(map, text) == {t \in DOMAIN map : NumberIn[t] = NumberIn[text]}

\* labels_[data] = alias: a number already there keeps the text it came with.
WithLabel(map, text, alias) ==
    LET same == SameNumber(map, text)  key == IF same = {} THEN {text} ELSE same
    IN  [t \in DOMAIN map \cup key |-> IF t \in key THEN alias ELSE map[t]]

\* A grouped AVP throws.
AddLabel(text, alias) ==
    /\ owner \notin {"none", "Grouped"}
    /\ labels' = WithLabel(labels, text, alias)
    /\ UNCHANGED <<literal, data, owner>>

\* getAlias: the aliases found under a text, none or one.
AliasOf(text) == {labels[t] : t \in SameNumber(labels, text)}

\* (variant) the values are left out.
EnumsWrittenNever == Empty

\* The key "enum" of asJson, Empty when it is not written.
EnumsWritten == IF owner = "Enumerated" THEN literal ELSE Empty

\* The labels of asJson, in the order of the map, given to a new one.
LabelsLoaded ==
    LET texts == DOMAIN labels
        sorted == InKeyOrder([t \in texts |-> {u \in texts : NumberIn[u] < NumberIn[t]}])
        loaded[i \in 0..Len(sorted)] ==
            IF i = 0 THEN NoLabels
            ELSE WithLabel(loaded[i - 1], sorted[i], labels[sorted[i]])
    IN  loaded[Len(sorted)]

\* asJson, and extractAvps with what it wrote: setEnums and addLabel on a new
\* AVP, so that nothing of the old one stays.  A grouped AVP has no labels.
ExportAndLoad ==
    /\ owner # "none"
    /\ literal' = EnumsWritten
    /\ data' = IF EnumsWritten = Empty THEN {} ELSE Expand(EnumsWritten)
    /\ labels' = LabelsLoaded
    /\ UNCHANGED owner

EnumNext ==
    \/ Alone
    \/ \E l \in Literals : SetEnums(l) \/ AddEnums(l)
    \/ \E text \in Texts, alias \in Aliases : AddLabel(text, alias)
    \/ ExportAndLoad

EnumSpec == EnumInit /\ [][EnumNext]_enumVars

----------------------------------------------------------------------------
(* Properties                                                                *)

\* What an addition brings is what it says: the old values stay and those of
\* the addition come.  The exceptions are the literal's: the comma after an
\* empty literal, or after one that ends in a comma, makes an empty text, read
\* as 0; and values left over from before the literal was emptied go
\* (MultiRangeExpression.hpp:118, MultiRangeExpression.cpp:55).
AddingBringsItsValues ==
    [][\A l \in Literals \ {Empty} :
         (owner = "none" /\ AddLiteral(l)) \/ AddEnums(l) =>
            data' = (IF literal = Empty THEN {} ELSE data) \cup Expand(l)
                    \cup (IF Last(literal) = <<>> THEN {0} ELSE {})]_enumVars

\* An alias is found under every text of its number, and under no other text
\* anything changes: a value of the enumeration has one alias, the last given.
AliasIsOfTheNumber ==
    [][\A text \in Texts, alias \in Aliases : AddLabel(text, alias) =>
         \A t \in Texts :
            AliasOf(t)' = IF NumberIn[t] = NumberIn[text] THEN {alias} ELSE AliasOf(t)]_enumVars

\* What asJson writes of an enumeration gives the same values and aliases to the
\* AVP loaded from it, unless its literal was emptied, which leaves values
\* behind that no text tells of.
ExportKeepsEnums ==
    [][ExportAndLoad =>
        /\ labels' = labels
        /\ owner = "Enumerated" /\ literal # Empty => data' = data]_enumVars
=============================================================================
