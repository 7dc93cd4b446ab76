----------------------------- MODULE RuleLevel -----------------------------
(* The ordered list of AVP rules that a grouped AVP and a command both keep  *)
(* (avprules_, allow_fixed_rule_, avprule_position_) and their addAvpRule,   *)
(* which is the same code twice (stack/Avp.cpp, stack/Command.cpp).          *)
(* avprule_position_ is the length of the list: the map is only ever filled  *)
(* at that position and never erased.                                        *)
EXTENDS Integers, Sequences

Presences == {"Fixed", "Mandatory", "Optional", "None"}

\* A qualifier is kept as the texts around its asterisks, each the number atoi
\* reads or Blank: "1*" is <<1, Blank>>, "5" is <<5>>, none at all is <<Blank>>.
Blank == -1
Infinite == -1
Qualifiers == Seq(Nat \cup {Blank}) \ {<<>>}
NoQual == <<Blank>>

\* Presence::asEnum: a text that is no literal of the enum is None.
AsPresence(text) == IF text \in Presences THEN text ELSE "None"

\* AvpRule::setQual throws on a non-empty qualifier without '*'.
QualAccepted(qual) == qual # NoQual => Len(qual) > 1

EmptyLevel == [rules |-> <<>>, allowFixed |-> TRUE]

IsFixed(rule) == rule.presence = "Fixed"

\* (variant) isChild that misses the first rule.
IsChildFromSecond(level, id) ==
    \E i \in DOMAIN level.rules \ {1} : level.rules[i].avp = id

IsChild(level, id) == \E i \in DOMAIN level.rules : level.rules[i].avp = id

\* (variant) addAvpRule with room for one fixed rule.
RuleFitsOneFixed(level, rule) ==
    /\ IsFixed(rule) => level.rules = <<>>
    /\ ~IsChild(level, rule.avp)

\* addAvpRule stores the rule only if neither check throws ...
RuleFits(level, rule) ==
    /\ IsFixed(rule) => level.allowFixed
    /\ ~IsChild(level, rule.avp)

\* (variant) addAvpRule that forgets "allow_fixed_rule_ = false".
WithRuleFlagKept(level, rule) ==
    [level EXCEPT !.rules = Append(@, rule)]

\* (variant) addAvpRule that does not advance avprule_position_.
WithRulePositionKept(level, rule) ==
    [rules |-> <<rule>>, allowFixed |-> level.allowFixed /\ IsFixed(rule)]

WithRule(level, rule) ==
    [rules |-> Append(level.rules, rule),
     allowFixed |-> level.allowFixed /\ IsFixed(rule)]

\* ... but the flag is cleared before the duplicate check, so a refused
\* non-fixed rule clears it all the same.
AfterRefusal(level, rule) == [level EXCEPT !.allowFixed = @ /\ IsFixed(rule)]

Number(text) == IF text = Blank THEN 0 ELSE text

\* AvpRule::getQualMin.  A rule of no known presence and no qualifier reads an
\* empty text whatever the distance to its missing asterisk: 0 as well.
QualMin(rule) ==
    IF rule.qual # NoQual THEN Number(rule.qual[1])
    ELSE IF rule.presence \in {"Fixed", "Mandatory"} THEN 1 ELSE 0

\* (variant) the asterisk is looked for behind the end.
QualMaxPastEnd(rule) == IF rule.qual = NoQual THEN 1 ELSE Number(rule.qual[2])

\* AvpRule::getQualMax
QualMax(rule) ==
    IF rule.qual = NoQual THEN 1
    ELSE IF Len(rule.qual) = 2 /\ rule.qual[2] = Blank THEN Infinite
    ELSE Number(rule.qual[2])

----------------------------------------------------------------------------
\* What the two checks are for: fixed rules come first, and no AVP has two
\* rules at the same level.
FixedFirst(level) ==
    \A i, j \in DOMAIN level.rules :
        i < j /\ IsFixed(level.rules[j]) => IsFixed(level.rules[i])

OneRulePerAvp(level) ==
    \A i, j \in DOMAIN level.rules :
        level.rules[i].avp = level.rules[j].avp => i = j

\* While the flag is up every rule is fixed: what makes FixedFirst inductive.
FlagMeansAllFixed(level) ==
    level.allowFixed => \A i \in DOMAIN level.rules : IsFixed(level.rules[i])
=============================================================================
