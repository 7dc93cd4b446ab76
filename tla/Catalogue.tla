----------------------------- MODULE Catalogue -----------------------------
(* What a dictionary promises whoever feeds it, with documents, loads, name  *)
(* indexes and the flag of the rules left out: its tables change by one      *)
(* definition at a time.  A new definition of an AVP starts without rules;   *)
(* rules come at the end of a list, one by one, and none that came is ever   *)
(* changed, moved or taken out, but with the whole list; a command comes     *)
(* with all its rules; and all a definition refers to is there already.      *)
(* Dictionary implements this.                                               *)
EXTENDS Integers, Sequences, RuleLevel

CONSTANTS FirstFormats, FirstAvps   \* what an empty dictionary has

VARIABLES formats,    \* name -> parent
          vendors,    \* code -> name
          avps,       \* <<code, vendor code>> -> its definition, with its rules
          commands    \* <<code, request>> -> its definition, with its rules

vars == <<formats, vendors, avps, commands>>

Init == /\ formats = FirstFormats
        /\ vendors = [code \in {} |-> code]
        /\ avps = FirstAvps
        /\ commands = [id \in {} |-> id]

\* One entry of a table is new or another one; the others stay.
Changes(table, new, key) ==
    /\ key \in DOMAIN new
    /\ new = [k \in DOMAIN table \cup {key} |-> IF k = key THEN new[key] ELSE table[k]]

RulesInOrder(def) ==
    /\ FixedFirst(def) /\ OneRulePerAvp(def)
    /\ \A i \in DOMAIN def.rules : def.rules[i].avp \in DOMAIN avps

DefineFormat == /\ \E f \in DOMAIN formats' : Changes(formats, formats', f)
                /\ UNCHANGED <<vendors, avps, commands>>

DefineVendor == /\ \E code \in DOMAIN vendors' : code >= 0 /\ Changes(vendors, vendors', code)
                /\ UNCHANGED <<formats, avps, commands>>

DefineAvp ==
    /\ \E id \in DOMAIN avps' :
        /\ Changes(avps, avps', id)
        /\ avps'[id].format \in DOMAIN formats
        /\ avps'[id].vBit <=> id[2] # 0
        /\ id[2] # 0 => id[2] \in DOMAIN vendors
        /\ avps'[id].rules = <<>>
    /\ UNCHANGED <<formats, vendors, commands>>

\* Rules are added to grouped AVPs only.
AddRule ==
    /\ \E id \in DOMAIN avps :
        /\ avps[id].format = "Grouped"
        /\ Changes(avps, avps', id)
        /\ avps'[id].rules # <<>>
        /\ avps[id] = [avps'[id] EXCEPT !.rules = SubSeq(@, 1, Len(@) - 1)]
        /\ RulesInOrder(avps'[id])
    /\ UNCHANGED <<formats, vendors, commands>>

DefineCommand ==
    /\ \E id \in DOMAIN commands' :
        Changes(commands, commands', id) /\ RulesInOrder(commands'[id])
    /\ UNCHANGED <<formats, vendors, avps>>

Clear == /\ formats' = FirstFormats
         /\ vendors' = [code \in {} |-> code]
         /\ avps' = FirstAvps
         /\ commands' = [id \in {} |-> id]

Next == DefineFormat \/ DefineVendor \/ DefineAvp \/ AddRule \/ DefineCommand \/ Clear

Spec == Init /\ [][Next]_vars
=============================================================================
