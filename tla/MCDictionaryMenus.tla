-------------------------- MODULE MCDictionaryMenus --------------------------
(* The three sets of documents of MCDictionary in one run: a dictionary is   *)
(* fed from one of them, chosen at the start.  Only the application that     *)
(* loads rules adds rules by itself as well.                                 *)
EXTENDS MCDictionary

VARIABLE menu

Menus == [names |-> NamesDocs, grouping |-> GroupingDocs, rules |-> RuleDocs]
MCDocs == NamesDocs \cup GroupingDocs \cup RuleDocs

MCInit == Init /\ menu \in DOMAIN Menus

MCNext ==
    /\ Next
    /\ UNCHANGED menu
    /\ phase = "idle" => CASE phase' = "format" -> doc' \in Menus[menu]
                           [] phase' = "idle" -> menu = "rules" \/ Clear

MCSpec == MCInit /\ [][MCNext]_<<vars, menu>>
=============================================================================
