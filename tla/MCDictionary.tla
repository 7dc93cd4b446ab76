---------------------------- MODULE MCDictionary ----------------------------
(* Small documents for Dictionary: redefinitions, vendors, failing entries,  *)
(* commands, grouping.                                                       *)
EXTENDS Dictionary

MCNames == BasicTypes \cup DerivedTypes \cup ReservedTypes
           \cup {"", "AVP", "A", "B", "C", "D", "V", "W", "Fmt"}

Single(n, code, f) ==
    [name |-> n, code |-> code, vendor |-> Absent, vBit |-> FALSE, format |-> f,
     enum |-> FALSE, label |-> FALSE, rules |-> Absent]
Grouped(n, code, rs) ==
    [Single(n, code, Absent) EXCEPT !.rules = rs]
OfVendor(a, v) == [a EXCEPT !.vendor = v, !.vBit = TRUE]
Rule(n, t) == [name |-> n, type |-> t, qual |-> NoQual]
Command(n, code, r, rs) == [name |-> n, code |-> code, request |-> r, rules |-> rs]

\* Two names over two ids and a vendor, so that names and ids can cross.
AvpMenu ==
    {Single("A", 1, "OctetString"), Single("B", 1, "Fmt"), Single("A", 2, "OctetString"),
     OfVendor(Single("A", 1, "Enumerated"), "V"),
     [Single("B", 2, "OctetString") EXCEPT !.vBit = TRUE],
     Grouped("B", 2, <<Rule("A", "Fixed"), Rule("AVP", "Optional")>>)}

VendorMenu == {[name |-> "V", code |-> 1], [name |-> "V", code |-> 0],
               [name |-> "W", code |-> -1]}

FormatMenu == {[name |-> "Fmt", parent |-> "OctetString"], [name |-> "Any", parent |-> ""],
               [name |-> "Fmt", parent |-> "Time"], [name |-> "Fmt", parent |-> Absent]}

\* Documents about names: pairs of AVP definitions, vendors and formats.
NamesDocs ==
    {[avp |-> <<a, b>>] : a, b \in AvpMenu}
    \cup {[avp |-> <<Grouped("A", i, <<Rule("AVP", "Optional")>>)>>] : i \in 1..2}
    \cup {[vendor |-> <<v>>] : v \in VendorMenu}
    \cup {[format |-> <<f>>] : f \in FormatMenu}

\* Documents about grouping: three AVPs that may contain each other, and
\* rules that fail: unknown child, duplicate, fixed after optional, qualifier.
OneRule == {<<>>} \cup {<<Rule(n, "Mandatory")>> : n \in {"A", "B", "C"}}
TwoRules ==
    {<<Rule("B", "Fixed"), Rule("B", "Optional")>>, <<Rule("B", "Optional"), Rule("C", "Fixed")>>,
     <<Rule("B", "Fixed"), Rule("D", "Fixed")>>, <<Rule("C", "Fixed"), Rule("B", "Other")>>,
     <<Rule("C", "Optional"), [Rule("B", "Fixed") EXCEPT !.qual = <<1>>]>>}
GroupingDocs ==
    {[avp |-> <<Grouped("A", 1, ra), Grouped("B", 2, rb), Grouped("C", 3, rc)>>] :
        ra \in OneRule \cup TwoRules, rb, rc \in OneRule}
    \cup {[avp |-> <<Single("A", 1, f), Grouped("A", 1, <<Rule("C", "Mandatory")>>)>>] :
            f \in {"Time", "Grouped"}}
    \cup {[avp |-> <<Grouped("A", 1, <<>>), Single("A", 2, "Time")>>],
          [avp |-> <<Single("A", 2, "Grouped")>>],
          [vendor |-> <<>>]}

\* Two AVPs whose rules the application extends, and commands over them that
\* fail late: in the second command of a document, in a later rule of one.
CommandMenu ==
    {<<Command("A", 1, FALSE, <<Rule("A", "Mandatory")>>)>>,
     <<Command("B", 1, FALSE, <<Rule("A", "Fixed"), Rule("B", "Optional")>>),
       Command("A", 1, TRUE, <<Rule("A", "Optional"), Rule("B", "Fixed")>>)>>,
     <<Command("", 1, TRUE, <<>>)>>}
RuleDocs ==
    {[avp |-> <<Grouped("A", 1, <<Rule("B", "Fixed")>>), Grouped("B", 2, rb)>>] :
        rb \in {<<>>, <<Rule("A", "Optional"), Rule("A", "Fixed")>>}}
    \cup {[avp |-> <<>>]}
    \cup {[command |-> cs] : cs \in CommandMenu}

\* Documents about parents of formats; the schema lets a parent be left out.
FormatDocs ==
    {[format |-> <<[name |-> n, parent |-> p]>>] :
        n \in {"Fmt", "OctetString", "Time", "Any", ""},
        p \in {"OctetString", "Time", "Fmt", "Any", "", "V", Absent}}
=============================================================================
