-------------------------- MODULE DictionaryExport --------------------------
(* Dictionary::asJson: the document a dictionary writes itself into, and the *)
(* dictionary another process gets by loading it.  The tables refer to each  *)
(* other by key, the document by name: a vendor, a child and a format by the *)
(* name the slot or the AVP has by then.  m-bit, p-bit, application-id, the  *)
(* dictionary's name, enumerations and aliases go through as they are.       *)
EXTENDS Dictionary, MapOrder

CONSTANT Rank   \* where each name stands in the order of std::string

ASSUME RankAssumption ==
    Rank \in [Names -> Nat] /\ \A m, n \in Names : Rank[m] = Rank[n] => m = n
\* True of any strings, but a fact about STRING the provers do not have.
ASSUME TextsAssumption == Presences \subseteq STRING

VARIABLES reloading,   \* a fresh dictionary is loading an exported document
          saved,       \* what the exporting dictionary held
          portable     \* and whether its document can say all of it

exporter == <<reloading, saved, portable>>

RFC6733 == BasicTypes \cup DerivedTypes

----------------------------------------------------------------------------
\* A std::map is visited in the order of its keys.
InOrder(S, Before(_, _)) == InKeyOrder([x \in S |-> {y \in S : Before(y, x)}])

NameBefore(m, n) == Rank[m] < Rank[n]

\* lessAvp: by the vendor, then by the code.
IdBefore(a, b) == a[2] < b[2] \/ (a[2] = b[2] /\ a[1] < b[1])

\* lessCommand: by the code, then the request before the answer.
CommandBefore(c, d) == c[1] < d[1] \/ (c[1] = d[1] /\ c[2] /\ ~d[2])

\* asJson of each kind of entry.  A format without a parent has no parent-type,
\* an AVP of vendor 0 no vendor-name whatever vendor it was defined with.
FormatJson(f) == [name |-> f, parent |-> IF formats[f] = "" THEN Absent ELSE formats[f]]

VendorJson(code) == [name |-> vendors[code], code |-> code]

RuleJson(r) == [name |-> avps[r.avp].name, type |-> r.presence, qual |-> r.qual]

RulesJson(level) == [i \in DOMAIN level.rules |-> RuleJson(level.rules[i])]

AvpJson(id) ==
    [name |-> avps[id].name, code |-> id[1], vBit |-> avps[id].vBit,
     vendor |-> IF id[2] = 0 THEN Absent ELSE avps[id].vendorName,
     format |-> IF IsGrouped(id) THEN Absent ELSE avps[id].format,
     enum |-> FALSE, label |-> FALSE,
     rules |-> IF IsGrouped(id) THEN RulesJson(avps[id].level) ELSE Absent]

CommandJson(id) ==
    [name |-> commands[id].name, code |-> id[1], request |-> id[2],
     rules |-> RulesJson(commands[id].level)]

\* (variant) the formats of RFC 6733 are written too.
ExportedFormatsAll == DOMAIN formats \ ReservedTypes

ExportedFormats == DOMAIN formats \ (ReservedTypes \cup RFC6733)
ExportedAvps == {id \in DOMAIN avps : avps[id].format # "Any"}

\* Dictionary::asJson: a section appears with its first entry.
AsJson ==
    LET fs == InOrder(ExportedFormats, NameBefore)
        vs == InOrder(DOMAIN vendors, <)
        as == InOrder(ExportedAvps, IdBefore)
        cs == InOrder(DOMAIN commands, CommandBefore)
        all == [format |-> [i \in DOMAIN fs |-> FormatJson(fs[i])],
                vendor |-> [i \in DOMAIN vs |-> VendorJson(vs[i])],
                avp |-> [i \in DOMAIN as |-> AvpJson(as[i])],
                command |-> [i \in DOMAIN cs |-> CommandJson(cs[i])]]
    IN [key \in {k \in DOMAIN all : all[k] # <<>>} |-> all[key]]

\* Presence::asText is null for a rule whose type was no known text.
Texts(level) == \A i \in DOMAIN level.rules : level.rules[i].presence # "None"
AsJsonDefined ==
    /\ \A id \in ExportedAvps : IsGrouped(id) => Texts(avps[id].level)
    /\ \A c \in DOMAIN commands : Texts(commands[c].level)

----------------------------------------------------------------------------
\* What the tables say, without what has no effect: the vendor name of an AVP
\* of vendor 0, the order flag of a list that is complete.
Contents ==
    [formats |-> formats, vendors |-> vendors,
     avps |-> [id \in DOMAIN avps |->
                [name |-> avps[id].name, vBit |-> avps[id].vBit, format |-> avps[id].format,
                 vendorName |-> IF id[2] = 0 THEN "" ELSE avps[id].vendorName,
                 rules |-> avps[id].level.rules]],
     commands |-> [c \in DOMAIN commands |->
                    [name |-> commands[c].name, rules |-> commands[c].level.rules]]]

\* Every name in use leads to the entry that has it, so no two entries share
\* one; the vendor of an AVP still has the name the AVP was defined with.
NamesMatch ==
    /\ \A code \in DOMAIN vendors : vendorNames[vendors[code]] = code
    /\ \A id \in DOMAIN avps :
        /\ avpNames[avps[id].name] = id
        /\ id[2] # 0 => vendors[id[2]] = avps[id].vendorName
    /\ \A c \in DOMAIN commands : commandNames[commands[c].name] = c

\* Formats the document leaves out are those every dictionary starts with, those
\* it has are derived from a basic type, and an AVP of format Any, which it
\* leaves out as well, is the generic one under its own name.
FormatsMatch ==
    /\ \A f \in DOMAIN HardcodedFormats : formats[f] = HardcodedFormats[f]
    /\ \A f \in DOMAIN formats \ DOMAIN HardcodedFormats : formats[f] \in BasicTypes
    /\ \A id \in DOMAIN avps :
        avps[id].format = "Any" => id = GenericId /\ avps[id].name = GenericAvp.name

Portable == NamesMatch /\ FormatsMatch /\ ~ShortLoop

ExportInit == Init /\ reloading = FALSE /\ saved = EmptyTable /\ portable = FALSE

Export ==
    /\ phase = "idle" /\ ~reloading
    /\ IF ~AsJsonDefined THEN Undefined /\ UNCHANGED exporter
       ELSE /\ Initialize /\ phase' = "format" /\ doc' = AsJson
            /\ UNCHANGED <<at, nth, target, aux>>
            /\ reloading' = TRUE /\ saved' = Contents /\ portable' = Portable

Reload == reloading /\ LoadStep /\ UNCHANGED exporter

\* The application goes on with what it loaded, or could not load.
Resume ==
    /\ reloading /\ phase \in {"idle", "dead"}
    /\ reloading' = FALSE /\ saved' = EmptyTable /\ portable' = FALSE
    /\ UNCHANGED vars

ExportNext ==
    \/ ~reloading /\ Next /\ UNCHANGED exporter
    \/ Export
    \/ Reload
    \/ Resume

ExportSpec == ExportInit /\ [][ExportNext]_<<vars, exporter>>

----------------------------------------------------------------------------
\* A dictionary whose names are current, with standard formats and no loop, is
\* restored by its own document: every entry under its key, every rule leading
\* to the AVP it led to, and no name that leads elsewhere.
ExportRestores ==
    reloading /\ portable /\ phase \in {"idle", "dead"} =>
        phase = "idle" /\ Contents = saved /\ NamesMatch
=============================================================================
