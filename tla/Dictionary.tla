----------------------------- MODULE Dictionary -----------------------------
(* stack::Dictionary: the tables of formats, vendors, AVPs and commands, the *)
(* three name indexes over them, and load(), which fills them from a JSON    *)
(* document entry by entry.  Every iteration of load's loops is one step,    *)
(* because a throw from any of them leaves the tables as they then are and   *)
(* the application may go on using them.  Nothing else runs while a load     *)
(* does: the other operations are enabled only between loads.                *)
(*                                                                           *)
(* A name index holds pointers to map nodes.  A node lives at a fixed place  *)
(* for its key, so a pointer is modelled by that key: an index maps a name   *)
(* to a code or an id, and a reader sees whatever the slot holds by then.    *)
EXTENDS Integers, Sequences, FiniteSets, RuleLevel

CONSTANTS Names,         \* identifiers a document may use: the format
                         \* literals, "AVP", "" and user-chosen ones
          Absent,        \* stands for an optional key a document leaves out
          Docs,          \* the documents the application may load
          ApiPresences   \* presences of the rules it adds by itself

BasicTypes == {"OctetString", "Integer32", "Integer64", "Unsigned32",
               "Unsigned64", "Float32", "Float64", "Grouped"}
DerivedTypes == {"Address", "Time", "UTF8String", "DiameterIdentity",
                 "DiameterURI", "Enumerated", "IPFilterRule", "QoSFilterRule"}
ReservedTypes == {"Unknown", "Any"}

\* Codes are S32 in the code: a document carries here the S32 value, negative
\* for a JSON number from 2^31 on.  "format" stands for the key single.format
\* of an AVP and "rules" for grouped.avprule; m-bit, p-bit, application-id,
\* enumerations and aliases are data no step depends on.
RuleDefs == [name : Names, type : STRING, qual : Qualifiers]
FormatDefs == [name : Names, parent : Names \cup {Absent}]
VendorDefs == [name : Names, code : Int]
AvpDefs == [name : Names, code : Int, vendor : Names \cup {Absent}, vBit : BOOLEAN,
            format : Names \cup {Absent}, enum : BOOLEAN, label : BOOLEAN,
            rules : Seq(RuleDefs) \cup {Absent}]
CommandDefs == [name : Names, code : Nat, request : BOOLEAN, rules : Seq(RuleDefs)]

\* The array a document has under a key, empty when the key is missing.
Section(d, key) == IF key \in DOMAIN d THEN d[key] ELSE <<>>

IsDoc(d) ==
    /\ Section(d, "format") \in Seq(FormatDefs)
    /\ Section(d, "vendor") \in Seq(VendorDefs)
    /\ Section(d, "avp") \in Seq(AvpDefs)
    /\ Section(d, "command") \in Seq(CommandDefs)

ASSUME NamesAssumption ==
    /\ BasicTypes \cup DerivedTypes \cup ReservedTypes \cup {"", "AVP"} \subseteq Names
    /\ Absent \notin Names
    /\ Absent \notin Seq(RuleDefs)
ASSUME DocsAssumption == \A d \in Docs : IsDoc(d)
ASSUME ApiAssumption == ApiPresences \subseteq Presences

VARIABLES
    formats,       \* name -> parent name, "" when it has none
    vendors,       \* code -> name
    avps,          \* <<code, vendor code>> -> [name, vBit, vendorName, format, level]
    commands,      \* <<code, request>> -> [name, level]
    vendorNames,   \* name -> code
    avpNames,      \* name -> <<code, vendor code>>
    commandNames,  \* name -> <<code, request>>
    phase,         \* where load() is
    doc,           \* the document being loaded
    at,            \* entries of the current loop already visited
    nth,           \* rules of the current entry already added
    target,        \* the AVP whose rules are being added (gavp)
    aux            \* the rules of the command being built

catalogue == <<formats, vendors, avps, commands, vendorNames, avpNames, commandNames>>
loader == <<phase, doc, at, nth, target, aux>>
vars == <<formats, vendors, avps, commands, vendorNames, avpNames, commandNames,
          phase, doc, at, nth, target, aux>>

----------------------------------------------------------------------------
\* std::map operator[]: update the entry or insert it.
Put(f, k, v) == [x \in DOMAIN f \cup {k} |-> IF x = k THEN v ELSE f[x]]

\* (variant) std::map emplace: the first entry stays.
PutIfNew(index, name, key) ==
    IF name \in DOMAIN index THEN index ELSE Put(index, name, key)

PutName(index, name, key) == Put(index, name, key)

EmptyTable == [k \in {} |-> k]

GenericId == <<0, 0>>
GenericAvp == [name |-> "AVP", vBit |-> FALSE, vendorName |-> "", format |-> "Any",
               level |-> EmptyLevel]

HardcodedFormats ==
    [f \in BasicTypes \cup DerivedTypes \cup {"Any"} |->
        IF f = "Enumerated" THEN "Integer32"
        ELSE IF f \in DerivedTypes THEN "OctetString" ELSE ""]

Init ==
    /\ formats = HardcodedFormats /\ vendors = EmptyTable /\ vendorNames = EmptyTable
    /\ commands = EmptyTable /\ commandNames = EmptyTable
    /\ avps = [id \in {GenericId} |-> GenericAvp]
    /\ avpNames = [n \in {"AVP"} |-> GenericId]
    /\ phase = "idle" /\ doc = EmptyTable /\ at = 0 /\ nth = 0
    /\ target = GenericId /\ aux = EmptyLevel

\* (variant) initialize() without avp_names_.clear().
InitializeKeepingNames ==
    /\ formats' = HardcodedFormats /\ vendors' = EmptyTable /\ vendorNames' = EmptyTable
    /\ commands' = EmptyTable /\ commandNames' = EmptyTable
    /\ avps' = [id \in {GenericId} |-> GenericAvp]
    /\ avpNames' = Put(avpNames, "AVP", GenericId)

\* (variant) initialize() without vendors_.clear().
InitializeKeepingVendors ==
    /\ formats' = HardcodedFormats /\ UNCHANGED vendors /\ vendorNames' = EmptyTable
    /\ commands' = EmptyTable /\ commandNames' = EmptyTable
    /\ avps' = [id \in {GenericId} |-> GenericAvp]
    /\ avpNames' = [n \in {"AVP"} |-> GenericId]

\* initialize(): what the constructor and clear() leave.
Initialize ==
    /\ formats' = HardcodedFormats /\ vendors' = EmptyTable /\ vendorNames' = EmptyTable
    /\ commands' = EmptyTable /\ commandNames' = EmptyTable
    /\ avps' = [id \in {GenericId} |-> GenericAvp]
    /\ avpNames' = [n \in {"AVP"} |-> GenericId]

----------------------------------------------------------------------------
\* Loading is over, normally or by a throw the application catches.
EndLoad ==
    /\ phase' = "idle" /\ doc' = EmptyTable /\ at' = 0 /\ nth' = 0
    /\ target' = GenericId /\ aux' = EmptyLevel

Throw == EndLoad /\ UNCHANGED catalogue

\* The code dereferences an end() iterator: what the JSON library finds there
\* makes it throw, or the process dies.
Undefined ==
    \/ Throw
    \/ phase' = "dead" /\ UNCHANGED <<catalogue, doc, at, nth, target, aux>>

IsGrouped(id) == avps[id].format = "Grouped"

\* Avp::isChild
HasChild(id, child) == IsGrouped(id) /\ IsChild(avps[id].level, child)

\* Format::isBasic
IsBasic(f) == formats[f] = "" /\ f \notin ReservedTypes

Entry(key) == Section(doc, key)[at + 1]
HasEntry(key) == at < Len(Section(doc, key))

\* One loop of load() over a section: the next entry, and the end of the loop.
Advance == at' = at + 1 /\ UNCHANGED <<phase, doc, nth, target, aux>>

EndLoop(key, next) ==
    /\ ~HasEntry(key)
    /\ phase' = next /\ at' = 0
    /\ UNCHANGED <<catalogue, doc, nth, target, aux>>

\* (variant) a load that starts from an empty dictionary.
LoadAfresh(d) ==
    /\ phase = "idle"
    /\ phase' = "format" /\ doc' = d /\ Initialize
    /\ UNCHANGED <<at, nth, target, aux>>

Load(d) ==
    /\ phase = "idle"
    /\ phase' = "format" /\ doc' = d
    /\ UNCHANGED <<catalogue, at, nth, target, aux>>

\* extractFormats and addFormat.  A parent the dictionary does not know passes.
FormatAccepted(f) ==
    /\ f.name # ""
    /\ f.parent \in DOMAIN formats => IsBasic(f.parent)
    /\ f.name \notin ReservedTypes

ExtractFormat ==
    /\ phase = "format" /\ HasEntry("format")
    /\ LET f == Entry("format") IN
        IF f.name # "" /\ f.parent = Absent THEN Undefined
        ELSE IF ~FormatAccepted(f) THEN Throw
        ELSE /\ formats' = Put(formats, f.name, f.parent)
             /\ UNCHANGED <<vendors, avps, commands, vendorNames, avpNames, commandNames>>
             /\ Advance

FormatsDone == phase = "format" /\ EndLoop("format", "vendor")

\* extractVendors and addVendor
\* (variant) the sign is not checked.
VendorAcceptedNegative(v) == v.name # ""

VendorAccepted(v) == v.code >= 0 /\ v.name # ""

ExtractVendor ==
    /\ phase = "vendor" /\ HasEntry("vendor")
    /\ LET v == Entry("vendor") IN
        IF ~VendorAccepted(v) THEN Throw
        ELSE /\ vendors' = Put(vendors, v.code, v.name)
             /\ vendorNames' = PutName(vendorNames, v.name, v.code)
             /\ UNCHANGED <<formats, avps, commands, avpNames, commandNames>>
             /\ Advance

VendorsDone == phase = "vendor" /\ EndLoop("vendor", "avp")

\* extractAvps, first loop, and addAvp: the AVP, still without its rules.
VendorCode(a) == IF a.vendor = Absent THEN 0 ELSE vendorNames[a.vendor]
FormatOf(a) == IF a.format = Absent THEN "Grouped" ELSE a.format
IdOf(a) == <<a.code, VendorCode(a)>>
SlotOf(a) == [name |-> a.name, vBit |-> a.vBit,
              vendorName |-> IF a.vendor = Absent THEN "" ELSE a.vendor,
              format |-> FormatOf(a), level |-> EmptyLevel]

\* (variant) the format name is not looked up.
AvpAcceptedAnyFormat(a) ==
    /\ a.name # "" /\ a.code >= 0
    /\ a.vendor # Absent => a.vendor \in DOMAIN vendorNames
    /\ a.vBit <=> VendorCode(a) # 0

\* (variant) v-bit is checked against a non-zero vendor only.
AvpAcceptedOneWay(a) ==
    /\ a.name # "" /\ a.code >= 0
    /\ a.vendor # Absent => a.vendor \in DOMAIN vendorNames
    /\ VendorCode(a) # 0 => a.vBit
    /\ a.format # Absent => a.format \in DOMAIN formats

AvpAccepted(a) ==
    /\ a.name # "" /\ a.code >= 0
    /\ a.vendor # Absent => a.vendor \in DOMAIN vendorNames
    /\ a.vBit <=> VendorCode(a) # 0
    /\ a.format # Absent => /\ a.format \in DOMAIN formats
                            /\ a.enum => a.format = "Enumerated"
                            /\ a.label => a.format # "Grouped"

ExtractAvp ==
    /\ phase = "avp" /\ HasEntry("avp")
    /\ LET a == Entry("avp") IN
        IF ~AvpAccepted(a) THEN Throw
        ELSE /\ avps' = Put(avps, IdOf(a), SlotOf(a))
             /\ avpNames' = PutName(avpNames, a.name, IdOf(a))
             /\ UNCHANGED <<formats, vendors, commands, vendorNames, commandNames>>
             /\ Advance

AvpsDone == phase = "avp" /\ EndLoop("avp", "grouped")

\* (variant) the second loop asks the entry, not the slot.
GroupedEntryTrusting ==
    /\ phase = "grouped" /\ HasEntry("avp")
    /\ LET a == Entry("avp") IN
        IF a.rules = Absent THEN Advance /\ UNCHANGED catalogue
        ELSE /\ phase' = "rule" /\ target' = avpNames[a.name]
             /\ UNCHANGED <<catalogue, doc, at, nth, aux>>

\* extractAvps, second loop.  It asks the slot the entry's name leads to, not
\* the entry, whether it is grouped: when the entry is "single" all the same,
\* there is no array of rules to visit.
GroupedEntry ==
    /\ phase = "grouped" /\ HasEntry("avp")
    /\ LET a == Entry("avp")  id == avpNames[a.name] IN
        IF ~IsGrouped(id) THEN Advance /\ UNCHANGED catalogue
        ELSE IF a.rules = Absent THEN Undefined
        ELSE /\ phase' = "rule" /\ target' = id
             /\ UNCHANGED <<catalogue, doc, at, nth, aux>>

RuleAccepted(r) == r.name \in DOMAIN avpNames /\ QualAccepted(r.qual)
RuleOf(r) == [avp |-> avpNames[r.name], presence |-> AsPresence(r.type), qual |-> r.qual]

SetLevel(id, level) ==
    /\ avps' = [avps EXCEPT ![id].level = level]
    /\ UNCHANGED <<formats, vendors, commands, vendorNames, avpNames, commandNames>>

\* Each rule goes straight into the registered AVP.
GroupedRule ==
    /\ phase = "rule" /\ nth < Len(Entry("avp").rules)
    /\ LET r == Entry("avp").rules[nth + 1]  level == avps[target].level IN
        IF ~RuleAccepted(r) THEN Throw
        ELSE IF ~RuleFits(level, RuleOf(r))
             THEN EndLoad /\ SetLevel(target, AfterRefusal(level, RuleOf(r)))
        ELSE /\ SetLevel(target, WithRule(level, RuleOf(r)))
             /\ nth' = nth + 1
             /\ UNCHANGED <<phase, doc, at, target, aux>>

GroupedEntryDone ==
    /\ phase = "rule" /\ nth = Len(Entry("avp").rules)
    /\ phase' = "grouped" /\ at' = at + 1 /\ nth' = 0 /\ target' = GenericId
    /\ UNCHANGED <<catalogue, doc, aux>>

GroupedDone == phase = "grouped" /\ EndLoop("avp", "loops")

\* (variant) only an AVP that is its own child.
SelfLoop == \E id \in DOMAIN avps : HasChild(id, id)

\* extractAvps, last loops: an AVP one of whose parents is also its child.
ShortLoop == \E id, parent \in DOMAIN avps : HasChild(parent, id) /\ HasChild(id, parent)

CheckLoops ==
    /\ phase = "loops"
    /\ IF "avp" \in DOMAIN doc /\ ShortLoop THEN Throw
       ELSE phase' = "command" /\ UNCHANGED <<catalogue, doc, at, nth, target, aux>>

\* extractCommands: a command is built apart ...
CommandEntry ==
    /\ phase = "command" /\ HasEntry("command")
    /\ IF Entry("command").name = "" THEN Throw
       ELSE phase' = "building" /\ UNCHANGED <<catalogue, doc, at, nth, target, aux>>

CommandRule ==
    /\ phase = "building" /\ nth < Len(Entry("command").rules)
    /\ LET r == Entry("command").rules[nth + 1] IN
        IF RuleAccepted(r) /\ RuleFits(aux, RuleOf(r))
        THEN /\ aux' = WithRule(aux, RuleOf(r)) /\ nth' = nth + 1
             /\ UNCHANGED <<catalogue, phase, doc, at, target>>
        ELSE Throw

\* (variant) a request and its answer share an entry.
CommandIdOfCode(c) == <<c.code, TRUE>>

CommandIdOf(c) == <<c.code, c.request>>

\* (variant) addCommand before the rules are extracted.
RulesVisitedEarly(c) == nth <= Len(c.rules)

RulesVisited(c) == nth = Len(c.rules)

\* ... and addCommand stores it when all its rules are in.
AddCommand ==
    /\ phase = "building" /\ RulesVisited(Entry("command"))
    /\ LET c == Entry("command")  id == CommandIdOf(c) IN
        /\ commands' = Put(commands, id, [name |-> c.name, level |-> aux])
        /\ commandNames' = PutName(commandNames, c.name, id)
    /\ UNCHANGED <<formats, vendors, avps, vendorNames, avpNames>>
    /\ phase' = "command" /\ at' = at + 1 /\ nth' = 0 /\ aux' = EmptyLevel
    /\ UNCHANGED <<doc, target>>

CommandsDone ==
    /\ phase = "command" /\ ~HasEntry("command")
    /\ EndLoad /\ UNCHANGED catalogue

LoadStep ==
    \/ ExtractFormat \/ FormatsDone \/ ExtractVendor \/ VendorsDone
    \/ ExtractAvp \/ AvpsDone \/ GroupedEntry \/ GroupedRule \/ GroupedEntryDone
    \/ GroupedDone \/ CheckLoops \/ CommandEntry \/ CommandRule \/ AddCommand
    \/ CommandsDone

----------------------------------------------------------------------------
Clear == phase = "idle" /\ Initialize /\ UNCHANGED loader

\* The next process constructs its dictionary.
Restart == phase = "dead" /\ Initialize /\ EndLoad

\* Avp::addAvpRule on an AVP got from getAvp, which the application may call
\* itself; no loop check follows.  The rule's AVP is one the dictionary has.
AddAvpRule(id, rule) ==
    /\ phase = "idle" /\ IsGrouped(id)
    /\ SetLevel(id, IF RuleFits(avps[id].level, rule)
                    THEN WithRule(avps[id].level, rule)
                    ELSE AfterRefusal(avps[id].level, rule))
    /\ UNCHANGED loader

Next ==
    \/ \E d \in Docs : Load(d)
    \/ LoadStep
    \/ Clear
    \/ Restart
    \/ \E id, child \in DOMAIN avps, p \in ApiPresences :
            AddAvpRule(id, [avp |-> child, presence |-> p, qual |-> NoQual])

Spec == Init /\ [][Next]_vars

----------------------------------------------------------------------------
IsTable(f, Keys, Values) == DOMAIN f \subseteq Keys /\ f \in [DOMAIN f -> Values]

AvpIds == Nat \X Nat
CommandIds == Nat \X BOOLEAN
Rules == [avp : AvpIds, presence : Presences, qual : Qualifiers]
Levels == [rules : Seq(Rules), allowFixed : BOOLEAN]
AvpSlots == [name : Names, vBit : BOOLEAN, vendorName : Names, format : Names, level : Levels]
Phases == {"idle", "format", "vendor", "avp", "grouped", "rule", "loops",
           "command", "building", "dead"}

TablesTyped ==
    /\ IsTable(formats, Names, Names)
    /\ IsTable(vendors, Nat, Names)
    /\ IsTable(avps, AvpIds, AvpSlots)
    /\ IsTable(commands, CommandIds, [name : Names, level : Levels])
    /\ IsTable(vendorNames, Names, Nat)
    /\ IsTable(avpNames, Names, AvpIds)
    /\ IsTable(commandNames, Names, CommandIds)

LoaderTyped ==
    /\ phase \in Phases
    /\ IsDoc(doc)
    /\ at \in Nat /\ nth \in Nat
    /\ target \in AvpIds
    /\ aux \in Levels

\* The tables and the loader's locals have their types.
TypeOK == TablesTyped /\ LoaderTyped

RulesResolve(level) == \A i \in DOMAIN level.rules : level.rules[i].avp \in DOMAIN avps

\* Every reference in the tables leads somewhere: the getters hand out pointers
\* and formats that getFormat(), isChild(), getAvpName() and asJson() use
\* unchecked.  Holds at every point of every load, failed ones included.
ReferencesResolve ==
    /\ \A n \in DOMAIN vendorNames : vendorNames[n] \in DOMAIN vendors
    /\ \A n \in DOMAIN avpNames : avpNames[n] \in DOMAIN avps
    /\ \A n \in DOMAIN commandNames : commandNames[n] \in DOMAIN commands
    /\ \A id \in DOMAIN avps : /\ avps[id].format \in DOMAIN formats
                               /\ RulesResolve(avps[id].level)
    /\ \A c \in DOMAIN commands : RulesResolve(commands[c].level)

\* A slot can be found under the name it carries, though perhaps not only it.
SlotsAreNamed ==
    /\ \A code \in DOMAIN vendors : vendors[code] \in DOMAIN vendorNames
    /\ \A id \in DOMAIN avps : avps[id].name \in DOMAIN avpNames
    /\ \A c \in DOMAIN commands : commands[c].name \in DOMAIN commandNames

\* The rules of a grouped AVP or a command, complete or not, put fixed rules
\* first and no AVP twice; only a grouped AVP has any.
LevelsOrdered ==
    /\ \A id \in DOMAIN avps :
        /\ FixedFirst(avps[id].level) /\ OneRulePerAvp(avps[id].level)
        /\ avps[id].level.rules # <<>> => IsGrouped(id)
    /\ \A c \in DOMAIN commands :
        FixedFirst(commands[c].level) /\ OneRulePerAvp(commands[c].level)

\* The V bit an AVP is encoded with says whether it has a vendor, and that
\* vendor is a vendor of the dictionary.
VendorBitMatches ==
    \A id \in DOMAIN avps :
        /\ avps[id].vBit <=> id[2] # 0
        /\ id[2] # 0 => id[2] \in DOMAIN vendors

\* The lookups the code does not check: the index entry of an AVP of the
\* document in the second loop (a_it), the slot behind gavp in the inner one.
UncheckedLookups ==
    /\ phase \in {"grouped", "rule"} =>
        \A i \in DOMAIN Section(doc, "avp") : Section(doc, "avp")[i].name \in DOMAIN avpNames
    /\ phase = "rule" => target \in DOMAIN avps /\ IsGrouped(target)

----------------------------------------------------------------------------
\* A step of a load, its call included.
Loading == phase \notin {"idle", "dead"} \/ phase' = "format"

\* Defines(a, id): definition a of the document is about the AVP id.
Defines(a, id) ==
    /\ a.code = id[1]
    /\ IF a.vendor = Absent THEN id[2] = 0
       ELSE a.vendor \in DOMAIN vendorNames /\ vendorNames[a.vendor] = id[2]

\* "Successive loadings will imply data accumulation": a load never removes an
\* entry or a name, not even when it fails half-way.
LoadAccumulates ==
    [][Loading =>
        /\ DOMAIN formats \subseteq DOMAIN formats'
        /\ DOMAIN vendors \subseteq DOMAIN vendors'
        /\ DOMAIN avps \subseteq DOMAIN avps'
        /\ DOMAIN commands \subseteq DOMAIN commands'
        /\ DOMAIN vendorNames \subseteq DOMAIN vendorNames'
        /\ DOMAIN avpNames \subseteq DOMAIN avpNames'
        /\ DOMAIN commandNames \subseteq DOMAIN commandNames']_vars

\* "... where updates are allowed": the AVPs a load changes are those its
\* document defines, the rules of the second loop included, although that loop
\* finds them through the name index, which redefinitions have made stale.
LoadTouchesOnlyItsAvps ==
    [][Loading =>
        \A id \in DOMAIN avps :
            avps'[id] # avps[id] =>
                \E i \in DOMAIN Section(doc, "avp") : Defines(Section(doc, "avp")[i], id)]_vars

\* A command enters the table, or replaces another one, with all the rules of
\* its definition or not at all: what fails half-way shows in no command.
CommandsAreWhole ==
    [][\A c \in DOMAIN commands' :
        (c \in DOMAIN commands => commands'[c] # commands[c]) =>
            /\ phase = "building"
            /\ Len(commands'[c].level.rules) = Len(Entry("command").rules)]_vars

\* A definition with its rules, as those who read the tables know it.
Published(slot) == [name |-> slot.name, vBit |-> slot.vBit, vendorName |-> slot.vendorName,
                    format |-> slot.format, rules |-> slot.level.rules]
PublishedCommand(slot) == [name |-> slot.name, rules |-> slot.level.rules]

Definitions == INSTANCE Catalogue WITH
                    avps <- [id \in DOMAIN avps |-> Published(avps[id])],
                    commands <- [c \in DOMAIN commands |-> PublishedCommand(commands[c])],
                    FirstFormats <- HardcodedFormats,
                    FirstAvps <- [id \in {GenericId} |-> Published(GenericAvp)]

\* Whatever is loaded, added by hand or fails half-way, the tables change as
\* Catalogue says: one whole definition or one rule at a time, no rule once
\* added moves, and a refused rule shows in no table.
ImplementsCatalogue == Definitions!Spec

\* What definition a of the document asks of the tables: its slot, found by its
\* name, with its rules in order, each leading to what its name now means.
RulesOf(a) ==
    IF FormatOf(a) # "Grouped" THEN <<>> ELSE [k \in DOMAIN a.rules |-> RuleOf(a.rules[k])]

AvpAsDefined(a) ==
    /\ avpNames[a.name] = IdOf(a)
    /\ [avps[IdOf(a)] EXCEPT !.level = EmptyLevel] = SlotOf(a)
    /\ avps[IdOf(a)].level.rules = RulesOf(a)

CommandAsDefined(c) ==
    LET id == CommandIdOf(c) IN
    /\ commandNames[c.name] = id /\ commands[id].name = c.name
    /\ commands[id].level.rules = [k \in DOMAIN c.rules |-> RuleOf(c.rules[k])]

\* The first n entries of a section are about different things.
AvpsDistinct(n) ==
    \A i, j \in 1..n : i # j =>
        /\ Section(doc, "avp")[i].name # Section(doc, "avp")[j].name
        /\ IdOf(Section(doc, "avp")[i]) # IdOf(Section(doc, "avp")[j])
CommandsDistinct(n) ==
    \A i, j \in 1..n : i # j =>
        LET c == Section(doc, "command")[i]  d == Section(doc, "command")[j] IN
        c.name # d.name /\ CommandIdOf(c) # CommandIdOf(d)

\* A load that gets to its commands has put every AVP of its document into the
\* tables as defined, and so has every command it went past, whatever the
\* tables held before: provided the document says nothing twice.
LoadedAsDefined ==
    /\ phase \in {"loops", "command", "building"} /\ AvpsDistinct(Len(Section(doc, "avp"))) =>
        \A i \in DOMAIN Section(doc, "avp") : AvpAsDefined(Section(doc, "avp")[i])
    /\ phase \in {"command", "building"} /\ CommandsDistinct(at) =>
        \A i \in 1..at : CommandAsDefined(Section(doc, "command")[i])

Edge(parent, child) ==
    /\ avps[parent].format = "Grouped"
    /\ \E i \in DOMAIN avps[parent].level.rules : avps[parent].level.rules[i].avp = child

LoopsPassed == phase = "loops" /\ phase' = "command" /\ "avp" \in DOMAIN doc

\* A load with AVPs that goes on to its commands has left no AVP that contains
\* itself and no two that contain each other, whatever earlier loads left.
NoShortLoopPasses ==
    [][LoopsPassed => \A a, b \in DOMAIN avps : ~(Edge(a, b) /\ Edge(b, a))]_vars

\* "a grouped AVP won't have descendants within its ascendants": taking away,
\* again and again, the AVPs that contain none of those left takes all away.
Acyclic ==
    LET Left[ids \in SUBSET DOMAIN avps] ==
            LET containing == {a \in ids : \E b \in ids : Edge(a, b)}
            IN IF containing = ids THEN ids ELSE Left[containing]
    IN Left[DOMAIN avps] = {}

NoLoopPasses == [][LoopsPassed => Acyclic]_vars

\* A redefinition removes the name it replaces: the name an AVP is found by is
\* the name it has.
NamesAreCurrent == \A n \in DOMAIN avpNames : avps[avpNames[n]].name = n

\* The parent of a derived format is a basic one, which getBasicType returns.
BasicTypeDefined ==
    \A f \in DOMAIN formats :
        formats[f] # "" => formats[f] \in DOMAIN formats /\ IsBasic(formats[f])

\* No document of the schema drives the loader past the end of an object.
LoadIsDefined == phase # "dead"
=============================================================================
