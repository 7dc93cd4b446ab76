----------------------- MODULE DictionaryExportProofs -----------------------
(* A dictionary is restored by the document it writes itself into, for every *)
(* set of names and documents: ExportRestores.                               *)
(*                                                                           *)
(* The document lists the entries of the tables (Says), and a load of it     *)
(* visits them.  The invariant says which entries are back at each point of  *)
(* that load (Restoring).  None of them can be refused, since the tables     *)
(* they come from have passed the same checks (EntriesInv, Exportable).      *)
EXTENDS DictionaryExport, DictionaryProofs, MapOrderProofs

QualsAccepted(level) == \A i \in DOMAIN level.rules : QualAccepted(level.rules[i].qual)

FirstEntries == DOMAIN HardcodedFormats \subseteq DOMAIN formats /\ GenericId \in DOMAIN avps

NamesGiven ==
    /\ "" \notin DOMAIN formats /\ "Unknown" \notin DOMAIN formats
    /\ \A code \in DOMAIN vendors : vendors[code] # ""
    /\ \A id \in DOMAIN avps : avps[id].name # ""
    /\ \A c \in DOMAIN commands : commands[c].name # ""

TablesFinite ==
    /\ IsFiniteSet(DOMAIN formats) /\ IsFiniteSet(DOMAIN vendors)
    /\ IsFiniteSet(DOMAIN avps) /\ IsFiniteSet(DOMAIN commands)

QualsInv ==
    /\ \A id \in DOMAIN avps : QualsAccepted(avps[id].level)
    /\ \A c \in DOMAIN commands : QualsAccepted(commands[c].level)

BuildingInv ==
    QualsAccepted(aux) /\ (phase = "building" => Entry("command").name # "")

\* What the checks of a load leave in the tables: finitely many entries, among
\* them the first ones, with names, and rules whose qualifier has an asterisk.
EntriesInv == FirstEntries /\ NamesGiven /\ TablesFinite /\ QualsInv /\ BuildingInv

----------------------------------------------------------------------------
\* The first entries of a dictionary.
LEMMA FirstTables ==
    /\ IsFiniteSet(DOMAIN HardcodedFormats) /\ IsFiniteSet({GenericId}) /\ IsFiniteSet({})
    /\ "" \notin DOMAIN HardcodedFormats /\ "Unknown" \notin DOMAIN HardcodedFormats
    /\ GenericAvp.name = "AVP" /\ GenericAvp.level = EmptyLevel /\ GenericAvp.format = "Any"
    /\ GenericAvp.vBit = FALSE /\ GenericAvp.vendorName = ""
    /\ EmptyLevel.rules = <<>> /\ EmptyLevel.allowFixed
    /\ QualsAccepted(EmptyLevel)
  <1>1. DOMAIN HardcodedFormats = BasicTypes \cup DerivedTypes \cup {"Any"}
    BY DEF HardcodedFormats
  <1>2. IsFiniteSet(BasicTypes) /\ IsFiniteSet(DerivedTypes) /\ IsFiniteSet({"Any"})
    <2>1. IsFiniteSet({}) /\ \A S : IsFiniteSet(S) => \A x : IsFiniteSet(S \cup {x})
      BY FS_EmptySet, FS_AddElement
    <2>3. BasicTypes = ((((((({} \cup {"OctetString"}) \cup {"Integer32"}) \cup {"Integer64"})
                            \cup {"Unsigned32"}) \cup {"Unsigned64"}) \cup {"Float32"})
                            \cup {"Float64"}) \cup {"Grouped"}
      BY DEF BasicTypes
    <2>4. DerivedTypes = ((((((({} \cup {"Address"}) \cup {"Time"}) \cup {"UTF8String"})
                            \cup {"DiameterIdentity"}) \cup {"DiameterURI"}) \cup {"Enumerated"})
                            \cup {"IPFilterRule"}) \cup {"QoSFilterRule"}
      BY DEF DerivedTypes
    <2> HIDE DEF BasicTypes, DerivedTypes
    <2>5. IsFiniteSet(BasicTypes)
      BY <2>1, <2>3, Zenon
    <2>6. IsFiniteSet(DerivedTypes)
      BY <2>1, <2>4, Zenon
    <2>7. IsFiniteSet({"Any"})
      BY FS_Singleton
    <2> QED BY <2>5, <2>6, <2>7
  <1>3. IsFiniteSet(DOMAIN HardcodedFormats)
    <2> HIDE DEF BasicTypes, DerivedTypes
    <2>1. IsFiniteSet(BasicTypes \cup DerivedTypes)
      BY ONLY <1>2, FS_Union
    <2>2. IsFiniteSet((BasicTypes \cup DerivedTypes) \cup {"Any"})
      BY ONLY <1>2, <2>1, FS_Union
    <2> QED BY ONLY <1>1, <2>2
  <1>4. "" \notin DOMAIN HardcodedFormats /\ "Unknown" \notin DOMAIN HardcodedFormats
    BY <1>1 DEF BasicTypes, DerivedTypes
  <1>5. IsFiniteSet({GenericId}) /\ IsFiniteSet({})
    BY FS_Singleton, FS_EmptySet
  <1>6. /\ GenericAvp.name = "AVP" /\ GenericAvp.level = EmptyLevel /\ GenericAvp.format = "Any"
        /\ GenericAvp.vBit = FALSE /\ GenericAvp.vendorName = ""
        /\ EmptyLevel.rules = <<>> /\ EmptyLevel.allowFixed
    BY DEF GenericAvp, EmptyLevel
  <1>7. QualsAccepted(EmptyLevel)
    <2>1. DOMAIN EmptyLevel.rules = {}
      BY DEF EmptyLevel
    <2> QED BY <2>1 DEF QualsAccepted
  <1> QED BY <1>3, <1>4, <1>5, <1>6, <1>7

\* A level with an accepted rule more has accepted rules.
LEMMA QualsAppended ==
    ASSUME NEW level \in Levels, NEW rule \in Rules, QualsAccepted(level), QualAccepted(rule.qual),
           NEW new, new.rules = Append(level.rules, rule)
    PROVE  QualsAccepted(new)
  <1>1. /\ level.rules \in Seq(Rules)
        /\ DOMAIN new.rules = 1..(Len(level.rules) + 1)
        /\ DOMAIN level.rules = 1..Len(level.rules)
        /\ Len(level.rules) \in Nat
        /\ \A i \in DOMAIN level.rules : new.rules[i] = level.rules[i]
        /\ new.rules[Len(level.rules) + 1] = rule
    BY DEF Levels
  <1>2. \A i \in DOMAIN new.rules : i = Len(level.rules) + 1 \/ i \in DOMAIN level.rules
    BY <1>1
  <1> QED BY <1>1, <1>2 DEF QualsAccepted

\* A format, a vendor, an AVP or a command put into its table keeps the entries.
LEMMA EntryPut ==
    ASSUME Inv, EntriesInv,
           PutsFormat \/ PutsVendor \/ PutsAvp \/ PutsCommand
    PROVE  FirstEntries' /\ NamesGiven' /\ TablesFinite' /\ QualsInv'
  <1> USE DEF EntriesInv
  <1>1. CASE PutsFormat
    <2>1. PICK n \in Names \ ({""} \cup ReservedTypes), p \in Names : formats' = Put(formats, n, p)
      BY <1>1 DEF PutsFormat
    <2>2. DOMAIN formats' = DOMAIN formats \cup {n} /\ IsFiniteSet(DOMAIN formats')
      <3>1. DOMAIN formats' = DOMAIN formats \cup {n}
        BY <2>1 DEF Put
      <3> QED BY <3>1, FS_AddElement DEF TablesFinite
    <2>3. UNCHANGED <<vendors, avps, commands>>
      BY <1>1 DEF PutsFormat
    <2>4. n # "" /\ n # "Unknown"
      BY DEF ReservedTypes
    <2> QED BY <2>2, <2>3, <2>4 DEF FirstEntries, NamesGiven, TablesFinite, QualsInv
  <1>2. CASE PutsVendor
    <2>1. PICK c \in Nat, n \in Names \ {""} : vendors' = Put(vendors, c, n)
      BY <1>2 DEF PutsVendor
    <2>2. /\ DOMAIN vendors' = DOMAIN vendors \cup {c} /\ IsFiniteSet(DOMAIN vendors')
          /\ vendors'[c] = n /\ \A x \in DOMAIN vendors : x # c => vendors'[x] = vendors[x]
      <3>1. /\ DOMAIN vendors' = DOMAIN vendors \cup {c} /\ vendors'[c] = n
            /\ \A x \in DOMAIN vendors : x # c => vendors'[x] = vendors[x]
        BY <2>1 DEF Put
      <3> QED BY <3>1, FS_AddElement DEF TablesFinite
    <2>3. UNCHANGED <<formats, avps, commands>>
      BY <1>2 DEF PutsVendor
    <2>4. n # ""
      OBVIOUS
    <2> QED BY <2>2, <2>3, <2>4 DEF FirstEntries, NamesGiven, TablesFinite, QualsInv
  <1>3. CASE PutsAvp
    <2>1. PICK id \in AvpIds, n \in Names \ {""}, vn \in Names, v \in BOOLEAN,
               f \in DOMAIN formats :
                avps' = Put(avps, id, [name |-> n, vBit |-> v, vendorName |-> vn, format |-> f,
                                       level |-> EmptyLevel])
      BY <1>3 DEF PutsAvp
    <2>2. /\ DOMAIN avps' = DOMAIN avps \cup {id} /\ IsFiniteSet(DOMAIN avps')
          /\ avps'[id].name = n /\ avps'[id].level = EmptyLevel
          /\ \A x \in DOMAIN avps : x # id => avps'[x] = avps[x]
      <3>1. /\ DOMAIN avps' = DOMAIN avps \cup {id}
            /\ avps'[id].name = n /\ avps'[id].level = EmptyLevel
            /\ \A x \in DOMAIN avps : x # id => avps'[x] = avps[x]
        BY <2>1 DEF Put
      <3> QED BY <3>1, FS_AddElement DEF TablesFinite
    <2>3. UNCHANGED <<formats, vendors, commands>>
      BY <1>3 DEF PutsAvp
    <2>4. n # ""
      OBVIOUS
    <2>5. QualsInv'
      BY <2>2, <2>3, FirstTables DEF QualsInv
    <2> QED BY <2>2, <2>3, <2>4, <2>5 DEF FirstEntries, NamesGiven, TablesFinite
  <1>4. CASE PutsCommand
    <2>1. PICK id \in CommandIds : commands' = Put(commands, id, [name |-> Entry("command").name,
                                                                 level |-> aux])
      BY <1>4 DEF PutsCommand
    <2>2. /\ DOMAIN commands' = DOMAIN commands \cup {id} /\ IsFiniteSet(DOMAIN commands')
          /\ commands'[id].name = Entry("command").name /\ commands'[id].level = aux
          /\ \A x \in DOMAIN commands : x # id => commands'[x] = commands[x]
      <3>1. /\ DOMAIN commands' = DOMAIN commands \cup {id}
            /\ commands'[id].name = Entry("command").name /\ commands'[id].level = aux
            /\ \A x \in DOMAIN commands : x # id => commands'[x] = commands[x]
        BY <2>1 DEF Put
      <3> QED BY <3>1, FS_AddElement DEF TablesFinite
    <2>3. UNCHANGED <<formats, vendors, avps>>
      BY <1>4 DEF PutsCommand
    <2>4. Entry("command").name # "" /\ QualsAccepted(aux)
      BY <1>4 DEF PutsCommand, BuildingInv
    <2>5. QualsInv'
      BY <2>2, <2>3, <2>4 DEF QualsInv
    <2> QED BY <2>2, <2>3, <2>4, <2>5 DEF FirstEntries, NamesGiven, TablesFinite
  <1> QED BY <1>1, <1>2, <1>3, <1>4

\* So does a rule added, or refused.
LEMMA EntryLevelSet ==
    ASSUME Inv, EntriesInv, SetsLevel
    PROVE  FirstEntries' /\ NamesGiven' /\ TablesFinite' /\ QualsInv'
  <1> USE DEF EntriesInv
  <1>1. PICK id \in DOMAIN avps, level \in Levels :
            /\ \/ level.rules = avps[id].level.rules
               \/ \E rule \in Rules :
                    QualAccepted(rule.qual) /\ level.rules = Append(avps[id].level.rules, rule)
            /\ avps' = [avps EXCEPT ![id].level = level]
    BY DEF SetsLevel
  <1>2. DOMAIN avps' = DOMAIN avps /\ \A x \in DOMAIN avps : avps[x] \in AvpSlots
    BY <1>1 DEF Inv, TablesInv, TablesTyped, IsTable
  <1>3. \A x \in DOMAIN avps :
            /\ avps'[x].name = avps[x].name
            /\ avps'[x].level = IF x = id THEN level ELSE avps[x].level
    BY <1>1, <1>2 DEF AvpSlots
  <1>4. UNCHANGED <<formats, vendors, commands>>
    BY DEF SetsLevel
  <1>5. QualsAccepted(level)
    <2>1. avps[id].level \in Levels /\ QualsAccepted(avps[id].level)
      BY SlotLevel DEF Inv, QualsInv
    <2>2. CASE level.rules = avps[id].level.rules
      BY <2>1, <2>2 DEF QualsAccepted
    <2>3. CASE \E rule \in Rules :
                    QualAccepted(rule.qual) /\ level.rules = Append(avps[id].level.rules, rule)
      BY <2>1, <2>3, QualsAppended
    <2> QED BY <1>1, <2>2, <2>3
  <1> QED BY <1>2, <1>3, <1>4, <1>5 DEF FirstEntries, NamesGiven, TablesFinite, QualsInv

\* What initialize() leaves has the first entries, and no others.
LEMMA EntriesInitialized ==
    /\ Init => EntriesInv
    /\ Initialize => FirstEntries' /\ NamesGiven' /\ TablesFinite' /\ QualsInv'
  <1>1. ASSUME Init PROVE EntriesInv
    BY <1>1, FirstTables
    DEF Init, EmptyTable, EntriesInv, FirstEntries, NamesGiven, TablesFinite, QualsInv, BuildingInv
  <1>2. ASSUME Initialize PROVE FirstEntries' /\ NamesGiven' /\ TablesFinite' /\ QualsInv'
    BY <1>2, FirstTables
    DEF Initialize, EmptyTable, FirstEntries, NamesGiven, TablesFinite, QualsInv
  <1> QED BY <1>1, <1>2

\* The command being built has a name and accepted rules.
LEMMA BuildingStep ==
    ASSUME Inv, BuildingInv, [Next]_vars
    PROVE  BuildingInv'
  <1>1. CASE CommandRule
    <2> DEFINE r == Entry("command").rules[nth + 1]
    <2>1. CASE EndLoad
      BY <2>1, FirstTables DEF EndLoad, BuildingInv
    <2>2. CASE ~EndLoad
      <3>1. /\ phase = "building" /\ nth < Len(Entry("command").rules)
            /\ RuleAccepted(r) /\ aux' = WithRule(aux, RuleOf(r))
            /\ UNCHANGED <<phase, doc, at>>
        BY <1>1, <2>2 DEF CommandRule, Throw
      <3>2. r \in RuleDefs
        <4>1. Entry("command").rules \in Seq(RuleDefs)
          BY <3>1, EntryTypes DEF Inv, LoaderInv, CommandDefs
        <4>2. nth \in Nat
          BY DEF Inv, LoaderInv, LoaderTyped
        <4> QED BY <3>1, <4>1, <4>2
      <3>3. RuleOf(r) \in Rules /\ aux \in Levels
        BY <3>1, <3>2, RuleTypes DEF Inv, TablesInv, LoaderInv, LoaderTyped
      <3>4. QualAccepted(RuleOf(r).qual) /\ aux'.rules = Append(aux.rules, RuleOf(r))
        BY <3>1 DEF RuleAccepted, RuleOf, WithRule
      <3>5. QualsAccepted(aux')
        BY <3>3, <3>4, QualsAppended DEF BuildingInv
      <3>6. Entry("command")' = Entry("command")
        BY <3>1 DEF Entry, Section
      <3> QED BY <3>1, <3>5, <3>6 DEF BuildingInv, QualsAccepted
    <2> QED BY <2>1, <2>2
  <1>2. CASE CommandEntry
    BY <1>2, FirstTables
       DEF CommandEntry, Throw, EndLoad, BuildingInv, Entry, Section, QualsAccepted
  <1>3. CASE ~CommandRule /\ ~CommandEntry
    <2>1. aux' = EmptyLevel \/ aux' = aux
      BY <1>3
      DEF Next, LoadStep, Load, ExtractFormat, FormatsDone, ExtractVendor, VendorsDone, ExtractAvp,
          AvpsDone, GroupedEntry, GroupedRule, GroupedEntryDone, GroupedDone, CheckLoops,
          AddCommand, CommandsDone, Clear, Restart, AddAvpRule, Undefined, Throw, EndLoad, EndLoop,
          Advance, loader, vars
    <2>2. phase' = "building" => phase = "building" /\ UNCHANGED <<doc, at>>
      BY <1>3
      DEF Next, LoadStep, Load, ExtractFormat, FormatsDone, ExtractVendor, VendorsDone, ExtractAvp,
          AvpsDone, GroupedEntry, GroupedRule, GroupedEntryDone, GroupedDone, CheckLoops,
          AddCommand, CommandsDone, Clear, Restart, AddAvpRule, Undefined, Throw, EndLoad, EndLoop,
          Advance, loader, vars
    <2> QED BY <2>1, <2>2, FirstTables DEF BuildingInv, Entry, Section, QualsAccepted
  <1> QED BY <1>1, <1>2, <1>3

\* The entries' part of the invariant is inductive.
LEMMA EntriesStep ==
    ASSUME Inv, EntriesInv, [Next]_vars
    PROVE  EntriesInv'
  <1>1. UNCHANGED catalogue => FirstEntries' /\ NamesGiven' /\ TablesFinite' /\ QualsInv'
    BY DEF catalogue, EntriesInv, FirstEntries, NamesGiven, TablesFinite, QualsInv
  <1>2. FirstEntries' /\ NamesGiven' /\ TablesFinite' /\ QualsInv'
    BY <1>1, StepCases, EntryPut, EntryLevelSet, EntriesInitialized DEF Clear, Restart
  <1>3. BuildingInv'
    BY BuildingStep DEF EntriesInv
  <1> QED BY <1>2, <1>3 DEF EntriesInv

----------------------------------------------------------------------------
(* The document.                                                            *)

\* s has the entries of a table, each once, in some order.
Lists(s, entry) ==
    /\ \A i \in 1..Len(s) : \E k \in DOMAIN entry : s[i] = entry[k]
    /\ \A k \in DOMAIN entry : \E i \in 1..Len(s) : s[i] = entry[k]
    /\ \A i, j \in 1..Len(s) : i # j =>
        \E k, l \in DOMAIN entry : k # l /\ s[i] = entry[k] /\ s[j] = entry[l]

\* What the document says of each entry of a dictionary that holds c.
FormatSaid(c) == [f \in DOMAIN c.formats \ DOMAIN HardcodedFormats |->
    [name |-> f, parent |-> IF c.formats[f] = "" THEN Absent ELSE c.formats[f]]]

VendorSaid(c) == [code \in DOMAIN c.vendors |-> [name |-> c.vendors[code], code |-> code]]

RulesSaid(c, rules) == [i \in DOMAIN rules |->
    [name |-> c.avps[rules[i].avp].name, type |-> rules[i].presence, qual |-> rules[i].qual]]

AvpSaid(c) == [id \in {i \in DOMAIN c.avps : c.avps[i].format # "Any"} |->
    [name |-> c.avps[id].name, code |-> id[1], vBit |-> c.avps[id].vBit,
     vendor |-> IF id[2] = 0 THEN Absent ELSE c.avps[id].vendorName,
     format |-> IF c.avps[id].format = "Grouped" THEN Absent ELSE c.avps[id].format,
     enum |-> FALSE, label |-> FALSE,
     rules |-> IF c.avps[id].format = "Grouped" THEN RulesSaid(c, c.avps[id].rules) ELSE Absent]]

CommandSaid(c) == [id \in DOMAIN c.commands |->
    [name |-> c.commands[id].name, code |-> id[1], request |-> id[2],
     rules |-> RulesSaid(c, c.commands[id].rules)]]

Says(d, c) ==
    /\ Lists(Section(d, "format"), FormatSaid(c))
    /\ Lists(Section(d, "vendor"), VendorSaid(c))
    /\ Lists(Section(d, "avp"), AvpSaid(c))
    /\ Lists(Section(d, "command"), CommandSaid(c))

\* The entries of a finite table, in the order of its keys, are a listing.
LEMMA ListedInOrder ==
    ASSUME NEW before, IsOrder(before), NEW T, NEW entry \in [DOMAIN before -> T],
           NEW s, s = [i \in DOMAIN InKeyOrder(before) |-> entry[InKeyOrder(before)[i]]]
    PROVE  s \in Seq(T) /\ Lists(s, entry)
  <1> DEFINE keys == InKeyOrder(before)
             n == Cardinality(DOMAIN before)
  <1>1. /\ n \in Nat
        /\ keys \in [1..n -> DOMAIN before]
        /\ \A k \in DOMAIN before : \E i \in DOMAIN keys : keys[i] = k
        /\ \A i, j \in DOMAIN keys : i < j <=> keys[i] \in before[keys[j]]
    BY VisitsInOrder
  <1> HIDE DEF keys, n
  <1>2. s = [i \in 1..n |-> entry[keys[i]]]
    BY <1>1 DEF keys
  <1>3. s \in Seq(T) /\ Len(s) = n
    BY <1>1, <1>2
  <1>4. \A i \in 1..n : keys[i] \in DOMAIN entry /\ s[i] = entry[keys[i]]
    BY <1>1, <1>2
  <1>5. ASSUME NEW k \in DOMAIN entry PROVE \E i \in 1..n : s[i] = entry[k]
    <2>1. DOMAIN entry = DOMAIN before /\ DOMAIN keys = 1..n
      BY <1>1
    <2>2. PICK i \in 1..n : keys[i] = k
      BY <1>1, <2>1
    <2> QED BY <1>4, <2>2
  <1>6. ASSUME NEW i \in 1..n, NEW j \in 1..n, i # j PROVE keys[i] # keys[j]
    <2>1. i < j \/ j < i
      BY <1>1, <1>6
    <2>2. \A k \in DOMAIN before : k \notin before[k]
      BY DEF IsOrder
    <2> QED BY <1>1, <2>1, <2>2
  <1>7. \A i, j \in 1..n : i # j =>
            \E k, l \in DOMAIN entry : k # l /\ s[i] = entry[k] /\ s[j] = entry[l]
    BY <1>4, <1>6
  <1>8. \A i \in 1..n : \E k \in DOMAIN entry : s[i] = entry[k]
    BY <1>4
  <1> QED BY <1>3, <1>5, <1>7, <1>8 DEF Lists

\* The orders of the tables' keys.
LEMMA NameOrder ==
    ASSUME NEW S, IsFiniteSet(S), S \subseteq Names
    PROVE  IsOrder([x \in S |-> {y \in S : NameBefore(y, x)}])
  <1>1. \A x \in S : Rank[x] \in Nat
    BY RankAssumption
  <1>2. \A x, y \in S : x # y => Rank[x] # Rank[y]
    BY RankAssumption
  <1> DEFINE before == [x \in S |-> {y \in S : NameBefore(y, x)}]
  <1>3. \A x, y \in S : y \in before[x] <=> Rank[y] < Rank[x]
    BY DEF NameBefore
  <1>4. DOMAIN before = S /\ \A x \in S : before[x] \subseteq S
    OBVIOUS
  <1> HIDE DEF before
  <1>5. \A x \in S : x \notin before[x]
    BY <1>1, <1>3
  <1>6. \A x, y \in S : x # y => x \in before[y] \/ y \in before[x]
    BY <1>1, <1>2, <1>3
  <1>7. \A x, y, z \in S : y \in before[x] /\ z \in before[y] => z \in before[x]
    BY <1>1, <1>3
  <1>8. \A x, y \in S : y \in before[x] => before[y] \subseteq before[x]
    BY <1>4, <1>7
  <1>9. IsOrder(before)
    BY <1>4, <1>5, <1>6, <1>8 DEF IsOrder
  <1> QED BY <1>9 DEF before

LEMMA CodeOrder ==
    ASSUME NEW S, IsFiniteSet(S), S \subseteq Nat
    PROVE  IsOrder([x \in S |-> {y \in S : y < x}])
  <1> DEFINE before == [x \in S |-> {y \in S : y < x}]
  <1>1. DOMAIN before = S /\ \A x \in S : before[x] \subseteq S
    OBVIOUS
  <1>2. \A x, y \in S : y \in before[x] <=> y < x
    OBVIOUS
  <1> HIDE DEF before
  <1>3. \A x \in S : x \notin before[x]
    BY <1>2
  <1>4. \A x, y \in S : x # y => x \in before[y] \/ y \in before[x]
    BY <1>2
  <1>5. \A x, y, z \in S : y \in before[x] /\ z \in before[y] => z \in before[x]
    BY <1>2
  <1>6. \A x, y \in S : y \in before[x] => before[y] \subseteq before[x]
    BY <1>1, <1>5
  <1>7. IsOrder(before)
    BY <1>1, <1>3, <1>4, <1>6 DEF IsOrder
  <1> QED BY <1>7 DEF before

LEMMA IdOrder ==
    ASSUME NEW S, IsFiniteSet(S), S \subseteq AvpIds
    PROVE  IsOrder([x \in S |-> {y \in S : IdBefore(y, x)}])
  <1>1. \A x \in S : x = <<x[1], x[2]>> /\ x[1] \in Nat /\ x[2] \in Nat
    BY DEF AvpIds
  <1> DEFINE before == [x \in S |-> {y \in S : IdBefore(y, x)}]
  <1>2. \A x, y \in S : y \in before[x] <=> y[2] < x[2] \/ (y[2] = x[2] /\ y[1] < x[1])
    BY DEF IdBefore
  <1>3. DOMAIN before = S /\ \A x \in S : before[x] \subseteq S
    OBVIOUS
  <1> HIDE DEF before
  <1>4. \A x \in S : x \notin before[x]
    BY <1>1, <1>2
  <1>5. \A x, y \in S : x # y => x \in before[y] \/ y \in before[x]
    BY <1>1, <1>2
  <1>6. \A x, y, z \in S : y \in before[x] /\ z \in before[y] => z \in before[x]
    BY <1>1, <1>2
  <1>7. \A x, y \in S : y \in before[x] => before[y] \subseteq before[x]
    BY <1>3, <1>6
  <1>8. IsOrder(before)
    BY <1>3, <1>4, <1>5, <1>7 DEF IsOrder
  <1> QED BY <1>8 DEF before

LEMMA CommandOrder ==
    ASSUME NEW S, IsFiniteSet(S), S \subseteq CommandIds
    PROVE  IsOrder([x \in S |-> {y \in S : CommandBefore(y, x)}])
  <1>1. \A x \in S : x = <<x[1], x[2]>> /\ x[1] \in Nat /\ x[2] \in BOOLEAN
    BY DEF CommandIds
  <1> DEFINE before == [x \in S |-> {y \in S : CommandBefore(y, x)}]
  <1>2. \A x, y \in S : y \in before[x] <=> y[1] < x[1] \/ (y[1] = x[1] /\ y[2] /\ ~x[2])
    BY DEF CommandBefore
  <1>3. DOMAIN before = S /\ \A x \in S : before[x] \subseteq S
    OBVIOUS
  <1> HIDE DEF before
  <1>4. \A x \in S : x \notin before[x]
    BY <1>1, <1>2
  <1>5. \A x, y \in S : x # y => x \in before[y] \/ y \in before[x]
    BY <1>1, <1>2
  <1>6. \A x, y, z \in S : y \in before[x] /\ z \in before[y] => z \in before[x]
    BY <1>1, <1>2
  <1>7. \A x, y \in S : y \in before[x] => before[y] \subseteq before[x]
    BY <1>3, <1>6
  <1>8. IsOrder(before)
    BY <1>3, <1>4, <1>5, <1>7 DEF IsOrder
  <1> QED BY <1>8 DEF before

\* What a dictionary holds, as what the tables hold.
LEMMA ContentsOf ==
    ASSUME TablesTyped
    PROVE  /\ Contents.formats = formats /\ Contents.vendors = vendors
           /\ DOMAIN Contents.avps = DOMAIN avps /\ DOMAIN Contents.commands = DOMAIN commands
           /\ \A id \in DOMAIN avps :
                /\ Contents.avps[id].name = avps[id].name /\ Contents.avps[id].vBit = avps[id].vBit
                /\ Contents.avps[id].format = avps[id].format
                /\ Contents.avps[id].vendorName = IF id[2] = 0 THEN "" ELSE avps[id].vendorName
                /\ Contents.avps[id].rules = avps[id].level.rules
           /\ \A c \in DOMAIN commands :
                /\ Contents.commands[c].name = commands[c].name
                /\ Contents.commands[c].rules = commands[c].level.rules
  BY DEF Contents

\* Each section of the document, from the keys it visits.
LEMMA SectionsOf ==
    LET fs == InOrder(ExportedFormats, NameBefore)
        vs == InOrder(DOMAIN vendors, <)
        as == InOrder(ExportedAvps, IdBefore)
        cs == InOrder(DOMAIN commands, CommandBefore)
    IN  /\ Section(AsJson, "format") = [i \in DOMAIN fs |-> FormatJson(fs[i])]
        /\ Section(AsJson, "vendor") = [i \in DOMAIN vs |-> VendorJson(vs[i])]
        /\ Section(AsJson, "avp") = [i \in DOMAIN as |-> AvpJson(as[i])]
        /\ Section(AsJson, "command") = [i \in DOMAIN cs |-> CommandJson(cs[i])]
  <1> DEFINE fs == InOrder(ExportedFormats, NameBefore)
             vs == InOrder(DOMAIN vendors, <)
             as == InOrder(ExportedAvps, IdBefore)
             cs == InOrder(DOMAIN commands, CommandBefore)
             F == [i \in DOMAIN fs |-> FormatJson(fs[i])]
             V == [i \in DOMAIN vs |-> VendorJson(vs[i])]
             A == [i \in DOMAIN as |-> AvpJson(as[i])]
             C == [i \in DOMAIN cs |-> CommandJson(cs[i])]
             all == [format |-> F, vendor |-> V, avp |-> A, command |-> C]
  <1>1. AsJson = [key \in {k \in DOMAIN all : all[k] # <<>>} |-> all[key]]
    BY DEF AsJson
  <1> HIDE DEF F, V, A, C
  <1>2. /\ Section(AsJson, "format") = F /\ Section(AsJson, "vendor") = V
        /\ Section(AsJson, "avp") = A /\ Section(AsJson, "command") = C
    BY <1>1 DEF Section
  <1> QED BY <1>2 DEF F, V, A, C

\* The document lists what the tables hold, each definition in its form.
LEMMA FormatsWritten ==
    ASSUME Inv, EntriesInv
    PROVE  /\ Section(AsJson, "format") \in Seq(FormatDefs)
           /\ Lists(Section(AsJson, "format"), FormatSaid(Contents))
  <1> DEFINE S == ExportedFormats
             before == [x \in S |-> {y \in S : NameBefore(y, x)}]
             entry == FormatSaid(Contents)
             keys == InKeyOrder(before)
  <1>1. TablesTyped /\ IsFiniteSet(DOMAIN formats) /\ "Unknown" \notin DOMAIN formats
    BY DEF Inv, TablesInv, EntriesInv, TablesFinite, NamesGiven
  <1>2. S = DOMAIN formats \ DOMAIN HardcodedFormats
    BY <1>1 DEF ExportedFormats, RFC6733, ReservedTypes, HardcodedFormats
  <1>3. IsFiniteSet(S) /\ S \subseteq Names
    <2>1. S \subseteq DOMAIN formats
      BY <1>2
    <2> QED BY <1>1, <2>1, FS_Subset DEF TablesTyped, IsTable
  <1>4. IsOrder(before)
    BY <1>3, NameOrder
  <1>5. Contents.formats = formats
    BY <1>1, ContentsOf
  <1>6. \A f \in S : FormatJson(f) = entry[f] /\ entry[f] \in FormatDefs
    <2> SUFFICES ASSUME NEW f \in S PROVE FormatJson(f) = entry[f] /\ entry[f] \in FormatDefs
      OBVIOUS
    <2>1. f \in Names /\ formats[f] \in Names
      BY <1>1, <1>2 DEF TablesTyped, IsTable
    <2>2. FormatJson(f) = entry[f]
      BY <1>2, <1>5 DEF FormatSaid, FormatJson
    <2>3. FormatJson(f) \in FormatDefs
      BY <2>1 DEF FormatJson, FormatDefs
    <2> QED BY <2>2, <2>3
  <1>7. DOMAIN entry = S /\ entry = [f \in DOMAIN entry |-> entry[f]]
    BY <1>2, <1>5 DEF FormatSaid
  <1>8. Section(AsJson, "format") = [i \in DOMAIN keys |-> FormatJson(keys[i])]
    BY SectionsOf DEF InOrder
  <1> HIDE DEF S, entry
  <1>9. DOMAIN before = S
    OBVIOUS
  <1> HIDE DEF before
  <1>10. \A i \in DOMAIN keys : keys[i] \in S
    BY <1>4, <1>9, VisitsInOrder
  <1>11. Section(AsJson, "format") = [i \in DOMAIN keys |-> entry[keys[i]]]
    BY <1>6, <1>8, <1>10
  <1>12. entry \in [DOMAIN before -> FormatDefs]
    BY <1>6, <1>7, <1>9
  <1> QED BY <1>4, <1>11, <1>12, ListedInOrder DEF entry

LEMMA VendorsWritten ==
    ASSUME Inv, EntriesInv
    PROVE  /\ Section(AsJson, "vendor") \in Seq(VendorDefs)
           /\ Lists(Section(AsJson, "vendor"), VendorSaid(Contents))
  <1> DEFINE S == DOMAIN vendors
             before == [x \in S |-> {y \in S : y < x}]
             entry == VendorSaid(Contents)
             keys == InKeyOrder(before)
  <1>1. TablesTyped /\ IsFiniteSet(S)
    BY DEF Inv, TablesInv, EntriesInv, TablesFinite
  <1>2. S \subseteq Nat
    BY <1>1 DEF TablesTyped, IsTable
  <1>3. IsOrder(before)
    BY <1>1, <1>2, CodeOrder
  <1>4. Contents.vendors = vendors
    BY <1>1, ContentsOf
  <1>5. \A code \in S : VendorJson(code) = entry[code] /\ entry[code] \in VendorDefs
    <2> SUFFICES ASSUME NEW code \in S
                 PROVE  VendorJson(code) = entry[code] /\ entry[code] \in VendorDefs
      OBVIOUS
    <2>1. code \in Int /\ vendors[code] \in Names
      BY <1>1, <1>2 DEF TablesTyped, IsTable
    <2>2. VendorJson(code) = entry[code]
      BY <1>4 DEF VendorSaid, VendorJson
    <2>3. VendorJson(code) \in VendorDefs
      BY <2>1 DEF VendorJson, VendorDefs
    <2> QED BY <2>2, <2>3
  <1>6. DOMAIN entry = S /\ entry = [code \in DOMAIN entry |-> entry[code]]
    BY <1>4 DEF VendorSaid
  <1>7. Section(AsJson, "vendor") = [i \in DOMAIN keys |-> VendorJson(keys[i])]
    BY SectionsOf DEF InOrder
  <1> HIDE DEF S, entry
  <1>8. DOMAIN before = S
    OBVIOUS
  <1> HIDE DEF before
  <1>9. \A i \in DOMAIN keys : keys[i] \in S
    BY <1>3, <1>8, VisitsInOrder
  <1>10. Section(AsJson, "vendor") = [i \in DOMAIN keys |-> entry[keys[i]]]
    BY <1>5, <1>7, <1>9
  <1>11. entry \in [DOMAIN before -> VendorDefs]
    BY <1>5, <1>6, <1>8
  <1> QED BY <1>3, <1>10, <1>11, ListedInOrder DEF entry

\* The rules of a level, written by the names of their AVPs.
LEMMA RulesWritten ==
    ASSUME TablesInv, NEW level \in Levels, RulesResolve(level)
    PROVE  RulesJson(level) = RulesSaid(Contents, level.rules) /\ RulesJson(level) \in Seq(RuleDefs)
  <1>1. TablesTyped /\ level.rules \in Seq(Rules)
    BY DEF TablesInv, Levels
  <1>2. ASSUME NEW i \in DOMAIN level.rules
        PROVE  /\ RuleJson(level.rules[i]) \in RuleDefs
               /\ RuleJson(level.rules[i]) =
                    [name |-> Contents.avps[level.rules[i].avp].name,
                     type |-> level.rules[i].presence, qual |-> level.rules[i].qual]
    <2>1. level.rules[i] \in Rules /\ level.rules[i].avp \in DOMAIN avps
      BY <1>1 DEF RulesResolve
    <2>2. avps[level.rules[i].avp].name \in Names
      BY <1>1, <2>1 DEF TablesTyped, IsTable, AvpSlots
    <2>3. level.rules[i].presence \in STRING /\ level.rules[i].qual \in Qualifiers
      <3>1. level.rules[i].presence \in Presences /\ level.rules[i].qual \in Qualifiers
        BY <2>1 DEF Rules
      <3> QED BY <3>1, TextsAssumption
    <2>4. RuleJson(level.rules[i]) \in RuleDefs
      BY <2>2, <2>3 DEF RuleJson, RuleDefs
    <2> QED BY <1>1, <2>1, <2>4, ContentsOf DEF RuleJson
  <1>3. RulesJson(level) = RulesSaid(Contents, level.rules)
    BY <1>2 DEF RulesJson, RulesSaid
  <1>4. DOMAIN level.rules = 1..Len(level.rules) /\ Len(level.rules) \in Nat
    BY <1>1
  <1>5. RulesJson(level) \in Seq(RuleDefs)
    <2>1. RulesJson(level) \in [1..Len(level.rules) -> RuleDefs]
      BY <1>2, <1>4 DEF RulesJson
    <2> QED BY <1>4, <2>1
  <1> QED BY <1>3, <1>5

LEMMA AvpsWritten ==
    ASSUME Inv, EntriesInv
    PROVE  /\ Section(AsJson, "avp") \in Seq(AvpDefs)
           /\ Lists(Section(AsJson, "avp"), AvpSaid(Contents))
  <1> DEFINE S == ExportedAvps
             before == [x \in S |-> {y \in S : IdBefore(y, x)}]
             entry == AvpSaid(Contents)
             keys == InKeyOrder(before)
  <1>1. TablesTyped /\ TablesInv /\ IsFiniteSet(DOMAIN avps)
    BY DEF Inv, TablesInv, EntriesInv, TablesFinite
  <1>2. IsFiniteSet(S) /\ S \subseteq AvpIds /\ S \subseteq DOMAIN avps
    <2>1. S \subseteq DOMAIN avps
      BY DEF ExportedAvps
    <2> QED BY <1>1, <2>1, FS_Subset DEF TablesTyped, IsTable
  <1>3. IsOrder(before)
    BY <1>2, IdOrder
  <1>4. S = {i \in DOMAIN Contents.avps : Contents.avps[i].format # "Any"}
    BY <1>1, ContentsOf DEF ExportedAvps
  <1>5. \A id \in S : AvpJson(id) = entry[id] /\ entry[id] \in AvpDefs
    <2> SUFFICES ASSUME NEW id \in S PROVE AvpJson(id) = entry[id] /\ entry[id] \in AvpDefs
      OBVIOUS
    <2> DEFINE level == avps[id].level
               rules == IF IsGrouped(id) THEN RulesJson(level) ELSE Absent
    <2>1. /\ id \in DOMAIN avps /\ id[1] \in Int /\ id[2] \in Nat
          /\ avps[id].name \in Names /\ avps[id].vBit \in BOOLEAN
          /\ avps[id].vendorName \in Names /\ avps[id].format \in Names
          /\ level \in Levels /\ RulesResolve(level)
      BY <1>1, <1>2, SlotLevel DEF TablesTyped, IsTable, AvpSlots, AvpIds
    <2>2. RulesJson(level) = RulesSaid(Contents, level.rules) /\ RulesJson(level) \in Seq(RuleDefs)
      BY <1>1, <2>1, RulesWritten
    <2>3. rules \in Seq(RuleDefs) \cup {Absent}
      BY <2>2
    <2>4. /\ Contents.avps[id].name = avps[id].name /\ Contents.avps[id].vBit = avps[id].vBit
          /\ Contents.avps[id].format = avps[id].format
          /\ id[2] # 0 => Contents.avps[id].vendorName = avps[id].vendorName
          /\ Contents.avps[id].rules = level.rules
      BY <1>1, <2>1, ContentsOf
    <2>5. AvpJson(id) = entry[id]
      <3>1. entry[id] =
                [name |-> Contents.avps[id].name, code |-> id[1], vBit |-> Contents.avps[id].vBit,
                 vendor |-> IF id[2] = 0 THEN Absent ELSE Contents.avps[id].vendorName,
                 format |-> IF Contents.avps[id].format = "Grouped" THEN Absent
                            ELSE Contents.avps[id].format,
                 enum |-> FALSE, label |-> FALSE,
                 rules |-> IF Contents.avps[id].format = "Grouped"
                           THEN RulesSaid(Contents, Contents.avps[id].rules) ELSE Absent]
        BY <1>4 DEF AvpSaid
      <3> QED BY <2>2, <2>4, <3>1 DEF AvpJson, IsGrouped
    <2> HIDE DEF rules
    <2>6. AvpJson(id) \in AvpDefs
      <3>1. AvpJson(id) =
                [name |-> avps[id].name, code |-> id[1], vBit |-> avps[id].vBit,
                 vendor |-> IF id[2] = 0 THEN Absent ELSE avps[id].vendorName,
                 format |-> IF IsGrouped(id) THEN Absent ELSE avps[id].format,
                 enum |-> FALSE, label |-> FALSE, rules |-> rules]
        BY DEF AvpJson, rules
      <3> QED BY <2>1, <2>3, <3>1 DEF AvpDefs
    <2> QED BY <2>5, <2>6
  <1>6. DOMAIN entry = S /\ entry = [id \in DOMAIN entry |-> entry[id]]
    BY <1>4 DEF AvpSaid
  <1>7. Section(AsJson, "avp") = [i \in DOMAIN keys |-> AvpJson(keys[i])]
    BY SectionsOf DEF InOrder
  <1> HIDE DEF S, entry
  <1>8. DOMAIN before = S
    OBVIOUS
  <1> HIDE DEF before
  <1>9. \A i \in DOMAIN keys : keys[i] \in S
    BY <1>3, <1>8, VisitsInOrder
  <1>10. Section(AsJson, "avp") = [i \in DOMAIN keys |-> entry[keys[i]]]
    BY <1>5, <1>7, <1>9
  <1>11. entry \in [DOMAIN before -> AvpDefs]
    BY <1>5, <1>6, <1>8
  <1> QED BY <1>3, <1>10, <1>11, ListedInOrder DEF entry

LEMMA CommandsWritten ==
    ASSUME Inv, EntriesInv
    PROVE  /\ Section(AsJson, "command") \in Seq(CommandDefs)
           /\ Lists(Section(AsJson, "command"), CommandSaid(Contents))
  <1> DEFINE S == DOMAIN commands
             before == [x \in S |-> {y \in S : CommandBefore(y, x)}]
             entry == CommandSaid(Contents)
             keys == InKeyOrder(before)
  <1>1. TablesTyped /\ TablesInv /\ IsFiniteSet(S)
    BY DEF Inv, TablesInv, EntriesInv, TablesFinite
  <1>2. S \subseteq CommandIds
    BY <1>1 DEF TablesTyped, IsTable
  <1>3. IsOrder(before)
    BY <1>1, <1>2, CommandOrder
  <1>4. S = DOMAIN Contents.commands
    BY <1>1, ContentsOf
  <1>5. \A id \in S : CommandJson(id) = entry[id] /\ entry[id] \in CommandDefs
    <2> SUFFICES ASSUME NEW id \in S PROVE CommandJson(id) = entry[id] /\ entry[id] \in CommandDefs
      OBVIOUS
    <2> DEFINE level == commands[id].level
    <2>1. /\ id[1] \in Nat /\ id[2] \in BOOLEAN /\ commands[id].name \in Names
          /\ level \in Levels
      BY <1>1, <1>2 DEF TablesTyped, IsTable, CommandIds
    <2>2. RulesResolve(level)
      BY <1>1 DEF TablesInv, ReferencesResolve
    <2>3. RulesJson(level) = RulesSaid(Contents, level.rules) /\ RulesJson(level) \in Seq(RuleDefs)
      BY <1>1, <2>1, <2>2, RulesWritten
    <2>4. /\ Contents.commands[id].name = commands[id].name
          /\ Contents.commands[id].rules = level.rules
      BY <1>1, ContentsOf
    <2>5. CommandJson(id) = entry[id]
      BY <1>4, <2>3, <2>4 DEF CommandSaid, CommandJson
    <2>6. CommandJson(id) \in CommandDefs
      BY <2>1, <2>3 DEF CommandJson, CommandDefs
    <2> QED BY <2>5, <2>6
  <1>6. DOMAIN entry = S /\ entry = [id \in DOMAIN entry |-> entry[id]]
    BY <1>4 DEF CommandSaid
  <1>7. Section(AsJson, "command") = [i \in DOMAIN keys |-> CommandJson(keys[i])]
    BY SectionsOf DEF InOrder
  <1> HIDE DEF S, entry
  <1>8. DOMAIN before = S
    OBVIOUS
  <1> HIDE DEF before
  <1>9. \A i \in DOMAIN keys : keys[i] \in S
    BY <1>3, <1>8, VisitsInOrder
  <1>10. Section(AsJson, "command") = [i \in DOMAIN keys |-> entry[keys[i]]]
    BY <1>5, <1>7, <1>9
  <1>11. entry \in [DOMAIN before -> CommandDefs]
    BY <1>5, <1>6, <1>8
  <1> QED BY <1>3, <1>10, <1>11, ListedInOrder DEF entry

\* So the document is one, and says what the tables hold.
LEMMA Written ==
    ASSUME Inv, EntriesInv
    PROVE  IsDoc(AsJson) /\ Says(AsJson, Contents)
  BY FormatsWritten, VendorsWritten, AvpsWritten, CommandsWritten DEF IsDoc, Says

----------------------------------------------------------------------------
(* What a dictionary holds that can be restored.                            *)

\* A record of four functions, with the fields of their entries.
IsContents(c) ==
    /\ c = [formats |-> c.formats, vendors |-> c.vendors, avps |-> c.avps,
            commands |-> c.commands]
    /\ c.formats = [f \in DOMAIN c.formats |-> c.formats[f]]
    /\ c.vendors = [code \in DOMAIN c.vendors |-> c.vendors[code]]
    /\ c.avps = [id \in DOMAIN c.avps |->
                    [name |-> c.avps[id].name, vBit |-> c.avps[id].vBit,
                     format |-> c.avps[id].format, vendorName |-> c.avps[id].vendorName,
                     rules |-> c.avps[id].rules]]
    /\ c.commands = [id \in DOMAIN c.commands |->
                        [name |-> c.commands[id].name, rules |-> c.commands[id].rules]]

\* The rules of a level of c, in the order addAvpRule asks for.
RulesExportable(c, rules) ==
    /\ rules \in Seq(Rules)
    /\ \A i \in DOMAIN rules : rules[i].avp \in DOMAIN c.avps /\ QualAccepted(rules[i].qual)
    /\ \A i, j \in DOMAIN rules : i < j /\ IsFixed(rules[j]) => IsFixed(rules[i])
    /\ \A i, j \in DOMAIN rules : rules[i].avp = rules[j].avp => i = j

FormatsExportable(c) ==
    /\ DOMAIN HardcodedFormats \subseteq DOMAIN c.formats /\ DOMAIN c.formats \subseteq Names
    /\ "" \notin DOMAIN c.formats /\ "Unknown" \notin DOMAIN c.formats
    /\ \A f \in DOMAIN HardcodedFormats : c.formats[f] = HardcodedFormats[f]
    /\ \A f \in DOMAIN c.formats \ DOMAIN HardcodedFormats : c.formats[f] \in BasicTypes

VendorsExportable(c) ==
    /\ DOMAIN c.vendors \subseteq Nat
    /\ \A code \in DOMAIN c.vendors : c.vendors[code] \in Names \ {""}
    /\ \A v, w \in DOMAIN c.vendors : c.vendors[v] = c.vendors[w] => v = w

AvpExportable(c, id) ==
    /\ id \in AvpIds
    /\ c.avps[id].name \in Names \ {""} /\ c.avps[id].vBit \in BOOLEAN
    /\ c.avps[id].vBit <=> id[2] # 0
    /\ IF id[2] = 0 THEN c.avps[id].vendorName = ""
       ELSE id[2] \in DOMAIN c.vendors /\ c.vendors[id[2]] = c.avps[id].vendorName
    /\ c.avps[id].format \in DOMAIN c.formats
    /\ c.avps[id].format = "Any" => id = GenericId /\ c.avps[id].name = "AVP"
    /\ RulesExportable(c, c.avps[id].rules)
    /\ c.avps[id].rules # <<>> => c.avps[id].format = "Grouped"

AvpsExportable(c) ==
    /\ GenericId \in DOMAIN c.avps
    /\ \A id \in DOMAIN c.avps : AvpExportable(c, id)
    /\ \A id, other \in DOMAIN c.avps : c.avps[id].name = c.avps[other].name => id = other

CommandsExportable(c) ==
    /\ DOMAIN c.commands \subseteq CommandIds
    /\ \A id \in DOMAIN c.commands :
        c.commands[id].name \in Names \ {""} /\ RulesExportable(c, c.commands[id].rules)
    /\ \A id, other \in DOMAIN c.commands :
           c.commands[id].name = c.commands[other].name => id = other

Contains(c, parent, child) ==
    /\ c.avps[parent].format = "Grouped"
    /\ \E i \in DOMAIN c.avps[parent].rules : c.avps[parent].rules[i].avp = child

LoopFree(c) == \A a, b \in DOMAIN c.avps : ~(Contains(c, a, b) /\ Contains(c, b, a))

Exportable(c) ==
    /\ IsContents(c) /\ FormatsExportable(c) /\ VendorsExportable(c) /\ AvpsExportable(c)
    /\ CommandsExportable(c) /\ LoopFree(c)

\* A portable dictionary holds what can be restored.
LEMMA PortableIsExportable ==
    ASSUME Inv, EntriesInv, Portable
    PROVE  Exportable(Contents)
  <1> DEFINE c == Contents
  <1>1. TablesTyped /\ TablesInv /\ NamesMatch /\ FormatsMatch /\ ~ShortLoop
    BY DEF Inv, TablesInv, Portable
  <1>2. /\ c.formats = formats /\ c.vendors = vendors
        /\ DOMAIN c.avps = DOMAIN avps /\ DOMAIN c.commands = DOMAIN commands
        /\ \A id \in DOMAIN avps :
             /\ c.avps[id].name = avps[id].name /\ c.avps[id].vBit = avps[id].vBit
             /\ c.avps[id].format = avps[id].format
             /\ c.avps[id].vendorName = IF id[2] = 0 THEN "" ELSE avps[id].vendorName
             /\ c.avps[id].rules = avps[id].level.rules
        /\ \A x \in DOMAIN commands :
             /\ c.commands[x].name = commands[x].name
             /\ c.commands[x].rules = commands[x].level.rules
    BY <1>1, ContentsOf
  <1>3. IsContents(c)
    <2>1. /\ formats = [f \in DOMAIN formats |-> formats[f]]
          /\ vendors = [code \in DOMAIN vendors |-> vendors[code]]
      BY <1>1 DEF TablesTyped, IsTable
    <2> QED BY <1>2, <2>1 DEF IsContents, Contents
  <1> HIDE DEF c
  <1>4. ASSUME NEW level \in Levels, LevelOK(level), RulesResolve(level), QualsAccepted(level)
        PROVE  RulesExportable(c, level.rules)
    BY <1>2, <1>4
    DEF Levels, LevelOK, FixedFirst, OneRulePerAvp, RulesResolve, QualsAccepted, RulesExportable
  <1>5. FormatsExportable(c)
    <2>1. DOMAIN formats \subseteq Names
      BY <1>1 DEF TablesTyped, IsTable
    <2> QED
      BY <1>1, <1>2, <2>1 DEF EntriesInv, FirstEntries, NamesGiven, FormatsMatch, FormatsExportable
  <1>6. VendorsExportable(c)
    <2>1. DOMAIN vendors \subseteq Nat /\ \A code \in DOMAIN vendors : vendors[code] \in Names
      BY <1>1 DEF TablesTyped, IsTable
    <2>2. \A code \in DOMAIN vendors : vendors[code] # "" /\ vendorNames[vendors[code]] = code
      BY <1>1 DEF EntriesInv, NamesGiven, NamesMatch
    <2>3. \A v, w \in DOMAIN vendors : vendors[v] = vendors[w] => v = w
      BY <2>2, Zenon
    <2>4. \A code \in DOMAIN vendors : vendors[code] \in Names \ {""}
      BY <2>1, <2>2
    <2> QED BY <1>2, <2>1, <2>3, <2>4, Zenon DEF VendorsExportable
  <1>7. ASSUME NEW id \in DOMAIN avps PROVE AvpExportable(c, id)
    <2>1. id \in AvpIds /\ avps[id] \in AvpSlots
      BY <1>1 DEF TablesTyped, IsTable
    <2>2. avps[id].name \in Names /\ avps[id].name # "" /\ avps[id].vBit \in BOOLEAN
      BY <2>1 DEF AvpSlots, EntriesInv, NamesGiven
    <2>3. /\ avps[id].vBit <=> id[2] # 0
          /\ id[2] # 0 => id[2] \in DOMAIN vendors /\ vendors[id[2]] = avps[id].vendorName
      BY <1>1 DEF TablesInv, VendorBitMatches, NamesMatch
    <2>4. /\ avps[id].format \in DOMAIN formats
          /\ avps[id].format = "Any" => id = GenericId /\ avps[id].name = "AVP"
          /\ avps[id].level.rules # <<>> => avps[id].format = "Grouped"
      BY <1>1, FirstTables DEF TablesInv, ReferencesResolve, FormatsMatch, LevelsInv, IsGrouped
    <2>5. RulesExportable(c, avps[id].level.rules)
      BY <1>1, <1>4, SlotLevel DEF EntriesInv, QualsInv
    <2> QED BY <1>2, <2>1, <2>2, <2>3, <2>4, <2>5 DEF AvpExportable
  <1>8. AvpsExportable(c)
    <2>1. \A id, other \in DOMAIN avps : avps[id].name = avps[other].name => id = other
      BY <1>1 DEF NamesMatch
    <2>2. GenericId \in DOMAIN avps
      BY DEF EntriesInv, FirstEntries
    <2> QED BY <1>2, <1>7, <2>1, <2>2 DEF AvpsExportable
  <1>9. CommandsExportable(c)
    <2>1. DOMAIN commands \subseteq CommandIds
      BY <1>1 DEF TablesTyped, IsTable
    <2>2. ASSUME NEW x \in DOMAIN commands
          PROVE  commands[x].name \in Names \ {""} /\ RulesExportable(c, commands[x].level.rules)
      <3>1. commands[x].name \in Names /\ commands[x].level \in Levels
        BY <1>1 DEF TablesTyped, IsTable
      <3>2. commands[x].name # ""
        BY DEF EntriesInv, NamesGiven
      <3>3. /\ LevelOK(commands[x].level) /\ RulesResolve(commands[x].level)
            /\ QualsAccepted(commands[x].level)
        BY <1>1 DEF TablesInv, LevelsInv, ReferencesResolve, EntriesInv, QualsInv
      <3> QED BY <1>4, <3>1, <3>2, <3>3
    <2>3. \A x, y \in DOMAIN commands : commands[x].name = commands[y].name => x = y
      BY <1>1 DEF NamesMatch
    <2> QED BY <1>2, <2>1, <2>2, <2>3 DEF CommandsExportable
  <1>10. LoopFree(c)
    <2>1. \A a, b \in DOMAIN avps : Contains(c, a, b) <=> HasChild(a, b)
      BY <1>2 DEF Contains, HasChild, IsGrouped, IsChild
    <2> QED BY <1>1, <1>2, <2>1 DEF ShortLoop, LoopFree
  <1>11. Exportable(c)
    BY <1>3, <1>5, <1>6, <1>8, <1>9, <1>10 DEF Exportable
  <1> QED BY <1>11 DEF c

----------------------------------------------------------------------------
(* The load of the document.                                                *)

\* No rule was refused: the flag is down only where a rule is not fixed.
FlagUp(level) == (\A i \in DOMAIN level.rules : IsFixed(level.rules[i])) => level.allowFixed

\* The tables hold what the first n entries of their section say.
FormatsBack(n) ==
    /\ DOMAIN formats =
            DOMAIN HardcodedFormats \cup {Section(doc, "format")[i].name : i \in 1..n}
    /\ \A f \in DOMAIN formats : formats[f] = saved.formats[f]

VendorsBack(n) ==
    /\ DOMAIN vendors = {Section(doc, "vendor")[i].code : i \in 1..n}
    /\ \A code \in DOMAIN vendors :
        /\ vendors[code] = saved.vendors[code]
        /\ vendors[code] \in DOMAIN vendorNames /\ vendorNames[vendors[code]] = code

\* What an entry becomes is in LoadProgress: here, that there is nothing else.
AvpsBack(n) ==
    /\ DOMAIN avps = {GenericId} \cup {IdOf(Section(doc, "avp")[i]) : i \in 1..n}
    /\ (\A i \in 1..n : IdOf(Section(doc, "avp")[i]) # GenericId) => avps[GenericId] = GenericAvp
    /\ (\A i \in 1..n : Section(doc, "avp")[i].name # "AVP") =>
            "AVP" \in DOMAIN avpNames /\ avpNames["AVP"] = GenericId
    /\ \A id \in DOMAIN avps : FlagUp(avps[id].level)

CommandsBack(n) == DOMAIN commands = {CommandIdOf(Section(doc, "command")[i]) : i \in 1..n}

\* The load of a portable dictionary's document goes on to the end.
Restoring ==
    /\ phase # "dead"
    /\ phase # "idle" => Says(doc, saved)
    /\ phase = "format" =>
        /\ at <= Len(Section(doc, "format"))
        /\ FormatsBack(at) /\ VendorsBack(0) /\ AvpsBack(0) /\ CommandsBack(0)
    /\ phase = "vendor" =>
        /\ at <= Len(Section(doc, "vendor"))
        /\ FormatsBack(Len(Section(doc, "format")))
        /\ VendorsBack(at) /\ AvpsBack(0) /\ CommandsBack(0)
    /\ phase \in {"avp", "grouped", "rule", "loops", "command", "building"} =>
        /\ FormatsBack(Len(Section(doc, "format")))
        /\ VendorsBack(Len(Section(doc, "vendor")))
        /\ AvpsBack(IF phase = "avp" THEN at ELSE Len(Section(doc, "avp")))
        /\ phase \in {"command", "building"} => at <= Len(Section(doc, "command"))
        /\ CommandsBack(IF phase \in {"command", "building"} THEN at ELSE 0)
    /\ FlagUp(aux)
    /\ phase = "idle" => Contents = saved /\ NamesMatch

RestoreInv == reloading /\ portable => Exportable(saved) /\ Restoring

\* The name of each vendor, and of each AVP, leads where it led.
VendorsLead ==
    \A code \in DOMAIN saved.vendors :
        /\ saved.vendors[code] \in DOMAIN vendorNames
        /\ vendorNames[saved.vendors[code]] = code

AvpsLead ==
    \A k \in DOMAIN saved.avps :
        saved.avps[k].name \in DOMAIN avpNames /\ avpNames[saved.avps[k].name] = k

\* A rule of the document leads to the AVP it led to and is accepted as it was.
LEMMA RuleBack ==
    ASSUME AvpsLead, NEW rules, RulesExportable(saved, rules), NEW i \in DOMAIN rules
    PROVE  /\ RuleAccepted(RulesSaid(saved, rules)[i])
           /\ RuleOf(RulesSaid(saved, rules)[i]) = rules[i]
  <1>1. /\ rules[i] \in Rules /\ rules[i].avp \in DOMAIN saved.avps
        /\ QualAccepted(rules[i].qual)
    BY DEF RulesExportable
  <1> DEFINE r == RulesSaid(saved, rules)[i]
  <1>2. /\ r.name = saved.avps[rules[i].avp].name /\ r.type = rules[i].presence
        /\ r.qual = rules[i].qual
    BY DEF RulesSaid
  <1> HIDE DEF r
  <1>3. r.name \in DOMAIN avpNames /\ avpNames[r.name] = rules[i].avp
    BY <1>1, <1>2 DEF AvpsLead
  <1>4. AsPresence(r.type) = rules[i].presence
    BY <1>1, <1>2 DEF Rules, AsPresence
  <1>5. rules[i] = [avp |-> rules[i].avp, presence |-> rules[i].presence, qual |-> rules[i].qual]
    BY <1>1 DEF Rules
  <1>6. RuleOf(r) = rules[i]
    BY <1>2, <1>3, <1>4, <1>5 DEF RuleOf
  <1>7. RuleAccepted(r)
    BY <1>1, <1>2, <1>3 DEF RuleAccepted
  <1> QED BY <1>6, <1>7 DEF r

\* The next rule of a level fits after those before it.
LEMMA RuleFitsAgain ==
    ASSUME NEW c, NEW rules, RulesExportable(c, rules), NEW n \in Nat, n + 1 \in DOMAIN rules,
           NEW level \in Levels, level.rules = [k \in 1..n |-> rules[k]], FlagUp(level)
    PROVE  RuleFits(level, rules[n + 1]) /\ FlagUp(WithRule(level, rules[n + 1]))
  <1>1. /\ rules \in Seq(Rules) /\ DOMAIN rules = 1..Len(rules) /\ Len(rules) \in Nat
        /\ n + 1 \in 1..Len(rules)
        /\ DOMAIN level.rules = 1..n /\ \A k \in 1..n : level.rules[k] = rules[k]
    BY DEF RulesExportable
  <1>2. \A k \in 1..n : k \in DOMAIN rules /\ k < n + 1 /\ k # n + 1
    BY <1>1
  <1>3. IsFixed(rules[n + 1]) => level.allowFixed
    <2>1. IsFixed(rules[n + 1]) => \A k \in 1..n : IsFixed(rules[k])
      BY <1>1, <1>2 DEF RulesExportable
    <2> QED BY <1>1, <2>1 DEF FlagUp
  <1>4. ~IsChild(level, rules[n + 1].avp)
    <2>1. \A k \in 1..n : rules[k].avp # rules[n + 1].avp
      BY <1>1, <1>2 DEF RulesExportable
    <2> QED BY <1>1, <2>1 DEF IsChild
  <1>5. FlagUp(WithRule(level, rules[n + 1]))
    <2> DEFINE new == WithRule(level, rules[n + 1])
    <2>1. /\ new.rules = Append(level.rules, rules[n + 1])
          /\ new.allowFixed = (level.allowFixed /\ IsFixed(rules[n + 1]))
      BY DEF WithRule
    <2>2. level.rules \in Seq(Rules) /\ Len(level.rules) = n
      <3>1. level.rules \in Seq(Rules)
        BY DEF Levels
      <3> QED BY <1>1, <3>1
    <2>3. n + 1 \in DOMAIN new.rules /\ new.rules[n + 1] = rules[n + 1]
      BY <2>1, <2>2
    <2> HIDE DEF new
    <2> SUFFICES ASSUME \A k \in DOMAIN new.rules : IsFixed(new.rules[k])
                 PROVE  new.allowFixed
      BY DEF FlagUp, new
    <2>4. IsFixed(rules[n + 1])
      BY <2>3
    <2> QED BY <1>3, <2>1, <2>4
  <1> QED BY <1>3, <1>4, <1>5 DEF RuleFits

----------------------------------------------------------------------------
(* What is back when a loop of the load is over.                            *)

LEMMA FormatsAllBack ==
    ASSUME Says(doc, saved), Exportable(saved), FormatsBack(Len(Section(doc, "format")))
    PROVE  /\ DOMAIN formats = DOMAIN saved.formats
           /\ \A f \in DOMAIN formats : formats[f] = saved.formats[f]
  <1> DEFINE s == Section(doc, "format")
             entry == FormatSaid(saved)
  <1>1. /\ \A i \in 1..Len(s) : \E k \in DOMAIN entry : s[i] = entry[k]
        /\ \A k \in DOMAIN entry : \E i \in 1..Len(s) : s[i] = entry[k]
    BY DEF Says, Lists
  <1>2. /\ DOMAIN entry = DOMAIN saved.formats \ DOMAIN HardcodedFormats
        /\ \A k \in DOMAIN entry : entry[k].name = k
    BY DEF FormatSaid
  <1> HIDE DEF s, entry
  <1>3. {s[i].name : i \in 1..Len(s)} = DOMAIN entry
    BY <1>1, <1>2
  <1>4. DOMAIN HardcodedFormats \subseteq DOMAIN saved.formats
    BY DEF Exportable, FormatsExportable
  <1> QED BY <1>2, <1>3, <1>4 DEF FormatsBack, s

LEMMA VendorsAllBack ==
    ASSUME Says(doc, saved), VendorsBack(Len(Section(doc, "vendor")))
    PROVE  /\ DOMAIN vendors = DOMAIN saved.vendors /\ VendorsLead
           /\ \A code \in DOMAIN vendors : vendors[code] = saved.vendors[code]
  <1> DEFINE s == Section(doc, "vendor")
             entry == VendorSaid(saved)
  <1>1. /\ \A i \in 1..Len(s) : \E k \in DOMAIN entry : s[i] = entry[k]
        /\ \A k \in DOMAIN entry : \E i \in 1..Len(s) : s[i] = entry[k]
    BY DEF Says, Lists
  <1>2. DOMAIN entry = DOMAIN saved.vendors /\ \A k \in DOMAIN entry : entry[k].code = k
    BY DEF VendorSaid
  <1> HIDE DEF s, entry
  <1>3. {s[i].code : i \in 1..Len(s)} = DOMAIN entry
    BY <1>1, <1>2
  <1>4. DOMAIN vendors = DOMAIN saved.vendors
    BY <1>2, <1>3 DEF VendorsBack, s
  <1> QED BY <1>4 DEF VendorsBack, VendorsLead

\* The AVP an entry of the document defines is the one it was written for.
LEMMA AvpEntry ==
    ASSUME Exportable(saved), VendorsLead,
           NEW k \in DOMAIN AvpSaid(saved), NEW a, a = AvpSaid(saved)[k]
    PROVE  /\ k \in DOMAIN saved.avps /\ saved.avps[k].format # "Any" /\ AvpExportable(saved, k)
           /\ a.name = saved.avps[k].name /\ a.vBit = saved.avps[k].vBit /\ a.code = k[1]
           /\ a.vendor # Absent => a.vendor \in DOMAIN vendorNames
           /\ VendorCode(a) = k[2] /\ IdOf(a) = k
           /\ FormatOf(a) = saved.avps[k].format
           /\ a.format = Absent <=> saved.avps[k].format = "Grouped"
           /\ a.format # Absent => a.format = saved.avps[k].format
           /\ a.enum = FALSE /\ a.label = FALSE
           /\ SlotOf(a).vendorName = saved.avps[k].vendorName
           /\ saved.avps[k].format = "Grouped" => a.rules = RulesSaid(saved, saved.avps[k].rules)
  <1>1. /\ k \in DOMAIN saved.avps /\ saved.avps[k].format # "Any"
        /\ a.name = saved.avps[k].name /\ a.vBit = saved.avps[k].vBit /\ a.code = k[1]
        /\ a.vendor = IF k[2] = 0 THEN Absent ELSE saved.avps[k].vendorName
        /\ a.format = IF saved.avps[k].format = "Grouped" THEN Absent ELSE saved.avps[k].format
        /\ a.enum = FALSE /\ a.label = FALSE
        /\ saved.avps[k].format = "Grouped" => a.rules = RulesSaid(saved, saved.avps[k].rules)
    BY DEF AvpSaid
  <1>2. AvpExportable(saved, k)
    BY <1>1 DEF Exportable, AvpsExportable
  <1>3. k \in AvpIds /\ k = <<k[1], k[2]>>
    <2>1. k \in AvpIds
      BY <1>2 DEF AvpExportable
    <2> QED BY <2>1 DEF AvpIds
  <1>4. /\ k[2] # 0 => /\ k[2] \in DOMAIN saved.vendors
                       /\ saved.vendors[k[2]] = saved.avps[k].vendorName
                       /\ saved.avps[k].vendorName \in Names
        /\ k[2] = 0 => saved.avps[k].vendorName = ""
    BY <1>2 DEF AvpExportable, Exportable, VendorsExportable
  <1>5. a.vendor = Absent <=> k[2] = 0
    BY <1>1, <1>4, NamesAssumption
  <1>6. VendorCode(a) = k[2] /\ (a.vendor # Absent => a.vendor \in DOMAIN vendorNames)
    <2>1. CASE a.vendor = Absent
      BY <1>5, <2>1 DEF VendorCode
    <2>2. CASE a.vendor # Absent
      <3>1. a.vendor = saved.vendors[k[2]] /\ k[2] \in DOMAIN saved.vendors
        BY <1>1, <1>4, <1>5, <2>2
      <3>2. a.vendor \in DOMAIN vendorNames /\ vendorNames[a.vendor] = k[2]
        BY <3>1 DEF VendorsLead
      <3> QED BY <2>2, <3>2 DEF VendorCode
    <2> QED BY <2>1, <2>2
  <1>7. SlotOf(a).vendorName = saved.avps[k].vendorName
    BY <1>1, <1>4, <1>5 DEF SlotOf
  <1>8. saved.avps[k].format \in Names
    <2>1. saved.avps[k].format \in DOMAIN saved.formats
      BY <1>2 DEF AvpExportable
    <2> QED BY <2>1 DEF Exportable, FormatsExportable
  <1>9. a.format = Absent <=> saved.avps[k].format = "Grouped"
    BY <1>1, <1>8, NamesAssumption
  <1>10. IdOf(a) = k
    BY <1>1, <1>3, <1>6 DEF IdOf
  <1> QED BY <1>1, <1>2, <1>6, <1>7, <1>9, <1>10 DEF FormatOf

\* No two entries of the document are about the same AVP, or command.
LEMMA DocumentDistinct ==
    ASSUME LoaderTyped, Says(doc, saved), Exportable(saved)
    PROVE  /\ VendorsLead => \A n \in 0..Len(Section(doc, "avp")) : AvpsDistinct(n)
           /\ \A n \in 0..Len(Section(doc, "command")) : CommandsDistinct(n)
  <1>1. Len(Section(doc, "avp")) \in Nat /\ Len(Section(doc, "command")) \in Nat
    BY EntryTypes
  <1>2. ASSUME VendorsLead, NEW n \in 0..Len(Section(doc, "avp")) PROVE AvpsDistinct(n)
    <2> DEFINE s == Section(doc, "avp")
               entry == AvpSaid(saved)
    <2> SUFFICES ASSUME NEW i \in 1..n, NEW j \in 1..n, i # j
                 PROVE  s[i].name # s[j].name /\ IdOf(s[i]) # IdOf(s[j])
      BY DEF AvpsDistinct
    <2>1. i \in 1..Len(s) /\ j \in 1..Len(s)
      BY <1>1
    <2>2. PICK k \in DOMAIN entry, l \in DOMAIN entry : k # l /\ s[i] = entry[k] /\ s[j] = entry[l]
      BY <2>1 DEF Says, Lists
    <2>3. /\ k \in DOMAIN saved.avps /\ s[i].name = saved.avps[k].name /\ IdOf(s[i]) = k
          /\ l \in DOMAIN saved.avps /\ s[j].name = saved.avps[l].name /\ IdOf(s[j]) = l
      BY <1>2, <2>2, AvpEntry
    <2> QED BY <2>2, <2>3 DEF Exportable, AvpsExportable
  <1>3. ASSUME NEW n \in 0..Len(Section(doc, "command")) PROVE CommandsDistinct(n)
    <2> DEFINE s == Section(doc, "command")
               entry == CommandSaid(saved)
    <2> SUFFICES ASSUME NEW i \in 1..n, NEW j \in 1..n, i # j
                 PROVE  s[i].name # s[j].name /\ CommandIdOf(s[i]) # CommandIdOf(s[j])
      BY DEF CommandsDistinct
    <2>1. i \in 1..Len(s) /\ j \in 1..Len(s)
      BY <1>1
    <2>2. PICK k \in DOMAIN entry, l \in DOMAIN entry : k # l /\ s[i] = entry[k] /\ s[j] = entry[l]
      BY <2>1 DEF Says, Lists
    <2>3. \A m \in DOMAIN entry : /\ m \in DOMAIN saved.commands /\ m \in CommandIds
                                  /\ entry[m].name = saved.commands[m].name
                                  /\ entry[m].code = m[1] /\ entry[m].request = m[2]
      BY DEF CommandSaid, Exportable, CommandsExportable
    <2>4. \A m \in CommandIds : m = <<m[1], m[2]>>
      BY DEF CommandIds
    <2>5. CommandIdOf(s[i]) = k /\ CommandIdOf(s[j]) = l
      BY <2>2, <2>3, <2>4 DEF CommandIdOf
    <2>6. \A x, y \in DOMAIN saved.commands :
            saved.commands[x].name = saved.commands[y].name => x = y
      BY DEF Exportable, CommandsExportable
    <2>7. /\ k \in DOMAIN saved.commands /\ s[i].name = saved.commands[k].name
          /\ l \in DOMAIN saved.commands /\ s[j].name = saved.commands[l].name
      BY <2>2, <2>3
    <2> HIDE DEF s, entry
    <2> QED BY <2>2, <2>5, <2>6, <2>7, Zenon
  <1> QED BY <1>2, <1>3

\* With every entry in its slot, the tables have the AVPs of the document and
\* their names, the generic one included.
LEMMA SlotsAllBack ==
    ASSUME Says(doc, saved), Exportable(saved), VendorsLead,
           AvpsBack(Len(Section(doc, "avp"))),
           \A i \in 1..Len(Section(doc, "avp")) : Placed(Section(doc, "avp")[i])
    PROVE  /\ DOMAIN avps = DOMAIN saved.avps /\ AvpsLead
           /\ \A k \in DOMAIN avps :
                /\ avps[k].name = saved.avps[k].name /\ avps[k].vBit = saved.avps[k].vBit
                /\ avps[k].format = saved.avps[k].format
                /\ avps[k].vendorName = saved.avps[k].vendorName
  <1> DEFINE s == Section(doc, "avp")
             entry == AvpSaid(saved)
             Back(k) ==
                /\ avps[k].name = saved.avps[k].name /\ avps[k].vBit = saved.avps[k].vBit
                /\ avps[k].format = saved.avps[k].format
                /\ avps[k].vendorName = saved.avps[k].vendorName
                /\ saved.avps[k].name \in DOMAIN avpNames
                /\ avpNames[saved.avps[k].name] = k
  <1>1. /\ \A i \in 1..Len(s) : \E k \in DOMAIN entry : s[i] = entry[k]
        /\ \A k \in DOMAIN entry : \E i \in 1..Len(s) : s[i] = entry[k]
    BY DEF Says, Lists
  <1>2. DOMAIN entry = {k \in DOMAIN saved.avps : saved.avps[k].format # "Any"}
    BY DEF AvpSaid
  <1>3. \A k \in DOMAIN entry : IdOf(entry[k]) = k /\ entry[k].name = saved.avps[k].name
    BY AvpEntry
  <1>4. {IdOf(s[i]) : i \in 1..Len(s)} = DOMAIN entry
    <2>1. \A i \in 1..Len(s) : IdOf(s[i]) \in DOMAIN entry
      BY <1>1, <1>3
    <2>2. \A k \in DOMAIN entry : \E i \in 1..Len(s) : IdOf(s[i]) = k
      BY <1>1, <1>3
    <2> QED BY <2>1, <2>2, Zenon
  <1>5. GenericId \in DOMAIN saved.avps /\ DOMAIN avps = {GenericId} \cup DOMAIN entry
    BY <1>4 DEF AvpsBack, Exportable, AvpsExportable
  <1>6. ASSUME NEW k \in DOMAIN entry PROVE Back(k)
    <2>1. PICK i \in 1..Len(s) : s[i] = entry[k]
      BY <1>1
    <2>2. /\ IdOf(s[i]) = k /\ s[i].name = saved.avps[k].name /\ s[i].vBit = saved.avps[k].vBit
          /\ FormatOf(s[i]) = saved.avps[k].format
          /\ SlotOf(s[i]).vendorName = saved.avps[k].vendorName
      BY <2>1, AvpEntry
    <2>3. Placed(s[i])
      OBVIOUS
    <2>4. /\ SlotOf(s[i]).name = s[i].name /\ SlotOf(s[i]).vBit = s[i].vBit
          /\ SlotOf(s[i]).format = FormatOf(s[i])
      BY DEF SlotOf
    <2> QED BY <2>2, <2>3, <2>4 DEF Placed
  <1>7. ASSUME NEW k \in DOMAIN saved.avps, k \notin DOMAIN entry PROVE k = GenericId /\ Back(k)
    <2>1. saved.avps[k].format = "Any" /\ AvpExportable(saved, k)
      BY <1>2, <1>7 DEF Exportable, AvpsExportable
    <2>2. k = GenericId /\ saved.avps[k].name = "AVP" /\ k[2] = 0
      <3>1. k = GenericId /\ saved.avps[k].name = "AVP"
        BY <2>1 DEF AvpExportable
      <3>2. GenericId[2] = 0
        BY DEF GenericId
      <3> QED BY <3>1, <3>2
    <2>3. /\ saved.avps[k].vBit = FALSE /\ saved.avps[k].vendorName = ""
      BY <2>1, <2>2 DEF AvpExportable
    <2>4. \A i \in 1..Len(s) : IdOf(s[i]) # GenericId
      BY <1>4, <1>7, <2>2
    <2>5. avps[GenericId] = GenericAvp
      BY <2>4 DEF AvpsBack
    <2>6. \A i \in 1..Len(s) : s[i].name # "AVP"
      <3> SUFFICES ASSUME NEW i \in 1..Len(s), s[i].name = "AVP" PROVE FALSE
        OBVIOUS
      <3>1. PICK l \in DOMAIN entry : s[i] = entry[l]
        BY <1>1
      <3>2. l \in DOMAIN saved.avps /\ saved.avps[l].name = saved.avps[k].name
        BY <1>2, <1>3, <2>2, <3>1
      <3>3. l = k
        BY <3>2 DEF Exportable, AvpsExportable
      <3> QED BY <1>7, <3>3
    <2>7. "AVP" \in DOMAIN avpNames /\ avpNames["AVP"] = GenericId
      BY <2>6 DEF AvpsBack
    <2> QED BY <2>1, <2>2, <2>3, <2>5, <2>7, FirstTables
  <1>8. DOMAIN avps = DOMAIN saved.avps
    BY <1>2, <1>5, <1>7
  <1>9. \A k \in DOMAIN saved.avps : Back(k)
    BY <1>6, <1>7
  <1> QED BY <1>8, <1>9 DEF AvpsLead

\* With all their rules too, the AVPs are those that were written.
LEMMA RulesAllBack ==
    ASSUME Says(doc, saved), Exportable(saved), VendorsLead,
           AvpsBack(Len(Section(doc, "avp"))),
           \A i \in 1..Len(Section(doc, "avp")) :
                /\ Placed(Section(doc, "avp")[i])
                /\ avps[IdOf(Section(doc, "avp")[i])].level.rules = RulesOf(Section(doc, "avp")[i])
    PROVE  \A k \in DOMAIN avps : avps[k].level.rules = saved.avps[k].rules
  <1> DEFINE s == Section(doc, "avp")
             entry == AvpSaid(saved)
  <1>1. /\ \A i \in 1..Len(s) : \E k \in DOMAIN entry : s[i] = entry[k]
        /\ \A k \in DOMAIN entry : \E i \in 1..Len(s) : s[i] = entry[k]
    BY DEF Says, Lists
  <1>2. DOMAIN entry = {k \in DOMAIN saved.avps : saved.avps[k].format # "Any"}
    BY DEF AvpSaid
  <1>3. DOMAIN avps = DOMAIN saved.avps /\ AvpsLead
    BY SlotsAllBack
  <1>4. ASSUME NEW k \in DOMAIN entry PROVE avps[k].level.rules = saved.avps[k].rules
    <2>1. PICK i \in 1..Len(s) : s[i] = entry[k]
      BY <1>1
    <2> DEFINE a == s[i]
               rules == saved.avps[k].rules
    <2>2. /\ IdOf(a) = k /\ FormatOf(a) = saved.avps[k].format /\ AvpExportable(saved, k)
          /\ saved.avps[k].format = "Grouped" => a.rules = RulesSaid(saved, rules)
      BY <2>1, AvpEntry
    <2>3. RulesExportable(saved, rules) /\ (rules # <<>> => saved.avps[k].format = "Grouped")
      BY <2>2 DEF AvpExportable
    <2>4. RulesOf(a) = rules
      <3>1. CASE saved.avps[k].format = "Grouped"
        <4>1. a.rules = RulesSaid(saved, rules) /\ DOMAIN a.rules = DOMAIN rules
          BY <2>2, <3>1 DEF RulesSaid
        <4>2. \A j \in DOMAIN rules : RuleOf(a.rules[j]) = rules[j]
          BY <1>3, <2>3, <4>1, RuleBack
        <4>3. RulesOf(a) = [j \in DOMAIN rules |-> rules[j]]
          BY <2>2, <3>1, <4>1, <4>2 DEF RulesOf
        <4>4. rules \in Seq(Rules)
          BY <2>3 DEF RulesExportable
        <4> QED BY <4>3, <4>4
      <3>2. CASE saved.avps[k].format # "Grouped"
        BY <2>2, <2>3, <3>2 DEF RulesOf
      <3> QED BY <3>1, <3>2
    <2>5. avps[IdOf(a)].level.rules = RulesOf(a)
      OBVIOUS
    <2> QED BY <2>2, <2>4, <2>5
  <1>5. ASSUME NEW k \in DOMAIN saved.avps, k \notin DOMAIN entry
        PROVE  avps[k].level.rules = saved.avps[k].rules
    <2>1. saved.avps[k].format = "Any" /\ AvpExportable(saved, k)
      BY <1>2, <1>5 DEF Exportable, AvpsExportable
    <2>2. k = GenericId /\ saved.avps[k].rules = <<>>
      BY <2>1 DEF AvpExportable
    <2>3. \A i \in 1..Len(s) : IdOf(s[i]) # GenericId
      <3> SUFFICES ASSUME NEW i \in 1..Len(s), IdOf(s[i]) = GenericId PROVE FALSE
        OBVIOUS
      <3>1. PICK l \in DOMAIN entry : s[i] = entry[l]
        BY <1>1
      <3>2. IdOf(s[i]) = l
        BY <3>1, AvpEntry
      <3> QED BY <1>5, <2>2, <3>2
    <2>4. avps[GenericId] = GenericAvp
      BY <2>3 DEF AvpsBack
    <2> QED BY <2>2, <2>4, FirstTables
  <1> QED BY <1>3, <1>4, <1>5

----------------------------------------------------------------------------
(* The steps of the load.                                                   *)

\* What every step below starts from.
Going == Inv /\ LoadProgress /\ Exportable(saved) /\ Restoring

\* A step that leaves a table and the document keeps what is back of it.
LEMMA BackKept ==
    ASSUME UNCHANGED <<doc, saved>>
    PROVE  /\ Says(doc, saved) => Says(doc, saved)'
           /\ \A key : Section(doc, key)' = Section(doc, key)
           /\ UNCHANGED formats => \A n : FormatsBack(n) => FormatsBack(n)'
           /\ UNCHANGED <<vendors, vendorNames>> => \A n : VendorsBack(n) => VendorsBack(n)'
           /\ UNCHANGED <<avps, avpNames, vendorNames>> => \A n : AvpsBack(n) => AvpsBack(n)'
           /\ UNCHANGED commands => \A n : CommandsBack(n) => CommandsBack(n)'
  <1>1. \A key : Section(doc, key)' = Section(doc, key)
    BY DEF Section
  <1>2. Says(doc, saved) => Says(doc, saved)'
    OBVIOUS
  <1>3. UNCHANGED formats => \A n : FormatsBack(n) => FormatsBack(n)'
    BY <1>1 DEF FormatsBack
  <1>4. UNCHANGED <<vendors, vendorNames>> => \A n : VendorsBack(n) => VendorsBack(n)'
    BY <1>1 DEF VendorsBack
  <1>5. UNCHANGED <<avps, avpNames, vendorNames>> => \A n : AvpsBack(n) => AvpsBack(n)'
    BY <1>1 DEF AvpsBack, IdOf, VendorCode
  <1>6. UNCHANGED commands => \A n : CommandsBack(n) => CommandsBack(n)'
    BY <1>1 DEF CommandsBack, CommandIdOf
  <1> QED BY <1>1, <1>2, <1>3, <1>4, <1>5, <1>6

\* The entry at the cursor is an entry of the table the section lists.
LEMMA EntryOf ==
    ASSUME LoaderTyped, Says(doc, saved)
    PROVE  /\ HasEntry("format") => \E k \in DOMAIN FormatSaid(saved) :
                                        Entry("format") = FormatSaid(saved)[k]
           /\ HasEntry("vendor") => \E k \in DOMAIN VendorSaid(saved) :
                                        Entry("vendor") = VendorSaid(saved)[k]
           /\ HasEntry("avp") => \E k \in DOMAIN AvpSaid(saved) :
                                        Entry("avp") = AvpSaid(saved)[k]
           /\ HasEntry("command") => \E k \in DOMAIN CommandSaid(saved) :
                                        Entry("command") = CommandSaid(saved)[k]
  <1>1. \A key : Len(Section(doc, key)) \in Nat /\ HasEntry(key) =>
            at + 1 \in 1..Len(Section(doc, key))
    BY DEF LoaderTyped, HasEntry
  <1>2. /\ Len(Section(doc, "format")) \in Nat /\ Len(Section(doc, "vendor")) \in Nat
        /\ Len(Section(doc, "avp")) \in Nat /\ Len(Section(doc, "command")) \in Nat
    BY DEF LoaderTyped, IsDoc
  <1>3. Lists(Section(doc, "format"), FormatSaid(saved))
        /\ Lists(Section(doc, "vendor"), VendorSaid(saved))
    BY DEF Says
  <1>4. Lists(Section(doc, "avp"), AvpSaid(saved))
        /\ Lists(Section(doc, "command"), CommandSaid(saved))
    BY DEF Says
  <1>5. HasEntry("format") => \E k \in DOMAIN FormatSaid(saved) :
                                  Entry("format") = FormatSaid(saved)[k]
    BY <1>1, <1>2, <1>3 DEF Lists, Entry
  <1>6. HasEntry("vendor") => \E k \in DOMAIN VendorSaid(saved) :
                                  Entry("vendor") = VendorSaid(saved)[k]
    BY <1>1, <1>2, <1>3 DEF Lists, Entry
  <1>7. HasEntry("avp") => \E k \in DOMAIN AvpSaid(saved) :
                                  Entry("avp") = AvpSaid(saved)[k]
    BY <1>1, <1>2, <1>4 DEF Lists, Entry
  <1>8. HasEntry("command") => \E k \in DOMAIN CommandSaid(saved) :
                                  Entry("command") = CommandSaid(saved)[k]
    BY <1>1, <1>2, <1>4 DEF Lists, Entry
  <1> QED BY <1>5, <1>6, <1>7, <1>8

LEMMA ExtractFormatBack ==
    ASSUME Going, UNCHANGED saved, ExtractFormat
    PROVE  Restoring'
  <1> DEFINE s == Section(doc, "format")
             f == Entry("format")
  <1>1. /\ phase = "format" /\ HasEntry("format") /\ Says(doc, saved)
        /\ FormatsBack(at) /\ VendorsBack(0) /\ AvpsBack(0) /\ CommandsBack(0) /\ FlagUp(aux)
    BY DEF Going, Restoring, ExtractFormat
  <1>2. PICK k \in DOMAIN FormatSaid(saved) : f = FormatSaid(saved)[k]
    BY <1>1, EntryOf DEF Going, Inv, LoaderInv
  <1>3. /\ k \in DOMAIN saved.formats /\ k \notin DOMAIN HardcodedFormats
        /\ saved.formats[k] \in BasicTypes /\ k # "" /\ k # "Unknown"
        /\ DOMAIN HardcodedFormats \subseteq DOMAIN saved.formats
        /\ \A h \in DOMAIN HardcodedFormats : saved.formats[h] = HardcodedFormats[h]
    BY DEF FormatSaid, Going, Exportable, FormatsExportable
  <1>4. \A b \in BasicTypes : /\ b # "" /\ b \in DOMAIN HardcodedFormats /\ b \notin ReservedTypes
                              /\ HardcodedFormats[b] = "" /\ b # Absent
    BY NamesAssumption DEF BasicTypes, DerivedTypes, ReservedTypes, HardcodedFormats
  <1>5. f.name = k /\ f.parent = saved.formats[k]
    <2>1. saved.formats[k] # ""
      BY <1>3, <1>4
    <2>2. FormatSaid(saved)[k] = [name |-> k, parent |-> saved.formats[k]]
      BY <1>2, <2>1 DEF FormatSaid
    <2> QED BY <1>2, <2>2
  <1>6. IsBasic(f.parent)
    <2>1. formats[f.parent] = saved.formats[f.parent]
      BY <1>1, <1>3, <1>4, <1>5 DEF FormatsBack
    <2> QED BY <1>3, <1>4, <1>5, <2>1 DEF IsBasic
  <1>7. k \notin ReservedTypes
    <2>1. "Any" \in DOMAIN HardcodedFormats
      BY DEF HardcodedFormats
    <2> QED BY <1>3, <2>1 DEF ReservedTypes
  <1>8. FormatAccepted(f) /\ f.parent # Absent
    BY <1>3, <1>4, <1>5, <1>6, <1>7 DEF FormatAccepted
  <1>9. /\ formats' = Put(formats, k, saved.formats[k]) /\ phase' = "format" /\ at' = at + 1
        /\ UNCHANGED <<vendors, avps, commands, vendorNames, avpNames, doc, aux>>
    BY <1>5, <1>8 DEF ExtractFormat, Advance
  <1>10. at \in Nat /\ at + 1 <= Len(s) /\ f = s[at + 1]
    BY <1>1 DEF HasEntry, Entry, Going, Inv, LoaderInv, LoaderTyped, IsDoc
  <1>11. FormatsBack(at)'
    <2>1. /\ DOMAIN formats' = DOMAIN formats \cup {k} /\ formats'[k] = saved.formats[k]
          /\ \A x \in DOMAIN formats : x # k => formats'[x] = formats[x]
      BY <1>9 DEF Put
    <2>2. \A x \in DOMAIN formats' : formats'[x] = saved.formats[x]
      BY <1>1, <2>1 DEF FormatsBack
    <2>3. {s[i].name : i \in 1..(at + 1)} = {s[i].name : i \in 1..at} \cup {k}
      <3>1. 1..(at + 1) = 1..at \cup {at + 1}
        BY <1>10
      <3> QED BY <1>5, <1>10, <3>1
    <2>4. DOMAIN formats' = DOMAIN HardcodedFormats \cup {s[i].name : i \in 1..(at + 1)}
      BY <1>1, <2>1, <2>3 DEF FormatsBack
    <2>5. s' = s /\ saved' = saved
      BY <1>9 DEF Section
    <2> QED BY <1>9, <2>2, <2>4, <2>5 DEF FormatsBack
  <1>12. /\ VendorsBack(0)' /\ AvpsBack(0)' /\ CommandsBack(0)' /\ Says(doc, saved)'
         /\ s' = s /\ FlagUp(aux)'
    BY <1>1, <1>9, BackKept DEF FlagUp
  <1> QED BY <1>9, <1>10, <1>11, <1>12 DEF Restoring

LEMMA ExtractVendorBack ==
    ASSUME Going, UNCHANGED saved, ExtractVendor
    PROVE  Restoring'
  <1> DEFINE s == Section(doc, "vendor")
             v == Entry("vendor")
             n == Len(Section(doc, "format"))
  <1>1. /\ phase = "vendor" /\ HasEntry("vendor") /\ Says(doc, saved)
        /\ FormatsBack(n) /\ VendorsBack(at) /\ AvpsBack(0) /\ CommandsBack(0) /\ FlagUp(aux)
    BY DEF Going, Restoring, ExtractVendor
  <1>2. PICK k \in DOMAIN VendorSaid(saved) : v = VendorSaid(saved)[k]
    BY <1>1, EntryOf DEF Going, Inv, LoaderInv
  <1>3. k \in DOMAIN saved.vendors /\ v.name = saved.vendors[k] /\ v.code = k
    BY <1>2 DEF VendorSaid
  <1>4. /\ DOMAIN saved.vendors \subseteq Nat
        /\ \A x \in DOMAIN saved.vendors : saved.vendors[x] # ""
        /\ \A x, y \in DOMAIN saved.vendors : saved.vendors[x] = saved.vendors[y] => x = y
    BY DEF Going, Exportable, VendorsExportable
  <1>5. v.name # "" /\ v.code \in Nat
    BY <1>3, <1>4
  <1>6. v.code >= 0
    <2>1. \A x \in Nat : x >= 0
      OBVIOUS
    <2> QED BY <1>5, <2>1, Zenon
  <1>7. VendorAccepted(v)
    BY <1>5, <1>6 DEF VendorAccepted
  <1>8. /\ vendors' = Put(vendors, k, saved.vendors[k])
        /\ vendorNames' = Put(vendorNames, saved.vendors[k], k)
        /\ phase' = "vendor" /\ at' = at + 1
        /\ UNCHANGED <<formats, avps, commands, avpNames, doc, aux>>
    BY <1>3, <1>7 DEF ExtractVendor, Advance, PutName
  <1>9. at \in Nat /\ at + 1 <= Len(s) /\ v = s[at + 1]
    BY <1>1 DEF HasEntry, Entry, Going, Inv, LoaderInv, LoaderTyped, IsDoc
  <1>10. s' = s /\ saved' = saved
    BY <1>8 DEF Section
  <1>11. \A i \in 1..at : s[i].code \in DOMAIN saved.vendors
    <2> SUFFICES ASSUME NEW i \in 1..at PROVE s[i].code \in DOMAIN saved.vendors
      OBVIOUS
    <2>1. i \in 1..Len(s)
      BY <1>9, EntryTypes DEF Going, Inv, LoaderInv, LoaderTyped, IsDoc
    <2>2. PICK l \in DOMAIN VendorSaid(saved) : s[i] = VendorSaid(saved)[l]
      BY <1>1, <2>1 DEF Says, Lists
    <2> QED BY <2>2 DEF VendorSaid
  <1>12. VendorsBack(at)'
    <2>1. /\ DOMAIN vendors' = DOMAIN vendors \cup {k} /\ vendors'[k] = saved.vendors[k]
          /\ \A x \in DOMAIN vendors : x # k => vendors'[x] = vendors[x]
          /\ DOMAIN vendorNames' = DOMAIN vendorNames \cup {saved.vendors[k]}
          /\ vendorNames'[saved.vendors[k]] = k
          /\ \A x \in DOMAIN vendorNames : x # saved.vendors[k] => vendorNames'[x] = vendorNames[x]
      BY <1>8 DEF Put
    <2>2. ASSUME NEW x \in DOMAIN vendors, x # k
          PROVE  /\ vendors'[x] = saved.vendors[x]
                 /\ vendors'[x] \in DOMAIN vendorNames' /\ vendorNames'[vendors'[x]] = x
      <3>1. /\ vendors[x] = saved.vendors[x] /\ x \in DOMAIN saved.vendors
            /\ vendors[x] \in DOMAIN vendorNames /\ vendorNames[vendors[x]] = x
        BY <1>1, <1>11 DEF VendorsBack
      <3>2. saved.vendors[x] # saved.vendors[k]
        BY <1>3, <1>4, <2>2, <3>1
      <3> QED BY <2>1, <2>2, <3>1, <3>2
    <2>3. \A x \in DOMAIN vendors' :
            /\ vendors'[x] = saved.vendors[x]
            /\ vendors'[x] \in DOMAIN vendorNames' /\ vendorNames'[vendors'[x]] = x
      BY <2>1, <2>2
    <2>4. {s[i].code : i \in 1..(at + 1)} = {s[i].code : i \in 1..at} \cup {k}
      <3>1. 1..(at + 1) = 1..at \cup {at + 1}
        BY <1>9
      <3> QED BY <1>3, <1>9, <3>1
    <2>5. DOMAIN vendors' = {s[i].code : i \in 1..(at + 1)}
      BY <1>1, <2>1, <2>4 DEF VendorsBack
    <2> QED BY <1>8, <1>10, <2>3, <2>5 DEF VendorsBack
  <1>13. AvpsBack(0)'
    BY <1>1, <1>8 DEF AvpsBack
  <1>14. FormatsBack(n)' /\ CommandsBack(0)' /\ Says(doc, saved)' /\ n' = n /\ FlagUp(aux)'
    BY <1>1, <1>8, BackKept DEF FlagUp
  <1> QED BY <1>8, <1>9, <1>10, <1>12, <1>13, <1>14 DEF Restoring

LEMMA ExtractAvpBack ==
    ASSUME Going, UNCHANGED saved, ExtractAvp
    PROVE  Restoring'
  <1> DEFINE s == Section(doc, "avp")
             a == Entry("avp")
             nf == Len(Section(doc, "format"))
             nv == Len(Section(doc, "vendor"))
  <1>1. /\ phase = "avp" /\ HasEntry("avp") /\ Says(doc, saved) /\ Exportable(saved)
        /\ FormatsBack(nf) /\ VendorsBack(nv) /\ AvpsBack(at) /\ CommandsBack(0) /\ FlagUp(aux)
    BY DEF Going, Restoring, ExtractAvp
  <1>2. PICK k \in DOMAIN AvpSaid(saved) : a = AvpSaid(saved)[k]
    BY <1>1, EntryOf DEF Going, Inv, LoaderInv
  <1>3. /\ DOMAIN formats = DOMAIN saved.formats /\ VendorsLead
    BY <1>1, FormatsAllBack, VendorsAllBack
  <1>4. /\ AvpExportable(saved, k) /\ IdOf(a) = k
        /\ a.name = saved.avps[k].name /\ a.vBit = saved.avps[k].vBit /\ a.code = k[1]
        /\ a.vendor # Absent => a.vendor \in DOMAIN vendorNames
        /\ VendorCode(a) = k[2]
        /\ a.format # Absent => a.format = saved.avps[k].format
        /\ a.enum = FALSE /\ a.label = FALSE
    <2> HIDE DEF a
    <2>1. Exportable(saved) /\ VendorsLead
      BY <1>1, <1>3
    <2> QED BY ONLY <1>2, <2>1, AvpEntry
  <1> HIDE DEF a
  <1>5. a.name # "" /\ (a.vBit <=> VendorCode(a) # 0)
    BY <1>4 DEF AvpExportable
  <1>6. a.format # Absent => a.format \in DOMAIN formats
    BY <1>3, <1>4 DEF AvpExportable
  <1>7. a.code >= 0
    <2>1. \A x \in Nat : x >= 0
      OBVIOUS
    <2>2. k \in AvpIds
      BY <1>4 DEF AvpExportable
    <2>3. k[1] \in Nat
      BY <2>2 DEF AvpIds
    <2> QED BY <1>4, <2>1, <2>3, Zenon
  <1>8. AvpAccepted(a)
    BY <1>4, <1>5, <1>6, <1>7 DEF AvpAccepted
  <1>9. /\ avps' = Put(avps, k, SlotOf(a)) /\ avpNames' = Put(avpNames, a.name, k)
        /\ phase' = "avp" /\ at' = at + 1
        /\ UNCHANGED <<formats, vendors, commands, vendorNames, doc, aux>>
    BY <1>4, <1>8 DEF ExtractAvp, Advance, PutName, a
  <1>10. at \in Nat /\ at + 1 <= Len(s) /\ a = s[at + 1]
    BY <1>1 DEF HasEntry, Entry, Going, Inv, LoaderInv, LoaderTyped, IsDoc, a
  <1>11. s' = s /\ saved' = saved /\ \A x : IdOf(x)' = IdOf(x)
    BY <1>9 DEF Section, IdOf, VendorCode
  <1>12. 1..(at + 1) = 1..at \cup {at + 1}
    BY <1>10
  <1>13. AvpsBack(at)'
    <2>1. /\ DOMAIN avps' = DOMAIN avps \cup {k} /\ avps'[k] = SlotOf(a)
          /\ \A x \in DOMAIN avps : x # k => avps'[x] = avps[x]
          /\ DOMAIN avpNames' = DOMAIN avpNames \cup {a.name}
          /\ \A x \in DOMAIN avpNames : x # a.name => avpNames'[x] = avpNames[x]
      BY <1>9 DEF Put
    <2>2. DOMAIN avps' = {GenericId} \cup {IdOf(s[i]) : i \in 1..(at + 1)}
      <3>1. DOMAIN avps = {GenericId} \cup {IdOf(s[i]) : i \in 1..at}
        BY <1>1 DEF AvpsBack
      <3>2. {IdOf(s[i]) : i \in 1..(at + 1)} = {IdOf(s[i]) : i \in 1..at} \cup {k}
        BY <1>4, <1>10, <1>12
      <3> QED BY <2>1, <3>1, <3>2
    <2>3. ASSUME \A i \in 1..(at + 1) : IdOf(s[i]) # GenericId
          PROVE  avps'[GenericId] = GenericAvp
      <3>1. k # GenericId /\ \A i \in 1..at : IdOf(s[i]) # GenericId
        BY <1>4, <1>10, <1>12, <2>3
      <3>2. avps[GenericId] = GenericAvp /\ GenericId \in DOMAIN avps
        BY <1>1, <3>1 DEF AvpsBack
      <3> QED BY <2>1, <3>1, <3>2
    <2>4. ASSUME \A i \in 1..(at + 1) : s[i].name # "AVP"
          PROVE  "AVP" \in DOMAIN avpNames' /\ avpNames'["AVP"] = GenericId
      <3>1. a.name # "AVP" /\ \A i \in 1..at : s[i].name # "AVP"
        BY <1>10, <1>12, <2>4
      <3>2. "AVP" \in DOMAIN avpNames /\ avpNames["AVP"] = GenericId
        BY <1>1, <3>1 DEF AvpsBack
      <3> QED BY <2>1, <3>1, <3>2
    <2>5. FlagUp(avps'[k].level)
      <3>1. SlotOf(a).level = EmptyLevel
        BY DEF SlotOf
      <3> QED BY <2>1, <3>1, FirstTables DEF FlagUp
    <2>6. \A x \in DOMAIN avps' : FlagUp(avps'[x].level)
      BY <1>1, <2>1, <2>5 DEF AvpsBack, FlagUp
    <2> QED BY <1>9, <1>11, <2>2, <2>3, <2>4, <2>6 DEF AvpsBack, FlagUp
  <1>14. /\ FormatsBack(nf)' /\ VendorsBack(nv)' /\ CommandsBack(0)' /\ Says(doc, saved)'
         /\ UNCHANGED <<nf, nv>> /\ FlagUp(aux)'
    BY <1>1, <1>9, BackKept DEF FlagUp
  <1> QED BY <1>9, <1>13, <1>14 DEF Restoring

\* The ends of the first three loops.
LEMMA LoopsDoneBack ==
    ASSUME Going, UNCHANGED saved, FormatsDone \/ VendorsDone \/ AvpsDone
    PROVE  Restoring'
  <1> DEFINE nf == Len(Section(doc, "format"))
             nv == Len(Section(doc, "vendor"))
             na == Len(Section(doc, "avp"))
  <1>1. /\ at \in Nat /\ nf \in Nat /\ nv \in Nat /\ na \in Nat
    BY DEF Going, Inv, LoaderInv, LoaderTyped, IsDoc
  <1>2. /\ at' = 0 /\ UNCHANGED <<doc, saved, aux>> /\ UNCHANGED catalogue
        /\ Says(doc, saved) /\ FlagUp(aux)
    BY DEF FormatsDone, VendorsDone, AvpsDone, EndLoop, Going, Restoring
  <1>3. UNCHANGED <<formats, vendors, avps, commands, vendorNames, avpNames>>
    BY <1>2 DEF catalogue
  <1>4. Says(doc, saved)' /\ UNCHANGED <<nf, nv, na>> /\ FlagUp(aux)'
    BY <1>2, BackKept DEF FlagUp
  <1>5. CASE FormatsDone
    <2>1. /\ phase' = "vendor" /\ at = nf
          /\ FormatsBack(at) /\ VendorsBack(0) /\ AvpsBack(0) /\ CommandsBack(0)
      BY <1>1, <1>5 DEF FormatsDone, EndLoop, HasEntry, Going, Restoring
    <2>2. FormatsBack(nf)' /\ VendorsBack(0)' /\ AvpsBack(0)' /\ CommandsBack(0)'
      BY <1>2, <1>3, <1>4, <2>1, BackKept
    <2>3. VendorsBack(at)' /\ at' <= nv'
      BY <1>1, <1>2, <1>4, <2>2 DEF VendorsBack
    <2> QED BY <1>4, <2>1, <2>2, <2>3 DEF Restoring
  <1>6. CASE VendorsDone
    <2>1. /\ phase' = "avp" /\ at = nv
          /\ FormatsBack(nf) /\ VendorsBack(at) /\ AvpsBack(0) /\ CommandsBack(0)
      BY <1>1, <1>6 DEF VendorsDone, EndLoop, HasEntry, Going, Restoring
    <2>2. FormatsBack(nf)' /\ VendorsBack(nv)' /\ AvpsBack(0)' /\ CommandsBack(0)'
      BY <1>2, <1>3, <1>4, <2>1, BackKept
    <2>3. AvpsBack(at)'
      BY <1>2, <2>2 DEF AvpsBack
    <2> QED BY <1>4, <2>1, <2>2, <2>3 DEF Restoring
  <1>7. CASE AvpsDone
    <2>1. /\ phase' = "grouped" /\ at = na
          /\ FormatsBack(nf) /\ VendorsBack(nv) /\ AvpsBack(at) /\ CommandsBack(0)
      BY <1>1, <1>7 DEF AvpsDone, EndLoop, HasEntry, Going, Restoring, Inv, LoaderInv
    <2>2. FormatsBack(nf)' /\ VendorsBack(nv)' /\ AvpsBack(na)' /\ CommandsBack(0)'
      BY <1>2, <1>3, <1>4, <2>1, BackKept
    <2> QED BY <1>4, <2>1, <2>2 DEF Restoring
  <1> QED BY <1>5, <1>6, <1>7

\* After the first loop over the AVPs every slot is back, after the second one
\* every rule.
LEMMA AvpsAllBack ==
    ASSUME Going, phase \in {"grouped", "rule", "loops", "command", "building"}
    PROVE  /\ Says(doc, saved) /\ Exportable(saved) /\ VendorsLead /\ AvpsLead
           /\ AvpsDistinct(Len(Section(doc, "avp")))
           /\ DOMAIN avps = DOMAIN saved.avps
           /\ \A k \in DOMAIN avps :
                /\ avps[k].name = saved.avps[k].name /\ avps[k].vBit = saved.avps[k].vBit
                /\ avps[k].format = saved.avps[k].format
                /\ avps[k].vendorName = saved.avps[k].vendorName
           /\ \A i \in 1..Len(Section(doc, "avp")) : Placed(Section(doc, "avp")[i])
           /\ phase \in {"loops", "command", "building"} =>
                \A k \in DOMAIN avps : avps[k].level.rules = saved.avps[k].rules
  <1> DEFINE s == Section(doc, "avp")
  <1>1. /\ Says(doc, saved) /\ Exportable(saved) /\ LoaderTyped /\ AvpsBack(Len(s))
        /\ VendorsBack(Len(Section(doc, "vendor"))) /\ Len(s) \in Nat
    BY DEF Going, Restoring, Inv, LoaderInv, LoaderTyped, IsDoc
  <1>2. VendorsLead
    BY <1>1, VendorsAllBack
  <1>3. AvpsDistinct(Len(s))
    BY <1>1, <1>2, DocumentDistinct
  <1>4. \A i \in 1..Len(s) : Placed(s[i])
    BY <1>3 DEF Going, LoadProgress, AvpsPlaced
  <1>5. ASSUME phase \in {"loops", "command", "building"}
        PROVE  \A k \in DOMAIN avps : avps[k].level.rules = saved.avps[k].rules
    <2>1. \A i \in 1..Len(s) : avps[IdOf(s[i])].level.rules = RulesOf(s[i])
      BY <1>1, <1>3, <1>5 DEF Going, LoadProgress, AvpsPlaced
    <2> QED BY <1>1, <1>2, <1>4, <2>1, RulesAllBack
  <1> QED BY <1>1, <1>2, <1>3, <1>4, <1>5, SlotsAllBack

\* The entry at the cursor of the second loop leads to the AVP it was written
\* for, and its rules are those of that AVP.
LEMMA GroupedAt ==
    ASSUME Going, phase \in {"grouped", "rule"}, HasEntry("avp"),
           NEW a, a = Entry("avp")
    PROVE  /\ Placed(a) /\ IdOf(a) \in DOMAIN saved.avps /\ AvpExportable(saved, IdOf(a))
           /\ avpNames[a.name] = IdOf(a)
           /\ IsGrouped(IdOf(a)) =>
                /\ a.rules \in Seq(RuleDefs) /\ a.rules # Absent
                /\ a.rules = RulesSaid(saved, saved.avps[IdOf(a)].rules)
           /\ IdOf(a) = GenericId =>
                \E i \in 1..Len(Section(doc, "avp")) : IdOf(Section(doc, "avp")[i]) = GenericId
  <1> DEFINE s == Section(doc, "avp")
  <1>1. /\ LoaderTyped /\ at \in Nat /\ Len(s) \in Nat
    BY DEF Going, Inv, LoaderInv, LoaderTyped, IsDoc
  <1>2. at + 1 \in 1..Len(s) /\ a = s[at + 1]
    BY <1>1 DEF HasEntry, Entry
  <1>3. /\ Says(doc, saved) /\ Exportable(saved) /\ VendorsLead
        /\ \A i \in 1..Len(s) : Placed(s[i])
    BY AvpsAllBack
  <1>4. PICK k \in DOMAIN AvpSaid(saved) : a = AvpSaid(saved)[k]
    BY <1>1, <1>3, EntryOf
  <1>5. /\ k \in DOMAIN saved.avps /\ AvpExportable(saved, k) /\ IdOf(a) = k
        /\ FormatOf(a) = saved.avps[k].format
        /\ saved.avps[k].format = "Grouped" => a.rules = RulesSaid(saved, saved.avps[k].rules)
    BY <1>3, <1>4, AvpEntry
  <1>6. Placed(a)
    BY <1>2, <1>3
  <1>7. avpNames[a.name] = IdOf(a) /\ avps[IdOf(a)].format = FormatOf(a)
    BY <1>6 DEF Placed, SlotOf
  <1>8. IdOf(a) = GenericId => \E i \in 1..Len(s) : IdOf(s[i]) = GenericId
    BY <1>2
  <1>9. ASSUME IsGrouped(k)
        PROVE  a.rules \in Seq(RuleDefs) /\ a.rules = RulesSaid(saved, saved.avps[k].rules)
    <2>1. a.rules = RulesSaid(saved, saved.avps[k].rules)
      BY <1>5, <1>7, <1>9 DEF IsGrouped
    <2> DEFINE rules == saved.avps[k].rules
    <2>2. RulesExportable(saved, rules)
      BY <1>5 DEF AvpExportable
    <2>3. rules \in Seq(Rules) /\ Len(rules) \in Nat /\ DOMAIN rules = 1..Len(rules)
      BY <2>2 DEF RulesExportable
    <2>4. ASSUME NEW i \in DOMAIN rules
          PROVE  [name |-> saved.avps[rules[i].avp].name, type |-> rules[i].presence,
                  qual |-> rules[i].qual] \in RuleDefs
      <3>1. rules[i] \in Rules /\ rules[i].avp \in DOMAIN saved.avps
        BY <2>2, <2>3 DEF RulesExportable
      <3>2. saved.avps[rules[i].avp].name \in Names
        BY <1>3, <3>1 DEF Exportable, AvpsExportable, AvpExportable
      <3>3. rules[i].presence \in STRING /\ rules[i].qual \in Qualifiers
        <4>1. rules[i].presence \in Presences /\ rules[i].qual \in Qualifiers
          BY <3>1 DEF Rules
        <4> QED BY <4>1, TextsAssumption
      <3> QED BY <3>2, <3>3 DEF RuleDefs
    <2>5. RulesSaid(saved, rules) \in [1..Len(rules) -> RuleDefs]
      BY <2>3, <2>4 DEF RulesSaid
    <2>6. RulesSaid(saved, rules) \in Seq(RuleDefs)
      BY <2>3, <2>5
    <2> QED BY <2>1, <2>6
  <1>10. IsGrouped(k) => a.rules # Absent
    BY <1>9, NamesAssumption
  <1> QED BY <1>5, <1>6, <1>7, <1>8, <1>9, <1>10

\* What stays true in the second loop and after it when the tables stay.
LEMMA StillBack ==
    ASSUME Going, UNCHANGED <<doc, saved, catalogue>>,
           phase \in {"grouped", "rule", "loops", "command", "building"},
           phase' \in {"grouped", "rule", "loops", "command", "building"},
           FlagUp(aux'),
           IF phase' \in {"command", "building"}
           THEN /\ at' <= Len(Section(doc, "command"))
                /\ CommandsBack(at')
           ELSE phase \notin {"command", "building"}
    PROVE  Restoring'
  <1> DEFINE nf == Len(Section(doc, "format"))
             nv == Len(Section(doc, "vendor"))
             na == Len(Section(doc, "avp"))
             nc == Len(Section(doc, "command"))
  <1>1. UNCHANGED <<formats, vendors, avps, commands, vendorNames, avpNames>>
    BY DEF catalogue
  <1>2. Says(doc, saved) /\ FormatsBack(nf) /\ VendorsBack(nv) /\ AvpsBack(na)
    BY DEF Going, Restoring
  <1>3. /\ Says(doc, saved)' /\ FormatsBack(nf)' /\ VendorsBack(nv)' /\ AvpsBack(na)'
        /\ UNCHANGED <<nf, nv, na, nc>> /\ FlagUp(aux)'
    BY <1>1, <1>2, BackKept DEF FlagUp
  <1>4. phase' \in {"command", "building"} => CommandsBack(at)' /\ at' <= nc'
    <2>1. ASSUME phase' \in {"command", "building"} PROVE CommandsBack(at)'
      <3>1. Section(doc, "command")' = Section(doc, "command")
        BY DEF Section
      <3> QED BY <1>1, <2>1, <3>1 DEF CommandsBack, CommandIdOf
    <2> QED BY <1>3, <2>1
  <1>5. phase' \notin {"command", "building"} => CommandsBack(0)'
    <2>1. phase \notin {"command", "building"} => CommandsBack(0)
      BY DEF Going, Restoring
    <2> QED BY <1>1, <2>1, BackKept
  <1> QED BY <1>3, <1>4, <1>5 DEF Restoring

LEMMA GroupedEntryBack ==
    ASSUME Going, UNCHANGED saved, GroupedEntry
    PROVE  Restoring'
  <1> DEFINE a == Entry("avp")
  <1>1. phase = "grouped" /\ HasEntry("avp")
    BY DEF GroupedEntry
  <1>2. avpNames[a.name] = IdOf(a) /\ (IsGrouped(IdOf(a)) => a.rules # Absent)
    BY <1>1, GroupedAt
  <1>3. /\ phase' \in {"grouped", "rule"} /\ UNCHANGED <<doc, aux>> /\ UNCHANGED catalogue
    BY <1>1, <1>2 DEF GroupedEntry, Advance
  <1>4. FlagUp(aux')
    BY <1>3 DEF Going, Restoring
  <1> QED BY <1>1, <1>3, <1>4, StillBack

LEMMA GroupedDoneBack ==
    ASSUME Going, UNCHANGED saved, GroupedEntryDone \/ GroupedDone
    PROVE  Restoring'
  <1>1. /\ phase \in {"grouped", "rule"} /\ phase' \in {"grouped", "loops"}
        /\ UNCHANGED <<doc, aux>> /\ UNCHANGED catalogue
    BY DEF GroupedEntryDone, GroupedDone, EndLoop
  <1>2. FlagUp(aux')
    BY <1>1 DEF Going, Restoring
  <1> QED BY <1>1, <1>2, StillBack

\* The document's rules have the texts of their presences.
LEMMA GroupedRuleBack ==
    ASSUME Going, UNCHANGED saved, GroupedRule
    PROVE  Restoring'
  <1> DEFINE a == Entry("avp")
             s == Section(doc, "avp")
             r == a.rules[nth + 1]
             rules == saved.avps[target].rules
             level == avps[target].level
  <1>1. /\ phase = "rule" /\ HasEntry("avp") /\ target = avpNames[a.name] /\ IsGrouped(target)
        /\ nth \in Nat /\ nth < Len(a.rules) /\ at \in Nat
    BY DEF GroupedRule, Going, Inv, LoaderInv, LoaderTyped
  <1>2. /\ target = IdOf(a) /\ a.rules \in Seq(RuleDefs) /\ a.rules = RulesSaid(saved, rules)
        /\ target \in DOMAIN saved.avps /\ AvpExportable(saved, target) /\ Placed(a)
        /\ target = GenericId => \E i \in 1..Len(s) : IdOf(s[i]) = GenericId
    BY <1>1, GroupedAt
  <1>3. RulesExportable(saved, rules) /\ target \in DOMAIN avps
    BY <1>2 DEF AvpExportable, Placed
  <1>4. AvpsLead /\ AvpsDistinct(Len(s)) /\ AvpsBack(Len(s))
    BY <1>1, AvpsAllBack DEF Going, Restoring
  <1>5. /\ at + 1 \in 1..Len(s) /\ a = s[at + 1] /\ AvpsPlaced(Len(s), at, nth)
    BY <1>1 DEF HasEntry, Entry, Going, LoadProgress, Inv, LoaderInv, LoaderTyped, IsDoc
  <1>6. level.rules = FirstRules(a, nth)
    <2>1. ~(at + 1 <= at) /\ IdOf(s[at + 1]) = target
      BY <1>1, <1>2, <1>5
    <2> QED BY <1>1, <1>4, <1>5, <2>1 DEF AvpsPlaced
  <1> HIDE DEF a, s
  <1>7. nth + 1 \in DOMAIN rules /\ \A j \in 1..nth : j \in DOMAIN rules
    <2>1. DOMAIN a.rules = DOMAIN rules
      BY <1>2 DEF RulesSaid
    <2>2. DOMAIN a.rules = 1..Len(a.rules) /\ Len(a.rules) \in Nat
      BY <1>2
    <2> QED BY <1>1, <2>1, <2>2
  <1> HIDE DEF rules
  <1>8. \A j \in DOMAIN rules : RuleAccepted(a.rules[j]) /\ RuleOf(a.rules[j]) = rules[j]
    BY <1>2, <1>3, <1>4, RuleBack
  <1>9. level.rules = [j \in 1..nth |-> rules[j]]
    BY <1>6, <1>7, <1>8 DEF FirstRules
  <1>10. level \in Levels /\ FlagUp(level)
    BY <1>3, <1>4, SlotLevel DEF AvpsBack, Going, Inv
  <1>11. RuleFits(level, rules[nth + 1]) /\ FlagUp(WithRule(level, rules[nth + 1]))
    <2> HIDE DEF level
    <2> QED BY <1>1, <1>3, <1>7, <1>9, <1>10, RuleFitsAgain
  <1> DEFINE new == WithRule(level, rules[nth + 1])
  <1>12. RuleAccepted(r) /\ RuleOf(r) = rules[nth + 1]
    BY <1>7, <1>8
  <1>13. /\ avps' = [avps EXCEPT ![target].level = new] /\ phase' = "rule"
         /\ UNCHANGED <<formats, vendors, commands, vendorNames, avpNames, doc, at, aux>>
    BY <1>11, <1>12 DEF GroupedRule, SetLevel, a
  <1> HIDE DEF level, r
  <1>14. \A x \in DOMAIN avps : avps[x] \in AvpSlots
    BY DEF Going, Inv, TablesInv, TablesTyped, IsTable
  <1>15. /\ DOMAIN avps' = DOMAIN avps /\ avps'[target].level = new
         /\ \A x \in DOMAIN avps : x # target => avps'[x] = avps[x]
    BY <1>3, <1>13, <1>14 DEF AvpSlots
  <1>16. s' = s /\ saved' = saved /\ \A x : IdOf(x)' = IdOf(x)
    BY <1>13 DEF Section, IdOf, VendorCode, s
  <1>17. AvpsBack(Len(s))'
    <2>1. \A x \in DOMAIN avps' : FlagUp(avps'[x].level)
      BY <1>4, <1>11, <1>15 DEF AvpsBack
    <2>2. (\A i \in 1..Len(s) : IdOf(s[i]) # GenericId) => avps'[GenericId] = GenericAvp
      BY <1>2, <1>4, <1>15 DEF AvpsBack, s
    <2> QED BY <1>4, <1>13, <1>15, <1>16, <2>1, <2>2 DEF AvpsBack, FlagUp, s
  <1> DEFINE nf == Len(Section(doc, "format"))
             nv == Len(Section(doc, "vendor"))
  <1>18. Says(doc, saved) /\ FormatsBack(nf) /\ VendorsBack(nv) /\ CommandsBack(0) /\ FlagUp(aux)
    BY <1>1 DEF Going, Restoring
  <1>19. /\ Says(doc, saved)' /\ FormatsBack(nf)' /\ VendorsBack(nv)' /\ CommandsBack(0)'
         /\ UNCHANGED <<nf, nv>> /\ FlagUp(aux)'
    BY <1>13, <1>18, BackKept DEF FlagUp
  <1> QED BY <1>13, <1>16, <1>17, <1>19 DEF Restoring, s

LEMMA CheckLoopsBack ==
    ASSUME Going, UNCHANGED saved, CheckLoops
    PROVE  Restoring'
  <1>1. phase = "loops"
    BY DEF CheckLoops
  <1>2. /\ DOMAIN avps = DOMAIN saved.avps /\ Exportable(saved)
        /\ \A k \in DOMAIN avps :
             avps[k].format = saved.avps[k].format /\ avps[k].level.rules = saved.avps[k].rules
    BY <1>1, AvpsAllBack
  <1>3. \A x, y \in DOMAIN avps : HasChild(x, y) => Contains(saved, x, y)
    BY <1>2 DEF HasChild, IsGrouped, IsChild, Contains
  <1>4. ~ShortLoop
    BY <1>2, <1>3 DEF Exportable, LoopFree, ShortLoop
  <1>5. phase' = "command" /\ UNCHANGED catalogue /\ UNCHANGED <<doc, at, aux>>
    BY <1>4 DEF CheckLoops
  <1>6. at = 0 /\ CommandsBack(0) /\ FlagUp(aux)
    BY <1>1 DEF Going, LoadProgress, Restoring
  <1>7. 0 <= Len(Section(doc, "command"))
    BY EntryTypes DEF Going, Inv, LoaderInv
  <1> QED BY <1>1, <1>5, <1>6, <1>7, StillBack

\* A command of the document, with the rules of the command it was written for.
LEMMA CommandAt ==
    ASSUME Going, phase \in {"command", "building"}, HasEntry("command")
    PROVE  \E k \in DOMAIN saved.commands :
                /\ Entry("command").name = saved.commands[k].name /\ saved.commands[k].name # ""
                /\ Entry("command").rules = RulesSaid(saved, saved.commands[k].rules)
                /\ RulesExportable(saved, saved.commands[k].rules)
  <1>1. LoaderTyped /\ Says(doc, saved) /\ Exportable(saved)
    BY AvpsAllBack DEF Going, Inv, LoaderInv
  <1>2. PICK k \in DOMAIN CommandSaid(saved) : Entry("command") = CommandSaid(saved)[k]
    BY <1>1, EntryOf
  <1>3. /\ k \in DOMAIN saved.commands /\ Entry("command").name = saved.commands[k].name
        /\ Entry("command").rules = RulesSaid(saved, saved.commands[k].rules)
    BY <1>2 DEF CommandSaid
  <1>4. saved.commands[k].name # "" /\ RulesExportable(saved, saved.commands[k].rules)
    BY <1>1, <1>3 DEF Exportable, CommandsExportable
  <1> QED BY <1>3, <1>4

LEMMA CommandEntryBack ==
    ASSUME Going, UNCHANGED saved, CommandEntry
    PROVE  Restoring'
  <1>1. phase = "command" /\ HasEntry("command")
    BY DEF CommandEntry
  <1>2. Entry("command").name # ""
    BY <1>1, CommandAt
  <1>3. phase' = "building" /\ UNCHANGED catalogue /\ UNCHANGED <<doc, at, aux>>
    BY <1>2 DEF CommandEntry
  <1>4. at <= Len(Section(doc, "command")) /\ CommandsBack(at) /\ FlagUp(aux)
    BY <1>1 DEF Going, Restoring
  <1> QED BY <1>1, <1>3, <1>4, StillBack

LEMMA CommandRuleBack ==
    ASSUME Going, UNCHANGED saved, CommandRule
    PROVE  Restoring'
  <1> DEFINE c == Entry("command")
             r == c.rules[nth + 1]
  <1>1. /\ phase = "building" /\ HasEntry("command") /\ nth \in Nat /\ nth < Len(c.rules)
        /\ c \in CommandDefs
    BY EntryTypes DEF CommandRule, Going, Inv, LoaderInv, LoaderTyped
  <1>2. PICK k \in DOMAIN saved.commands :
            /\ c.rules = RulesSaid(saved, saved.commands[k].rules)
            /\ RulesExportable(saved, saved.commands[k].rules)
    BY <1>1, CommandAt
  <1> DEFINE rules == saved.commands[k].rules
  <1>3. nth + 1 \in DOMAIN rules /\ \A j \in 1..nth : j \in DOMAIN rules
    <2>1. DOMAIN c.rules = DOMAIN rules
      BY <1>2 DEF RulesSaid
    <2>2. c.rules \in Seq(RuleDefs)
      BY <1>1 DEF CommandDefs
    <2>3. DOMAIN c.rules = 1..Len(c.rules) /\ Len(c.rules) \in Nat
      BY <2>2
    <2> QED BY <1>1, <2>1, <2>3
  <1>4. AvpsLead
    BY <1>1, AvpsAllBack
  <1>5. aux.rules = FirstRules(c, nth) /\ aux \in Levels /\ FlagUp(aux)
    BY <1>1 DEF Going, LoadProgress, Inv, LoaderInv, LoaderTyped, Restoring
  <1>6. RulesExportable(saved, rules) /\ c.rules = RulesSaid(saved, rules)
    BY <1>2
  <1> HIDE DEF rules
  <1>7. \A j \in DOMAIN rules : RuleAccepted(c.rules[j]) /\ RuleOf(c.rules[j]) = rules[j]
    BY <1>4, <1>6, RuleBack
  <1>8. aux.rules = [j \in 1..nth |-> rules[j]]
    BY <1>3, <1>5, <1>7 DEF FirstRules
  <1>9. RuleFits(aux, rules[nth + 1]) /\ FlagUp(WithRule(aux, rules[nth + 1]))
    BY <1>1, <1>3, <1>5, <1>6, <1>8, RuleFitsAgain
  <1>10. RuleAccepted(r) /\ RuleOf(r) = rules[nth + 1]
    BY <1>3, <1>7
  <1>11. /\ aux' = WithRule(aux, rules[nth + 1]) /\ phase' = "building"
         /\ UNCHANGED catalogue /\ UNCHANGED <<doc, at>>
    BY <1>9, <1>10 DEF CommandRule
  <1>12. at <= Len(Section(doc, "command")) /\ CommandsBack(at) /\ FlagUp(aux')
    BY <1>1, <1>9, <1>11 DEF Going, Restoring
  <1> QED BY <1>1, <1>11, <1>12, StillBack

LEMMA AddCommandBack ==
    ASSUME Going, UNCHANGED saved, AddCommand
    PROVE  Restoring'
  <1> DEFINE s == Section(doc, "command")
             c == Entry("command")
             nf == Len(Section(doc, "format"))
             nv == Len(Section(doc, "vendor"))
             na == Len(Section(doc, "avp"))
  <1>1. /\ phase = "building" /\ HasEntry("command") /\ at \in Nat /\ Len(s) \in Nat
    BY EntryTypes DEF AddCommand, Going, Inv, LoaderInv, LoaderTyped
  <1>2. at + 1 <= Len(s) /\ c = s[at + 1] /\ 1..(at + 1) = 1..at \cup {at + 1}
    BY <1>1 DEF HasEntry, Entry
  <1>3. /\ commands' = Put(commands, CommandIdOf(c), [name |-> c.name, level |-> aux])
        /\ phase' = "command" /\ at' = at + 1 /\ aux' = EmptyLevel
        /\ UNCHANGED <<formats, vendors, avps, vendorNames, avpNames, doc>>
    BY DEF AddCommand
  <1>4. /\ Says(doc, saved) /\ FormatsBack(nf) /\ VendorsBack(nv) /\ AvpsBack(na)
        /\ CommandsBack(at)
    BY <1>1 DEF Going, Restoring
  <1>5. /\ Says(doc, saved)' /\ FormatsBack(nf)' /\ VendorsBack(nv)' /\ AvpsBack(na)'
        /\ UNCHANGED <<nf, nv, na, s>>
    BY <1>3, <1>4, BackKept
  <1>6. FlagUp(aux)'
    BY <1>3, FirstTables DEF FlagUp
  <1>7. CommandsBack(at)'
    <2>1. DOMAIN commands' = DOMAIN commands \cup {CommandIdOf(c)}
      BY <1>3 DEF Put
    <2>2. {CommandIdOf(s[i]) : i \in 1..(at + 1)} =
                {CommandIdOf(s[i]) : i \in 1..at} \cup {CommandIdOf(c)}
      BY <1>2
    <2>3. DOMAIN commands' = {CommandIdOf(s[i]) : i \in 1..(at + 1)}
      BY <1>4, <2>1, <2>2 DEF CommandsBack
    <2> QED BY <1>3, <1>5, <2>3 DEF CommandsBack
  <1> QED BY <1>2, <1>3, <1>5, <1>6, <1>7 DEF Restoring

\* At the end the commands are back as well, so everything is.
LEMMA CommandsDoneBack ==
    ASSUME Going, UNCHANGED saved, CommandsDone
    PROVE  Restoring'
  <1> DEFINE s == Section(doc, "command")
             n == Len(s)
             entry == CommandSaid(saved)
  <1>1. /\ phase = "command" /\ at \in Nat /\ n \in Nat /\ at = n
        /\ LoaderTyped /\ TablesTyped /\ TablesInv
    <2>1. phase = "command" /\ at \in Nat /\ n \in Nat /\ ~(at < n) /\ at <= n
      BY EntryTypes DEF CommandsDone, HasEntry, Going, Inv, LoaderInv, LoaderTyped, Restoring
    <2> QED BY <2>1 DEF Going, Inv, TablesInv, LoaderInv
  <1>2. /\ Says(doc, saved) /\ Exportable(saved) /\ VendorsLead /\ AvpsLead
        /\ DOMAIN avps = DOMAIN saved.avps
        /\ \A k \in DOMAIN avps :
             /\ avps[k].name = saved.avps[k].name /\ avps[k].vBit = saved.avps[k].vBit
             /\ avps[k].format = saved.avps[k].format
             /\ avps[k].vendorName = saved.avps[k].vendorName
             /\ avps[k].level.rules = saved.avps[k].rules
    BY <1>1, AvpsAllBack
  <1>3. /\ DOMAIN formats = DOMAIN saved.formats /\ DOMAIN vendors = DOMAIN saved.vendors
        /\ \A f \in DOMAIN formats : formats[f] = saved.formats[f]
        /\ \A code \in DOMAIN vendors : vendors[code] = saved.vendors[code]
    BY <1>1, <1>2, FormatsAllBack, VendorsAllBack DEF Going, Restoring
  <1>4. CommandsDistinct(n) /\ CommandsPlaced(n) /\ CommandsBack(n)
    <2>1. n \in 0..n
      BY <1>1
    <2>2. CommandsDistinct(n)
      BY <1>1, <1>2, <2>1, DocumentDistinct
    <2> QED BY <1>1, <2>2 DEF Going, LoadProgress, Restoring
  <1>5. /\ \A i \in 1..n : \E k \in DOMAIN entry : s[i] = entry[k]
        /\ \A k \in DOMAIN entry : \E i \in 1..n : s[i] = entry[k]
        /\ DOMAIN entry = DOMAIN saved.commands
    BY <1>2 DEF Says, Lists, CommandSaid
  <1>6. ASSUME NEW k \in DOMAIN entry
        PROVE  /\ CommandIdOf(entry[k]) = k /\ entry[k].name = saved.commands[k].name
               /\ [j \in DOMAIN entry[k].rules |-> RuleOf(entry[k].rules[j])]
                        = saved.commands[k].rules
    <2> DEFINE rules == saved.commands[k].rules
    <2>1. /\ entry[k].name = saved.commands[k].name /\ entry[k].rules = RulesSaid(saved, rules)
          /\ entry[k].code = k[1] /\ entry[k].request = k[2]
      BY <1>5 DEF CommandSaid
    <2>2. k \in CommandIds /\ RulesExportable(saved, rules)
      BY <1>2, <1>5 DEF Exportable, CommandsExportable
    <2>3. CommandIdOf(entry[k]) = k
      BY <2>1, <2>2 DEF CommandIdOf, CommandIds
    <2>4. rules \in Seq(Rules)
      BY <2>2 DEF RulesExportable
    <2>5. DOMAIN entry[k].rules = DOMAIN rules
      BY <2>1 DEF RulesSaid
    <2> HIDE DEF rules, entry
    <2>6. \A j \in DOMAIN rules : RuleOf(entry[k].rules[j]) = rules[j]
      BY <1>2, <2>1, <2>2, RuleBack
    <2>7. [j \in DOMAIN entry[k].rules |-> RuleOf(entry[k].rules[j])] = rules
      BY <2>4, <2>5, <2>6
    <2> QED BY <2>1, <2>3, <2>7 DEF rules
  <1> HIDE DEF entry
  <1>7. DOMAIN commands = DOMAIN saved.commands
    <2>1. DOMAIN commands = {CommandIdOf(s[i]) : i \in 1..n}
      BY <1>4 DEF CommandsBack
    <2>2. \A i \in 1..n : CommandIdOf(s[i]) \in DOMAIN entry
      <3> TAKE i \in 1..n
      <3>1. PICK k \in DOMAIN entry : s[i] = entry[k]
        BY <1>5
      <3> QED BY <1>6, <3>1
    <2>3. \A k \in DOMAIN entry : \E i \in 1..n : CommandIdOf(s[i]) = k
      BY <1>5, <1>6
    <2>4. DOMAIN entry = DOMAIN saved.commands
      BY <1>5
    <2> HIDE DEF s, n
    <2>5. DOMAIN commands \subseteq DOMAIN entry
      BY ONLY <2>1, <2>2
    <2>6. DOMAIN entry \subseteq DOMAIN commands
      BY ONLY <2>1, <2>3
    <2> QED BY ONLY <2>4, <2>5, <2>6
  <1>8. ASSUME NEW k \in DOMAIN commands
        PROVE  /\ commands[k].name = saved.commands[k].name
               /\ commands[k].level.rules = saved.commands[k].rules
               /\ commandNames[commands[k].name] = k
    <2>1. PICK i \in 1..n : s[i] = entry[k]
      BY <1>5, <1>7
    <2>2. CommandAsDefined(s[i])
      BY <1>4 DEF CommandsPlaced
    <2>3. CommandIdOf(s[i]) = k /\ s[i].name = saved.commands[k].name
      BY <1>5, <1>6, <1>7, <2>1
    <2>4. [j \in DOMAIN s[i].rules |-> RuleOf(s[i].rules[j])] = saved.commands[k].rules
      BY <1>5, <1>6, <1>7, <2>1
    <2> QED BY <2>2, <2>3, <2>4 DEF CommandAsDefined
  <1>9. UNCHANGED <<catalogue, saved>> /\ phase' = "idle" /\ aux' = EmptyLevel
    BY DEF CommandsDone, EndLoad
  <1>10. NamesMatch
    <2>1. \A code \in DOMAIN vendors : vendorNames[vendors[code]] = code
      BY <1>2, <1>3 DEF VendorsLead
    <2>2. \A id \in DOMAIN avps :
            avpNames[avps[id].name] = id /\ (id[2] # 0 => vendors[id[2]] = avps[id].vendorName)
      <3> SUFFICES ASSUME NEW id \in DOMAIN avps
                   PROVE  /\ avpNames[avps[id].name] = id
                          /\ id[2] # 0 => vendors[id[2]] = avps[id].vendorName
        OBVIOUS
      <3>1. avpNames[avps[id].name] = id
        BY <1>2 DEF AvpsLead
      <3>2. id[2] # 0 => id[2] \in DOMAIN saved.vendors
                            /\ saved.vendors[id[2]] = saved.avps[id].vendorName
        BY <1>2 DEF Exportable, AvpsExportable, AvpExportable
      <3> QED BY <1>2, <1>3, <3>1, <3>2
    <2> QED BY <1>8, <2>1, <2>2 DEF NamesMatch
  <1>11. Contents = saved
    <2>1. /\ formats = [f \in DOMAIN formats |-> formats[f]]
          /\ vendors = [code \in DOMAIN vendors |-> vendors[code]]
      BY <1>1 DEF TablesTyped, IsTable
    <2>2. IsContents(saved)
      BY <1>2 DEF Exportable
    <2>3. formats = saved.formats
      BY <1>3, <2>1, <2>2 DEF IsContents
    <2>4. vendors = saved.vendors
      BY <1>3, <2>1, <2>2 DEF IsContents
    <2>5. \A id \in DOMAIN avps :
            (IF id[2] = 0 THEN "" ELSE avps[id].vendorName) = saved.avps[id].vendorName
      BY <1>2 DEF Exportable, AvpsExportable, AvpExportable
    <2>6. Contents.avps = saved.avps
      <3> DEFINE Said(id) == [name |-> saved.avps[id].name, vBit |-> saved.avps[id].vBit,
                              format |-> saved.avps[id].format,
                              vendorName |-> saved.avps[id].vendorName,
                              rules |-> saved.avps[id].rules]
      <3>1. Contents.avps = [id \in DOMAIN avps |->
                [name |-> avps[id].name, vBit |-> avps[id].vBit, format |-> avps[id].format,
                 vendorName |-> IF id[2] = 0 THEN "" ELSE avps[id].vendorName,
                 rules |-> avps[id].level.rules]]
        BY DEF Contents
      <3>2. Contents.avps = [id \in DOMAIN avps |-> Said(id)]
        BY <1>2, <2>5, <3>1
      <3>3. saved.avps = [id \in DOMAIN saved.avps |-> Said(id)]
        BY <2>2 DEF IsContents
      <3> HIDE DEF Said
      <3> QED BY <1>2, <3>2, <3>3
    <2>7. Contents.commands = saved.commands
      BY <1>7, <1>8, <2>2 DEF IsContents, Contents
    <2>8. Contents.formats = formats /\ Contents.vendors = vendors
      BY DEF Contents
    <2>9. Contents = [formats |-> Contents.formats, vendors |-> Contents.vendors,
                      avps |-> Contents.avps, commands |-> Contents.commands]
      BY DEF Contents
    <2> HIDE DEF Contents
    <2> QED BY <2>2, <2>3, <2>4, <2>6, <2>7, <2>8, <2>9 DEF IsContents
  <1>12. (Contents = saved /\ NamesMatch)'
    BY <1>9, <1>10, <1>11 DEF catalogue, Contents, NamesMatch
  <1>13. FlagUp(aux)'
    BY <1>9, FirstTables DEF FlagUp
  <1> QED BY <1>9, <1>12, <1>13 DEF Restoring

\* So no step of the load strays.
LEMMA LoadRestores ==
    ASSUME Going, UNCHANGED saved, LoadStep
    PROVE  Restoring'
  BY ExtractFormatBack, ExtractVendorBack, ExtractAvpBack, LoopsDoneBack, GroupedEntryBack,
     GroupedRuleBack, GroupedDoneBack, CheckLoopsBack, CommandEntryBack, CommandRuleBack,
     AddCommandBack, CommandsDoneBack
  DEF LoadStep

----------------------------------------------------------------------------
(* The steps of an export.                                                  *)

AtRest == phase = "idle" => at = 0

ExportInv == Inv /\ LoadProgress /\ EntriesInv /\ AtRest /\ RestoreInv

\* Tables that stay keep their part of the invariant.
LEMMA TablesKept ==
    ASSUME TablesInv, EntriesInv, UNCHANGED catalogue
    PROVE  TablesInv' /\ FirstEntries' /\ NamesGiven' /\ TablesFinite' /\ QualsInv'
  BY DEF catalogue, TablesInv, TablesTyped, ReferencesResolve, RulesResolve, SlotsAreNamed,
         LevelsInv, IsGrouped, VendorBitMatches, EntriesInv, FirstEntries, NamesGiven,
         TablesFinite, QualsInv

LEMMA AtRestStep ==
    ASSUME AtRest, [Next]_vars
    PROVE  AtRest'
  BY DEF AtRest, Next, LoadStep, Load, ExtractFormat, FormatsDone, ExtractVendor, VendorsDone,
         ExtractAvp, AvpsDone, GroupedEntry, GroupedRule, GroupedEntryDone, GroupedDone,
         CheckLoops, CommandEntry, CommandRule, AddCommand, CommandsDone, Clear, Restart,
         AddAvpRule, Undefined, Throw, EndLoad, EndLoop, Advance, loader, vars

\* A step of the dictionary itself keeps all but the last part.
LEMMA DictionaryStep ==
    ASSUME ExportInv, [Next]_vars
    PROVE  (Inv /\ LoadProgress /\ EntriesInv /\ AtRest)'
  BY TablesStep, LoaderStep, ProgressStep, EntriesStep, AtRestStep DEF ExportInv, Inv

\* The export itself: an empty dictionary, and the document of the other one.
LEMMA ExportStarts ==
    ASSUME ExportInv, Export, AsJsonDefined
    PROVE  ExportInv'
  <1>1. /\ Initialize /\ phase = "idle" /\ phase' = "format" /\ doc' = AsJson
        /\ UNCHANGED <<at, nth, target, aux>> /\ saved' = Contents /\ portable' = Portable
    BY DEF Export
  <1>2. Inv /\ EntriesInv /\ at = 0 /\ nth = 0 /\ aux = EmptyLevel /\ LoaderTyped
    BY <1>1 DEF ExportInv, AtRest, Inv, LoaderInv
  <1>3. IsDoc(AsJson) /\ Says(AsJson, Contents)
    BY <1>2, Written
  <1>4. TablesInv' /\ FirstEntries' /\ NamesGiven' /\ TablesFinite' /\ QualsInv'
    BY <1>1, Initialized, EntriesInitialized
  <1>5. LoaderInv'
    <2>1. LoaderTyped'
      BY <1>1, <1>2, <1>3 DEF LoaderTyped, Phases
    <2>2. (LevelOK(aux) /\ RulesResolve(aux))'
      BY <1>1, <1>2, EmptyLevelOK DEF RulesResolve, EmptyLevel
    <2> QED BY <1>1, <1>2, <2>1, <2>2 DEF LoaderInv
  <1>6. BuildingInv'
    BY <1>1, <1>2, FirstTables DEF BuildingInv, QualsAccepted
  <1>7. LoadProgress' /\ AtRest'
    BY <1>1, NoProgress DEF AtRest
  <1>8. ASSUME Portable PROVE Exportable(saved)' /\ Restoring'
    <2>1. Exportable(Contents)
      BY <1>2, <1>8, PortableIsExportable
    <2>2. 1..0 = {}
      OBVIOUS
    <2>3. FormatsBack(0)'
      <3>1. formats' = HardcodedFormats
        BY <1>1 DEF Initialize
      <3>2. \A f \in DOMAIN HardcodedFormats : Contents.formats[f] = HardcodedFormats[f]
        BY <2>1 DEF Exportable, FormatsExportable
      <3> QED BY <1>1, <2>2, <3>1, <3>2 DEF FormatsBack
    <2>4. VendorsBack(0)' /\ CommandsBack(0)'
      <3>1. DOMAIN vendors' = {} /\ DOMAIN commands' = {}
        BY <1>1 DEF Initialize, EmptyTable
      <3> QED BY <2>2, <3>1 DEF VendorsBack, CommandsBack
    <2>5. AvpsBack(0)'
      <3>1. /\ DOMAIN avps' = {GenericId} /\ avps'[GenericId] = GenericAvp
            /\ DOMAIN avpNames' = {"AVP"} /\ avpNames'["AVP"] = GenericId
        BY <1>1 DEF Initialize
      <3>2. \A id \in DOMAIN avps' : FlagUp(avps'[id].level)
        BY <3>1, FirstTables DEF FlagUp
      <3> QED BY <2>2, <3>1, <3>2 DEF AvpsBack, FlagUp
    <2>6. FlagUp(aux)' /\ at' = 0 /\ phase' = "format"
      BY <1>1, <1>2, FirstTables DEF FlagUp
    <2>7. 0 <= Len(Section(AsJson, "format"))
      BY <1>3 DEF IsDoc
    <2>8. Restoring'
      <3>1. FormatsBack(at)'
        BY <2>3, <2>6 DEF FormatsBack
      <3>2. Says(doc, saved)' /\ at' <= Len(Section(doc, "format"))'
        BY <1>1, <1>3, <2>6, <2>7
      <3> QED BY <2>4, <2>5, <2>6, <3>1, <3>2 DEF Restoring
    <2> QED BY <1>1, <2>1, <2>8
  <1> QED BY <1>1, <1>4, <1>5, <1>6, <1>7, <1>8 DEF ExportInv, Inv, EntriesInv, RestoreInv

\* asJson on a rule of no known presence: nothing is exported.
LEMMA ExportFails ==
    ASSUME ExportInv, Export, ~AsJsonDefined
    PROVE  ExportInv'
  <1>1. /\ phase = "idle" /\ ~reloading /\ UNCHANGED exporter /\ UNCHANGED catalogue
        /\ EndLoad \/ (phase' = "dead" /\ UNCHANGED <<doc, at, nth, target, aux>>)
    BY DEF Export, Undefined, Throw
  <1>2. TablesInv' /\ FirstEntries' /\ NamesGiven' /\ TablesFinite' /\ QualsInv'
    BY <1>1, TablesKept DEF ExportInv, Inv
  <1>3. LoaderInv'
    <2>1. CASE EndLoad
      BY <2>1, LoadEnded
    <2>2. CASE phase' = "dead" /\ UNCHANGED <<doc, at, nth, target, aux>>
      <3>1. LoaderTyped' /\ aux' = EmptyLevel /\ nth' = 0
        BY <1>1, <2>2 DEF ExportInv, Inv, LoaderInv, LoaderTyped, Phases
      <3>2. (LevelOK(aux) /\ RulesResolve(aux))'
        BY <3>1, EmptyLevelOK DEF RulesResolve, EmptyLevel
      <3> QED BY <2>2, <3>1, <3>2 DEF LoaderInv
    <2> QED BY <1>1, <2>1, <2>2
  <1>4. BuildingInv' /\ AtRest'
    <2>1. phase' \in {"idle", "dead"} /\ aux' = EmptyLevel /\ at' = 0
      BY <1>1 DEF EndLoad, ExportInv, Inv, LoaderInv, AtRest
    <2> QED BY <2>1, FirstTables DEF BuildingInv, AtRest, QualsAccepted
  <1>5. LoadProgress'
    BY <1>1, NoProgress DEF EndLoad
  <1>6. RestoreInv'
    BY <1>1 DEF exporter, RestoreInv
  <1> QED BY <1>2, <1>3, <1>4, <1>5, <1>6 DEF ExportInv, Inv, EntriesInv

\* Nor does a load stray while it waits.
LEMMA StutterBack ==
    ASSUME Going, UNCHANGED <<phase, doc, at, aux, saved>>, UNCHANGED catalogue
    PROVE  Restoring'
  <1> DEFINE nf == Len(Section(doc, "format"))
             nv == Len(Section(doc, "vendor"))
             na == Len(Section(doc, "avp"))
  <1>1. UNCHANGED <<formats, vendors, vendorNames, avps, avpNames, commands, commandNames>>
    BY DEF catalogue
  <1>2. /\ FlagUp(aux) /\ phase # "dead" /\ phase \in Phases
        /\ phase # "idle" => Says(doc, saved)
    BY DEF Going, Restoring, Inv, LoaderInv, LoaderTyped
  <1>3. /\ FlagUp(aux)' /\ phase' # "dead" /\ UNCHANGED <<nf, nv, na>>
        /\ phase' # "idle" => Says(doc, saved)'
    BY <1>2, BackKept DEF FlagUp
  <1>4. CASE phase = "idle"
    <2>1. Contents = saved /\ NamesMatch
      BY <1>4 DEF Going, Restoring
    <2>2. (Contents = saved /\ NamesMatch)'
      BY <1>1, <2>1 DEF Contents, NamesMatch
    <2> QED BY <1>3, <1>4, <2>2 DEF Restoring
  <1>5. CASE phase = "format"
    <2>1. at <= nf /\ FormatsBack(at) /\ VendorsBack(0) /\ AvpsBack(0) /\ CommandsBack(0)
      BY <1>5 DEF Going, Restoring
    <2>2. VendorsBack(0)' /\ AvpsBack(0)' /\ CommandsBack(0)' /\ at' <= nf'
      BY <1>1, <1>3, <2>1, BackKept
    <2>3. FormatsBack(at)'
      BY <1>1, <2>1 DEF FormatsBack, Section
    <2> QED BY <1>3, <1>5, <2>2, <2>3 DEF Restoring
  <1>6. CASE phase = "vendor"
    <2>1. at <= nv /\ FormatsBack(nf) /\ VendorsBack(at) /\ AvpsBack(0) /\ CommandsBack(0)
      BY <1>6 DEF Going, Restoring
    <2>2. FormatsBack(nf)' /\ AvpsBack(0)' /\ CommandsBack(0)' /\ at' <= nv'
      BY <1>1, <1>3, <2>1, BackKept
    <2>3. VendorsBack(at)'
      BY <1>1, <2>1 DEF VendorsBack, Section
    <2> QED BY <1>3, <1>6, <2>2, <2>3 DEF Restoring
  <1>7. CASE phase = "avp"
    <2>1. FormatsBack(nf) /\ VendorsBack(nv) /\ AvpsBack(at) /\ CommandsBack(0)
      BY <1>7 DEF Going, Restoring
    <2>2. FormatsBack(nf)' /\ VendorsBack(nv)' /\ CommandsBack(0)'
      BY <1>1, <1>3, <2>1, BackKept
    <2>3. AvpsBack(at)'
      BY <1>1, <2>1 DEF AvpsBack, Section, IdOf, VendorCode
    <2> QED BY <1>3, <1>7, <2>2, <2>3 DEF Restoring
  <1>8. CASE phase \in {"grouped", "rule", "loops", "command", "building"}
    <2>1. phase \in {"command", "building"} =>
            at <= Len(Section(doc, "command")) /\ CommandsBack(at)
      BY DEF Going, Restoring
    <2>2. FlagUp(aux')
      BY <1>2
    <2> QED BY <1>8, <2>1, <2>2, StillBack
  <1> QED BY <1>2, <1>4, <1>5, <1>6, <1>7, <1>8 DEF Phases

LEMMA ExportStep ==
    ASSUME ExportInv, [ExportNext]_<<vars, exporter>>
    PROVE  ExportInv'
  <1>1. CASE ~reloading /\ Next /\ UNCHANGED exporter
    <2>1. (Inv /\ LoadProgress /\ EntriesInv /\ AtRest)'
      BY <1>1, DictionaryStep
    <2> QED BY <1>1, <2>1 DEF ExportInv, RestoreInv, exporter
  <1>2. CASE Export
    BY <1>2, ExportStarts, ExportFails
  <1>3. CASE Reload
    <2>1. LoadStep /\ UNCHANGED <<reloading, saved, portable>>
      BY <1>3 DEF Reload, exporter
    <2>2. (Inv /\ LoadProgress /\ EntriesInv /\ AtRest)'
      BY <2>1, DictionaryStep DEF Next
    <2>3. ASSUME reloading, portable PROVE Exportable(saved)' /\ Restoring'
      <3>1. Going
        BY <2>3 DEF ExportInv, RestoreInv, Going
      <3>2. Restoring'
        BY <2>1, <3>1, LoadRestores
      <3> QED BY <2>1, <3>1, <3>2 DEF Going
    <2> QED BY <2>1, <2>2, <2>3 DEF ExportInv, RestoreInv
  <1>4. CASE Resume
    <2>1. UNCHANGED vars /\ ~reloading'
      BY <1>4 DEF Resume
    <2> QED BY <2>1, DictionaryStep DEF ExportInv, RestoreInv
  <1>5. CASE UNCHANGED <<vars, exporter>>
    <2>1. UNCHANGED vars /\ UNCHANGED exporter
      BY <1>5
    <2>2. UNCHANGED <<reloading, saved, portable>>
      BY <2>1 DEF exporter
    <2>3. UNCHANGED <<catalogue, phase, doc, at, aux>>
      BY <2>1 DEF vars, catalogue
    <2>4. ASSUME reloading, portable PROVE Exportable(saved)' /\ Restoring'
      <3>1. Going
        BY <2>4 DEF ExportInv, RestoreInv, Going
      <3> QED BY <2>2, <2>3, <3>1, StutterBack DEF Going
    <2> QED BY <2>1, <2>2, <2>4, DictionaryStep DEF ExportInv, RestoreInv
  <1> QED BY <1>1, <1>2, <1>3, <1>4, <1>5 DEF ExportNext

LEMMA ExportInvariance == ExportSpec => []ExportInv
  <1>1. ExportInit => ExportInv
    <2> SUFFICES ASSUME ExportInit PROVE ExportInv
      OBVIOUS
    <2>1. Init /\ ~reloading
      BY DEF ExportInit
    <2>2. TablesInv /\ EntriesInv
      BY <2>1, Initialized, EntriesInitialized
    <2>3. LoaderInv
      <3>1. /\ phase = "idle" /\ doc = EmptyTable /\ at = 0 /\ nth = 0 /\ target = GenericId
            /\ aux = EmptyLevel
        BY <2>1 DEF Init
      <3>2. LoaderTyped
        BY <3>1, EmptyLevelOK, NoDocument DEF LoaderTyped, Phases, GenericId, AvpIds
      <3>3. LevelOK(aux) /\ RulesResolve(aux)
        BY <3>1, EmptyLevelOK DEF RulesResolve, EmptyLevel
      <3> QED BY <3>1, <3>2, <3>3 DEF LoaderInv
    <2>4. LoadProgress /\ AtRest
      BY <2>1 DEF Init, LoadProgress, AtRest
    <2> QED BY <2>1, <2>2, <2>3, <2>4 DEF ExportInv, Inv, RestoreInv
  <1>2. ExportInv /\ [ExportNext]_<<vars, exporter>> => ExportInv'
    BY ExportStep
  <1> QED BY <1>1, <1>2, PTL DEF ExportSpec

\* A portable dictionary is restored by its own document: the reload neither
\* fails nor dies, every entry is under its key with the rules it had, and no
\* name leads elsewhere.
THEOREM ExportAlwaysRestores == ExportSpec => []ExportRestores
  <1>1. ExportInv => ExportRestores
    BY DEF ExportInv, RestoreInv, Restoring, ExportRestores
  <1> QED BY <1>1, ExportInvariance, PTL
=============================================================================
