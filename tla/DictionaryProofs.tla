-------------------------- MODULE DictionaryProofs --------------------------
(* What holds of the dictionary for every set of names and documents: its    *)
(* type invariant, the invariants and action properties of Dictionary, that  *)
(* it implements Catalogue, and that a load leaves what its document says.   *)
(*                                                                           *)
(* A step of the loader does one of seven things to the tables (StepCases).  *)
(* The invariant of the tables is preserved by each of the seven, and that   *)
(* of the loader's locals by each action, so the actions are visited twice   *)
(* only, whatever the number of properties.                                  *)
EXTENDS Dictionary, TLAPS, SequenceTheorems

LevelOK(level) == FixedFirst(level) /\ OneRulePerAvp(level) /\ FlagMeansAllFixed(level)

LevelsInv ==
    /\ \A id \in DOMAIN avps :
        LevelOK(avps[id].level) /\ (avps[id].level.rules # <<>> => IsGrouped(id))
    /\ \A c \in DOMAIN commands : LevelOK(commands[c].level)

TablesInv ==
    /\ TablesTyped /\ ReferencesResolve /\ SlotsAreNamed /\ LevelsInv /\ VendorBitMatches
    /\ "Grouped" \in DOMAIN formats

\* The first n AVPs of the document are in the index, under ids it defines.
Visited(n) ==
    \A i \in 1..n :
        /\ Section(doc, "avp")[i].name \in DOMAIN avpNames
        /\ \E j \in 1..n : Defines(Section(doc, "avp")[j], avpNames[Section(doc, "avp")[i].name])

LoaderInv ==
    /\ LoaderTyped
    /\ phase = "avp" => at <= Len(Section(doc, "avp")) /\ Visited(at)
    /\ phase \in {"grouped", "rule"} => Visited(Len(Section(doc, "avp")))
    /\ phase = "rule" =>
        /\ HasEntry("avp") /\ Entry("avp").rules \in Seq(RuleDefs)
        /\ target = avpNames[Entry("avp").name] /\ IsGrouped(target)
    /\ phase = "building" => HasEntry("command") /\ nth = Len(aux.rules)
    /\ phase # "building" => aux = EmptyLevel
    /\ phase \notin {"rule", "building"} => nth = 0
    /\ LevelOK(aux) /\ RulesResolve(aux)

Inv == TablesInv /\ LoaderInv

----------------------------------------------------------------------------
(* Lemmas about the operators.                                              *)

\* An entry of a document's section is a definition of that section's kind.
LEMMA EntryTypes ==
    ASSUME LoaderTyped
    PROVE  /\ HasEntry("format") => Entry("format") \in FormatDefs
           /\ HasEntry("vendor") => Entry("vendor") \in VendorDefs
           /\ HasEntry("avp") => Entry("avp") \in AvpDefs
           /\ HasEntry("command") => Entry("command") \in CommandDefs
           /\ Section(doc, "avp") \in Seq(AvpDefs)
           /\ Section(doc, "command") \in Seq(CommandDefs)
  <1>1. IsDoc(doc)
    BY DEF LoaderTyped
  <1>2. \A S, s : s \in Seq(S) /\ at < Len(s) => s[at + 1] \in S
    BY DEF LoaderTyped
  <1> QED
    <2>1. /\ Section(doc, "format") \in Seq(FormatDefs)
          /\ Section(doc, "vendor") \in Seq(VendorDefs)
          /\ Section(doc, "avp") \in Seq(AvpDefs)
          /\ Section(doc, "command") \in Seq(CommandDefs)
      BY <1>1 DEF IsDoc
    <2> HIDE DEF FormatDefs, VendorDefs, AvpDefs, CommandDefs
    <2> QED BY <1>2, <2>1 DEF HasEntry, Entry

\* The document between loads, and the qualifier of the rules the application adds.
LEMMA NoDocument == IsDoc(EmptyTable) /\ NoQual \in Qualifiers
  <1>1. NoQual \in Seq(Nat \cup {Blank}) /\ NoQual # <<>>
    BY DEF NoQual, Blank
  <1> QED BY <1>1 DEF IsDoc, Section, EmptyTable, Qualifiers

\* A rule of a document whose name and qualifier pass is a rule of the tables.
LEMMA RuleTypes ==
    ASSUME TablesTyped, NEW r \in RuleDefs, RuleAccepted(r)
    PROVE  RuleOf(r) \in Rules /\ RuleOf(r).avp = avpNames[r.name]
  BY DEF TablesTyped, IsTable, RuleAccepted, RuleOf, Rules, RuleDefs, AsPresence, Presences

\* Adding a rule, or refusing it, gives a level.
LEMMA LevelTypes ==
    ASSUME NEW level \in Levels, NEW rule \in Rules
    PROVE  /\ WithRule(level, rule) \in Levels
           /\ AfterRefusal(level, rule) \in Levels
           /\ Len(WithRule(level, rule).rules) = Len(level.rules) + 1
  <1>1. IsFixed(rule) \in BOOLEAN BY DEF IsFixed
  <1> HIDE DEF IsFixed
  <1>2. Append(level.rules, rule) \in Seq(Rules) BY DEF Levels
  <1>3. WithRule(level, rule) \in Levels BY <1>1, <1>2 DEF WithRule, Levels
  <1>4. AfterRefusal(level, rule) \in Levels BY <1>1 DEF AfterRefusal, Levels
  <1>5. Len(WithRule(level, rule).rules) = Len(level.rules) + 1 BY DEF WithRule, Levels
  <1> QED BY <1>3, <1>4, <1>5

\* addAvpRule keeps fixed rules first and AVPs apart, whether it accepts a
\* rule or throws; and the rules it leaves are the old ones and the new one.
LEMMA LevelOrder ==
    ASSUME NEW level \in Levels, NEW rule \in Rules, LevelOK(level)
    PROVE  /\ RuleFits(level, rule) => LevelOK(WithRule(level, rule))
           /\ LevelOK(AfterRefusal(level, rule))
           /\ AfterRefusal(level, rule).rules = level.rules
           /\ \A i \in DOMAIN WithRule(level, rule).rules :
                \/ WithRule(level, rule).rules[i] = rule
                \/ /\ i \in DOMAIN level.rules
                   /\ WithRule(level, rule).rules[i] = level.rules[i]
  <1> DEFINE new == WithRule(level, rule)
  <1>1. /\ DOMAIN new.rules = 1..(Len(level.rules) + 1)
        /\ DOMAIN level.rules = 1..Len(level.rules)
        /\ Len(level.rules) \in Nat
        /\ \A i \in DOMAIN level.rules : new.rules[i] = level.rules[i]
        /\ new.rules[Len(level.rules) + 1] = rule
    BY DEF WithRule, Levels
  <1>2. ASSUME RuleFits(level, rule) PROVE LevelOK(new)
    <2>1. FixedFirst(new)
      BY <1>1, <1>2 DEF FixedFirst, LevelOK, RuleFits, FlagMeansAllFixed
    <2>2. OneRulePerAvp(new)
      <3>1. SUFFICES ASSUME NEW i \in DOMAIN new.rules, NEW j \in DOMAIN new.rules,
                            new.rules[i].avp = new.rules[j].avp
                     PROVE  i = j
        BY DEF OneRulePerAvp
      <3>2. \A k \in DOMAIN level.rules : level.rules[k].avp # rule.avp
        BY <1>2 DEF RuleFits, IsChild
      <3>3. OneRulePerAvp(level)
        BY DEF LevelOK
      <3>4. /\ i \in DOMAIN level.rules \/ i = Len(level.rules) + 1
            /\ j \in DOMAIN level.rules \/ j = Len(level.rules) + 1
        BY <1>1
      <3>5. CASE i \in DOMAIN level.rules /\ j \in DOMAIN level.rules
        <4>1. level.rules[i].avp = level.rules[j].avp
          BY <1>1, <3>1, <3>5
        <4> QED BY <3>3, <3>5, <4>1 DEF OneRulePerAvp
      <3>6. CASE i \in DOMAIN level.rules /\ j = Len(level.rules) + 1
        BY <1>1, <3>1, <3>2, <3>6
      <3>7. CASE i = Len(level.rules) + 1 /\ j \in DOMAIN level.rules
        BY <1>1, <3>1, <3>2, <3>7
      <3> QED BY <3>4, <3>5, <3>6, <3>7
    <2>3. FlagMeansAllFixed(new)
      <3>1. new.allowFixed => level.allowFixed /\ IsFixed(rule)
        BY DEF WithRule
      <3> QED BY <1>1, <3>1 DEF FlagMeansAllFixed, LevelOK
    <2> QED BY <2>1, <2>2, <2>3 DEF LevelOK
  <1>3. LevelOK(AfterRefusal(level, rule)) /\ AfterRefusal(level, rule).rules = level.rules
    <2>1. AfterRefusal(level, rule).rules = level.rules
      BY DEF AfterRefusal, Levels
    <2>2. AfterRefusal(level, rule).allowFixed => level.allowFixed
      BY DEF AfterRefusal, Levels
    <2> QED BY <2>1, <2>2 DEF LevelOK, FixedFirst, OneRulePerAvp, FlagMeansAllFixed
  <1>4. \A i \in DOMAIN new.rules :
            new.rules[i] = rule \/ (i \in DOMAIN level.rules /\ new.rules[i] = level.rules[i])
    BY <1>1
  <1> QED BY <1>2, <1>3, <1>4

----------------------------------------------------------------------------
(* What a step may do to the tables.                                        *)

PutsFormat ==
    /\ \E n \in Names \ ({""} \cup ReservedTypes), p \in Names : formats' = Put(formats, n, p)
    /\ UNCHANGED <<vendors, avps, commands, vendorNames, avpNames, commandNames>>

PutsVendor ==
    /\ \E c \in Nat, n \in Names \ {""} :
        vendors' = Put(vendors, c, n) /\ vendorNames' = Put(vendorNames, n, c)
    /\ UNCHANGED <<formats, avps, commands, avpNames, commandNames>>

PutsAvp ==
    /\ \E id \in AvpIds, n \in Names \ {""}, vn \in Names, v \in BOOLEAN, f \in DOMAIN formats :
        /\ v <=> id[2] # 0
        /\ id[2] # 0 => id[2] \in DOMAIN vendors
        /\ avps' = Put(avps, id, [name |-> n, vBit |-> v, vendorName |-> vn, format |-> f,
                                  level |-> EmptyLevel])
        /\ avpNames' = Put(avpNames, n, id)
    /\ UNCHANGED <<formats, vendors, commands, vendorNames, commandNames>>

SetsLevel ==
    /\ \E id \in DOMAIN avps, level \in Levels :
        /\ IsGrouped(id) /\ LevelOK(level) /\ RulesResolve(level)
        /\ \/ level.rules = avps[id].level.rules
           \/ \E rule \in Rules :
                QualAccepted(rule.qual) /\ level.rules = Append(avps[id].level.rules, rule)
        /\ avps' = [avps EXCEPT ![id].level = level]
    /\ UNCHANGED <<formats, vendors, commands, vendorNames, avpNames, commandNames>>

PutsCommand ==
    /\ phase = "building"
    /\ \E id \in CommandIds, n \in Names :
        /\ n = Entry("command").name
        /\ commands' = Put(commands, id, [name |-> n, level |-> aux])
        /\ commandNames' = Put(commandNames, n, id)
    /\ UNCHANGED <<formats, vendors, avps, vendorNames, avpNames>>

\* Adding an accepted rule to a level of resolving rules, or refusing it.
LEMMA RuleAdded ==
    ASSUME TablesInv, NEW level \in Levels, NEW rule \in Rules,
           LevelOK(level), RulesResolve(level), rule.avp \in DOMAIN avps
    PROVE  /\ WithRule(level, rule).rules = Append(level.rules, rule)
           /\ AfterRefusal(level, rule).rules = level.rules
           /\ RuleFits(level, rule) =>
                LevelOK(WithRule(level, rule)) /\ RulesResolve(WithRule(level, rule))
           /\ LevelOK(AfterRefusal(level, rule)) /\ RulesResolve(AfterRefusal(level, rule))
  <1>1. LevelOK(AfterRefusal(level, rule)) /\ RulesResolve(AfterRefusal(level, rule))
    BY LevelOrder DEF RulesResolve
  <1>2. RulesResolve(WithRule(level, rule))
    BY LevelOrder DEF RulesResolve
  <1>3. WithRule(level, rule).rules = Append(level.rules, rule)
    BY DEF WithRule
  <1> QED BY <1>1, <1>2, <1>3, LevelOrder

\* The level of an AVP of the dictionary is what RuleAdded asks for.
LEMMA SlotLevel ==
    ASSUME TablesInv, NEW id \in DOMAIN avps
    PROVE  /\ avps[id].level \in Levels /\ LevelOK(avps[id].level)
           /\ RulesResolve(avps[id].level) /\ id \in AvpIds
  BY DEF TablesInv, TablesTyped, IsTable, AvpSlots, LevelsInv, ReferencesResolve

\* Every step does one of seven things to the tables.
LEMMA StepCases ==
    ASSUME Inv, [Next]_vars
    PROVE  \/ UNCHANGED catalogue
           \/ PutsFormat \/ PutsVendor \/ PutsAvp \/ SetsLevel \/ PutsCommand
           \/ Clear \/ Restart
  <1> USE DEF Inv
  <1>1. CASE UNCHANGED vars
    BY <1>1 DEF vars, catalogue
  <1>2. CASE \E d \in Docs : Load(d)
    BY <1>2 DEF Load
  <1>3. CASE ExtractFormat
    <2> DEFINE f == Entry("format")
    <2>1. f \in FormatDefs
      BY <1>3, EntryTypes DEF ExtractFormat, LoaderInv
    <2>2. CASE f.name # "" /\ f.parent = Absent
      BY <1>3, <2>2 DEF ExtractFormat, Undefined, Throw
    <2>3. CASE ~(f.name # "" /\ f.parent = Absent) /\ ~FormatAccepted(f)
      BY <1>3, <2>3 DEF ExtractFormat, Throw
    <2>4. CASE ~(f.name # "" /\ f.parent = Absent) /\ FormatAccepted(f)
      <3>1. f.name \in Names \ ({""} \cup ReservedTypes) /\ f.parent \in Names
        BY <2>1, <2>4 DEF FormatDefs, FormatAccepted
      <3>2. /\ formats' = Put(formats, f.name, f.parent)
            /\ UNCHANGED <<vendors, avps, commands, vendorNames, avpNames, commandNames>>
        BY <1>3, <2>4 DEF ExtractFormat
      <3> QED BY <3>1, <3>2 DEF PutsFormat
    <2> QED BY <2>2, <2>3, <2>4
  <1>4. CASE FormatsDone \/ VendorsDone \/ AvpsDone \/ GroupedDone
    BY <1>4 DEF FormatsDone, VendorsDone, AvpsDone, GroupedDone, EndLoop
  <1>5. CASE ExtractVendor
    <2> DEFINE v == Entry("vendor")
    <2>1. v \in VendorDefs
      BY <1>5, EntryTypes DEF ExtractVendor, LoaderInv
    <2>2. CASE ~VendorAccepted(v)
      BY <1>5, <2>2 DEF ExtractVendor, Throw
    <2>3. CASE VendorAccepted(v)
      <3>1. v.name \in Names \ {""} /\ v.code \in Nat
        <4>1. v.name \in Names /\ v.code \in Int
          BY <2>1 DEF VendorDefs
        <4>2. v.code \in Nat
          <5>1. v.code >= 0
            BY <2>3 DEF VendorAccepted
          <5> QED BY <4>1, <5>1
        <4>3. v.name # ""
          BY <2>3 DEF VendorAccepted
        <4> QED BY <4>1, <4>2, <4>3
      <3>2. /\ vendors' = Put(vendors, v.code, v.name)
            /\ vendorNames' = Put(vendorNames, v.name, v.code)
            /\ UNCHANGED <<formats, avps, commands, avpNames, commandNames>>
        BY <1>5, <2>3 DEF ExtractVendor, PutName
      <3> QED BY <3>1, <3>2 DEF PutsVendor
    <2> QED BY <2>2, <2>3
  <1>6. CASE ExtractAvp
    <2> DEFINE a == Entry("avp")
    <2>1. a \in AvpDefs
      BY <1>6, EntryTypes DEF ExtractAvp, LoaderInv
    <2>2. CASE ~AvpAccepted(a)
      BY <1>6, <2>2 DEF ExtractAvp, Throw
    <2>3. CASE AvpAccepted(a)
      <3>1. a.name \in Names \ {""} /\ a.code \in Nat /\ a.vBit \in BOOLEAN
        <4>1. a.name \in Names /\ a.code \in Int /\ a.vBit \in BOOLEAN
          BY <2>1 DEF AvpDefs
        <4>2. a.code \in Nat
          <5>1. a.code >= 0
            BY <2>3 DEF AvpAccepted
          <5> QED BY <4>1, <5>1
        <4>3. a.name # ""
          BY <2>3 DEF AvpAccepted
        <4> QED BY <4>1, <4>2, <4>3
      <3>2. VendorCode(a) \in Nat /\ (VendorCode(a) # 0 => VendorCode(a) \in DOMAIN vendors)
        BY <2>3 DEF AvpAccepted, VendorCode, TablesInv, TablesTyped, IsTable, ReferencesResolve
      <3>3. FormatOf(a) \in DOMAIN formats
        BY <2>3 DEF AvpAccepted, FormatOf, TablesInv
      <3>4. a.vBit <=> VendorCode(a) # 0
        BY <2>3 DEF AvpAccepted
      <3>5. IdOf(a) \in AvpIds /\ IdOf(a)[2] = VendorCode(a)
        BY <3>1, <3>2 DEF IdOf, AvpIds
      <3>6. /\ SlotOf(a).vendorName \in Names
            /\ SlotOf(a) = [name |-> a.name, vBit |-> a.vBit, vendorName |-> SlotOf(a).vendorName,
                            format |-> FormatOf(a), level |-> EmptyLevel]
        BY <2>1, NamesAssumption DEF SlotOf, AvpDefs
      <3>7. /\ avps' = Put(avps, IdOf(a), SlotOf(a))
            /\ avpNames' = Put(avpNames, a.name, IdOf(a))
            /\ UNCHANGED <<formats, vendors, commands, vendorNames, commandNames>>
        BY <1>6, <2>3 DEF ExtractAvp, PutName
      <3> HIDE DEF a
      <3> DEFINE vn == SlotOf(a).vendorName
      <3> HIDE DEF vn
      <3> QED BY <3>1, <3>2, <3>3, <3>4, <3>5, <3>6, <3>7 DEF PutsAvp, vn
    <2> QED BY <2>2, <2>3
  <1>7. CASE GroupedEntry \/ GroupedEntryDone
    BY <1>7 DEF GroupedEntry, GroupedEntryDone, Undefined, Throw
  <1>8. CASE GroupedRule
    <2> DEFINE r == Entry("avp").rules[nth + 1]
               rule == RuleOf(r)
               level == avps[target].level
    <2>1. r \in RuleDefs
      <3>1. nth \in Nat /\ nth < Len(Entry("avp").rules) /\ Entry("avp").rules \in Seq(RuleDefs)
        BY <1>8 DEF GroupedRule, LoaderInv, LoaderTyped
      <3> QED BY <3>1
    <2>2. CASE ~RuleAccepted(r)
      BY <1>8, <2>2 DEF GroupedRule, Throw
    <2>3. CASE RuleAccepted(r)
      <3>1. rule \in Rules /\ rule.avp \in DOMAIN avps /\ QualAccepted(rule.qual)
        <4>1. rule.qual = r.qual
          BY DEF RuleOf
        <4> QED BY <2>1, <2>3, <4>1, RuleTypes DEF RuleAccepted, TablesInv, ReferencesResolve
      <3>2. target \in DOMAIN avps /\ IsGrouped(target)
        <4>1. phase = "rule"
          BY <1>8 DEF GroupedRule
        <4>2. HasEntry("avp") /\ at \in Nat /\ Section(doc, "avp") \in Seq(AvpDefs)
          BY <4>1, EntryTypes DEF LoaderInv, LoaderTyped
        <4>3. at + 1 \in 1..Len(Section(doc, "avp"))
          BY <4>2 DEF HasEntry
        <4>4. Entry("avp").name \in DOMAIN avpNames
          BY <4>1, <4>3 DEF LoaderInv, Visited, Entry
        <4> QED BY <4>1, <4>4 DEF LoaderInv, TablesInv, ReferencesResolve
      <3>3. /\ level \in Levels
            /\ WithRule(level, rule) \in Levels /\ AfterRefusal(level, rule) \in Levels
            /\ WithRule(level, rule).rules = Append(level.rules, rule)
            /\ AfterRefusal(level, rule).rules = level.rules
            /\ RuleFits(level, rule) =>
                LevelOK(WithRule(level, rule)) /\ RulesResolve(WithRule(level, rule))
            /\ LevelOK(AfterRefusal(level, rule)) /\ RulesResolve(AfterRefusal(level, rule))
        BY <3>1, <3>2, SlotLevel, RuleAdded, LevelTypes
      <3>4. \/ RuleFits(level, rule) /\ SetLevel(target, WithRule(level, rule))
            \/ SetLevel(target, AfterRefusal(level, rule))
        BY <1>8, <2>3 DEF GroupedRule
      <3> HIDE DEF rule, level
      <3>5. CASE RuleFits(level, rule) /\ SetLevel(target, WithRule(level, rule))
        BY <3>1, <3>2, <3>3, <3>5 DEF SetsLevel, SetLevel, level
      <3>6. CASE SetLevel(target, AfterRefusal(level, rule))
        BY <3>2, <3>3, <3>6 DEF SetsLevel, SetLevel, level
      <3> QED BY <3>4, <3>5, <3>6
    <2> QED BY <2>2, <2>3
  <1>9. CASE CheckLoops \/ CommandEntry \/ CommandRule \/ CommandsDone
    BY <1>9 DEF CheckLoops, CommandEntry, CommandRule, CommandsDone, Throw
  <1>10. CASE AddCommand
    <2> DEFINE c == Entry("command")
    <2>1. c \in CommandDefs
      BY <1>10, EntryTypes DEF AddCommand, LoaderInv
    <2>2. c.name \in Names /\ CommandIdOf(c) \in CommandIds
      BY <2>1 DEF CommandDefs, CommandIds, CommandIdOf
    <2>3. /\ phase = "building"
          /\ commands' = Put(commands, CommandIdOf(c), [name |-> c.name, level |-> aux])
          /\ commandNames' = Put(commandNames, c.name, CommandIdOf(c))
          /\ UNCHANGED <<formats, vendors, avps, vendorNames, avpNames>>
      BY <1>10 DEF AddCommand, PutName
    <2> QED BY <2>2, <2>3 DEF PutsCommand
  <1>11. CASE Clear \/ Restart
    BY <1>11
  <1>12. CASE \E id, child \in DOMAIN avps, p \in ApiPresences :
                    AddAvpRule(id, [avp |-> child, presence |-> p, qual |-> NoQual])
    <2>1. PICK id \in DOMAIN avps, child \in DOMAIN avps, p \in ApiPresences :
                    AddAvpRule(id, [avp |-> child, presence |-> p, qual |-> NoQual])
      BY <1>12
    <2> DEFINE rule == [avp |-> child, presence |-> p, qual |-> NoQual]
               level == avps[id].level
    <2>2. rule \in Rules /\ rule.avp \in DOMAIN avps /\ QualAccepted(rule.qual)
      BY SlotLevel, ApiAssumption, NoDocument DEF Rules, QualAccepted
    <2>3. /\ level \in Levels
          /\ WithRule(level, rule) \in Levels /\ AfterRefusal(level, rule) \in Levels
          /\ WithRule(level, rule).rules = Append(level.rules, rule)
          /\ AfterRefusal(level, rule).rules = level.rules
          /\ RuleFits(level, rule) =>
              LevelOK(WithRule(level, rule)) /\ RulesResolve(WithRule(level, rule))
          /\ LevelOK(AfterRefusal(level, rule)) /\ RulesResolve(AfterRefusal(level, rule))
      BY <2>2, SlotLevel, RuleAdded, LevelTypes
    <2>4. /\ IsGrouped(id)
          /\ \/ RuleFits(level, rule) /\ SetLevel(id, WithRule(level, rule))
             \/ SetLevel(id, AfterRefusal(level, rule))
      BY <2>1 DEF AddAvpRule
    <2> HIDE DEF rule, level
    <2>5. CASE RuleFits(level, rule) /\ SetLevel(id, WithRule(level, rule))
      BY <2>2, <2>3, <2>4, <2>5 DEF SetsLevel, SetLevel, level
    <2>6. CASE SetLevel(id, AfterRefusal(level, rule))
      BY <2>3, <2>4, <2>6 DEF SetsLevel, SetLevel, level
    <2> QED BY <2>4, <2>5, <2>6
  <1> QED
    BY <1>1, <1>2, <1>3, <1>4, <1>5, <1>6, <1>7, <1>8, <1>9, <1>10, <1>11, <1>12
    DEF Next, LoadStep

----------------------------------------------------------------------------
(* The invariant of the tables.                                             *)

\* A format put into the table leaves the tables in order.
LEMMA FormatPut ==
    ASSUME TablesInv, PutsFormat
    PROVE  TablesInv'
  <1>1. PICK n \in Names, p \in Names : formats' = Put(formats, n, p)
    BY DEF PutsFormat
  <1>2. IsTable(formats', Names, Names) /\ DOMAIN formats \subseteq DOMAIN formats'
    BY <1>1 DEF TablesInv, TablesTyped, IsTable, Put
  <1> QED
    BY <1>2 DEF PutsFormat, TablesInv, TablesTyped, ReferencesResolve, RulesResolve, SlotsAreNamed,
                LevelsInv, IsGrouped, VendorBitMatches

\* So does a vendor with its name.
LEMMA VendorPut ==
    ASSUME TablesInv, PutsVendor
    PROVE  TablesInv'
  <1>1. PICK c \in Nat, n \in Names :
            vendors' = Put(vendors, c, n) /\ vendorNames' = Put(vendorNames, n, c)
    BY DEF PutsVendor
  <1>2. /\ IsTable(vendors', Nat, Names)
        /\ DOMAIN vendors' = DOMAIN vendors \cup {c}
        /\ vendors'[c] = n
        /\ \A x \in DOMAIN vendors : x # c => vendors'[x] = vendors[x]
    BY <1>1 DEF TablesInv, TablesTyped, IsTable, Put
  <1>3. /\ IsTable(vendorNames', Names, Nat)
        /\ DOMAIN vendorNames' = DOMAIN vendorNames \cup {n}
        /\ vendorNames'[n] = c
        /\ \A x \in DOMAIN vendorNames : x # n => vendorNames'[x] = vendorNames[x]
    BY <1>1 DEF TablesInv, TablesTyped, IsTable, Put
  <1>4. TablesTyped'
    BY <1>2, <1>3 DEF PutsVendor, TablesInv, TablesTyped
  <1>5. ReferencesResolve'
    BY <1>2, <1>3 DEF PutsVendor, TablesInv, ReferencesResolve, RulesResolve
  <1>6. SlotsAreNamed'
    BY <1>2, <1>3 DEF PutsVendor, TablesInv, SlotsAreNamed
  <1>7. LevelsInv' /\ VendorBitMatches' /\ ("Grouped" \in DOMAIN formats)'
    BY <1>2 DEF PutsVendor, TablesInv, LevelsInv, IsGrouped, VendorBitMatches
  <1> QED BY <1>4, <1>5, <1>6, <1>7 DEF TablesInv

\* The level of a new AVP or command is in order.
LEMMA EmptyLevelOK ==
    EmptyLevel \in Levels /\ LevelOK(EmptyLevel) /\ RulesResolve(EmptyLevel)
  BY DEF EmptyLevel, Levels, LevelOK, FixedFirst, OneRulePerAvp, FlagMeansAllFixed, RulesResolve

\* An accepted AVP put under its id leaves the tables in order.
LEMMA AvpPut ==
    ASSUME TablesInv, PutsAvp
    PROVE  TablesInv'
  <1>1. PICK id \in AvpIds, n \in Names, vn \in Names, v \in BOOLEAN, f \in DOMAIN formats :
            /\ v <=> id[2] # 0
            /\ id[2] # 0 => id[2] \in DOMAIN vendors
            /\ avps' = Put(avps, id, [name |-> n, vBit |-> v, vendorName |-> vn, format |-> f,
                                  level |-> EmptyLevel])
            /\ avpNames' = Put(avpNames, n, id)
    BY DEF PutsAvp
  <1> DEFINE slot == [name |-> n, vBit |-> v, vendorName |-> vn, format |-> f, level |-> EmptyLevel]
  <1>2. slot \in AvpSlots
    BY EmptyLevelOK DEF AvpSlots, TablesInv, TablesTyped, IsTable
  <1>3. /\ IsTable(avps', AvpIds, AvpSlots)
        /\ DOMAIN avps' = DOMAIN avps \cup {id}
        /\ avps'[id] = slot
        /\ \A x \in DOMAIN avps : x # id => avps'[x] = avps[x]
    BY <1>1, <1>2 DEF TablesInv, TablesTyped, IsTable, Put
  <1>4. /\ IsTable(avpNames', Names, AvpIds)
        /\ DOMAIN avpNames' = DOMAIN avpNames \cup {n}
        /\ avpNames'[n] = id
        /\ \A x \in DOMAIN avpNames : x # n => avpNames'[x] = avpNames[x]
    BY <1>1 DEF TablesInv, TablesTyped, IsTable, Put
  <1>5. /\ avps'[id].name = n /\ avps'[id].vBit = v /\ avps'[id].format = f
        /\ avps'[id].level = EmptyLevel /\ avps'[id].level.rules = <<>>
    BY <1>3 DEF EmptyLevel
  <1>6. TablesTyped'
    BY <1>3, <1>4 DEF PutsAvp, TablesInv, TablesTyped
  <1>7. ReferencesResolve'
    <2>1. \A level : RulesResolve(level) => RulesResolve(level)'
      BY <1>3 DEF RulesResolve
    <2>2. \A x \in DOMAIN avps' : avps'[x].format \in DOMAIN formats' /\ RulesResolve(avps[x].level)'
      <3> SUFFICES ASSUME NEW x \in DOMAIN avps'
                   PROVE  avps'[x].format \in DOMAIN formats' /\ RulesResolve(avps[x].level)'
        OBVIOUS
      <3>1. CASE x = id
        <4>1. UNCHANGED formats
          BY DEF PutsAvp
        <4> QED BY <3>1, <1>5, <4>1 DEF RulesResolve
      <3>2. CASE x # id
        <4>1. x \in DOMAIN avps /\ avps'[x] = avps[x]
          BY <1>3, <3>2
        <4> QED BY <4>1, <1>3 DEF PutsAvp, TablesInv, ReferencesResolve, RulesResolve
      <3> QED BY <3>1, <3>2
    <2> QED BY <1>3, <1>4, <2>2 DEF PutsAvp, TablesInv, ReferencesResolve, RulesResolve
  <1>8. SlotsAreNamed'
    BY <1>3, <1>4, <1>5 DEF PutsAvp, TablesInv, SlotsAreNamed
  <1>9. LevelsInv'
    <2>1. \A x \in DOMAIN avps' :
            LevelOK(avps'[x].level) /\ (avps'[x].level.rules # <<>> => avps'[x].format = "Grouped")
      BY <1>3, <1>5, EmptyLevelOK DEF TablesInv, LevelsInv, IsGrouped
    <2> QED BY <2>1 DEF PutsAvp, TablesInv, LevelsInv, IsGrouped
  <1>10. VendorBitMatches' /\ ("Grouped" \in DOMAIN formats)'
    BY <1>1, <1>3, <1>5 DEF PutsAvp, TablesInv, VendorBitMatches
  <1> QED BY <1>6, <1>7, <1>8, <1>9, <1>10 DEF TablesInv

\* So does a new level in a slot, if it is in order and its rules resolve.
LEMMA LevelSet ==
    ASSUME TablesInv, SetsLevel
    PROVE  TablesInv'
  <1>1. PICK id \in DOMAIN avps, level \in Levels :
            /\ IsGrouped(id) /\ LevelOK(level) /\ RulesResolve(level)
            /\ avps' = [avps EXCEPT ![id].level = level]
    BY DEF SetsLevel
  <1>2. DOMAIN avps' = DOMAIN avps /\ \A x \in DOMAIN avps : avps[x] \in AvpSlots
    BY <1>1 DEF TablesInv, TablesTyped, IsTable
  <1>3. \A x \in DOMAIN avps :
            /\ avps'[x] \in AvpSlots
            /\ avps'[x].name = avps[x].name /\ avps'[x].vBit = avps[x].vBit
            /\ avps'[x].format = avps[x].format
            /\ avps'[x].level = IF x = id THEN level ELSE avps[x].level
    BY <1>1, <1>2 DEF AvpSlots
  <1>4. IsTable(avps', AvpIds, AvpSlots)
    <2>1. avps' \in [DOMAIN avps' -> AvpSlots]
      <3>1. avps' = [x \in DOMAIN avps' |-> avps'[x]]
        BY <1>1
      <3> QED BY <1>2, <1>3, <3>1
    <2> QED BY <2>1, <1>2 DEF TablesInv, TablesTyped, IsTable
  <1>5. TablesTyped'
    BY <1>4 DEF SetsLevel, TablesInv, TablesTyped
  <1>6. ReferencesResolve'
    BY <1>1, <1>2, <1>3 DEF SetsLevel, TablesInv, ReferencesResolve, RulesResolve
  <1>7. SlotsAreNamed' /\ VendorBitMatches' /\ ("Grouped" \in DOMAIN formats)'
    BY <1>2, <1>3 DEF SetsLevel, TablesInv, SlotsAreNamed, VendorBitMatches
  <1>8. LevelsInv'
    BY <1>1, <1>2, <1>3 DEF SetsLevel, TablesInv, LevelsInv, IsGrouped
  <1> QED BY <1>5, <1>6, <1>7, <1>8 DEF TablesInv

\* So does a command whose rules are in order and resolve.
LEMMA CommandPut ==
    ASSUME Inv, PutsCommand
    PROVE  TablesInv'
  <1> USE DEF Inv
  <1>1. PICK id \in CommandIds, n \in Names :
            /\ commands' = Put(commands, id, [name |-> n, level |-> aux])
            /\ commandNames' = Put(commandNames, n, id)
    BY DEF PutsCommand
  <1>2. /\ IsTable(commands', CommandIds, [name : Names, level : Levels])
        /\ DOMAIN commands' = DOMAIN commands \cup {id}
        /\ commands'[id] = [name |-> n, level |-> aux]
        /\ \A x \in DOMAIN commands : x # id => commands'[x] = commands[x]
    <2>1. [name |-> n, level |-> aux] \in [name : Names, level : Levels]
      BY DEF LoaderInv, LoaderTyped
    <2> QED BY <1>1, <2>1 DEF TablesInv, TablesTyped, IsTable, Put
  <1>3. /\ IsTable(commandNames', Names, CommandIds)
        /\ DOMAIN commandNames' = DOMAIN commandNames \cup {n}
        /\ commandNames'[n] = id
        /\ \A x \in DOMAIN commandNames : x # n => commandNames'[x] = commandNames[x]
    BY <1>1 DEF TablesInv, TablesTyped, IsTable, Put
  <1>4. TablesTyped'
    BY <1>2, <1>3 DEF PutsCommand, TablesInv, TablesTyped
  <1>5. \A c \in DOMAIN commands' :
            LevelOK(commands'[c].level) /\ RulesResolve(commands'[c].level)
    BY <1>2 DEF TablesInv, LevelsInv, ReferencesResolve, LoaderInv
  <1>6. ReferencesResolve'
    BY <1>2, <1>3, <1>5 DEF PutsCommand, TablesInv, ReferencesResolve, RulesResolve
  <1>7. SlotsAreNamed'
    BY <1>2, <1>3 DEF PutsCommand, TablesInv, SlotsAreNamed
  <1>8. LevelsInv' /\ VendorBitMatches' /\ ("Grouped" \in DOMAIN formats)'
    BY <1>5 DEF PutsCommand, TablesInv, LevelsInv, IsGrouped, VendorBitMatches
  <1> QED BY <1>4, <1>6, <1>7, <1>8 DEF TablesInv

\* What initialize() leaves satisfies the invariant; so does the first state.
LEMMA Initialized ==
    /\ Init => TablesInv
    /\ Initialize => TablesInv'
  <1>1. HardcodedFormats \in [BasicTypes \cup DerivedTypes \cup {"Any"} -> Names]
    BY NamesAssumption DEF HardcodedFormats, BasicTypes
  <1>2. /\ DOMAIN HardcodedFormats \subseteq Names
        /\ DOMAIN HardcodedFormats = BasicTypes \cup DerivedTypes \cup {"Any"}
    BY NamesAssumption DEF HardcodedFormats, ReservedTypes
  <1>3. GenericAvp \in AvpSlots
    BY NamesAssumption, EmptyLevelOK DEF GenericAvp, AvpSlots, ReservedTypes
  <1>4. GenericId \in AvpIds /\ GenericId[2] = 0
    BY DEF GenericId, AvpIds
  <1>5. GenericAvp.level = EmptyLevel /\ GenericAvp.format = "Any" /\ ~GenericAvp.vBit
        /\ GenericAvp.name = "AVP" /\ EmptyLevel.rules = <<>>
    BY DEF GenericAvp, EmptyLevel
  <1>6. "Any" \in DOMAIN HardcodedFormats /\ "Grouped" \in DOMAIN HardcodedFormats /\ "AVP" \in Names
    BY <1>2, NamesAssumption DEF BasicTypes
  <1>7. ASSUME Init PROVE TablesInv
    <2>1. TablesTyped
      BY <1>1, <1>2, <1>3, <1>4, <1>6, <1>7 DEF Init, TablesTyped, IsTable, EmptyTable
    <2>2. ReferencesResolve /\ SlotsAreNamed /\ LevelsInv /\ VendorBitMatches
      BY <1>4, <1>5, <1>6, <1>7, EmptyLevelOK
      DEF Init, EmptyTable, ReferencesResolve, RulesResolve, SlotsAreNamed, LevelsInv, IsGrouped,
          VendorBitMatches
    <2> QED BY <1>6, <1>7, <2>1, <2>2 DEF TablesInv, Init
  <1>8. ASSUME Initialize PROVE TablesInv'
    <2>1. TablesTyped'
      BY <1>1, <1>2, <1>3, <1>4, <1>6, <1>8 DEF Initialize, TablesTyped, IsTable, EmptyTable
    <2>2. (ReferencesResolve /\ SlotsAreNamed /\ LevelsInv /\ VendorBitMatches)'
      BY <1>4, <1>5, <1>6, <1>8, EmptyLevelOK
      DEF Initialize, EmptyTable, ReferencesResolve, RulesResolve, SlotsAreNamed, LevelsInv,
          IsGrouped, VendorBitMatches
    <2> QED BY <1>6, <1>8, <2>1, <2>2 DEF TablesInv, Initialize
  <1> QED BY <1>7, <1>8

\* The tables' part of the invariant is inductive.
LEMMA TablesStep ==
    ASSUME Inv, [Next]_vars
    PROVE  TablesInv'
  <1>1. CASE UNCHANGED catalogue
    BY <1>1 DEF Inv, catalogue, TablesInv, TablesTyped, ReferencesResolve, RulesResolve,
                SlotsAreNamed, LevelsInv, IsGrouped, VendorBitMatches
  <1> QED
    BY <1>1, StepCases, FormatPut, VendorPut, AvpPut, LevelSet, CommandPut, Initialized
    DEF Inv, Clear, Restart

----------------------------------------------------------------------------
(* The invariant of the loader's locals.                                    *)

\* Between loads the locals are as at the beginning.
LEMMA LoadEnded ==
    ASSUME EndLoad
    PROVE  LoaderInv'
  <1>1. GenericId \in AvpIds
    BY DEF GenericId, AvpIds
  <1>2. LoaderTyped'
    BY <1>1, EmptyLevelOK, NoDocument DEF EndLoad, LoaderTyped, Phases
  <1>3. (LevelOK(aux) /\ RulesResolve(aux))'
    BY EmptyLevelOK DEF EndLoad, RulesResolve, EmptyLevel
  <1> QED BY <1>2, <1>3 DEF EndLoad, LoaderInv

\* A step that leaves the tables and the document keeps what was visited.
LEMMA VisitedKept ==
    ASSUME UNCHANGED <<catalogue, doc>>
    PROVE  /\ \A n : Visited(n) => Visited(n)'
           /\ \A level : RulesResolve(level) => (\A i \in DOMAIN level.rules :
                                                    level.rules[i].avp \in DOMAIN avps')
  BY DEF catalogue, Visited, Defines, RulesResolve

\* The first loop's step: the entry at the cursor is registered, under an id
\* it defines, and the entries before it stay registered, perhaps elsewhere.
LEMMA AvpVisited ==
    ASSUME Inv, ExtractAvp, AvpAccepted(Entry("avp"))
    PROVE  LoaderInv'
  <1> USE DEF Inv
  <1> DEFINE a == Entry("avp")
             s == Section(doc, "avp")
  <1>1. /\ avpNames' = Put(avpNames, a.name, IdOf(a))
        /\ avps' = Put(avps, IdOf(a), SlotOf(a))
        /\ UNCHANGED <<vendorNames, doc, phase, nth, target, aux>>
        /\ at' = at + 1 /\ phase = "avp"
    BY DEF ExtractAvp, PutName, Advance
  <1>2. at \in Nat /\ at < Len(s) /\ s \in Seq(AvpDefs) /\ a = s[at + 1] /\ Visited(at)
    BY EntryTypes DEF ExtractAvp, HasEntry, Entry, LoaderInv, LoaderTyped
  <1>3. Defines(a, IdOf(a))
    BY DEF AvpAccepted, Defines, IdOf, VendorCode
  <1>4. /\ DOMAIN avpNames' = DOMAIN avpNames \cup {a.name}
        /\ avpNames'[a.name] = IdOf(a)
        /\ \A n \in DOMAIN avpNames : n # a.name => avpNames'[n] = avpNames[n]
    BY <1>1 DEF Put
  <1>5. \A i \in 1..(at + 1) :
            /\ s[i].name \in DOMAIN avpNames'
            /\ \E j \in 1..(at + 1) : Defines(s[j], avpNames'[s[i].name])
    <2> SUFFICES ASSUME NEW i \in 1..(at + 1)
                 PROVE  /\ s[i].name \in DOMAIN avpNames'
                        /\ \E j \in 1..(at + 1) : Defines(s[j], avpNames'[s[i].name])
      OBVIOUS
    <2>1. CASE s[i].name = a.name
      <3>1. at + 1 \in 1..(at + 1) /\ Defines(s[at + 1], avpNames'[s[i].name])
        BY <2>1, <1>2, <1>3, <1>4
      <3> QED BY <3>1, <2>1, <1>4
    <2>2. CASE s[i].name # a.name
      <3>1. i \in 1..at
        BY <2>2, <1>2
      <3>2. s[i].name \in DOMAIN avpNames /\ \E j \in 1..at : Defines(s[j], avpNames[s[i].name])
        BY <3>1, <1>2 DEF Visited
      <3>3. avpNames'[s[i].name] = avpNames[s[i].name] /\ 1..at \subseteq 1..(at + 1)
        BY <3>2, <2>2, <1>2, <1>4
      <3> QED BY <3>2, <3>3, <1>4
    <2> QED BY <2>1, <2>2
  <1>6. LoaderTyped'
    BY <1>1, <1>2 DEF LoaderInv, LoaderTyped
  <1>7. aux = EmptyLevel /\ EmptyLevel.rules = <<>>
    BY <1>1 DEF LoaderInv, EmptyLevel
  <1>8. (LevelOK(aux) /\ RulesResolve(aux))'
    BY <1>1, <1>7 DEF LoaderInv, RulesResolve
  <1>9. at' <= Len(s) /\ Section(doc, "avp")' = s
    BY <1>1, <1>2 DEF Section
  <1>10. Visited(at)'
    BY <1>1, <1>5 DEF Visited, Defines, Section
  <1> QED BY <1>1, <1>6, <1>8, <1>9, <1>10 DEF LoaderInv

\* The loader's part of the invariant is inductive.
LEMMA LoaderStep ==
    ASSUME Inv, [Next]_vars
    PROVE  LoaderInv'
  <1> USE DEF Inv
  <1>1. ASSUME UNCHANGED <<catalogue, doc, aux>> PROVE (LevelOK(aux) /\ RulesResolve(aux))'
    BY <1>1 DEF LoaderInv, catalogue, RulesResolve
  <1>2. CASE UNCHANGED vars
    BY <1>2 DEF vars, LoaderInv, LoaderTyped, Visited, Defines, HasEntry, Entry, Section,
                IsGrouped, RulesResolve
  <1>3. CASE \E d \in Docs : Load(d)
    <2>1. LoaderTyped'
      BY <1>3, DocsAssumption DEF Load, LoaderInv, LoaderTyped, Phases
    <2>2. (LevelOK(aux) /\ RulesResolve(aux))'
      BY <1>3 DEF Load, catalogue, LoaderInv, RulesResolve
    <2> QED BY <1>3, <2>1, <2>2 DEF Load, LoaderInv
  <1>4. CASE ExtractFormat \/ ExtractVendor
    <2>1. CASE EndLoad
      BY <2>1, LoadEnded
    <2>2. CASE phase' = "dead" /\ UNCHANGED <<catalogue, doc, at, nth, target, aux>>
      <3>1. LoaderTyped'
        BY <2>2 DEF LoaderInv, LoaderTyped, Phases
      <3> QED BY <1>1, <1>4, <2>2, <3>1 DEF LoaderInv, ExtractFormat, ExtractVendor
    <2>3. CASE Advance /\ UNCHANGED avps
      <3>1. LoaderTyped'
        BY <2>3 DEF Advance, LoaderInv, LoaderTyped
      <3>2. (LevelOK(aux) /\ RulesResolve(aux))'
        BY <2>3 DEF Advance, LoaderInv, RulesResolve
      <3> QED BY <1>4, <2>3, <3>1, <3>2 DEF Advance, LoaderInv, ExtractFormat, ExtractVendor
    <2> QED
      BY <1>4, <2>1, <2>2, <2>3 DEF ExtractFormat, ExtractVendor, Undefined, Throw
  <1>5. CASE FormatsDone \/ VendorsDone \/ AvpsDone \/ GroupedDone
    <2>1. LoaderTyped'
      BY <1>5 DEF FormatsDone, VendorsDone, AvpsDone, GroupedDone, EndLoop, LoaderInv, LoaderTyped,
                  Phases
    <2>2. UNCHANGED <<catalogue, doc, aux, nth>> /\ at' = 0 /\ phase' \notin {"rule", "building"}
          /\ phase \notin {"rule", "building"}
      BY <1>5 DEF FormatsDone, VendorsDone, AvpsDone, GroupedDone, EndLoop
    <2>3. phase' = "avp" => (at <= Len(Section(doc, "avp")) /\ Visited(at))'
      <3>1. Section(doc, "avp")' \in Seq(AvpDefs)
        BY <2>2, EntryTypes DEF LoaderInv, Section
      <3> QED BY <2>2, <3>1 DEF Visited
    <2>4. phase' = "grouped" => Visited(Len(Section(doc, "avp")))'
      <3>1. SUFFICES ASSUME phase' = "grouped" PROVE Visited(Len(Section(doc, "avp")))'
        OBVIOUS
      <3>2. phase = "avp" /\ ~HasEntry("avp")
        BY <1>5, <3>1 DEF FormatsDone, VendorsDone, AvpsDone, GroupedDone, EndLoop
      <3>3. at = Len(Section(doc, "avp"))
        <4>1. Len(Section(doc, "avp")) \in Nat /\ at \in Nat
          BY EntryTypes DEF LoaderInv, LoaderTyped
        <4> QED BY <3>2, <4>1 DEF LoaderInv, HasEntry
      <3>4. Visited(Len(Section(doc, "avp")))
        BY <3>2, <3>3 DEF LoaderInv
      <3> QED BY <2>2, <3>4 DEF Visited, Defines, Section, catalogue
    <2> QED BY <1>1, <2>1, <2>2, <2>3, <2>4 DEF LoaderInv
  <1>6. CASE ExtractAvp
    <2>1. CASE AvpAccepted(Entry("avp"))
      BY <1>6, <2>1, AvpVisited
    <2>2. CASE ~AvpAccepted(Entry("avp"))
      BY <1>6, <2>2, LoadEnded DEF ExtractAvp, Throw
    <2> QED BY <2>1, <2>2
  <1>7. CASE GroupedEntry
    <2> DEFINE a == Entry("avp")
    <2>1. UNCHANGED catalogue /\ phase = "grouped" /\ HasEntry("avp")
      BY <1>7 DEF GroupedEntry, Undefined, Throw
    <2>2. a \in AvpDefs /\ a.name \in DOMAIN avpNames
      <3>1. at \in Nat /\ at + 1 \in 1..Len(Section(doc, "avp"))
        BY <2>1, EntryTypes DEF LoaderInv, LoaderTyped, HasEntry
      <3> QED BY <2>1, <3>1, EntryTypes DEF LoaderInv, Visited, Entry
    <2>3. CASE EndLoad
      BY <2>3, LoadEnded
    <2>4. CASE phase' = "dead" /\ UNCHANGED <<catalogue, doc, at, nth, target, aux>>
      <3>1. LoaderTyped'
        BY <2>4 DEF LoaderInv, LoaderTyped, Phases
      <3> QED BY <1>1, <2>1, <2>4, <3>1 DEF LoaderInv
    <2>5. CASE Advance
      <3>1. LoaderTyped'
        BY <2>5 DEF Advance, LoaderInv, LoaderTyped
      <3>2. Visited(Len(Section(doc, "avp")))'
        BY <2>1, <2>5 DEF Advance, LoaderInv, Visited, Defines, Section, catalogue
      <3> QED BY <1>1, <2>1, <2>5, <3>1, <3>2 DEF Advance, LoaderInv
    <2>6. CASE /\ a.rules # Absent /\ IsGrouped(avpNames[a.name])
               /\ phase' = "rule" /\ target' = avpNames[a.name]
               /\ UNCHANGED <<catalogue, doc, at, nth, aux>>
      <3>1. avpNames[a.name] \in AvpIds
        BY <2>2 DEF TablesInv, TablesTyped, IsTable
      <3>2. LoaderTyped'
        BY <2>6, <3>1 DEF LoaderInv, LoaderTyped, Phases
      <3>3. Visited(Len(Section(doc, "avp")))'
        BY <2>1, <2>6 DEF LoaderInv, Visited, Defines, Section, catalogue
      <3>4. HasEntry("avp")' /\ Entry("avp")' = a
        BY <2>1, <2>6 DEF HasEntry, Entry, Section
      <3>5. a.rules \in Seq(RuleDefs)
        BY <2>2, <2>6 DEF AvpDefs
      <3>6. (target = avpNames[Entry("avp").name] /\ IsGrouped(target))'
        BY <2>6, <3>4 DEF IsGrouped, catalogue
      <3> QED BY <1>1, <2>1, <2>6, <3>2, <3>3, <3>4, <3>5, <3>6 DEF LoaderInv
    <2> HIDE DEF a
    <2> QED BY <1>7, <2>3, <2>4, <2>5, <2>6 DEF GroupedEntry, Undefined, Throw, a
  <1>8. CASE GroupedRule
    <2>1. CASE EndLoad
      BY <2>1, LoadEnded
    <2>2. CASE ~EndLoad
      <3>1. PICK level : SetLevel(target, level)
        BY <1>8, <2>2 DEF GroupedRule, Throw
      <3>2. phase = "rule" /\ nth' = nth + 1 /\ UNCHANGED <<phase, doc, at, target, aux>>
        BY <1>8, <2>2 DEF GroupedRule, Throw
      <3>3. /\ DOMAIN avps' = DOMAIN avps /\ UNCHANGED <<avpNames, vendorNames>>
            /\ \A id \in DOMAIN avps : avps'[id].format = avps[id].format
        BY <3>1 DEF SetLevel, TablesInv, TablesTyped, IsTable
      <3>4. target \in DOMAIN avps
        <4>1. HasEntry("avp") /\ at \in Nat /\ Section(doc, "avp") \in Seq(AvpDefs)
          BY <3>2, EntryTypes DEF LoaderInv, LoaderTyped
        <4>2. at + 1 \in 1..Len(Section(doc, "avp"))
          BY <4>1 DEF HasEntry
        <4> QED BY <3>2, <4>2 DEF LoaderInv, Visited, Entry, TablesInv, ReferencesResolve
      <3>5. LoaderTyped'
        BY <3>2 DEF LoaderInv, LoaderTyped
      <3>6. Visited(Len(Section(doc, "avp")))'
        BY <3>2, <3>3 DEF LoaderInv, Visited, Defines, Section
      <3>7. (/\ HasEntry("avp") /\ Entry("avp").rules \in Seq(RuleDefs)
             /\ target = avpNames[Entry("avp").name] /\ IsGrouped(target))'
        BY <3>2, <3>3, <3>4 DEF LoaderInv, HasEntry, Entry, Section, IsGrouped
      <3>8. (LevelOK(aux) /\ RulesResolve(aux))'
        BY <3>2, <3>3 DEF LoaderInv, RulesResolve
      <3> QED BY <3>2, <3>5, <3>6, <3>7, <3>8 DEF LoaderInv
    <2> QED BY <2>1, <2>2
  <1>9. CASE GroupedEntryDone
    <2>1. /\ phase = "rule" /\ phase' = "grouped" /\ at' = at + 1 /\ nth' = 0
          /\ target' = GenericId /\ UNCHANGED <<catalogue, doc, aux>>
      BY <1>9 DEF GroupedEntryDone
    <2>2. LoaderTyped'
      BY <2>1 DEF LoaderInv, LoaderTyped, Phases, GenericId, AvpIds
    <2>3. Visited(Len(Section(doc, "avp")))'
      BY <2>1 DEF LoaderInv, Visited, Defines, Section, catalogue
    <2> QED BY <1>1, <2>1, <2>2, <2>3 DEF LoaderInv
  <1>10. CASE CheckLoops
    <2>1. CASE EndLoad
      BY <2>1, LoadEnded
    <2>2. CASE phase' = "command" /\ UNCHANGED <<catalogue, doc, at, nth, target, aux>>
      <3>1. LoaderTyped'
        BY <2>2 DEF LoaderInv, LoaderTyped, Phases
      <3> QED BY <1>1, <1>10, <2>2, <3>1 DEF CheckLoops, LoaderInv
    <2> QED BY <1>10, <2>1, <2>2 DEF CheckLoops, Throw
  <1>11. CASE CommandEntry
    <2>1. CASE EndLoad
      BY <2>1, LoadEnded
    <2>2. CASE phase' = "building" /\ UNCHANGED <<catalogue, doc, at, nth, target, aux>>
      <3>1. LoaderTyped'
        BY <2>2 DEF LoaderInv, LoaderTyped, Phases
      <3>2. (HasEntry("command") /\ nth = Len(aux.rules))'
        <4>1. phase = "command" /\ HasEntry("command")
          BY <1>11 DEF CommandEntry
        <4>2. nth = 0 /\ aux = EmptyLevel /\ Len(EmptyLevel.rules) = 0
          BY <4>1 DEF LoaderInv, EmptyLevel
        <4> QED BY <2>2, <4>1, <4>2 DEF HasEntry, Section
      <3> QED BY <1>1, <1>11, <2>2, <3>1, <3>2 DEF CommandEntry, LoaderInv
    <2> QED BY <1>11, <2>1, <2>2 DEF CommandEntry, Throw
  <1>12. CASE CommandRule
    <2> DEFINE r == Entry("command").rules[nth + 1]
    <2>1. CASE EndLoad
      BY <2>1, LoadEnded
    <2>2. CASE ~EndLoad
      <3>1. /\ phase = "building" /\ nth < Len(Entry("command").rules)
            /\ RuleAccepted(r) /\ RuleFits(aux, RuleOf(r))
            /\ aux' = WithRule(aux, RuleOf(r)) /\ nth' = nth + 1
            /\ UNCHANGED <<catalogue, phase, doc, at, target>>
        BY <1>12, <2>2 DEF CommandRule, Throw
      <3>2. r \in RuleDefs
        <4>1. Entry("command").rules \in Seq(RuleDefs)
          BY <3>1, EntryTypes DEF LoaderInv, CommandDefs
        <4>2. nth \in Nat
          BY DEF LoaderInv, LoaderTyped
        <4> QED BY <3>1, <4>1, <4>2
      <3>3. RuleOf(r) \in Rules /\ RuleOf(r).avp \in DOMAIN avps
        BY <3>1, <3>2, RuleTypes DEF RuleAccepted, TablesInv, ReferencesResolve
      <3>4. aux \in Levels /\ LevelOK(aux) /\ RulesResolve(aux) /\ nth = Len(aux.rules)
        BY <3>1 DEF LoaderInv, LoaderTyped
      <3>5. /\ aux' \in Levels /\ Len(aux'.rules) = nth + 1
            /\ LevelOK(aux') /\ RulesResolve(aux')
        BY <3>1, <3>3, <3>4, LevelTypes, RuleAdded
      <3>6. LoaderTyped'
        BY <3>1, <3>5 DEF LoaderInv, LoaderTyped
      <3>7. (HasEntry("command") /\ nth = Len(aux.rules))'
        BY <3>1, <3>5 DEF LoaderInv, HasEntry, Section
      <3>8. RulesResolve(aux)'
        BY <3>1, <3>5 DEF RulesResolve, catalogue
      <3> QED BY <3>1, <3>5, <3>6, <3>7, <3>8 DEF LoaderInv
    <2> QED BY <2>1, <2>2
  <1>13. CASE AddCommand
    <2>1. /\ phase = "building" /\ phase' = "command" /\ at' = at + 1 /\ nth' = 0
          /\ aux' = EmptyLevel /\ UNCHANGED <<doc, target>>
      BY <1>13 DEF AddCommand
    <2>2. LoaderTyped'
      BY <2>1, EmptyLevelOK DEF LoaderInv, LoaderTyped, Phases
    <2>3. (LevelOK(aux) /\ RulesResolve(aux))'
      BY <2>1, EmptyLevelOK DEF RulesResolve, EmptyLevel
    <2> QED BY <2>1, <2>2, <2>3 DEF LoaderInv
  <1>14. CASE CommandsDone \/ Restart
    BY <1>14, LoadEnded DEF CommandsDone, Restart
  <1>15. CASE Clear \/ \E id, child \in DOMAIN avps, p \in ApiPresences :
                            AddAvpRule(id, [avp |-> child, presence |-> p, qual |-> NoQual])
    <2>1. phase = "idle" /\ UNCHANGED loader
      BY <1>15 DEF Clear, AddAvpRule
    <2>2. LoaderTyped'
      BY <2>1 DEF loader, LoaderInv, LoaderTyped
    <2>3. aux = EmptyLevel /\ EmptyLevel.rules = <<>>
      BY <2>1 DEF LoaderInv, EmptyLevel
    <2>4. (LevelOK(aux) /\ RulesResolve(aux))'
      BY <2>1, <2>3 DEF loader, LoaderInv, RulesResolve
    <2> QED BY <2>1, <2>2, <2>4 DEF loader, LoaderInv
  <1> QED
    BY <1>2, <1>3, <1>4, <1>5, <1>6, <1>7, <1>8, <1>9, <1>10, <1>11, <1>12, <1>13, <1>14, <1>15
    DEF Next, LoadStep

----------------------------------------------------------------------------
(* The theorems.                                                            *)

\* The inductive invariant: of the tables and of the loader's locals.
THEOREM Invariance == Spec => []Inv
  <1>1. Init => Inv
    <2>1. ASSUME Init PROVE LoaderInv
      <3>1. LoaderTyped
        BY <2>1, EmptyLevelOK, NoDocument DEF Init, LoaderTyped, Phases, GenericId, AvpIds
      <3>2. LevelOK(aux) /\ RulesResolve(aux)
        BY <2>1, EmptyLevelOK DEF Init, RulesResolve, EmptyLevel
      <3> QED BY <2>1, <3>1, <3>2 DEF Init, LoaderInv
    <2> QED BY <2>1, Initialized DEF Inv
  <1>2. Inv /\ [Next]_vars => Inv'
    BY TablesStep, LoaderStep DEF Inv
  <1> QED BY <1>1, <1>2, PTL DEF Spec

\* Every table and local of the dictionary has its type, whatever is loaded.
THEOREM TypeCorrect == Spec => []TypeOK
  <1>1. Inv => TypeOK
    BY DEF Inv, TablesInv, LoaderInv, TypeOK
  <1> QED BY <1>1, Invariance, PTL

\* Whatever is loaded, and wherever a load fails, every name, format and rule
\* of the tables leads to an entry of the tables.
THEOREM ReferencesAlwaysResolve == Spec => []ReferencesResolve
  <1>1. Inv => ReferencesResolve
    BY DEF Inv, TablesInv
  <1> QED BY <1>1, Invariance, PTL

\* Whatever is redefined, each vendor, AVP and command can be found by its name.
THEOREM SlotsAlwaysNamed == Spec => []SlotsAreNamed
  <1>1. Inv => SlotsAreNamed
    BY DEF Inv, TablesInv
  <1> QED BY <1>1, Invariance, PTL

\* The rules of every AVP and command put fixed rules first and no AVP twice.
THEOREM LevelsAlwaysOrdered == Spec => []LevelsOrdered
  <1>1. Inv => LevelsOrdered
    BY DEF Inv, TablesInv, LevelsInv, LevelOK, LevelsOrdered
  <1> QED BY <1>1, Invariance, PTL

\* The V bit of every AVP tells whether it has a vendor, one of the dictionary's.
THEOREM VendorBitAlwaysMatches == Spec => []VendorBitMatches
  <1>1. Inv => VendorBitMatches
    BY DEF Inv, TablesInv
  <1> QED BY <1>1, Invariance, PTL

\* The lookups that extractAvps does not check succeed.
THEOREM UncheckedLookupsSucceed == Spec => []UncheckedLookups
  <1>1. Inv => UncheckedLookups
    <2>1. SUFFICES ASSUME Inv PROVE UncheckedLookups
      OBVIOUS
    <2>2. /\ DOMAIN Section(doc, "avp") = 1..Len(Section(doc, "avp"))
          /\ at \in Nat /\ Len(Section(doc, "avp")) \in Nat
      BY <2>1, EntryTypes DEF Inv, LoaderInv, LoaderTyped
    <2>3. phase \in {"grouped", "rule"} =>
            \A i \in DOMAIN Section(doc, "avp") : Section(doc, "avp")[i].name \in DOMAIN avpNames
      BY <2>1, <2>2 DEF Inv, LoaderInv, Visited
    <2>4. phase = "rule" => target \in DOMAIN avps /\ IsGrouped(target)
      <3>1. SUFFICES ASSUME phase = "rule" PROVE target \in DOMAIN avps /\ IsGrouped(target)
        OBVIOUS
      <3>2. at + 1 \in DOMAIN Section(doc, "avp")
        BY <2>1, <2>2, <3>1 DEF Inv, LoaderInv, HasEntry
      <3>3. target = avpNames[Entry("avp").name] /\ Entry("avp").name \in DOMAIN avpNames
        BY <2>1, <2>3, <3>1, <3>2 DEF Inv, LoaderInv, Entry
      <3> QED BY <2>1, <3>1, <3>3 DEF Inv, LoaderInv, TablesInv, ReferencesResolve
    <2> QED BY <2>3, <2>4 DEF UncheckedLookups
  <1> QED BY <1>1, Invariance, PTL

\* No load, not even one that fails, removes an entry or a name.
THEOREM LoadsAccumulate == Spec => LoadAccumulates
  <1> DEFINE Grows ==
        /\ DOMAIN formats \subseteq DOMAIN formats'
        /\ DOMAIN vendors \subseteq DOMAIN vendors'
        /\ DOMAIN avps \subseteq DOMAIN avps'
        /\ DOMAIN commands \subseteq DOMAIN commands'
        /\ DOMAIN vendorNames \subseteq DOMAIN vendorNames'
        /\ DOMAIN avpNames \subseteq DOMAIN avpNames'
        /\ DOMAIN commandNames \subseteq DOMAIN commandNames'
  <1>1. ASSUME Inv, [Next]_vars, Loading PROVE Grows
    <2>1. CASE UNCHANGED catalogue
      BY <2>1 DEF catalogue
    <2>2. CASE PutsFormat \/ PutsVendor \/ PutsAvp \/ PutsCommand
      BY <2>2 DEF PutsFormat, PutsVendor, PutsAvp, PutsCommand, Put
    <2>3. CASE SetsLevel
      BY <2>3 DEF SetsLevel, Inv, TablesInv, TablesTyped, IsTable
    <2>4. CASE Clear \/ Restart
      BY <1>1, <2>4 DEF Clear, Restart, EndLoad, loader, Loading
    <2> QED BY <1>1, <2>1, <2>2, <2>3, <2>4, StepCases
  <1>2. Inv /\ [Next]_vars => [Loading => Grows]_vars
    BY <1>1
  <1> QED BY <1>2, Invariance, PTL DEF Spec, LoadAccumulates

\* A command enters the table whole: with all the rules of its definition.
THEOREM CommandsAlwaysWhole == Spec => CommandsAreWhole
  <1> DEFINE Changed(c) == c \in DOMAIN commands => commands'[c] # commands[c]
             Whole(c) == /\ phase = "building"
                         /\ Len(commands'[c].level.rules) = Len(Entry("command").rules)
  <1>1. ASSUME Inv, Next, NEW c \in DOMAIN commands', Changed(c) PROVE Whole(c)
    <2>1. CASE AddCommand
      <3> DEFINE id == CommandIdOf(Entry("command"))
      <3>1. /\ phase = "building" /\ nth = Len(Entry("command").rules)
            /\ commands' = Put(commands, id, [name |-> Entry("command").name, level |-> aux])
        BY <2>1 DEF AddCommand, RulesVisited
      <3>2. c = id
        BY <1>1, <3>1 DEF Put
      <3>3. commands'[c].level = aux
        BY <3>1, <3>2 DEF Put
      <3>4. nth = Len(aux.rules)
        BY <1>1, <3>1 DEF Inv, LoaderInv
      <3> QED BY <3>1, <3>3, <3>4
    <2>2. CASE Clear \/ Restart
      BY <1>1, <2>2 DEF Clear, Restart, Initialize, EmptyTable
    <2>3. CASE UNCHANGED commands
      BY <1>1, <2>3
    <2>4. AddCommand \/ Clear \/ Restart \/ UNCHANGED commands
      <3>1. CASE LoadStep
        BY <3>1
        DEF LoadStep, ExtractFormat, FormatsDone, ExtractVendor, VendorsDone, ExtractAvp, AvpsDone,
            GroupedEntry, GroupedRule, GroupedEntryDone, GroupedDone, CheckLoops, CommandEntry,
            CommandRule, CommandsDone, EndLoop, Undefined, Throw, SetLevel, catalogue
      <3>2. CASE \E d \in Docs : Load(d)
        BY <3>2 DEF Load, catalogue
      <3>3. CASE \E id, child \in DOMAIN avps, p \in ApiPresences :
                    AddAvpRule(id, [avp |-> child, presence |-> p, qual |-> NoQual])
        BY <3>3 DEF AddAvpRule, SetLevel
      <3> QED BY <1>1, <3>1, <3>2, <3>3 DEF Next
    <2> QED BY <2>1, <2>2, <2>3, <2>4
  <1>2. Inv /\ [Next]_vars => [\A c \in DOMAIN commands' : Changed(c) => Whole(c)]_vars
    BY <1>1
  <1> QED BY <1>2, Invariance, PTL DEF Spec, CommandsAreWhole

\* After the loop check no AVP contains itself and no two contain each other.
THEOREM NoShortLoopEverPasses == Spec => NoShortLoopPasses
  <1>1. ASSUME Next, LoopsPassed PROVE \A a, b \in DOMAIN avps : ~(Edge(a, b) /\ Edge(b, a))
    <2>1. CheckLoops
      BY <1>1
      DEF LoopsPassed, Next, LoadStep, Load, ExtractFormat, FormatsDone, ExtractVendor, VendorsDone,
          ExtractAvp, AvpsDone, GroupedEntry, GroupedRule, GroupedEntryDone, GroupedDone,
          CommandEntry, CommandRule, AddCommand, CommandsDone, Clear, Restart, AddAvpRule
    <2>2. ~ShortLoop
      BY <1>1, <2>1 DEF CheckLoops, LoopsPassed, Throw, EndLoad
    <2> QED BY <2>2 DEF ShortLoop, HasChild, IsGrouped, IsChild, Edge
  <1>2. [Next]_vars => [LoopsPassed => \A a, b \in DOMAIN avps : ~(Edge(a, b) /\ Edge(b, a))]_vars
    BY <1>1
  <1> QED BY <1>2, PTL DEF Spec, NoShortLoopPasses

\* The AVPs a load changes are those its document defines.
THEOREM LoadsTouchOnlyTheirAvps == Spec => LoadTouchesOnlyItsAvps
  <1> DEFINE Defined(id) ==
        \E i \in DOMAIN Section(doc, "avp") : Defines(Section(doc, "avp")[i], id)
  <1>1. ASSUME Inv, Next, Loading, NEW id \in DOMAIN avps, avps'[id] # avps[id]
        PROVE  Defined(id)
    <2>1. CASE ExtractAvp
      <3> DEFINE a == Entry("avp")
      <3>1. AvpAccepted(a) /\ id = IdOf(a)
        BY <1>1, <2>1 DEF ExtractAvp, Throw, catalogue, Put
      <3>2. at + 1 \in DOMAIN Section(doc, "avp")
        BY <1>1, <2>1, EntryTypes DEF ExtractAvp, HasEntry, Inv, LoaderInv, LoaderTyped
      <3>3. Defines(a, id)
        BY <3>1 DEF AvpAccepted, Defines, IdOf, VendorCode
      <3> QED BY <3>2, <3>3 DEF Entry
    <2>2. CASE GroupedRule
      <3>1. phase = "rule"
        BY <2>2 DEF GroupedRule
      <3>2. id = target
        BY <1>1, <2>2 DEF GroupedRule, Throw, catalogue, SetLevel, Inv, TablesInv, TablesTyped, IsTable
      <3>3. /\ at + 1 \in 1..Len(Section(doc, "avp"))
            /\ DOMAIN Section(doc, "avp") = 1..Len(Section(doc, "avp"))
        BY <1>1, <3>1, EntryTypes DEF HasEntry, Inv, LoaderInv, LoaderTyped
      <3>4. target = avpNames[Section(doc, "avp")[at + 1].name]
        BY <1>1, <3>1 DEF Inv, LoaderInv, Entry
      <3> QED BY <1>1, <3>1, <3>2, <3>3, <3>4 DEF Inv, LoaderInv, Visited
    <2>3. CASE ~ExtractAvp /\ ~GroupedRule
      <3>1. CASE LoadStep
        BY <1>1, <2>3, <3>1
        DEF LoadStep, ExtractFormat, FormatsDone, ExtractVendor, VendorsDone, AvpsDone,
            GroupedEntry, GroupedEntryDone, GroupedDone, CheckLoops, CommandEntry, AddCommand,
            CommandRule, CommandsDone, EndLoop, Undefined, Throw, catalogue
      <3>2. CASE \E d \in Docs : Load(d)
        BY <1>1, <3>2 DEF Load, catalogue
      <3>3. CASE Clear \/ Restart
        BY <1>1, <3>3 DEF Clear, Restart, EndLoad, loader, Loading
      <3>4. CASE \E i, child \in DOMAIN avps, p \in ApiPresences :
                    AddAvpRule(i, [avp |-> child, presence |-> p, qual |-> NoQual])
        BY <1>1, <3>4 DEF AddAvpRule, loader, Loading
      <3> QED BY <1>1, <3>1, <3>2, <3>3, <3>4 DEF Next
    <2> QED BY <2>1, <2>2, <2>3
  <1>2. Inv /\ [Next]_vars =>
            [Loading => \A id \in DOMAIN avps : avps'[id] # avps[id] => Defined(id)]_vars
    BY <1>1
  <1> QED BY <1>2, Invariance, PTL DEF Spec, LoadTouchesOnlyItsAvps

----------------------------------------------------------------------------
(* Dictionary implements Catalogue: an empty dictionary is an empty          *)
(* catalogue, and each of the seven things a step does to the tables is a    *)
(* step of the catalogue or leaves it alone, which the invariant is needed   *)
(* for.                                                                      *)

\* The catalogue in the tables, as Definitions reads it.
PublishedAvps == [id \in DOMAIN avps |-> Published(avps[id])]
PublishedCommands == [c \in DOMAIN commands |-> PublishedCommand(commands[c])]

\* One entry put into a table changes that entry of the table and no other.
LEMMA PutChanges ==
    ASSUME NEW table, NEW key, NEW value
    PROVE  Definitions!Changes(table, Put(table, key, value), key)
  BY DEF Put, Definitions!Changes

\* A level is as well ordered published as it is in the tables.
LEMMA PublishedOrder ==
    ASSUME Inv, NEW def, NEW level, def.rules = level.rules, LevelOK(level), RulesResolve(level)
    PROVE  Definitions!RulesInOrder(def)
  <1>1. Definitions!FixedFirst(def)
    BY DEF LevelOK, FixedFirst, IsFixed, Definitions!FixedFirst, Definitions!IsFixed
  <1>2. Definitions!OneRulePerAvp(def)
    BY DEF LevelOK, OneRulePerAvp, Definitions!OneRulePerAvp
  <1> QED BY <1>1, <1>2 DEF RulesResolve, Definitions!RulesInOrder

\* A vendor, a format or an AVP is defined.
LEMMA FormatDefined ==
    ASSUME Inv, PutsFormat
    PROVE  Definitions!DefineFormat
  <1>1. PICK n \in Names, p \in Names : formats' = Put(formats, n, p)
    BY DEF PutsFormat
  <1>2. n \in DOMAIN formats' /\ Definitions!Changes(formats, formats', n)
    BY <1>1, PutChanges DEF Put
  <1> QED BY <1>2 DEF PutsFormat, Definitions!DefineFormat

LEMMA VendorDefined ==
    ASSUME Inv, PutsVendor
    PROVE  Definitions!DefineVendor
  <1>1. PICK c \in Nat, n \in Names : vendors' = Put(vendors, c, n)
    BY DEF PutsVendor
  <1>2. c \in DOMAIN vendors' /\ Definitions!Changes(vendors, vendors', c)
    BY <1>1, PutChanges DEF Put
  <1>3. UNCHANGED <<formats, avps, commands>>
    BY DEF PutsVendor
  <1> QED BY <1>2, <1>3 DEF Definitions!DefineVendor

LEMMA AvpDefined ==
    ASSUME Inv, PutsAvp
    PROVE  Definitions!DefineAvp
  <1>1. PICK id \in AvpIds, n \in Names, vn \in Names, v \in BOOLEAN, f \in DOMAIN formats :
            /\ v <=> id[2] # 0
            /\ id[2] # 0 => id[2] \in DOMAIN vendors
            /\ avps' = Put(avps, id, [name |-> n, vBit |-> v, vendorName |-> vn, format |-> f,
                                      level |-> EmptyLevel])
    BY DEF PutsAvp
  <1> DEFINE def == [name |-> n, vBit |-> v, vendorName |-> vn, format |-> f, rules |-> <<>>]
  <1>2. PublishedAvps' = Put(PublishedAvps, id, def)
    BY <1>1 DEF PublishedAvps, Published, Put, EmptyLevel
  <1>3. /\ id \in DOMAIN PublishedAvps' /\ PublishedAvps'[id] = def
        /\ Definitions!Changes(PublishedAvps, PublishedAvps', id)
    BY <1>2, PutChanges DEF Put
  <1>4. /\ def.format \in DOMAIN formats /\ def.rules = <<>>
        /\ def.vBit <=> id[2] # 0
        /\ id[2] # 0 => id[2] \in DOMAIN vendors
    BY <1>1
  <1>5. UNCHANGED <<formats, vendors, PublishedCommands>>
    BY DEF PutsAvp, PublishedCommands
  <1> HIDE DEF def
  <1> QED BY <1>3, <1>4, <1>5 DEF Definitions!DefineAvp, PublishedAvps, PublishedCommands

\* A rule is added, or refused and nothing published changes.
LEMMA RuleAddedOrRefused ==
    ASSUME Inv, SetsLevel
    PROVE  Definitions!AddRule \/ UNCHANGED Definitions!vars
  <1>1. PICK id \in DOMAIN avps, level \in Levels :
            /\ IsGrouped(id) /\ LevelOK(level) /\ RulesResolve(level)
            /\ \/ level.rules = avps[id].level.rules
               \/ \E rule \in Rules : level.rules = Append(avps[id].level.rules, rule)
            /\ avps' = [avps EXCEPT ![id].level = level]
    BY DEF SetsLevel
  <1> DEFINE def == [PublishedAvps[id] EXCEPT !.rules = level.rules]
  <1>2. avps[id] \in AvpSlots /\ PublishedAvps[id] = Published(avps[id])
    BY DEF Inv, TablesInv, TablesTyped, IsTable, PublishedAvps
  <1>3. avps'[id] = [avps[id] EXCEPT !.level = level]
    BY <1>1
  <1>4. Published(avps'[id]) = def
    BY <1>2, <1>3 DEF AvpSlots, Published
  <1>5. PublishedAvps' = [PublishedAvps EXCEPT ![id] = def]
    BY <1>1, <1>4 DEF PublishedAvps
  <1>6. CASE level.rules = avps[id].level.rules
    <2>1. def = PublishedAvps[id]
      BY <1>2, <1>6 DEF Published
    <2>2. PublishedAvps' = PublishedAvps
      BY <1>5, <2>1 DEF PublishedAvps
    <2> QED BY <2>2 DEF SetsLevel, Definitions!vars, PublishedAvps, PublishedCommands
  <1>7. CASE \E rule \in Rules : level.rules = Append(avps[id].level.rules, rule)
    <2>1. PICK rule \in Rules : level.rules = Append(avps[id].level.rules, rule)
      BY <1>7
    <2>2. avps[id].level.rules \in Seq(Rules) /\ PublishedAvps[id].rules = avps[id].level.rules
      BY <1>2 DEF AvpSlots, Levels, Published
    <2>3. /\ level.rules # <<>>
          /\ SubSeq(level.rules, 1, Len(level.rules) - 1) = avps[id].level.rules
      BY <2>1, <2>2
    <2>4. /\ def.rules = level.rules
          /\ PublishedAvps[id] = [def EXCEPT !.rules = SubSeq(@, 1, Len(@) - 1)]
      BY <1>2, <2>2, <2>3 DEF Published
    <2>5. Definitions!RulesInOrder(def)
      BY <1>1, <2>4, PublishedOrder
    <2>6. /\ id \in DOMAIN PublishedAvps /\ PublishedAvps'[id] = def
          /\ Definitions!Changes(PublishedAvps, PublishedAvps', id)
      BY <1>5 DEF PublishedAvps, Definitions!Changes
    <2>7. PublishedAvps[id].format = "Grouped"
      BY <1>1, <1>2 DEF IsGrouped, Published
    <2> HIDE DEF def
    <2>8. Definitions!AddRule
      BY <2>3, <2>4, <2>5, <2>6, <2>7 DEF SetsLevel, Definitions!AddRule, PublishedAvps
    <2> QED BY <2>8
  <1> QED BY <1>1, <1>6, <1>7

LEMMA CommandDefined ==
    ASSUME Inv, PutsCommand
    PROVE  Definitions!DefineCommand
  <1>1. PICK id \in CommandIds, n \in Names :
            commands' = Put(commands, id, [name |-> n, level |-> aux])
    BY DEF PutsCommand
  <1> DEFINE def == [name |-> n, rules |-> aux.rules]
  <1>2. PublishedCommands' = Put(PublishedCommands, id, def)
    BY <1>1 DEF PublishedCommands, PublishedCommand, Put
  <1>3. /\ id \in DOMAIN PublishedCommands' /\ PublishedCommands'[id] = def
        /\ Definitions!Changes(PublishedCommands, PublishedCommands', id)
    BY <1>2, PutChanges DEF Put
  <1>4. Definitions!RulesInOrder(def)
    BY PublishedOrder DEF Inv, LoaderInv
  <1>5. UNCHANGED <<formats, vendors, PublishedAvps>>
    BY DEF PutsCommand, PublishedAvps
  <1> HIDE DEF def
  <1> QED BY <1>3, <1>4, <1>5 DEF Definitions!DefineCommand, PublishedAvps, PublishedCommands

\* Whatever is loaded, added by hand or fails half-way, the tables change by one
\* whole definition or one rule at a time, and no rule once added moves.
THEOREM DictionaryImplementsCatalogue == Spec => ImplementsCatalogue
  <1>1. Init => Definitions!Init
    BY DEF Init, EmptyTable, Definitions!Init
  <1>2. ASSUME Inv, [Next]_vars
        PROVE  Definitions!Next \/ UNCHANGED Definitions!vars
    <2>1. CASE UNCHANGED catalogue
      BY <2>1 DEF catalogue, Definitions!vars
    <2>2. CASE PutsFormat
      BY <1>2, <2>2, FormatDefined DEF Definitions!Next
    <2>3. CASE PutsVendor
      BY <1>2, <2>3, VendorDefined DEF Definitions!Next
    <2>4. CASE PutsAvp
      BY <1>2, <2>4, AvpDefined DEF Definitions!Next
    <2>5. CASE SetsLevel
      BY <1>2, <2>5, RuleAddedOrRefused DEF Definitions!Next
    <2>6. CASE PutsCommand
      BY <1>2, <2>6, CommandDefined DEF Definitions!Next
    <2>7. CASE Clear \/ Restart
      <3>1. Definitions!Clear
        BY <2>7 DEF Clear, Restart, Initialize, EmptyTable, Definitions!Clear
      <3> QED BY <3>1 DEF Definitions!Next
    <2> QED BY <1>2, <2>1, <2>2, <2>3, <2>4, <2>5, <2>6, <2>7, StepCases
  <1> QED BY <1>1, <1>2, Invariance, PTL DEF Spec, ImplementsCatalogue, Definitions!Spec

----------------------------------------------------------------------------
(* What a load puts into the tables is what its document says, for every set *)
(* of names and documents: LoadedAsDefined.                                  *)
(*                                                                           *)
(* The invariant says, at every point of a load, what the entries already    *)
(* visited have got: their slot after the first loop, their first nth rules  *)
(* in the second, all of them from then on.  That later entries do not touch *)
(* them rests on the ids and names of the document being distinct.           *)

\* The first n rules of a definition, as the tables keep them.
FirstRules(a, n) == [k \in 1..n |-> RuleOf(a.rules[k])]

Placed(a) ==
    /\ a.name \in DOMAIN avpNames /\ avpNames[a.name] = IdOf(a)
    /\ IdOf(a) \in DOMAIN avps
    /\ avps[IdOf(a)].name = SlotOf(a).name /\ avps[IdOf(a)].vBit = SlotOf(a).vBit
    /\ avps[IdOf(a)].vendorName = SlotOf(a).vendorName
    /\ avps[IdOf(a)].format = SlotOf(a).format

\* Of the first n AVPs, k have all their rules and the next one has m of them.
AvpsPlaced(n, k, m) ==
    AvpsDistinct(n) =>
        \A i \in 1..n :
            /\ Placed(Section(doc, "avp")[i])
            /\ avps[IdOf(Section(doc, "avp")[i])].level.rules =
                IF i <= k THEN RulesOf(Section(doc, "avp")[i])
                ELSE IF i = k + 1 THEN FirstRules(Section(doc, "avp")[i], m) ELSE <<>>

CommandsPlaced(n) ==
    CommandsDistinct(n) =>
        \A i \in 1..n :
            /\ Section(doc, "command")[i].name \in DOMAIN commandNames
            /\ CommandIdOf(Section(doc, "command")[i]) \in DOMAIN commands
            /\ CommandAsDefined(Section(doc, "command")[i])

LoadProgress ==
    /\ phase = "avp" => AvpsPlaced(at, 0, 0)
    /\ phase \in {"grouped", "rule"} => AvpsPlaced(Len(Section(doc, "avp")), at, nth)
    /\ phase \in {"loops", "command", "building"} =>
        AvpsPlaced(Len(Section(doc, "avp")), Len(Section(doc, "avp")), 0)
    /\ phase = "loops" => at = 0
    /\ phase \in {"command", "building"} => CommandsPlaced(at)
    /\ phase = "building" => aux.rules = FirstRules(Entry("command"), nth)

----------------------------------------------------------------------------
\* With the next rule added, the rules are those of the definition, one longer.
LEMMA NextRule ==
    ASSUME NEW a, NEW n \in Nat, NEW S, NEW rules \in Seq(S), rules = FirstRules(a, n)
    PROVE  Append(rules, RuleOf(a.rules[n + 1])) = FirstRules(a, n + 1)
  <1> DEFINE R(k) == RuleOf(a.rules[k])
  <1> HIDE DEF R
  <1>1. rules = [k \in 1..n |-> R(k)]
    BY DEF FirstRules, R
  <1>2. Len(rules) = n
    BY <1>1
  <1>3. Append(rules, R(n + 1)) = [k \in 1..(n + 1) |-> R(k)]
    BY <1>1, <1>2
  <1> QED BY <1>3 DEF FirstRules, R

\* What a definition means depends on the names of vendors and AVPs only.
LEMMA SameMeaning ==
    ASSUME UNCHANGED <<avpNames, vendorNames>>
    PROVE  /\ \A a : IdOf(a)' = IdOf(a)
           /\ \A a : RulesOf(a)' = RulesOf(a)
           /\ \A a, n : FirstRules(a, n)' = FirstRules(a, n)
  BY DEF IdOf, VendorCode, RulesOf, FirstRules, RuleOf

\* A step that leaves the AVPs, the names and the document keeps the AVPs' part.
LEMMA AvpsKept ==
    ASSUME UNCHANGED <<avps, avpNames, vendorNames, doc>>, NEW n, NEW k, NEW m
    PROVE  AvpsPlaced(n, k, m) => AvpsPlaced(n, k, m)'
  <1>1. Section(doc, "avp")' = Section(doc, "avp")
    BY DEF Section
  <1>2. AvpsDistinct(n)' = AvpsDistinct(n)
    BY <1>1, SameMeaning DEF AvpsDistinct
  <1>3. \A a : Placed(a)' = Placed(a)
    BY SameMeaning DEF Placed
  <1> QED BY <1>1, <1>2, <1>3, SameMeaning DEF AvpsPlaced

\* A step that leaves the commands, the names and the document keeps theirs.
LEMMA CommandsKept ==
    ASSUME UNCHANGED <<commands, commandNames, avpNames, doc>>, NEW n
    PROVE  CommandsPlaced(n) => CommandsPlaced(n)'
  BY DEF CommandsPlaced, CommandsDistinct, CommandAsDefined, Section, RuleOf

\* The first loop's step: a new slot, which is no earlier entry's.
LEMMA AvpPlaced ==
    ASSUME Inv, LoadProgress, ExtractAvp, AvpAccepted(Entry("avp"))
    PROVE  AvpsPlaced(at, 0, 0)'
  <1> DEFINE s == Section(doc, "avp")
             a == Entry("avp")
  <1>1. /\ phase = "avp" /\ at' = at + 1 /\ UNCHANGED <<doc, vendorNames>>
        /\ avps' = Put(avps, IdOf(a), SlotOf(a))
        /\ avpNames' = Put(avpNames, a.name, IdOf(a))
    BY DEF ExtractAvp, PutName, Advance
  <1>2. at \in Nat /\ a = s[at + 1] /\ AvpsPlaced(at, 0, 0)
    BY <1>1 DEF Inv, LoaderInv, LoaderTyped, Entry, LoadProgress
  <1>3. s' = s /\ \A x : IdOf(x)' = IdOf(x)
    BY <1>1 DEF Section, IdOf, VendorCode
  <1> SUFFICES ASSUME AvpsDistinct(at)', NEW i \in 1..(at + 1)
               PROVE  Placed(s[i])' /\ (avps[IdOf(s[i])].level.rules)' = <<>>
    <2>1. \A x : FirstRules(x, 0)' = <<>>
      BY DEF FirstRules
    <2>2. \A k \in 1..(at + 1) : ~(k <= 0)
      OBVIOUS
    <2> QED BY <1>1, <1>3, <2>1, <2>2 DEF AvpsPlaced
  <1>4. \A x, y \in 1..(at + 1) : x # y => s[x].name # s[y].name /\ IdOf(s[x]) # IdOf(s[y])
    BY <1>1, <1>3 DEF AvpsDistinct
  <1>5. CASE i = at + 1
    <2>1. /\ a.name \in DOMAIN avpNames' /\ avpNames'[a.name] = IdOf(a)
          /\ IdOf(a) \in DOMAIN avps' /\ avps'[IdOf(a)] = SlotOf(a)
      BY <1>1 DEF Put
    <2>2. SlotOf(a).level.rules = <<>>
      BY DEF SlotOf, EmptyLevel
    <2>3. s[i] = a
      BY <1>2, <1>5
    <2> QED BY <1>3, <2>1, <2>2, <2>3 DEF Placed
  <1>6. CASE i \in 1..at
    <2>1. AvpsDistinct(at)
      BY <1>2, <1>4 DEF AvpsDistinct
    <2>2. Placed(s[i]) /\ avps[IdOf(s[i])].level.rules = <<>>
      <3>1. FirstRules(s[i], 0) = <<>> /\ ~(i <= 0)
        BY <1>6 DEF FirstRules
      <3> QED BY <1>2, <1>6, <2>1, <3>1 DEF AvpsPlaced
    <2>3. s[i].name # a.name /\ IdOf(s[i]) # IdOf(a)
      BY <1>2, <1>4, <1>6
    <2>4. /\ s[i].name \in DOMAIN avpNames' /\ avpNames'[s[i].name] = avpNames[s[i].name]
          /\ IdOf(s[i]) \in DOMAIN avps' /\ avps'[IdOf(s[i])] = avps[IdOf(s[i])]
      BY <1>1, <2>2, <2>3 DEF Put, Placed
    <2> QED BY <1>3, <2>2, <2>4 DEF Placed
  <1> QED BY <1>2, <1>5, <1>6

\* The second loop's step: one rule more for the entry at the cursor alone.
LEMMA RulePlaced ==
    ASSUME Inv, LoadProgress, GroupedRule, ~EndLoad
    PROVE  AvpsPlaced(Len(Section(doc, "avp")), at, nth)'
  <1> DEFINE s == Section(doc, "avp")
             a == Entry("avp")
             level == WithRule(avps[target].level, RuleOf(a.rules[nth + 1]))
  <1>1. /\ phase = "rule" /\ nth' = nth + 1
        /\ UNCHANGED <<doc, vendorNames, avpNames, at>>
        /\ avps' = [avps EXCEPT ![target].level = level]
    BY DEF GroupedRule, Throw, SetLevel
  <1>2. /\ at \in Nat /\ nth \in Nat /\ Len(s) \in Nat
        /\ at + 1 \in 1..Len(s) /\ a = s[at + 1]
        /\ target = avpNames[a.name] /\ AvpsPlaced(Len(s), at, nth)
    BY <1>1, EntryTypes DEF Inv, LoaderInv, LoaderTyped, HasEntry, Entry, LoadProgress
  <1>3. s' = s /\ AvpsDistinct(Len(s))' = AvpsDistinct(Len(s))
    BY <1>1, SameMeaning DEF Section, AvpsDistinct
  <1> SUFFICES ASSUME AvpsDistinct(Len(s)), NEW i \in 1..Len(s)
               PROVE  /\ Placed(s[i])'
                      /\ (avps[IdOf(s[i])].level.rules)' =
                            IF i <= at THEN RulesOf(s[i])
                            ELSE IF i = at + 1 THEN FirstRules(s[i], nth + 1) ELSE <<>>
    BY <1>1, <1>3, SameMeaning DEF AvpsPlaced
  <1>4. /\ Placed(s[i])
        /\ avps[IdOf(s[i])].level.rules =
                IF i <= at THEN RulesOf(s[i])
                ELSE IF i = at + 1 THEN FirstRules(s[i], nth) ELSE <<>>
    BY <1>2 DEF AvpsPlaced
  <1>5. Placed(a) /\ target = IdOf(a) /\ avps[target].level.rules = FirstRules(a, nth)
    BY <1>2 DEF AvpsPlaced, Placed
  <1>6. avps[target] \in AvpSlots /\ DOMAIN avps' = DOMAIN avps
    BY <1>1, <1>5 DEF Placed, Inv, TablesInv, TablesTyped, IsTable
  <1>7. CASE i = at + 1
    <2>1. /\ avps'[target].name = avps[target].name /\ avps'[target].vBit = avps[target].vBit
          /\ avps'[target].vendorName = avps[target].vendorName
          /\ avps'[target].format = avps[target].format
          /\ avps'[target].level = level
      BY <1>1, <1>5, <1>6 DEF Placed, AvpSlots
    <2>2. level.rules = FirstRules(a, nth + 1)
      <3>1. avps[target].level.rules \in Seq(Rules)
        BY <1>6 DEF AvpSlots, Levels
      <3>2. level.rules = Append(avps[target].level.rules, RuleOf(a.rules[nth + 1]))
        BY DEF WithRule
      <3> QED BY <1>2, <1>5, <3>1, <3>2, NextRule
    <2>3. s[i] = a /\ ~(i <= at)
      BY <1>2, <1>7
    <2> QED BY <1>1, <1>5, <1>6, <1>7, <2>1, <2>2, <2>3, SameMeaning DEF Placed
  <1>8. CASE i # at + 1
    <2>1. IdOf(s[i]) # target
      BY <1>2, <1>5, <1>8 DEF AvpsDistinct
    <2>2. avps'[IdOf(s[i])] = avps[IdOf(s[i])]
      BY <1>1, <1>4, <2>1 DEF Placed
    <2> QED BY <1>1, <1>4, <1>6, <1>8, <2>2, SameMeaning DEF Placed
  <1> QED BY <1>7, <1>8

\* The last step of extractCommands for a command: it gets its slot and name.
LEMMA CommandPlaced ==
    ASSUME Inv, LoadProgress, AddCommand
    PROVE  CommandsPlaced(at)'
  <1> DEFINE s == Section(doc, "command")
             c == Entry("command")
  <1>1. /\ phase = "building" /\ nth = Len(c.rules) /\ at' = at + 1 /\ UNCHANGED <<doc, avpNames>>
        /\ commands' = Put(commands, CommandIdOf(c), [name |-> c.name, level |-> aux])
        /\ commandNames' = Put(commandNames, c.name, CommandIdOf(c))
    BY DEF AddCommand, RulesVisited, PutName
  <1>2. /\ at \in Nat /\ c = s[at + 1] /\ c \in CommandDefs
        /\ CommandsPlaced(at) /\ aux.rules = FirstRules(c, nth)
    BY <1>1, EntryTypes DEF Inv, LoaderInv, LoaderTyped, Entry, LoadProgress
  <1>3. s' = s
    BY <1>1 DEF Section
  <1> DEFINE Rules_(d) == [k \in DOMAIN d.rules |-> RuleOf(d.rules[k])]
             Stored(d) == /\ d.name \in DOMAIN commandNames'
                          /\ commandNames'[d.name] = CommandIdOf(d)
                          /\ CommandIdOf(d) \in DOMAIN commands'
                          /\ commands'[CommandIdOf(d)].name = d.name
                          /\ commands'[CommandIdOf(d)].level.rules = Rules_(d)
  <1> SUFFICES ASSUME CommandsDistinct(at)', NEW i \in 1..(at + 1)
               PROVE  Stored(s[i])
    BY <1>1, <1>3 DEF CommandsPlaced, CommandAsDefined, RuleOf
  <1>4. \A x, y \in 1..(at + 1) :
            x # y => s[x].name # s[y].name /\ CommandIdOf(s[x]) # CommandIdOf(s[y])
    BY <1>1, <1>3 DEF CommandsDistinct
  <1>5. CASE i = at + 1
    <2>1. /\ c.name \in DOMAIN commandNames' /\ commandNames'[c.name] = CommandIdOf(c)
          /\ CommandIdOf(c) \in DOMAIN commands'
          /\ commands'[CommandIdOf(c)] = [name |-> c.name, level |-> aux]
      BY <1>1 DEF Put
    <2>2. DOMAIN c.rules = 1..nth
      BY <1>1, <1>2 DEF CommandDefs
    <2>3. aux.rules = Rules_(c)
      BY <1>2, <2>2 DEF FirstRules
    <2> QED BY <1>2, <1>5, <2>1, <2>3
  <1>6. CASE i \in 1..at
    <2>1. CommandsDistinct(at)
      BY <1>2, <1>4 DEF CommandsDistinct
    <2>2. /\ s[i].name \in DOMAIN commandNames /\ CommandIdOf(s[i]) \in DOMAIN commands
          /\ CommandAsDefined(s[i])
      BY <1>2, <1>6, <2>1 DEF CommandsPlaced
    <2>3. s[i].name # c.name /\ CommandIdOf(s[i]) # CommandIdOf(c)
      BY <1>2, <1>4, <1>6
    <2>4. /\ s[i].name \in DOMAIN commandNames'
          /\ commandNames'[s[i].name] = commandNames[s[i].name]
          /\ CommandIdOf(s[i]) \in DOMAIN commands'
          /\ commands'[CommandIdOf(s[i])] = commands[CommandIdOf(s[i])]
      BY <1>1, <2>2, <2>3 DEF Put
    <2> QED BY <2>2, <2>4 DEF CommandAsDefined
  <1> QED BY <1>2, <1>5, <1>6

\* The slot of an AVP but for its rules.
LEMMA Emptied ==
    ASSUME NEW r \in AvpSlots
    PROVE  [r EXCEPT !.level = EmptyLevel] =
                [name |-> r.name, vBit |-> r.vBit, vendorName |-> r.vendorName,
                 format |-> r.format, level |-> EmptyLevel]
  BY DEF AvpSlots

\* Where no load runs there is nothing to say.
LEMMA NoProgress ==
    ASSUME phase' \in {"idle", "format", "vendor", "dead"}
    PROVE  LoadProgress'
  BY DEF LoadProgress

\* The progress of the loader is invariant.
LEMMA ProgressStep ==
    ASSUME Inv, LoadProgress, [Next]_vars
    PROVE  LoadProgress'
  <1> DEFINE n == Len(Section(doc, "avp"))
  <1>1. CASE UNCHANGED vars
    <2>1. /\ UNCHANGED <<avps, avpNames, vendorNames, doc, commands, commandNames>>
          /\ UNCHANGED <<phase, at, nth, aux>>
      BY <1>1 DEF vars
    <2>2. /\ UNCHANGED n /\ UNCHANGED Entry("command")
      BY <2>1 DEF Section, Entry
    <2> QED BY <2>1, <2>2, AvpsKept, CommandsKept, SameMeaning DEF LoadProgress
  <1>2. CASE \E d \in Docs : Load(d)
    BY <1>2, NoProgress DEF Load
  <1>3. CASE ExtractFormat \/ ExtractVendor \/ FormatsDone
    <2>1. phase' \in {"idle", "format", "vendor", "dead"}
      BY <1>3 DEF ExtractFormat, ExtractVendor, FormatsDone, EndLoop, Undefined, Throw, EndLoad,
                  Advance
    <2> QED BY <2>1, NoProgress
  <1>4. CASE VendorsDone
    <2>1. phase' = "avp" /\ at' = 0
      BY <1>4 DEF VendorsDone, EndLoop
    <2>2. AvpsPlaced(0, 0, 0)'
      BY DEF AvpsPlaced
    <2> QED BY <2>1, <2>2 DEF LoadProgress, AvpsPlaced
  <1>5. CASE ExtractAvp
    <2>1. CASE AvpAccepted(Entry("avp"))
      <3>1. phase' = "avp"
        BY <1>5, <2>1 DEF ExtractAvp, Advance
      <3> QED BY <1>5, <2>1, <3>1, AvpPlaced DEF LoadProgress
    <2>2. CASE ~AvpAccepted(Entry("avp"))
      BY <1>5, <2>2, NoProgress DEF ExtractAvp, Throw, EndLoad
    <2> QED BY <2>1, <2>2
  <1>6. CASE AvpsDone
    <2>1. /\ phase = "avp" /\ phase' = "grouped" /\ ~HasEntry("avp") /\ at' = 0
          /\ UNCHANGED <<avps, avpNames, vendorNames, doc, nth>>
      BY <1>6 DEF AvpsDone, EndLoop, catalogue
    <2>2. at = n /\ nth = 0
      <3>1. n \in Nat /\ at \in Nat
        BY EntryTypes DEF Inv, LoaderInv, LoaderTyped
      <3> QED BY <2>1, <3>1 DEF Inv, LoaderInv, HasEntry
    <2>3. AvpsPlaced(n, 0, 0)'
      BY <2>1, <2>2, AvpsKept DEF LoadProgress, Section
    <2> QED BY <2>1, <2>2, <2>3 DEF LoadProgress
  <1>7. CASE GroupedEntry
    <2> DEFINE a == Entry("avp")
    <2>1. /\ phase = "grouped" /\ HasEntry("avp")
          /\ UNCHANGED catalogue
      BY <1>7 DEF GroupedEntry, Undefined, Throw
    <2>2. AvpsPlaced(n, at, nth)
      BY <2>1 DEF LoadProgress
    <2>3. CASE phase' \in {"idle", "dead"}
      BY <2>3, NoProgress
    <2>4. CASE phase' = "rule" /\ UNCHANGED <<doc, at, nth>>
      <3>1. UNCHANGED <<avps, avpNames, vendorNames>> /\ UNCHANGED n
        BY <2>1, <2>4 DEF catalogue, Section
      <3> QED BY <2>2, <2>4, <3>1, AvpsKept DEF LoadProgress
    <2>5. CASE ~IsGrouped(avpNames[a.name]) /\ Advance
      <3>1. at \in Nat /\ n \in Nat /\ at + 1 \in 1..n /\ a = Section(doc, "avp")[at + 1] /\ nth = 0
        BY <2>1, EntryTypes DEF Inv, LoaderInv, LoaderTyped, HasEntry, Entry
      <3>2. AvpsPlaced(n, at + 1, 0)
        <4> SUFFICES ASSUME AvpsDistinct(n), NEW i \in 1..n
                     PROVE  /\ Placed(Section(doc, "avp")[i])
                            /\ avps[IdOf(Section(doc, "avp")[i])].level.rules =
                                IF i <= at + 1 THEN RulesOf(Section(doc, "avp")[i])
                                ELSE IF i = at + 2 THEN FirstRules(Section(doc, "avp")[i], 0)
                                ELSE <<>>
          BY <3>1 DEF AvpsPlaced
        <4>1. \A x : FirstRules(x, 0) = <<>>
          BY DEF FirstRules
        <4>2. /\ Placed(Section(doc, "avp")[i])
              /\ avps[IdOf(Section(doc, "avp")[i])].level.rules =
                    IF i <= at THEN RulesOf(Section(doc, "avp")[i]) ELSE <<>>
          BY <2>2, <3>1, <4>1 DEF AvpsPlaced
        <4>3. i = at + 1 => RulesOf(Section(doc, "avp")[i]) = <<>>
          BY <2>5, <3>1, <4>2 DEF Placed, IsGrouped, SlotOf, RulesOf
        <4> QED BY <3>1, <4>1, <4>2, <4>3
      <3>3. phase' = "grouped" /\ at' = at + 1 /\ nth' = 0
        BY <2>1, <2>5, <3>1 DEF Advance
      <3>4. UNCHANGED <<avps, avpNames, vendorNames, doc>> /\ UNCHANGED n
        BY <2>1, <2>5 DEF Advance, catalogue, Section
      <3> QED BY <3>2, <3>3, <3>4, AvpsKept DEF LoadProgress
    <2> QED
      BY <1>7, <2>3, <2>4, <2>5 DEF GroupedEntry, Undefined, Throw, EndLoad
  <1>8. CASE GroupedRule
    <2>1. CASE EndLoad
      BY <2>1, NoProgress DEF EndLoad
    <2>2. CASE ~EndLoad
      <3>1. phase' = "rule"
        BY <1>8, <2>2 DEF GroupedRule, Throw
      <3> QED BY <1>8, <2>2, <3>1, RulePlaced DEF LoadProgress, GroupedRule, Throw, Section
    <2> QED BY <2>1, <2>2
  <1>9. CASE GroupedEntryDone
    <2> DEFINE a == Entry("avp")
    <2>1. /\ phase = "rule" /\ nth = Len(a.rules)
          /\ phase' = "grouped" /\ at' = at + 1 /\ nth' = 0
          /\ UNCHANGED <<avps, avpNames, vendorNames, doc>>
      BY <1>9 DEF GroupedEntryDone, catalogue
    <2>2. /\ AvpsPlaced(n, at, nth) /\ UNCHANGED n /\ IsGrouped(avpNames[a.name])
          /\ a.rules \in Seq(RuleDefs) /\ a = Section(doc, "avp")[at + 1]
          /\ at \in Nat /\ n \in Nat /\ at + 1 \in 1..n
      BY <2>1, EntryTypes DEF LoadProgress, Section, Inv, LoaderInv, LoaderTyped, HasEntry, Entry
    <2>3. AvpsPlaced(n, at + 1, 0)
      <3> SUFFICES ASSUME AvpsDistinct(n), NEW i \in 1..n
                   PROVE  /\ Placed(Section(doc, "avp")[i])
                          /\ avps[IdOf(Section(doc, "avp")[i])].level.rules =
                              IF i <= at + 1 THEN RulesOf(Section(doc, "avp")[i])
                              ELSE IF i = at + 2 THEN FirstRules(Section(doc, "avp")[i], 0)
                              ELSE <<>>
        BY <2>2 DEF AvpsPlaced
      <3>1. \A x : FirstRules(x, 0) = <<>>
        BY DEF FirstRules
      <3>2. /\ Placed(Section(doc, "avp")[i])
            /\ avps[IdOf(Section(doc, "avp")[i])].level.rules =
                  IF i <= at THEN RulesOf(Section(doc, "avp")[i])
                  ELSE IF i = at + 1 THEN FirstRules(Section(doc, "avp")[i], nth) ELSE <<>>
        BY <2>2 DEF AvpsPlaced
      <3>3. i = at + 1 => RulesOf(Section(doc, "avp")[i]) = FirstRules(Section(doc, "avp")[i], nth)
        <4>1. DOMAIN a.rules = 1..nth
          BY <2>1, <2>2
        <4>2. i = at + 1 => FormatOf(a) = "Grouped"
          BY <2>2, <3>2 DEF Placed, IsGrouped, SlotOf
        <4> QED BY <2>2, <4>1, <4>2 DEF RulesOf, FirstRules
      <3> QED BY <2>2, <3>1, <3>2, <3>3
    <2> QED BY <2>1, <2>2, <2>3, AvpsKept DEF LoadProgress
  <1>10. CASE GroupedDone
    <2>1. /\ phase = "grouped" /\ phase' = "loops" /\ ~HasEntry("avp") /\ at' = 0
          /\ UNCHANGED <<avps, avpNames, vendorNames, doc>>
      BY <1>10 DEF GroupedDone, EndLoop, catalogue
    <2>2. AvpsPlaced(n, at, nth) /\ UNCHANGED n /\ at >= n /\ n \in Nat /\ at \in Nat
      BY <2>1, EntryTypes DEF LoadProgress, Section, HasEntry, Inv, LoaderInv, LoaderTyped
    <2>3. AvpsPlaced(n, n, 0)
      <3>1. \A i \in 1..n : i <= n /\ i <= at
        BY <2>2
      <3> QED BY <2>2, <3>1 DEF AvpsPlaced
    <2> QED BY <2>1, <2>2, <2>3, AvpsKept DEF LoadProgress
  <1>11. CASE CheckLoops
    <2>1. CASE phase' = "idle"
      BY <2>1, NoProgress
    <2>2. CASE phase' # "idle"
      <3>1. /\ phase = "loops" /\ phase' = "command"
            /\ UNCHANGED <<avps, avpNames, vendorNames, doc, at>>
        BY <1>11, <2>2 DEF CheckLoops, Throw, EndLoad, catalogue
      <3>2. AvpsPlaced(n, n, 0) /\ UNCHANGED n /\ at = 0
        BY <3>1 DEF LoadProgress, Section
      <3>3. CommandsPlaced(0)'
        BY DEF CommandsPlaced
      <3> QED BY <3>1, <3>2, <3>3, AvpsKept DEF LoadProgress, CommandsPlaced
    <2> QED BY <2>1, <2>2
  <1>12. CASE CommandEntry
    <2>1. CASE phase' = "idle"
      BY <2>1, NoProgress
    <2>2. CASE phase' # "idle"
      <3>1. /\ phase = "command" /\ phase' = "building"
            /\ UNCHANGED <<avps, avpNames, vendorNames, commands, commandNames>>
            /\ UNCHANGED <<doc, at, nth, aux>>
        BY <1>12, <2>2 DEF CommandEntry, Throw, EndLoad, catalogue
      <3>2. AvpsPlaced(n, n, 0) /\ UNCHANGED n /\ CommandsPlaced(at)
        BY <3>1 DEF LoadProgress, Section
      <3>3. aux.rules = <<>> /\ nth = 0
        BY <3>1 DEF Inv, LoaderInv, EmptyLevel
      <3>4. FirstRules(Entry("command"), 0)' = <<>>
        BY DEF FirstRules
      <3> QED BY <3>1, <3>2, <3>3, <3>4, AvpsKept, CommandsKept DEF LoadProgress, FirstRules
    <2> QED BY <2>1, <2>2
  <1>13. CASE CommandRule
    <2>1. CASE phase' = "idle"
      BY <2>1, NoProgress
    <2>2. CASE phase' # "idle"
      <3> DEFINE c == Entry("command")
      <3>1. /\ phase = "building" /\ phase' = "building"
            /\ UNCHANGED <<avps, avpNames, vendorNames, commands, commandNames, doc, at>>
            /\ aux' = WithRule(aux, RuleOf(c.rules[nth + 1])) /\ nth' = nth + 1
        BY <1>13, <2>2 DEF CommandRule, Throw, EndLoad, catalogue
      <3>2. AvpsPlaced(n, n, 0) /\ UNCHANGED n /\ UNCHANGED c /\ CommandsPlaced(at)
        BY <3>1 DEF LoadProgress, Section, Entry
      <3>3. aux'.rules = FirstRules(c, nth + 1)
        <4>1. aux.rules = FirstRules(c, nth) /\ aux.rules \in Seq(Rules) /\ nth \in Nat
          BY <3>1 DEF LoadProgress, Inv, LoaderInv, LoaderTyped, Levels
        <4>2. aux'.rules = Append(aux.rules, RuleOf(c.rules[nth + 1]))
          BY <3>1 DEF WithRule
        <4> QED BY <4>1, <4>2, NextRule
      <3> QED BY <3>1, <3>2, <3>3, AvpsKept, CommandsKept, SameMeaning DEF LoadProgress
    <2> QED BY <2>1, <2>2
  <1>14. CASE AddCommand
    <2>1. /\ phase = "building" /\ phase' = "command"
          /\ UNCHANGED <<avps, avpNames, vendorNames, doc>>
      BY <1>14 DEF AddCommand
    <2>2. AvpsPlaced(n, n, 0) /\ UNCHANGED n
      BY <2>1 DEF LoadProgress, Section
    <2> QED BY <1>14, <2>1, <2>2, AvpsKept, CommandPlaced DEF LoadProgress
  <1>15. CASE CommandsDone \/ Restart
    BY <1>15, NoProgress DEF CommandsDone, Restart, EndLoad
  <1>16. CASE Clear \/ \E id, child \in DOMAIN avps, p \in ApiPresences :
                            AddAvpRule(id, [avp |-> child, presence |-> p, qual |-> NoQual])
    BY <1>16, NoProgress DEF Clear, AddAvpRule, loader
  <1> QED
    BY <1>1, <1>2, <1>3, <1>4, <1>5, <1>6, <1>7, <1>8, <1>9, <1>10, <1>11, <1>12, <1>13, <1>14,
       <1>15, <1>16
    DEF Next, LoadStep

\* So at the end of a load the entries are as defined.
LEMMA ProgressSuffices ==
    ASSUME Inv, LoadProgress
    PROVE  LoadedAsDefined
  <1> DEFINE s == Section(doc, "avp")
  <1>1. ASSUME phase \in {"loops", "command", "building"}, AvpsDistinct(Len(s)),
               NEW i \in DOMAIN s
        PROVE  AvpAsDefined(s[i])
    <2>1. i \in 1..Len(s) /\ i <= Len(s)
      BY EntryTypes DEF Inv, LoaderInv
    <2>2. Placed(s[i]) /\ avps[IdOf(s[i])].level.rules = RulesOf(s[i])
      BY <1>1, <2>1 DEF LoadProgress, AvpsPlaced
    <2>3. avps[IdOf(s[i])] \in AvpSlots
      BY <2>2 DEF Placed, Inv, TablesInv, TablesTyped, IsTable
    <2>4. [avps[IdOf(s[i])] EXCEPT !.level = EmptyLevel] = SlotOf(s[i])
      BY <2>2, <2>3, Emptied DEF Placed, SlotOf
    <2> QED BY <2>2, <2>4 DEF Placed, AvpAsDefined
  <1>2. ASSUME phase \in {"command", "building"}, CommandsDistinct(at), NEW i \in 1..at
        PROVE  CommandAsDefined(Section(doc, "command")[i])
    BY <1>2 DEF LoadProgress, CommandsPlaced
  <1> QED BY <1>1, <1>2 DEF LoadedAsDefined

----------------------------------------------------------------------------
\* A load that gets to its commands has put every AVP of its document into the
\* tables as defined, and every command it went past, whatever they held.
THEOREM LoadsAsDefined == Spec => []LoadedAsDefined
  <1>1. Init => LoadProgress
    BY DEF Init, LoadProgress
  <1>2. Inv /\ LoadProgress /\ [Next]_vars => LoadProgress'
    BY ProgressStep
  <1>3. Inv /\ LoadProgress => LoadedAsDefined
    BY ProgressSuffices
  <1> QED BY <1>1, <1>2, <1>3, Invariance, PTL DEF Spec
=============================================================================
