------------------------- MODULE CodecSessionProofs -------------------------
(* What holds of a message whose dictionary changes under it, for every      *)
(* dictionary and every message: its length is the length it is encoded to,  *)
(* and what a decode or a fromJson made is encoded as it was then.           *)
(*                                                                           *)
(* AvpCodecProofs says what the codec does under one dictionary.  Its lemmas *)
(* hold of the tables of any state of the session, because the invariant of  *)
(* Dictionary gives what AvpCodec assumes of them (TablesServe).             *)
EXTENDS CodecSession, DictionaryProofs

P == INSTANCE AvpCodecProofs WITH Dict <- View, Index <- avpNames

----------------------------------------------------------------------------
(* P and Codec are both AvpCodec over the tables as they are.                *)

LEMMA SameSets ==
    /\ P!SignedNumbers = Codec!SignedNumbers
    /\ P!OctetStrings = Codec!OctetStrings
    /\ P!Avps = Codec!Avps
    /\ P!JsonElements = Codec!JsonElements
    /\ P!JsonValues = Codec!JsonValues
    /\ \A v : P!EntriesOf(v) = Codec!EntriesOf(v)
  <1>1. /\ P!SignedNumbers = Codec!SignedNumbers
        /\ P!OctetStrings = Codec!OctetStrings
        /\ P!Avps = Codec!Avps
    BY DEF P!SignedNumbers, Codec!SignedNumbers, P!Values, Codec!Values, P!OctetStrings,
           Codec!OctetStrings, P!Octet, Codec!Octet, P!Avps, Codec!Avps, P!Nested,
           Codec!Nested, P!AvpsWith, Codec!AvpsWith, P!Texts,
           Codec!Texts, P!DataWith, Codec!DataWith, P!NumbersOf,
           Codec!NumbersOf, P!SignedOf, Codec!SignedOf, P!UnsignedOf, Codec!UnsignedOf, P!AvpIds, Codec!AvpIds
  <1>2. /\ P!JsonElements = Codec!JsonElements
        /\ P!JsonValues = Codec!JsonValues
        /\ \A v : P!EntriesOf(v) = Codec!EntriesOf(v)
    BY DEF P!JsonElements, Codec!JsonElements, P!JsonValues, Codec!JsonValues, P!JsonNested,
           Codec!JsonNested, P!EntriesOf, Codec!EntriesOf, P!Keys, Codec!Keys, P!JsonWith,
           Codec!JsonWith, P!Texts, Codec!Texts, P!Octet,
           Codec!Octet
  <1> QED BY <1>1, <1>2

LEMMA SameWire ==
    /\ \A s : P!AllAvps(s) = Codec!AllAvps(s)
    /\ \A a : P!Encodable(a) = Codec!Encodable(a)
    /\ \A s : P!EncodeAll(s) = Codec!EncodeAll(s)
    /\ \A s : P!LengthOfAll(s) = Codec!LengthOfAll(s)
  <1>1. \A s : P!AllAvps(s) = Codec!AllAvps(s)
    BY DEF P!AllAvps, Codec!AllAvps, P!Parts, Codec!Parts, P!Avps, Codec!Avps, P!Nested,
           Codec!Nested, P!AvpsWith, Codec!AvpsWith, P!Texts,
           Codec!Texts, P!Octet, Codec!Octet, P!DataWith, Codec!DataWith, P!NumbersOf,
           Codec!NumbersOf, P!SignedOf, Codec!SignedOf, P!UnsignedOf, Codec!UnsignedOf, P!AvpIds, Codec!AvpIds,
           P!SignedNumbers, Codec!SignedNumbers, P!Values, Codec!Values
  <1>2. \A a : P!Encodable(a) = Codec!Encodable(a)
    BY DEF P!Encodable, Codec!Encodable, P!IsAddress, Codec!IsAddress, P!SpellsHost,
           Codec!SpellsHost, P!Separator, Codec!Separator, P!CodingType, Codec!CodingType, P!FormatType,
           Codec!FormatType, P!Parts, Codec!Parts, P!Avps, Codec!Avps, P!Nested,
           Codec!Nested, P!AvpsWith, Codec!AvpsWith, P!Texts,
           Codec!Texts, P!Octet, Codec!Octet, P!DataWith, Codec!DataWith, P!NumbersOf,
           Codec!NumbersOf, P!SignedOf, Codec!SignedOf, P!UnsignedOf, Codec!UnsignedOf, P!AvpIds, Codec!AvpIds,
           P!SignedNumbers, Codec!SignedNumbers, P!Values, Codec!Values, P!Holds,
           Codec!Holds, P!HoldsData, Codec!HoldsData, P!HoldsNumber, Codec!HoldsNumber,
           P!Kind, Codec!Kind, P!Unsigned, Codec!Unsigned, P!IsNumber, Codec!IsNumber,
           P!Width, Codec!Width
  <1>3. \A s : P!EncodeAll(s) = Codec!EncodeAll(s)
    BY DEF P!EncodeAll, Codec!EncodeAll, P!Encode, Codec!Encode, P!EncodeData,
           Codec!EncodeData, P!HostOf, Codec!HostOf, P!SpellsHost, Codec!SpellsHost,
           P!Separator, Codec!Separator, P!Joined, Codec!Joined,
           P!Cardinality, Codec!Cardinality, P!Family, Codec!Family, P!Octets, Codec!Octets,
           P!Values, Codec!Values, P!Unsigned, Codec!Unsigned, P!Width, Codec!Width,
           P!IsNumber, Codec!IsNumber, P!CodingType, Codec!CodingType, P!FormatType,
           Codec!FormatType, P!Framed, Codec!Framed, P!Padded, Codec!Padded, P!HasVendorBit,
           Codec!HasVendorBit, P!FlagVendor, Codec!FlagVendor, P!Avps, Codec!Avps, P!Nested,
           Codec!Nested, P!AvpsWith, Codec!AvpsWith, P!Texts,
           Codec!Texts, P!Octet, Codec!Octet, P!DataWith, Codec!DataWith, P!NumbersOf,
           Codec!NumbersOf, P!SignedOf, Codec!SignedOf, P!UnsignedOf, Codec!UnsignedOf, P!AvpIds, Codec!AvpIds,
           P!SignedNumbers, Codec!SignedNumbers
  <1>4. \A s : P!LengthOfAll(s) = Codec!LengthOfAll(s)
    BY DEF P!LengthOfAll, Codec!LengthOfAll, P!LengthOf, Codec!LengthOf, P!SpellsHost,
           Codec!SpellsHost, P!Separator, Codec!Separator, P!Joined, Codec!Joined, P!Cardinality, Codec!Cardinality,
           P!Together, Codec!Together, P!Padded, Codec!Padded, P!Total, Codec!Total,
           P!Width, Codec!Width, P!Unsigned, Codec!Unsigned, P!Values, Codec!Values,
           P!IsNumber, Codec!IsNumber, P!HeaderLen, Codec!HeaderLen, P!HasVendorBit,
           Codec!HasVendorBit, P!FlagVendor, Codec!FlagVendor, P!CodingType,
           Codec!CodingType, P!FormatType, Codec!FormatType, P!Avps, Codec!Avps, P!Nested,
           Codec!Nested, P!AvpsWith, Codec!AvpsWith, P!Texts,
           Codec!Texts, P!Octet, Codec!Octet, P!DataWith, Codec!DataWith, P!NumbersOf,
           Codec!NumbersOf, P!SignedOf, Codec!SignedOf, P!UnsignedOf, Codec!UnsignedOf, P!AvpIds, Codec!AvpIds,
           P!SignedNumbers, Codec!SignedNumbers
  <1> QED BY <1>1, <1>2, <1>3, <1>4

\* DecodeAll of some octets from what it is of fewer, as Codec has it.
DecodeAllWith(f, octets) ==
    IF octets = <<>> THEN [ok |-> TRUE, avps |-> <<>>]
    ELSE LET first == Codec!DecodeInto(Codec!NewAvp, octets, f[Codec!DataIn(octets)]) IN
         IF ~first.ok THEN Codec!Failure
         ELSE LET rest == f[Codec!Behind(octets)]
              IN  [ok |-> rest.ok, avps |-> <<first.avp>> \o rest.avps]

LEMMA SameDecoding == P!DecodeAll = Codec!DecodeAll
  <1>1. ASSUME NEW octets
        PROVE  /\ P!LengthIn(octets) = Codec!LengthIn(octets)
               /\ P!HeaderLenIn(octets) = Codec!HeaderLenIn(octets)
               /\ P!IdIn(octets) = Codec!IdIn(octets)
    <2>1. /\ P!LengthIn(octets) = Codec!LengthIn(octets)
          /\ P!HeaderLenIn(octets) = Codec!HeaderLenIn(octets)
      BY DEF P!LengthIn, Codec!LengthIn, P!Number, Codec!Number, P!HeaderLenIn,
             Codec!HeaderLenIn, P!HasVendorBit, Codec!HasVendorBit, P!FlagVendor,
             Codec!FlagVendor
    <2>2. P!IdIn(octets) = Codec!IdIn(octets)
      BY DEF P!IdIn, Codec!IdIn, P!Number, Codec!Number, P!Signed, Codec!Signed, P!Values,
             Codec!Values, P!Unsigned, Codec!Unsigned, P!HasVendorBit, Codec!HasVendorBit,
             P!FlagVendor, Codec!FlagVendor
    <2> QED BY <2>1, <2>2
  <1>2. ASSUME NEW type, NEW octets, NEW kids
        PROVE  P!DecodeData(type, octets, kids) = Codec!DecodeData(type, octets, kids)
    BY DEF P!DecodeData, Codec!DecodeData, P!Str, Codec!Str, P!Unset, Codec!Unset, P!AddressText, Codec!AddressText, P!HostText, Codec!HostText,
           P!Separator, Codec!Separator, P!ToHex, Codec!ToHex, P!Number, Codec!Number, P!Kids,
           Codec!Kids, P!AsTyped, Codec!AsTyped, P!Width, Codec!Width, P!Unsigned,
           Codec!Unsigned, P!Values, Codec!Values, P!Signed, Codec!Signed, P!IsSigned,
           Codec!IsSigned, P!Kind, Codec!Kind, P!Num, Codec!Num, P!IsNumber, Codec!IsNumber
  <1>3. ASSUME NEW octets
        PROVE  P!DataIn(octets) = Codec!DataIn(octets) /\ P!Behind(octets) = Codec!Behind(octets)
    BY <1>1
    DEF P!DataIn, Codec!DataIn, P!Behind, Codec!Behind, P!Padded, Codec!Padded
  <1>4. ASSUME NEW avp, NEW octets, NEW kids
        PROVE  P!DecodeInto(avp, octets, kids) = Codec!DecodeInto(avp, octets, kids)
    <2>1. P!DecodeData(P!FormatType(P!IdIn(octets)), P!DataIn(octets), kids)
            = Codec!DecodeData(Codec!FormatType(Codec!IdIn(octets)), Codec!DataIn(octets), kids)
      <3>1. \A id : P!FormatType(id) = Codec!FormatType(id)
        BY DEF P!FormatType, Codec!FormatType
      <3> QED BY <1>1, <1>2, <1>3, <3>1
    <2>2. /\ P!LengthIn(octets) = Codec!LengthIn(octets)
          /\ P!HeaderLenIn(octets) = Codec!HeaderLenIn(octets)
          /\ P!IdIn(octets) = Codec!IdIn(octets)
      BY <1>1
    <2> QED BY ONLY <2>1, <2>2 DEF P!DecodeInto, Codec!DecodeInto
  <1>5. ASSUME NEW f, NEW octets
        PROVE  P!DecodeAllWith(f, octets) = DecodeAllWith(f, octets)
    <2>1. P!DecodeInto(P!NewAvp, octets, f[P!DataIn(octets)])
             = Codec!DecodeInto(Codec!NewAvp, octets, f[Codec!DataIn(octets)])
      <3>1. P!NewAvp = Codec!NewAvp
        BY DEF P!NewAvp, Codec!NewAvp, P!Unset, Codec!Unset
      <3> QED BY <1>3, <1>4, <3>1
    <2>2. P!Failure = Codec!Failure
      BY DEF P!Failure, Codec!Failure
    <2>3. P!Behind(octets) = Codec!Behind(octets)
      BY <1>3
    <2> QED BY ONLY <2>1, <2>2, <2>3 DEF P!DecodeAllWith, DecodeAllWith
  <1>6. P!DecodeAll = CHOOSE f : f = [octets \in P!OctetStrings |-> P!DecodeAllWith(f, octets)]
    BY DEF P!DecodeAll, P!DecodeAllWith
  <1>7. Codec!DecodeAll =
            CHOOSE f : f = [octets \in Codec!OctetStrings |-> DecodeAllWith(f, octets)]
    BY DEF Codec!DecodeAll, DecodeAllWith
  <1>8. \A f : [octets \in P!OctetStrings |-> P!DecodeAllWith(f, octets)] =
                [octets \in Codec!OctetStrings |-> DecodeAllWith(f, octets)]
    BY <1>5, SameSets
  <1> QED BY <1>6, <1>7, <1>8, Zenon

LEMMA SameSort ==
    \A s, rules : P!SortByRules(s, rules) = Codec!SortByRules(s, rules)
  BY DEF P!SortByRules, Codec!SortByRules, P!InKeyOrder, Codec!InKeyOrder, P!Cardinality,
         Codec!Cardinality, P!Rank, Codec!Rank

LEMMA SameData ==
    \A id, value, kids : P!DataFromJson(id, value, kids) = Codec!DataFromJson(id, value, kids)
  <1>1. \A id, kids : P!GroupedData(id, kids) = Codec!GroupedData(id, kids)
    BY SameSort
    DEF P!GroupedData, Codec!GroupedData, P!Kids, Codec!Kids, P!Unset, Codec!Unset
  <1>2. \A id : P!FormatType(id) = Codec!FormatType(id)
    BY DEF P!FormatType, Codec!FormatType
  <1>3. \A v, type : P!AsTyped(v, type) = Codec!AsTyped(v, type)
    BY DEF P!AsTyped, Codec!AsTyped, P!Width, Codec!Width, P!Unsigned, Codec!Unsigned,
           P!Values, Codec!Values, P!Signed, Codec!Signed, P!IsSigned, Codec!IsSigned
  <1>4. \A kind, v : P!Num(kind, v) = Codec!Num(kind, v)
    BY DEF P!Num, Codec!Num, P!Unset, Codec!Unset
  <1>5. \A text : P!Str(text) = Codec!Str(text)
    BY DEF P!Str, Codec!Str, P!Unset, Codec!Unset
  <1>6. /\ \A value : P!IsHexText(value) = Codec!IsHexText(value)
        /\ \A text : P!FromHex(text) = Codec!FromHex(text)
    BY DEF P!IsHexText, Codec!IsHexText, P!IsHex, Codec!IsHex, P!FromHex, Codec!FromHex
  <1> QED
    BY <1>1, <1>2, <1>3, <1>4, <1>5, <1>6
    DEF P!DataFromJson, Codec!DataFromJson, P!IsText, Codec!IsText,
        P!Unset, Codec!Unset, P!IsIterable, Codec!IsIterable,
        P!Kind, Codec!Kind, P!Unsigned, Codec!Unsigned, P!Values, Codec!Values, P!IsNumber,
        Codec!IsNumber, P!Width, Codec!Width

LEMMA SameRead ==
    \A items : P!FromMessage(items) = Codec!FromMessage(items)
  <1>1. \A id, read : P!Named(id, read) = Codec!Named(id, read)
    BY DEF P!Named, Codec!Named, P!Failure, Codec!Failure, P!NewAvp, Codec!NewAvp, P!Unset,
           Codec!Unset, P!FlagMandatory, Codec!FlagMandatory,
           P!FlagVendor, Codec!FlagVendor
  <1>2. \A key, value : P!RawFromJson(key, value) = Codec!RawFromJson(key, value)
    BY DEF P!RawFromJson, Codec!RawFromJson, P!Failure, Codec!Failure, P!RawAvp,
           Codec!RawAvp, P!Str, Codec!Str, P!Unset, Codec!Unset, P!Signed, Codec!Signed, P!Values, Codec!Values, P!Unsigned, Codec!Unsigned,
           P!IsRawKey, Codec!IsRawKey, P!FlagVendor, Codec!FlagVendor, P!FlagsKey,
           Codec!FlagsKey, P!HasKey, Codec!HasKey, P!Octet, Codec!Octet, P!Found,
           Codec!Found, P!IsHexText, Codec!IsHexText, P!IsHex, Codec!IsHex, P!FromHex,
           Codec!FromHex, P!HexKey, Codec!HexKey
  <1>3. \A key, value, kids : P!AvpFromJson(key, value, kids) = Codec!AvpFromJson(key, value, kids)
    BY <1>1, <1>2, SameData
    DEF P!AvpFromJson, Codec!AvpFromJson, P!IdOf, Codec!IdOf, P!Known, Codec!Known
  <1>4. \A built : P!Gathered(built) = Codec!Gathered(built)
    BY DEF P!Gathered, Codec!Gathered, P!Failure, Codec!Failure, P!Joined, Codec!Joined,
           P!Cardinality, Codec!Cardinality
  <1>5. \A items : P!Visited(items) = Codec!Visited(items)
    BY DEF P!Visited, Codec!Visited, P!Joined, Codec!Joined, P!Cardinality,
           Codec!Cardinality
  <1>6. P!FromJson = Codec!FromJson
    BY <1>3, <1>4, <1>5, SameSets
    DEF P!FromJson, Codec!FromJson
  <1>7. \A items : P!FromItems(items) = Codec!FromItems(items)
    BY <1>4, <1>5, <1>6
    DEF P!FromItems, Codec!FromItems
  <1>8. P!Passed = Codec!Passed /\ P!HeaderKey = Codec!HeaderKey
    BY DEF P!Passed, Codec!Passed, P!HeaderKey, Codec!HeaderKey
  <1> QED BY <1>7, <1>8 DEF P!FromMessage, Codec!FromMessage

----------------------------------------------------------------------------
(* The tables are what AvpCodec assumes.                                     *)

\* The codec of no dictionary, for what no dictionary plays a part in.
None == INSTANCE AvpCodecProofs WITH Dict <- EmptyTable, Index <- EmptyTable

LEMMA OctetsServe ==
    /\ P!SizeAssumption /\ P!DigitsAssumption
    /\ None!SizeAssumption /\ None!DigitsAssumption
  <1>1. P!Values = Codec!Values /\ None!Values = Codec!Values
    BY DEF P!Values, None!Values, Codec!Values
  <1>2. P!SizeAssumption /\ None!SizeAssumption
    BY <1>1, OctetsAssumption DEF P!SizeAssumption, None!SizeAssumption
  <1> QED BY <1>2, DigitsAssumption DEF P!DigitsAssumption, None!DigitsAssumption

LEMMA ZeroIsSigned == 0 \in Codec!SignedNumbers
  <1>1. None!DictAssumption /\ None!DictTyped
    BY DEF None!DictAssumption, None!DictTyped, EmptyTable
  <1>2. None!RankAssumption
    BY KeysAssumption DEF None!RankAssumption, None!IsInjective, Codec!IsInjective, EmptyTable
  <1>3. 0 \in None!SignedNumbers
    BY <1>1, <1>2, OctetsServe, None!SignedNumbersHold
  <1>4. None!SignedNumbers = Codec!SignedNumbers
    BY DEF None!SignedNumbers, Codec!SignedNumbers, None!SignedOf, Codec!SignedOf,
           None!Values, Codec!Values
  <1> QED BY <1>3, <1>4

\* The codes of the tables are what the code's S32 holds.
CodesInv ==
    /\ doc \in Docs \cup {EmptyTable}
    /\ DOMAIN vendors \subseteq Codec!SignedNumbers
    /\ \A id \in DOMAIN avps : id[1] \in Codec!SignedNumbers

LEMMA TablesServe ==
    ASSUME Inv, CodesInv
    PROVE  /\ P!SizeAssumption /\ P!DigitsAssumption
           /\ P!DictAssumption /\ P!DictTyped /\ P!RankAssumption
  <1>1. ASSUME NEW id \in DOMAIN avps
        PROVE  /\ View[id].name = avps[id].name /\ View[id].vBit = avps[id].vBit
               /\ View[id].mBit = FALSE
               /\ View[id].rules = [i \in DOMAIN avps[id].level.rules |->
                                        avps[id].level.rules[i].avp]
    BY DEF View
  <1>2. DOMAIN View = DOMAIN avps
    BY DEF View
  <1>3. \A id \in DOMAIN avps : id \in P!AvpIds
    <2> TAKE id \in DOMAIN avps
    <2>1. id = <<id[1], id[2]>> /\ id[1] \in Codec!SignedNumbers
      BY DEF Inv, TablesInv, TablesTyped, IsTable, AvpIds, CodesInv
    <2>2. id[2] \in Codec!SignedNumbers
      BY ZeroIsSigned DEF Inv, TablesInv, VendorBitMatches, CodesInv
    <2> QED BY <2>1, <2>2, SameSets DEF P!AvpIds
  <1>4. ASSUME NEW id \in DOMAIN avps
        PROVE  /\ avps[id].name \in Names /\ avps[id].level.rules \in Seq(Rules)
               /\ avps[id].vBit = (id[2] # 0)
    <2>1. avps[id] \in AvpSlots
      BY DEF Inv, TablesInv, TablesTyped, IsTable
    <2>2. avps[id].vBit = (id[2] # 0)
      <3>1. avps[id].vBit \in BOOLEAN
        BY <2>1 DEF AvpSlots
      <3> QED BY <3>1 DEF Inv, TablesInv, VendorBitMatches
    <2> QED BY <2>1, <2>2 DEF AvpSlots, Levels
  <1>5. P!DictAssumption
    <2>1. \A name \in DOMAIN avpNames : avpNames[name] \in DOMAIN View
      BY <1>2 DEF Inv, TablesInv, ReferencesResolve
    <2>2. ASSUME NEW id \in DOMAIN avps
          PROVE  View[id].vBit = (id[2] # 0) /\ P!IsInjective(View[id].rules)
      <3> DEFINE rules == avps[id].level.rules
      <3>1. \A i, j \in DOMAIN rules : rules[i].avp = rules[j].avp => i = j
        BY DEF Inv, TablesInv, LevelsInv, LevelOK, OneRulePerAvp
      <3>2. View[id].rules = [i \in DOMAIN rules |-> rules[i].avp]
        BY <1>1
      <3> HIDE DEF rules
      <3>3. P!IsInjective(View[id].rules)
        BY <3>1, <3>2 DEF P!IsInjective
      <3>4. View[id].vBit = (id[2] # 0)
        BY <1>1, <1>4
      <3> QED BY <3>3, <3>4
    <2> QED BY <1>2, <2>1, <2>2 DEF P!DictAssumption
  <1>6. P!DictTyped
    <2>1. ASSUME NEW id \in DOMAIN avps PROVE View[id].rules \in Seq(P!AvpIds)
      <3> DEFINE rules == avps[id].level.rules
      <3>1. \A i \in DOMAIN rules : rules[i].avp \in P!AvpIds
        BY <1>3 DEF Inv, TablesInv, ReferencesResolve, RulesResolve
      <3>2. Len(rules) \in Nat /\ DOMAIN rules = 1..Len(rules)
        BY <1>4
      <3>3. View[id].rules = [i \in DOMAIN rules |-> rules[i].avp]
        BY <1>1
      <3> HIDE DEF rules
      <3> QED BY <3>1, <3>2, <3>3
    <2> QED BY <1>1, <1>2, <1>3, <2>1 DEF P!DictTyped
  <1>7. P!RankAssumption
    <2>1. \A id \in DOMAIN View : View[id].name \in DOMAIN KeyRank
      BY <1>1, <1>2, <1>4, KeysAssumption
    <2> QED BY <2>1, KeysAssumption DEF P!RankAssumption, P!IsInjective, Codec!IsInjective
  <1> QED BY <1>5, <1>6, <1>7, OctetsServe

\* The code of the entry a loop is at.
LEMMA EntryCode ==
    ASSUME Inv, CodesInv, NEW key \in {"avp", "vendor"}, HasEntry(key)
    PROVE  Entry(key).code \in Codec!SignedNumbers
  <1> DEFINE entries == Section(doc, key)
  <1>1. \E S : entries \in Seq(S)
    BY DEF Inv, LoaderInv, LoaderTyped, IsDoc
  <1>2. at \in Nat /\ at < Len(entries)
    BY DEF Inv, LoaderInv, LoaderTyped, HasEntry
  <1>3. at + 1 \in DOMAIN entries /\ Entry(key) = entries[at + 1]
    <2>1. PICK S : entries \in Seq(S)
      BY <1>1
    <2>2. at + 1 \in DOMAIN entries
      BY <1>2, <2>1
    <2> QED BY <2>2 DEF Entry
  <1>4. doc \in Docs
    <2>1. Section(EmptyTable, key) = <<>>
      BY DEF Section, EmptyTable
    <2>2. doc # EmptyTable
      BY <1>3, <2>1
    <2> QED BY <2>2 DEF CodesInv
  <1>5. \A i \in DOMAIN entries : entries[i].code \in Codec!SignedNumbers
    <2>1. key = "avp" \/ key = "vendor"
      OBVIOUS
    <2> QED BY <1>4, <2>1, SessionAssumption
  <1> QED BY <1>3, <1>5

\* CodesInv is inductive: only ExtractVendor and ExtractAvp add codes.
LEMMA CodesInitialized ==
    /\ Init => CodesInv
    /\ Initialize /\ doc' \in Docs \cup {EmptyTable} => CodesInv'
  BY ZeroIsSigned DEF Init, Initialize, CodesInv, EmptyTable, GenericId

LEMMA CodesStep ==
    ASSUME Inv, CodesInv, [Next]_vars
    PROVE  CodesInv'
  <1>1. ASSUME UNCHANGED vendors, DOMAIN avps' = DOMAIN avps, doc' \in Docs \cup {doc, EmptyTable}
        PROVE  CodesInv'
    BY <1>1 DEF CodesInv
  <1>2. CASE ExtractVendor
    <2>1. CASE VendorAccepted(Entry("vendor"))
      <3>1. /\ vendors' = Put(vendors, Entry("vendor").code, Entry("vendor").name)
            /\ HasEntry("vendor") /\ UNCHANGED <<avps, doc>>
        BY <1>2, <2>1 DEF ExtractVendor, Advance
      <3>2. Entry("vendor").code \in Codec!SignedNumbers
        BY <3>1, EntryCode
      <3> QED BY <3>1, <3>2 DEF CodesInv, Put
    <2>2. CASE ~VendorAccepted(Entry("vendor"))
      BY <1>1, <1>2, <2>2 DEF ExtractVendor, Throw, EndLoad, catalogue
    <2> QED BY <2>1, <2>2
  <1>3. CASE ExtractAvp
    <2> DEFINE a == Entry("avp")
    <2>1. CASE AvpAccepted(a)
      <3>1. avps' = Put(avps, IdOf(a), SlotOf(a)) /\ HasEntry("avp") /\ UNCHANGED <<vendors, doc>>
        BY <1>3, <2>1 DEF ExtractAvp, Advance
      <3>2. IdOf(a)[1] \in Codec!SignedNumbers
        BY <3>1, EntryCode DEF IdOf
      <3> QED BY <3>1, <3>2 DEF CodesInv, Put
    <2>2. CASE ~AvpAccepted(a)
      BY <1>1, <1>3, <2>2 DEF ExtractAvp, Throw, EndLoad, catalogue
    <2> QED BY <2>1, <2>2
  <1>4. CASE Clear \/ Restart
    <2>1. Initialize /\ doc' \in Docs \cup {EmptyTable}
      BY <1>4 DEF Clear, Restart, EndLoad, loader, CodesInv
    <2> QED BY <2>1, CodesInitialized
  <1>5. CASE ~(ExtractVendor \/ ExtractAvp \/ Clear \/ Restart)
    <2>1. UNCHANGED vendors /\ DOMAIN avps' = DOMAIN avps
      BY <1>5
      DEF Next, LoadStep, Load, ExtractFormat, FormatsDone, VendorsDone, AvpsDone, GroupedEntry,
          GroupedRule, GroupedEntryDone, GroupedDone, CheckLoops, CommandEntry, CommandRule,
          AddCommand, CommandsDone, AddAvpRule, SetLevel, Undefined, Throw, EndLoop, catalogue, vars
    <2>2. doc' \in Docs \cup {doc, EmptyTable}
      BY <1>5
      DEF Next, LoadStep, Load, ExtractFormat, FormatsDone, VendorsDone, AvpsDone, GroupedEntry,
          GroupedRule, GroupedEntryDone, GroupedDone, CheckLoops, CommandEntry, CommandRule,
          AddCommand, CommandsDone, AddAvpRule, SetLevel, Undefined, Throw, EndLoad, EndLoop,
          Advance, loader, vars
    <2> QED BY <1>1, <2>1, <2>2
  <1> QED BY <1>2, <1>3, <1>4, <1>5

----------------------------------------------------------------------------
(* The message.                                                              *)

\* What was written when the message was made, if it could be, is what the kinds
\* of its values are written to and which of them were addresses: no dictionary
\* plays a part in that.
HeldInv ==
    /\ held.avps \in Seq(P!Avps)
    /\ wired => wire = P!AllByKind(hosts, held.avps)

SessionInv == Inv /\ CodesInv /\ HeldInv

\* AVPs that can be encoded, of which these are the addresses.
LEMMA EncodedByTheirKind ==
    ASSUME Inv, CodesInv, NEW as \in Seq(P!Avps),
           \A i \in DOMAIN as : Codec!Encodable(as[i])
    PROVE  Codec!EncodeAll(as) = P!AllByKind(Hosts(as), as)
  <1> DEFINE these == Hosts(as)
  <1>1. \A avp : avp \in these <=> avp \in P!AllAvps(as) /\ P!CodingType(avp) = "Address"
    <2>1. \A avp : P!CodingType(avp) = Codec!CodingType(avp)
      BY DEF P!CodingType, Codec!CodingType, P!FormatType, Codec!FormatType
    <2> QED BY <2>1, SameWire DEF Hosts
  <1> HIDE DEF these
  <1>2. \A i \in DOMAIN as : P!AreHosts(these, as[i])
    <2> TAKE i \in DOMAIN as
    <2>1. \A part \in P!Parts[as[i]] : part \in P!AllAvps(as)
      BY DEF P!AllAvps
    <2>2. P!Encodable(as[i])
      BY SameWire
    <2> QED BY <1>1, <2>1, <2>2 DEF P!AreHosts
  <1>3. P!EncodeAll(as) = P!AllByKind(these, as)
    BY <1>2, TablesServe, P!AllEncodedByKind
  <1> QED BY <1>3, SameWire DEF these

\* A message that is made in either way satisfies the invariant.
LEMMA Made ==
    ASSUME Inv, CodesInv, NEW id, NEW as \in Seq(P!Avps), Holding(id, as)
    PROVE  HeldInv'
  <1>1. held'.avps = as
    BY DEF Holding
  <1>2. ASSUME wired' PROVE wire' = P!AllByKind(hosts', as)
    <2>1. \A i \in DOMAIN as : Codec!Encodable(as[i])
      BY <1>2 DEF Holding
    <2>2. wire' = Codec!EncodeAll(as) /\ hosts' = Hosts(as)
      BY <1>2 DEF Holding
    <2> QED BY <2>1, <2>2, EncodedByTheirKind
  <1> QED BY <1>1, <1>2 DEF HeldInv

LEMMA CommandRulesTyped ==
    ASSUME Inv, NEW id
    PROVE  \E X : CommandRules(id) \in Seq(X)
  <1>1. CASE id \notin DOMAIN commands
    BY <1>1 DEF CommandRules
  <1>2. CASE id \in DOMAIN commands
    <2> DEFINE rules == commands[id].level.rules
    <2>1. rules \in Seq(Rules)
      <3>1. commands[id].level \in Levels
        BY <1>2 DEF Inv, TablesInv, TablesTyped, IsTable
      <3> QED BY <3>1 DEF Levels
    <2>2. CommandRules(id) = [i \in DOMAIN rules |-> rules[i].avp]
      BY <1>2 DEF CommandRules
    <2> HIDE DEF rules
    <2>3. \A i \in DOMAIN rules : rules[i].avp \in AvpIds
      <3>1. \A i \in DOMAIN rules : rules[i] \in Rules
        BY <2>1
      <3>2. \A rule \in Rules : rule.avp \in AvpIds
        BY DEF Rules
      <3> QED BY <3>1, <3>2
    <2>4. CommandRules(id) \in Seq(AvpIds)
      <3>1. Len(rules) \in Nat /\ DOMAIN rules = 1..Len(rules)
        BY <2>1
      <3> QED BY <2>2, <2>3, <3>1
    <2> QED BY <2>4
  <1> QED BY <1>1, <1>2

LEMMA HeldStep ==
    ASSUME SessionInv, [SessionNext]_<<vars, message>>
    PROVE  HeldInv'
  <1>1. CASE UNCHANGED message
    BY <1>1 DEF SessionInv, HeldInv, message
  <1>2. CASE DecodeBody
    <2>1. PICK id \in MessageIds, octets \in Bodies : Holding(id, Codec!DecodeAll[octets].avps)
      BY <1>2 DEF DecodeBody
    <2>2. octets \in P!OctetStrings
      BY SessionAssumption, SameSets
    <2>3. P!DecodeAll[octets] \in P!ReadsOf(P!Avps)
      BY <2>2, TablesServe, P!DecodeAllDefined DEF SessionInv
    <2>4. Codec!DecodeAll[octets].avps \in Seq(P!Avps)
      BY <2>3, SameDecoding DEF P!ReadsOf
    <2> QED BY <2>1, <2>4, Made DEF SessionInv
  <1>3. CASE BuildBody
    <2>1. PICK id \in MessageIds, items \in Documents :
            Holding(id, Codec!SortByRules(Codec!FromMessage(items).avps, CommandRules(id)))
      BY <1>3 DEF BuildBody
    <2>2. items \in Seq(P!EntriesOf(P!JsonValues))
      BY SessionAssumption, SameSets
    <2>3. P!FromMessage(items) \in P!ReadsOf(P!Avps)
      BY <2>2, TablesServe, P!FromMessageTyped DEF SessionInv
    <2>4. Codec!FromMessage(items).avps \in Seq(P!Avps)
      BY <2>3, SameRead DEF P!ReadsOf
    <2>5. PICK X : CommandRules(id) \in Seq(X)
      BY CommandRulesTyped DEF SessionInv
    <2>6. P!SortByRules(Codec!FromMessage(items).avps, CommandRules(id)) \in Seq(P!Avps)
      BY <2>4, <2>5, TablesServe, P!SortedTyped DEF SessionInv
    <2> QED BY <2>1, <2>6, SameSort, Made DEF SessionInv
  <1> QED BY <1>1, <1>2, <1>3 DEF SessionNext

LEMMA SessionInitialized ==
    ASSUME SessionInit, Inv
    PROVE  SessionInv
  <1>1. CodesInv
    BY CodesInitialized DEF SessionInit
  <1>2. held.avps = <<>> /\ wire = <<>>
    BY DEF SessionInit
  <1>3. held.avps \in Seq(P!Avps)
    BY <1>2
  <1>4. P!AllByKind(hosts, <<>>) = <<>>
    <2>1. P!Each(P!ByKindOf(hosts), <<>>) = <<>>
      BY DEF P!Each
    <2>2. P!Joined(<<>>) = <<>>
      <3> DEFINE none == <<>>
      <3>1. none \in Seq(Seq(P!Octet)) /\ Len(none) = 0
        OBVIOUS
      <3> HIDE DEF none
      <3>2. PICK acc : acc[0] = <<>> /\ P!Joined(none) = acc[Len(none)]
        BY <1>1, <3>1, TablesServe, P!JoinedLoop
      <3> QED BY <3>1, <3>2 DEF none
    <2> QED BY <2>1, <2>2 DEF P!AllByKind
  <1> QED BY <1>1, <1>2, <1>3, <1>4 DEF SessionInv, HeldInv

\* The dictionary of a session goes through what Dictionary allows.
LEMMA SessionOfDictionary == SessionSpec => Spec
  <1>1. SessionInit => Init
    BY DEF SessionInit
  <1>2. [SessionNext]_<<vars, message>> => [Next]_vars
    BY DEF SessionNext, DecodeBody, BuildBody, Holding
  <1> QED BY <1>1, <1>2, PTL DEF SessionSpec, Spec

\* The inductive invariant: of the dictionary and of the message over it.
LEMMA SessionInvariance == SessionSpec => []SessionInv
  <1>1. SessionInit /\ Inv => SessionInv
    BY SessionInitialized
  <1>2. SessionInv /\ Inv' /\ [SessionNext]_<<vars, message>> => SessionInv'
    <2> SUFFICES ASSUME SessionInv, Inv', [SessionNext]_<<vars, message>>
                 PROVE  SessionInv'
      OBVIOUS
    <2>1. [Next]_vars
      BY DEF SessionNext, DecodeBody, BuildBody, Holding
    <2>2. CodesInv'
      BY <2>1, CodesStep DEF SessionInv
    <2> QED BY <2>2, HeldStep DEF SessionInv
  <1>3. SessionSpec => []Inv
    BY SessionOfDictionary, Invariance, PTL
  <1> QED BY <1>1, <1>2, <1>3, PTL DEF SessionSpec

----------------------------------------------------------------------------
\* Whatever is loaded after a message was made, even by a load that fails, its
\* length, if it can be encoded at all, is the length it is encoded to.
THEOREM SessionLengthIsEncoded == SessionSpec => []LengthAgrees
  <1>1. SessionInv => LengthAgrees
    <2> SUFFICES ASSUME SessionInv, CanEncode
                 PROVE  Codec!LengthOfAll(held.avps) = Len(Codec!EncodeAll(held.avps))
      BY DEF LengthAgrees
    <2>1. held.avps \in Seq(P!Avps) /\ \A i \in DOMAIN held.avps : P!Encodable(held.avps[i])
      BY SameWire DEF SessionInv, HeldInv, CanEncode
    <2>2. \A i \in 1..Len(held.avps) : P!AddressesFit(held.avps[i])
      BY <2>1 DEF P!Encodable, P!AddressesFit
    <2>3. Len(P!EncodeAll(held.avps)) = P!LengthOfAll(held.avps)
      BY <2>1, <2>2, TablesServe, P!AllEncodedLength DEF SessionInv
    <2> QED BY <2>3, SameWire
  <1> QED BY <1>1, SessionInvariance, PTL

\* Whatever is loaded after a message was made, it is encoded to the octets it
\* was encoded to then or not at all, as long as the same AVPs are addresses.
THEOREM EncodingIsKept == SessionSpec => []EncodingKept
  <1>1. SessionInv => EncodingKept
    BY EncodedByTheirKind DEF SessionInv, HeldInv, EncodingKept, CanEncode
  <1> QED BY <1>1, SessionInvariance, PTL

----------------------------------------------------------------------------
(* JSON under the tables as they are                                         *)

LEMMA SameJson ==
    /\ \A a : P!Holds(a) = Codec!Holds(a)
    /\ \A s : P!ItemsOfAll(s) = Codec!ItemsOfAll(s)
    /\ \A s, t : P!SameAvps(s, t) = Codec!SameAvps(s, t)
  <1>1. /\ P!Parts = Codec!Parts /\ \A a : P!CodingType(a) = Codec!CodingType(a)
        /\ \A a : P!HoldsData(a) = Codec!HoldsData(a)
    <2>1. \A a : P!CodingType(a) = Codec!CodingType(a)
      BY DEF P!CodingType, Codec!CodingType, P!FormatType, Codec!FormatType
    <2>2. P!Parts = Codec!Parts
      BY SameSets DEF P!Parts, Codec!Parts
    <2>3. \A a : P!HoldsData(a) = Codec!HoldsData(a)
      BY <2>1 DEF P!HoldsData, Codec!HoldsData, P!HoldsNumber, Codec!HoldsNumber, P!Kind,
             Codec!Kind, P!IsNumber, Codec!IsNumber, P!Width, Codec!Width
    <2> QED BY <2>1, <2>2, <2>3
  <1>2. \A a : P!Holds(a) = Codec!Holds(a)
    BY <1>1 DEF P!Holds, Codec!Holds
  <1>3. \A text : P!ToHex(text) = Codec!ToHex(text)
    BY DEF P!ToHex, Codec!ToHex
  <1>4. \A s, values : P!ItemsOf(s, values) = Codec!ItemsOf(s, values)
    <2>1. \A a : P!NameOf(a) = Codec!NameOf(a)
      BY DEF P!NameOf, Codec!NameOf
    <2>2. \A before : P!InKeyOrder(before) = Codec!InKeyOrder(before)
      BY DEF P!InKeyOrder, Codec!InKeyOrder, P!Cardinality, Codec!Cardinality
    <2>3. \A S : P!Ascending(S) = Codec!Ascending(S)
      BY <2>2 DEF P!Ascending, Codec!Ascending
    <2>4. \A keys : P!InOrder(keys) = Codec!InOrder(keys)
      BY <2>2 DEF P!InOrder, Codec!InOrder, P!KeyBefore, Codec!KeyBefore
    <2>5. \A key, values : P!Collect(key, values) = Codec!Collect(key, values)
      BY DEF P!Collect, Codec!Collect
    <2> TAKE s, values
    <2> DEFINE keys == Codec!InOrder({Codec!NameOf(s[i]) : i \in DOMAIN s})
               places(key) == Codec!Ascending({i \in DOMAIN s : Codec!NameOf(s[i]) = key})
               under(key) == [j \in DOMAIN places(key) |-> values[places(key)[j]]]
    <2>6. Codec!ItemsOf(s, values)
            = [k \in DOMAIN keys |-> Codec!Collect(keys[k], under(keys[k]))]
      BY DEF Codec!ItemsOf
    <2>7. P!InOrder({P!NameOf(s[i]) : i \in DOMAIN s}) = keys
      <3>1. {P!NameOf(s[i]) : i \in DOMAIN s} = {Codec!NameOf(s[i]) : i \in DOMAIN s}
        BY <2>1
      <3> QED BY <2>4, <3>1
    <2>8. \A key : P!Ascending({i \in DOMAIN s : P!NameOf(s[i]) = key}) = places(key)
      <3> TAKE key
      <3>1. {i \in DOMAIN s : P!NameOf(s[i]) = key} = {i \in DOMAIN s : Codec!NameOf(s[i]) = key}
        BY <2>1
      <3> QED BY <2>3, <3>1
    <2>9. P!ItemsOf(s, values) = [k \in DOMAIN keys |-> P!Collect(keys[k], under(keys[k]))]
      <3> HIDE DEF keys, places
      <3> QED BY <2>7, <2>8 DEF P!ItemsOf
    <2> HIDE DEF keys, under
    <2> QED BY <2>5, <2>6, <2>9
  <1>5. \A a, values : P!DataToJson(a, values) = Codec!DataToJson(a, values)
    <2>1. /\ \A v : P!JsonNumber(v) = Codec!JsonNumber(v)
          /\ \A text : P!JsonText(text) = Codec!JsonText(text)
          /\ \A items : P!JsonObject(items) = Codec!JsonObject(items)
      BY DEF P!JsonNumber, Codec!JsonNumber, P!JsonText, Codec!JsonText, P!JsonObject,
             Codec!JsonObject, P!JsonNull, Codec!JsonNull
    <2>2. \A text : P!Hex(text) = Codec!Hex(text)
      BY <1>3, <2>1 DEF P!Hex, Codec!Hex
    <2>3. \A v : P!Unsigned(v, 4) = Codec!Unsigned(v, 4)
      BY DEF P!Unsigned, Codec!Unsigned, P!Values, Codec!Values
    <2>4. \A type : P!IsNumber(type) = Codec!IsNumber(type) /\ P!IsText(type) = Codec!IsText(type)
      BY DEF P!IsNumber, Codec!IsNumber, P!Width, Codec!Width, P!IsText, Codec!IsText
    <2> QED BY <1>1, <1>4, <2>1, <2>2, <2>3, <2>4 DEF P!DataToJson, Codec!DataToJson
  <1>6. P!ToJson = Codec!ToJson
    BY <1>5, SameSets DEF P!ToJson, Codec!ToJson
  <1>7. \A s : P!ItemsOfAll(s) = Codec!ItemsOfAll(s)
    BY <1>4, <1>6 DEF P!ItemsOfAll, Codec!ItemsOfAll
  <1>8. \A s : P!Counts(s) = Codec!Counts(s)
    BY DEF P!Counts, Codec!Counts, P!ToSet, Codec!ToSet, P!Cardinality, Codec!Cardinality
  <1>9. P!Likeness = Codec!Likeness
    BY <1>3, <1>8, SameSets DEF P!Likeness, Codec!Likeness
  <1>10. \A s, t : P!SameAvps(s, t) = Codec!SameAvps(s, t)
    BY <1>8, <1>9 DEF P!SameAvps, Codec!SameAvps
  <1> QED BY <1>2, <1>7, <1>10

\* Whatever was loaded, and whatever the names and formats were when the AVPs
\* were made: what toJson writes by the tables as they are, fromJson reads by
\* them as the same AVPs, when it knows their names.
THEOREM JsonKeepsThem == SessionSpec => []JsonKeepsAvps
  <1>1. SessionInv => JsonKeepsAvps
    <2> SUFFICES ASSUME SessionInv, CanWrite, NamesCurrent
                 PROVE  LET read == Codec!FromMessage(Codec!ItemsOfAll(held.avps)) IN
                        read.ok /\ Codec!SameAvps(held.avps, read.avps)
      BY DEF JsonKeepsAvps
    <2> DEFINE as == held.avps
    <2>1. as \in Seq(P!Avps)
      BY DEF SessionInv, HeldInv
    <2>2. P!NoNameIsRaw
      <3>1. DOMAIN avpNames \subseteq Names
        BY DEF SessionInv, Inv, TablesInv, TablesTyped, IsTable
      <3> QED BY <3>1, KeysAssumption DEF P!NoNameIsRaw
    <2>3. \A part \in P!AllAvps(as) : P!Returnable(part)
      <3> TAKE part \in P!AllAvps(as)
      <3>1. P!HoldsData(part)
        BY SameJson DEF CanWrite, P!AllAvps, P!Holds
      <3>2. part \in Codec!AllAvps(held.avps)
        BY SameWire
      <3>3. CASE ~part.raw /\ part.id \in DOMAIN avps
        <4>1. avps[part.id].format # "Any" /\ avpNames[avps[part.id].name] = part.id
          BY <3>2, <3>3 DEF NamesCurrent
        <4>2. avps[part.id].name \in DOMAIN avpNames
          BY <3>3 DEF SessionInv, Inv, TablesInv, SlotsAreNamed
        <4>3. /\ part.id \in DOMAIN View /\ View[part.id].name = avps[part.id].name
              /\ View[part.id].type = avps[part.id].format
          BY <3>3 DEF View
        <4> QED BY <3>1, <3>3, <4>1, <4>2, <4>3 DEF P!Returnable, P!IsNamed
      <3>4. CASE ~(~part.raw /\ part.id \in DOMAIN avps)
        <4>1. part.id[1] >= 0 /\ part.id[2] >= 0
          BY <3>2, <3>4 DEF NamesCurrent
        <4>2. DOMAIN View = DOMAIN avps
          BY DEF View
        <4> QED BY <3>1, <3>4, <4>1, <4>2 DEF P!Returnable, P!IsNamed
      <3> QED BY <3>3, <3>4
    <2>4. P!NoHeaderAmong(as)
      <3>1. P!HeaderKey = Codec!HeaderKey /\ \A a : P!NameOf(a) = Codec!NameOf(a)
        BY DEF P!HeaderKey, Codec!HeaderKey, P!NameOf, Codec!NameOf
      <3> QED BY <3>1 DEF NamesCurrent, P!NoHeaderAmong
    <2> HIDE DEF as
    <2>5. LET read == P!FromMessage(P!ItemsOfAll(as)) IN read.ok /\ P!SameAvps(as, read.avps)
      BY <2>1, <2>2, <2>3, <2>4, TablesServe, P!MessageReadBack DEF SessionInv
    <2> QED BY <2>5, SameJson, SameRead DEF as
  <1> QED BY <1>1, SessionInvariance, PTL
=============================================================================
