------------------------------ MODULE AvpCodec ------------------------------
(* codec::Avp as a value in three representations: the object, its octets on *)
(* the wire and its JSON.  Every operator is a function of the object or of  *)
(* what it is built from; MessageObject has the steps.                       *)
(*                                                                           *)
(* Sizes are counted in octets as in the code, but an octet has Base values  *)
(* instead of 256.  Codes, flags, lengths and numbers keep their number of   *)
(* octets, their wrap-around and their sign, at values TLC can reach.        *)
(*                                                                           *)
(* A text is its characters, of which there are as many as values of an      *)
(* octet: the lowest are the digits of toHex and fromHex, two for an octet,  *)
(* and the last is what stands between the parts of an address, each one     *)
(* character.  So a digit and an address have one spelling; those of upper   *)
(* and lower case, and those inet_ntop would write in another way, are one.  *)
(* Floats, whose wire form is that of an integer of their size, are left out.*)
(*                                                                           *)
(* AVPs and JSON values nest, so what is computed from one is computed from  *)
(* its parts first: the recursive functions of the code are functions on     *)
(* Avps, JsonValues and OctetStrings, the sets of what the code works on.    *)
EXTENDS Integers, Sequences, SequencesExt, MapOrder

CONSTANTS Base,          \* values of an octet
          Digits,        \* values of a hexadecimal digit, half an octet
          MaxDepth,      \* bound on the nesting of AVPs and of JSON objects
          Dict,          \* AvpId -> [name, type, vBit, mBit, rules]
          Index,         \* name -> AvpId, which getAvp(name) goes by
          KeyRank,       \* the place of a name among the keys of JSON objects
          EpochOffset    \* NtpEpochOffset

\* What Dictionary guarantees: ReferencesResolve, VendorBitMatches, OneRulePerAvp.
ASSUME DictAssumption ==
    /\ \A name \in DOMAIN Index : Index[name] \in DOMAIN Dict
    /\ \A id \in DOMAIN Dict : Dict[id].vBit = (id[2] # 0) /\ IsInjective(Dict[id].rules)

\* How many numbers n octets hold.
Values[n \in 0..8] == IF n = 0 THEN 1 ELSE Base * Values[n - 1]

Octet == 0 .. (Base - 1)
FlagVendor == Base \div 2       \* the highest bit of an octet
FlagMandatory == Base \div 4    \* the one below it

\* The memcpy between a signed and an unsigned number of n octets.
Unsigned(v, n) == v % Values[n]

\* (variant) the cast to a signed number left out.
SignedNever(v, n) == Unsigned(v, n)

Signed(v, n) == LET u == Unsigned(v, n) IN IF 2 * u >= Values[n] THEN u - Values[n] ELSE u

Octets(v, n) == [i \in 1..n |-> (Unsigned(v, n) \div Values[n - i]) % Base]

Number(octets) ==
    LET n == Len(octets)
        number[i \in 0..n] == IF i = 0 THEN 0 ELSE number[i - 1] * Base + octets[i]
    IN  number[n]

\* The octets of an AVP or of a body: what a length of three octets can count.
OctetStrings == {octets \in Seq(Octet) : Len(octets) < Values[3]}

\* An AVP within another takes 8 octets of it at least, so no length field has
\* room for deeper ones.
ASSUME SizeAssumption ==
    /\ Base \in Nat /\ Base >= 4
    /\ MaxDepth \in Nat /\ Values[3] <= 8 * (MaxDepth + 1)
    /\ EpochOffset \in Int
ASSUME DigitsAssumption == Digits \in Nat /\ Digits * Digits = Base

\* Several sequences one behind the other, and several numbers added up.
Joined(parts) ==
    LET n == Cardinality(DOMAIN parts)
        joined[i \in 0..n] == IF i = 0 THEN <<>> ELSE joined[i - 1] \o parts[i]
    IN  joined[n]

Total(numbers) ==
    LET n == Cardinality(DOMAIN numbers)
        total[i \in 0..n] == IF i = 0 THEN 0 ELSE total[i - 1] + numbers[i]
    IN  total[n]

----------------------------------------------------------------------------
(* Texts                                                                     *)

Texts == Seq(Octet)

ToHex(octets) ==
    [i \in 1..(2 * Len(octets)) |->
        LET o == octets[(i + 1) \div 2] IN IF i % 2 = 1 THEN o \div Digits ELSE o % Digits]

\* fromHex, which takes an even number of digits.
IsHex(text) == Len(text) % 2 = 0 /\ \A i \in DOMAIN text : text[i] < Digits
FromHex(text) == [i \in 1..(Len(text) \div 2) |-> text[2 * i - 1] * Digits + text[2 * i]]

Separator == Base - 1

\* inet_ntop.
HostText(host) ==
    [i \in 1..(2 * Len(host) - 1) |->
        IF i % 2 = 1 THEN host[(i + 1) \div 2] ELSE Separator]

\* inet_pton: any text that spells a host of n octets, whatever it was written as.
SpellsHost(text, n) ==
    Len(text) = 2 * n - 1 /\ \A i \in 1..(n - 1) : text[2 * i] = Separator
HostOf(text) == [i \in 1..((Len(text) + 1) \div 2) |-> text[2 * i - 1]]

IsAddress(text) == SpellsHost(text, 4) \/ SpellsHost(text, 16)

----------------------------------------------------------------------------
(* The object                                                                *)

Unset == [kind |-> "monostate", num |-> 0, text |-> <<>>, kids |-> <<>>]
Num(kind, v) == [Unset EXCEPT !.kind = kind, !.num = v]
Str(text) == [Unset EXCEPT !.kind = "string", !.text = text]
Kids(avps) == [Unset EXCEPT !.kind = "avps", !.kids = avps]

NewAvp == [id |-> <<0, 0>>, flags |-> 0, data |-> Unset, raw |-> FALSE]

SignedOf(n) == {v \in Int : -Values[n] <= 2 * v /\ 2 * v < Values[n]}
UnsignedOf(n) == 0 .. (Values[n] - 1)
SignedNumbers == SignedOf(4)
AvpIds == SignedNumbers \X SignedNumbers

ASSUME DictTyped ==
    \A id \in DOMAIN Dict :
        id \in AvpIds /\ Dict[id].mBit \in BOOLEAN /\ Dict[id].rules \in Seq(AvpIds)

\* The alternatives of the variant, and the numbers each holds.
NumbersOf == [monostate |-> {0}, string |-> {0}, avps |-> {0},
              int32 |-> SignedOf(4), uint32 |-> UnsignedOf(4),
              int64 |-> SignedOf(8), uint64 |-> UnsignedOf(8)]

\* What the variant holds, with these lists of AVPs.
DataWith(lists) ==
    {data \in [kind : DOMAIN NumbersOf, num : Int, text : Texts, kids : lists] :
        /\ data.num \in NumbersOf[data.kind]
        /\ data.kind # "string" => data.text = <<>>
        /\ data.kind # "avps" => data.kids = <<>>}

\* The AVPs with these lists of AVPs within them, and those nested so deep.
AvpsWith(lists) == [id : AvpIds, flags : Octet, raw : BOOLEAN, data : DataWith(lists)]

Nested[d \in 0..MaxDepth] == AvpsWith(IF d = 0 THEN {<<>>} ELSE Seq(Nested[d - 1]))

Avps == Nested[MaxDepth]

\* An AVP and the AVPs within it.
Parts[avp \in Avps] ==
    {avp} \cup UNION {Parts[avp.data.kids[i]] : i \in DOMAIN avp.data.kids}

AllAvps(avps) == UNION {Parts[avps[i]] : i \in DOMAIN avps}

HasVendorBit(flags) == flags >= FlagVendor

\* resolveFormatType
FormatType(id) ==
    IF id \in DOMAIN Dict /\ Dict[id].type # "Any" THEN Dict[id].type ELSE "Unknown"

Kind == [Integer32 |-> "int32", Enumerated |-> "int32", Integer64 |-> "int64",
         Unsigned32 |-> "uint32", Time |-> "uint32", Unsigned64 |-> "uint64"]
Width == [Integer32 |-> 4, Enumerated |-> 4, Integer64 |-> 8,
          Unsigned32 |-> 4, Time |-> 4, Unsigned64 |-> 8]
IsNumber(type) == type \in DOMAIN Width
IsSigned(type) == type \in {"Integer32", "Enumerated", "Integer64"}
IsText(type) == type \in {"UTF8String", "DiameterIdentity", "DiameterURI",
                          "IPFilterRule", "QoSFilterRule"}

\* The value of n octets as the type has it.
AsTyped(v, type) == IF IsSigned(type) THEN Signed(v, Width[type]) ELSE Unsigned(v, Width[type])

\* The format encodeData, getLength and dataToJson go by: none for a raw AVP.
CodingType(avp) == IF avp.raw THEN "Unknown" ELSE FormatType(avp.id)

\* (variant) std::visit, which takes a number of any alternative.
HoldsAnyNumber(data, type) == data.kind \in {Kind[t] : t \in DOMAIN Kind}

HoldsNumber(data, type) == data.kind = Kind[type]

\* std::get finds the alternative that the format calls for, all the way down.
HoldsData(avp) ==
    LET type == CodingType(avp) IN
    IF IsNumber(type) THEN HoldsNumber(avp.data, type)
                      ELSE avp.data.kind = IF type = "Grouped" THEN "avps" ELSE "string"

Holds(avp) == \A part \in Parts[avp] : HoldsData(part)

----------------------------------------------------------------------------
(* The wire                                                                  *)

Padded(length) == 4 * ((length + 3) \div 4)

\* (variant) the header length by the vendor id.
HeaderLenByVendor(avp) == IF avp.id[2] # 0 THEN 12 ELSE 8

HeaderLen(avp) == IF HasVendorBit(avp.flags) THEN 12 ELSE 8

\* inet_pton accepts the text of every Address.
Encodable(avp) ==
    /\ Holds(avp)
    /\ \A part \in Parts[avp] : CodingType(part) = "Address" => IsAddress(part.data.text)

Family(text) == IF SpellsHost(text, 4) THEN 1 ELSE 2

\* encode, around the data.  The length field keeps three octets of the length.
Framed(avp, data) ==
    LET vendor == IF HasVendorBit(avp.flags) THEN Octets(avp.id[2], 4) ELSE <<>>
        length == 8 + Len(vendor) + Len(data)
        padding == [i \in 1..(Padded(length) - length) |-> 0]
    IN  Octets(avp.id[1], 4) \o <<avp.flags>> \o Octets(length, 3) \o vendor \o data \o padding

\* encodeData, with the octets of the AVPs within.
EncodeData(avp, kids) ==
    LET type == CodingType(avp) IN
    IF IsNumber(type) THEN Octets(avp.data.num, Width[type])
    ELSE IF type = "Grouped" THEN Joined(kids)
    ELSE IF type = "Address" THEN Octets(Family(avp.data.text), 2) \o HostOf(avp.data.text)
    ELSE avp.data.text

Encode[avp \in Avps] ==
    Framed(avp, EncodeData(avp, [i \in DOMAIN avp.data.kids |-> Encode[avp.data.kids[i]]]))

EncodeAll(avps) == Joined([i \in DOMAIN avps |-> Encode[avps[i]]])

\* (variant) the padding of the children forgotten.
TogetherUnpadded(lengths) == Total(lengths)

\* What AVPs of these lengths take.
Together(lengths) == Total([i \in DOMAIN lengths |-> Padded(lengths[i])])

\* getLength
LengthOf[avp \in Avps] ==
    LET type == CodingType(avp) IN
    HeaderLen(avp) +
        IF IsNumber(type) THEN Width[type]
        ELSE IF type = "Grouped"
             THEN Together([i \in DOMAIN avp.data.kids |-> LengthOf[avp.data.kids[i]]])
        ELSE IF type = "Address" THEN IF SpellsHost(avp.data.text, 4) THEN 6 ELSE 18
        ELSE Len(avp.data.text)

LengthOfAll(avps) == Together([i \in DOMAIN avps |-> LengthOf[avps[i]]])

\* decodeAddress
AddressText(octets) ==
    LET family == Number(SubSeq(octets, 1, 2))
        host == SubSeq(octets, 3, Len(octets))
    IN  IF \/ family = 1 /\ Len(octets) = 6
           \/ family = 2 /\ Len(octets) = 18 THEN HostText(host) ELSE ToHex(octets)

Failure == [ok |-> FALSE, avps |-> <<>>]

\* decodeData, with the AVPs there are in the octets.
DecodeData(type, octets, kids) ==
    IF IsNumber(type)
    THEN [ok |-> Len(octets) = Width[type], data |-> Num(Kind[type], AsTyped(Number(octets), type))]
    ELSE IF type = "Grouped" THEN [ok |-> kids.ok, data |-> Kids(kids.avps)]
    ELSE IF type = "Address"
         THEN IF Len(octets) < 2 THEN [ok |-> FALSE, data |-> Unset]
              ELSE [ok |-> TRUE, data |-> Str(AddressText(octets))]
    ELSE [ok |-> TRUE, data |-> Str(octets)]

\* The header of the AVP that octets begin with.
HeaderLenIn(octets) == IF HasVendorBit(octets[5]) THEN 12 ELSE 8
LengthIn(octets) == Number(SubSeq(octets, 6, 8))
IdIn(octets) ==
    <<Signed(Number(SubSeq(octets, 1, 4)), 4),
      IF HasVendorBit(octets[5]) THEN Signed(Number(SubSeq(octets, 9, 12)), 4) ELSE 0>>

\* The data of that AVP, and what follows it.
DataIn(octets) == SubSeq(octets, HeaderLenIn(octets) + 1, LengthIn(octets))
Behind(octets) == SubSeq(octets, Padded(LengthIn(octets)) + 1, Len(octets))

\* decode into an object, which keeps its raw_ in any case, and its data when
\* decode throws: by then the flags and the id may be new.
DecodeInto(avp, octets, kids) ==
    LET flagged == [avp EXCEPT !.flags = octets[5]]
        named == [flagged EXCEPT !.id = IdIn(octets)]
        value == DecodeData(FormatType(IdIn(octets)), DataIn(octets), kids)
    IN  IF Len(octets) < 8 THEN [ok |-> FALSE, avp |-> avp]
        ELSE IF Len(octets) < HeaderLenIn(octets) THEN [ok |-> FALSE, avp |-> flagged]
        ELSE IF \/ LengthIn(octets) < HeaderLenIn(octets) \/ Len(octets) < LengthIn(octets)
                \/ ~value.ok
             THEN [ok |-> FALSE, avp |-> named]
        ELSE [ok |-> TRUE, avp |-> [named EXCEPT !.data = value.data]]

\* decode of the AVPs in some octets: all of them, or those before the first
\* one that throws.
DecodeAll[octets \in OctetStrings] ==
    IF octets = <<>> THEN [ok |-> TRUE, avps |-> <<>>]
    ELSE LET first == DecodeInto(NewAvp, octets, DecodeAll[DataIn(octets)]) IN
         IF ~first.ok THEN Failure
         ELSE LET rest == DecodeAll[Behind(octets)]
              IN  [ok |-> rest.ok, avps |-> <<first.avp>> \o rest.avps]

Decode(avp, octets) == DecodeInto(avp, octets, DecodeAll[DataIn(octets)])

----------------------------------------------------------------------------
(* JSON: a value is a number, a text or an object, or null, which stands for *)
(* an empty array among the elements of another one too; an object is the    *)
(* sequence of its entries in the order of their keys, an entry a key and    *)
(* its value, or the elements of an array.  The key <<name, 0, 0>> is a name *)
(* of the dictionary, and <<"avp-", code, vendor>> the text getName makes of *)
(* an id.  Keys of two ids are ordered as the numbers, not as their digits.  *)

Keys == (DOMAIN KeyRank) \X Int \X Int

ASSUME RankAssumption ==
    /\ KeyRank \in [DOMAIN KeyRank -> Nat] /\ IsInjective(KeyRank)
    /\ {"avp-", "hex", "flags", "_header"} \subseteq DOMAIN KeyRank
    /\ \A id \in DOMAIN Dict : Dict[id].name \in DOMAIN KeyRank

JsonNull == [kind |-> "null", num |-> 0, text |-> <<>>, items |-> <<>>]
JsonNumber(v) == [JsonNull EXCEPT !.kind = "number", !.num = v]
JsonText(text) == [JsonNull EXCEPT !.kind = "text", !.text = text]
JsonObject(items) == [JsonNull EXCEPT !.kind = "object", !.items = items]
JsonArray == [JsonNull EXCEPT !.kind = "array"]    \* an element of another one, not empty

JsonWith(lists) ==
    [kind : {"null", "number", "text", "array"}, num : Int, text : Texts, items : {<<>>}]
    \cup [kind : {"object"}, num : {0}, text : {<<>>}, items : lists]

EntriesOf(values) == [key : Keys, isArray : {TRUE}, values : Seq(values)]
                     \cup [key : Keys, isArray : {FALSE}, values : [1..1 -> values]]

\* The values with objects nested so deep.
JsonNested[d \in 0..MaxDepth] ==
    JsonWith(IF d = 0 THEN {<<>>} ELSE Seq(EntriesOf(JsonNested[d - 1])))

JsonValues == JsonNested[MaxDepth]

\* The order of a std::map's keys.
KeyBefore(k, l) ==
    \/ KeyRank[k[1]] < KeyRank[l[1]]
    \/ k[1] = l[1] /\ (k[2] < l[2] \/ (k[2] = l[2] /\ k[3] < l[3]))
InOrder(keys) == InKeyOrder([k \in keys |-> {l \in keys : KeyBefore(l, k)}])

Hex(text) == JsonText(ToHex(text))

NameOf(avp) ==
    IF ~avp.raw /\ avp.id \in DOMAIN Dict THEN <<Dict[avp.id].name, 0, 0>>
                                          ELSE <<"avp-", avp.id[1], avp.id[2]>>

\* (variant) a repeated AVP replaces the one before.
CollectLast(key, values) == [key |-> key, isArray |-> FALSE, values |-> <<Last(values)>>]

\* What an object has under a key that occurs once or several times.
Collect(key, values) == [key |-> key, isArray |-> Len(values) # 1, values |-> values]

\* The loop over the AVPs of a message or a Grouped AVP, with their values.
ItemsOf(avps, values) ==
    LET keys == InOrder({NameOf(avps[i]) : i \in DOMAIN avps})
        under(key) == LET places == Ascending({i \in DOMAIN avps : NameOf(avps[i]) = key})
                      IN  [j \in DOMAIN places |-> values[places[j]]]
    IN  [k \in DOMAIN keys |-> Collect(keys[k], under(keys[k]))]

\* dataToJson, with the values of the AVPs within.
DataToJson(avp, values) ==
    LET type == CodingType(avp) IN
    IF type = "Time" THEN JsonNumber(Unsigned(avp.data.num - EpochOffset, 4))
    ELSE IF IsNumber(type) THEN JsonNumber(avp.data.num)
    ELSE IF type = "Grouped" THEN JsonObject(ItemsOf(avp.data.kids, values))
    ELSE IF IsText(type) \/ type = "Address" THEN JsonText(avp.data.text)
    ELSE Hex(avp.data.text)

ToJson[avp \in Avps] ==
    DataToJson(avp, [i \in DOMAIN avp.data.kids |-> ToJson[avp.data.kids[i]]])

ItemsOfAll(avps) == ItemsOf(avps, [i \in DOMAIN avps |-> ToJson[avps[i]]])

\* sortByRules: a stable sort by the position of the AVP's rule.
Rank(avp, rules) ==
    LET places == {i \in DOMAIN rules : rules[i] = avp.id /\ ~avp.raw} IN
    IF places = {} THEN Len(rules) + 1 ELSE CHOOSE i \in places : \A j \in places : i <= j

\* (variant) AVPs of equal rank change their order.
SortByRulesUnstable(avps, rules) ==
    LET rank == [i \in DOMAIN avps |-> Rank(avps[i], rules)]
        order == InKeyOrder([i \in DOMAIN avps |->
                    {j \in DOMAIN avps : rank[j] < rank[i] \/ (rank[j] = rank[i] /\ j > i)}])
    IN  [i \in DOMAIN order |-> avps[order[i]]]

SortByRules(avps, rules) ==
    LET rank == [i \in DOMAIN avps |-> Rank(avps[i], rules)]
        order == InKeyOrder([i \in DOMAIN avps |->
                    {j \in DOMAIN avps : rank[j] < rank[i] \/ (rank[j] = rank[i] /\ j < i)}])
    IN  [i \in DOMAIN order |-> avps[order[i]]]

Known(key) == key[1] \in DOMAIN Index
IdOf(key) == Index[key[1]]

\* parseRawAvpKey: digits only, so no minus sign, and 32 bits at most.
IsRawKey(key) == key[1] = "avp-" /\ \A i \in {2, 3} : key[i] \in 0 .. (Values[4] - 1)

HexKey == <<"hex", 0, 0>>
FlagsKey == <<"flags", 0, 0>>
IsHexText(value) == value.kind = "text" /\ IsHex(value.text)

\* What an object has under a key, when that is no array.
Found(items, key) ==
    {items[i].values[1] : i \in {j \in DOMAIN items : items[j].key = key /\ ~items[j].isArray}}

HasKey(items, key) == \E i \in DOMAIN items : items[i].key = key

RawAvp(key, hex, flags) ==
    [id |-> <<Signed(key[2], 4), Signed(key[3], 4)>>, flags |-> flags, raw |-> TRUE,
     data |-> Str(FromHex(hex.text))]

RawFromJson(key, value) ==
    LET hexes == {v \in {value} \cup Found(value.items, HexKey) : IsHexText(v)}
        given == {v.num : v \in {w \in Found(value.items, FlagsKey) : w.kind = "number"}} \cap Octet
        flags == IF HasKey(value.items, FlagsKey) THEN given
                 ELSE {IF key[3] # 0 THEN FlagVendor ELSE 0}
    IN  IF IsRawKey(key) /\ hexes # {} /\ flags # {}
        THEN [ok |-> TRUE,
              avps |-> <<RawAvp(key, CHOOSE v \in hexes : TRUE, CHOOSE f \in flags : TRUE)>>]
        ELSE Failure

\* The elements of an object in the order the loops over items() and over an
\* array visit them.
Visited(items) ==
    Joined([i \in DOMAIN items |->
               LET entry == items[i] IN
               [j \in DOMAIN entry.values |-> [key |-> entry.key, value |-> entry.values[j]]]])

\* All the AVPs that were built, or a throw if one of them threw.
Gathered(built) ==
    IF \A i \in DOMAIN built : built[i].ok
    THEN [ok |-> TRUE, avps |-> Joined([i \in DOMAIN built |-> built[i].avps])]
    ELSE Failure

\* What items() can visit without a key that names no AVP.
IsIterable(value) == value.kind \in {"object", "null"}

GroupedData(id, kids) ==
    [ok |-> kids.ok, data |-> Kids(SortByRules(kids.avps, Dict[id].rules))]

\* The data of a named AVP, with the AVPs that were built from the value's items.
DataFromJson(id, value, kids) ==
    LET type == FormatType(id)
        number == value.num + IF type = "Time" THEN EpochOffset ELSE 0
    IN  IF IsNumber(type)
        THEN [ok |-> value.kind = "number", data |-> Num(Kind[type], AsTyped(number, type))]
        ELSE IF type = "Grouped"
             THEN IF IsIterable(value) THEN GroupedData(id, kids)
                                       ELSE [ok |-> FALSE, data |-> Unset]
        ELSE IF IsText(type) \/ type = "Address"
             THEN [ok |-> value.kind = "text", data |-> Str(value.text)]
        ELSE [ok |-> Dict[id].type # "Any" /\ IsHexText(value), data |-> Str(FromHex(value.text))]

\* The AVP of a name: its flags are the dictionary's.
Named(id, read) ==
    LET flags == (IF Dict[id].vBit THEN FlagVendor ELSE 0)
                 + (IF Dict[id].mBit THEN FlagMandatory ELSE 0)
    IN  IF read.ok
        THEN [ok |-> TRUE,
              avps |-> <<[NewAvp EXCEPT !.id = id, !.flags = flags, !.data = read.data]>>]
        ELSE Failure

AvpFromJson(key, value, kids) ==
    IF Known(key) THEN Named(IdOf(key), DataFromJson(IdOf(key), value, kids))
                  ELSE RawFromJson(key, value)

\* What an array or an object gives a key.
JsonElements == [key : Keys, value : JsonValues]

\* fromJson of an AVP, and of all the AVPs of an object.
FromJson[elem \in JsonElements] ==
    LET within == Visited(elem.value.items)
    IN  AvpFromJson(elem.key, elem.value,
                    Gathered([i \in DOMAIN within |-> FromJson[within[i]]]))

FromItems(items) ==
    LET elems == Visited(items) IN Gathered([i \in DOMAIN elems |-> FromJson[elems[i]]])

\* The loop of a message, which passes over the key of the header.
HeaderKey == <<"_header", 0, 0>>
Passed == [key |-> HeaderKey, isArray |-> TRUE, values |-> <<>>]
FromMessage(items) ==
    FromItems([i \in DOMAIN items |-> IF items[i].key = HeaderKey THEN Passed ELSE items[i]])

----------------------------------------------------------------------------
(* For the properties: which AVPs are the same.                              *)

Counts(s) == [e \in ToSet(s) |-> Cardinality({i \in DOMAIN s : s[i] = e})]

\* What an AVP is, apart from its flags, raw_ and the order of those within it.
Likeness[avp \in Avps] ==
    [id |-> avp.id, data |-> [avp.data EXCEPT !.kids = <<>>],
     kids |-> Counts([i \in DOMAIN avp.data.kids |-> Likeness[avp.data.kids[i]]])]

\* The same AVPs in another order, at every level.
SameAvps(s, t) ==
    Counts([i \in DOMAIN s |-> Likeness[s[i]]]) = Counts([i \in DOMAIN t |-> Likeness[t[i]]])
=============================================================================
