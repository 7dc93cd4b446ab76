-------------------------- MODULE MCMessageObject --------------------------
(* Octets of two bits: codes and numbers go to 255, negative from 128, and a *)
(* length or a command code to 63.                                           *)
EXTENDS MessageObject

Entry(name, type, flags, rules) ==
    [name |-> name, type |-> type, vBit |-> flags \div 2 = 1, mBit |-> flags % 2 = 1,
     rules |-> rules]

MCDict ==
    (<<0, 0>> :> Entry("AVP", "Any", 0, <<>>)
     @@ <<1, 0>> :> Entry("Num", "Unsigned32", 1, <<>>)
     @@ <<2, 7>> :> Entry("Host", "Address", 3, <<>>)
     @@ <<3, 0>> :> Entry("When", "Time", 0, <<>>)
     @@ <<4, 0>> :> Entry("Pair", "Grouped", 1, << <<5, 0>>, <<1, 0>> >>)
     @@ <<5, 0>> :> Entry("Text", "UTF8String", 0, <<>>)
     @@ <<6, 0>> :> Entry("Code", "Enumerated", 1, <<>>)
     @@ <<7, 0>> :> Entry("Bytes", "OctetString", 0, <<>>)
     @@ <<8, 0>> :> Entry("_header", "UTF8String", 0, <<>>))

MCIndex == [n \in {MCDict[id].name : id \in DOMAIN MCDict} |->
                CHOOSE id \in DOMAIN MCDict : MCDict[id].name = n]

Name(n) == <<n, 0, 0>>
MCKeyNames == <<"AVP", "Bytes", "Code", "Host", "Num", "Pair", "Text", "When", "Zero",
                "_header", "avp-", "flags", "hex">>
MCKeyRank == [n \in {MCKeyNames[i] : i \in DOMAIN MCKeyNames} |->
                CHOOSE i \in DOMAIN MCKeyNames : MCKeyNames[i] = n]

MCCommands ==
    (<<1, TRUE>> :> << <<5, 0>>, <<1, 0>> >> @@ <<1, FALSE>> :> << <<1, 0>> >>)

Object(code, vendor, flags, data) ==
    [id |-> <<code, vendor>>, flags |-> flags, data |-> data, raw |-> FALSE]

ANum == Object(1, 0, 1, Num("uint32", 200))
ANum2 == Object(1, 0, 0, Num("uint32", 3))
AText == Object(5, 0, 0, Str(<<1, 2, 3>>))
AHost == Object(2, 7, 3, Str(HostText(<<1, 0, 0, 1>>)))
APair == Object(4, 0, 1, Kids(<<ANum2, AText>>))
AUnknown == Object(9, 0, 1, Str(<<3>>))

\* Some as fromJson and decode make them, and others only setters can: no data,
\* a vendor without its bit, a bit without a vendor.
MCObjects ==
    {ANum, AText, AHost, APair, AUnknown, NewAvp, Object(4, 0, 0, Kids(<<APair, ANum>>)),
     Object(-5, 0, 0, Str(<<1>>)), Object(2, 7, 1, AHost.data), Object(5, 0, 2, AText.data)}

\* An AVP, and parts of one: too short for a header, without its vendor, and
\* without its data, which leaves another id over what the object holds.
MCAvpBuffers ==
    {Encode[ANum], <<0, 0, 0, 1>>, SubSeq(Encode[AHost], 1, 8),
     SubSeq(Encode[Object(7, 0, 0, AText.data)], 1, 8)}

Header(flags, length) ==
    <<1>> \o Octets(length, 3) \o <<flags>> \o Octets(1, 3) \o Octets(5, 4)
          \o Octets(255, 4) \o Octets(77, 4)
OfAvps(flags, avps) == Header(flags, 20 + Len(EncodeAll(avps))) \o EncodeAll(avps)

\* Repeated AVPs, one that fails after one that does not, an Address of another
\* family, padding that is not zero, AVPs of all formats, a buffer too short.
MCBuffers ==
    {OfAvps(2, <<ANum2, AUnknown, ANum>>),
     OfAvps(0, <<Object(3, 0, 0, Num("uint32", 10)), Object(9, 3, 2, Str(<<2, 1>>))>>),
     OfAvps(0, <<Object(0, 0, 0, Str(<<1>>))>>),
     OfAvps(2, <<Object(8, 0, 0, Str(<<2, 2>>)), ANum2>>),
     Header(2, 48) \o Encode[AText] \o Octets(4, 4) \o <<0>> \o Octets(18, 3) \o Encode[ANum],
     Header(0, 34) \o Octets(2, 4) \o <<3, 0, 3, 2>> \o Octets(7, 4) \o <<0, 3>> \o <<1, 1>>,
     Header(0, 31) \o Octets(5, 4) \o <<1, 0, 2, 3>> \o <<3, 2, 1, 3>>,
     Header(0, 44), <<1, 0>>}

Header1 == [code |-> 1, request |-> TRUE, flags |-> 5, app |-> 5, hopByHop |-> 511, endToEnd |-> 77]

\* An entry with a value, and with an array; those of an object go by their keys.
One(key, value) == [key |-> key, isArray |-> FALSE, values |-> <<value>>]
Many(key, values) == [key |-> key, isArray |-> TRUE, values |-> values]

MCDocuments ==
    {[header |-> Header1, items |-> i] :
        i \in {<<Many(Name("Num"), <<JsonNumber(300), JsonNumber(-1)>>),
                 One(Name("Text"), JsonText(<<1>>)),
                 One(<<"avp-", 9, 0>>, Hex(<<2>>))>>,
               <<One(Name("Pair"), JsonObject(
                    <<One(Name("Num"), JsonNumber(7)),
                      Many(Name("Text"), <<JsonText(<<2>>), JsonText(<<1>>)>>)>>))>>,
               <<One(<<"avp-", 1, 0>>, JsonObject(
                    <<One(FlagsKey, JsonNumber(3)), One(HexKey, Hex(<<1>>))>>))>>}}
    \cup {[header |-> h, items |-> i] :
            h \in {[flags |-> 2], [code |-> 70, version |-> 1]},
            i \in {<<>>, <<One(Name("Host"), JsonText(<<3>>))>>,
                   <<One(Name("Zero"), JsonNumber(0))>>, <<One(Name("AVP"), Hex(<<1>>))>>,
                   <<One(<<"avp-", 250, 0>>, Hex(<<1, 1>>))>>,
                   <<One(<<"avp-", 9, 3>>, JsonObject(<<One(FlagsKey, JsonNumber(1))>>))>>,
                   <<One(Name("Num"), JsonText(<<1>>))>>,
                   <<One(Name("Bytes"), Hex(<<>>)), One(Name("Code"), JsonNumber(253))>>}}
=============================================================================
