--------------------------- MODULE MCCodecSession ---------------------------
(* Documents that redefine the AVPs of a small message: a number by another  *)
(* of its width, by one of another and by a text, a text by an address, the  *)
(* grouped AVP by a text, and one AVP under the name of another.             *)
EXTENDS CodecSession, TLC

Avp(n, code, f) ==
    [name |-> n, code |-> code, vendor |-> Absent, vBit |-> FALSE, format |-> f,
     enum |-> FALSE, label |-> FALSE, rules |-> Absent]
Pair(names) ==
    [Avp("Pair", 4, Absent) EXCEPT
        !.rules = [i \in DOMAIN names |->
                      [name |-> names[i], type |-> "Mandatory", qual |-> NoQual]]]
Doc(as) == [avp |-> as]
Rule(n) == [name |-> n, type |-> "Optional", qual |-> NoQual]

First ==
    [avp |-> <<Avp("Num", 1, "Unsigned32"), Avp("Text", 2, "UTF8String"),
               Avp("Host", 3, "Address"), Pair(<<"Text", "Num">>)>>,
     command |-> <<[name |-> "Req", code |-> 1, request |-> TRUE,
                    rules |-> <<Rule("Text"), Rule("Num")>>]>>]
MCDocs ==
    {First, Doc(<<Avp("Num", 1, "Time"), Avp("Pair", 4, "OctetString")>>),
     Doc(<<Avp("Num", 1, "Unsigned64"), Avp("Host", 3, "Fmt")>>),
     Doc(<<Avp("Text", 1, "Integer32")>>),
     Doc(<<Avp("Text", 2, "Address"), Avp("Host", 3, "UTF8String")>>),
     [format |-> <<[name |-> "Fmt", parent |-> "OctetString"]>>, avp |-> <<Avp("Text", 2, "Fmt")>>],
     Doc(<<Pair(<<"Num", "Host", "Other">>)>>)}

MCNames ==
    BasicTypes \cup DerivedTypes \cup ReservedTypes
    \cup {"AVP", "", "Num", "Text", "Host", "Pair", "Req", "Fmt", "Other"}

MCMessageIds == {<<1, TRUE>>}

Name(n) == <<n, 0, 0>>
MCKeyNames ==
    <<"", "AVP", "Address", "Any", "DiameterIdentity", "DiameterURI", "Enumerated", "Float32",
      "Float64", "Fmt", "Grouped", "Host", "IPFilterRule", "Integer32", "Integer64", "Num",
      "OctetString", "Other", "Pair", "QoSFilterRule", "Req", "Text", "Time", "UTF8String",
      "Unknown", "Unsigned32", "Unsigned64", "_header", "avp-", "flags", "hex">>
MCKeyRank == [n \in {MCKeyNames[i] : i \in DOMAIN MCKeyNames} |->
                CHOOSE i \in DOMAIN MCKeyNames : MCKeyNames[i] = n]

\* Octets of two bits, as in MCMessageObject.  12 octets of Num, 16 of Text
\* (15 and padding), which spells an address, 16 of Host (14), and Pair with the
\* first two.
ONum == <<0, 0, 0, 1, 0, 0, 3, 0, 0, 3, 1, 2>>
OText == <<0, 0, 0, 2, 0, 0, 3, 3>> \o Codec!HostText(<<1, 0, 0, 2>>) \o <<0>>
OHost == <<0, 0, 0, 3, 1, 0, 3, 2, 0, 1, 1, 0, 0, 2, 0, 0>>
OPair == <<0, 0, 1, 0, 1, 2, 1, 0>> \o ONum \o OText
OOther == <<0, 0, 2, 1, 0, 0, 2, 1, 3, 0, 0, 0>>
MCBodies == {ONum \o OOther \o ONum, OText \o OPair, OHost \o SubSeq(ONum, 1, 11)}

Value(kind, num, text, items) == [kind |-> kind, num |-> num, text |-> text, items |-> items]
JsonNumber(v) == Value("number", v, <<>>, <<>>)
JsonText(text) == Value("text", 0, text, <<>>)
One(key, value) == [key |-> key, isArray |-> FALSE, values |-> <<value>>]
MCDocuments ==
    {<<One(Name("Num"), JsonNumber(200)), One(Name("Text"), JsonText(<<1, 2>>))>>,
     <<One(Name("Host"), JsonText(Codec!HostText(<<1, 0, 0, 2>>))),
       One(<<"avp-", 9, 0>>, JsonText(<<1, 1>>))>>,
     <<One(Name("Pair"), Value("object", 0, <<>>,
            <<[key |-> Name("Num"), isArray |-> TRUE, values |-> <<JsonNumber(7), JsonNumber(5)>>],
              One(Name("Text"), JsonText(<<3>>))>>))>>}
=============================================================================
