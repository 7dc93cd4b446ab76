--------------------------- MODULE MessageObject ---------------------------
(* codec::Message: an object that is decoded from octets, built from JSON,   *)
(* made into the header of an answer or set field by field, and written to   *)
(* octets and to JSON.  The operations that change it are the actions; the   *)
(* const ones (encode, getLength, toJson, getAvp) are operators on it, and   *)
(* their results come back in through decode and fromJson.                   *)
EXTENDS AvpCodec

CONSTANTS Commands,     \* CommandId -> the AVP ids of the command's rules
          Documents,    \* JSON messages an application may pass to fromJson
          Buffers,      \* octets that may arrive
          AvpBuffers,   \* octets for one Avp alone
          Objects,      \* Avp objects an application may add
          FlagValues,   \* values for setFlags
          MaxAvps       \* bound on the AVPs added one by one

\* No name was moved to another id, and none has the form of an unknown AVP's.
ASSUME IndexAssumption ==
    /\ "avp-" \notin DOMAIN Index
    /\ \A id \in DOMAIN Dict : Dict[id].name \in DOMAIN Index /\ Index[Dict[id].name] = id

Numbers == 0..(Values[4] - 1)
CommandIds == Numbers \X BOOLEAN

\* What an application has: objects, octets and documents, of any content.
ASSUME ApplicationAssumption ==
    /\ Objects \subseteq Avps /\ FlagValues \subseteq Octet /\ MaxAvps \in Nat
    /\ Buffers \subseteq Seq(Octet) /\ AvpBuffers \subseteq Seq(Octet)
    /\ \A id \in DOMAIN Commands : id \in CommandIds /\ Commands[id] \in Seq(AvpIds)
    /\ \A doc \in Documents :
        /\ doc.items \in Seq(EntriesOf(JsonValues))
        /\ \A key \in DOMAIN doc.header :
            doc.header[key] \in IF key = "request" THEN BOOLEAN ELSE Int

VARIABLE message

RequestFlag == Base \div 2

NewMessage == [version |-> 1, flags |-> 0, id |-> <<0, FALSE>>, app |-> 0,
               hopByHop |-> 0, endToEnd |-> 0, avps |-> <<>>]

IsRequest(m) == m.flags >= RequestFlag

\* encode; the length field keeps three octets of the length.
Encoded(m) ==
    LET body == EncodeAll(m.avps) IN
    <<m.version>> \o Octets(20 + Len(body), 3) \o <<m.flags>> \o Octets(m.id[1], 3)
        \o Octets(m.app, 4) \o Octets(m.hopByHop, 4) \o Octets(m.endToEnd, 4) \o body

\* getLength
Length(m) == 20 + LengthOfAll(m.avps)

\* (variant) the request indicator of the id left as it was.
DecodeHeaderKeepingId(m, octets) ==
    [m EXCEPT !.version = octets[1], !.flags = octets[5],
              !.id = <<Number(SubSeq(octets, 6, 8)), m.id[2]>>,
              !.app = Number(SubSeq(octets, 9, 12)),
              !.hopByHop = Number(SubSeq(octets, 13, 16)),
              !.endToEnd = Number(SubSeq(octets, 17, 20))]

DecodeHeader(m, octets) ==
    [m EXCEPT !.version = octets[1], !.flags = octets[5],
              !.id = <<Number(SubSeq(octets, 6, 8)), octets[5] >= RequestFlag>>,
              !.app = Number(SubSeq(octets, 9, 12)),
              !.hopByHop = Number(SubSeq(octets, 13, 16)),
              !.endToEnd = Number(SubSeq(octets, 17, 20))]

\* decode, as MessageDecode has it step by step: a throw leaves the fields
\* assigned by then.
Decoded(m, octets) ==
    LET length == Number(SubSeq(octets, 2, 4))
        header == DecodeHeader(m, octets)
    IN  IF Len(octets) < 20 THEN m
        ELSE IF Len(octets) < length THEN header
        ELSE [header EXCEPT !.avps = DecodeAll[SubSeq(octets, 21, length)].avps]

HeaderToJson(m) ==
    [version |-> m.version, flags |-> m.flags, code |-> m.id[1], request |-> IsRequest(m),
     app |-> m.app, hopByHop |-> m.hopByHop, endToEnd |-> m.endToEnd]

\* toJson: the header and the AVPs.  An AVP named as the header's key joins it
\* there in an array, of which fromJson reads nothing.
Json(m) ==
    LET items == ItemsOfAll(m.avps) IN
    [header |-> IF HasKey(items, HeaderKey) THEN <<>> ELSE HeaderToJson(m), items |-> items]

\* fromJson of a header, of whose keys any may be missing.  Numbers lose what
\* their field does not hold, except a code, which is stored in 32 bits.
HeaderFromJson(h) ==
    LET has(key) == key \in DOMAIN h
        given == IF has("flags") THEN h.flags % Base ELSE 0
        request == has("request") /\ h.request
        flags == IF has("code")
                 THEN (given % RequestFlag) + IF request THEN RequestFlag ELSE 0
                 ELSE given
        field(key, width, default) == IF has(key) THEN Unsigned(h[key], width) ELSE default
    IN  [version |-> field("version", 1, 1), flags |-> flags,
         id |-> IF has("code") THEN <<Unsigned(h.code, 4), request>> ELSE <<0, FALSE>>,
         app |-> field("app", 4, 0), hopByHop |-> field("hopByHop", 4, 0),
         endToEnd |-> field("endToEnd", 4, 0), avps |-> <<>>]

\* The AVPs in the order of the command, when the dictionary has it.
WithAvps(m, read) ==
    LET rules == IF m.id \in DOMAIN Commands THEN Commands[m.id] ELSE <<>> IN
    [ok |-> read.ok, message |-> [m EXCEPT !.avps = SortByRules(read.avps, rules)]]

\* fromJson: [ok, message].
MessageFromJson(doc) == WithAvps(HeaderFromJson(doc.header), FromMessage(doc.items))

----------------------------------------------------------------------------
Init == message = NewMessage

\* std::get may throw before anything is written.
CanWrite(m) == \A i \in DOMAIN m.avps : Holds(m.avps[i])
CanEncode(m) == \A i \in DOMAIN m.avps : Encodable(m.avps[i])

DecodeMessage ==
    \E octets \in Buffers \cup (IF CanEncode(message) THEN {Encoded(message)} ELSE {}) :
        message' = Decoded(message, octets)

\* The documents come from elsewhere, or from toJson of this message.
Builds == {MessageFromJson(doc) : doc \in Documents}
BuildFromJson ==
    \E built \in Builds \cup (IF CanWrite(message) THEN {MessageFromJson(Json(message))} ELSE {}) :
        message' = IF built.ok THEN built.message ELSE message

\* setHeaderToAnswer for the request in message, on a new Message or on a copy of
\* the request: the AVPs of the answer stay.
SetHeaderToAnswer ==
    \E avps \in {<<>>, message.avps} :
        message' = [message EXCEPT !.flags = @ % RequestFlag, !.id = <<@[1], FALSE>>,
                                   !.avps = avps]

SetFlags == \E flags \in FlagValues : message' = [message EXCEPT !.flags = flags]

SetId == \E id \in DOMAIN Commands : message' = [message EXCEPT !.id = id]

\* addAvp and the setters of the new Avp.
AddAvp ==
    /\ Len(message.avps) < MaxAvps
    /\ \E avp \in Objects : message' = [message EXCEPT !.avps = Append(@, avp)]

\* Avp::decode on an Avp that is in the message already, which may throw.  The
\* first stands for any.
DecodeIntoAvp ==
    /\ message.avps # <<>>
    /\ \E octets \in AvpBuffers :
        message' = [message EXCEPT !.avps[1] = Decode(@, octets).avp]

Next == DecodeMessage \/ BuildFromJson \/ SetHeaderToAnswer \/ SetFlags \/ SetId
        \/ AddAvp \/ DecodeIntoAvp

Spec == Init /\ [][Next]_message
----------------------------------------------------------------------------
(* Properties                                                                *)

\* Type correctness.
TypeOK ==
    message \in [version : Octet, flags : Octet, id : CommandIds, app : Numbers,
                hopByHop : Numbers, endToEnd : Numbers, avps : Seq(Avps)]

\* getLength, which the application may reserve or announce, is the number of
\* octets encode writes, whatever the message is made of (Avp.cpp:457).
LengthAgrees == CanEncode(message) => Length(message) = Len(Encoded(message))

\* The wire has room for what the object says: the code and the length in
\* three octets, the request bit once, a vendor only where the V bit is.
Faithful(m) ==
    /\ m.id[1] < Values[3] /\ m.id[2] = IsRequest(m)
    /\ Len(Encoded(m)) < Values[3]
    /\ \A avp \in AllAvps(m.avps) : ~avp.raw /\ (avp.id[2] # 0 => HasVendorBit(avp.flags))

\* A message that is encoded, whether it was decoded (whole or in part), built
\* or set by hand, decodes to the same message.
WireRoundTrip ==
    CanEncode(message) /\ Faithful(message) =>
        Decoded(NewMessage, Encoded(message)) = message

\* fromJson knows the name toJson gives the AVP.
Nameable(avp) ==
    IF ~avp.raw /\ avp.id \in DOMAIN Dict THEN Dict[avp.id].type # "Any"
                                          ELSE avp.id[1] >= 0 /\ avp.id[2] >= 0

\* No AVP has the key of the header.
KeysDiffer(m) == \A i \in DOMAIN m.avps : NameOf(m.avps[i]) # HeaderKey

Portable(m) ==
    /\ CanWrite(m) /\ KeysDiffer(m)
    /\ \A avp \in AllAvps(m.avps) : Nameable(avp)

Keeps(m, built) == built.ok /\ SameAvps(m.avps, built.message.avps)

\* Through JSON no AVP is lost, added or altered, though repeated ones share a
\* key there and the order is another.
JsonKeepsAvps ==
    Portable(message) => Keeps(message, MessageFromJson(Json(message)))

Stable(m) == MessageFromJson(Json(m)).message = m

\* What went through JSON once comes back from it unchanged.
JsonStable ==
    Portable(message) => Stable(MessageFromJson(Json(message)).message)

\* "A key not in the dictionary may use the raw form ... (the same names toJson
\* emits for unknown AVPs)" (Avp.hpp:124-126).  Codes and vendors from 2^31 on
\* are negative in an AvpId: toJson writes their minus sign, fromJson refuses it.
UnknownNamesParse ==
    \A avp \in AllAvps(message.avps) : avp.id \notin DOMAIN Dict => IsRawKey(NameOf(avp))
=============================================================================
