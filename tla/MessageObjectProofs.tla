------------------------- MODULE MessageObjectProofs -------------------------
(* Proofs about MessageObject, for every dictionary, every base and whatever *)
(* the application decodes, builds and sets.                                 *)
EXTENDS MessageObject, AvpCodecProofs

Messages == [version : Octet, flags : Octet, id : CommandIds, app : Numbers,
             hopByHop : Numbers, endToEnd : Numbers, avps : Seq(Avps)]

\* What has the fields of a message is one.
LEMMA MessageFields ==
    ASSUME NEW m
    PROVE  m \in Messages <=>
              /\ m = [version |-> m.version, flags |-> m.flags, id |-> m.id, app |-> m.app,
                      hopByHop |-> m.hopByHop, endToEnd |-> m.endToEnd, avps |-> m.avps]
              /\ m.version \in Octet /\ m.flags \in Octet /\ m.id \in CommandIds
              /\ m.app \in Numbers /\ m.hopByHop \in Numbers /\ m.endToEnd \in Numbers
              /\ m.avps \in Seq(Avps)
  BY DEF Messages

\* A number read from so many octets, or cast to them, is one of a message.
LEMMA FieldsHold ==
    /\ \A v \in Int : Unsigned(v, 1) \in Octet /\ Unsigned(v, 4) \in Numbers
    /\ \A octets \in Seq(Octet) : Len(octets) \in {3, 4} => Number(octets) \in Numbers
    /\ 0 \in Numbers /\ 0 \in Octet /\ 1 \in Octet
  <1>1. /\ Values[1] = Base /\ Values[3] \in Nat /\ Values[4] \in Nat /\ Values[1] \in Nat
        /\ Values[3] <= Values[4] /\ Values[4] >= 1 /\ Base \in Nat /\ Base >= 4
    BY ValuesKnown
  <1>2. ASSUME NEW v \in Int PROVE Unsigned(v, 1) \in Octet
    <2>1. Unsigned(v, 1) \in 0..(Values[1] - 1)
      BY UnsignedInRange
    <2> QED BY <1>1, <2>1 DEF Octet
  <1>3. ASSUME NEW v \in Int PROVE Unsigned(v, 4) \in Numbers
    <2>1. Unsigned(v, 4) \in 0..(Values[4] - 1)
      BY UnsignedInRange
    <2> QED BY <2>1 DEF Numbers
  <1>4. ASSUME NEW octets \in Seq(Octet), Len(octets) \in {3, 4}
        PROVE  Number(octets) \in Numbers
    <2>1. Number(octets) \in Nat /\ (Len(octets) <= 8 => Number(octets) < Values[Len(octets)])
      BY NumberInRange
    <2>2. Number(octets) < Values[4]
      <3>1. CASE Len(octets) = 3
        <4>1. Number(octets) < Values[3]
          BY <2>1, <3>1
        <4> QED BY <1>1, <2>1, <4>1
      <3>2. CASE Len(octets) = 4
        BY <2>1, <3>2
      <3> QED BY <1>4, <3>1, <3>2
    <2> QED BY <1>1, <2>1, <2>2 DEF Numbers
  <1>5. 0 \in Numbers /\ 0 \in Octet /\ 1 \in Octet
    BY <1>1 DEF Numbers, Octet
  <1> QED BY <1>2, <1>3, <1>4, <1>5

\* The flags with and without the request bit are an octet.
LEMMA RequestBit ==
    ASSUME NEW v \in Int
    PROVE  /\ v % RequestFlag \in Octet /\ (v % RequestFlag) + RequestFlag \in Octet
           /\ v % Base \in Octet
  <1>1. /\ RequestFlag \in Nat /\ RequestFlag >= 2 /\ 2 * RequestFlag <= Base
        /\ Base \in Nat /\ Base >= 4
    BY SizeAssumption DEF RequestFlag
  <1> HIDE DEF RequestFlag
  <1>2. v % RequestFlag \in 0..(RequestFlag - 1)
    BY <1>1
  <1>3. v % Base \in 0..(Base - 1)
    BY <1>1
  <1> QED BY <1>1, <1>2, <1>3 DEF Octet

OfLength(octets, n) == octets \in Seq(Octet) /\ Len(octets) = n

\* Octets of this length, with these pieces, each <<where, what>>.
HoldsPieces(octets, n, pieces) ==
    /\ OfLength(octets, n)
    /\ \A piece \in pieces : piece[2] \in Seq(Octet) /\ At(octets, piece[1], piece[2])

LEMMA PieceAdded ==
    ASSUME NEW s, NEW t, NEW a \in Nat, NEW b \in Nat, NEW pieces,
           HoldsPieces(s, a, pieces), OfLength(t, b)
    PROVE  HoldsPieces(s \o t, a + b, pieces \cup {<<a, t>>})
  <1>1. s \in Seq(Octet) /\ Len(s) = a /\ t \in Seq(Octet) /\ Len(t) = b
    BY DEF HoldsPieces, OfLength
  <1>2. /\ s \o t \in Seq(Octet) /\ Len(s \o t) = Len(s) + Len(t) /\ At(s \o t, Len(s), t)
        /\ \A part \in Seq(Octet) : \A k : At(s, k, part) => At(s \o t, k, part)
    BY <1>1, Grown
  <1>3. ASSUME NEW piece \in pieces
        PROVE  piece[2] \in Seq(Octet) /\ At(s \o t, piece[1], piece[2])
    BY <1>2 DEF HoldsPieces
  <1>4. <<a, t>>[2] \in Seq(Octet) /\ At(s \o t, <<a, t>>[1], <<a, t>>[2])
    BY <1>1, <1>2
  <1> QED BY <1>1, <1>2, <1>3, <1>4 DEF HoldsPieces, OfLength

\* encode: the header of 20 octets, in which the fields have their places, and
\* the AVPs.
LEMMA EncodedPieces ==
    ASSUME NEW m \in Messages
    PROVE  LET octets == Encoded(m)
               body == EncodeAll(m.avps)
           IN  /\ octets \in Seq(Octet) /\ Len(octets) = 20 + Len(body)
               /\ At(octets, 0, <<m.version>>) /\ At(octets, 1, Octets(20 + Len(body), 3))
               /\ At(octets, 4, <<m.flags>>) /\ At(octets, 5, Octets(m.id[1], 3))
               /\ At(octets, 8, Octets(m.app, 4)) /\ At(octets, 12, Octets(m.hopByHop, 4))
               /\ At(octets, 16, Octets(m.endToEnd, 4)) /\ At(octets, 20, body)
  <1> DEFINE body == EncodeAll(m.avps)
             version == <<m.version>>
             length == Octets(20 + Len(body), 3)
             flags == <<m.flags>>
             code == Octets(m.id[1], 3)
             app == Octets(m.app, 4)
             hop == Octets(m.hopByHop, 4)
             end == Octets(m.endToEnd, 4)
             s1 == version \o length
             s2 == s1 \o flags
             s3 == s2 \o code
             s4 == s3 \o app
             s5 == s4 \o hop
             s6 == s5 \o end
             s7 == s6 \o body
  <1>1. /\ m.version \in Octet /\ m.flags \in Octet /\ m.id[1] \in Int
        /\ m.app \in Int /\ m.hopByHop \in Int /\ m.endToEnd \in Int
        /\ m.avps \in Seq(Avps)
    <2>1. Numbers \subseteq Int
      BY DEF Numbers
    <2> QED BY <2>1 DEF Messages, CommandIds
  <1>2. body \in Seq(Octet) /\ Len(body) \in Nat /\ 20 + Len(body) \in Int
    <2>1. body \in Seq(Octet)
      BY <1>1, EncodeAllTyped
    <2> HIDE DEF body
    <2> QED BY <2>1
  <1>3. OfLength(version, 1) /\ OfLength(flags, 1) /\ OfLength(body, Len(body))
    <2> HIDE DEF body
    <2> QED BY <1>1, <1>2 DEF OfLength
  <1>4. /\ OfLength(length, 3) /\ OfLength(code, 3)
        /\ OfLength(app, 4) /\ OfLength(hop, 4) /\ OfLength(end, 4)
    <2> HIDE DEF body
    <2>1. 4 \in 0..8 /\ 3 \in 0..8
      OBVIOUS
    <2> QED BY <1>1, <1>2, <2>1, OctetsTyped DEF OfLength
  <1>5. Encoded(m) = s7
    BY DEF Encoded
  <1> HIDE DEF body, version, length, flags, code, app, hop, end, s1, s2, s3, s4, s5, s6
  <1> DEFINE p0 == {<<0, version>>}
             p1 == p0 \cup {<<1, length>>}
             p2 == p1 \cup {<<4, flags>>}
             p3 == p2 \cup {<<5, code>>}
             p4 == p3 \cup {<<8, app>>}
             p5 == p4 \cup {<<12, hop>>}
             p6 == p5 \cup {<<16, end>>}
             p7 == p6 \cup {<<20, body>>}
  <1>6. HoldsPieces(version, 1, p0)
    <2>1. version \in Seq(Octet) /\ Len(version) = 1
      BY <1>3 DEF OfLength
    <2>2. 0 \in Nat /\ \A i \in 1..1 : 0 + i = i
      OBVIOUS
    <2>3. At(version, 0, version)
      BY <2>1, <2>2 DEF At
    <2>4. \A piece \in {<<0, version>>} : piece[1] = 0 /\ piece[2] = version
      OBVIOUS
    <2> QED BY <1>3, <2>1, <2>3, <2>4 DEF HoldsPieces
  <1> HIDE DEF p0, p1, p2, p3, p4, p5, p6
  <1>7. HoldsPieces(s1, 1 + 3, p1)
    BY <1>4, <1>6, PieceAdded DEF s1, p1
  <1>8. HoldsPieces(s2, 4 + 1, p2)
    BY <1>3, <1>7, PieceAdded DEF s2, p2
  <1>9. HoldsPieces(s3, 5 + 3, p3)
    BY <1>4, <1>8, PieceAdded DEF s3, p3
  <1>10. HoldsPieces(s4, 8 + 4, p4)
    BY <1>4, <1>9, PieceAdded DEF s4, p4
  <1>11. HoldsPieces(s5, 12 + 4, p5)
    BY <1>4, <1>10, PieceAdded DEF s5, p5
  <1>12. HoldsPieces(s6, 16 + 4, p6)
    BY <1>4, <1>11, PieceAdded DEF s6, p6
  <1>13. HoldsPieces(s7, 20 + Len(body), p7)
    BY <1>2, <1>3, <1>12, PieceAdded
  <1> HIDE DEF s7
  <1>14. \A piece \in p7 : At(s7, piece[1], piece[2])
    BY <1>13 DEF HoldsPieces
  <1>15. /\ <<0, version>> \in p7 /\ <<1, length>> \in p7 /\ <<4, flags>> \in p7
         /\ <<5, code>> \in p7 /\ <<8, app>> \in p7 /\ <<12, hop>> \in p7
         /\ <<16, end>> \in p7 /\ <<20, body>> \in p7
    BY DEF p0, p1, p2, p3, p4, p5, p6
  <1> HIDE DEF p7
  <1>16. /\ At(s7, 0, version) /\ At(s7, 1, length) /\ At(s7, 4, flags) /\ At(s7, 5, code)
         /\ At(s7, 8, app) /\ At(s7, 12, hop) /\ At(s7, 16, end) /\ At(s7, 20, body)
    BY <1>14, <1>15
  <1>17. s7 \in Seq(Octet) /\ Len(s7) = 20 + Len(body)
    BY <1>13 DEF HoldsPieces, OfLength
  <1> QED BY <1>5, <1>16, <1>17 DEF body, version, length, flags, code, app, hop, end

LEMMA EncodedTyped ==
    ASSUME NEW m \in Messages
    PROVE  /\ Encoded(m) \in Seq(Octet)
           /\ Len(Encoded(m)) = 20 + Len(EncodeAll(m.avps))
  BY EncodedPieces

\* The header that decode reads.
LEMMA DecodeHeaderTyped ==
    ASSUME NEW m \in Messages, NEW octets \in Seq(Octet), Len(octets) >= 20
    PROVE  DecodeHeader(m, octets) \in Messages
  <1> DEFINE field(i, j) == Number(SubSeq(octets, i, j))
             version == octets[1]
             flags == octets[5]
             id == <<field(6, 8), octets[5] >= RequestFlag>>
             app == field(9, 12)
             hopByHop == field(13, 16)
             endToEnd == field(17, 20)
             made == DecodeHeader(m, octets)
  <1>1. Len(octets) \in Nat
    OBVIOUS
  <1>2. version \in Octet /\ flags \in Octet
    BY <1>1
  <1>3. \A i, j \in 1..20 : j - i \in {2, 3} => field(i, j) \in Numbers
    <2> SUFFICES ASSUME NEW i \in 1..20, NEW j \in 1..20, j - i \in {2, 3}
                 PROVE  field(i, j) \in Numbers
      OBVIOUS
    <2> DEFINE part == SubSeq(octets, i, j)
    <2>1. i \in Nat /\ j \in Nat /\ i >= 1 /\ j <= Len(octets) /\ i <= j
      BY <1>1
    <2>2. part \in Seq(Octet) /\ Len(part) = IF i <= j THEN j - i + 1 ELSE 0
      BY <2>1, PartOf
    <2> HIDE DEF part
    <2>3. Len(part) \in {3, 4}
      BY <2>1, <2>2
    <2>4. Number(part) \in Numbers
      BY <2>2, <2>3, FieldsHold
    <2> QED BY <2>4 DEF part
  <1>4. field(6, 8) \in Numbers /\ app \in Numbers /\ hopByHop \in Numbers /\ endToEnd \in Numbers
    <2> HIDE DEF field
    <2> QED BY <1>3
  <1>5. id \in CommandIds
    <2> DEFINE code == field(6, 8)
               request == octets[5] >= RequestFlag
    <2>1. code \in Numbers /\ request \in BOOLEAN
      BY <1>4
    <2> HIDE DEF code, request
    <2>2. <<code, request>> \in CommandIds
      BY <2>1 DEF CommandIds
    <2> QED BY <2>2 DEF code, request
  <1>6. made = [version |-> version, flags |-> flags, id |-> id, app |-> app,
                hopByHop |-> hopByHop, endToEnd |-> endToEnd, avps |-> m.avps]
    <2>1. made = [m EXCEPT !.version = version, !.flags = flags, !.id = id, !.app = app,
                           !.hopByHop = hopByHop, !.endToEnd = endToEnd]
      BY DEF DecodeHeader
    <2>2. m = [version |-> m.version, flags |-> m.flags, id |-> m.id, app |-> m.app,
               hopByHop |-> m.hopByHop, endToEnd |-> m.endToEnd, avps |-> m.avps]
      BY MessageFields
    <2> HIDE DEF made, version, flags, id, app, hopByHop, endToEnd
    <2> QED BY <2>1, <2>2
  <1>7. m.avps \in Seq(Avps)
    BY MessageFields
  <1> HIDE DEF made, version, flags, id, app, hopByHop, endToEnd
  <1>8. made \in Messages
    BY <1>2, <1>4, <1>5, <1>6, <1>7 DEF Messages
  <1> QED BY <1>8 DEF made

\* A message with other AVPs is one.
LEMMA AvpsReplaced ==
    ASSUME NEW m \in Messages, NEW avps \in Seq(Avps)
    PROVE  [m EXCEPT !.avps = avps] \in Messages
  BY DEF Messages

LEMMA DecodedTyped ==
    ASSUME NEW m \in Messages, NEW octets \in Seq(Octet)
    PROVE  Decoded(m, octets) \in Messages
  <1> DEFINE length == Number(SubSeq(octets, 2, 4))
             header == DecodeHeader(m, octets)
             body == SubSeq(octets, 21, length)
  <1>1. Len(octets) \in Nat
    OBVIOUS
  <1>2. CASE Len(octets) < 20
    BY <1>2 DEF Decoded
  <1>3. CASE ~(Len(octets) < 20) /\ Len(octets) < length
    <2>1. header \in Messages
      BY <1>1, <1>3, DecodeHeaderTyped
    <2>2. Decoded(m, octets) = header
      BY <1>3 DEF Decoded
    <2> QED BY <2>1, <2>2
  <1>4. CASE ~(Len(octets) < 20) /\ ~(Len(octets) < length)
    <2>1. header \in Messages
      BY <1>1, <1>4, DecodeHeaderTyped
    <2>2. length \in Nat /\ length < Values[3]
      <3> DEFINE part == SubSeq(octets, 2, 4)
      <3>1. part \in Seq(Octet) /\ Len(part) = IF 2 <= 4 THEN 4 - 2 + 1 ELSE 0
        BY <1>1, <1>4, PartOf
      <3> HIDE DEF part
      <3>2. Len(part) = 3
        BY <3>1
      <3>3. Number(part) \in Nat /\ (Len(part) <= 8 => Number(part) < Values[Len(part)])
        BY <3>1, NumberInRange
      <3>4. Number(part) \in Nat /\ Number(part) < Values[3]
        BY <3>2, <3>3
      <3> QED BY <3>4 DEF part
    <2> HIDE DEF length
    <2>3. body \in OctetStrings
      <3>1. length <= Len(octets)
        BY <1>1, <1>4, <2>2
      <3>2. body \in Seq(Octet) /\ Len(body) = IF 21 <= length THEN length - 21 + 1 ELSE 0
        BY <2>2, <3>1, PartOf
      <3> HIDE DEF body
      <3>3. Values[3] \in Nat /\ Values[3] >= 12
        BY ValuesKnown
      <3>4. Len(body) < Values[3]
        BY <2>2, <3>2, <3>3
      <3> QED BY <3>2, <3>4 DEF OctetStrings
    <2>4. DecodeAll[body].avps \in Seq(Avps)
      <3> HIDE DEF body
      <3>1. DecodeAll[body] \in ReadsOf(Avps)
        BY <2>3, DecodeAllDefined
      <3> QED BY <3>1 DEF ReadsOf
    <2>5. Decoded(m, octets) = [header EXCEPT !.avps = DecodeAll[body].avps]
      BY <1>4 DEF Decoded, length
    <2> HIDE DEF header, body
    <2> QED BY <2>1, <2>4, <2>5, AvpsReplaced
  <1> QED BY <1>2, <1>3, <1>4

\* A header in JSON: whatever keys it has, their values are of their kind.
IsHeader(h) ==
    \A key \in DOMAIN h : h[key] \in IF key = "request" THEN BOOLEAN ELSE Int

LEMMA HeaderFromJsonTyped ==
    ASSUME NEW h, IsHeader(h)
    PROVE  HeaderFromJson(h) \in Messages
  <1> DEFINE has(key) == key \in DOMAIN h
             given == IF has("flags") THEN h.flags % Base ELSE 0
             request == has("request") /\ h.request
             flags == IF has("code")
                      THEN (given % RequestFlag) + IF request THEN RequestFlag ELSE 0
                      ELSE given
             field(key, width, default) == IF has(key) THEN Unsigned(h[key], width) ELSE default
             id == IF has("code") THEN <<Unsigned(h.code, 4), request>> ELSE <<0, FALSE>>
             version == field("version", 1, 1)
             app == field("app", 4, 0)
             hop == field("hopByHop", 4, 0)
             end == field("endToEnd", 4, 0)
  <1>1. \A key \in {"flags", "code", "version", "app", "hopByHop", "endToEnd"} :
            has(key) => h[key] \in Int
    BY DEF IsHeader
  <1>2. given \in Octet /\ given \in Int
    <2>1. has("flags") => h.flags % Base \in Octet
      BY <1>1, RequestBit
    <2>2. given \in Octet
      BY <2>1, FieldsHold
    <2> HIDE DEF given
    <2> QED BY <2>2 DEF Octet
  <1>3. request \in BOOLEAN
    BY DEF IsHeader
  <1>4. flags \in Octet
    <2> HIDE DEF given, request, has
    <2>1. RequestFlag \in Nat
      BY SizeAssumption DEF RequestFlag
    <2>2. given % RequestFlag \in Octet /\ (given % RequestFlag) + RequestFlag \in Octet
      BY <1>2, RequestBit
    <2>3. (given % RequestFlag) + 0 = given % RequestFlag
      BY <2>2 DEF Octet
    <2> QED BY <1>2, <2>2, <2>3
  <1>5. /\ version \in Octet /\ app \in Numbers /\ hop \in Numbers /\ end \in Numbers
    BY <1>1, FieldsHold
  <1>6. id \in CommandIds
    <2> DEFINE code == Unsigned(h.code, 4)
    <2>1. has("code") => code \in Numbers
      BY <1>1, FieldsHold
    <2> HIDE DEF code, request, has
    <2>2. has("code") => <<code, request>> \in CommandIds
      BY <1>3, <2>1 DEF CommandIds
    <2>3. <<0, FALSE>> \in CommandIds
      BY FieldsHold DEF CommandIds
    <2> QED BY <2>2, <2>3 DEF code
  <1>7. HeaderFromJson(h) = [version |-> version, flags |-> flags, id |-> id, app |-> app,
                             hopByHop |-> hop, endToEnd |-> end, avps |-> <<>>]
    BY DEF HeaderFromJson
  <1>8. <<>> \in Seq(Avps)
    OBVIOUS
  <1> HIDE DEF version, flags, id, app, hop, end
  <1> QED BY <1>4, <1>5, <1>6, <1>7, <1>8 DEF Messages

\* fromJson of any document makes a message.
LEMMA MessageFromJsonTyped ==
    ASSUME NEW doc, IsHeader(doc.header), doc.items \in Seq(EntriesOf(JsonValues))
    PROVE  MessageFromJson(doc).message \in Messages
  <1> DEFINE m == HeaderFromJson(doc.header)
             read == FromMessage(doc.items)
             rules == IF m.id \in DOMAIN Commands THEN Commands[m.id] ELSE <<>>
             sorted == SortByRules(read.avps, rules)
  <1>1. m \in Messages
    BY HeaderFromJsonTyped
  <1>2. read.avps \in Seq(Avps)
    <2>1. read \in ReadsOf(Avps)
      BY FromMessageTyped
    <2> QED BY <2>1 DEF ReadsOf
  <1>3. rules \in Seq(AvpIds)
    <2>1. <<>> \in Seq(AvpIds)
      OBVIOUS
    <2> QED BY <2>1, ApplicationAssumption
  <1>4. MessageFromJson(doc).message = [m EXCEPT !.avps = sorted]
    BY DEF MessageFromJson, WithAvps
  <1> HIDE DEF m, read, rules
  <1>5. sorted \in Seq(Avps)
    BY <1>2, <1>3, SortedTyped
  <1> HIDE DEF sorted
  <1> QED BY <1>1, <1>4, <1>5, AvpsReplaced

LEMMA HeaderToJsonTyped ==
    ASSUME NEW m \in Messages
    PROVE  IsHeader(HeaderToJson(m))
  <1> DEFINE h == HeaderToJson(m)
  <1>1. h = [version |-> m.version, flags |-> m.flags, code |-> m.id[1],
             request |-> IsRequest(m), app |-> m.app,
             hopByHop |-> m.hopByHop, endToEnd |-> m.endToEnd]
    BY DEF HeaderToJson
  <1>2. /\ m.version \in Int /\ m.flags \in Int /\ m.id[1] \in Int
        /\ m.app \in Int /\ m.hopByHop \in Int /\ m.endToEnd \in Int
    <2>1. Numbers \subseteq Int /\ Octet \subseteq Int
      BY SizeAssumption DEF Numbers, Octet
    <2> QED BY <2>1 DEF Messages, CommandIds
  <1>3. IsRequest(m) \in BOOLEAN
    BY DEF IsRequest
  <1> HIDE DEF h
  <1>4. IsHeader(h)
    BY <1>1, <1>2, <1>3 DEF IsHeader
  <1> QED BY <1>4 DEF h

LEMMA JsonTyped ==
    ASSUME NEW m \in Messages
    PROVE  IsHeader(Json(m).header) /\ Json(m).items \in Seq(EntriesOf(JsonValues))
  <1>1. IsHeader(HeaderToJson(m)) /\ IsHeader(<<>>)
    BY HeaderToJsonTyped DEF IsHeader
  <1>2. IsHeader(Json(m).header) /\ Json(m).items = ItemsOfAll(m.avps)
    BY <1>1 DEF Json
  <1>3. m.avps \in Seq(Avps)
    BY MessageFields
  <1> QED BY <1>2, <1>3, AllToJsonTyped

\* decode of an AVP from any octets leaves an AVP.
LEMMA DecodeTyped ==
    ASSUME NEW avp \in Avps, NEW octets \in Seq(Octet)
    PROVE  Decode(avp, octets).avp \in Avps
  <1> DEFINE kids == DecodeAll[DataIn(octets)]
  <1>1. /\ MaxDepth \in 1..MaxDepth /\ MaxDepth - 1 \in 0..MaxDepth
        /\ Values[3] <= 8 * (MaxDepth + 1) /\ Values[3] \in Nat
    <2>1. Values[3] \in Nat /\ Values[3] >= 12
      BY ValuesKnown
    <2> QED BY <2>1, SizeAssumption
  <1>2. ASSUME Fits(octets) PROVE kids.ok \in BOOLEAN /\ kids.avps \in Within(MaxDepth)
    <2> DEFINE n == Len(DataIn(octets))
    <2>1. /\ DataIn(octets) \in OctetStrings
          /\ n = LengthIn(octets) - HeaderLenIn(octets)
      BY <1>2, PartsTyped
    <2>2. /\ LengthIn(octets) \in Nat /\ LengthIn(octets) < Values[3]
          /\ HeaderLenIn(octets) \in {8, 12}
      <3>1. octets \in Seq(Octet) /\ Fits(octets)
        BY <1>2
      <3> HIDE DEF n, kids
      <3> QED BY <3>1, HeaderTyped DEF Fits
    <2> HIDE DEF n
    <2>3. n < 8 * ((MaxDepth - 1) + 1)
      <3> DEFINE v == Values[3]
                 length == LengthIn(octets)
                 header == HeaderLenIn(octets)
      <3>1. /\ v \in Nat /\ v <= 8 * (MaxDepth + 1) /\ MaxDepth \in Nat
            /\ length \in Nat /\ length < v /\ header \in {8, 12} /\ n = length - header
        BY <1>1, <2>1, <2>2
      <3> HIDE DEF v, length, header
      <3> QED BY ONLY <3>1
    <2>4. DataIn(octets) \in Shallow(MaxDepth - 1)
      BY <2>1, <2>3 DEF Shallow, n
    <2>5. kids \in ReadsOf(Nested[MaxDepth - 1])
      BY <1>1, <2>4, DecodeAllDefined
    <2> QED BY <1>1, <2>5 DEF ReadsOf, Within
  <1>3. avp \in Nested[MaxDepth] /\ MaxDepth \in 0..MaxDepth
    BY <1>1 DEF Avps
  <1>4. Decode(avp, octets) = DecodeInto(avp, octets, kids)
    BY DEF Decode
  <1> HIDE DEF kids
  <1>5. DecodeInto(avp, octets, kids).avp \in Nested[MaxDepth]
    BY <1>2, <1>3, DecodeIntoTyped
  <1> QED BY <1>4, <1>5 DEF Avps

----------------------------------------------------------------------------
(* From a message to octets and back                                         *)

\* A number is read from where it was put.
LEMMA NumberAt ==
    ASSUME NEW octets \in Seq(Octet), NEW n \in 1..8, NEW v \in UnsignedOf(n), NEW k,
           At(octets, k, Octets(v, n))
    PROVE  Number(SubSeq(octets, k + 1, k + n)) = v
  <1>1. n \in 0..8 /\ v \in Int /\ Unsigned(v, n) = v
    <2>1. n \in 0..8
      OBVIOUS
    <2> QED BY <2>1, CastBack
  <1>2. Octets(v, n) \in Seq(Octet) /\ Len(Octets(v, n)) = n
    BY <1>1, OctetsTyped
  <1>3. SubSeq(octets, k + 1, k + Len(Octets(v, n))) = Octets(v, n)
    BY <1>2, PartAt
  <1> QED BY <1>1, <1>2, <1>3, NumberOfOctets

\* The AVPs of a message that the wire has room for come back.
LEMMA AvpsBack ==
    ASSUME NEW m \in Messages, CanEncode(m), Faithful(m)
    PROVE  DecodeAll[EncodeAll(m.avps)] = [ok |-> TRUE, avps |-> m.avps]
  <1>1. m.avps \in Seq(Avps)
    BY DEF Messages
  <1>2. \A i \in 1..Len(m.avps) : Carried(m.avps[i])
    <2> TAKE i \in 1..Len(m.avps)
    <2>1. i \in DOMAIN m.avps
      BY <1>1
    <2>2. Encodable(m.avps[i])
      BY <2>1 DEF CanEncode
    <2>3. Parts[m.avps[i]] \subseteq AllAvps(m.avps)
      BY <2>1 DEF AllAvps
    <2> QED BY <2>2, <2>3 DEF Carried, IsFaithful, Faithful
  <1>3. Len(EncodeAll(m.avps)) < Values[3]
    <2>1. EncodeAll(m.avps) \in Seq(Octet)
      BY <1>1, EncodeAllTyped
    <2>2. Len(EncodeAll(m.avps)) \in Nat
      BY <2>1
    <2>3. Len(Encoded(m)) = 20 + Len(EncodeAll(m.avps)) /\ Len(Encoded(m)) < Values[3]
      BY EncodedTyped DEF Faithful
    <2>4. Values[3] \in Nat
      BY ValuesKnown
    <2> QED BY <2>2, <2>3, <2>4
  <1> QED BY <1>1, <1>2, <1>3, DecodedBack

\* A new message with the header that was read.
LEMMA HeaderRead ==
    \A version, flags, id, app, hop, end :
        [NewMessage EXCEPT !.version = version, !.flags = flags, !.id = id,
                           !.app = app, !.hopByHop = hop, !.endToEnd = end]
          = [version |-> version, flags |-> flags, id |-> id, app |-> app,
             hopByHop |-> hop, endToEnd |-> end, avps |-> <<>>]
  <1> DEFINE Only(version, flags, id, app, hop, end) ==
                [version : {version}, flags : {flags}, id : {id}, app : {app},
                 hopByHop : {hop}, endToEnd : {end}, avps : {<<>>}]
             Read(version, flags, id, app, hop, end) ==
                [NewMessage EXCEPT !.version = version, !.flags = flags, !.id = id,
                                   !.app = app, !.hopByHop = hop, !.endToEnd = end]
  <1>1. \A version, flags, id, app, hop, end : \A m \in Only(version, flags, id, app, hop, end) :
            m = [version |-> version, flags |-> flags, id |-> id, app |-> app,
                 hopByHop |-> hop, endToEnd |-> end, avps |-> <<>>]
    OBVIOUS
  <1>2. \A version, flags, id, app, hop, end :
            Read(version, flags, id, app, hop, end) \in Only(version, flags, id, app, hop, end)
    BY DEF NewMessage
  <1>3. \A version, flags, id, app, hop, end :
            Read(version, flags, id, app, hop, end)
              = [version |-> version, flags |-> flags, id |-> id, app |-> app,
                 hopByHop |-> hop, endToEnd |-> end, avps |-> <<>>]
    <2> HIDE DEF Only, Read
    <2> TAKE version, flags, id, app, hop, end
    <2>1. Read(version, flags, id, app, hop, end) \in Only(version, flags, id, app, hop, end)
      BY <1>2
    <2> QED BY <1>1, <2>1
  <1> QED BY <1>3

\* A message that the wire has room for comes back from what it is encoded to.
LEMMA MessageBack ==
    ASSUME NEW m \in Messages, CanEncode(m), Faithful(m)
    PROVE  Decoded(NewMessage, Encoded(m)) = m
  <1> DEFINE octets == Encoded(m)
             body == EncodeAll(m.avps)
             length == 20 + Len(body)
             read == m.avps
  <1>1. octets \in Seq(Octet) /\ Len(octets) = length /\ length < Values[3]
    <2>1. octets \in Seq(Octet) /\ Len(octets) = length
      BY EncodedTyped
    <2> QED BY <2>1 DEF Faithful
  <1>2. body \in Seq(Octet) /\ Len(body) \in Nat /\ length \in Nat /\ length >= 20
    <2>1. m.avps \in Seq(Avps)
      BY DEF Messages
    <2>2. body \in Seq(Octet)
      BY <2>1, EncodeAllTyped
    <2> HIDE DEF body
    <2> QED BY <2>2
  <1>3. /\ m.version \in Octet /\ m.flags \in Octet /\ m.id \in CommandIds
        /\ m.app \in Numbers /\ m.hopByHop \in Numbers /\ m.endToEnd \in Numbers
        /\ m = [version |-> m.version, flags |-> m.flags, id |-> m.id, app |-> m.app,
                hopByHop |-> m.hopByHop, endToEnd |-> m.endToEnd, avps |-> m.avps]
    BY MessageFields
  <1>4. Numbers = UnsignedOf(4)
    BY DEF Numbers, UnsignedOf
  <1>5. m.id = <<m.id[1], m.flags >= RequestFlag>> /\ m.id[1] \in UnsignedOf(3)
    <2>1. m.id = <<m.id[1], m.id[2]>> /\ m.id[1] \in Numbers
      BY <1>3 DEF CommandIds
    <2>2. m.id[2] = (m.flags >= RequestFlag) /\ m.id[1] < Values[3]
      BY DEF Faithful, IsRequest
    <2>3. Values[3] \in Nat /\ m.id[1] \in Nat
      <3>1. Values[3] \in Nat /\ Values[4] \in Nat
        BY ValuesKnown
      <3> QED BY <2>1, <3>1 DEF Numbers
    <2>4. m.id[1] \in UnsignedOf(3)
      BY <2>2, <2>3 DEF UnsignedOf
    <2> QED BY <2>1, <2>2, <2>4
  <1>6. length \in UnsignedOf(3)
    <2> HIDE DEF length, octets
    <2>1. Values[3] \in Nat
      BY ValuesKnown
    <2> QED BY <1>1, <1>2, <2>1 DEF UnsignedOf
  <1>7. /\ At(octets, 0, <<m.version>>) /\ At(octets, 1, Octets(length, 3))
        /\ At(octets, 4, <<m.flags>>) /\ At(octets, 5, Octets(m.id[1], 3))
        /\ At(octets, 8, Octets(m.app, 4)) /\ At(octets, 12, Octets(m.hopByHop, 4))
        /\ At(octets, 16, Octets(m.endToEnd, 4)) /\ At(octets, 20, body)
    BY EncodedPieces
  <1>8. DecodeAll[body] = [ok |-> TRUE, avps |-> read]
    BY AvpsBack
  <1> HIDE DEF octets, body, length, read
  <1>9. octets[1] = m.version /\ octets[5] = m.flags
    BY <1>7 DEF At
  <1>10. ASSUME NEW n \in 1..8, NEW v \in UnsignedOf(n), NEW k, At(octets, k, Octets(v, n))
         PROVE  Number(SubSeq(octets, k + 1, k + n)) = v
    BY <1>1, <1>10, NumberAt
  <1>11. /\ Number(SubSeq(octets, 2, 4)) = length
         /\ Number(SubSeq(octets, 6, 8)) = m.id[1]
    <2>1. Number(SubSeq(octets, 1 + 1, 1 + 3)) = length
      BY <1>6, <1>7, <1>10
    <2>2. Number(SubSeq(octets, 5 + 1, 5 + 3)) = m.id[1]
      BY <1>5, <1>7, <1>10
    <2> QED BY <2>1, <2>2
  <1>12. /\ Number(SubSeq(octets, 9, 12)) = m.app
         /\ Number(SubSeq(octets, 13, 16)) = m.hopByHop
         /\ Number(SubSeq(octets, 17, 20)) = m.endToEnd
    <2>1. Number(SubSeq(octets, 8 + 1, 8 + 4)) = m.app
      BY <1>3, <1>4, <1>7, <1>10
    <2>2. Number(SubSeq(octets, 12 + 1, 12 + 4)) = m.hopByHop
      BY <1>3, <1>4, <1>7, <1>10
    <2>3. Number(SubSeq(octets, 16 + 1, 16 + 4)) = m.endToEnd
      BY <1>3, <1>4, <1>7, <1>10
    <2> QED BY <2>1, <2>2, <2>3
  <1>13. SubSeq(octets, 21, length) = body
    <2>1. SubSeq(octets, 20 + 1, 20 + Len(body)) = body
      BY <1>1, <1>2, <1>7, PartAt
    <2> QED BY <2>1 DEF length
  <1> DEFINE header == DecodeHeader(NewMessage, octets)
             bit == m.flags >= RequestFlag
  <1>14. header = [version |-> m.version, flags |-> m.flags, id |-> m.id, app |-> m.app,
                   hopByHop |-> m.hopByHop, endToEnd |-> m.endToEnd, avps |-> <<>>]
    <2>1. header = [NewMessage EXCEPT !.version = m.version, !.flags = m.flags, !.id = m.id,
                                      !.app = m.app, !.hopByHop = m.hopByHop,
                                      !.endToEnd = m.endToEnd]
      BY <1>5, <1>9, <1>11, <1>12 DEF DecodeHeader
    <2> HIDE DEF header
    <2> QED BY <2>1, HeaderRead
  <1> HIDE DEF header
  <1>15. Decoded(NewMessage, octets) = [header EXCEPT !.avps = read]
    <2>1. ~(Len(octets) < 20) /\ ~(Len(octets) < length)
      BY <1>1, <1>2
    <2>2. DecodeAll[SubSeq(octets, 21, length)].avps = read
      <3>1. DecodeAll[body].avps = read
        BY <1>8
      <3> QED BY <1>13, <3>1
    <2> QED BY <1>11, <2>1, <2>2 DEF Decoded, header
  <1>16. [header EXCEPT !.avps = read]
           = [version |-> m.version, flags |-> m.flags, id |-> m.id, app |-> m.app,
              hopByHop |-> m.hopByHop, endToEnd |-> m.endToEnd, avps |-> read]
    BY <1>14
  <1> QED BY <1>3, <1>15, <1>16 DEF octets, read

----------------------------------------------------------------------------
(* TypeOK is inductive as it stands.                                         *)

LEMMA InitTypeOK ==
    ASSUME Init PROVE TypeOK
  <1>1. NewMessage.id \in CommandIds
    <2>1. <<0, FALSE>> \in CommandIds
      BY FieldsHold DEF CommandIds
    <2> QED BY <2>1 DEF NewMessage
  <1>2. NewMessage.avps \in Seq(Avps)
    BY DEF NewMessage
  <1>3. NewMessage \in Messages
    BY <1>1, <1>2, FieldsHold DEF NewMessage, Messages
  <1> QED BY <1>3 DEF Init, TypeOK, Messages

LEMMA NextTypeOK ==
    ASSUME message \in Messages, Next
    PROVE  message' \in Messages
  <1>1. CASE DecodeMessage
    <2>1. PICK octets \in Buffers \cup (IF CanEncode(message) THEN {Encoded(message)} ELSE {}) :
            message' = Decoded(message, octets)
      BY <1>1 DEF DecodeMessage
    <2>2. octets \in Seq(Octet)
      BY EncodedTyped, ApplicationAssumption
    <2> QED BY <2>1, <2>2, DecodedTyped
  <1>2. CASE BuildFromJson
    <2>1. PICK built \in Builds \cup
                 (IF CanWrite(message) THEN {MessageFromJson(Json(message))} ELSE {}) :
            message' = IF built.ok THEN built.message ELSE message
      BY <1>2 DEF BuildFromJson
    <2>2. \A doc \in Documents : MessageFromJson(doc).message \in Messages
      <3>1. \A doc \in Documents :
              IsHeader(doc.header) /\ doc.items \in Seq(EntriesOf(JsonValues))
        BY ApplicationAssumption DEF IsHeader
      <3> QED BY <3>1, MessageFromJsonTyped
    <2>3. MessageFromJson(Json(message)).message \in Messages
      <3> DEFINE doc == Json(message)
      <3>1. IsHeader(doc.header) /\ doc.items \in Seq(EntriesOf(JsonValues))
        BY JsonTyped
      <3> HIDE DEF doc
      <3>2. MessageFromJson(doc).message \in Messages
        BY <3>1, MessageFromJsonTyped
      <3> QED BY <3>2 DEF doc
    <2>4. built.message \in Messages
      BY <2>2, <2>3 DEF Builds
    <2> QED BY <2>1, <2>4
  <1>3. CASE SetHeaderToAnswer
    <2> DEFINE flags == message.flags % RequestFlag
               id == <<message.id[1], FALSE>>
    <2>1. PICK avps \in {<<>>, message.avps} :
            message' = [message EXCEPT !.flags = flags, !.id = id, !.avps = avps]
      BY <1>3 DEF SetHeaderToAnswer
    <2>2. flags \in Octet
      <3>1. message.flags \in Int
        BY SizeAssumption DEF Messages, Octet
      <3> QED BY <3>1, RequestBit
    <2>3. id \in CommandIds
      BY DEF Messages, CommandIds
    <2>4. avps \in Seq(Avps)
      <3>1. message.avps \in Seq(Avps)
        BY MessageFields
      <3>2. <<>> \in Seq(Avps)
        OBVIOUS
      <3> QED BY <3>1, <3>2
    <2> HIDE DEF flags, id
    <2> QED BY <2>1, <2>2, <2>3, <2>4 DEF Messages
  <1>4. CASE SetFlags
    BY <1>4, ApplicationAssumption DEF SetFlags, Messages
  <1>5. CASE SetId
    BY <1>5, ApplicationAssumption DEF SetId, Messages
  <1>6. CASE AddAvp
    <2>1. PICK avp \in Objects : message' = [message EXCEPT !.avps = Append(@, avp)]
      BY <1>6 DEF AddAvp
    <2>2. avp \in Avps /\ message.avps \in Seq(Avps)
      BY ApplicationAssumption DEF Messages
    <2>3. Append(message.avps, avp) \in Seq(Avps)
      BY <2>2
    <2> QED BY <2>1, <2>3, AvpsReplaced
  <1>7. CASE DecodeIntoAvp
    <2>1. PICK octets \in AvpBuffers :
            message' = [message EXCEPT !.avps[1] = Decode(@, octets).avp]
      BY <1>7 DEF DecodeIntoAvp
    <2>2. message.avps \in Seq(Avps) /\ message.avps # <<>>
      BY <1>7 DEF DecodeIntoAvp, Messages
    <2> DEFINE avps == message.avps
               avp == Decode(avps[1], octets).avp
               after == [avps EXCEPT ![1] = avp]
    <2>3. avp \in Avps
      BY <2>2, DecodeTyped, ApplicationAssumption
    <2>4. after \in Seq(Avps)
      <3> HIDE DEF avps, avp
      <3> QED BY <2>2, <2>3 DEF avps
    <2>5. message' = [message EXCEPT !.avps = after]
      BY <2>1 DEF Messages
    <2> HIDE DEF after
    <2> QED BY <2>4, <2>5, AvpsReplaced
  <1> QED BY <1>1, <1>2, <1>3, <1>4, <1>5, <1>6, <1>7 DEF Next

\* Whatever is decoded into the message, whole, in part or not at all, whatever
\* it is built from and whatever the application sets, its fields stay within
\* the octets they have on the wire and its AVPs are AVPs.
THEOREM MessageTyped == Spec => []TypeOK
  <1>1. Init => TypeOK
    BY InitTypeOK
  <1>2. TypeOK /\ [Next]_message => TypeOK'
    BY NextTypeOK DEF TypeOK, Messages
  <1> QED BY <1>1, <1>2, PTL DEF Spec

\* getLength is the number of octets that encode writes, whatever the message is
\* made of: every AVP takes what getLength counts for it, padded, since the
\* header goes by the V bit and the data by the format in both.
THEOREM LengthIsEncoded == Spec => []LengthAgrees
  <1>1. TypeOK => LengthAgrees
    <2> SUFFICES ASSUME message \in Messages, CanEncode(message)
                 PROVE  Length(message) = Len(Encoded(message))
      BY DEF TypeOK, Messages, LengthAgrees
    <2>1. message.avps \in Seq(Avps)
      BY DEF Messages
    <2>2. \A i \in 1..Len(message.avps) : AddressesFit(message.avps[i])
      BY <2>1 DEF CanEncode, Encodable, AddressesFit
    <2>3. Len(EncodeAll(message.avps)) = LengthOfAll(message.avps)
      BY <2>1, <2>2, AllEncodedLength
    <2>4. Len(Encoded(message)) = 20 + Len(EncodeAll(message.avps))
      BY EncodedTyped
    <2> QED BY <2>3, <2>4 DEF Length
  <1> QED BY <1>1, MessageTyped, PTL

\* Whatever a message was decoded from, whole or in part, built from or set to:
\* when the wire has room for what it says, what encode writes decodes to the
\* same message.
THEOREM WireReturns == Spec => []WireRoundTrip
  <1>1. TypeOK => WireRoundTrip
    <2> SUFFICES ASSUME message \in Messages, CanEncode(message), Faithful(message)
                 PROVE  Decoded(NewMessage, Encoded(message)) = message
      BY DEF TypeOK, Messages, WireRoundTrip
    <2> QED BY MessageBack
  <1> QED BY <1>1, MessageTyped, PTL

----------------------------------------------------------------------------
(* From a message to JSON and back                                           *)

\* The flags that fromJson gives a message that toJson wrote.
FlagsBack(m) == (m.flags % RequestFlag) + IF IsRequest(m) THEN RequestFlag ELSE 0

HeaderBack(m) ==
    [version |-> m.version, flags |-> FlagsBack(m), id |-> <<m.id[1], IsRequest(m)>>,
     app |-> m.app, hopByHop |-> m.hopByHop, endToEnd |-> m.endToEnd, avps |-> <<>>]

\* The request bit is read from the flags, and set there again.
LEMMA FlagsStay ==
    ASSUME NEW m \in Messages
    PROVE  /\ m.flags % Base = m.flags
           /\ LET flags == FlagsBack(m) IN
              /\ (flags >= RequestFlag) = IsRequest(m)
              /\ flags % RequestFlag = m.flags % RequestFlag
  <1> DEFINE rest == m.flags % RequestFlag
  <1>1. RequestFlag \in Nat /\ RequestFlag >= 2 /\ Base \in Nat /\ Base >= 4
    BY SizeAssumption DEF RequestFlag
  <1>2. m.flags \in 0..(Base - 1)
    BY DEF Messages, Octet
  <1>3. m.flags % Base = m.flags
    BY <1>1, <1>2
  <1>4. rest \in 0..(RequestFlag - 1) /\ rest % RequestFlag = rest
    <2> HIDE DEF RequestFlag
    <2> QED BY <1>1, <1>2
  <1>5. (rest + RequestFlag) % RequestFlag = rest
    <2> HIDE DEF rest, RequestFlag
    <2> QED BY <1>1, <1>4
  <1> HIDE DEF rest, RequestFlag
  <1>6. CASE IsRequest(m)
    <2>1. FlagsBack(m) = rest + RequestFlag
      BY <1>6 DEF FlagsBack, rest
    <2>2. rest + RequestFlag >= RequestFlag
      BY <1>1, <1>4
    <2>3. (FlagsBack(m) >= RequestFlag) = IsRequest(m)
      BY <1>6, <2>1, <2>2 DEF IsRequest
    <2>4. FlagsBack(m) % RequestFlag = m.flags % RequestFlag
      BY <1>5, <2>1 DEF rest
    <2> QED BY <1>3, <2>3, <2>4
  <1>7. CASE ~IsRequest(m)
    <2>1. FlagsBack(m) = rest
      BY <1>1, <1>4, <1>7 DEF FlagsBack, rest
    <2>2. ~(rest >= RequestFlag)
      BY <1>1, <1>4
    <2>3. (FlagsBack(m) >= RequestFlag) = IsRequest(m)
      BY <1>7, <2>1, <2>2 DEF IsRequest
    <2>4. FlagsBack(m) % RequestFlag = m.flags % RequestFlag
      BY <1>4, <2>1 DEF rest
    <2> QED BY <1>3, <2>3, <2>4
  <1> QED BY <1>6, <1>7

LEMMA HeaderReadBack ==
    ASSUME NEW m \in Messages
    PROVE  HeaderFromJson(HeaderToJson(m)) = HeaderBack(m)
  <1> DEFINE h == HeaderToJson(m)
  <1>1. h = [version |-> m.version, flags |-> m.flags, code |-> m.id[1],
             request |-> IsRequest(m), app |-> m.app,
             hopByHop |-> m.hopByHop, endToEnd |-> m.endToEnd]
    BY DEF HeaderToJson
  <1> HIDE DEF h
  <1>2. /\ h.version = m.version /\ h.flags = m.flags /\ h.code = m.id[1]
        /\ h.request = IsRequest(m) /\ h.app = m.app
        /\ h.hopByHop = m.hopByHop /\ h.endToEnd = m.endToEnd
        /\ DOMAIN h = {"version", "flags", "code", "request", "app", "hopByHop", "endToEnd"}
    BY <1>1
  <1>3. /\ Unsigned(m.version, 1) = m.version /\ Unsigned(m.id[1], 4) = m.id[1]
        /\ Unsigned(m.app, 4) = m.app /\ Unsigned(m.hopByHop, 4) = m.hopByHop
        /\ Unsigned(m.endToEnd, 4) = m.endToEnd
    <2>1. /\ m.version \in UnsignedOf(1) /\ m.id[1] \in UnsignedOf(4) /\ m.app \in UnsignedOf(4)
          /\ m.hopByHop \in UnsignedOf(4) /\ m.endToEnd \in UnsignedOf(4)
      BY ValuesKnown DEF Messages, CommandIds, Numbers, Octet, UnsignedOf
    <2>2. 1 \in 0..8 /\ 4 \in 0..8
      OBVIOUS
    <2> QED BY <2>1, <2>2, CastBack
  <1>4. m.flags % Base = m.flags
    BY FlagsStay
  <1> DEFINE has(key) == key \in DOMAIN h
             given == IF has("flags") THEN h.flags % Base ELSE 0
             request == has("request") /\ h.request
             flags == IF has("code")
                      THEN (given % RequestFlag) + IF request THEN RequestFlag ELSE 0
                      ELSE given
             field(key, width, default) == IF has(key) THEN Unsigned(h[key], width) ELSE default
             id == IF has("code") THEN <<Unsigned(h.code, 4), request>> ELSE <<0, FALSE>>
  <1>5. given = m.flags
    BY <1>2, <1>4
  <1>6. request = IsRequest(m)
    <2>1. IsRequest(m) \in BOOLEAN /\ has("request")
      BY <1>2 DEF IsRequest
    <2> HIDE DEF has
    <2>2. request \in BOOLEAN /\ (request <=> IsRequest(m))
      BY <1>2, <2>1
    <2> QED BY <2>1, <2>2
  <1>7. flags = FlagsBack(m)
    <2> HIDE DEF given, request
    <2> QED BY <1>2, <1>5, <1>6 DEF FlagsBack
  <1>8. id = <<m.id[1], IsRequest(m)>>
    <2> HIDE DEF request
    <2> QED BY <1>2, <1>3, <1>6
  <1>9. /\ field("version", 1, 1) = m.version /\ field("app", 4, 0) = m.app
        /\ field("hopByHop", 4, 0) = m.hopByHop /\ field("endToEnd", 4, 0) = m.endToEnd
    BY <1>2, <1>3
  <1>10. HeaderFromJson(h) = [version |-> field("version", 1, 1), flags |-> flags, id |-> id,
                              app |-> field("app", 4, 0), hopByHop |-> field("hopByHop", 4, 0),
                              endToEnd |-> field("endToEnd", 4, 0), avps |-> <<>>]
    BY DEF HeaderFromJson
  <1> HIDE DEF flags, id, field
  <1>11. HeaderFromJson(h) = HeaderBack(m)
    BY <1>7, <1>8, <1>9, <1>10 DEF HeaderBack
  <1> QED BY <1>11 DEF h

\* The rules of the command, if the dictionary has it.
RulesOf(m) == IF m.id \in DOMAIN Commands THEN Commands[m.id] ELSE <<>>

LEMMA MessageOfJson ==
    ASSUME NEW m \in Messages, KeysDiffer(m)
    PROVE  LET built == MessageFromJson(Json(m)) IN
           /\ built.ok = FromItems(ItemsOfAll(m.avps)).ok
           /\ built.message = [HeaderBack(m) EXCEPT
                                 !.avps = Rebuilt(m.avps, RulesOf(HeaderBack(m)))]
  <1> DEFINE read == FromItems(ItemsOfAll(m.avps))
             rules == RulesOf(HeaderBack(m))
  <1>1. MessageFromJson(Json(m)) = WithAvps(HeaderBack(m), read)
    <2> DEFINE items == ItemsOfAll(m.avps)
    <2>1. m.avps \in Seq(Avps) /\ NoHeaderAmong(m.avps)
      BY MessageFields DEF KeysDiffer, NoHeaderAmong
    <2>2. ~HasKey(items, HeaderKey) /\ FromMessage(items) = read
      BY <2>1, ReadAsItems
    <2> HIDE DEF items, read
    <2>3. Json(m).header = HeaderToJson(m) /\ Json(m).items = items
      BY <2>2 DEF Json, items
    <2>4. HeaderFromJson(HeaderToJson(m)) = HeaderBack(m)
      BY HeaderReadBack
    <2> QED BY <2>2, <2>3, <2>4 DEF MessageFromJson
  <1>2. WithAvps(HeaderBack(m), read)
          = [ok |-> read.ok,
             message |-> [HeaderBack(m) EXCEPT !.avps = SortByRules(read.avps, rules)]]
    BY DEF WithAvps, RulesOf
  <1> QED BY <1>1, <1>2 DEF Rebuilt

LEMMA PortableReturns ==
    ASSUME NEW m \in Messages, Portable(m)
    PROVE  \A part \in AllAvps(m.avps) : Returnable(part)
  <1> SUFFICES ASSUME NEW part \in AllAvps(m.avps) PROVE Returnable(part)
    OBVIOUS
  <1>1. HoldsData(part)
    BY DEF Portable, CanWrite, Holds, AllAvps
  <1>2. Nameable(part)
    BY DEF Portable
  <1> QED BY <1>1, <1>2, IndexAssumption DEF Returnable, Nameable, IsNamed

\* What JSON gives back of the AVPs of a message, in the order of any rules.
LEMMA PortableRebuilt ==
    ASSUME NEW m \in Messages, Portable(m), NEW rules \in Seq(AvpIds)
    PROVE  LET s == Rebuilt(m.avps, rules) IN
           /\ FromItems(ItemsOfAll(m.avps)).ok /\ SameAvps(m.avps, s)
           /\ s \in Seq(Avps) /\ Rebuilt(s, rules) = s /\ NoHeaderAmong(s)
  <1>1. NoNameIsRaw
    BY IndexAssumption DEF NoNameIsRaw
  <1>2. m.avps \in Seq(Avps)
    BY MessageFields
  <1>3. \A part \in AllAvps(m.avps) : Returnable(part)
    BY PortableReturns
  <1> DEFINE avps == m.avps
  <1>4. avps \in Seq(Avps) /\ \A part \in AllAvps(avps) : Returnable(part)
    BY <1>2, <1>3
  <1> HIDE DEF avps
  <1>5. LET s == Rebuilt(avps, rules) IN
        /\ FromItems(ItemsOfAll(avps)).ok
        /\ SameAvps(avps, FromItems(ItemsOfAll(avps)).avps) /\ SameAvps(avps, s)
        /\ s \in Seq(Avps) /\ FromItems(ItemsOfAll(s)).ok /\ Rebuilt(s, rules) = s
        /\ NamesAmong(s, avps)
    BY <1>1, <1>4, AllRebuilt
  <1>6. NoHeaderAmong(avps)
    BY DEF Portable, KeysDiffer, NoHeaderAmong, avps
  <1> QED BY <1>5, <1>6, NoHeaderStays DEF avps

LEMMA RulesTyped ==
    ASSUME NEW m PROVE RulesOf(m) \in Seq(AvpIds)
  <1>1. <<>> \in Seq(AvpIds)
    OBVIOUS
  <1> QED BY <1>1, ApplicationAssumption DEF RulesOf

\* Through JSON no AVP of a message is lost, added or altered: those of a name
\* share a key, whose array keeps them, unknown ones come back as raw ones, and
\* what differs is the order.
THEOREM JsonKeeps == Spec => []JsonKeepsAvps
  <1>1. TypeOK => JsonKeepsAvps
    <2> SUFFICES ASSUME message \in Messages, Portable(message)
                 PROVE  Keeps(message, MessageFromJson(Json(message)))
      BY DEF TypeOK, Messages, JsonKeepsAvps
    <2> DEFINE rules == RulesOf(HeaderBack(message))
               s == Rebuilt(message.avps, rules)
    <2>1. rules \in Seq(AvpIds)
      BY RulesTyped
    <2>2. FromItems(ItemsOfAll(message.avps)).ok /\ SameAvps(message.avps, s)
      BY <2>1, PortableRebuilt
    <2>3. /\ MessageFromJson(Json(message)).ok
          /\ MessageFromJson(Json(message)).message = [HeaderBack(message) EXCEPT !.avps = s]
      BY <2>2, MessageOfJson DEF Portable
    <2> HIDE DEF s
    <2>4. MessageFromJson(Json(message)).message.avps = s
      BY <2>3 DEF HeaderBack
    <2> QED BY <2>2, <2>3, <2>4 DEF Keeps
  <1> QED BY <1>1, MessageTyped, PTL

\* What went through JSON once comes back from it unchanged: the AVPs are in the
\* order of the rules and of their keys then, and the header says the same.
THEOREM JsonSettles == Spec => []JsonStable
  <1>1. TypeOK => JsonStable
    <2> SUFFICES ASSUME message \in Messages, Portable(message)
                 PROVE  Stable(MessageFromJson(Json(message)).message)
      BY DEF TypeOK, Messages, JsonStable
    <2> DEFINE header == HeaderBack(message)
               rules == RulesOf(header)
               s == Rebuilt(message.avps, rules)
               m == [header EXCEPT !.avps = s]
    <2>1. rules \in Seq(AvpIds)
      BY RulesTyped
    <2>2. s \in Seq(Avps) /\ Rebuilt(s, rules) = s /\ NoHeaderAmong(s)
      BY <2>1, PortableRebuilt
    <2>3. MessageFromJson(Json(message)).message = m
      BY MessageOfJson DEF Portable
    <2>4. m \in Messages
      <3>1. IsHeader(HeaderToJson(message))
        BY HeaderToJsonTyped
      <3>2. HeaderFromJson(HeaderToJson(message)) \in Messages
        BY <3>1, HeaderFromJsonTyped
      <3>3. header \in Messages
        BY <3>2, HeaderReadBack
      <3> HIDE DEF header, s
      <3> QED BY <2>2, <3>3, AvpsReplaced
    <2> HIDE DEF rules, s
    <2>5. /\ m.version = message.version /\ m.flags = FlagsBack(message)
          /\ m.id = <<message.id[1], IsRequest(message)>> /\ m.app = message.app
          /\ m.hopByHop = message.hopByHop /\ m.endToEnd = message.endToEnd /\ m.avps = s
          /\ header.id = m.id
      BY DEF HeaderBack
    <2>6. m = [version |-> m.version, flags |-> m.flags, id |-> m.id, app |-> m.app,
               hopByHop |-> m.hopByHop, endToEnd |-> m.endToEnd, avps |-> m.avps]
      BY <2>4, MessageFields
    <2> HIDE DEF m
    <2>7. IsRequest(m) = IsRequest(message) /\ FlagsBack(m) = m.flags
      <3>1. /\ (FlagsBack(message) >= RequestFlag) = IsRequest(message)
            /\ FlagsBack(message) % RequestFlag = message.flags % RequestFlag
        BY FlagsStay
      <3>2. IsRequest(m) = IsRequest(message)
        BY <2>5, <3>1 DEF IsRequest
      <3>3. m.flags % RequestFlag = message.flags % RequestFlag
        BY <2>5, <3>1
      <3> QED BY <2>5, <3>2, <3>3 DEF FlagsBack
    <2>8. HeaderBack(m).id = m.id /\ RulesOf(HeaderBack(m)) = rules
      <3>1. HeaderBack(m).id = <<m.id[1], IsRequest(m)>>
        BY DEF HeaderBack
      <3>2. <<m.id[1], IsRequest(m)>> = m.id
        BY <2>5, <2>7
      <3> QED BY <2>5, <3>1, <3>2 DEF RulesOf, rules
    <2>9. MessageFromJson(Json(m)).message = [HeaderBack(m) EXCEPT !.avps = s]
      <3>1. KeysDiffer(m)
        BY <2>2, <2>5 DEF KeysDiffer, NoHeaderAmong
      <3> QED BY <2>2, <2>4, <2>5, <2>8, <3>1, MessageOfJson
    <2>10. HeaderBack(m) = [version |-> m.version, flags |-> m.flags, id |-> m.id, app |-> m.app,
                            hopByHop |-> m.hopByHop, endToEnd |-> m.endToEnd, avps |-> <<>>]
      BY <2>5, <2>7 DEF HeaderBack
    <2>11. MessageFromJson(Json(m)).message = m
      BY <2>5, <2>6, <2>9, <2>10
    <2> QED BY <2>3, <2>11 DEF Stable
  <1> QED BY <1>1, MessageTyped, PTL
=============================================================================
