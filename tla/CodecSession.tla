---------------------------- MODULE CodecSession ----------------------------
(* A codec::Message in the hands of an application whose dictionary changes  *)
(* under it.  decode and fromJson take the dictionary to make the AVPs and   *)
(* encode, getLength and toJson take it again later: what an AVP is kept as  *)
(* was decided by its format at one time, how it is written is by its format *)
(* at another.  Dictionary moves the tables, in loads that may fail; AvpCodec*)
(* has the AVPs, over the tables as they are.  The application is one thread:*)
(* it uses the message between loads.                                        *)
EXTENDS Dictionary

CONSTANTS Base, Digits, MaxDepth, KeyRank, EpochOffset,   \* as in AvpCodec
          Bodies,       \* octets that may arrive behind a message header
          Documents,    \* JSON objects of AVPs an application may build from
          MessageIds    \* the commands of the messages

VARIABLES held,    \* the message: its command and its AVPs
          wire,    \* the octets of the AVPs when they were made
          wired,   \* whether they could be encoded then
          hosts    \* which AVPs were addresses then, at any level

message == <<held, wire, wired, hosts>>

\* What the codec asks the dictionary about an AVP.  m-bit, which the tables
\* of Dictionary leave out, is never set.
View == [id \in DOMAIN avps |->
            LET a == avps[id] IN
            [name |-> a.name, type |-> a.format, vBit |-> a.vBit, mBit |-> FALSE,
             rules |-> [i \in DOMAIN a.level.rules |-> a.level.rules[i].avp]]]

Codec == INSTANCE AvpCodec WITH Dict <- View, Index <- avpNames

\* As AvpCodec assumes of its constants.
ASSUME OctetsAssumption ==
    /\ Base \in Nat /\ Base >= 4
    /\ MaxDepth \in Nat /\ Codec!Values[3] <= 8 * (MaxDepth + 1)
    /\ EpochOffset \in Int
ASSUME DigitsAssumption == Digits \in Nat /\ Digits * Digits = Base
ASSUME KeysAssumption ==
    /\ KeyRank \in [DOMAIN KeyRank -> Nat] /\ Codec!IsInjective(KeyRank)
    /\ Names \cup {"avp-", "hex", "flags", "_header"} \subseteq DOMAIN KeyRank
    /\ "avp-" \notin Names

\* The codes of a document are S32, as the code reads them; what arrives is
\* octets and JSON of any content.
ASSUME SessionAssumption ==
    /\ \A d \in Docs :
        /\ \A i \in DOMAIN Section(d, "avp") :
            Section(d, "avp")[i].code \in Codec!SignedNumbers
        /\ \A i \in DOMAIN Section(d, "vendor") :
            Section(d, "vendor")[i].code \in Codec!SignedNumbers
    /\ Bodies \subseteq Codec!OctetStrings
    /\ Documents \subseteq Seq(Codec!EntriesOf(Codec!JsonValues))

CommandRules(id) ==
    IF id \notin DOMAIN commands THEN <<>>
    ELSE [i \in DOMAIN commands[id].level.rules |-> commands[id].level.rules[i].avp]

SessionInit ==
    /\ Init
    /\ held \in [command : MessageIds, avps : {<<>>}]
    /\ wire = <<>> /\ wired = TRUE /\ hosts = {}

\* The application has the message in hand, and encode or toJson throws nothing.
CanEncode == phase = "idle" /\ \A i \in DOMAIN held.avps : Codec!Encodable(held.avps[i])
CanWrite == phase = "idle" /\ \A i \in DOMAIN held.avps : Codec!Holds(held.avps[i])

\* The AVPs whose text inet_pton is to read.
Hosts(as) == {avp \in Codec!AllAvps(as) : Codec!CodingType(avp) = "Address"}

Holding(id, as) ==
    /\ phase = "idle"
    /\ held' = [command |-> id, avps |-> as]
    /\ wired' = \A i \in DOMAIN as : Codec!Encodable(as[i])
    /\ wire' = IF wired' THEN Codec!EncodeAll(as) ELSE <<>>
    /\ hosts' = Hosts(as)
    /\ UNCHANGED vars

\* Message::decode, which keeps the AVPs before one that throws.
DecodeBody ==
    \E id \in MessageIds, octets \in Bodies : Holding(id, Codec!DecodeAll[octets].avps)

\* Message::fromJson, which returns no Message when it throws.
BuildBody ==
    \E id \in MessageIds, items \in Documents :
        LET read == Codec!FromMessage(items) IN
        read.ok /\ Holding(id, Codec!SortByRules(read.avps, CommandRules(id)))

SessionNext ==
    \/ Next /\ UNCHANGED message
    \/ DecodeBody
    \/ BuildBody

SessionSpec == SessionInit /\ [][SessionNext]_<<vars, message>>

----------------------------------------------------------------------------
\* Whatever happened to the dictionary since the AVPs were made, getLength, if
\* encode throws nothing, is what encode writes.
LengthAgrees ==
    CanEncode => Codec!LengthOfAll(held.avps) = Len(Codec!EncodeAll(held.avps))

\* A message encoded under another dictionary than it was made with is encoded
\* to the same octets or not at all: a value never comes out in another width
\* or another shape.  Only addresses do: one that becomes a text is written as its
\* characters, a text that spells one and becomes an address as the octets of it.
\* So the AVPs inet_pton is asked about are to be those of the first time.
EncodingKept ==
    wired /\ CanEncode /\ Hosts(held.avps) = hosts => Codec!EncodeAll(held.avps) = wire

\* fromJson knows the names that toJson gives, and none is that of the header.
NamesCurrent ==
    /\ \A i \in DOMAIN held.avps : Codec!NameOf(held.avps[i]) # Codec!HeaderKey
    /\ \A avp \in Codec!AllAvps(held.avps) :
            IF ~avp.raw /\ avp.id \in DOMAIN avps
            THEN avps[avp.id].format # "Any" /\ avpNames[avps[avp.id].name] = avp.id
            ELSE avp.id[1] >= 0 /\ avp.id[2] >= 0

\* toJson and fromJson, both under the tables as they are, lose no AVP and take
\* none for another, as long as the names of the AVPs are current: what names
\* and formats were when the AVPs were made plays no part.
JsonKeepsAvps ==
    CanWrite /\ NamesCurrent =>
        LET read == Codec!FromMessage(Codec!ItemsOfAll(held.avps)) IN
        read.ok /\ Codec!SameAvps(held.avps, read.avps)
=============================================================================
