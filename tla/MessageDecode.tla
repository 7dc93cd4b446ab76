--------------------------- MODULE MessageDecode ---------------------------
(* Message::decode and the Avp::decode / Avp::decodeData recursion under it, *)
(* on a Message that is decoded into again and again.  A buffer is read once *)
(* from left to right, so its bytes are chosen as the decoder comes to them: *)
(* the fields of an AVP header are any the constants allow, and the bytes of *)
(* a value are left out.  Every iteration of the two loops is one step, and  *)
(* the call stack is a sequence of frames, one for each loop that runs: the  *)
(* first is the loop of Message::decode, whose vector is avps_ itself, the   *)
(* others are Grouped AVPs being decoded, whose vectors are local until the  *)
(* loop ends.  All offsets are counted from the start of the buffer.         *)
EXTENDS Integers, Sequences

CONSTANTS BufferLens,    \* the buffer sizes callers pass
          MessageLens,   \* the values of a message length field
          AvpLens,       \* the values of an AVP length field
          Codes,         \* AVP codes
          Vendors,       \* vendor ids, 0 for none
          TypeOf         \* <<code, vendor>> -> format type in the dictionary

FourByteTypes == {"Integer32", "Enumerated", "Unsigned32", "Float32", "Time"}
EightByteTypes == {"Integer64", "Unsigned64", "Float64"}

ASSUME LengthsAssumption ==
    BufferLens \subseteq Nat /\ MessageLens \subseteq Nat /\ AvpLens \subseteq Nat
ASSUME VendorsAssumption == 0 \in Vendors

MessageHeaderLen == 20

\* The fields of an AVP header; the vendor id is there when the V bit is set.
Heads == {h \in [code : Codes, vBit : BOOLEAN, vendor : Vendors, length : AvpLens] :
             ~h.vBit => h.vendor = 0}

\* resolveFormatType: "Unknown" for an id the dictionary does not have.
FormatType(h) ==
    IF <<h.code, h.vendor>> \in DOMAIN TypeOf THEN TypeOf[<<h.code, h.vendor>>]
                                              ELSE "Unknown"

HeaderLen(h) == IF h.vBit THEN 12 ELSE 8

\* (variant) the AVP length itself, without the padding.
ConsumedUnpadded(h) == h.length

\* What Avp::decode returns: the AVP and its padding, 4 * REQUIRED_WORDS.
Consumed(h) == 4 * ((h.length + 3) \div 4)

\* The checks of decodeData on the length of the data; a string, an unknown
\* AVP and a Grouped AVP take any.
DataFits(h) ==
    LET n == h.length - HeaderLen(h)
        type == FormatType(h)
    IN  /\ type \in FourByteTypes => n = 4
        /\ type \in EightByteTypes => n = 8
        /\ type = "Address" => n >= 2

VARIABLES
    header,    \* whose header the Message has: "this" decode's or an "earlier" one's
    body,      \* whose AVPs it has
    outcome,   \* "idle", "decoding", "done" or "failed"
    len,       \* the buffer size of the latest decode
    frames,    \* the loops that run, outermost first
    avps,      \* offset -> the Avp object decoded from there
    reach      \* the end of the latest read of the buffer

vars == <<header, body, outcome, len, frames, avps, reach>>

\* A frame: where its AVP starts (0 for the message), where the loop is, where
\* its data ends and the offsets of the AVPs in its vector.
Loop(at, pos, end) == [at |-> at, pos |-> pos, end |-> end, kids |-> <<>>]

Init == /\ header = "earlier"
        /\ body = "earlier"
        /\ outcome = "idle"
        /\ len = 0
        /\ frames = <<Loop(0, MessageHeaderLen, MessageHeaderLen)>>
        /\ avps = <<>>
        /\ reach = 0

Depth == Len(frames)
Top == frames[Depth]
MoreIn(f) == f.pos < f.end
Room == Top.end - Top.pos      \* what the loop passes down as len

----------------------------------------------------------------------------
(* Message::decode up to its loop                                            *)

\* (variant) a message longer than the buffer goes through.
CoversAny(n, m) == TRUE

Covers(n, m) == n >= m

DecodeShort(n) ==
    /\ n < MessageHeaderLen
    /\ outcome' = "failed"
    /\ header' = "earlier" /\ body' = "earlier"
    /\ reach' = 0
    /\ UNCHANGED <<frames, avps>>

\* The header fields are assigned before the length is checked.
DecodeUncovered(n, m) ==
    /\ n >= MessageHeaderLen /\ ~Covers(n, m)
    /\ outcome' = "failed"
    /\ header' = "this" /\ body' = "earlier"
    /\ reach' = MessageHeaderLen
    /\ UNCHANGED <<frames, avps>>

\* (variant) avps_.clear() forgotten.
DecodeBodyAppending(n, m) ==
    /\ n >= MessageHeaderLen /\ Covers(n, m)
    /\ outcome' = "decoding"
    /\ header' = "this" /\ body' = "this"
    /\ reach' = MessageHeaderLen
    /\ frames' = <<[frames[1] EXCEPT !.pos = MessageHeaderLen, !.end = m]>>
    /\ UNCHANGED avps

DecodeBody(n, m) ==
    /\ n >= MessageHeaderLen /\ Covers(n, m)
    /\ outcome' = "decoding"
    /\ header' = "this" /\ body' = "this"
    /\ reach' = MessageHeaderLen
    /\ frames' = <<Loop(0, MessageHeaderLen, m)>>
    /\ avps' = <<>>

Decode == \E n \in BufferLens, m \in MessageLens :
    /\ outcome # "decoding"
    /\ len' = n
    /\ DecodeShort(n) \/ DecodeUncovered(n, m) \/ DecodeBody(n, m)

----------------------------------------------------------------------------
(* The loops                                                                 *)

\* The loop takes the AVP that was decoded at its position.
Taken(f, h) == [f EXCEPT !.kids = Append(@, f.pos), !.pos = @ + Consumed(h)]

\* (variant) the message loop catches the exception and tries again.
UnwindKeepingOn ==
    /\ frames' = SubSeq(frames, 1, 1)
    /\ avps' = [a \in {x \in DOMAIN avps : x < frames[1].pos} |-> avps[a]]
    /\ UNCHANGED <<outcome, header, body, len>>

\* An exception ends every loop: the Avp that the message loop was decoding
\* goes, with all in it, and the ones before it stay in avps_.
Unwind ==
    /\ outcome' = "failed"
    /\ frames' = SubSeq(frames, 1, 1)
    /\ avps' = [a \in {x \in DOMAIN avps : x < frames[1].pos} |-> avps[a]]
    /\ UNCHANGED <<header, body, len>>

InLoop == outcome = "decoding" /\ MoreIn(Top)

\* Not enough bytes for a header: nothing is read.
NoHeader ==
    /\ InLoop
    /\ Room < 8
    /\ Unwind
    /\ UNCHANGED reach

\* (variant) no check that the vendor id is there.
VendorFitsAny(h) == TRUE

VendorFits(h) == Room >= HeaderLen(h)

\* (variant) the length checked against the header without a vendor id.
LengthCoversShortHeader(h) == h.length >= 8

LengthCoversHeader(h) == h.length >= HeaderLen(h)

\* (variant) the length checked against the message, not the Grouped AVP.
LengthFitsMessage(h) == h.length <= frames[1].end - Top.pos

LengthFits(h) == h.length <= Room

NoVendor(h) ==
    /\ ~VendorFits(h)
    /\ reach' = Top.pos + 8
    /\ Unwind

BadLength(h) ==
    /\ VendorFits(h)
    /\ ~LengthCoversHeader(h) \/ ~LengthFits(h)
    /\ reach' = Top.pos + HeaderLen(h)
    /\ Unwind

Accepted(h) == VendorFits(h) /\ LengthCoversHeader(h) /\ LengthFits(h)

BadData(h) ==
    /\ Accepted(h) /\ ~DataFits(h)
    /\ reach' = Top.pos + HeaderLen(h)
    /\ Unwind

AddAvp(h) == [a \in DOMAIN avps \cup {Top.pos} |->
                 IF a = Top.pos THEN [head |-> h, kids |-> <<>>] ELSE avps[a]]

DecodeValue(h) ==
    /\ Accepted(h) /\ DataFits(h) /\ FormatType(h) # "Grouped"
    /\ avps' = AddAvp(h)
    /\ frames' = [frames EXCEPT ![Depth] = Taken(@, h)]
    /\ reach' = Top.pos + h.length
    /\ UNCHANGED <<header, body, outcome, len>>

\* The AVP has its id and flags already; its data stay unset until the end.
OpenGrouped(h) ==
    /\ Accepted(h) /\ FormatType(h) = "Grouped"
    /\ avps' = AddAvp(h)
    /\ frames' = Append(frames, Loop(Top.pos, Top.pos + HeaderLen(h), Top.pos + h.length))
    /\ reach' = Top.pos + HeaderLen(h)
    /\ UNCHANGED <<header, body, outcome, len>>

DecodeAvp ==
    /\ InLoop
    /\ Room >= 8
    /\ \E h \in Heads : NoVendor(h) \/ BadLength(h) \/ BadData(h) \/ DecodeValue(h) \/ OpenGrouped(h)

CloseGrouped ==
    /\ outcome = "decoding" /\ ~MoreIn(Top) /\ Depth > 1
    /\ avps' = [avps EXCEPT ![Top.at].kids = Top.kids]
    /\ frames' = [SubSeq(frames, 1, Depth - 1) EXCEPT
                     ![Depth - 1] = Taken(@, avps[Top.at].head)]
    /\ UNCHANGED <<header, body, outcome, len, reach>>

\* (variant) the end of any loop ends the decode.
FinishAnywhere ==
    /\ outcome = "decoding" /\ ~MoreIn(Top)
    /\ outcome' = "done"
    /\ UNCHANGED <<header, body, len, frames, avps, reach>>

Finish ==
    /\ outcome = "decoding" /\ ~MoreIn(Top) /\ Depth = 1
    /\ outcome' = "done"
    /\ UNCHANGED <<header, body, len, frames, avps, reach>>

Step == NoHeader \/ DecodeAvp \/ CloseGrouped \/ Finish

Next == Decode \/ Step

Spec == Init /\ [][Next]_vars

\* decode runs its loops to the end; nobody need call it.
FairSpec == Spec /\ WF_vars(Step)

----------------------------------------------------------------------------
(* Properties                                                                *)

AvpObjects == [head : Heads, kids : Seq(Nat)]
Frames == [at : Nat, pos : Nat, end : Nat, kids : Seq(Nat)]

\* Type correctness.
TypeOK ==
    /\ header \in {"this", "earlier"}
    /\ body \in {"this", "earlier"}
    /\ outcome \in {"idle", "decoding", "done", "failed"}
    /\ len \in Nat
    /\ frames \in Seq(Frames) /\ frames # <<>>
    /\ outcome # "decoding" => Depth = 1
    /\ DOMAIN avps \subseteq Nat
    /\ avps \in [DOMAIN avps -> AvpObjects]
    /\ reach \in Nat

\* No read goes past the buffer the caller passed: decode4(buf + 8) of a vendor
\* id and the data of a value are behind the length checks of every loop above.
ReadsInBounds == reach <= len

\* Each open Grouped AVP lies within the data of the one it is in, at the place
\* that one has come to, and no loop leaves the padding of its last AVP
\* (Message.cpp:115, Avp.cpp:290: the loops compare with unpadded ends).
FramesNest ==
    outcome = "decoding" =>
        /\ \A k \in 1 .. (Depth - 1) : /\ frames[k + 1].at = frames[k].pos
                                       /\ frames[k + 1].end <= frames[k].end
                                       /\ frames[k].pos < frames[k].end
        /\ \A k \in 2 .. Depth : /\ frames[k].pos % 4 = 0
                                 /\ frames[k].pos <= frames[k].end + 3

\* The recursion is no deeper than the body has room for headers: 8 bytes for
\* each Grouped AVP within another (Avp.cpp:292 calls decode of the child).
DepthBounded ==
    outcome = "decoding" => MessageHeaderLen + 8 * (Depth - 1) <= len \/ Depth = 1

\* kids are AVPs one after the other from start, each on the word after the
\* one before, and all within stop ...
EndOf(objects, a) == a + objects[a].head.length

Tile(objects, kids, start, stop) ==
    /\ kids # <<>> => kids[1] = start
    /\ \A i \in DOMAIN kids : EndOf(objects, kids[i]) <= stop
    /\ \A i \in DOMAIN kids : i + 1 \in DOMAIN kids =>
          /\ kids[i + 1] % 4 = 0
          /\ EndOf(objects, kids[i]) <= kids[i + 1]
          /\ kids[i + 1] <= EndOf(objects, kids[i]) + 3

\* ... and nothing but padding is left after the last.
Fill(objects, kids, start, stop) ==
    IF kids = <<>> THEN start >= stop
                   ELSE EndOf(objects, kids[Len(kids)]) + 3 >= stop

IsOpen(a) == \E k \in 2 .. Depth : frames[k].at = a

\* A Grouped AVP that is decoded has exactly the AVPs its data are made of:
\* none is skipped, read twice or shared with the AVP after it.
GroupsTile ==
    \A a \in DOMAIN avps :
        LET h == avps[a].head IN
        FormatType(h) = "Grouped" /\ ~IsOpen(a) =>
            /\ Tile(avps, avps[a].kids, a + HeaderLen(h), EndOf(avps, a))
            /\ Fill(avps, avps[a].kids, a + HeaderLen(h), EndOf(avps, a))

\* The AVPs of the Message are a prefix of one message's AVPs at any time, a
\* failed decode included (then possibly an earlier message's, whole or cut),
\* and all of the latest message's once a decode has succeeded.
MessageTiles ==
    /\ Tile(avps, frames[1].kids, MessageHeaderLen, frames[1].end)
    /\ outcome = "done" => /\ header = "this" /\ body = "this"
                           /\ frames[1].end <= len
                           /\ Fill(avps, frames[1].kids, MessageHeaderLen, frames[1].end)

\* A decode ends, whatever the bytes: each AVP takes at least its header.
DecodeEnds == outcome = "decoding" ~> outcome # "decoding"

\* Seen from outside, a decode takes the body apart into AVPs as MessageBody
\* says: the recursion inside a Grouped AVP shows only as the one AVP it ends
\* in, or as a failure.
TopExtents == [i \in DOMAIN frames[1].kids |->
                  [at |-> frames[1].kids[i], length |-> avps[frames[1].kids[i]].head.length]]

Outside == INSTANCE MessageBody WITH
    Bodies <- MessageLens, Start <- MessageHeaderLen, outcome <- outcome,
    end <- frames[1].end, pos <- frames[1].pos, extents <- TopExtents

ImplementsMessageBody == Outside!Spec
=============================================================================
