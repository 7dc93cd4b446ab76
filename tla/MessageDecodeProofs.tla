------------------------ MODULE MessageDecodeProofs ------------------------
(* What the decoder keeps true for every dictionary and every buffer.        *)
EXTENDS MessageDecode, SequenceTheorems, TLAPS

----------------------------------------------------------------------------
(* The inductive invariant                                                   *)

\* A loop over data that start at s: it has come to the word after its last
\* AVP, and its AVPs tile what is behind it.
LoopOK(o, f, s) ==
    /\ f \in Frames
    /\ s \in Nat /\ s <= f.pos /\ f.pos % 4 = 0
    /\ f.pos <= f.end + 3 \/ f.pos = s
    /\ f.kids = <<>> => f.pos = s
    /\ f.kids # <<>> => f.pos <= EndOf(o, f.kids[Len(f.kids)]) + 3
    /\ \A i \in DOMAIN f.kids : /\ f.kids[i] \in DOMAIN o
                                /\ s <= f.kids[i]
                                /\ EndOf(o, f.kids[i]) <= f.pos
    /\ Tile(o, f.kids, s, f.end)

ObjectsOK(o) ==
    /\ DOMAIN o \subseteq Nat
    /\ o \in [DOMAIN o -> AvpObjects]
    /\ \A a \in DOMAIN o : o[a].head.length >= HeaderLen(o[a].head)

DataStart(o, a) == a + HeaderLen(o[a].head)

\* A Grouped AVP being decoded: the loop of frame f, under the loop of frame up.
OpenOK(o, f, up, first, k) ==
    /\ f.at \in DOMAIN o
    /\ FormatType(o[f.at].head) = "Grouped"
    /\ f.end = EndOf(o, f.at)
    /\ LoopOK(o, f, DataStart(o, f.at))
    /\ f.at = up.pos /\ up.pos < up.end
    /\ f.end <= up.end /\ f.end <= first.end
    /\ first.pos <= f.at
    /\ MessageHeaderLen + 8 * (k - 2) <= f.at

\* A Grouped AVP that is decoded.
GroupOK(o, a) ==
    FormatType(o[a].head) = "Grouped" =>
        /\ \A i \in DOMAIN o[a].kids : o[a].kids[i] \in DOMAIN o
        /\ Tile(o, o[a].kids, DataStart(o, a), EndOf(o, a))
        /\ Fill(o, o[a].kids, DataStart(o, a), EndOf(o, a))

FramesInv ==
    /\ LoopOK(avps, frames[1], MessageHeaderLen)
    /\ \A k \in 2 .. Depth : OpenOK(avps, frames[k], frames[k - 1], frames[1], k)

ObjectsInv ==
    \A a \in DOMAIN avps :
        /\ a < Top.pos
        /\ ~IsOpen(a) => EndOf(avps, a) <= Top.pos /\ GroupOK(avps, a)
        /\ a < frames[1].pos => ~IsOpen(a) /\ EndOf(avps, a) <= frames[1].pos

ProgressInv ==
    /\ reach <= len
    /\ outcome \in {"decoding", "done"} =>
         header = "this" /\ body = "this" /\ frames[1].end <= len
    /\ outcome = "done" => Fill(avps, frames[1].kids, MessageHeaderLen, frames[1].end)

Inv == TypeOK /\ ObjectsOK(avps) /\ FramesInv /\ ObjectsInv /\ ProgressInv

----------------------------------------------------------------------------
(* Words                                                                     *)

\* The code steps over an AVP by whole words, at most 3 octets of padding.
LEMMA ConsumedWords ==
    ASSUME NEW h \in Heads
    PROVE  /\ Consumed(h) \in Nat /\ Consumed(h) % 4 = 0
           /\ h.length <= Consumed(h) /\ Consumed(h) <= h.length + 3
  <1>1. h.length \in Nat  BY LengthsAssumption DEF Heads
  <1> DEFINE q == (h.length + 3) \div 4
  <1>2. q \in Nat /\ 4 * q <= h.length + 3 /\ h.length <= 4 * q  BY <1>1
  <1> HIDE DEF q
  <1>3. (4 * q) % 4 = 0 /\ 4 * q \in Nat  BY <1>2
  <1>4. Consumed(h) = 4 * q  BY DEF Consumed, q
  <1> QED  BY <1>1, <1>2, <1>3, <1>4

\* Words add up to words.
LEMMA WordSum ==
    ASSUME NEW x \in Nat, NEW y \in Nat, x % 4 = 0, y % 4 = 0
    PROVE  (x + y) % 4 = 0
  OBVIOUS

\* A header is 8 or 12 octets, whole words both.
LEMMA HeaderLens ==
    ASSUME NEW h \in Heads
    PROVE  /\ HeaderLen(h) = 8 \/ HeaderLen(h) = 12
           /\ HeaderLen(h) \in Nat /\ HeaderLen(h) % 4 = 0
           /\ h.length \in Nat
  <1>1. HeaderLen(h) = 8 \/ HeaderLen(h) = 12  BY DEF HeaderLen
  <1>2. 8 % 4 = 0 /\ 12 % 4 = 0  OBVIOUS
  <1>3. h.length \in Nat  BY LengthsAssumption DEF Heads
  <1> QED  BY <1>1, <1>2, <1>3

----------------------------------------------------------------------------
(* Loops                                                                     *)

\* A loop does not see what becomes of objects it has not come to, nor of the
\* vectors of those it has.
LEMMA LoopKept ==
    ASSUME NEW o, NEW o2, NEW f, NEW s, LoopOK(o, f, s),
           ObjectsOK(o),
           \A a \in DOMAIN o : EndOf(o, a) <= f.pos =>
               a \in DOMAIN o2 /\ o2[a].head = o[a].head
    PROVE  LoopOK(o2, f, s)
  <1>1. \A i \in DOMAIN f.kids : /\ f.kids[i] \in DOMAIN o2
                                 /\ EndOf(o2, f.kids[i]) = EndOf(o, f.kids[i])
    BY DEF LoopOK, EndOf
  <1>2. f.kids # <<>> => Len(f.kids) \in DOMAIN f.kids
    BY DEF LoopOK, Frames
  <1>3. Tile(o2, f.kids, s, f.end)
    BY <1>1 DEF LoopOK, Tile
  <1> QED  BY <1>1, <1>2, <1>3 DEF LoopOK

\* The same for the vector of an AVP that is decoded.
LEMMA GroupKept ==
    ASSUME NEW o, NEW o2, NEW a, a \in DOMAIN o, a \in DOMAIN o2, GroupOK(o, a),
           o2[a] = o[a],
           \A i \in DOMAIN o[a].kids : o[a].kids[i] \in DOMAIN o =>
               /\ o[a].kids[i] \in DOMAIN o2
               /\ o2[o[a].kids[i]].head = o[o[a].kids[i]].head,
           ObjectsOK(o)
    PROVE  GroupOK(o2, a)
  <1> SUFFICES ASSUME FormatType(o[a].head) = "Grouped" PROVE GroupOK(o2, a)
    BY DEF GroupOK
  <1> DEFINE kids == o[a].kids
  <1>1. kids \in Seq(Nat)  BY DEF ObjectsOK, AvpObjects
  <1>2. \A i \in DOMAIN kids : kids[i] \in DOMAIN o2 /\ EndOf(o2, kids[i]) = EndOf(o, kids[i])
    BY DEF GroupOK, EndOf
  <1>3. EndOf(o2, a) = EndOf(o, a) /\ DataStart(o2, a) = DataStart(o, a)
    BY DEF EndOf, DataStart
  <1>4. kids # <<>> => Len(kids) \in DOMAIN kids  BY <1>1
  <1>5. Tile(o, kids, DataStart(o, a), EndOf(o, a)) /\ Fill(o, kids, DataStart(o, a), EndOf(o, a))
    BY DEF GroupOK
  <1>6. o2[a].kids = kids /\ o2[a].head = o[a].head  OBVIOUS
  <1> HIDE DEF kids
  <1>7. Tile(o2, kids, DataStart(o2, a), EndOf(o2, a))
    BY <1>2, <1>3, <1>5 DEF Tile
  <1>8. Fill(o2, kids, DataStart(o2, a), EndOf(o2, a))
    BY <1>2, <1>3, <1>4, <1>5 DEF Fill
  <1> QED  BY <1>2, <1>6, <1>7, <1>8 DEF GroupOK

\* A loop that takes the AVP at its position.
LEMMA LoopTakes ==
    ASSUME NEW o, NEW f, NEW s, LoopOK(o, f, s), NEW h \in Heads,
           ObjectsOK(o),
           f.pos \in DOMAIN o, o[f.pos].head = h,
           HeaderLen(h) <= h.length, f.pos + h.length <= f.end
    PROVE  /\ LoopOK(o, Taken(f, h), s)
           /\ Taken(f, h).pos = f.pos + Consumed(h)
           /\ Taken(f, h).at = f.at /\ Taken(f, h).end = f.end
           /\ Taken(f, h).kids = Append(f.kids, f.pos)
           /\ EndOf(o, f.pos) <= Taken(f, h).pos
  <1> DEFINE g == Taken(f, h)
             c == Consumed(h)
             n == Len(f.kids)
  <1>1. /\ f.at \in Nat /\ f.pos \in Nat /\ f.end \in Nat /\ f.kids \in Seq(Nat)
        /\ s \in Nat /\ s <= f.pos /\ f.pos % 4 = 0
    BY DEF LoopOK, Frames
  <1>2. h.length \in Nat /\ 8 <= h.length  BY HeaderLens
  <1>3. c \in Nat /\ c % 4 = 0 /\ h.length <= c /\ c <= h.length + 3  BY ConsumedWords
  <1> HIDE DEF c
  <1>4. /\ g.at = f.at /\ g.pos = f.pos + c /\ g.end = f.end
        /\ g.kids = Append(f.kids, f.pos)
        /\ g \in Frames
    <2>1. f \in [at : Nat, pos : Nat, end : Nat, kids : Seq(Nat)]  BY DEF LoopOK, Frames
    <2>2. g = [[f EXCEPT !.kids = Append(f.kids, f.pos)] EXCEPT !.pos = f.pos + c]
      BY <2>1 DEF Taken, c
    <2>3. Append(f.kids, f.pos) \in Seq(Nat) /\ f.pos + c \in Nat  BY <1>1, <1>3
    <2> HIDE DEF g
    <2> QED  BY <2>1, <2>2, <2>3 DEF Frames
  <1>5. g \in Frames /\ g.end = f.end  BY <1>4
  <1>6. g.pos % 4 = 0  BY <1>1, <1>3, <1>4, WordSum
  <1>7. /\ Len(g.kids) = n + 1 /\ DOMAIN g.kids = 1 .. (n + 1) /\ DOMAIN f.kids = 1 .. n
        /\ n \in Nat /\ g.kids[n + 1] = f.pos
        /\ \A i \in DOMAIN f.kids : g.kids[i] = f.kids[i]
        /\ g.kids # <<>>
    <2>1. n \in Nat /\ DOMAIN f.kids = 1 .. n  BY <1>1
    <2>2. /\ Append(f.kids, f.pos) \in Seq(Nat)
          /\ Len(Append(f.kids, f.pos)) = n + 1
          /\ Append(f.kids, f.pos)[n + 1] = f.pos
          /\ \A i \in 1 .. n : Append(f.kids, f.pos)[i] = f.kids[i]
      BY <1>1, AppendProperties
    <2>3. DOMAIN Append(f.kids, f.pos) = 1 .. (n + 1)  BY <2>2, <1>1
    <2>4. Append(f.kids, f.pos) # <<>>  BY <1>1, AppendProperties
    <2> HIDE DEF g, n
    <2> QED  BY <1>4, <2>1, <2>2, <2>3, <2>4
  <1> HIDE DEF g, n
  <1>8. EndOf(o, f.pos) = f.pos + h.length  BY DEF EndOf
  <1>p. g.pos \in Nat /\ f.pos + h.length <= g.pos /\ g.pos <= f.pos + h.length + 3 /\ f.pos <= g.pos
    <2>1. g.pos = f.pos + c /\ f.pos \in Nat  BY <1>1, <1>4
    <2>2. h.length \in Nat /\ c \in Nat /\ h.length <= c /\ c <= h.length + 3
      BY <1>2, <1>3
    <2> QED  BY <2>1, <2>2
  <1>9. \A i \in DOMAIN f.kids : /\ f.kids[i] \in DOMAIN o /\ f.kids[i] \in Nat
                                 /\ s <= f.kids[i]
                                 /\ EndOf(o, f.kids[i]) <= f.pos
                                 /\ EndOf(o, f.kids[i]) \in Nat
    <2>1. \A i \in DOMAIN f.kids : f.kids[i] \in DOMAIN o /\ s <= f.kids[i] /\ EndOf(o, f.kids[i]) <= f.pos
      BY DEF LoopOK
    <2>2. \A a \in DOMAIN o : a \in Nat /\ o[a].head \in Heads  BY DEF ObjectsOK, AvpObjects
    <2>3. \A a \in DOMAIN o : a \in Nat /\ EndOf(o, a) \in Nat
      BY <2>2, HeaderLens DEF EndOf
    <2> QED  BY <2>1, <2>3
  <1>10. \A i \in DOMAIN g.kids : /\ g.kids[i] \in DOMAIN o
                                  /\ s <= g.kids[i]
                                  /\ EndOf(o, g.kids[i]) <= g.pos
    <2> SUFFICES ASSUME NEW i \in 1 .. (n + 1)
                 PROVE  g.kids[i] \in DOMAIN o /\ s <= g.kids[i] /\ EndOf(o, g.kids[i]) <= g.pos
      BY <1>7
    <2>1. CASE i \in 1 .. n
      <3>1. g.kids[i] = f.kids[i] /\ i \in DOMAIN f.kids  BY <1>7, <2>1
      <3>2. /\ f.kids[i] \in DOMAIN o /\ s <= f.kids[i] /\ EndOf(o, f.kids[i]) <= f.pos
            /\ EndOf(o, f.kids[i]) \in Nat
        BY <3>1, <1>9
      <3>3. EndOf(o, f.kids[i]) <= g.pos  BY <3>2, <1>1, <1>p
      <3> QED  BY <3>1, <3>2, <3>3
    <2>2. CASE i = n + 1
      <3>1. g.kids[i] = f.pos  BY <2>2, <1>7
      <3>2. EndOf(o, f.pos) <= g.pos  BY <1>8, <1>p
      <3> QED  BY <3>1, <3>2, <1>1
    <2> QED  BY <2>1, <2>2, <1>7
  <1>11. Tile(o, g.kids, s, g.end)
    <2>1. g.kids[1] = s
      <3>1. CASE n = 0
        <4>1. f.kids = <<>>  BY <3>1, <1>1 DEF n
        <4> QED  BY <4>1, <3>1, <1>7 DEF LoopOK
      <3>2. CASE n > 0
        <4>1. 1 \in DOMAIN f.kids /\ f.kids # <<>>  BY <3>2, <1>7
        <4> QED  BY <4>1, <1>7 DEF LoopOK, Tile
      <3> QED  BY <3>1, <3>2, <1>7
    <2>2. \A i \in DOMAIN g.kids : EndOf(o, g.kids[i]) <= g.end
      <3> SUFFICES ASSUME NEW i \in 1 .. (n + 1) PROVE EndOf(o, g.kids[i]) <= g.end
        BY <1>7
      <3>1. CASE i \in 1 .. n
        <4>1. g.kids[i] = f.kids[i] /\ i \in DOMAIN f.kids  BY <1>7, <3>1
        <4> QED  BY <4>1, <1>4 DEF LoopOK, Tile
      <3>2. CASE i = n + 1  BY <3>2, <1>4, <1>7, <1>8
      <3> QED  BY <3>1, <3>2, <1>7
    <2>3. ASSUME NEW i \in DOMAIN g.kids, i + 1 \in DOMAIN g.kids
          PROVE  /\ g.kids[i + 1] % 4 = 0
                 /\ EndOf(o, g.kids[i]) <= g.kids[i + 1]
                 /\ g.kids[i + 1] <= EndOf(o, g.kids[i]) + 3
      <3>1. i \in DOMAIN f.kids /\ g.kids[i] = f.kids[i]  BY <2>3, <1>7
      <3>2. CASE i + 1 \in DOMAIN f.kids
        BY <3>1, <3>2, <1>7 DEF LoopOK, Tile
      <3>3. CASE i + 1 \notin DOMAIN f.kids
        <4>1. i = n /\ f.kids # <<>>  BY <3>1, <3>3, <1>7, <2>3
        <4>2. g.kids[i + 1] = f.pos  BY <4>1, <1>7
        <4>3. f.pos <= EndOf(o, f.kids[Len(f.kids)]) + 3  BY <4>1 DEF LoopOK
        <4>4. Len(f.kids) = i  BY <4>1 DEF n
        <4> QED  BY <3>1, <4>2, <4>3, <4>4, <1>1, <1>9
      <3> QED  BY <3>2, <3>3
    <2> QED  BY <1>7, <2>1, <2>2, <2>3 DEF Tile
  <1>12. g.pos <= g.end + 3 /\ g.pos <= EndOf(o, g.kids[Len(g.kids)]) + 3
    <2>1. g.kids[Len(g.kids)] = f.pos  BY <1>7
    <2>2. g.pos <= g.end + 3  BY <1>p, <1>1, <1>2, <1>5
    <2> QED  BY <2>1, <2>2, <1>p, <1>8
  <1>13. s <= g.pos /\ EndOf(o, f.pos) <= g.pos  BY <1>1, <1>8, <1>p
  <1>14. LoopOK(o, g, s)
    BY <1>1, <1>5, <1>6, <1>7, <1>10, <1>11, <1>12, <1>13 DEF LoopOK
  <1> QED  BY <1>4, <1>13, <1>14 DEF g, c

\* A loop at its end has all its data in AVPs.
LEMMA LoopFills ==
    ASSUME NEW o, NEW f, NEW s, LoopOK(o, f, s), ObjectsOK(o), ~MoreIn(f)
    PROVE  Fill(o, f.kids, s, f.end)
  <1>1. f.end \in Nat /\ f.pos \in Nat /\ f.kids \in Seq(Nat) /\ f.pos >= f.end
    BY DEF LoopOK, Frames, MoreIn
  <1>2. CASE f.kids = <<>>
    BY <1>1, <1>2 DEF LoopOK, Fill
  <1>3. CASE f.kids # <<>>
    <2> DEFINE last == f.kids[Len(f.kids)]
    <2>1. last \in DOMAIN o  BY <1>1, <1>3 DEF LoopOK
    <2>2. last \in Nat /\ o[last].head \in Heads  BY <2>1 DEF ObjectsOK, AvpObjects
    <2>3. EndOf(o, last) \in Nat  BY <2>2, HeaderLens DEF EndOf
    <2>4. f.pos <= EndOf(o, last) + 3  BY <1>3 DEF LoopOK
    <2> QED  BY <1>1, <1>3, <2>3, <2>4 DEF Fill
  <1> QED  BY <1>2, <1>3
\* An open AVP does not see later changes to the vectors of others.
LEMMA OpenKept ==
    ASSUME NEW o, NEW o2, NEW f, NEW up, NEW first, NEW k,
           OpenOK(o, f, up, first, k), ObjectsOK(o),
           \A a \in DOMAIN o : a \in DOMAIN o2 /\ o2[a].head = o[a].head
    PROVE  OpenOK(o2, f, up, first, k)
  <1>1. f.at \in DOMAIN o2 /\ o2[f.at].head = o[f.at].head  BY DEF OpenOK
  <1>2. EndOf(o2, f.at) = EndOf(o, f.at) /\ DataStart(o2, f.at) = DataStart(o, f.at)
    BY <1>1 DEF EndOf, DataStart
  <1>3. LoopOK(o2, f, DataStart(o, f.at))  BY LoopKept DEF OpenOK
  <1> QED  BY <1>1, <1>2, <1>3 DEF OpenOK

----------------------------------------------------------------------------
(* Steps                                                                     *)

\* The invariant holds at first.
LEMMA Initialized == Init => Inv
  <1> SUFFICES ASSUME Init PROVE Inv
    OBVIOUS
  <1> DEFINE f == Loop(0, MessageHeaderLen, MessageHeaderLen)
  <1>1. /\ f = [at |-> 0, pos |-> 20, end |-> 20, kids |-> <<>>]
        /\ f \in Frames /\ f.pos = 20 /\ f.end = 20 /\ f.kids = <<>>
    BY DEF Loop, MessageHeaderLen, Frames
  <1>2. frames = <<f>> /\ Depth = 1 /\ frames[1] = f  BY DEF Init, Depth
  <1> HIDE DEF f
  <1>3. TypeOK
    BY <1>1, <1>2 DEF Init, TypeOK
  <1>4. ObjectsOK(avps) /\ DOMAIN avps = {}
    BY DEF Init, ObjectsOK
  <1>5. LoopOK(avps, f, 20)
    <2>1. 20 % 4 = 0  OBVIOUS
    <2> QED  BY <1>1, <2>1 DEF LoopOK, Tile
  <1> QED  BY <1>2, <1>3, <1>4, <1>5 DEF Init, Inv, FramesInv, ObjectsInv, ProgressInv, MessageHeaderLen

\* Where a running loop is.
LEMMA TopFacts ==
    ASSUME Inv
    PROVE  /\ Depth \in Nat /\ 1 <= Depth
           /\ \A k \in 1 .. Depth : frames[k] \in Frames
           /\ Top.pos \in Nat /\ Top.end \in Nat /\ Top.at \in Nat
           /\ frames[1].pos \in Nat /\ frames[1].end \in Nat
           /\ Top.pos % 4 = 0
           /\ frames[1].pos <= Top.pos /\ Top.end <= frames[1].end
           /\ MessageHeaderLen + 8 * (Depth - 1) <= Top.pos
           /\ Top.pos \notin DOMAIN avps
  <1>1. Depth \in Nat /\ 1 <= Depth /\ \A k \in 1 .. Depth : frames[k] \in Frames
    BY DEF Inv, TypeOK, Depth
  <1>2. Top \in Frames /\ frames[1] \in Frames  BY <1>1 DEF Top
  <1>3. /\ Top.pos \in Nat /\ Top.end \in Nat /\ Top.at \in Nat
        /\ frames[1].pos \in Nat /\ frames[1].end \in Nat
    BY <1>2 DEF Frames
  <1>4. Top.pos \notin DOMAIN avps
    BY <1>3 DEF Inv, ObjectsInv
  <1>5. CASE Depth = 1
    <2>1. Top = frames[1]  BY <1>5 DEF Top
    <2>2. LoopOK(avps, frames[1], MessageHeaderLen)  BY DEF Inv, FramesInv
    <2>3. frames[1].pos % 4 = 0 /\ 20 <= frames[1].pos  BY <2>2 DEF LoopOK, MessageHeaderLen
    <2> QED  BY <1>1, <1>3, <1>4, <1>5, <2>1, <2>3 DEF MessageHeaderLen
  <1>6. CASE Depth >= 2
    <2>1. OpenOK(avps, Top, frames[Depth - 1], frames[1], Depth)
      BY <1>1, <1>6 DEF Inv, FramesInv, Top
    <2>2. LoopOK(avps, Top, DataStart(avps, Top.at))  BY <2>1 DEF OpenOK
    <2>3. Top.at \in DOMAIN avps /\ avps[Top.at].head \in Heads
      BY <2>1 DEF OpenOK, Inv, ObjectsOK, AvpObjects
    <2>4. Top.at + 8 <= DataStart(avps, Top.at) /\ DataStart(avps, Top.at) \in Nat
      BY <2>3, <1>3, HeaderLens DEF DataStart
    <2>5. DataStart(avps, Top.at) <= Top.pos /\ Top.pos % 4 = 0  BY <2>2 DEF LoopOK
    <2>6. Top.at + 8 <= Top.pos  BY <2>4, <2>5, <1>3
    <2>7. 20 + 8 * (Depth - 2) <= Top.at /\ frames[1].pos <= Top.at /\ Top.end <= frames[1].end
      BY <2>1 DEF OpenOK, MessageHeaderLen
    <2>8. 20 + 8 * (Depth - 1) <= Top.pos  BY <1>1, <1>3, <2>6, <2>7
    <2>9. frames[1].pos <= Top.pos  BY <1>3, <2>6, <2>7
    <2> QED  BY <1>1, <1>3, <1>4, <2>5, <2>7, <2>8, <2>9 DEF MessageHeaderLen
  <1> QED  BY <1>1, <1>5, <1>6

\* The end of the message loop keeps the invariant.
LEMMA FinishStep == ASSUME Inv, Finish PROVE Inv'
  <1>1. Top = frames[1] /\ ~MoreIn(frames[1])  BY DEF Finish, Top
  <1>2. Fill(avps, frames[1].kids, MessageHeaderLen, frames[1].end)
    BY <1>1, LoopFills DEF Inv, FramesInv
  <1>3. UNCHANGED <<header, body, len, frames, avps, reach>> /\ outcome = "decoding" /\ outcome' = "done" /\ Depth = 1
    BY DEF Finish
  <1>4. TypeOK'  BY <1>3 DEF Inv, TypeOK, Depth
  <1>5. ObjectsOK(avps') /\ FramesInv'  BY <1>3 DEF Inv, FramesInv, Depth
  <1>6. ObjectsInv'  BY <1>3 DEF Inv, ObjectsInv, Top, Depth, IsOpen
  <1>7. ProgressInv'  BY <1>2, <1>3 DEF Inv, ProgressInv
  <1> QED  BY <1>4, <1>5, <1>6, <1>7 DEF Inv

\* A new decode keeps the invariant, whether it throws or starts.
LEMMA DecodeStep == ASSUME Inv, Decode PROVE Inv'
  <1> PICK n \in BufferLens, m \in MessageLens :
        /\ outcome # "decoding" /\ len' = n
        /\ DecodeShort(n) \/ DecodeUncovered(n, m) \/ DecodeBody(n, m)
    BY DEF Decode
  <1>1. n \in Nat /\ m \in Nat  BY LengthsAssumption
  <1>2. CASE DecodeShort(n) \/ DecodeUncovered(n, m)
    <2>1. /\ UNCHANGED <<frames, avps>> /\ outcome' = "failed"
          /\ header' \in {"this", "earlier"} /\ body' \in {"this", "earlier"}
          /\ reach' \in Nat /\ reach' <= len'
      BY <1>1, <1>2 DEF DecodeShort, DecodeUncovered, MessageHeaderLen
    <2>2. TypeOK'  BY <1>1, <2>1 DEF Inv, TypeOK, Depth
    <2>3. ObjectsOK(avps') /\ FramesInv'  BY <2>1 DEF Inv, FramesInv, Depth
    <2>4. ObjectsInv'  BY <2>1 DEF Inv, ObjectsInv, Top, Depth, IsOpen
    <2>5. ProgressInv'  BY <2>1 DEF ProgressInv
    <2> QED  BY <2>2, <2>3, <2>4, <2>5 DEF Inv
  <1>3. CASE DecodeBody(n, m)
    <2> DEFINE f == Loop(0, MessageHeaderLen, m)
    <2>1. f \in Frames /\ f.pos = 20 /\ f.end = m /\ f.kids = <<>>
      BY <1>1 DEF Loop, MessageHeaderLen, Frames
    <2>2. frames' = <<f>> /\ Depth' = 1 /\ frames'[1] = f
      BY <1>3 DEF DecodeBody, Depth
    <2> HIDE DEF f
    <2>3. /\ outcome' = "decoding" /\ header' = "this" /\ body' = "this"
          /\ reach' = 20 /\ avps' = <<>> /\ 20 <= len' /\ m <= len'
      BY <1>1, <1>3 DEF DecodeBody, Covers, MessageHeaderLen
    <2>4. TypeOK'
      BY <1>1, <2>1, <2>2, <2>3 DEF TypeOK
    <2>5. ObjectsOK(avps') /\ DOMAIN avps' = {}
      BY <2>3 DEF ObjectsOK
    <2>6. LoopOK(avps', f, 20)
      <3>1. 20 % 4 = 0  OBVIOUS
      <3> QED  BY <2>1, <3>1 DEF LoopOK, Tile
    <2>7. FramesInv'  BY <2>2, <2>6 DEF FramesInv, MessageHeaderLen
    <2>8. ObjectsInv'  BY <2>5 DEF ObjectsInv
    <2>9. ProgressInv'  BY <2>1, <2>2, <2>3 DEF ProgressInv
    <2> QED  BY <2>4, <2>5, <2>7, <2>8, <2>9 DEF Inv
  <1> QED  BY <1>2, <1>3

\* An exception in any loop keeps the invariant.
LEMMA UnwindStep ==
    ASSUME Inv, InLoop, Unwind, reach' \in Nat, reach' <= len
    PROVE  Inv'
  <1> DEFINE f == frames[1]
  <1>1. /\ Depth \in Nat /\ 1 <= Depth /\ f \in Frames /\ f.pos \in Nat /\ f.end \in Nat
        /\ frames \in Seq(Frames)
    BY TopFacts DEF Inv, TypeOK
  <1>2. frames' = <<f>> /\ frames' \in Seq(Frames)
    <2>1. frames' = SubSeq(frames, 1, 1)  BY DEF Unwind
    <2>2. Len(frames') = 1 /\ frames'[1] = f
      BY <2>1, <1>1, SubSeqProperties DEF Depth, f
    <2>3. frames' \in Seq(Frames)  BY <2>1, <1>1, SubSeqProperties DEF Depth
    <2> QED  BY <2>2, <2>3
  <1>3. Depth' = 1 /\ frames'[1] = f /\ Top' = f
    BY <1>2 DEF Depth, Top
  <1> HIDE DEF f
  <1>4. /\ outcome' = "failed" /\ UNCHANGED <<header, body, len>>
        /\ DOMAIN avps' = {x \in DOMAIN avps : x < f.pos}
        /\ \A a \in DOMAIN avps' : avps'[a] = avps[a]
        /\ avps' = [a \in DOMAIN avps' |-> avps'[a]]
    BY DEF Unwind, f
  <1>5. DOMAIN avps \subseteq Nat /\ ObjectsOK(avps)  BY DEF Inv, ObjectsOK
  <1>6. \A a \in DOMAIN avps : avps[a] \in AvpObjects /\ avps[a].head \in Heads
                              /\ avps[a].head.length \in Nat /\ 8 <= avps[a].head.length
    <2>1. \A a \in DOMAIN avps : avps[a] \in AvpObjects /\ avps[a].head \in Heads
                                /\ avps[a].head.length >= HeaderLen(avps[a].head)
      BY <1>5 DEF ObjectsOK, AvpObjects
    <2> QED  BY <2>1, HeaderLens
  <1>7. TypeOK'
    BY <1>2, <1>3, <1>4, <1>5, <1>6 DEF Inv, TypeOK
  <1>8. ObjectsOK(avps')
    BY <1>4, <1>5, <1>6 DEF ObjectsOK
  <1>9. FramesInv'
    <2>1. \A a \in DOMAIN avps : EndOf(avps, a) <= f.pos => a \in DOMAIN avps' /\ avps'[a].head = avps[a].head
      BY <1>1, <1>4, <1>5, <1>6 DEF EndOf
    <2>2. LoopOK(avps, f, MessageHeaderLen)  BY DEF Inv, FramesInv, f
    <2>3. LoopOK(avps', f, MessageHeaderLen)  BY <2>1, <2>2, <1>5, LoopKept
    <2> QED  BY <1>3, <2>3 DEF FramesInv
  <1>10. ASSUME NEW a \in DOMAIN avps'
         PROVE  /\ a < f.pos /\ EndOf(avps', a) <= f.pos /\ GroupOK(avps', a)
    <2>1. a \in DOMAIN avps /\ a < f.pos /\ avps'[a] = avps[a] /\ a \in Nat  BY <1>4, <1>5
    <2>2. EndOf(avps, a) <= f.pos /\ ~IsOpen(a)  BY <2>1 DEF Inv, ObjectsInv, f
    <2>3. GroupOK(avps, a)  BY <2>1, <2>2 DEF Inv, ObjectsInv
    <2>4. EndOf(avps', a) <= f.pos  BY <2>1, <2>2 DEF EndOf
    <2>5. CASE FormatType(avps[a].head) = "Grouped"
      <3>1. ASSUME NEW i \in DOMAIN avps[a].kids, avps[a].kids[i] \in DOMAIN avps
            PROVE  /\ avps[a].kids[i] \in DOMAIN avps'
                   /\ avps'[avps[a].kids[i]].head = avps[avps[a].kids[i]].head
        <4> DEFINE b == avps[a].kids[i]
        <4>1. EndOf(avps, b) <= EndOf(avps, a)
          BY <2>3, <2>5 DEF GroupOK, Tile
        <4>2. b \in Nat /\ avps[b].head.length \in Nat /\ 8 <= avps[b].head.length
          BY <3>1, <1>5, <1>6
        <4>3. avps[a].head.length \in Nat  BY <2>1, <1>6
        <4> HIDE DEF b
        <4>4. EndOf(avps, a) \in Nat /\ EndOf(avps, a) <= f.pos  BY <4>3, <2>1, <2>2 DEF EndOf
        <4>5. b + 8 <= EndOf(avps, b) /\ EndOf(avps, b) \in Nat  BY <4>2 DEF EndOf
        <4>6. b < f.pos  BY <4>1, <4>2, <4>4, <4>5, <1>1
        <4> QED  BY <4>6, <3>1, <1>4 DEF b
      <3> QED  BY <3>1, <2>1, <2>3, <2>4, <1>5, GroupKept
    <2>6. CASE FormatType(avps[a].head) # "Grouped"
      BY <2>1, <2>4, <2>6 DEF GroupOK
    <2> QED  BY <2>5, <2>6, <2>1
  <1>11. \A a : ~IsOpen(a)'
    BY <1>3 DEF IsOpen
  <1>12. ObjectsInv'
    BY <1>3, <1>10, <1>11 DEF ObjectsInv
  <1>13. ProgressInv'
    BY <1>4 DEF ProgressInv
  <1> QED  BY <1>7, <1>8, <1>9, <1>12, <1>13 DEF Inv
\* Changing vectors and adding objects leaves every loop as it was.
LEMMA FramesKept ==
    ASSUME Inv, \A a \in DOMAIN avps : a \in DOMAIN avps' /\ avps'[a].head = avps[a].head
    PROVE  /\ LoopOK(avps', frames[1], MessageHeaderLen)
           /\ \A k \in 2 .. Depth : OpenOK(avps', frames[k], frames[k - 1], frames[1], k)
  <1>1. ObjectsOK(avps) /\ LoopOK(avps, frames[1], MessageHeaderLen)
    BY DEF Inv, FramesInv
  <1>2. LoopOK(avps', frames[1], MessageHeaderLen)  BY <1>1, LoopKept
  <1>3. ASSUME NEW k \in 2 .. Depth
        PROVE  OpenOK(avps', frames[k], frames[k - 1], frames[1], k)
    <2>1. OpenOK(avps, frames[k], frames[k - 1], frames[1], k)  BY DEF Inv, FramesInv
    <2> QED  BY <1>1, <2>1, OpenKept
  <1> QED  BY <1>2, <1>3

\* A header that passes the checks becomes an object at the loop's position.
LEMMA Added ==
    ASSUME Inv, InLoop, NEW h \in Heads, Accepted(h), avps' = AddAvp(h)
    PROVE  /\ HeaderLen(h) <= h.length /\ Top.pos + h.length <= Top.end
           /\ DOMAIN avps' = DOMAIN avps \cup {Top.pos}
           /\ avps'[Top.pos].head = h /\ avps'[Top.pos].kids = <<>>
           /\ \A a \in DOMAIN avps : a # Top.pos /\ avps'[a] = avps[a]
           /\ ObjectsOK(avps') /\ avps' \in [DOMAIN avps' -> AvpObjects]
           /\ EndOf(avps', Top.pos) = Top.pos + h.length
           /\ \A a \in DOMAIN avps : GroupOK(avps, a) => GroupOK(avps', a)
  <1> DEFINE p == Top.pos
  <1>1. p \in Nat /\ Top.end \in Nat /\ p \notin DOMAIN avps  BY TopFacts
  <1>2. h.length \in Nat /\ HeaderLen(h) \in Nat  BY HeaderLens
  <1>3. HeaderLen(h) <= h.length /\ p + h.length <= Top.end
    BY <1>1, <1>2 DEF Accepted, LengthCoversHeader, LengthFits, Room
  <1>4. avps' = [a \in DOMAIN avps \cup {p} |-> IF a = p THEN [head |-> h, kids |-> <<>>] ELSE avps[a]]
    BY DEF AddAvp
  <1> HIDE DEF p
  <1>5. /\ DOMAIN avps' = DOMAIN avps \cup {p}
        /\ avps'[p] = [head |-> h, kids |-> <<>>]
        /\ \A a \in DOMAIN avps : a # p /\ avps'[a] = avps[a]
    BY <1>1, <1>4
  <1>6. [head |-> h, kids |-> <<>>] \in AvpObjects  BY DEF AvpObjects
  <1>7. ObjectsOK(avps)  BY DEF Inv
  <1>8. avps' \in [DOMAIN avps' -> AvpObjects]
    <2>1. \A a \in DOMAIN avps' : avps'[a] \in AvpObjects
      BY <1>5, <1>6, <1>7 DEF ObjectsOK
    <2>2. avps' = [a \in DOMAIN avps' |-> avps'[a]]  BY <1>4
    <2> QED  BY <2>1, <2>2
  <1>9. ObjectsOK(avps')
    BY <1>1, <1>3, <1>5, <1>7, <1>8 DEF ObjectsOK
  <1>10. EndOf(avps', p) = p + h.length  BY <1>5 DEF EndOf
  <1>11. ASSUME NEW a \in DOMAIN avps, GroupOK(avps, a) PROVE GroupOK(avps', a)
    BY <1>5, <1>7, <1>11, GroupKept
  <1> QED  BY <1>3, <1>5, <1>8, <1>9, <1>10, <1>11 DEF p

\* A decoded value keeps the invariant.
LEMMA ValueStep ==
    ASSUME Inv, InLoop, NEW h \in Heads, DecodeValue(h)
    PROVE  Inv'
  <1> DEFINE g == Taken(Top, h)
             p == Top.pos
  <1>1. /\ Depth \in Nat /\ 1 <= Depth /\ \A k \in 1 .. Depth : frames[k] \in Frames
        /\ p \in Nat /\ Top.end \in Nat /\ frames[1].pos \in Nat /\ frames[1].end \in Nat
        /\ frames[1].pos <= p /\ Top.end <= frames[1].end
        /\ frames \in Seq(Frames)
    BY TopFacts DEF Inv, TypeOK
  <1>2. /\ HeaderLen(h) <= h.length /\ p + h.length <= Top.end
        /\ DOMAIN avps' = DOMAIN avps \cup {p}
        /\ avps'[p].head = h /\ avps'[p].kids = <<>>
        /\ \A a \in DOMAIN avps : a # p /\ avps'[a] = avps[a]
        /\ ObjectsOK(avps') /\ avps' \in [DOMAIN avps' -> AvpObjects]
        /\ EndOf(avps', p) = p + h.length
        /\ \A a \in DOMAIN avps : GroupOK(avps, a) => GroupOK(avps', a)
    BY Added DEF DecodeValue
  <1>3. /\ LoopOK(avps', frames[1], MessageHeaderLen)
        /\ \A k \in 2 .. Depth : OpenOK(avps', frames[k], frames[k - 1], frames[1], k)
    BY <1>2, FramesKept
  <1>4. h.length \in Nat /\ 8 <= h.length  BY <1>2, HeaderLens
  <1>5. /\ outcome = "decoding" /\ UNCHANGED <<header, body, outcome, len>>
        /\ reach' = p + h.length /\ FormatType(h) # "Grouped"
        /\ frames' = [frames EXCEPT ![Depth] = g]
    BY DEF InLoop, DecodeValue, Top
  <1>6. ASSUME NEW s, LoopOK(avps', Top, s)
        PROVE  /\ LoopOK(avps', g, s) /\ g.pos = p + Consumed(h) /\ g.at = Top.at
               /\ g.end = Top.end /\ EndOf(avps', p) <= g.pos
    BY <1>2, <1>6, LoopTakes
  <1> HIDE DEF g
  <1>7. /\ g \in Frames /\ g.pos \in Nat /\ p + h.length <= g.pos
        /\ g.at = Top.at /\ g.end = Top.end
    <2>1. CASE Depth = 1
      <3>1. LoopOK(avps', Top, MessageHeaderLen)  BY <1>3, <2>1 DEF Top
      <3>2. /\ LoopOK(avps', g, MessageHeaderLen) /\ g.at = Top.at /\ g.end = Top.end
            /\ EndOf(avps', p) <= g.pos
        BY <3>1, <1>6
      <3> QED  BY <3>2, <1>2 DEF LoopOK, Frames
    <2>2. CASE Depth >= 2
      <3>1. LoopOK(avps', Top, DataStart(avps', Top.at))
        BY <1>1, <1>3, <2>2 DEF OpenOK, Top
      <3>2. /\ LoopOK(avps', g, DataStart(avps', Top.at)) /\ g.at = Top.at /\ g.end = Top.end
            /\ EndOf(avps', p) <= g.pos
        BY <3>1, <1>6
      <3> QED  BY <3>2, <1>2 DEF LoopOK, Frames
    <2> QED  BY <2>1, <2>2, <1>1
  <1>8. /\ frames' \in Seq(Frames) /\ Depth' = Depth /\ frames'[Depth] = g
        /\ \A k \in 1 .. Depth : k # Depth => frames'[k] = frames[k]
        /\ Top' = g /\ frames' # <<>>
    <2>1. frames' \in Seq(Frames) /\ Len(frames') = Depth
      BY <1>1, <1>5, <1>7, ExceptSeq DEF Depth
    <2>2. frames'[Depth] = g /\ \A k \in 1 .. Depth : k # Depth => frames'[k] = frames[k]
      BY <1>1, <1>5, ExceptSeq DEF Depth
    <2> QED  BY <2>1, <2>2, <1>1 DEF Depth, Top
  <1>9. frames'[1].end = frames[1].end /\ \A k \in 1 .. Depth : frames'[k].at = frames[k].at
    BY <1>1, <1>7, <1>8 DEF Top
  <1>10. TypeOK'
    BY <1>1, <1>2, <1>4, <1>5, <1>8 DEF Inv, TypeOK, ObjectsOK
  <1>11. FramesInv'
    <2>1. CASE Depth = 1
      <3>1. LoopOK(avps', g, MessageHeaderLen)  BY <2>1, <1>3, <1>6 DEF Top
      <3> QED  BY <3>1, <2>1, <1>8 DEF FramesInv
    <2>2. CASE Depth >= 2
      <3>1. frames'[1] = frames[1]  BY <2>2, <1>1, <1>8
      <3>2. ASSUME NEW k \in 2 .. Depth
            PROVE  OpenOK(avps', frames'[k], frames'[k - 1], frames'[1], k)
        <4>0. OpenOK(avps', frames[k], frames[k - 1], frames[1], k)  BY <1>3
        <4>1. frames'[k - 1] = frames[k - 1]  BY <1>1, <1>8
        <4>2. CASE k # Depth
          <5>1. frames'[k] = frames[k]  BY <4>2, <1>1, <1>8
          <5> QED  BY <3>1, <4>0, <4>1, <5>1
        <4>3. CASE k = Depth
          <5>1. frames'[k] = g /\ frames[k] = Top  BY <4>3, <1>8 DEF Top
          <5>2. LoopOK(avps', Top, DataStart(avps', Top.at))  BY <4>0, <5>1 DEF OpenOK
          <5>3. LoopOK(avps', g, DataStart(avps', g.at))  BY <5>2, <1>6, <1>7
          <5> QED  BY <3>1, <4>0, <4>1, <5>1, <5>3, <1>7 DEF OpenOK
        <4> QED  BY <4>2, <4>3
      <3> QED  BY <3>1, <3>2, <1>3, <1>8 DEF FramesInv
    <2> QED  BY <2>1, <2>2, <1>1
  <1>12. ASSUME NEW a PROVE IsOpen(a)' <=> IsOpen(a)
    <2>1. \A k \in 2 .. Depth : frames'[k].at = frames[k].at  BY <1>1, <1>9
    <2>2. IsOpen(a)' <=> \E k \in 2 .. Depth : frames'[k].at = a  BY <1>8 DEF IsOpen
    <2> QED  BY <2>1, <2>2 DEF IsOpen
  <1>13. ASSUME NEW a \in DOMAIN avps'
         PROVE  /\ a < g.pos
                /\ ~IsOpen(a)' => EndOf(avps', a) <= g.pos /\ GroupOK(avps', a)
                /\ a < frames'[1].pos => ~IsOpen(a)' /\ EndOf(avps', a) <= frames'[1].pos
    <2>1. CASE a \in DOMAIN avps
      <3>1. /\ a < p /\ (~IsOpen(a) => EndOf(avps, a) <= p /\ GroupOK(avps, a))
            /\ a < frames[1].pos => ~IsOpen(a) /\ EndOf(avps, a) <= frames[1].pos
        BY <2>1 DEF Inv, ObjectsInv
      <3>2. EndOf(avps', a) = EndOf(avps, a) /\ EndOf(avps, a) \in Nat /\ a \in Nat
        <4>1. a \in Nat /\ avps[a].head \in Heads  BY <2>1 DEF Inv, ObjectsOK, AvpObjects
        <4> QED  BY <2>1, <4>1, <1>2, HeaderLens DEF EndOf
      <3>3. p <= g.pos  BY <1>1, <1>4, <1>7
      <3>4. CASE Depth = 1
        <4>1. frames'[1] = g /\ frames[1].pos = p  BY <3>4, <1>8 DEF Top
        <4>2. ~IsOpen(a)' /\ EndOf(avps', a) <= p  BY <3>1, <3>2, <4>1, <1>12
        <4> QED  BY <2>1, <3>1, <3>2, <3>3, <4>1, <4>2, <1>1, <1>2, <1>7, <1>12
      <3>5. CASE Depth # 1
        <4>1. frames'[1] = frames[1]  BY <3>5, <1>1, <1>8
        <4> QED  BY <2>1, <3>1, <3>2, <3>3, <4>1, <1>1, <1>2, <1>7, <1>12
      <3> QED  BY <3>4, <3>5
    <2>2. CASE a = p
      <3>1. a < g.pos /\ EndOf(avps', a) <= g.pos  BY <2>2, <1>1, <1>2, <1>4, <1>7
      <3>2. GroupOK(avps', a)  BY <2>2, <1>2, <1>5 DEF GroupOK
      <3>3. CASE Depth = 1
        <4>1. frames'[1] = g /\ ~IsOpen(a)'  BY <3>3, <1>8, <1>12 DEF IsOpen
        <4> QED  BY <3>1, <3>2, <4>1
      <3>4. CASE Depth # 1
        <4>1. frames'[1] = frames[1] /\ ~(a < frames'[1].pos)  BY <3>4, <2>2, <1>1, <1>8
        <4> QED  BY <3>1, <3>2, <4>1
      <3> QED  BY <3>3, <3>4
    <2> QED  BY <2>1, <2>2, <1>2
  <1>14. ObjectsInv'
    BY <1>8, <1>13 DEF ObjectsInv
  <1>15. ProgressInv'
    <2>1. header = "this" /\ body = "this" /\ frames[1].end <= len /\ len \in Nat
      BY <1>5 DEF Inv, ProgressInv, TypeOK
    <2>2. reach' <= len'  BY <2>1, <1>1, <1>2, <1>4, <1>5
    <2> QED  BY <2>1, <2>2, <1>5, <1>9 DEF ProgressInv
  <1> QED  BY <1>2, <1>10, <1>11, <1>14, <1>15 DEF Inv
\* The start of a Grouped AVP keeps the invariant.
LEMMA OpenStep ==
    ASSUME Inv, InLoop, NEW h \in Heads, OpenGrouped(h)
    PROVE  Inv'
  <1> DEFINE p == Top.pos
             g == Loop(p, p + HeaderLen(h), p + h.length)
  <1>1. /\ Depth \in Nat /\ 1 <= Depth
        /\ p \in Nat /\ p % 4 = 0 /\ Top.end \in Nat /\ frames[1].pos \in Nat /\ frames[1].end \in Nat
        /\ frames[1].pos <= p /\ Top.end <= frames[1].end
        /\ MessageHeaderLen + 8 * (Depth - 1) <= p
        /\ frames \in Seq(Frames)
    BY TopFacts DEF Inv, TypeOK
  <1>2. /\ HeaderLen(h) <= h.length /\ p + h.length <= Top.end
        /\ DOMAIN avps' = DOMAIN avps \cup {p}
        /\ avps'[p].head = h
        /\ \A a \in DOMAIN avps : a # p /\ avps'[a] = avps[a]
        /\ ObjectsOK(avps') /\ avps' \in [DOMAIN avps' -> AvpObjects]
        /\ EndOf(avps', p) = p + h.length
        /\ \A a \in DOMAIN avps : GroupOK(avps, a) => GroupOK(avps', a)
    BY Added DEF OpenGrouped
  <1>3. /\ LoopOK(avps', frames[1], MessageHeaderLen)
        /\ \A k \in 2 .. Depth : OpenOK(avps', frames[k], frames[k - 1], frames[1], k)
    BY <1>2, FramesKept
  <1>4. /\ HeaderLen(h) \in Nat /\ HeaderLen(h) % 4 = 0 /\ 8 <= HeaderLen(h)
        /\ h.length \in Nat
    BY HeaderLens
  <1>5. /\ outcome = "decoding" /\ UNCHANGED <<header, body, outcome, len>>
        /\ reach' = p + HeaderLen(h) /\ FormatType(h) = "Grouped" /\ p < Top.end
        /\ frames' = Append(frames, g)
    BY DEF InLoop, OpenGrouped, MoreIn
  <1>6. /\ g \in Frames /\ g.at = p /\ g.pos = p + HeaderLen(h)
        /\ g.end = p + h.length /\ g.kids = <<>>
    <2>1. p + HeaderLen(h) \in Nat /\ p + h.length \in Nat /\ p \in Nat  BY <1>1, <1>4
    <2>2. g = [at |-> p, pos |-> p + HeaderLen(h), end |-> p + h.length, kids |-> <<>>]
      BY DEF Loop
    <2> HIDE DEF g
    <2> QED  BY <2>1, <2>2 DEF Frames
  <1>e. /\ g.pos \in Nat /\ g.pos % 4 = 0 /\ p + 8 <= g.pos
        /\ g.end <= Top.end /\ g.end <= frames[1].end /\ g.pos <= g.end
    <2>1. p \in Nat /\ p % 4 = 0 /\ g.pos = p + HeaderLen(h)  BY <1>1, <1>6
    <2>2. HeaderLen(h) \in Nat /\ HeaderLen(h) % 4 = 0 /\ 8 <= HeaderLen(h)  BY <1>4
    <2>3. g.pos \in Nat /\ g.pos % 4 = 0 /\ p + 8 <= g.pos
      <3> HIDE DEF p
      <3> QED  BY <2>1, <2>2, WordSum
    <2>4. g.end = p + h.length /\ p + h.length <= Top.end  BY <1>2, <1>6
    <2>5. g.end <= Top.end /\ g.end <= frames[1].end
      <3>1. p + h.length \in Nat  BY <1>1, <1>4
      <3> QED  BY <3>1, <2>4, <1>1
    <2>6. g.pos <= g.end  BY <2>1, <2>2, <2>4, <1>2, <1>4
    <2> QED  BY <2>3, <2>5, <2>6
  <1> HIDE DEF g, p
  <1>7. /\ frames' \in Seq(Frames) /\ Depth' = Depth + 1 /\ frames' # <<>>
        /\ frames'[Depth + 1] = g /\ Top' = g
        /\ \A k \in 1 .. Depth : frames'[k] = frames[k]
    BY <1>1, <1>5, <1>6, AppendProperties DEF Depth, Top
  <1>8. frames'[1] = frames[1]  BY <1>1, <1>7
  <1>9. TypeOK'
    <2>1. reach' \in Nat /\ len' \in Nat  BY <1>5, <1>6, <1>e DEF Inv, TypeOK
    <2> QED  BY <2>1, <1>2, <1>5, <1>7 DEF Inv, TypeOK, ObjectsOK
  <1>10. LoopOK(avps', g, DataStart(avps', p))
    <2>1. DataStart(avps', p) = g.pos  BY <1>2, <1>6 DEF DataStart
    <2>3. Tile(avps', g.kids, g.pos, g.end)  BY <1>6 DEF Tile
    <2> QED  BY <1>6, <1>e, <2>1, <2>3 DEF LoopOK
  <1>11. OpenOK(avps', g, Top, frames[1], Depth + 1)
    <2>1. g.end <= Top.end /\ g.end <= frames[1].end  BY <1>e
    <2>2. MessageHeaderLen + 8 * ((Depth + 1) - 2) <= g.at  BY <1>1, <1>6 DEF MessageHeaderLen
    <2> QED  BY <1>1, <1>2, <1>5, <1>6, <1>10, <2>1, <2>2 DEF OpenOK, p
  <1>12. FramesInv'
    <2>1. ASSUME NEW k \in 2 .. (Depth + 1)
          PROVE  OpenOK(avps', frames'[k], frames'[k - 1], frames'[1], k)
      <3>1. CASE k \in 2 .. Depth
        <4>1. k \in 1 .. Depth /\ k - 1 \in 1 .. Depth  BY <3>1, <1>1
        <4>2. frames'[k] = frames[k] /\ frames'[k - 1] = frames[k - 1]  BY <4>1, <1>7
        <4> QED  BY <3>1, <4>2, <1>3, <1>8
      <3>2. CASE k = Depth + 1
        <4>1. k - 1 = Depth /\ frames'[k] = g /\ frames'[k - 1] = Top
          BY <3>2, <1>1, <1>7 DEF Top
        <4> QED  BY <3>2, <4>1, <1>8, <1>11
      <3> QED  BY <3>1, <3>2, <1>1
    <2> QED  BY <2>1, <1>3, <1>7, <1>8 DEF FramesInv
  <1>13. \A a : IsOpen(a)' <=> IsOpen(a) \/ a = p
    <2> TAKE a
    <2>1. IsOpen(a)' <=> \E k \in 2 .. (Depth + 1) : frames'[k].at = a  BY <1>7 DEF IsOpen
    <2>2. \A k \in 2 .. Depth : frames'[k].at = frames[k].at
      <3>1. \A k \in 2 .. Depth : k \in 1 .. Depth  BY <1>1
      <3> QED  BY <3>1, <1>7
    <2>3. frames'[Depth + 1].at = p  BY <1>6, <1>7
    <2>4. \A k : k \in 2 .. (Depth + 1) <=> k \in 2 .. Depth \/ k = Depth + 1  BY <1>1
    <2> QED  BY <2>1, <2>2, <2>3, <2>4 DEF IsOpen
  <1>14. ASSUME NEW a \in DOMAIN avps'
         PROVE  /\ a < g.pos
                /\ ~IsOpen(a)' => EndOf(avps', a) <= g.pos /\ GroupOK(avps', a)
                /\ a < frames'[1].pos => ~IsOpen(a)' /\ EndOf(avps', a) <= frames'[1].pos
    <2>1. CASE a \in DOMAIN avps
      <3>1. /\ a < p /\ (~IsOpen(a) => EndOf(avps, a) <= p /\ GroupOK(avps, a))
            /\ a < frames[1].pos => ~IsOpen(a) /\ EndOf(avps, a) <= frames[1].pos
        BY <2>1 DEF Inv, ObjectsInv, p
      <3>2. EndOf(avps', a) = EndOf(avps, a) /\ EndOf(avps, a) \in Nat /\ a \in Nat
        <4>1. a \in Nat /\ avps[a].head \in Heads  BY <2>1 DEF Inv, ObjectsOK, AvpObjects
        <4> QED  BY <2>1, <4>1, <1>2, HeaderLens DEF EndOf
      <3>3. p <= g.pos /\ g.pos \in Nat  BY <1>1, <1>4, <1>6
      <3>4. a < g.pos
        <4>1. a < p /\ a \in Nat /\ p \in Nat /\ p <= g.pos /\ g.pos \in Nat
          BY <3>1, <3>2, <3>3, <1>1
        <4> QED  BY <4>1
      <3>5. ~IsOpen(a) => EndOf(avps', a) <= g.pos /\ GroupOK(avps', a)
        BY <2>1, <3>1, <3>2, <3>3, <1>1, <1>2
      <3> QED  BY <3>1, <3>2, <3>4, <3>5, <1>8, <1>13
    <2>2. CASE a = p
      <3>0. p < g.pos
        <4>1. p \in Nat /\ g.pos \in Nat /\ p + 8 <= g.pos  BY <1>1, <1>e
        <4> QED  BY <4>1
      <3>1. a < g.pos  BY <2>2, <3>0
      <3>2. IsOpen(a)' /\ ~(a < frames'[1].pos)  BY <2>2, <1>1, <1>8, <1>13
      <3> QED  BY <3>1, <3>2
    <2> QED  BY <2>1, <2>2, <1>2
  <1>15. ObjectsInv'
    BY <1>7, <1>14 DEF ObjectsInv
  <1>16. ProgressInv'
    <2>1. header = "this" /\ body = "this" /\ frames[1].end <= len /\ len \in Nat
      BY <1>5 DEF Inv, ProgressInv, TypeOK
    <2>2. reach' = g.pos /\ len' = len  BY <1>5, <1>6
    <2>3. g.end \in Nat  BY <1>6 DEF Frames
    <2>4. reach' <= len'  BY <2>1, <2>2, <2>3, <1>1, <1>e
    <2> QED  BY <2>1, <2>4, <1>5, <1>8 DEF ProgressInv
  <1> QED  BY <1>2, <1>9, <1>12, <1>15, <1>16 DEF Inv

\* A word at most 3 octets beyond another is not beyond it.
LEMMA WordOrder ==
    ASSUME NEW x \in Nat, NEW y \in Nat, x % 4 = 0, y % 4 = 0, x <= y + 3
    PROVE  x <= y
  OBVIOUS

\* The end of a Grouped AVP keeps the invariant.
LEMMA CloseStep ==
    ASSUME Inv, CloseGrouped
    PROVE  Inv'
  <1> DEFINE at == Top.at
             d == Depth - 1
             up == frames[Depth - 1]
             h == avps[Top.at].head
             g == Taken(up, h)
  <1>1. /\ Depth \in Nat /\ 2 <= Depth /\ \A k \in 1 .. Depth : frames[k] \in Frames
        /\ Top.pos \in Nat /\ Top.pos % 4 = 0 /\ Top.end \in Nat /\ at \in Nat
        /\ frames[1].pos \in Nat /\ frames[1].end \in Nat
        /\ frames[1].pos <= Top.pos /\ Top.end <= frames[1].end
        /\ frames \in Seq(Frames)
    <2>1. Depth > 1 /\ frames \in Seq(Frames)  BY DEF CloseGrouped, Inv, TypeOK
    <2>2. Depth \in Nat /\ 1 <= Depth  BY TopFacts
    <2>3. 2 <= Depth  BY <2>1, <2>2
    <2> QED  BY <2>1, <2>2, <2>3, TopFacts
  <1>2. OpenOK(avps, Top, up, frames[1], Depth)
    BY <1>1 DEF Inv, FramesInv, Top
  <1>3. /\ at \in DOMAIN avps /\ FormatType(h) = "Grouped" /\ Top.end = EndOf(avps, at)
        /\ at = up.pos /\ up.pos < up.end /\ Top.end <= up.end
        /\ LoopOK(avps, Top, DataStart(avps, at))
    BY <1>2 DEF OpenOK
  <1>4. ObjectsOK(avps) /\ avps[at] \in AvpObjects /\ h \in Heads /\ HeaderLen(h) <= h.length
    BY <1>3 DEF Inv, ObjectsOK, AvpObjects
  <1>5. /\ outcome = "decoding" /\ UNCHANGED <<header, body, outcome, len, reach>>
        /\ ~MoreIn(Top)
        /\ avps' = [avps EXCEPT ![at].kids = Top.kids]
        /\ frames' = [SubSeq(frames, 1, d) EXCEPT ![d] = g]
    <2>1. frames' = [SubSeq(frames, 1, d) EXCEPT ![d] = Taken(SubSeq(frames, 1, d)[d], h)]
      BY DEF CloseGrouped
    <2>2. SubSeq(frames, 1, d)[d] = up
      <3>1. d \in Nat /\ 1 <= d /\ \A i \in 1 .. d : frames[i] \in Frames  BY <1>1
      <3> QED  BY <3>1, SubSeqProperties
    <2>3. frames' = [SubSeq(frames, 1, d) EXCEPT ![d] = g]  BY <2>1, <2>2
    <2> QED  BY <2>3 DEF CloseGrouped
  <1>6. /\ DOMAIN avps' = DOMAIN avps
        /\ \A a \in DOMAIN avps : avps'[a].head = avps[a].head
        /\ \A a \in DOMAIN avps : a # at => avps'[a] = avps[a]
        /\ avps'[at].kids = Top.kids
        /\ avps' \in [DOMAIN avps' -> AvpObjects]
        /\ ObjectsOK(avps')
    <2>1. Top.kids \in Seq(Nat)  BY <1>3 DEF LoopOK, Frames
    <2>2. avps \in [DOMAIN avps -> AvpObjects] /\ DOMAIN avps \subseteq Nat  BY <1>4 DEF ObjectsOK
    <2>3. [avps[at] EXCEPT !.kids = Top.kids] \in AvpObjects
          /\ [avps[at] EXCEPT !.kids = Top.kids].head = avps[at].head
          /\ [avps[at] EXCEPT !.kids = Top.kids].kids = Top.kids
      BY <1>4, <2>1 DEF AvpObjects
    <2>4. avps' = [avps EXCEPT ![at] = [avps[at] EXCEPT !.kids = Top.kids]]
      BY <1>5
    <2>5. /\ DOMAIN avps' = DOMAIN avps
          /\ avps'[at] = [avps[at] EXCEPT !.kids = Top.kids]
          /\ \A a \in DOMAIN avps : a # at => avps'[a] = avps[a]
          /\ avps' \in [DOMAIN avps -> AvpObjects]
      BY <1>3, <2>2, <2>3, <2>4
    <2>6. \A a \in DOMAIN avps : avps'[a].head = avps[a].head
      BY <2>3, <2>5
    <2>7. ObjectsOK(avps')
      BY <1>4, <2>5, <2>6 DEF ObjectsOK
    <2> QED  BY <2>3, <2>5, <2>6, <2>7
  <1>7. /\ LoopOK(avps', frames[1], MessageHeaderLen)
        /\ \A k \in 2 .. Depth : OpenOK(avps', frames[k], frames[k - 1], frames[1], k)
    BY <1>6, FramesKept
  <1>8. /\ h.length \in Nat /\ 8 <= h.length
        /\ Consumed(h) \in Nat /\ Consumed(h) % 4 = 0 /\ h.length <= Consumed(h)
    BY <1>4, HeaderLens, ConsumedWords
  <1>9. Top.end = at + h.length  BY <1>3 DEF EndOf
  <1>10. ASSUME NEW s, LoopOK(avps', up, s)
         PROVE  /\ LoopOK(avps', g, s) /\ g.pos = up.pos + Consumed(h) /\ g.at = up.at
                /\ g.end = up.end /\ up.pos % 4 = 0
    <2>1. up.pos \in DOMAIN avps' /\ avps'[up.pos].head = h  BY <1>3, <1>6
    <2>2. up.pos + h.length <= up.end  BY <1>3, <1>9
    <2>3. up.pos % 4 = 0  BY <1>10 DEF LoopOK
    <2> QED  BY <1>4, <1>6, <1>10, <2>1, <2>2, <2>3, LoopTakes
  <1>11. d \in Nat /\ 1 <= d /\ d \in 1 .. Depth /\ up \in Frames  BY <1>1
  <1> HIDE DEF d, up, h, g, at
  <1>12. /\ g \in Frames /\ g.pos = at + Consumed(h) /\ g.at = up.at /\ g.end = up.end
         /\ up.pos % 4 = 0
    <2>1. CASE d = 1
      <3>1. LoopOK(avps', up, MessageHeaderLen)  BY <1>1, <1>7, <2>1 DEF d, up
      <3>2. LoopOK(avps', g, MessageHeaderLen) /\ g.pos = up.pos + Consumed(h) /\ g.at = up.at /\ g.end = up.end /\ up.pos % 4 = 0
        BY <3>1, <1>10
      <3> QED  BY <3>2, <1>3 DEF LoopOK
    <2>2. CASE d >= 2
      <3>1. OpenOK(avps', up, frames[d - 1], frames[1], d)  BY <1>1, <1>7, <2>2 DEF d, up
      <3>2. LoopOK(avps', up, DataStart(avps', up.at))  BY <3>1 DEF OpenOK
      <3>3. LoopOK(avps', g, DataStart(avps', up.at)) /\ g.pos = up.pos + Consumed(h) /\ g.at = up.at /\ g.end = up.end /\ up.pos % 4 = 0
        BY <3>2, <1>10
      <3> QED  BY <3>3, <1>3 DEF LoopOK
    <2> QED  BY <2>1, <2>2, <1>11
  <1>13. /\ frames' \in Seq(Frames) /\ Depth' = d /\ frames'[d] = g /\ Top' = g
         /\ frames' # <<>>
         /\ \A k \in 1 .. d : k # d => frames'[k] = frames[k]
    <2> DEFINE q == SubSeq(frames, 1, d)
    <2>1. q \in Seq(Frames) /\ Len(q) = d /\ \A i \in 1 .. d : q[i] = frames[i]
      <3>1. \A i \in 1 .. d : frames[i] \in Frames  BY <1>1, <1>11 DEF d
      <3> QED  BY <3>1, <1>11, SubSeqProperties
    <2> HIDE DEF q
    <2>2. frames' = [q EXCEPT ![d] = g]  BY <1>5 DEF q
    <2>3. frames' \in Seq(Frames) /\ Len(frames') = d
          /\ \A k \in 1 .. d : frames'[k] = IF k = d THEN g ELSE q[k]
      BY <1>11, <1>12, <2>1, <2>2, ExceptSeq
    <2> QED  BY <1>11, <2>1, <2>3 DEF Depth, Top
  <1>14. /\ g.pos \in Nat /\ Top.pos <= g.pos /\ Top.end <= g.pos
    <2>1. g.pos \in Nat /\ Top.end <= g.pos  BY <1>1, <1>8, <1>9, <1>12
    <2>2. g.pos % 4 = 0
      <3>1. at \in Nat /\ at % 4 = 0  BY <1>1, <1>3, <1>12
      <3> QED  BY <3>1, <1>8, <1>12, WordSum
    <2>3. DataStart(avps, at) <= Top.end
      <3>1. DataStart(avps, at) = at + HeaderLen(h)  BY DEF DataStart, h, at
      <3>2. HeaderLen(h) \in Nat  BY <1>4, HeaderLens
      <3> QED  BY <3>1, <3>2, <1>1, <1>4, <1>8, <1>9
    <2>4. Top.pos <= Top.end + 3  BY <1>1, <1>3, <2>3 DEF LoopOK
    <2>5. Top.pos <= g.pos + 3  BY <1>1, <2>1, <2>4
    <2> QED  BY <1>1, <2>1, <2>2, <2>5, WordOrder
  <1>15. frames'[1].end = frames[1].end /\ \A k \in 1 .. d : frames'[k].at = frames[k].at
    BY <1>11, <1>12, <1>13 DEF up, d
  <1>16. TypeOK'
    BY <1>5, <1>6, <1>13 DEF Inv, TypeOK, ObjectsOK
  <1>17. FramesInv'
    <2>1. CASE d = 1
      <3>1. LoopOK(avps', up, MessageHeaderLen)  BY <1>1, <1>7, <2>1 DEF d, up
      <3>2. LoopOK(avps', g, MessageHeaderLen)  BY <3>1, <1>10
      <3> QED  BY <2>1, <3>2, <1>13 DEF FramesInv
    <2>2. CASE d >= 2
      <3>1. frames'[1] = frames[1]  BY <2>2, <1>11, <1>13
      <3>2. ASSUME NEW k \in 2 .. d
            PROVE  OpenOK(avps', frames'[k], frames'[k - 1], frames'[1], k)
        <4>0. OpenOK(avps', frames[k], frames[k - 1], frames[1], k)  BY <1>1, <1>7, <1>11 DEF d
        <4>1. frames'[k - 1] = frames[k - 1]  BY <1>11, <1>13
        <4>2. CASE k # d
          <5>1. frames'[k] = frames[k]  BY <4>2, <1>11, <1>13
          <5> QED  BY <3>1, <4>0, <4>1, <5>1
        <4>3. CASE k = d
          <5>1. frames'[k] = g /\ frames[k] = up  BY <4>3, <1>13 DEF up, d
          <5>2. LoopOK(avps', up, DataStart(avps', up.at))  BY <4>0, <5>1 DEF OpenOK
          <5>3. LoopOK(avps', g, DataStart(avps', g.at))  BY <5>2, <1>10, <1>12
          <5>4. g.pos = at + Consumed(h) /\ g.at = up.at /\ g.end = up.end  BY <1>12
          <5> QED  BY <3>1, <4>0, <4>1, <5>1, <5>3, <5>4 DEF OpenOK
        <4> QED  BY <4>2, <4>3
      <3> QED  BY <3>1, <3>2, <1>7, <1>13 DEF FramesInv
    <2> QED  BY <2>1, <2>2, <1>11
  <1>18. \A a : IsOpen(a) => IsOpen(a)' \/ a = at
    <2> SUFFICES ASSUME NEW a, IsOpen(a), a # at PROVE IsOpen(a)'
      OBVIOUS
    <2>1. PICK k \in 2 .. Depth : frames[k].at = a  BY DEF IsOpen
    <2>2. k # Depth  BY <2>1 DEF Top, at
    <2>3. k \in 2 .. d /\ k \in 1 .. d  BY <2>2, <1>1 DEF d
    <2>4. frames'[k].at = a  BY <2>1, <2>3, <1>15
    <2>5. IsOpen(a)' <=> \E j \in 2 .. d : frames'[j].at = a  BY <1>13 DEF IsOpen
    <2> QED  BY <2>3, <2>4, <2>5
  <1>19. \A a : IsOpen(a)' => IsOpen(a)
    <2> SUFFICES ASSUME NEW a, IsOpen(a)' PROVE IsOpen(a)
      OBVIOUS
    <2>1. IsOpen(a)' <=> \E j \in 2 .. d : frames'[j].at = a  BY <1>13 DEF IsOpen
    <2>2. PICK j \in 2 .. d : frames'[j].at = a  BY <2>1
    <2>3. j \in 2 .. Depth /\ frames[j].at = a  BY <2>2, <1>1, <1>11, <1>15 DEF d
    <2> QED  BY <2>3 DEF IsOpen
  <1>20. GroupOK(avps', at)
    <2>1. LoopOK(avps', Top, DataStart(avps', at))
      <3>1. OpenOK(avps', Top, up, frames[1], Depth)  BY <1>1, <1>7 DEF Top, up
      <3> QED  BY <3>1 DEF OpenOK, at
    <2>2. Fill(avps', Top.kids, DataStart(avps', at), Top.end)
      BY <1>5, <1>6, <2>1, LoopFills
    <2>3. Top.end = EndOf(avps', at)  BY <1>3, <1>6 DEF EndOf
    <2>4. Tile(avps', Top.kids, DataStart(avps', at), Top.end)
          /\ \A i \in DOMAIN Top.kids : Top.kids[i] \in DOMAIN avps'
      BY <2>1 DEF LoopOK
    <2> QED  BY <2>2, <2>3, <2>4, <1>6 DEF GroupOK
  <1>21. ASSUME NEW a \in DOMAIN avps'
         PROVE  /\ a < g.pos
                /\ ~IsOpen(a)' => EndOf(avps', a) <= g.pos /\ GroupOK(avps', a)
                /\ a < frames'[1].pos => ~IsOpen(a)' /\ EndOf(avps', a) <= frames'[1].pos
    <2>1. /\ a \in DOMAIN avps /\ a < Top.pos /\ (~IsOpen(a) => EndOf(avps, a) <= Top.pos /\ GroupOK(avps, a))
          /\ a < frames[1].pos => ~IsOpen(a) /\ EndOf(avps, a) <= frames[1].pos
      BY <1>6 DEF Inv, ObjectsInv
    <2>2. EndOf(avps', a) = EndOf(avps, a) /\ EndOf(avps, a) \in Nat /\ a \in Nat
      <3>1. a \in Nat /\ avps[a].head \in Heads  BY <2>1 DEF Inv, ObjectsOK, AvpObjects
      <3> QED  BY <2>1, <3>1, <1>6, HeaderLens DEF EndOf
    <2>3. EndOf(avps', at) <= g.pos  BY <1>3, <1>6, <1>14 DEF EndOf
    <2>4. ~IsOpen(a) => EndOf(avps', a) <= g.pos  BY <2>1, <2>2, <1>1, <1>14
    <2>5. ~IsOpen(a)' => EndOf(avps', a) <= g.pos  BY <2>3, <2>4, <1>18
    <2>6. ~IsOpen(a)' => GroupOK(avps', a)
      <3>1. CASE a = at  BY <3>1, <1>20
      <3>2. CASE a # at
        <4>1. avps'[a] = avps[a]  BY <3>2, <2>1, <1>6
        <4>2. GroupOK(avps, a) => GroupOK(avps', a)  BY <4>1, <2>1, <1>4, <1>6, GroupKept
        <4> QED  BY <3>2, <4>2, <2>1, <1>18
      <3> QED  BY <3>1, <3>2
    <2>7. a < g.pos  BY <2>1, <2>2, <1>1, <1>14
    <2>8. CASE d = 1
      <3>1. frames'[1] = g /\ ~IsOpen(a)'  BY <2>8, <1>13 DEF IsOpen
      <3> QED  BY <3>1, <2>5, <2>6, <2>7
    <2>9. CASE d # 1
      <3>1. frames'[1] = frames[1]  BY <2>9, <1>11, <1>13
      <3> QED  BY <3>1, <2>1, <2>2, <2>5, <2>6, <2>7, <1>19
    <2> QED  BY <2>8, <2>9
  <1>22. ObjectsInv'
    BY <1>13, <1>21 DEF ObjectsInv
  <1>23. ProgressInv'
    BY <1>5, <1>15 DEF Inv, ProgressInv
  <1> QED  BY <1>6, <1>16, <1>17, <1>22, <1>23 DEF Inv
\* Every turn of a loop keeps the invariant.
LEMMA LoopStep ==
    ASSUME Inv, NoHeader \/ DecodeAvp
    PROVE  Inv'
  <1>1. /\ Top.pos \in Nat /\ Top.end \in Nat /\ frames[1].end \in Nat /\ Top.end <= frames[1].end
        /\ InLoop
    BY TopFacts DEF NoHeader, DecodeAvp
  <1>2. frames[1].end <= len /\ len \in Nat /\ reach \in Nat /\ reach <= len
    BY <1>1 DEF Inv, ProgressInv, TypeOK, InLoop
  <1>3. CASE NoHeader
    <2>1. Unwind /\ reach' = reach /\ len' = len  BY <1>3 DEF NoHeader, Unwind
    <2> QED  BY <1>1, <1>2, <2>1, UnwindStep
  <1>4. CASE DecodeAvp
    <2> PICK h \in Heads : NoVendor(h) \/ BadLength(h) \/ BadData(h) \/ DecodeValue(h) \/ OpenGrouped(h)
      BY <1>4 DEF DecodeAvp
    <2>0. HeaderLen(h) \in Nat /\ 8 <= HeaderLen(h)  BY HeaderLens
    <2>1. Top.pos + 8 <= Top.end  BY <1>1, <1>4 DEF DecodeAvp, Room
    <2>2. VendorFits(h) => Top.pos + HeaderLen(h) <= Top.end  BY <1>1, <2>0 DEF VendorFits, Room
    <2>3. CASE NoVendor(h)
      <3>1. Unwind /\ reach' = Top.pos + 8 /\ len' = len  BY <2>3 DEF NoVendor, Unwind
      <3>2. reach' \in Nat /\ reach' <= len'  BY <3>1, <1>1, <1>2, <2>1
      <3> QED  BY <1>1, <3>1, <3>2, UnwindStep
    <2>4. CASE BadLength(h) \/ BadData(h)
      <3>1. VendorFits(h) /\ Unwind /\ reach' = Top.pos + HeaderLen(h) /\ len' = len
        BY <2>4 DEF BadLength, BadData, Accepted, Unwind
      <3>2. reach' \in Nat /\ reach' <= len'  BY <3>1, <1>1, <1>2, <2>0, <2>2
      <3> QED  BY <1>1, <3>1, <3>2, UnwindStep
    <2>5. CASE DecodeValue(h)  BY <1>1, <2>5, ValueStep
    <2>6. CASE OpenGrouped(h)  BY <1>1, <2>6, OpenStep
    <2> QED  BY <2>3, <2>4, <2>5, <2>6
  <1> QED  BY <1>3, <1>4

\* The invariant is inductive.
LEMMA Inductive == Inv /\ [Next]_vars => Inv'
  <1> SUFFICES ASSUME Inv, [Next]_vars PROVE Inv'
    OBVIOUS
  <1>1. CASE Decode  BY <1>1, DecodeStep
  <1>2. CASE NoHeader \/ DecodeAvp  BY <1>2, LoopStep
  <1>3. CASE CloseGrouped  BY <1>3, CloseStep
  <1>4. CASE Finish  BY <1>4, FinishStep
  <1>5. CASE UNCHANGED vars
    BY <1>5 DEF vars, Inv, TypeOK, FramesInv, ObjectsInv, ProgressInv, Depth, Top, IsOpen
  <1> QED  BY <1>1, <1>2, <1>3, <1>4, <1>5 DEF Next, Step

\* The invariant holds for every dictionary and every series of buffers.
THEOREM Invariance == Spec => []Inv
  BY Initialized, Inductive, PTL DEF Spec

----------------------------------------------------------------------------
(* Safety                                                                    *)

\* Type correctness.
THEOREM TypeCorrect == Spec => []TypeOK
  <1>1. Inv => TypeOK  BY DEF Inv
  <1> QED  BY <1>1, Invariance, PTL

\* decode never reads past the buffer it is given.
THEOREM ReadsStayInBounds == Spec => []ReadsInBounds
  <1>1. Inv => ReadsInBounds  BY DEF Inv, ProgressInv, ReadsInBounds
  <1> QED  BY <1>1, Invariance, PTL

\* Grouped AVPs nest, and no loop leaves its AVP's padding.
THEOREM FramesAlwaysNest == Spec => []FramesNest
  <1>1. ASSUME Inv PROVE FramesNest
    <2>0. Depth \in Nat /\ \A k \in 1 .. Depth : frames[k] \in Frames  BY <1>1, TopFacts
    <2>1. ASSUME NEW k \in 1 .. (Depth - 1)
          PROVE  /\ frames[k + 1].at = frames[k].pos
                 /\ frames[k + 1].end <= frames[k].end
                 /\ frames[k].pos < frames[k].end
      <3>1. k + 1 \in 2 .. Depth /\ (k + 1) - 1 = k  BY <2>0
      <3>2. OpenOK(avps, frames[k + 1], frames[(k + 1) - 1], frames[1], k + 1)
        BY <1>1, <3>1 DEF Inv, FramesInv
      <3> QED  BY <3>1, <3>2 DEF OpenOK
    <2>2. ASSUME NEW k \in 2 .. Depth
          PROVE  frames[k].pos % 4 = 0 /\ frames[k].pos <= frames[k].end + 3
      <3> DEFINE f == frames[k]
                 h == avps[f.at].head
      <3>1. OpenOK(avps, f, frames[k - 1], frames[1], k)  BY <1>1 DEF Inv, FramesInv
      <3>2. f \in Frames /\ f.pos \in Nat /\ f.end \in Nat /\ f.at \in Nat
        BY <2>0 DEF Frames
      <3>3. LoopOK(avps, f, DataStart(avps, f.at)) /\ f.end = f.at + h.length /\ f.at \in DOMAIN avps
        BY <3>1 DEF OpenOK, EndOf
      <3>4. h \in Heads /\ HeaderLen(h) <= h.length
        BY <1>1, <3>3 DEF Inv, ObjectsOK, AvpObjects
      <3>5. HeaderLen(h) \in Nat /\ h.length \in Nat  BY <3>4, HeaderLens
      <3>6. DataStart(avps, f.at) <= f.end /\ DataStart(avps, f.at) \in Nat
        BY <3>2, <3>3, <3>4, <3>5 DEF DataStart
      <3>7. f.pos % 4 = 0 /\ (f.pos <= f.end + 3 \/ f.pos = DataStart(avps, f.at))
        BY <3>3 DEF LoopOK
      <3> HIDE DEF f
      <3>8. f.pos <= f.end + 3  BY <3>2, <3>6, <3>7
      <3> QED  BY <3>7, <3>8 DEF f
    <2> QED  BY <2>1, <2>2 DEF FramesNest
  <1> QED  BY <1>1, Invariance, PTL

\* The recursion is bounded by the size of the message.
THEOREM DepthAlwaysBounded == Spec => []DepthBounded
  <1>1. ASSUME Inv PROVE DepthBounded
    <2> SUFFICES ASSUME outcome = "decoding", Depth # 1
                 PROVE  MessageHeaderLen + 8 * (Depth - 1) <= len
      BY DEF DepthBounded
    <2>1. /\ Depth \in Nat /\ 2 <= Depth /\ frames[1].end <= len /\ len \in Nat
          /\ frames[1].end \in Nat
      BY <1>1, TopFacts DEF Inv, ProgressInv, TypeOK
    <2>2. OpenOK(avps, Top, frames[Depth - 1], frames[1], Depth)
      BY <1>1, <2>1 DEF Inv, FramesInv, Top
    <2>3. /\ Top.at \in DOMAIN avps /\ Top.end = EndOf(avps, Top.at) /\ Top.end <= frames[1].end
          /\ 20 + 8 * (Depth - 2) <= Top.at
      BY <2>2 DEF OpenOK, MessageHeaderLen
    <2>4. avps[Top.at].head \in Heads /\ HeaderLen(avps[Top.at].head) <= avps[Top.at].head.length
      BY <1>1, <2>3 DEF Inv, ObjectsOK, AvpObjects
    <2>5. avps[Top.at].head.length \in Nat /\ 8 <= avps[Top.at].head.length  BY <2>4, HeaderLens
    <2>6. Top.at \in Nat /\ Top.end \in Nat /\ Top.end = Top.at + avps[Top.at].head.length
      BY <1>1, <2>3, TopFacts DEF EndOf
    <2>7. Top.at + 8 <= len  BY <2>1, <2>3, <2>5, <2>6
    <2> QED  BY <2>1, <2>3, <2>6, <2>7 DEF MessageHeaderLen
  <1> QED  BY <1>1, Invariance, PTL

\* A decoded Grouped AVP has exactly the AVPs its data consist of.
THEOREM GroupsAlwaysTile == Spec => []GroupsTile
  <1>1. Inv => GroupsTile
    BY DEF Inv, ObjectsInv, GroupOK, DataStart, GroupsTile
  <1> QED  BY <1>1, Invariance, PTL

\* The AVPs of a Message are a prefix of one message's, and all of the latest
\* message's when a decode has succeeded.
THEOREM MessagesAlwaysTile == Spec => []MessageTiles
  <1>1. Inv => MessageTiles
    BY DEF Inv, FramesInv, LoopOK, ProgressInv, MessageTiles
  <1> QED  BY <1>1, Invariance, PTL
----------------------------------------------------------------------------
(* The abstract decoder                                                      *)

\* The word MessageBody chooses is the one the code computes.
LEMMA WordFromIs ==
    ASSUME NEW x \in Nat, NEW w \in Nat, x <= w, w <= x + 3, w % 4 = 0
    PROVE  w = Outside!WordFrom(x)
  <1>1. w \in x .. (x + 3)  OBVIOUS
  <1>2. \A v \in x .. (x + 3) : v % 4 = 0 => v = w  OBVIOUS
  <1> QED  BY <1>1, <1>2 DEF Outside!WordFrom

\* The AVPs of the message are objects before the message loop's position.
LEMMA TopKids ==
    ASSUME Inv
    PROVE  /\ frames[1].kids \in Seq(Nat) /\ frames[1].pos \in Nat
           /\ \A i \in DOMAIN frames[1].kids : frames[1].kids[i] \in DOMAIN avps
           /\ \A i \in DOMAIN frames[1].kids : frames[1].kids[i] < frames[1].pos
  <1>1. LoopOK(avps, frames[1], MessageHeaderLen)  BY DEF Inv, FramesInv
  <1>2. /\ frames[1].kids \in Seq(Nat) /\ frames[1].pos \in Nat
        /\ \A i \in DOMAIN frames[1].kids : /\ frames[1].kids[i] \in DOMAIN avps
                                            /\ EndOf(avps, frames[1].kids[i]) <= frames[1].pos
    BY <1>1 DEF LoopOK, Frames
  <1>3. ASSUME NEW a \in DOMAIN avps, EndOf(avps, a) <= frames[1].pos PROVE a < frames[1].pos
    <2>1. a \in Nat /\ avps[a].head \in Heads /\ HeaderLen(avps[a].head) <= avps[a].head.length
      BY DEF Inv, ObjectsOK, AvpObjects
    <2>2. avps[a].head.length \in Nat /\ 8 <= avps[a].head.length  BY <2>1, HeaderLens
    <2> QED  BY <1>2, <1>3, <2>1, <2>2 DEF EndOf
  <1> QED  BY <1>2, <1>3

\* As long as the message loop and the heads it has taken stay, nothing is seen.
LEMMA NothingSeen ==
    ASSUME Inv, frames'[1] = frames[1],
           \A a \in DOMAIN avps : a < frames[1].pos => avps'[a].head = avps[a].head
    PROVE  TopExtents' = TopExtents
  BY TopKids DEF TopExtents

\* When the message loop takes an AVP, that AVP is seen.
LEMMA AvpSeen ==
    ASSUME Inv, NEW h \in Heads, HeaderLen(h) <= h.length,
           frames[1].pos + h.length <= frames[1].end,
           frames'[1] = Taken(frames[1], h),
           frames[1].pos \in DOMAIN avps', avps'[frames[1].pos].head = h,
           \A a \in DOMAIN avps : avps'[a].head = avps[a].head,
           outcome = "decoding", outcome' = "decoding"
    PROVE  Outside!TakeAvp
  <1> DEFINE f == frames[1]
             p == f.pos
             e == [at |-> p, length |-> h.length]
  <1>1. /\ f.kids \in Seq(Nat) /\ p \in Nat
        /\ \A i \in DOMAIN f.kids : f.kids[i] \in DOMAIN avps
    BY TopKids
  <1>2. f \in [at : Nat, pos : Nat, end : Nat, kids : Seq(Nat)] /\ p % 4 = 0
    BY DEF Inv, FramesInv, LoopOK, Frames
  <1>3. /\ frames'[1].kids = Append(f.kids, p) /\ frames'[1].end = f.end
        /\ frames'[1].pos = p + Consumed(h)
    BY <1>2 DEF Taken
  <1>4. h.length \in Nat /\ 8 <= h.length /\ h.length \in 8 .. (f.end - p)
    <2>1. h.length \in Nat /\ 8 <= h.length  BY HeaderLens
    <2>2. f.end \in Nat /\ p \in Nat /\ p + h.length <= f.end  BY <1>1, <1>2
    <2> HIDE DEF f, p
    <2> QED  BY <2>1, <2>2
  <1>5. frames'[1].pos = Outside!WordFrom(p + h.length)
    <2>1. /\ Consumed(h) \in Nat /\ Consumed(h) % 4 = 0 /\ h.length <= Consumed(h)
          /\ Consumed(h) <= h.length + 3
      BY ConsumedWords
    <2> DEFINE c == Consumed(h)
               w == p + c
    <2> HIDE DEF p, c
    <2>2. p \in Nat /\ p % 4 = 0  BY <1>1, <1>2 DEF p
    <2>3. w \in Nat /\ w % 4 = 0 /\ p + h.length <= w /\ w <= (p + h.length) + 3 /\ p + h.length \in Nat
      BY <2>1, <2>2, <1>4, WordSum DEF c
    <2> HIDE DEF w
    <2>4. w = Outside!WordFrom(p + h.length)  BY <2>3, WordFromIs
    <2> QED  BY <2>4, <1>3 DEF w, c, p
  <1>6. TopExtents' = Append(TopExtents, e)
    <2> DEFINE x == TopExtents
               y == TopExtents'
               n == Len(f.kids)
    <2>1. x = [i \in 1 .. n |-> [at |-> f.kids[i], length |-> avps[f.kids[i]].head.length]]
      BY <1>1 DEF TopExtents
    <2>2. /\ DOMAIN Append(f.kids, p) = 1 .. (n + 1) /\ Append(f.kids, p)[n + 1] = p
          /\ \A i \in 1 .. n : Append(f.kids, p)[i] = f.kids[i]
          /\ n \in Nat
      BY <1>1
    <2>3. y = [i \in 1 .. (n + 1) |-> [at |-> Append(f.kids, p)[i],
                                      length |-> avps'[Append(f.kids, p)[i]].head.length]]
      BY <1>3, <2>2 DEF TopExtents
    <2>4. ASSUME NEW i \in 1 .. n PROVE y[i] = x[i]
      <3>1. i \in 1 .. (n + 1) /\ i \in DOMAIN f.kids  BY <1>1, <2>2
      <3>2. avps'[f.kids[i]].head = avps[f.kids[i]].head  BY <3>1, <1>1
      <3> QED  BY <2>1, <2>2, <2>3, <3>1, <3>2
    <2>5. y[n + 1] = e
      <3>1. n + 1 \in 1 .. (n + 1)  BY <2>2
      <3>2. avps'[Append(f.kids, p)[n + 1]].head.length = h.length  BY <2>2
      <3>3. y[n + 1] = [at |-> Append(f.kids, p)[n + 1],
                        length |-> avps'[Append(f.kids, p)[n + 1]].head.length]
        BY <2>3, <3>1
      <3> QED  BY <2>2, <3>2, <3>3
    <2>6. Len(x) = n /\ DOMAIN x = 1 .. n /\ DOMAIN y = 1 .. (n + 1)
      BY <2>1, <2>2, <2>3
    <2> DEFINE S == {x[i] : i \in 1 .. n} \cup {e}
    <2>7. x \in Seq(S) /\ e \in S
      <3>1. e \in S  OBVIOUS
      <3>2. \A i \in 1 .. n : x[i] \in S  OBVIOUS
      <3>3. x = [i \in 1 .. n |-> x[i]]  BY <2>1
      <3> HIDE DEF x, S, e
      <3>4. x \in [1 .. n -> S]  BY <3>2, <3>3
      <3> QED  BY <3>1, <3>4, <2>2, SeqDef
    <2>8. y \in Seq(S) /\ Len(y) = n + 1
      <3>1. ASSUME NEW i \in 1 .. (n + 1) PROVE y[i] \in S
        <4>1. i \in 1 .. n \/ i = n + 1  BY <2>2
        <4>2. CASE i \in 1 .. n
          <5>1. y[i] = x[i] /\ x[i] \in S  BY <4>2, <2>4
          <5> QED  BY <5>1
        <4>3. CASE i = n + 1
          <5>1. y[i] = e  BY <4>3, <2>5
          <5> QED  BY <5>1
        <4> QED  BY <4>1, <4>2, <4>3
      <3>2. y = [i \in 1 .. (n + 1) |-> y[i]]  BY <2>3
      <3> HIDE DEF y, S
      <3>3. y \in [1 .. (n + 1) -> S]  BY <3>1, <3>2
      <3> QED  BY <3>3, <2>2, <2>6, SeqDef
    <2> HIDE DEF x, y, n, e, S
    <2>9. /\ Append(x, e) \in Seq(S) /\ Len(Append(x, e)) = n + 1
          /\ Append(x, e)[n + 1] = e
          /\ \A i \in 1 .. n : Append(x, e)[i] = x[i]
      BY <2>6, <2>7, AppendProperties
    <2>10. y = Append(x, e)
      <3>1. \A i \in 1 .. (n + 1) : y[i] = Append(x, e)[i]  BY <2>2, <2>4, <2>5, <2>9
      <3> QED  BY <3>1, <2>8, <2>9, SeqEqual
    <2> QED  BY <2>10 DEF x, y
  <1> QED  BY <1>3, <1>4, <1>5, <1>6 DEF Outside!TakeAvp
\* Every step is a step of the abstract decoder, or none.
LEMMA StepSimulation == Inv /\ [Next]_vars => [Outside!Next]_(Outside!vars)
  <1> SUFFICES ASSUME Inv, [Next]_vars PROVE [Outside!Next]_(Outside!vars)
    OBVIOUS
  <1> USE DEF Outside!Next
  <1>0. /\ Depth \in Nat /\ 1 <= Depth /\ frames \in Seq(Frames)
        /\ \A k \in 1 .. Depth : frames[k] \in Frames
    BY TopFacts DEF Inv, TypeOK
  <1>1. ASSUME UNCHANGED <<frames, avps, outcome>> PROVE UNCHANGED Outside!vars
    BY <1>1 DEF TopExtents, Outside!vars
  <1>2. ASSUME frames'[1] = frames[1],
               \A a \in DOMAIN avps : a < frames[1].pos => avps'[a].head = avps[a].head
        PROVE  TopExtents' = TopExtents /\ frames'[1].end = frames[1].end /\ frames'[1].pos = frames[1].pos
    BY <1>2, NothingSeen
  <1>3. CASE Decode
    <2> PICK n \in BufferLens, m \in MessageLens :
          /\ outcome # "decoding"
          /\ DecodeShort(n) \/ DecodeUncovered(n, m) \/ DecodeBody(n, m)
      BY <1>3 DEF Decode
    <2>1. CASE DecodeShort(n) \/ DecodeUncovered(n, m)
      <3>1. UNCHANGED <<frames, avps>> /\ outcome' = "failed"
        BY <2>1 DEF DecodeShort, DecodeUncovered
      <3>2. TopExtents' = TopExtents  BY <3>1 DEF TopExtents
      <3> QED  BY <3>1, <3>2 DEF Outside!Reject
    <2>2. CASE DecodeBody(n, m)
      <3>1. /\ frames' = <<Loop(0, MessageHeaderLen, m)>> /\ outcome' = "decoding"
        BY <2>2 DEF DecodeBody
      <3>2. frames'[1].pos = MessageHeaderLen /\ frames'[1].end = m /\ frames'[1].kids = <<>>
        BY <3>1 DEF Loop
      <3>3. TopExtents' = <<>>  BY <3>2 DEF TopExtents
      <3> QED  BY <3>1, <3>2, <3>3 DEF Outside!Begin
    <2> QED  BY <2>1, <2>2
  <1>4. ASSUME InLoop, Unwind PROVE Outside!Fail
    <2>1. frames'[1] = frames[1]
      <3>1. frames' = SubSeq(frames, 1, 1)  BY <1>4 DEF Unwind
      <3> QED  BY <3>1, <1>0, SubSeqProperties
    <2>2. \A a \in DOMAIN avps : a < frames[1].pos => avps'[a].head = avps[a].head
      BY <1>4 DEF Unwind
    <2>3. frames[1].pos < frames[1].end
      <3>1. CASE Depth = 1
        <4>1. Top = frames[1]  BY <3>1 DEF Top
        <4> QED  BY <4>1, <1>4 DEF InLoop, MoreIn
      <3>2. CASE Depth # 1
        <4>1. 2 \in 2 .. Depth /\ 2 - 1 = 1  BY <3>2, <1>0
        <4>2. OpenOK(avps, frames[2], frames[2 - 1], frames[1], 2)  BY <4>1 DEF Inv, FramesInv
        <4> QED  BY <4>1, <4>2 DEF OpenOK
      <3> QED  BY <3>1, <3>2
    <2> QED  BY <1>2, <1>4, <2>1, <2>2, <2>3 DEF Outside!Fail, InLoop, Unwind
  <1>5. CASE NoHeader  BY <1>4, <1>5 DEF NoHeader
  <1>6. CASE DecodeAvp
    <2> PICK h \in Heads : NoVendor(h) \/ BadLength(h) \/ BadData(h) \/ DecodeValue(h) \/ OpenGrouped(h)
      BY <1>6 DEF DecodeAvp
    <2>0. InLoop  BY <1>6 DEF DecodeAvp
    <2>1. CASE NoVendor(h) \/ BadLength(h) \/ BadData(h)
      <3>1. Unwind  BY <2>1 DEF NoVendor, BadLength, BadData
      <3> QED  BY <3>1, <2>0, <1>4
    <2>2. CASE DecodeValue(h)
      <3>1. Accepted(h) /\ avps' = AddAvp(h) /\ outcome' = outcome
            /\ frames' = [frames EXCEPT ![Depth] = Taken(Top, h)]
        BY <2>2 DEF DecodeValue, Top
      <3>2. /\ HeaderLen(h) <= h.length /\ Top.pos + h.length <= Top.end
            /\ Top.pos \in DOMAIN avps' /\ avps'[Top.pos].head = h
            /\ \A a \in DOMAIN avps : avps'[a].head = avps[a].head
        BY <2>0, <3>1, Added
      <3>3. CASE Depth = 1
        <4>1. frames'[1] = Taken(frames[1], h) /\ Top = frames[1]  BY <3>1, <3>3, <1>0 DEF Top, Depth
        <4> QED  BY <2>0, <3>1, <3>2, <4>1, AvpSeen DEF InLoop
      <3>4. CASE Depth # 1
        <4>1. frames'[1] = frames[1]  BY <3>1, <3>4, <1>0 DEF Depth
        <4> QED  BY <1>2, <3>1, <3>2, <4>1 DEF Outside!vars
      <3> QED  BY <3>3, <3>4
    <2>3. CASE OpenGrouped(h)
      <3>1. Accepted(h) /\ avps' = AddAvp(h) /\ outcome' = outcome
        BY <2>3 DEF OpenGrouped
      <3>2. \A a \in DOMAIN avps : avps'[a].head = avps[a].head
        BY <2>0, <3>1, Added
      <3>3. frames'[1] = frames[1]
        <4> DEFINE g == Loop(Top.pos, Top.pos + HeaderLen(h), Top.pos + h.length)
        <4>1. frames' = Append(frames, g)  BY <2>3 DEF OpenGrouped
        <4> HIDE DEF g
        <4> QED  BY <4>1, <1>0 DEF Depth
      <3> QED  BY <1>2, <3>1, <3>2, <3>3 DEF Outside!vars
    <2> QED  BY <2>1, <2>2, <2>3
  <1>7. CASE CloseGrouped
    <2> DEFINE d == Depth - 1
               up == frames[d]
               h == avps[Top.at].head
               q == SubSeq(frames, 1, d)
    <2>1. d \in Nat /\ 1 <= d /\ Depth \in 2 .. Depth
      BY <1>0, <1>7 DEF CloseGrouped
    <2>2. /\ frames' = [q EXCEPT ![d] = Taken(q[d], h)]
          /\ avps' = [avps EXCEPT ![Top.at].kids = Top.kids]
          /\ outcome = "decoding" /\ outcome' = "decoding"
      BY <1>7 DEF CloseGrouped
    <2>3. q \in Seq(Frames) /\ Len(q) = d /\ \A i \in 1 .. d : q[i] = frames[i]
      <3>1. \A i \in 1 .. d : frames[i] \in Frames  BY <1>0, <2>1
      <3> QED  BY <3>1, <2>1, SubSeqProperties
    <2>4. OpenOK(avps, Top, up, frames[1], Depth)
      BY <2>1 DEF Inv, FramesInv, Top
    <2>5. /\ Top.at \in DOMAIN avps /\ Top.at = up.pos /\ Top.end <= up.end
          /\ Top.end = Top.at + h.length
      BY <2>4 DEF OpenOK, EndOf
    <2>6. h \in Heads /\ HeaderLen(h) <= h.length /\ avps[Top.at] \in AvpObjects
      BY <2>5 DEF Inv, ObjectsOK, AvpObjects
    <2>7. DOMAIN avps' = DOMAIN avps /\ \A a \in DOMAIN avps : avps'[a].head = avps[a].head
      <3>1. avps' = [avps EXCEPT ![Top.at] = [avps[Top.at] EXCEPT !.kids = Top.kids]]
        BY <2>2
      <3>2. [avps[Top.at] EXCEPT !.kids = Top.kids].head = avps[Top.at].head
        BY <2>6 DEF AvpObjects
      <3> QED  BY <2>5, <3>1, <3>2
    <2> HIDE DEF d, q
    <2>8. \A i \in 1 .. d : frames'[i] = IF i = d THEN Taken(up, h) ELSE frames[i]
      <3>0. q[d] = up  BY <2>1, <2>3
      <3>1. frames' = [q EXCEPT ![d] = Taken(up, h)]  BY <3>0, <2>2
      <3>2. DOMAIN q = 1 .. d  BY <2>1, <2>3
      <3> QED  BY <2>1, <2>3, <3>1, <3>2
    <2>9. CASE d = 1
      <3>1. up = frames[1] /\ frames'[1] = Taken(frames[1], h)  BY <2>1, <2>8, <2>9
      <3>2. /\ frames[1].pos \in DOMAIN avps' /\ avps'[frames[1].pos].head = h
            /\ frames[1].pos + h.length <= frames[1].end
        BY <2>5, <2>7, <3>1
      <3> QED  BY <2>2, <2>6, <2>7, <3>1, <3>2, AvpSeen
    <2>10. CASE d # 1
      <3>1. frames'[1] = frames[1]  BY <2>1, <2>8, <2>10
      <3> QED  BY <1>2, <2>2, <2>7, <3>1 DEF Outside!vars
    <2> QED  BY <2>9, <2>10
  <1>8. CASE Finish
    <2>1. Top = frames[1] /\ outcome = "decoding" /\ outcome' = "done" /\ UNCHANGED <<frames, avps>>
          /\ ~(frames[1].pos < frames[1].end)
      BY <1>8 DEF Finish, Top, MoreIn
    <2>2. frames[1].pos \in Nat /\ frames[1].end \in Nat  BY TopFacts
    <2>3. frames[1].pos >= frames[1].end  BY <2>1, <2>2
    <2>4. TopExtents' = TopExtents  BY <2>1 DEF TopExtents
    <2> QED  BY <2>1, <2>3, <2>4 DEF Outside!Finish
  <1>9. CASE UNCHANGED vars
    BY <1>1, <1>9 DEF vars
  <1> QED  BY <1>3, <1>5, <1>6, <1>7, <1>8, <1>9 DEF Next, Step

\* Initial states map to initial states.
LEMMA InitSimulation == Init => Outside!Init
  <1> SUFFICES ASSUME Init PROVE Outside!Init
    OBVIOUS
  <1>1. /\ frames[1].pos = MessageHeaderLen /\ frames[1].end = MessageHeaderLen
        /\ frames[1].kids = <<>>
    BY DEF Init, Loop
  <1>2. TopExtents = <<>>  BY <1>1 DEF TopExtents
  <1> QED  BY <1>1, <1>2 DEF Init, Outside!Init

\* The decoder implements the abstract one: what its caller sees is a body
\* taken apart AVP by AVP, to its end or to the first AVP that is refused.
THEOREM Implements == Spec => ImplementsMessageBody
  BY InitSimulation, StepSimulation, Invariance, PTL DEF Spec, ImplementsMessageBody, Outside!Spec
=============================================================================
