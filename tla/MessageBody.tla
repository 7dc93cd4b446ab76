---------------------------- MODULE MessageBody ----------------------------
(* What Message::decode promises whoever calls it, with the inside of the    *)
(* AVPs left out: it takes the body of a message apart from left to right    *)
(* into AVPs that each start on a word where the one before ends, and stops  *)
(* either at the end of the body or at an AVP it cannot accept, keeping the  *)
(* ones before it.  MessageDecode implements this.                           *)
EXTENDS Integers, Sequences

CONSTANTS Bodies,      \* the values a message length field may have
          Start        \* where the first AVP of a message starts

VARIABLES
    outcome,    \* "idle", "decoding", "done" or "failed"
    end,        \* the message length of the body taken apart
    pos,        \* where the next AVP starts
    extents     \* the AVPs so far: where each starts and its length field

vars == <<outcome, end, pos, extents>>

\* The first word boundary at or after an offset.
WordFrom(offset) == CHOOSE w \in offset .. (offset + 3) : w % 4 = 0

Init == /\ outcome = "idle"
        /\ end = Start
        /\ pos = Start
        /\ extents = <<>>

\* A new message: its AVPs replace the ones the object had.
Begin == /\ outcome # "decoding"
         /\ \E m \in Bodies : end' = m
         /\ outcome' = "decoding"
         /\ pos' = Start
         /\ extents' = <<>>

\* A buffer too short for the message it announces: the AVPs stay.
Reject == /\ outcome # "decoding"
          /\ outcome' = "failed"
          /\ UNCHANGED <<end, pos, extents>>

TakeAvp == /\ outcome = "decoding"
           /\ \E length \in 8 .. (end - pos) :
                /\ extents' = Append(extents, [at |-> pos, length |-> length])
                /\ pos' = WordFrom(pos + length)
           /\ UNCHANGED <<outcome, end>>

Fail == /\ outcome = "decoding"
        /\ pos < end
        /\ outcome' = "failed"
        /\ UNCHANGED <<end, pos, extents>>

Finish == /\ outcome = "decoding"
          /\ pos >= end
          /\ outcome' = "done"
          /\ UNCHANGED <<end, pos, extents>>

Next == Begin \/ Reject \/ TakeAvp \/ Fail \/ Finish

Spec == Init /\ [][Next]_vars
=============================================================================
