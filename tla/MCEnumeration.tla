--------------------------- MODULE MCEnumeration ---------------------------
(* The literals of MCMultiRange, given to an expression of its own and to    *)
(* those of AVPs of three formats; labels for two numbers, one of them in    *)
(* two spellings and the other in a text atoi reads as 0.                    *)
EXTENDS Enumeration, MCMultiRange

MCTexts == {"1", "01", "none"}
MCNumberIn == [text \in MCTexts |-> IF text = "none" THEN 0 ELSE 1]
MCOwners == {"none", "Enumerated", "OctetString", "Grouped"}
=============================================================================
