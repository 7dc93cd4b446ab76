--------------------------- MODULE MCMultiRange ---------------------------
(* Single values, adjacent and overlapping ranges, one the wrong way round   *)
(* ("4-2"), a literal of several, one with a comma at its end ("5,") and the *)
(* empty one.                                                                *)
EXTENDS MultiRange

MCLiterals == {Empty, << <<1>> >>, << <<2, 3>> >>, << <<3, 5>> >>, << <<4, 2>> >>,
               << <<0>>, <<2>> >>, << <<5>>, <<>> >>}
=============================================================================
