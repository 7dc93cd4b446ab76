-------------------------- MODULE MCMessageDecode --------------------------
(* Three AVP codes: 1 is Grouped, 2 a string, 3 an Unsigned32 without vendor *)
(* and an Address of vendor 7.  Lengths around the header sizes (8 and 12),  *)
(* on and off word boundaries, and too long for what is left.                *)
EXTENDS MessageDecode

MCTypeOf == [id \in {<<1, 0>>, <<3, 0>>, <<3, 7>>} |->
    CASE id = <<1, 0>> -> "Grouped"
      [] id = <<3, 0>> -> "Unsigned32"
      [] id = <<3, 7>> -> "Address"]
=============================================================================
