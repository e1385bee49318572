--------------------------- MODULE MCTypedBuffers ---------------------------
(* Sizes in units of 8 bytes, scaled down: headers of two units instead of *)
(* five, a smallest size of 4 instead of 64.                               *)
EXTENDS TypedBuffers

Defaults == [STRING |-> 4, CARRAY |-> 0, FML32 |-> 4]
=============================================================================
