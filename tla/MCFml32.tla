------------------------------ MODULE MCFml32 ------------------------------
(* Two buffers with room for three units, three fields of two types: a     *)
(* long takes two units, a carray one more than its length.  The header is *)
(* made one unit instead of five, so that Fconcat32 can find enough space. *)
EXTENDS Fml32

CONSTANTS b1, b2

\* Field 1 is a long, the others are carrays.
Types == [f \in Fields |-> IF f = 1 THEN 2 ELSE 7]

\* Of field 2 nothing is left of the longer text, and of field 3 the text is no
\* longer understood after a second time.
Cut == [p \in {<<2, 1>>} |-> 0]
Stuck == {<<3, 2>>}
=============================================================================
