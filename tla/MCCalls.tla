------------------------------ MODULE MCCalls ------------------------------
(***************************************************************************)
(* The client's call machinery on small instances.  The descriptors are    *)
(* plain numbers with an order that any_buffered uses, so there is no      *)
(* symmetry to exploit; all bounds are set in the .cfg files.              *)
(***************************************************************************)
EXTENDS Calls
=============================================================================
