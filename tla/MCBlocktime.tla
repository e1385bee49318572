---------------------------- MODULE MCBlocktime ----------------------------
(* Blocktime with a second of three units and block times below, at and     *)
(* above the interval between two attempts to send.                         *)
EXTENDS Blocktime

MCTimes == {0, 1}
=============================================================================
