-------------------------- MODULE MCServiceCache --------------------------
(***************************************************************************)
(* The service cache on small instances: two servers of two groups, each   *)
(* with a queue of its own.                                                *)
(***************************************************************************)
EXTENDS ServiceCache, TLC

CONSTANTS v1, v2, q1, q2, g1, g2, c1, s1, s2

QueueOfDef == (v1 :> q1 @@ v2 :> q2)
GrpOfDef == (v1 :> g1 @@ v2 :> g2)
=============================================================================
