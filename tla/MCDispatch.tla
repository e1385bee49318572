----------------------------- MODULE MCDispatch -----------------------------
(***************************************************************************)
(* Small instances of the dispatch loop.                                   *)
(***************************************************************************)
EXTENDS Dispatch, TLC

CONSTANTS v1, v2, t1, t2, c1, c2, s1, s2

\* Two threads of one server; two servers with a thread each (MSSQ).
OneServer == (t1 :> v1 @@ t2 :> v1)
TwoServers == (t1 :> v1 @@ t2 :> v2)
=============================================================================
