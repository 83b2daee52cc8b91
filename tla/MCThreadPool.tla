---------------------------- MODULE MCThreadPool ----------------------------
(* One instance of ThreadPool: which client calls what.  The jobs are alike,  *)
(* so they are submitted in one order.                                        *)
EXTENDS ThreadPool, TLC
CONSTANTS a, b, j1, j2, j3

LiveCalls == a :> {"add_work", "wait", "destroy"} @@ b :> {"add_work", "pause", "resume"}
InOrder == submitted' \in {{}, {j1}, {j1, j2}, {j1, j2, j3}}
=============================================================================
