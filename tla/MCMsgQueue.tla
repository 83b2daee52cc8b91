----------------------------- MODULE MCMsgQueue -----------------------------
(* Instances of MsgQueue: who calls what on the queue. *)
EXTENDS MsgQueue, TLC
CONSTANTS p1, p2, c1, c2, ctl

\* Producers and consumers of both kinds, and one thread that opens, closes
\* and in the end destroys the queue, as the gateway's atexit handlers do.
BlockingCalls ==
  p1 :> {"put_wait"} @@ p2 :> {"put", "put_wait"} @@ c1 :> {"get_wait"} @@
  c2 :> {"get", "get_wait"} @@ ctl :> {"close", "open", "destroy"}

\* Every call of queue.h but destroy.
AllCalls ==
  p1 :> {"put", "put_wait"} @@ p2 :> {"flush_put", "flush"} @@ c1 :> {"get_wait"} @@
  ctl :> {"open", "close"} @@ c2 :> {"get_filtered", "get"}
=============================================================================
