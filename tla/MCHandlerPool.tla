----------------------------- MODULE MCHandlerPool -----------------------------
(* Model checking of the pool of replica ids of one handler. *)
EXTENDS HandlerPool, TLC
=============================================================================
