----------------------------- MODULE MCRequestGate -----------------------------
(* Model checking of the HTTP routes and their semaphores. *)
EXTENDS RequestGate, TLC

CONSTANTS r1, r2, r3

(* Two downloads that compete for a replica, and an upload, a request for  *)
(* a handler or one for a handler nobody registered.                       *)
MixedRequests ==
    r1 :> {"download"} @@ r2 :> {"download"} @@ r3 :> {"upload", "handler", "unknown"}

OneReplica ==
    [h \in {"handler", "upload", "download", "metadata"} |-> 1]
=============================================================================
