------------------------------- MODULE MCRedisBus -------------------------------
(* Model checking of publishing over Redis between two processes. *)
EXTENDS RedisBus, TLC

MCSymmetry == Permutations(Caller) \cup Permutations(Service)
=============================================================================
