------------------------------ MODULE MCLifecycle ------------------------------
(* Model checking of the life of a manager. *)
EXTENDS Lifecycle, TLC

(* A panic of start ends what the owner does.  What the others do after it *)
(* is what they do while the manager is idle and its owner does nothing.   *)
OwnerLives == main # "panicked"

MCSymmetry == Permutations(Handler) \cup Permutations(Call)
=============================================================================
