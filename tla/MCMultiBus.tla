------------------------------ MODULE MCMultiBus ------------------------------
(* Model checking of the bus with its most general client. *)
EXTENDS MultiBus
=============================================================================
