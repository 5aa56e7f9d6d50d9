------------------------------- MODULE MCPubSub -------------------------------
(* Model checking of publish and dispatch over the bus. *)
EXTENDS PubSub, TLC

(* What the bus is used by, between and for. *)
MCTask == Publisher \cup Dispatcher \cup Replica \cup {Supervisor}
MCAddress == {Topic} \cup ReplyAddresses
MCMessage == ({"request", "reply"} \X Publisher) \cup ({"dispatch"} \X Dispatcher)
MCMaxNotifiers == Cardinality(Publisher) + 1

CONSTANTS p1, p2, p3

(* Two calls of one handler, and one of another. *)
TwoSources == p1 :> "handler" @@ p2 :> "handler" @@ p3 :> "other"

(* All come from replicas of the same handler, whose get_src is its name. *)
SharedSource == [p \in Publisher |-> "handler"]

MCSymmetry == Permutations({p1, p2}) \cup Permutations(Replica)
=============================================================================
