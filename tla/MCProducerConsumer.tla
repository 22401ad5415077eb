------------------------- MODULE MCProducerConsumer -------------------------
(***************************************************************************)
(* Instances of ProducerConsumer for TLC.                                  *)
(***************************************************************************)
EXTENDS ProducerConsumer, TLC

CONSTANTS p1, p2, c1, c2, node, app, a, b

(* The input queue of a node: injectCapsule passes the node's own CThread. *)
OneOwner == [t \in Producers \cup Consumers |-> node]

(* An application queue: the node pushes, the channel's thread pops. *)
TwoOwners == [t \in Producers \cup Consumers |-> IF t \in Producers THEN node ELSE app]

ThreadSymmetry == Permutations({p1, p2}) \cup Permutations({c1, c2})
ItemSymmetry == Permutations({a, b})
Symmetry == ThreadSymmetry \cup ItemSymmetry
=============================================================================
