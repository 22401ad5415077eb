----------------------------- MODULE MCNodePorts -----------------------------
(***************************************************************************)
(* Instances of NodePorts for TLC.  With EphLimit = 4 both ports are       *)
(* ephemeral; with EphLimit = 3 the second stands for 65535, which         *)
(* getEphemeralPort never gives out but which can be registered.           *)
(***************************************************************************)
EXTENDS NodePorts, TLC

CONSTANTS ch1, ch2

TwoPorts == 2..3

Symmetry == Permutations({ch1, ch2})
=============================================================================
