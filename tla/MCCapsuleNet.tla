---------------------------- MODULE MCCapsuleNet ----------------------------
(***************************************************************************)
(* Instances of CapsuleNet for TLC.  An interface is named after its node  *)
(* and the line it belongs to, and so is its address.                      *)
(***************************************************************************)
EXTENDS CapsuleNet

(* Two nodes and one link: an interface on each side. *)
OneLink == {"a1", "b1"}
OneLinkNodes == {"a", "b"}
OneLinkOf == [i \in OneLink |-> IF i = "a1" THEN "a" ELSE "b"]
OneLinkRemote == [i \in OneLink |-> IF i = "a1" THEN "b1" ELSE "a1"]
OneLinkAddr == [i \in OneLink |-> i]

(* Somebody has a terminal of one of them. *)
OneTerminal == {"a"}

(* The address of one node, one of nobody, and the one an interface gives without a peer. *)
AllKinds == {"b1", "nobody", "default"}

OnlyReset == {"reset"}
=============================================================================
