----------------------------- MODULE MCStopWait -----------------------------
(***************************************************************************)
(* Instances of StopWait for TLC.                                          *)
(***************************************************************************)
EXTENDS StopWait

(***************************************************************************)
(* ClientSession sends A, B, "hostname" and then the commands; it ignores  *)
(* the failure of the third request only.  The fourth is added so that two *)
(* requests in a row can be lost, which a caller of StopWaitTx may do.     *)
(***************************************************************************)
ThirdAndFourth == {3, 4}
=============================================================================
