---------------------------- MODULE MCSendBudget ----------------------------
(* Small instances of SendBudget for TLC. *)
EXTENDS SendBudget

CONSTANTS p1, p2

OneProc == {p1}
TwoProcs == {p1, p2}
=============================================================================
