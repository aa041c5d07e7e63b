----------------------------- MODULE MCSendGates -----------------------------
(* Small instances of SendGates for TLC. *)
EXTENDS SendGates, TLC

EveryKind == KindsOfRow
\* consentBackoff: the older the row, the longer it is left.
LongerWithAge == [age \in 0..UndecidedAfter |-> IF age < 2 THEN 1 ELSE 2]
=============================================================================
