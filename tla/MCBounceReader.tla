---------------------------- MODULE MCBounceReader ----------------------------
(* A bounded BounceReader for TLC. *)
EXTENDS BounceReader, TLC

\* Every row goes to the one address: a removal and a second row's report meet.
OneAddress == [r \in Rows |-> CHOOSE a \in Addresses : TRUE]
HardOrNot == {"hard", "other recipient"}
=============================================================================
