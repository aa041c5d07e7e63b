--------------------------- MODULE MCSentContent ---------------------------
(* Small instances of SentContent for TLC. *)
EXTENDS SentContent, TLC

CONSTANTS p1, p2, s1, s2

\* s1 goes to the person and to another, and names the person; s2 to others.
PairAndOne == (1 :> s1) @@ (2 :> s1) @@ (3 :> s2)
OneSend == {s1}
LastSend == {s2}
TwoSends == {s1, s2}
OneSweeper == {p1}
=============================================================================
