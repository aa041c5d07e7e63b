----------------------------- MODULE MCTracking -----------------------------
(* Small instances of Tracking for TLC. Recipients are alike, and replicas.  *)
EXTENDS Tracking, TLC

CONSTANTS k1, k2, r1, r2
TwoTracked == {k1, k2}
TwoReplicas == {r1, r2}
Alike == Permutations(TwoTracked) \cup Permutations(TwoReplicas)
ApplyOrPurge == {"apply", "purge"}
Opens == {"open"}
=============================================================================
