---------------------------- MODULE MCMailQueue ----------------------------
(* Small instances of MailQueue for TLC. *)
EXTENDS MailQueue, TLC

CONSTANTS p1, p2, r1, r2, w1, w2

MCRetryDelay == [a \in 0..MaxAttempts |-> a + 1]
MCProcs1 == {p1}
MCProcs2 == {p1, p2}
MCWorkers1 == {w1}
MCWorkers2 == {w1, w2}
OneRow == {r1}
TwoRows == {r1, r2}
WorkerSymmetry == Permutations(Workers)
=============================================================================
