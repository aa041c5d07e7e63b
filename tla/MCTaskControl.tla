--------------------------- MODULE MCTaskControl ---------------------------
(* Small instances of TaskControl for TLC. *)
EXTENDS TaskControl

CONSTANTS p1, p2, r1, r2, w1, w2

TwoRows == {r1, r2}
OneProc == {p1}
TwoProcs == {p1, p2}
OneWorker == {w1}
TwoWorkers == {w1, w2}
=============================================================================
