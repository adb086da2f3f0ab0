---------------------------- MODULE MCWorkerPool ----------------------------
(* Constants for TLC. *)
EXTENDS WorkerPool

CONSTANTS s1, s2, w1, w2, w3, t1, t2

TwoSubmitters == {s1, s2}
ThreeWorkers == {w1, w2, w3}
TwoTasks == {t1, t2}

=============================================================================
