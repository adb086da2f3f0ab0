---------------------------- MODULE MCJobRuntime ----------------------------
(* Constants for TLC. *)
EXTENDS JobRuntime

CONSTANTS w1, w2

TwoWorkers == {w1, w2}
OnlyFirst == {1}

=============================================================================
