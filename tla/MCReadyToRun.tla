---------------------------- MODULE MCReadyToRun ----------------------------
(* Small instances of ReadyToRun for TLC.                                  *)
EXTENDS ReadyToRun, TLC

CONSTANTS t1, t2, t3

Symmetry == Permutations(Tasks)
=============================================================================
