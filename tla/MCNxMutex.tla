----------------------------- MODULE MCNxMutex ------------------------------
(* Small instances of NxMutex for TLC.                                     *)
EXTENDS NxMutex

Symmetry == Permutations(Threads)
=============================================================================
