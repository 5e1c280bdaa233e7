---------------------------- MODULE MCWorkQueue -----------------------------
(* Small instances of WorkQueue for TLC.                                   *)
EXTENDS WorkQueue

Symmetry == Permutations(Works) \cup Permutations(Clients)
=============================================================================
