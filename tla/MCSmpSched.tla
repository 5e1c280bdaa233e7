---------------------------- MODULE MCSmpSched ------------------------------
(* Small instances of SmpSched for TLC.                                    *)
EXTENDS SmpSched

CONSTANTS t1, t2, t3

AllCpus == {CPUs}

BothOrFirst == {{0}, {0, 1}}

Symmetry == Permutations(Tasks \ (Reprio \cup Stoppable))
=============================================================================
