------------------------------ MODULE MCNxSem -------------------------------
(* Small instances of NxSem for TLC.                                       *)
EXTENDS NxSem

CONSTANTS t1, t2, t3

EqualPrios == [t \in Threads |-> 1]

TwoPrios == [t \in Threads |-> IF t = t1 THEN 2 ELSE 1]

FastUse == [fast |-> TRUE, uninterruptible |-> FALSE, syscall |-> TRUE,
            maxvalue |-> 4]

(* A stop signal is handled at once.                                       *)
DirectUse == [FastUse EXCEPT !.syscall = FALSE]

(* A semaphore with a priority protocol and a maximum value.               *)
SlowUse == [fast |-> FALSE, uninterruptible |-> TRUE, syscall |-> FALSE,
            maxvalue |-> 1]

OnlyFast == {FastUse}

OnlyDirect == {DirectUse}

OnlyCapped == {[FastUse EXCEPT !.maxvalue = 1]}

FastAndSlow == {FastUse, SlowUse}

(* t2 and t3 are interchangeable under both.                               *)
Symmetry == Permutations({t2, t3})
=============================================================================
