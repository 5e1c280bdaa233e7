----------------------------- MODULE Semaphore ------------------------------
(***************************************************************************)
(* What a counting semaphore promises: units are neither made nor lost.    *)
(* A unit is taken from the value by Acquire; a post gives one back, to    *)
(* the value (Release) or straight to a waiting thread (Grant); a wait     *)
(* that fails leaves the value alone.  A reset is not atomic: it hands     *)
(* units to waiting threads one by one and then replaces the value by      *)
(* those that remain.                                                      *)
(***************************************************************************)
EXTENDS Integers

CONSTANTS
    Threads,
    ResetCounts   \* the counts the semaphore may be reset to

VARIABLES
    value,   \* the units that are available
    st,      \* "idle", "waiting" for a unit, "has" one, "posting", "resetting"
    rest     \* the units a thread that resets the semaphore has still to give

semVars == <<value, st, rest>>

Init ==
    /\ value \in Nat
    /\ st = [t \in Threads |-> "idle"]
    /\ rest = [t \in Threads |-> 0]

Become(t, s) == st' = [st EXCEPT ![t] = s]

Request(t) == st[t] = "idle" /\ Become(t, "waiting") /\ UNCHANGED <<value, rest>>

Acquire(t) ==
    /\ st[t] = "waiting" /\ value > 0
    /\ Become(t, "has")
    /\ value' = value - 1
    /\ UNCHANGED rest

(* The wait fails: not available, interrupted, cancelled or timed out.     *)
Refuse(t) == st[t] = "waiting" /\ Become(t, "idle") /\ UNCHANGED <<value, rest>>

(* The thread goes on, with the unit used up or kept for a later release.  *)
GoOn(t) == st[t] = "has" /\ Become(t, "idle") /\ UNCHANGED <<value, rest>>

Post(t) ==
    /\ st[t] \in {"idle", "has"}
    /\ Become(t, "posting")
    /\ UNCHANGED <<value, rest>>

Release(t) ==
    /\ st[t] = "posting"
    /\ Become(t, "idle")
    /\ value' = value + 1
    /\ UNCHANGED rest

(* The unit goes to a waiting thread: only if no unit is available, as     *)
(* otherwise the thread would not be waiting.                              *)
Grant(t, w) ==
    /\ st[t] = "posting" /\ st[w] = "waiting" /\ value = 0
    /\ st' = [st EXCEPT ![t] = "idle", ![w] = "has"]
    /\ UNCHANGED <<value, rest>>

(* The post fails: the semaphore has its maximum value.                    *)
Overflow(t) == st[t] = "posting" /\ Become(t, "idle") /\ UNCHANGED <<value, rest>>

ResetBegin(t, n) ==
    /\ st[t] = "idle"
    /\ Become(t, "resetting")
    /\ rest' = [rest EXCEPT ![t] = n]
    /\ UNCHANGED value

ResetGrant(t, w) ==
    /\ st[t] = "resetting" /\ rest[t] > 0
    /\ st[w] = "waiting" /\ value = 0
    /\ Become(w, "has")
    /\ rest' = [rest EXCEPT ![t] = @ - 1]
    /\ UNCHANGED value

ResetEnd(t) ==
    /\ st[t] = "resetting"
    /\ Become(t, "idle")
    /\ value' = rest[t]
    /\ rest' = [rest EXCEPT ![t] = 0]

Next ==
    \E t \in Threads :
        \/ Request(t) \/ Acquire(t) \/ Refuse(t) \/ GoOn(t)
        \/ Post(t) \/ Release(t) \/ Overflow(t)
        \/ \E n \in ResetCounts : ResetBegin(t, n)
        \/ \E w \in Threads : Grant(t, w) \/ ResetGrant(t, w)
        \/ ResetEnd(t)

Spec == Init /\ [][Next]_semVars
=============================================================================
