------------------------------- MODULE Mutex --------------------------------
(***************************************************************************)
(* What a mutex promises.  It has one owner at a time.  It changes hands   *)
(* when its owner releases it, to a waiting thread if there is one, and    *)
(* when a thread finds that the owner no longer exists.  A wait that is    *)
(* given up leaves the owner alone, and a thread that was given the mutex  *)
(* has it until it releases it or dies.                                    *)
(***************************************************************************)

CONSTANTS
    Threads,
    NoOwner,
    Robust    \* a thread that dies releases the mutex it owns

VARIABLES
    owner,   \* the thread that owns the mutex, or died with it, or NoOwner
    st       \* "idle", "trying" to lock, "waiting", "has" the mutex,
             \* "dying", or "gone"

mutexVars == <<owner, st>>

Init == owner = NoOwner /\ st = [t \in Threads |-> "idle"]

Waiters == {t \in Threads : st[t] = "waiting"}

Become(t, s) == st' = [st EXCEPT ![t] = s]

Request(t) == st[t] = "idle" /\ Become(t, "trying") /\ UNCHANGED owner

(* The mutex is not available at once, or the wait takes too long.         *)
Refuse(t) == st[t] \in {"trying", "waiting"} /\ Become(t, "idle") /\ UNCHANGED owner

(* A thread waits for an owner that can still release the mutex.           *)
Wait(t) ==
    /\ st[t] = "trying"
    /\ owner # NoOwner /\ st[owner] # "gone"
    /\ Become(t, "waiting")
    /\ UNCHANGED owner

(* A free mutex for which nobody waits, or one whose owner is gone.        *)
Take(t) ==
    /\ st[t] = "trying"
    /\ IF owner = NoOwner THEN Waiters = {} ELSE st[owner] = "gone"
    /\ Become(t, "has")
    /\ owner' = t

(* The owner gives the mutex up, to a waiting thread if there is one.      *)
Leave(t, s) ==
    /\ st[t] = "has" /\ owner = t
    /\ \/ Waiters = {} /\ owner' = NoOwner /\ Become(t, s)
       \/ \E w \in Waiters :
            owner' = w /\ st' = [st EXCEPT ![t] = s, ![w] = "has"]

Release(t) == Leave(t, "idle")

Die(t) ==
    \/ st[t] = "idle" /\ Become(t, "dying") /\ UNCHANGED owner
    \/ st[t] = "has" /\ ~Robust /\ Become(t, "dying") /\ UNCHANGED owner
    \/ Robust /\ Leave(t, "dying")

Bury(t) == st[t] = "dying" /\ Become(t, "gone") /\ UNCHANGED owner

Next ==
    \E t \in Threads :
        \/ Request(t) \/ Refuse(t) \/ Wait(t) \/ Take(t) \/ Release(t)
        \/ Die(t) \/ Bury(t)

Spec == Init /\ [][Next]_mutexVars
=============================================================================
