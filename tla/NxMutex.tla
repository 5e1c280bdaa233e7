------------------------------ MODULE NxMutex -------------------------------
(***************************************************************************)
(* One NuttX mutex (mutex_t, a sem_t of type SEM_TYPE_MUTEX) at the        *)
(* granularity of its atomic operations, as threads on several CPUs and    *)
(* the timer interrupt use it.                                             *)
(*                                                                         *)
(* The lock word sem->val.mholder is read and exchanged without any lock   *)
(* by the fast paths of nxsem_wait(), nxsem_trywait() and nxsem_post();    *)
(* the slow paths, the watchdog timeout, nxsched_set_priority() and task   *)
(* termination run inside the global critical section.  What keeps the two *)
(* apart is the blocking bit (bit 31 of the word), which the slow paths    *)
(* set first and which makes every fast exchange fail.                     *)
(*                                                                         *)
(* A step of a thread is one access to shared data: an atomic read, an     *)
(* atomic exchange, or the part of a critical section that performs one.   *)
(***************************************************************************)
EXTENDS PrioList

CONSTANTS
    Threads,      \* the threads that use the mutex (their pids)
    Prios,        \* the priorities sched_priority takes
    NoHolder,     \* NXSEM_NO_MHOLDER: the mutex is free
    MReset,       \* NXSEM_MRESET: the mutex was reset by nxmutex_reset()
    None,         \* nobody is inside the critical section
    AsyncCancel,  \* TRUE: task_delete() may terminate a thread anywhere;
                  \* FALSE: cancellation is deferred (TCB_FLAG_CANCEL_DEFERRED)
    Robust,       \* TRUE: a pthread mutex with _PTHREAD_MFLAGS_ROBUST
    Watched       \* the threads the liveness properties are checked for: all,
                  \* or one of several interchangeable ones

ASSUME MutexConstants ==
    /\ NoHolder \notin Threads
    /\ MReset \notin Threads
    /\ NoHolder # MReset
    /\ None \notin Threads
    /\ Prios \subseteq Nat
    /\ AsyncCancel \in BOOLEAN
    /\ Robust \in BOOLEAN
    /\ Watched \subseteq Threads

VARIABLES
    mholder,   \* sem->val.mholder: the holder field and the blocking bit
    waitlist,  \* SEM_WAITLIST(sem)
    csec,      \* the thread inside the critical section, or None
    pc,        \* where each thread stands in the code
    old,       \* the value a post's fast path expects (old) or a slow path's
               \* atomic_or() returned (mholder); Free once out of scope
    timed,     \* the thread is inside nxsem_tickwait(), in its critical section
    waitdog,   \* tcb->waitdog is active, with nxsem_timeout() as its function
    errcode,   \* tcb->errcode
    prio       \* tcb->sched_priority

vars == <<mholder, waitlist, csec, pc, old, timed, waitdog, errcode, prio>>

Words == [holder : Threads \cup {NoHolder, MReset}, blocking : BOOLEAN]

Word(h, b) == [holder |-> h, blocking |-> b]

Free == Word(NoHolder, FALSE)

(* NXSEM_MACQUIRED(h)                                                      *)
Acquired(w) == w.holder \notin {NoHolder, MReset}

Locs ==
    {"idle",                                  \* not using the mutex
     "try_read", "try_cas",                   \* nxsem_trywait()
     "wait_read", "wait_cas",                 \* nxsem_wait(), fast path
     "wait_slow", "wait_or",                  \* nxsem_wait_slow()
     "blocked", "woken",                      \* TSTATE_WAIT_SEM; ready again
     "locked",                                \* returned OK, owns the mutex
     "post_read", "post_cas",                 \* nxsem_post(), fast path
     "post_slow", "post_or",                  \* nxsem_post_slow()
     "exiting", "dead"}                       \* nxtask_terminate(); TCB gone

TypeOK ==
    /\ mholder \in Words
    /\ waitlist \in Seq(Threads)
    /\ csec \in Threads \cup {None}
    /\ pc \in [Threads -> Locs]
    /\ old \in [Threads -> Words]
    /\ timed \in [Threads -> BOOLEAN]
    /\ waitdog \in [Threads -> BOOLEAN]
    /\ errcode \in [Threads -> {"OK", "ETIMEDOUT"}]
    /\ prio \in [Threads -> Prios]

(* nxmutex_init()                                                          *)
Init ==
    /\ mholder = Free
    /\ waitlist = <<>>
    /\ csec = None
    /\ pc = [t \in Threads |-> "idle"]
    /\ old = [t \in Threads |-> Free]
    /\ timed = [t \in Threads |-> FALSE]
    /\ waitdog = [t \in Threads |-> FALSE]
    /\ errcode = [t \in Threads |-> "OK"]
    /\ prio \in [Threads -> Prios]

Goto(t, l) == pc' = [pc EXCEPT ![t] = l]

Forget(t) == old' = [old EXCEPT ![t] = Free]

(* The blocking bit a slow path stores: set while threads are waiting.     *)
BlockingBit(list) == list # <<>>

-----------------------------------------------------------------------------
(* Entry of the operations.                                                *)

(* nxmutex_lock() calls nxsem_wait().                                      *)
Lock(t) ==
    /\ pc[t] = "idle"
    /\ Goto(t, "wait_read")
    /\ UNCHANGED <<mholder, waitlist, csec, old, timed, waitdog, errcode, prio>>

(* nxmutex_trylock(), and nxmutex_ticklock() with no delay, call           *)
(* nxsem_trywait().                                                        *)
TryLock(t) ==
    /\ pc[t] = "idle"
    /\ Goto(t, "try_read")
    /\ UNCHANGED <<mholder, waitlist, csec, old, timed, waitdog, errcode, prio>>

(* nxmutex_ticklock() with a delay: nxsem_tickwait() enters the critical   *)
(* section for the whole of the call and tries without waiting first.      *)
TickLock(t) ==
    /\ pc[t] = "idle"
    /\ csec = None
    /\ csec' = t
    /\ timed' = [timed EXCEPT ![t] = TRUE]
    /\ Goto(t, "try_read")
    /\ UNCHANGED <<mholder, waitlist, old, waitdog, errcode, prio>>

(* nxmutex_unlock() calls nxsem_post().  Only the owner unlocks.           *)
Unlock(t) ==
    /\ pc[t] = "locked"
    /\ Goto(t, "post_read")
    /\ UNCHANGED <<mholder, waitlist, csec, old, timed, waitdog, errcode, prio>>

(* Mutant of Return: nxsem_tickwait() without its wd_cancel().             *)
Return_KeepsWatchdog(t, l) ==
    /\ Goto(t, l)
    /\ timed' = [timed EXCEPT ![t] = FALSE]
    /\ csec' = IF csec = t THEN None ELSE csec
    /\ Forget(t)
    /\ UNCHANGED waitdog

(* How a lock operation ends: nxsem_tickwait() cancels its watchdog, and   *)
(* every path leaves the critical section it is in.                        *)
Return(t, l) ==
    /\ Goto(t, l)
    /\ timed' = [timed EXCEPT ![t] = FALSE]
    /\ waitdog' = IF timed[t] THEN [waitdog EXCEPT ![t] = FALSE] ELSE waitdog
    /\ csec' = IF csec = t THEN None ELSE csec
    /\ Forget(t)

-----------------------------------------------------------------------------
(* nxsem_trywait().                                                        *)

(* Mutant of TryRead: nxsem_tickwait() goes on to wait without wd_start(). *)
TryRead_NoWatchdog(t) ==
    /\ pc[t] = "try_read"
    /\ Goto(t, IF mholder = Free THEN "try_cas"
               ELSE IF timed[t] THEN "wait_read" ELSE "idle")
    /\ UNCHANGED <<mholder, waitlist, csec, old, timed, waitdog, errcode, prio>>

(* The word must be exactly NXSEM_NO_MHOLDER, otherwise -EAGAIN.  In       *)
(* nxsem_tickwait() that arms the watchdog and goes on to nxsem_wait().    *)
TryRead(t) ==
    /\ pc[t] = "try_read"
    /\ IF mholder = Free
       THEN /\ Goto(t, "try_cas")
            /\ UNCHANGED waitdog
       ELSE IF timed[t]
            THEN /\ Goto(t, "wait_read")
                 /\ waitdog' = [waitdog EXCEPT ![t] = TRUE]
            ELSE /\ Goto(t, "idle")
                 /\ UNCHANGED waitdog
    /\ UNCHANGED <<mholder, waitlist, csec, old, timed, errcode, prio>>

(* The exchange expects the value read, which was NXSEM_NO_MHOLDER.        *)
TryCas(t) ==
    /\ pc[t] = "try_cas"
    /\ IF mholder = Free
       THEN /\ mholder' = Word(t, FALSE)
            /\ Return(t, "locked")
       ELSE /\ Goto(t, "try_read")
            /\ UNCHANGED <<mholder, csec, old, timed, waitdog>>
    /\ UNCHANGED <<waitlist, errcode, prio>>

-----------------------------------------------------------------------------
(* nxsem_wait() and nxsem_wait_slow().                                     *)

WaitRead(t) ==
    /\ pc[t] = "wait_read"
    /\ Goto(t, IF mholder = Free THEN "wait_cas" ELSE "wait_slow")
    /\ UNCHANGED <<mholder, waitlist, csec, old, timed, waitdog, errcode, prio>>

WaitCas(t) ==
    /\ pc[t] = "wait_cas"
    /\ IF mholder = Free
       THEN /\ mholder' = Word(t, FALSE)
            /\ Return(t, "locked")
       ELSE /\ Goto(t, "wait_read")
            /\ UNCHANGED <<mholder, csec, old, timed, waitdog>>
    /\ UNCHANGED <<waitlist, errcode, prio>>

(* enter_critical_section() nests when the thread is already inside.       *)
EnterCsec(t) == csec \in {None, t} /\ csec' = t

(* Mutant of WaitOr: the word is read but the blocking bit is not set.     *)
WaitOr_PlainRead(t) ==
    /\ pc[t] = "wait_slow"
    /\ EnterCsec(t)
    /\ old' = [old EXCEPT ![t] = mholder]
    /\ Goto(t, "wait_or")
    /\ UNCHANGED <<mholder, waitlist, timed, waitdog, errcode, prio>>

(* mholder = atomic_or(NXSEM_MHOLDER(sem), NXSEM_MBLOCKING_BIT): from here *)
(* on no fast path can change the word.                                    *)
WaitOr(t) ==
    /\ pc[t] = "wait_slow"
    /\ EnterCsec(t)
    /\ old' = [old EXCEPT ![t] = mholder]
    /\ mholder' = [mholder EXCEPT !.blocking = TRUE]
    /\ Goto(t, "wait_or")
    /\ UNCHANGED <<waitlist, timed, waitdog, errcode, prio>>

(* Mutant of HolderExists: a holder that is being terminated counts as     *)
(* gone.                                                                   *)
HolderExists_NotExiting(w) ==
    Acquired(w) /\ pc[w.holder] \notin {"exiting", "dead"}

(* htcb = nxsched_get_tcb(holder) is not NULL: the holder's TCB is still   *)
(* in the pid hash.                                                        *)
HolderExists(w) == Acquired(w) /\ pc[w.holder] # "dead"

(* The mutex is free, was reset, or its holder has exited: take it.        *)
WaitTake(t) ==
    /\ pc[t] = "wait_or"
    /\ ~HolderExists(old[t])
    /\ mholder' = Word(t, BlockingBit(waitlist))
    /\ Return(t, "locked")
    /\ UNCHANGED <<waitlist, errcode, prio>>

(* Mutant of WaitBlock: the result of an earlier wait is not cleared.      *)
WaitBlock_StaleErrcode(t) ==
    /\ pc[t] = "wait_or"
    /\ HolderExists(old[t])
    /\ waitlist' = AddPrioritized(waitlist, t, prio)
    /\ Goto(t, "blocked")
    /\ csec' = None
    /\ Forget(t)
    /\ UNCHANGED <<mholder, timed, waitdog, errcode, prio>>

(* The mutex is held: join the wait list and switch to another thread,     *)
(* which leaves the critical section.                                      *)
WaitBlock(t) ==
    /\ pc[t] = "wait_or"
    /\ HolderExists(old[t])
    /\ errcode' = [errcode EXCEPT ![t] = "OK"]
    /\ waitlist' = AddPrioritized(waitlist, t, prio)
    /\ Goto(t, "blocked")
    /\ csec' = None
    /\ Forget(t)
    /\ UNCHANGED <<mholder, timed, waitdog, prio>>

(* The thread runs again, inside its critical section.  Unless the wait    *)
(* was cut short it owns the mutex and stores its pid (again).             *)
WaitResume(t) ==
    /\ pc[t] = "woken"
    /\ csec = None
    /\ mholder' = IF errcode[t] = "OK" THEN Word(t, BlockingBit(waitlist))
                                       ELSE mholder
    /\ Return(t, IF errcode[t] = "OK" THEN "locked" ELSE "idle")
    /\ UNCHANGED <<waitlist, errcode, prio>>

-----------------------------------------------------------------------------
(* nxsem_post() and nxsem_post_slow().                                     *)

PostRead(t) ==
    /\ pc[t] = "post_read"
    /\ old' = [old EXCEPT ![t] = mholder]
    /\ Goto(t, IF mholder.blocking THEN "post_slow" ELSE "post_cas")
    /\ UNCHANGED <<mholder, waitlist, csec, timed, waitdog, errcode, prio>>

(* Mutant of PostCas: a plain store instead of the compare and exchange.   *)
PostCas_PlainStore(t) ==
    /\ pc[t] = "post_cas"
    /\ mholder' = Free
    /\ Goto(t, "idle")
    /\ Forget(t)
    /\ UNCHANGED <<waitlist, csec, timed, waitdog, errcode, prio>>

PostCas(t) ==
    /\ pc[t] = "post_cas"
    /\ IF mholder = old[t]
       THEN mholder' = Free /\ Goto(t, "idle")
       ELSE UNCHANGED mholder /\ Goto(t, "post_read")
    /\ Forget(t)
    /\ UNCHANGED <<waitlist, csec, timed, waitdog, errcode, prio>>

PostOr(t) ==
    /\ pc[t] = "post_slow"
    /\ EnterCsec(t)
    /\ old' = [old EXCEPT ![t] = mholder]
    /\ mholder' = [mholder EXCEPT !.blocking = TRUE]
    /\ Goto(t, "post_or")
    /\ UNCHANGED <<waitlist, timed, waitdog, errcode, prio>>

(* The last waiter left between the read and the critical section.         *)
PostFree(t) ==
    /\ pc[t] = "post_or"
    /\ ~old[t].blocking
    /\ mholder' = Word(IF old[t].holder = MReset THEN MReset ELSE NoHolder,
                       FALSE)
    /\ csec' = None
    /\ Goto(t, "idle")
    /\ Forget(t)
    /\ UNCHANGED <<waitlist, timed, waitdog, errcode, prio>>

(* The wait list's head becomes the holder before it runs; its watchdog is *)
(* stopped and it is ready to run.  leaver moves to location l.            *)
HandOver(leaver, l) ==
    LET stcb == Head(waitlist)
    IN  /\ waitlist' = Tail(waitlist)
        /\ mholder' = Word(stcb, BlockingBit(Tail(waitlist)))
        /\ waitdog' = [waitdog EXCEPT ![stcb] = FALSE]
        /\ pc' = [pc EXCEPT ![leaver] = l, ![stcb] = "woken"]

PostBlocking(t) ==
    /\ pc[t] = "post_or"
    /\ old[t].blocking
    /\ IF waitlist = <<>>
       THEN Goto(t, "idle") /\ UNCHANGED <<mholder, waitlist, waitdog>>
       ELSE HandOver(t, "idle")
    /\ csec' = None
    /\ Forget(t)
    /\ UNCHANGED <<timed, errcode, prio>>

-----------------------------------------------------------------------------
(* What others do to a thread, each inside the critical section.           *)

(* Mutant of Timeout: the blocking bit is kept when the last waiter leaves.*)
Timeout_KeepsBit(t) ==
    /\ csec = None
    /\ waitdog[t]
    /\ pc[t] = "blocked"
    /\ waitdog' = [waitdog EXCEPT ![t] = FALSE]
    /\ waitlist' = DqRem(waitlist, t)
    /\ errcode' = [errcode EXCEPT ![t] = "ETIMEDOUT"]
    /\ Goto(t, "woken")
    /\ UNCHANGED <<mholder, csec, old, timed, prio>>

(* wd_expiration() calls nxsem_timeout(): a thread that still waits is     *)
(* taken off the list by nxsem_wait_irq(ETIMEDOUT).                        *)
Timeout(t) ==
    /\ csec = None
    /\ waitdog[t]
    /\ waitdog' = [waitdog EXCEPT ![t] = FALSE]
    /\ IF pc[t] = "blocked"
       THEN /\ waitlist' = DqRem(waitlist, t)
            /\ mholder' = IF DqRem(waitlist, t) = <<>>
                          THEN [mholder EXCEPT !.blocking = FALSE]
                          ELSE mholder
            /\ errcode' = [errcode EXCEPT ![t] = "ETIMEDOUT"]
            /\ Goto(t, "woken")
       ELSE UNCHANGED <<waitlist, mholder, errcode, pc>>
    /\ UNCHANGED <<csec, old, timed, prio>>

(* Mutant of SetPriority: the waiter keeps its place in the wait list.     *)
SetPriority_NoRequeue(t, p) ==
    /\ csec = None
    /\ pc[t] # "dead"
    /\ prio' = [prio EXCEPT ![t] = p]
    /\ UNCHANGED <<mholder, waitlist, csec, pc, old, timed, waitdog, errcode>>

(* nxsched_set_priority(): a waiting thread is moved to its new place.     *)
(* Priority inheritance changes priorities through this function too.      *)
SetPriority(t, p) ==
    /\ csec = None
    /\ pc[t] # "dead"
    /\ prio' = [prio EXCEPT ![t] = p]
    /\ waitlist' = IF pc[t] = "blocked"
                   THEN AddPrioritized(DqRem(waitlist, t), t, prio')
                   ELSE waitlist
    /\ UNCHANGED <<mholder, csec, pc, old, timed, waitdog, errcode>>

(* pthread_mutex_inconsistent() resets a robust mutex that the thread      *)
(* owns: nxsem_reset() hands it to the first waiter or leaves it reset.    *)
ResetOwned(t) ==
    IF waitlist = <<>>
    THEN /\ mholder' = Word(MReset, FALSE)
         /\ Goto(t, "exiting")
         /\ waitdog' = [waitdog EXCEPT ![t] = FALSE]
         /\ UNCHANGED waitlist
    ELSE HandOver(t, "exiting")

(* nxtask_terminate(): the thread exits, or another one deletes it.  The   *)
(* TCB is taken off its list by nxsched_remove_readytorun(), the waitdog   *)
(* is cancelled, and nxsem_recover() applies dq_rem() to a waiter's TCB    *)
(* again: with both of its links NULL by now that empties the list.        *)
Terminate(t) ==
    /\ csec = None
    /\ pc[t] \notin {"exiting", "dead"}
    /\ AsyncCancel \/ pc[t] \in {"idle", "locked"}
    /\ IF pc[t] = "locked" /\ Robust /\ mholder.holder = t
       THEN ResetOwned(t)
       ELSE /\ Goto(t, "exiting")
            /\ waitdog' = [waitdog EXCEPT ![t] = FALSE]
            /\ IF pc[t] = "blocked"
               THEN /\ waitlist' = <<>>
                    /\ mholder' = [mholder EXCEPT !.blocking = FALSE]
               ELSE UNCHANGED <<waitlist, mholder>>
    /\ timed' = [timed EXCEPT ![t] = FALSE]
    /\ Forget(t)
    /\ UNCHANGED <<csec, errcode, prio>>

(* nxsched_release_tcb(): the pid leaves the pid hash.                     *)
ReleaseTcb(t) ==
    /\ pc[t] = "exiting"
    /\ Goto(t, "dead")
    /\ UNCHANGED <<mholder, waitlist, csec, old, timed, waitdog, errcode, prio>>

-----------------------------------------------------------------------------
Step(t) ==
    \/ TryRead(t) \/ TryCas(t)
    \/ WaitRead(t) \/ WaitCas(t) \/ WaitOr(t) \/ WaitTake(t) \/ WaitBlock(t)
    \/ WaitResume(t)
    \/ Unlock(t) \/ PostRead(t) \/ PostCas(t) \/ PostOr(t) \/ PostFree(t)
    \/ PostBlocking(t)

Next ==
    \E t \in Threads :
        \/ Lock(t) \/ TryLock(t) \/ TickLock(t)
        \/ Step(t)
        \/ Timeout(t)
        \/ \E p \in Prios : SetPriority(t, p)
        \/ Terminate(t)
        \/ ReleaseTcb(t)

Spec == Init /\ [][Next]_vars

(***************************************************************************)
(* Fairness.  A ready thread keeps running (its CPU executes it), owners   *)
(* release what they hold, and the timer interrupt occurs.  Strong         *)
(* fairness, because entering the critical section is a spin on            *)
(* g_cpu_irqlock: with ticket spinlocks, or with one CPU, a thread that    *)
(* keeps trying gets in.  And a fast path whose exchange can succeed again *)
(* and again does not lose the race for the word every time.               *)
(***************************************************************************)
FastPath(t) ==
    /\ pc[t] \in {"try_cas", "wait_cas", "post_cas"}
    /\ mholder = IF pc[t] = "post_cas" THEN old[t] ELSE Free
    /\ Step(t)

Fairness ==
    \A t \in Threads :
        SF_vars(Step(t)) /\ SF_vars(FastPath(t)) /\ SF_vars(Timeout(t))

FairSpec == Spec /\ Fairness

-----------------------------------------------------------------------------
(* Properties.                                                             *)

(* The threads that own the mutex: their lock call returned OK and their   *)
(* unlock has not taken effect.                                            *)
Owns(t) == pc[t] \in {"locked", "post_read", "post_cas", "post_slow", "post_or"}

(* The mutex was handed to the thread, which has not run since.            *)
HandedTo(t) == pc[t] = "woken" /\ errcode[t] = "OK"

(* At most one live thread owns the mutex, counting the thread it was      *)
(* handed to by nxsem_post_slow(): neither a race of the lock-free fast    *)
(* paths with the slow ones nor the takeover from a holder that exited     *)
(* lets two threads in.                                                    *)
MutualExclusion ==
    \A t, u \in Threads :
        (Owns(t) \/ HandedTo(t)) /\ (Owns(u) \/ HandedTo(u)) => t = u

(* Outside the critical section the blocking bit tells whether threads     *)
(* wait: were it clear with waiters, nxsem_post() would free the mutex on  *)
(* its fast path and wake nobody; were it set without, nxsem_post_slow()   *)
(* would find no thread to hand the mutex to and leave it locked for ever. *)
BlockingBitExact ==
    csec = None => (mholder.blocking <=> waitlist # <<>>)

(* The variables have their types, the wait list holds exactly the blocked *)
(* threads, each once, and when nobody is inside the critical section      *)
(* somebody is answerable for them: the word names a thread that owns the  *)
(* mutex, was handed it, or died with it.                                  *)
NoLostWaiter ==
    /\ TypeOK
    /\ ToSet(waitlist) = {t \in Threads : pc[t] = "blocked"}
    /\ NoDuplicates(waitlist)
    /\ csec = None /\ waitlist # <<>> =>
         \E h \in Threads :
            /\ mholder.holder = h
            /\ Owns(h) \/ HandedTo(h) \/ pc[h] \in {"exiting", "dead"}

(* A watchdog never outlives the timed call that armed it: it would cut    *)
(* short a later, unrelated wait of the thread.                            *)
WatchdogScoped ==
    \A t \in Threads :
        waitdog[t] => timed[t] /\ pc[t] \in {"wait_read", "wait_cas", "wait_slow",
                                             "wait_or", "blocked"}

(* A thread is handed the mutex only if no waiting thread has a higher     *)
(* priority, whatever changes of priority happened while it waited.        *)
HandsToHighest ==
    [][\A t \in Threads :
         pc[t] = "blocked" /\ HandedTo(t)' =>
            \A u \in ToSet(waitlist) : prio[u] <= prio[t]]_vars

(* Nobody overtakes the waiters: while threads wait, a thread comes to own *)
(* the mutex only by being handed it, or by replacing a holder that died.  *)
NoBarging ==
    [][\A t \in Threads :
         ~Owns(t) /\ Owns(t)' /\ waitlist # <<>> =>
            \/ HandedTo(t)
            \/ \E h \in Threads : mholder.holder = h /\ pc[h] = "dead"]_vars

(* The state of a thread as the abstract mutex sees it.  A thread that was *)
(* handed the mutex has it before it runs; one whose wait timed out is no  *)
(* longer waiting.                                                         *)
AbsState(t) ==
    CASE Owns(t) \/ HandedTo(t) -> "has"
      [] pc[t] = "blocked" -> "waiting"
      [] pc[t] = "exiting" -> "dying"
      [] pc[t] = "dead" -> "gone"
      [] pc[t] \in {"try_read", "try_cas", "wait_read", "wait_cas", "wait_slow",
                    "wait_or"} -> "trying"
      [] OTHER -> "idle"

(* A mutex that was reset has no owner.                                    *)
AbsOwner == IF mholder.holder = MReset THEN NoHolder ELSE mholder.holder

Abs == INSTANCE Mutex WITH
         NoOwner <- NoHolder,
         owner <- AbsOwner,
         st <- [t \in Threads |-> AbsState(t)]

(* The code implements a mutex: no race of the lock-free paths with the    *)
(* slow ones, no timeout, reset, change of priority or exit gives it to a  *)
(* second thread, takes it from its owner, frees it while threads wait, or *)
(* lets a thread that was handed it return without it.                     *)
ImplementsMutex == Abs!Spec

(* nxmutex_ticklock() returns, also when a caller of                       *)
(* nxsched_set_priority() keeps sending the thread to the end of the list. *)
(* It may return with ETIMEDOUT: that no blocking bit is left behind to    *)
(* keep a free mutex locked is what BlockingBitExact says.                 *)
TimedLockReturns ==
    \A t \in Watched : timed[t] ~> ~timed[t]

(* With equal priorities and deferred cancellation every waiter of a       *)
(* robust mutex gets it, or times out: waiters are served first come,      *)
(* first served.  Only a caller of nxsched_set_priority() that keeps       *)
(* sending the waiter to the end of the list can starve it.                *)
WaitersServed ==
    \A t \in Watched :
        \/ pc[t] = "blocked" ~> pc[t] # "blocked"
        \/ []<><<\E p \in Prios : SetPriority(t, p)>>_vars
=============================================================================
