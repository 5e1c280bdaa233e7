------------------------------- MODULE NxSem --------------------------------
(***************************************************************************)
(* One NuttX counting semaphore (sem_t without SEM_TYPE_MUTEX) at the      *)
(* granularity of its atomic operations.  Any thread waits on it and posts *)
(* it; a post from an interrupt handler interleaves like that of a thread. *)
(*                                                                         *)
(* sem->val.semcount holds the available units, or minus the number of     *)
(* waiting threads.  Without a priority protocol the fast paths of         *)
(* nxsem_wait(), nxsem_trywait() and nxsem_post() exchange it without a    *)
(* lock as long as it does not become, or is not, negative; everything     *)
(* else runs inside the critical section, to which the wait list belongs.  *)
(*                                                                         *)
(* Priorities are fixed here (NxMutex has the changes), and a thread is    *)
(* not deleted while it waits: cancellation is deferred.                   *)
(***************************************************************************)
EXTENDS PrioList

CONSTANTS
    Threads,          \* the threads that use the semaphore
    Prio,             \* their priorities
    None,             \* nobody is inside the critical section
    Uses,             \* the ways the semaphore may be set up and used
    StopSignal,       \* TRUE: the signals are SIGSTOP, whose default action
                      \* (CONFIG_SIG_SIGSTOP_ACTION) stops the threads of a task
    InitCounts,       \* the counts nxsem_init() is called with
    ResetCounts,      \* the counts nxsem_reset() is called with
    CountCap          \* bound: no post starts with this many units available

ASSUME SemConstants ==
    /\ IsFiniteSet(Threads)
    /\ None \notin Threads
    /\ Prio \in [Threads -> Nat]
    /\ StopSignal \in BOOLEAN
    /\ CountCap \in Nat
    /\ InitCounts \cup ResetCounts \subseteq 0 .. CountCap
    /\ \A u \in Uses :
          /\ {u.fast, u.uninterruptible, u.syscall} \subseteq BOOLEAN
          /\ u.maxvalue \in Nat \ {0}
          /\ InitCounts \cup ResetCounts \subseteq 0 .. u.maxvalue

VARIABLES
    count,     \* sem->val.semcount
    waitlist,  \* SEM_WAITLIST(sem)
    csec,      \* the thread inside the critical section, or None
    pc,        \* where each thread stands in the code
    old,       \* the count an exchange expects; 0 once out of scope
    timed,     \* the thread is inside a timed wait
    waitdog,   \* tcb->waitdog is active
    errcode,   \* tcb->errcode; OK again once the wait has returned
    sigpend,   \* an unmasked signal is pending for the thread
    left,      \* the units a reset has still to give (count in reset_sem())
    use        \* how the semaphore is set up and used; never changes

vars == <<count, waitlist, csec, pc, old, timed, waitdog, errcode, sigpend, left,
          use>>

(* SEM_PRIO_NONE; a priority protocol disables the fast paths.             *)
FastPath == use.fast

(* The *_uninterruptible() interfaces are used.                            *)
Uninterruptible == use.uninterruptible

(* The callers are in a system call, where a signal stays pending;         *)
(* otherwise its handler runs at once.                                     *)
Syscall == use.syscall

(* sem->maxvalue, or SEM_VALUE_MAX.                                        *)
MaxValue == use.maxvalue

Locs ==
    {"idle",
     "tick_enter",                            \* nxsem_tickwait()
     "try_read", "try_cas",                   \* nxsem_trywait()
     "wait_read", "wait_cas", "wait_slow",    \* nxsem_wait()
     "blocked", "woken",                      \* TSTATE_WAIT_SEM; ready again
     "got",                                   \* the wait returned OK
     "post_read", "post_cas",                 \* nxsem_post()
     "post_slow", "post_slow_cas",            \* nxsem_post_slow()
     "reset", "reset_cas"}                    \* reset_sem()

InWait(t) == pc[t] \in {"tick_enter", "try_read", "try_cas", "wait_read", "wait_cas",
                        "wait_slow", "blocked", "woken"}

TypeOK ==
    /\ count \in -Cardinality(Threads) .. CountCap + Cardinality(Threads)
    /\ waitlist \in Seq(Threads)
    /\ csec \in Threads \cup {None}
    /\ pc \in [Threads -> Locs]
    /\ old \in [Threads -> Int]
    /\ timed \in [Threads -> BOOLEAN]
    /\ waitdog \in [Threads -> BOOLEAN]
    /\ errcode \in [Threads -> {"OK", "EINTR", "ECANCELED", "ETIMEDOUT"}]
    /\ sigpend \in [Threads -> BOOLEAN]
    /\ left \in [Threads -> 0 .. CountCap]
    /\ use \in Uses

(* nxsem_init()                                                            *)
Init ==
    /\ count \in InitCounts
    /\ waitlist = <<>>
    /\ csec = None
    /\ pc = [t \in Threads |-> "idle"]
    /\ old = [t \in Threads |-> 0]
    /\ timed = [t \in Threads |-> FALSE]
    /\ waitdog = [t \in Threads |-> FALSE]
    /\ errcode = [t \in Threads |-> "OK"]
    /\ sigpend = [t \in Threads |-> FALSE]
    /\ left = [t \in Threads |-> 0]
    /\ use \in Uses

Goto(t, l) == pc' = [pc EXCEPT ![t] = l]

Expect(t, c) == old' = [old EXCEPT ![t] = c]

LeaveCsec(t) == csec' = IF csec = t THEN None ELSE csec

(* enter_critical_section() nests when the thread is already inside.       *)
EnterCsec(t) == csec \in {None, t} /\ csec' = t

(* A wait ends: nxsem_tickwait() cancels its watchdog, every critical      *)
(* section is left, and a signal kept for the end of the system call is    *)
(* delivered.                                                              *)
Return(t, l) ==
    /\ Goto(t, l)
    /\ timed' = [timed EXCEPT ![t] = FALSE]
    /\ waitdog' = [waitdog EXCEPT ![t] = FALSE]
    /\ LeaveCsec(t)
    /\ Expect(t, 0)
    /\ errcode' = [errcode EXCEPT ![t] = "OK"]
    /\ sigpend' = [sigpend EXCEPT ![t] = FALSE]

-----------------------------------------------------------------------------
(* Entry of the operations.                                                *)

(* nxsem_wait() or nxsem_wait_uninterruptible().                           *)
Wait(t) ==
    /\ pc[t] = "idle"
    /\ Goto(t, "wait_read")
    /\ UNCHANGED <<count, waitlist, csec, old, timed, waitdog, errcode, sigpend>>

(* nxsem_trywait()                                                         *)
TryWait(t) ==
    /\ pc[t] = "idle"
    /\ Goto(t, "try_read")
    /\ UNCHANGED <<count, waitlist, csec, old, timed, waitdog, errcode, sigpend>>

(* nxsem_tickwait(), nxsem_clockwait(), or the uninterruptible one.        *)
TickWait(t) ==
    /\ pc[t] = "idle"
    /\ Goto(t, "tick_enter")
    /\ timed' = [timed EXCEPT ![t] = TRUE]
    /\ UNCHANGED <<count, waitlist, csec, old, waitdog, errcode, sigpend>>

TickEnter(t) ==
    /\ pc[t] = "tick_enter"
    /\ csec = None
    /\ csec' = t
    /\ Goto(t, "try_read")
    /\ UNCHANGED <<count, waitlist, old, timed, waitdog, errcode, sigpend>>

(* nxsem_post(), by a thread that holds a unit or by any other.            *)
Post(t) ==
    /\ pc[t] \in {"idle", "got"}
    /\ count < CountCap
    /\ Goto(t, "post_read")
    /\ UNCHANGED <<count, waitlist, csec, old, timed, waitdog, errcode, sigpend>>

(* The thread goes on and keeps or has used up the unit.                   *)
Consume(t) ==
    /\ pc[t] = "got"
    /\ Goto(t, "idle")
    /\ UNCHANGED <<count, waitlist, csec, old, timed, waitdog, errcode, sigpend>>

-----------------------------------------------------------------------------
(* nxsem_trywait() and nxsem_trywait_slow().                               *)

TryRead(t) ==
    /\ pc[t] = "try_read"
    /\ FastPath
    /\ count >= 1
    /\ Expect(t, count)
    /\ Goto(t, "try_cas")
    /\ UNCHANGED <<count, waitlist, csec, timed, waitdog, errcode, sigpend>>

TryCas(t) ==
    /\ pc[t] = "try_cas"
    /\ IF count = old[t]
       THEN count' = count - 1 /\ Return(t, "got")
       ELSE /\ Goto(t, "try_read")
            /\ Expect(t, 0)
            /\ UNCHANGED <<count, csec, timed, waitdog, errcode, sigpend>>
    /\ UNCHANGED waitlist

(* Without fast paths nobody changes the count outside the critical        *)
(* section, so the exchange of nxsem_trywait_slow() succeeds at once.      *)
TrySlow(t) ==
    /\ pc[t] = "try_read"
    /\ ~FastPath
    /\ csec \in {None, t}
    /\ count >= 1
    /\ count' = count - 1
    /\ Return(t, "got")
    /\ UNCHANGED waitlist

(* Mutant of TryFail: nxsem_tickwait() goes on without wd_start().         *)
TryFail_NoWatchdog(t) ==
    /\ pc[t] = "try_read"
    /\ count < 1
    /\ FastPath \/ csec \in {None, t}
    /\ IF timed[t]
       THEN /\ Goto(t, "wait_read")
            /\ UNCHANGED <<csec, old, timed, waitdog, errcode, sigpend>>
       ELSE Return(t, "idle")
    /\ UNCHANGED <<count, waitlist>>

(* -EAGAIN.  nxsem_tickwait() goes on to wait with the watchdog armed,     *)
(* unless no time is left.                                                 *)
TryFail(t) ==
    /\ pc[t] = "try_read"
    /\ count < 1
    /\ FastPath \/ csec \in {None, t}
    /\ \/ Return(t, "idle")
       \/ /\ timed[t]
          /\ Goto(t, "wait_read")
          /\ waitdog' = [waitdog EXCEPT ![t] = TRUE]
          /\ UNCHANGED <<csec, old, timed, errcode, sigpend>>
    /\ UNCHANGED <<count, waitlist>>

-----------------------------------------------------------------------------
(* nxsem_wait() and nxsem_wait_slow().                                     *)

WaitRead(t) ==
    /\ pc[t] = "wait_read"
    /\ IF FastPath /\ count >= 1
       THEN Expect(t, count) /\ Goto(t, "wait_cas")
       ELSE UNCHANGED old /\ Goto(t, "wait_slow")
    /\ UNCHANGED <<count, waitlist, csec, timed, waitdog, errcode, sigpend>>

WaitCas(t) ==
    /\ pc[t] = "wait_cas"
    /\ IF count = old[t]
       THEN count' = count - 1 /\ Return(t, "got")
       ELSE /\ Goto(t, "wait_read")
            /\ Expect(t, 0)
            /\ UNCHANGED <<count, csec, timed, waitdog, errcode, sigpend>>
    /\ UNCHANGED waitlist

(* Mutant of SignalPending: the check before waiting is left out.          *)
SignalPending_Never(t) == FALSE

(* The check for signals that came before the wait.                        *)
SignalPending(t) == ~Uninterruptible /\ sigpend[t]

(* nxsem_wait_slow() returns -EINTR without waiting.                       *)
WaitInterrupted(t) ==
    /\ pc[t] = "wait_slow"
    /\ csec \in {None, t}
    /\ SignalPending(t)
    /\ Return(t, "idle")
    /\ UNCHANGED <<count, waitlist>>

(* atomic_sub(NXSEM_COUNT(sem), 1) > 0: a unit came in the meantime.       *)
WaitTake(t) ==
    /\ pc[t] = "wait_slow"
    /\ csec \in {None, t}
    /\ ~SignalPending(t)
    /\ count > 0
    /\ count' = count - 1
    /\ Return(t, "got")
    /\ UNCHANGED waitlist

(* Mutant of WaitBlock: the thread joins the list without taking a unit.   *)
WaitBlock_NoSub(t) ==
    /\ pc[t] = "wait_slow"
    /\ csec \in {None, t}
    /\ ~SignalPending(t)
    /\ count <= 0
    /\ errcode' = [errcode EXCEPT ![t] = "OK"]
    /\ waitlist' = AddPrioritized(waitlist, t, Prio)
    /\ Goto(t, "blocked")
    /\ csec' = None
    /\ UNCHANGED <<count, old, timed, waitdog, sigpend>>

(* Otherwise the thread joins the wait list and another one runs, which    *)
(* leaves the critical section.                                            *)
WaitBlock(t) ==
    /\ pc[t] = "wait_slow"
    /\ csec \in {None, t}
    /\ ~SignalPending(t)
    /\ count <= 0
    /\ count' = count - 1
    /\ errcode' = [errcode EXCEPT ![t] = "OK"]
    /\ waitlist' = AddPrioritized(waitlist, t, Prio)
    /\ Goto(t, "blocked")
    /\ csec' = None
    /\ UNCHANGED <<old, timed, waitdog, sigpend>>

(* The thread runs again.  The uninterruptible interfaces start over when  *)
(* a signal ended the wait.                                                *)
WaitResume(t) ==
    /\ pc[t] = "woken"
    /\ csec = None
    /\ IF errcode[t] = "EINTR" /\ Uninterruptible
       THEN /\ Goto(t, IF timed[t] THEN "tick_enter" ELSE "wait_read")
            /\ waitdog' = [waitdog EXCEPT ![t] = FALSE]
            /\ errcode' = [errcode EXCEPT ![t] = "OK"]
            /\ UNCHANGED <<csec, old, timed, sigpend>>
       ELSE Return(t, IF errcode[t] = "OK" THEN "got" ELSE "idle")
    /\ UNCHANGED <<count, waitlist>>

-----------------------------------------------------------------------------
(* nxsem_post() and nxsem_post_slow().                                     *)

PostRead(t) ==
    /\ pc[t] = "post_read"
    /\ IF FastPath /\ count >= 0
       THEN Expect(t, count) /\ Goto(t, "post_cas")
       ELSE UNCHANGED old /\ Goto(t, "post_slow")
    /\ UNCHANGED <<count, waitlist, csec, timed, waitdog, errcode, sigpend>>

(* Mutant of PostCas: a plain increment of the value that was read.        *)
PostCas_PlainStore(t) ==
    /\ pc[t] = "post_cas"
    /\ count' = old[t] + 1
    /\ Goto(t, "idle")
    /\ Expect(t, 0)
    /\ UNCHANGED <<waitlist, csec, timed, waitdog, errcode, sigpend>>

PostCas(t) ==
    /\ pc[t] = "post_cas"
    /\ IF count = old[t]
       THEN count' = count + 1 /\ Goto(t, "idle")
       ELSE UNCHANGED count /\ Goto(t, "post_read")
    /\ Expect(t, 0)
    /\ UNCHANGED <<waitlist, csec, timed, waitdog, errcode, sigpend>>

PostSlow(t) ==
    /\ pc[t] = "post_slow"
    /\ EnterCsec(t)
    /\ Expect(t, count)
    /\ Goto(t, "post_slow_cas")
    /\ UNCHANGED <<count, waitlist, timed, waitdog, errcode, sigpend>>

(* The check of the maximum, which only nxsem_post_slow() makes.           *)
Overflows(t) == old[t] >= MaxValue

(* -EOVERFLOW                                                              *)
PostOverflow(t) ==
    /\ pc[t] = "post_slow_cas"
    /\ Overflows(t)
    /\ Goto(t, "idle")
    /\ csec' = None
    /\ Expect(t, 0)
    /\ UNCHANGED <<count, waitlist, timed, waitdog, errcode, sigpend>>

(* The first n waiters are ready to run and their watchdogs are stopped;   *)
(* mover, which is not one of them, goes to location l.                    *)
Wake(n, mover, l) ==
    LET woken == {waitlist[i] : i \in 1 .. n}
    IN  /\ waitlist' = SubSeq(waitlist, n + 1, Len(waitlist))
        /\ waitdog' = [t \in Threads |-> waitdog[t] /\ t \notin woken]
        /\ pc' = [t \in Threads |-> IF t \in woken THEN "woken"
                                    ELSE IF t = mover THEN l ELSE pc[t]]

(* Mutant of PostSlowCas: a failed exchange does not refresh the value     *)
(* that the next one expects.                                              *)
PostSlowCas_NoRefresh(t) ==
    /\ pc[t] = "post_slow_cas"
    /\ ~Overflows(t)
    /\ IF count = old[t]
       THEN /\ count' = count + 1
            /\ Wake(IF count < 0 /\ waitlist # <<>> THEN 1 ELSE 0, t, "idle")
            /\ csec' = None
            /\ Expect(t, 0)
       ELSE UNCHANGED <<count, waitlist, csec, waitdog, pc, old>>
    /\ UNCHANGED <<timed, errcode, sigpend>>

(* The exchange of nxsem_post_slow(), repeated until it succeeds; a unit   *)
(* posted while threads wait goes to the first of them.                    *)
PostSlowCas(t) ==
    /\ pc[t] = "post_slow_cas"
    /\ ~Overflows(t)
    /\ IF count = old[t]
       THEN /\ count' = count + 1
            /\ Wake(IF count < 0 /\ waitlist # <<>> THEN 1 ELSE 0, t, "idle")
            /\ csec' = None
            /\ Expect(t, 0)
       ELSE /\ Expect(t, count)
            /\ UNCHANGED <<count, waitlist, csec, waitdog, pc>>
    /\ UNCHANGED <<timed, errcode, sigpend>>

-----------------------------------------------------------------------------
(* What others do to a thread, each inside the critical section.           *)

(* Mutant of WaitIrq: the unit taken by the wait is not given back.        *)
WaitIrq_NoAdd(t, e) ==
    /\ waitlist' = DqRem(waitlist, t)
    /\ errcode' = [errcode EXCEPT ![t] = e]
    /\ Goto(t, "woken")
    /\ UNCHANGED count

(* nxsem_wait_irq() ends the wait of a blocked thread.                     *)
WaitIrq(t, e) ==
    /\ waitlist' = DqRem(waitlist, t)
    /\ count' = count + 1
    /\ errcode' = [errcode EXCEPT ![t] = e]
    /\ Goto(t, "woken")

(* wd_expiration() calls nxsem_timeout().                                  *)
Timeout(t) ==
    /\ csec = None
    /\ waitdog[t]
    /\ waitdog' = [waitdog EXCEPT ![t] = FALSE]
    /\ IF pc[t] = "blocked" THEN WaitIrq(t, "ETIMEDOUT")
       ELSE UNCHANGED <<count, waitlist, errcode, pc>>
    /\ UNCHANGED <<csec, old, timed, sigpend, left, use>>

(* nxsched_suspend() of a blocked thread, by another one of its task that  *)
(* handles SIGSTOP: the thread is taken off the wait list and will find    *)
(* EINTR.  From SIGCONT on it is ready; when that comes does not matter    *)
(* here.                                                                   *)
Suspend(t) ==
    /\ waitlist' = DqRem(waitlist, t)
    /\ errcode' = [errcode EXCEPT ![t] = "EINTR"]
    /\ Goto(t, "woken")
    /\ UNCHANGED count

(* nxsig_tcbdispatch() of an unmasked signal to a thread in a wait.        *)
Signal(t) ==
    /\ csec = None
    /\ InWait(t)
    /\ sigpend' = [sigpend EXCEPT ![t] = Syscall]
    /\ IF pc[t] # "blocked" \/ (Syscall /\ Uninterruptible)
       THEN UNCHANGED <<count, waitlist, errcode, pc>>
       ELSE IF StopSignal THEN Suspend(t) ELSE WaitIrq(t, "EINTR")
    /\ UNCHANGED <<csec, old, timed, waitdog>>

(* nxnotify_cancellation() of a thread blocked in sem_wait(), which is a   *)
(* cancellation point.                                                     *)
Cancel(t) ==
    /\ csec = None
    /\ pc[t] = "blocked"
    /\ WaitIrq(t, "ECANCELED")
    /\ UNCHANGED <<csec, old, timed, waitdog, sigpend>>

-----------------------------------------------------------------------------
(* nxsem_reset() and reset_sem().  The critical section keeps the slow     *)
(* paths out and so a negative count still; it does not keep out the fast  *)
(* paths of other CPUs once the count is not negative.                     *)

(* nxsem_reset(), by a thread that is not waiting.                         *)
Reset(t, n) ==
    /\ pc[t] = "idle"
    /\ csec = None
    /\ csec' = t
    /\ left' = [left EXCEPT ![t] = n]
    /\ Goto(t, "reset")
    /\ UNCHANGED <<count, waitlist, old, timed, waitdog, errcode, sigpend>>

(* Mutant of ResetPost: a unit handed out is not subtracted.               *)
ResetPost_NoDecrement(t) ==
    /\ pc[t] = "reset"
    /\ count < 0 /\ left[t] > 0
    /\ count' = count + 1
    /\ Wake(IF waitlist # <<>> THEN 1 ELSE 0, t, "reset")
    /\ UNCHANGED <<csec, old, timed, errcode, sigpend, left>>

(* A turn of the loop: nxsem_post() finds the count negative, as the loop  *)
(* did, and its slow path passes a unit to the first waiter.               *)
ResetPost(t) ==
    /\ pc[t] = "reset"
    /\ count < 0 /\ left[t] > 0
    /\ count' = count + 1
    /\ Wake(IF waitlist # <<>> THEN 1 ELSE 0, t, "reset")
    /\ left' = [left EXCEPT ![t] = @ - 1]
    /\ UNCHANGED <<csec, old, timed, errcode, sigpend>>

(* The loop ends, for good, and the count is read for the exchange.        *)
ResetRead(t) ==
    /\ pc[t] = "reset"
    /\ ~(count < 0 /\ left[t] > 0)
    /\ Expect(t, count)
    /\ Goto(t, "reset_cas")
    /\ UNCHANGED <<count, waitlist, csec, timed, waitdog, errcode, sigpend, left>>

ResetReturn(t) ==
    /\ Goto(t, "idle")
    /\ csec' = None
    /\ Expect(t, 0)
    /\ left' = [left EXCEPT ![t] = 0]

(* Threads are still waiting: the count is right as it is.                 *)
ResetBreak(t) ==
    /\ pc[t] = "reset_cas"
    /\ old[t] < 0
    /\ ResetReturn(t)
    /\ UNCHANGED <<count, waitlist, timed, waitdog, errcode, sigpend>>

(* Otherwise the remaining units replace the count, with an exchange that  *)
(* is repeated until it succeeds.                                          *)
ResetCas(t) ==
    /\ pc[t] = "reset_cas"
    /\ old[t] >= 0
    /\ IF count = old[t]
       THEN count' = left[t] /\ ResetReturn(t)
       ELSE Expect(t, count) /\ UNCHANGED <<count, csec, pc, left>>
    /\ UNCHANGED <<waitlist, timed, waitdog, errcode, sigpend>>

-----------------------------------------------------------------------------
ResetStep(t) == ResetPost(t) \/ ResetRead(t) \/ ResetBreak(t) \/ ResetCas(t)

Step(t) ==
    /\ UNCHANGED use
    /\ \/ /\ UNCHANGED left
          /\ \/ TickEnter(t) \/ TryRead(t) \/ TryCas(t) \/ TrySlow(t) \/ TryFail(t)
             \/ WaitRead(t) \/ WaitCas(t) \/ WaitInterrupted(t) \/ WaitTake(t)
             \/ WaitBlock(t) \/ WaitResume(t)
             \/ PostRead(t) \/ PostCas(t) \/ PostSlow(t) \/ PostOverflow(t)
             \/ PostSlowCas(t)
       \/ ResetStep(t)

Next ==
    /\ UNCHANGED use
    /\ \E t \in Threads :
        \/ /\ UNCHANGED left
           /\ \/ Wait(t) \/ TryWait(t) \/ TickWait(t) \/ Post(t) \/ Consume(t)
              \/ Timeout(t) \/ Signal(t) \/ Cancel(t)
        \/ Step(t)
        \/ \E n \in ResetCounts : Reset(t, n)

Spec == Init /\ [][Next]_vars

(***************************************************************************)
(* Fairness.  A ready thread keeps running, the timer interrupt occurs,    *)
(* whoever keeps trying gets into the critical section, and an exchange    *)
(* that can succeed again and again does not lose every race.              *)
(***************************************************************************)
Exchange(t) ==
    /\ pc[t] \in {"try_cas", "wait_cas", "post_cas", "post_slow_cas", "reset_cas"}
    /\ count = old[t]
    /\ Step(t)

Fairness ==
    \A t \in Threads :
        SF_vars(Step(t)) /\ SF_vars(Exchange(t)) /\ SF_vars(Timeout(t))

FairSpec == Spec /\ Fairness

-----------------------------------------------------------------------------
(* Properties.                                                             *)

(* Outside the critical section a negative count is minus the number of    *)
(* waiting threads, which are exactly the blocked ones, and no thread      *)
(* waits while a unit is available.  Every path that changes one of the    *)
(* count and the list (wait, post, timeout, signal, cancellation, reset)   *)
(* has to change the other.                                                *)
CountIsWaiters ==
    /\ ToSet(waitlist) = {t \in Threads : pc[t] = "blocked"}
    /\ NoDuplicates(waitlist)
    /\ csec = None => Len(waitlist) = IF count < 0 THEN -count ELSE 0

(* A signal that comes while a thread is on its way into an interruptible  *)
(* wait is not missed: the thread does not sleep with the signal pending.  *)
SignalNotMissed ==
    \A t \in Threads : pc[t] = "blocked" /\ ~Uninterruptible => ~sigpend[t]

(* The count never exceeds the maximum value set for the semaphore; not so *)
(* if it is posted on the fast path.                                       *)
MaxRespected == count <= MaxValue

(* The state of a thread as the abstract semaphore sees it.                *)
AbsState(t) ==
    CASE pc[t] = "got" \/ (pc[t] = "woken" /\ errcode[t] = "OK") -> "has"
      [] InWait(t) /\ ~(pc[t] = "woken" /\ errcode[t] = "OK") -> "waiting"
      [] pc[t] \in {"post_read", "post_cas", "post_slow", "post_slow_cas"} -> "posting"
      [] pc[t] \in {"reset", "reset_cas"} -> "resetting"
      [] OTHER -> "idle"

Abs == INSTANCE Semaphore WITH
         value <- IF count > 0 THEN count ELSE 0,
         st <- [t \in Threads |-> AbsState(t)],
         rest <- left

(* The code implements a counting semaphore: no race of the lock-free      *)
(* paths with each other or with the slow ones, no timeout, signal or      *)
(* cancellation makes or loses a unit, every post gives one, and a reset   *)
(* to n gives n, to waiting threads and as the new value.  What a reset    *)
(* replaces with that value is lost, also a unit posted on the fast path   *)
(* after it began to hand units out (see ResetKeepsPosts).                 *)
UnitsConserved == Abs!Spec

(* A reset that handed units to waiting threads, and so found none         *)
(* available, replaces none when it ends; not so if another CPU posts on   *)
(* the fast path in between.  Stated for a single count to reset to.       *)
ResetKeepsPosts ==
    [][\A t \in Threads :
         pc[t] = "reset_cas" /\ pc'[t] = "idle" /\ left[t] \notin ResetCounts
            => count <= 0]_vars

(* nxsem_tickwait() returns.                                               *)
TimedWaitReturns == \A t \in Threads : timed[t] ~> ~timed[t]

(* nxsem_post() returns.                                                   *)
PostReturns ==
    \A t \in Threads :
        pc[t] \in {"post_read", "post_cas", "post_slow", "post_slow_cas"}
            ~> pc[t] = "idle"
=============================================================================
