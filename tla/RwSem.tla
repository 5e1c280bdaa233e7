------------------------------- MODULE RwSem --------------------------------
(***************************************************************************)
(* The reader-writer semaphore of sched/semaphore/sem_rw.c.  Its fields    *)
(* are changed under the mutex rwsem->protected: a step is what a thread   *)
(* does from nxmutex_lock() to nxmutex_unlock().  A thread that has to     *)
(* wait counts itself in rwsem->waiter and gives the mutex up; it calls    *)
(* nxsem_wait(&rwsem->waiting) in a step of its own, and takes the mutex   *)
(* and looks again in another one.                                         *)
(*                                                                         *)
(* The callers keep the rules: they release what they hold, and do not ask *)
(* for the write lock while they hold a read lock.                         *)
(***************************************************************************)
EXTENDS Integers, FiniteSetsExt, Functions

CONSTANTS
    Threads,
    NoHolder,   \* RWSEM_NO_HOLDER
    MaxNest,    \* bound: how often a thread holds the lock at once
    MaxUnits    \* bound: the lock is not contended with that many units

ASSUME RwConstants ==
    /\ IsFiniteSet(Threads)
    /\ NoHolder \notin Threads
    /\ MaxNest \in Nat /\ MaxUnits \in Nat

VARIABLES
    reader,   \* rwsem->reader
    writer,   \* rwsem->writer
    waiter,   \* rwsem->waiter
    holder,   \* rwsem->holder
    units,    \* the units of rwsem->waiting
    pc,       \* what a thread does: "idle", or the call it waits in
    at,       \* where it is then: before, in or past nxsem_wait()
    reads,    \* the read locks a thread holds
    writes    \* the write locks, and the read locks converted to them

vars == <<reader, writer, waiter, holder, units, pc, at, reads, writes>>

TypeOK ==
    /\ reader \in Nat /\ writer \in Nat /\ waiter \in Nat
    /\ holder \in Threads \cup {NoHolder}
    /\ units \in Nat
    /\ pc \in [Threads -> {"idle", "down_read", "down_write"}]
    /\ at \in [Threads -> {"before", "asleep", "woken"}]
    /\ reads \in [Threads -> Nat] /\ writes \in [Threads -> Nat]

(* init_rwsem()                                                            *)
Init ==
    /\ reader = 0 /\ writer = 0 /\ waiter = 0 /\ holder = NoHolder
    /\ units = 0
    /\ pc = [t \in Threads |-> "idle"]
    /\ at = [t \in Threads |-> "before"]
    /\ reads = [t \in Threads |-> 0]
    /\ writes = [t \in Threads |-> 0]

Asleep == {t \in Threads : pc[t] # "idle" /\ at[t] = "asleep"}

(* Threads that sleep in nxsem_wait() get the first units posted.          *)
Posted(n) ==
    \E W \in SUBSET Asleep :
        /\ Cardinality(W) = Min({n, Cardinality(Asleep)})
        /\ at' = [t \in Threads |-> IF t \in W THEN "woken" ELSE at[t]]
        /\ units' = units + n - Cardinality(W)

(* Mutant of UpWait: one waiter is woken up, however many there are.       *)
UpWait_One == Posted(Min({1, waiter}))

(* Mutant of UpWait: the loop ends one post early.                         *)
UpWait_OneLess == Posted(Max({0, waiter - 1}))

(* up_wait()                                                               *)
UpWait == Posted(waiter)

-----------------------------------------------------------------------------
(* The thread gets the lock, as reader or as (recursive) writer.           *)

TakeRead(t) ==
    /\ reader' = reader + 1
    /\ reads' = [reads EXCEPT ![t] = @ + 1]
    /\ UNCHANGED <<writer, holder, writes>>

TakeWrite(t) ==
    /\ writer' = writer + 1
    /\ holder' = t
    /\ writes' = [writes EXCEPT ![t] = @ + 1]
    /\ UNCHANGED <<reader, reads>>

(* The condition under which down_write() does not wait.                   *)
MayWrite(t) == reader = 0 /\ (writer = 0 \/ holder = t)

(* down_read() with the mutex taken: n waiters are counted so far.         *)
Read(t, n) ==
    \/ /\ holder = t
       /\ TakeWrite(t)
       /\ waiter' = n /\ pc' = [pc EXCEPT ![t] = "idle"]
    \/ /\ holder # t /\ writer = 0
       /\ TakeRead(t)
       /\ waiter' = n /\ pc' = [pc EXCEPT ![t] = "idle"]
    \/ /\ holder # t /\ writer > 0
       /\ waiter' = n + 1 /\ pc' = [pc EXCEPT ![t] = "down_read"]
       /\ UNCHANGED <<reader, writer, holder, reads, writes>>

(* down_write(), likewise.                                                 *)
Write(t, n) ==
    \/ /\ MayWrite(t)
       /\ TakeWrite(t)
       /\ waiter' = n /\ pc' = [pc EXCEPT ![t] = "idle"]
    \/ /\ ~MayWrite(t)
       /\ waiter' = n + 1 /\ pc' = [pc EXCEPT ![t] = "down_write"]
       /\ UNCHANGED <<reader, writer, holder, reads, writes>>

(* The thread may ask for the lock once more.                              *)
MayAsk(t) ==
    /\ pc[t] = "idle"
    /\ reads[t] + writes[t] < MaxNest
    /\ units < MaxUnits \/ reader + writer + waiter = 0

DownRead(t) == MayAsk(t) /\ Read(t, waiter) /\ UNCHANGED <<units, at>>

DownWrite(t) ==
    /\ MayAsk(t) /\ reads[t] = 0
    /\ Write(t, waiter)
    /\ UNCHANGED <<units, at>>

(* down_read_trylock()                                                     *)
DownReadTrylock(t) ==
    /\ MayAsk(t)
    /\ IF holder = t THEN TakeWrite(t) ELSE writer = 0 /\ TakeRead(t)
    /\ UNCHANGED <<waiter, units, pc, at>>

(* down_write_trylock(), also by a reader: then it fails.                  *)
DownWriteTrylock(t) ==
    /\ MayAsk(t)
    /\ ~(reader > 0 \/ (writer > 0 /\ holder # t))
    /\ TakeWrite(t)
    /\ UNCHANGED <<waiter, units, pc, at>>

(* nxsem_wait(&rwsem->waiting) takes a unit, or the thread falls asleep.   *)
Wait(t) ==
    /\ pc[t] # "idle" /\ at[t] = "before"
    /\ IF units > 0
         THEN units' = units - 1 /\ at' = [at EXCEPT ![t] = "woken"]
         ELSE units' = units /\ at' = [at EXCEPT ![t] = "asleep"]
    /\ UNCHANGED <<reader, writer, waiter, holder, pc, reads, writes>>

(* A signal ends the wait, and the result of nxsem_wait() is not looked at.*)
WaitSignal(t) ==
    /\ t \in Asleep
    /\ at' = [at EXCEPT ![t] = "woken"]
    /\ UNCHANGED <<reader, writer, waiter, holder, units, pc, reads, writes>>

(* Mutant of Recheck: what was waited for is taken to be the case.         *)
Recheck_Trusts(t) ==
    /\ at[t] = "woken"
    /\ at' = [at EXCEPT ![t] = "before"]
    /\ IF pc[t] = "down_read" THEN TakeRead(t) ELSE TakeWrite(t)
    /\ waiter' = waiter - 1 /\ pc' = [pc EXCEPT ![t] = "idle"]
    /\ UNCHANGED units

(* The thread has the mutex again and looks once more.                     *)
Recheck(t) ==
    /\ at[t] = "woken"
    /\ at' = [at EXCEPT ![t] = "before"]
    /\ IF pc[t] = "down_read" THEN Read(t, waiter - 1) ELSE Write(t, waiter - 1)
    /\ UNCHANGED units

-----------------------------------------------------------------------------
(* Mutant of DropWrite: the holder is forgotten at the first release.      *)
DropWrite_ForgetsHolder(t) ==
    /\ writer' = writer - 1
    /\ writes' = [writes EXCEPT ![t] = @ - 1]
    /\ holder' = NoHolder
    /\ IF writer' <= 0 THEN UpWait ELSE UNCHANGED <<units, at>>
    /\ UNCHANGED <<reader, waiter, pc, reads>>

(* The last level of the write lock is released: the holder is forgotten.  *)
DropWrite(t) ==
    /\ writer' = writer - 1
    /\ writes' = [writes EXCEPT ![t] = @ - 1]
    /\ IF writer' <= 0 THEN holder' = NoHolder /\ UpWait
                       ELSE UNCHANGED <<holder, units, at>>
    /\ UNCHANGED <<reader, waiter, pc, reads>>

(* up_read(): of a read lock, or of one that was converted.                *)
UpRead(t) ==
    /\ pc[t] = "idle"
    /\ \/ holder = t /\ writes[t] > 0 /\ DropWrite(t)
       \/ /\ holder # t /\ reads[t] > 0
          /\ reader' = reader - 1
          /\ reads' = [reads EXCEPT ![t] = @ - 1]
          /\ IF reader' <= 0 THEN UpWait ELSE UNCHANGED <<units, at>>
          /\ UNCHANGED <<writer, waiter, holder, pc, writes>>

(* up_write()                                                              *)
UpWrite(t) == pc[t] = "idle" /\ writes[t] > 0 /\ DropWrite(t)

(* downgrade_write()                                                       *)
DowngradeWrite(t) ==
    /\ pc[t] = "idle" /\ writes[t] = 1
    /\ writer' = 0 /\ reader' = reader + 1 /\ holder' = NoHolder
    /\ writes' = [writes EXCEPT ![t] = 0]
    /\ reads' = [reads EXCEPT ![t] = @ + 1]
    /\ UpWait
    /\ UNCHANGED <<waiter, pc>>

-----------------------------------------------------------------------------
Release(t) == UpRead(t) \/ UpWrite(t) \/ DowngradeWrite(t)

Next ==
    \E t \in Threads :
        \/ DownRead(t) \/ DownWrite(t)
        \/ DownReadTrylock(t) \/ DownWriteTrylock(t)
        \/ Wait(t) \/ WaitSignal(t) \/ Recheck(t)
        \/ Release(t)

Spec == Init /\ [][Next]_vars

(***************************************************************************)
(* Fairness.  Threads run, get the mutex, and release what they hold.      *)
(* Nobody need ask for the lock, and no signal need come.                  *)
(***************************************************************************)
Fairness ==
    \A t \in Threads :
        /\ WF_vars(Wait(t)) /\ WF_vars(Recheck(t))
        /\ WF_vars(UpRead(t) \/ UpWrite(t))

FairSpec == Spec /\ Fairness

-----------------------------------------------------------------------------
(* Properties.                                                             *)

(* One thread writes, or any number reads: a thread that waited and looked *)
(* again decides on what is true when it gets the lock.                    *)
Exclusion ==
    \A t, u \in Threads :
        writes[t] > 0 /\ u # t => writes[u] = 0 /\ reads[u] = 0

(* The fields agree with what the threads hold, also after conversions of  *)
(* read locks, downgrades and releases out of order.                       *)
FieldsAgree ==
    /\ TypeOK
    /\ reader = FoldFunction(LAMBDA a, b : a + b, 0, reads)
    /\ writer = FoldFunction(LAMBDA a, b : a + b, 0, writes)
    /\ waiter = Cardinality({t \in Threads : pc[t] # "idle"})
    /\ \A t \in Threads : holder = t <=> writes[t] > 0

(* Nobody sleeps on a free lock, also a thread that looked at the lock     *)
(* before it was released and calls nxsem_wait() afterwards.               *)
NoLostWakeup ==
    reader = 0 /\ writer = 0 => Asleep = {}

(* down_read() and down_write() return, unless other threads take the lock *)
(* again and again.                                                        *)
Served ==
    \A t \in Threads :
        \/ pc[t] # "idle" ~> pc[t] = "idle"
        \/ []<><<reader' + writer' > reader + writer>>_vars
=============================================================================
