----------------------------- MODULE WorkQueue ------------------------------
(***************************************************************************)
(* One kernel work queue (sched/wqueue): the pending list of delayed work, *)
(* the expired list of work to perform, the worker threads that wait on    *)
(* the semaphore of the queue, the watchdog that is set for the first      *)
(* pending work, and the threads, interrupt handlers and callbacks that    *)
(* queue and cancel work.                                                  *)
(*                                                                         *)
(* A step is one section under wqueue->lock.  The watchdog runs under the  *)
(* critical section instead: it is marked inactive before its function     *)
(* posts the semaphore, and a worker that only reads WDOG_ISACTIVE() can   *)
(* come in between, whereas whoever starts or cancels the watchdog cannot. *)
(*                                                                         *)
(* Times are relative to the current tick, so that a run need not end.     *)
(***************************************************************************)
EXTENDS PrioList, FiniteSets, FiniteSetsExt

CONSTANTS
    NThreads,  \* wqueue->nthreads
    Clients,   \* threads and interrupt handlers that use the queue
    Works,     \* the work structures
    Null,
    Delays,    \* the delays work is queued with
    SyncCallers,  \* the clients and workers that call work_cancel_sync()
    MaxSpin,   \* bound: ticks spent waiting for the lock in work_qqueue()
    MaxLate,   \* bound: ticks the dispatch of pending work may be late
    Horizon,   \* bound: ticks ahead that work is queued for
    SemCap     \* bound: no work is queued with that many units in wqueue->sem

Workers == 1 .. NThreads

Callers == Workers \cup Clients

ASSUME QueueConstants ==
    /\ NThreads \in Nat \ {0}
    /\ IsFiniteSet(Clients) /\ Clients \cap Workers = {}
    /\ Null \notin Callers \cup Works \cup Int
    /\ Null \notin [work : Works, on : Workers \cup {Null}]
    /\ Delays \subseteq Nat
    /\ SyncCallers \subseteq Callers
    /\ MaxSpin \in Nat /\ MaxLate \in Nat /\ Horizon \in Nat /\ SemCap \in Nat

VARIABLES
    pending,     \* wqueue->pending, in order of qtime
    expired,     \* wqueue->expired
    sem,         \* the units of wqueue->sem
    timer,       \* the expiration of wqueue->timer, Null if it is not active
    firing,      \* wd_expiration() is about to call work_timer_expired()
    freeing,     \* progress of work_queue_free()
    qtime,       \* work->qtime; Null stands for 0, that is never queued
    worker,      \* work->worker is not NULL: the work is queued
    pc,          \* where each worker thread stands in work_thread()
    kwork,       \* kworker->work
    wait_count,  \* kworker->wait_count
    wait,        \* the units of kworker->wait
    sync         \* the work_cancel_sync() a caller is inside, or Null

vars == <<pending, expired, sem, timer, firing, freeing, qtime, worker, pc,
          kwork, wait_count, wait, sync>>

lists == <<pending, expired, qtime, worker>>

workers == <<pc, kwork, wait_count, wait>>

(* wqueue->exit                                                            *)
Exit == freeing # "no"

TypeOK ==
    /\ pending \in Seq(Works) /\ expired \in Seq(Works)
    /\ sem \in Nat
    /\ timer \in Int \cup {Null}
    /\ firing \in BOOLEAN
    /\ freeing \in {"no", "exit", "join", "freed"}
    /\ qtime \in [Works -> Int \cup {Null}]
    /\ worker \in [Works -> BOOLEAN]
    /\ pc \in [Workers -> {"lock", "run", "wait", "exited"}]
    /\ kwork \in [Workers -> Works \cup {Null}]
    /\ wait_count \in [Workers -> Nat] /\ wait \in [Workers -> Nat]
    /\ sync \in [Callers -> [work : Works, on : Workers \cup {Null}] \cup {Null}]

Init ==
    /\ pending = <<>> /\ expired = <<>> /\ sem = 0
    /\ timer = Null /\ firing = FALSE /\ freeing = "no"
    /\ qtime = [w \in Works |-> Null]
    /\ worker = [w \in Works |-> FALSE]
    /\ pc = [k \in Workers |-> "lock"]
    /\ kwork = [k \in Workers |-> Null]
    /\ wait_count = [k \in Workers |-> 0]
    /\ wait = [k \in Workers |-> 0]
    /\ sync = [c \in Callers |-> Null]

(* The caller may make a call: a client, or a worker in a callback, that   *)
(* is not inside another one.                                              *)
CanCall(c) ==
    /\ freeing # "freed"
    /\ sync[c] = Null
    /\ c \in Workers => pc[c] = "run"

(* Only a callback reads work->qtime: its value is forgotten once the work *)
(* is not queued and no worker but K performs it.                          *)
Forget(w, K) ==
    qtime' = [qtime EXCEPT ![w] = IF \E k \in Workers \ K : kwork[k] = w
                                  THEN @ ELSE Null]

IsHead(list, w) == list # <<>> /\ Head(list) = w

-----------------------------------------------------------------------------
(* The watchdog of the queue.                                              *)

(* wd_start_abstick() and wd_cancel() wait for the critical section.       *)
StartTimer(t) == ~firing /\ timer' = t

(* Mutant of TimerReset: the timer keeps running for the work that left.   *)
TimerReset_Keeps(list) == ~firing /\ UNCHANGED timer

(* work_timer_reset() with this pending list.                              *)
TimerReset(list) ==
    StartTimer(IF list = <<>> THEN Null ELSE qtime[Head(list)])

(* wd_expiration() takes the watchdog off its list and marks it inactive,  *)
(* then calls work_timer_expired().                                        *)
Fire ==
    /\ timer # Null /\ timer <= 0 /\ ~firing
    /\ timer' = Null
    /\ firing' = TRUE
    /\ UNCHANGED <<lists, sem, freeing, workers, sync>>

(* Mutant of TimerExpired: nobody is woken up.                             *)
TimerExpired_NoPost ==
    /\ firing
    /\ firing' = FALSE
    /\ UNCHANGED <<lists, sem, timer, freeing, workers, sync>>

TimerExpired ==
    /\ firing
    /\ firing' = FALSE
    /\ sem' = sem + 1
    /\ UNCHANGED <<lists, timer, freeing, workers, sync>>

(* The clock.                                                              *)
Earlier(t) == IF t = Null THEN Null ELSE IF t > -MaxLate THEN t - 1 ELSE t

Tick ==
    /\ \A i \in 1 .. Len(pending) : qtime[pending[i]] > -MaxLate
    /\ timer # Null => timer > -MaxLate
    /\ qtime' = [w \in Works |-> Earlier(qtime[w])]
    /\ timer' = Earlier(timer)
    /\ UNCHANGED <<pending, expired, worker, sem, firing, freeing, workers,
                   sync>>

-----------------------------------------------------------------------------
(* work_queue() and work_queue_next().                                     *)

(* list_delete(), of a work that may be in the list.                       *)
Unlink(list, w) == IF w \in ToSet(list) THEN DqRem(list, w) ELSE list

(* work_insert_pending(): before the first work that expires later.        *)
InsertPending(list, w, q) ==
    AddPrioritized(list, w, [x \in Works |-> CASE x = w -> -q
                                               [] x # w /\ qtime[x] # Null -> -qtime[x]
                                               [] OTHER -> 0])

(* work_qqueue() from the lock on, with the expiration q.                  *)
Qqueue(w, q, delay) ==
    LET head == worker[w] /\ IsHead(pending, w)
        rest == Unlink(pending, w)
    IN  /\ ~Exit
        /\ sem < SemCap /\ (q # Null => q <= Horizon)
        /\ worker' = [worker EXCEPT ![w] = TRUE]
        /\ qtime' = [qtime EXCEPT ![w] = q]
        /\ \/ /\ delay > 0
              /\ pending' = InsertPending(rest, w, q)
              /\ expired' = Unlink(expired, w)
              /\ CASE IsHead(pending', w) -> StartTimer(q)
                   [] head /\ ~IsHead(pending', w) -> TimerReset(rest)
                   [] OTHER -> UNCHANGED timer
              /\ UNCHANGED sem
           \/ /\ delay = 0
              /\ pending' = rest
              /\ expired' = Append(Unlink(expired, w), w)
              /\ IF head THEN TimerReset(rest) ELSE UNCHANGED timer
              /\ sem' = sem + 1
        /\ UNCHANGED <<firing, freeing, workers, sync>>

(* work_queue(): the expiration is computed before the lock is taken, spin *)
(* ticks ago.                                                              *)
Queue(c, w, delay, spin) ==
    /\ CanCall(c)
    /\ Qqueue(w, IF delay = 0 THEN Null ELSE delay + 1 - spin, delay)

(* work_queue_next(), for the callback's own work.                         *)
QueueNext(k, delay) ==
    /\ CanCall(k)
    /\ LET w == kwork[k]
       IN  Qqueue(w, (IF qtime[w] = Null THEN 0 ELSE qtime[w]) + delay, delay)

-----------------------------------------------------------------------------
(* work_cancel() and work_cancel_sync().                                   *)

(* What work_qcancel() does to the lists.                                  *)
CancelQueued(w) ==
    IF worker[w]
    THEN /\ worker' = [worker EXCEPT ![w] = FALSE]
         /\ pending' = Unlink(pending, w)
         /\ expired' = Unlink(expired, w)
         /\ IF IsHead(pending, w) THEN TimerReset(Unlink(pending, w))
                                  ELSE UNCHANGED timer
         /\ Forget(w, {})
    ELSE UNCHANGED <<lists, timer>>

Cancel(c, w) ==
    /\ CanCall(c)
    /\ worker[w]
    /\ CancelQueued(w)
    /\ UNCHANGED <<sem, firing, freeing, workers, sync>>

(* Mutant of Running: a callback waits for itself.                         *)
Running_WithSelf(c, w) == {k \in Workers : kwork[k] = w}

(* The workers other than the caller that perform the work.                *)
Running(c, w) == {k \in Workers \ {c} : kwork[k] = w}

(* One turn of the loop of a synchronous cancellation: wait for the first  *)
(* worker that performs the work, or return.                               *)
Scan(c, w) ==
    /\ CancelQueued(w)
    /\ IF Running(c, w) = {}
       THEN /\ sync' = [sync EXCEPT ![c] = Null]
            /\ UNCHANGED wait_count
       ELSE LET k == Min(Running(c, w))
            IN  /\ wait_count' = [wait_count EXCEPT ![k] = @ + 1]
                /\ sync' = [sync EXCEPT ![c] = [work |-> w, on |-> k]]
    /\ UNCHANGED <<sem, firing, freeing, pc, kwork, wait>>

CancelSync(c, w) ==
    /\ c \in SyncCallers /\ CanCall(c)
    /\ c \in Clients => ~Exit    \* the handle must stay valid
    /\ Scan(c, w)

(* nxsem_wait_uninterruptible(sync_wait) returns.                          *)
SyncWake(c) ==
    /\ sync[c] # Null /\ sync[c].on # Null
    /\ wait[sync[c].on] > 0
    /\ wait' = [wait EXCEPT ![sync[c].on] = @ - 1]
    /\ sync' = [sync EXCEPT ![c].on = Null]
    /\ UNCHANGED <<lists, sem, timer, firing, freeing, pc, kwork, wait_count>>

(* Mutant of Rescan: the call returns after the first worker it waited for. *)
Rescan_ReturnsAtOnce(c) ==
    /\ sync[c] # Null /\ sync[c].on = Null
    /\ sync' = [sync EXCEPT ![c] = Null]
    /\ UNCHANGED <<lists, sem, timer, firing, freeing, workers>>

Rescan(c) ==
    /\ sync[c] # Null /\ sync[c].on = Null
    /\ Scan(c, sync[c].work)

-----------------------------------------------------------------------------
(* work_thread()                                                           *)

(* The number of pending works that work_dispatch() finds expired; it runs *)
(* only when the timer is not active.                                      *)
Due ==
    IF timer = Null
    THEN Cardinality({i \in 1 .. Len(pending) :
                        \A j \in 1 .. i : qtime[pending[j]] <= 0})
    ELSE 0

(* Mutant of DispatchPosts: the first work is taken to be somebody else's. *)
DispatchPosts_TwoLess(n) == IF n > 1 THEN n - 2 ELSE 0

(* work_dispatch() posts a unit for every work but the first, which the    *)
(* calling worker stands for.                                              *)
DispatchPosts(n) == IF n > 0 THEN n - 1 ELSE 0

(* The worker has the lock: it dispatches, takes the first expired work,   *)
(* which from now on may be queued again, or goes to wait.                 *)
TakeWork(k) ==
    LET rest == SubSeq(pending, Due + 1, Len(pending))
        list == expired \o SubSeq(pending, 1, Due)
    IN  /\ pc[k] = "lock" /\ ~Exit
        /\ pending' = rest
        /\ sem' = sem + DispatchPosts(Due)
        /\ IF timer = Null /\ rest # <<>> THEN TimerReset(rest)
                                          ELSE UNCHANGED timer
        /\ IF list = <<>>
           THEN /\ pc' = [pc EXCEPT ![k] = "wait"]
                /\ UNCHANGED <<expired, worker, kwork>>
           ELSE /\ expired' = Tail(list)
                /\ worker' = [worker EXCEPT ![Head(list)] = FALSE]
                /\ kwork' = [kwork EXCEPT ![k] = Head(list)]
                /\ pc' = [pc EXCEPT ![k] = "run"]
        /\ UNCHANGED <<qtime, firing, freeing, wait_count, wait, sync>>

(* Mutant of Waiters: one waiter is woken up, however many there are.      *)
Waiters_One(k) == IF wait_count[k] > 0 THEN 1 ELSE 0

(* The waiters that a worker wakes up after the callback.                  *)
Waiters(k) == wait_count[k]

(* The callback has returned: wake up who waits for it.                    *)
WorkDone(k) ==
    /\ pc[k] = "run" /\ sync[k] = Null
    /\ kwork' = [kwork EXCEPT ![k] = Null]
    /\ IF worker[kwork[k]] THEN UNCHANGED qtime ELSE Forget(kwork[k], {k})
    /\ wait' = [wait EXCEPT ![k] = @ + Waiters(k)]
    /\ wait_count' = [wait_count EXCEPT ![k] = 0]
    /\ pc' = [pc EXCEPT ![k] = IF Exit THEN "exited" ELSE "wait"]
    /\ UNCHANGED <<pending, expired, worker, sem, timer, firing, freeing, sync>>

(* nxsem_wait_uninterruptible(&wqueue->sem) returns.                       *)
WaitSem(k) ==
    /\ pc[k] = "wait" /\ sem > 0
    /\ sem' = sem - 1
    /\ pc' = [pc EXCEPT ![k] = "lock"]
    /\ UNCHANGED <<lists, timer, firing, freeing, kwork, wait_count, wait,
                   sync>>

(* The worker finds wqueue->exit set and posts wqueue->exsem.              *)
ThreadExit(k) ==
    /\ pc[k] = "lock" /\ Exit
    /\ pc' = [pc EXCEPT ![k] = "exited"]
    /\ UNCHANGED <<lists, sem, timer, firing, freeing, kwork, wait_count,
                   wait, sync>>

-----------------------------------------------------------------------------
(* work_queue_free(), by a client, when no other client is inside a call.  *)

FreeExit ==
    /\ freeing = "no"
    /\ \A c \in Clients : sync[c] = Null
    /\ freeing' = "exit"
    /\ pending' = <<>> /\ expired' = <<>>
    /\ worker' = [w \in Works |-> FALSE]
    /\ qtime' = [w \in Works |-> Null]
    /\ UNCHANGED <<sem, timer, firing, workers, sync>>

(* Mutant of FreeCancel: the watchdog is left running.                     *)
FreeCancel_KeepsTimer ==
    /\ freeing = "exit"
    /\ sem' = sem + NThreads
    /\ freeing' = "join"
    /\ UNCHANGED <<lists, timer, firing, workers, sync>>

(* Mutant of FreeCancel: a unit for one worker.                            *)
FreeCancel_OnePost ==
    /\ freeing = "exit"
    /\ StartTimer(Null)
    /\ sem' = sem + 1
    /\ freeing' = "join"
    /\ UNCHANGED <<lists, firing, workers, sync>>

(* wd_cancel(), then a unit for every worker.                              *)
FreeCancel ==
    /\ freeing = "exit"
    /\ StartTimer(Null)
    /\ sem' = sem + NThreads
    /\ freeing' = "join"
    /\ UNCHANGED <<lists, firing, workers, sync>>

(* All workers have posted wqueue->exsem: the memory is freed.             *)
FreeJoin ==
    /\ freeing = "join"
    /\ \A k \in Workers : pc[k] = "exited"
    /\ freeing' = "freed"
    /\ UNCHANGED <<lists, sem, timer, firing, workers, sync>>

-----------------------------------------------------------------------------
Call(c) ==
    \E w \in Works :
        \/ \E d \in Delays, s \in 0 .. MaxSpin : Queue(c, w, d, s)
        \/ Cancel(c, w)
        \/ CancelSync(c, w)

Thread(k) == TakeWork(k) \/ WorkDone(k) \/ WaitSem(k) \/ ThreadExit(k)

Next ==
    \/ \E c \in Callers : Call(c) \/ SyncWake(c) \/ Rescan(c)
    \/ \E k \in Workers : Thread(k) \/ \E d \in Delays : QueueNext(k, d)
    \/ Fire \/ TimerExpired \/ Tick
    \/ FreeExit \/ FreeCancel \/ FreeJoin

Spec == Init /\ [][Next]_vars

(***************************************************************************)
(* Fairness.  Worker threads and callers are scheduled, callbacks return,  *)
(* and the timer interrupt occurs.  Strong fairness where a step competes  *)
(* for a semaphore, or for the watchdog, with other threads.               *)
(***************************************************************************)
Fairness ==
    /\ \A k \in Workers : SF_vars(Thread(k))
    /\ \A c \in Callers : SF_vars(SyncWake(c)) /\ SF_vars(Rescan(c))
    /\ WF_vars(Fire) /\ WF_vars(TimerExpired) /\ SF_vars(Tick)
    /\ WF_vars(FreeCancel) /\ WF_vars(FreeJoin)

FairSpec == Spec /\ Fairness

-----------------------------------------------------------------------------
(* Properties.                                                             *)

(* work->worker tells whether the work stands in one of the two lists,     *)
(* once; the pending list is in order of expiration; and the active timer  *)
(* is the one of the first pending work, whatever work was queued again,   *)
(* cancelled or dispatched since it was started.                           *)
QueueConsistent ==
    /\ TypeOK
    /\ NoDuplicates(pending \o expired)
    /\ ToSet(pending \o expired) = {w \in Works : worker[w]}
    /\ \A i, j \in 1 .. Len(pending) :
          i < j => qtime[pending[i]] <= qtime[pending[j]]
    /\ timer # Null /\ ~Exit =>
          pending # <<>> /\ timer = qtime[Head(pending)]

(* Nothing waits for ever in the expired list with all workers asleep:     *)
(* units, workers that are about to look and the timer function that is    *)
(* about to post are enough for the expired work, and for the pending work *)
(* once the timer has expired.  A worker takes one work per unit, and      *)
(* work_dispatch() posts one unit less than the work it moves.             *)
WakeupsSuffice ==
    ~Exit =>
        sem + Cardinality({k \in Workers : pc[k] = "lock"})
            + (IF firing THEN 1 ELSE 0)
          >= Len(expired) + (IF timer = Null /\ pending # <<>> THEN 1 ELSE 0)

(* When work_cancel_sync() returns after waiting, the work is not queued   *)
(* and no worker performs it (but the caller), although work may be queued *)
(* again while it is performed, and be performed by several workers.       *)
CancelledQuiet ==
    [][\A c \in Callers :
         sync[c] # Null /\ sync'[c] = Null =>
            /\ ~worker'[sync[c].work]
            /\ \A k \in Workers \ {c} : kwork'[k] # sync[c].work]_vars

(* Nobody waits in work_cancel_sync() for a callback that has returned:    *)
(* every waiter has a unit or is counted by the worker it waits for.       *)
WaitersCounted ==
    \A k \in Workers :
        /\ Cardinality({c \in Callers : sync[c] # Null /\ sync[c].on = k})
             = wait_count[k] + wait[k]
        /\ kwork[k] = Null => wait_count[k] = 0

(* Nothing touches a work queue that was freed: workers, waiters and the   *)
(* watchdog are gone.                                                      *)
FreedUnused ==
    freeing = "freed" =>
        /\ \A k \in Workers : pc[k] = "exited"
        /\ \A c \in Callers : sync[c] = Null
        /\ timer = Null /\ ~firing

(* The work is queued again, which may put it off.                         *)
QueuedAgain(w) ==
    \E c \in Callers, d \in Delays :
        \/ \E s \in 0 .. MaxSpin : Queue(c, w, d, s)
        \/ c \in Workers /\ kwork[c] = w /\ QueueNext(c, d)

(* Queued work is performed or cancelled, unless it is queued again and    *)
(* again.                                                                  *)
WorkPerformed ==
    \A w \in Works :
        \/ worker[w] ~> ~worker[w]
        \/ []<><<QueuedAgain(w)>>_vars

(* work_cancel_sync() returns, unless the work is queued again and again.  *)
(* Not so with several SyncCallers: their callbacks may wait for each      *)
(* other.                                                                  *)
CancelReturns ==
    \A c \in Callers :
        \/ sync[c] # Null ~> sync[c] = Null
        \/ \E w \in Works : []<><<QueuedAgain(w)>>_vars

(* work_queue_free() returns, with workers asleep, busy or waiting.        *)
FreeReturns == freeing = "exit" ~> freeing = "freed"
=============================================================================
