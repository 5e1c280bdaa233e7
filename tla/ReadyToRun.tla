----------------------------- MODULE ReadyToRun -----------------------------
(***************************************************************************)
(* The scheduler of a single-CPU build (CONFIG_SMP=n, with a periodic tick *)
(* and CONFIG_RR_INTERVAL > 0): the ready-to-run list, whose head is the   *)
(* running task, the pending list, which collects the tasks that could not *)
(* preempt a task with preemption disabled, task states, lock counts,      *)
(* priorities and round-robin time slices.                                 *)
(*                                                                         *)
(* Every operation runs with interrupts disabled, so it is one step.  The  *)
(* running task takes the steps of a task; waking, reprioritizing and the  *)
(* tick may also come from an interrupt.  What a blocked task waits for is *)
(* not modelled, except that a wait on a semaphore with a priority         *)
(* protocol touches the lock count.                                        *)
(***************************************************************************)
EXTENDS PrioList

CONSTANTS
    Tasks,      \* the tasks that come and go
    Idle,       \* the IDLE task: priority 0, always ready
    Prios,      \* the priorities tasks are given
    Protocols,  \* the protocols of the semaphores waited on: SEM_PRIO_NONE,
                \* SEM_PRIO_INHERIT, SEM_PRIO_PROTECT
    Slice,      \* MSEC2TICK(CONFIG_RR_INTERVAL)
    MaxLock,    \* bound: how deep tasks nest sched_lock()
    Watched     \* the tasks the liveness property is checked for: all, or one
                \* of several interchangeable ones

ASSUME SchedConstants ==
    /\ Idle \notin Tasks
    /\ Prios \subseteq Nat \ {0}
    /\ Protocols \subseteq {"none", "inherit", "protect"}
    /\ Slice \in Nat \ {0}
    /\ MaxLock \in Nat
    /\ Watched \subseteq Tasks

All == Tasks \cup {Idle}

VARIABLES
    readytorun,  \* g_readytorun
    pending,     \* g_pendingtasks
    state,       \* tcb->task_state
    lockcount,   \* tcb->lockcount
    prio,        \* tcb->sched_priority
    timeslice,   \* tcb->timeslice
    resume       \* the protocol of the semaphore wait the task is inside

vars == <<readytorun, pending, state, lockcount, prio, timeslice, resume>>

States == {"pending", "readytorun", "running", "inactive", "blocked", "stopped"}

TypeOK ==
    /\ readytorun \in Seq(All)
    /\ pending \in Seq(Tasks)
    /\ state \in [All -> States]
    /\ lockcount \in [All -> Int]
    /\ prio \in [All -> Prios \cup {0}]
    /\ timeslice \in [All -> 0 .. Slice]
    /\ resume \in [All -> Protocols \cup {"none"}]

(* nx_start(): the IDLE task runs, with preemption disabled until it has   *)
(* created the first tasks.                                                *)
Init ==
    /\ readytorun = <<Idle>>
    /\ pending = <<>>
    /\ state = [t \in All |-> IF t = Idle THEN "running" ELSE "inactive"]
    /\ lockcount = [t \in All |-> IF t = Idle THEN 1 ELSE 0]
    /\ prio = [t \in All |-> IF t = Idle THEN 0 ELSE Min(Prios)]
    /\ timeslice = [t \in All |-> IF t = Idle THEN 0 ELSE Slice]
    /\ resume = [t \in All |-> "none"]

(* this_task()                                                             *)
Running == Head(readytorun)

-----------------------------------------------------------------------------
(* The list operations, on records of the two lists and the task states.   *)

Queues == [rtr |-> readytorun, pend |-> pending, st |-> state]

Install(q) == readytorun' = q.rtr /\ pending' = q.pend /\ state' = q.st

(* nxsched_add_readytorun(): a task that would preempt a locked one is     *)
(* pending; the new head of the ready-to-run list is running.              *)
AddReadyToRun(q, t, pr, lock) ==
    LET r == Head(q.rtr)
        l == AddPrioritized(q.rtr, t, pr)
    IN  IF lock[r] > 0 /\ pr[r] < pr[t]
        THEN [q EXCEPT !.pend = AddPrioritized(@, t, pr), !.st[t] = "pending"]
        ELSE IF l[1] = t
        THEN [q EXCEPT !.rtr = l,
                       !.st = [@ EXCEPT ![t] = "running", ![l[2]] = "readytorun"]]
        ELSE [q EXCEPT !.rtr = l, !.st[t] = "readytorun"]

(* nxsched_remove_readytorun(), and the state the caller gives the task.   *)
RemoveReadyToRun(q, t, s) ==
    CASE t = Head(q.rtr) ->
           [q EXCEPT !.rtr = Tail(@),
                     !.st = [@ EXCEPT ![t] = s, ![q.rtr[2]] = "running"]]
      [] t \in ToSet(Tail(q.rtr)) -> [q EXCEPT !.rtr = DqRem(@, t), !.st[t] = s]
      [] t \in ToSet(q.pend) -> [q EXCEPT !.pend = DqRem(@, t), !.st[t] = s]
      [] OTHER -> [q EXCEPT !.st[t] = s]

(* One turn of the loop of nxsched_merge_pending(): the walk goes on from  *)
(* the task at place m.at, past every task of priority p or more.          *)
MergeOne(m, t, pr) ==
    LET l == m.q.rtr
        k == CHOOSE i \in m.at .. Len(l) :
                /\ pr[l[i]] < pr[t]
                /\ \A j \in m.at .. i - 1 : pr[t] <= pr[l[j]]
    IN  [at |-> k,
         q  |-> [m.q EXCEPT !.rtr = InsertAt(l, k, t),
                            !.st = IF k = 1
                                   THEN [@ EXCEPT ![l[1]] = "readytorun",
                                                  ![t] = "running"]
                                   ELSE [@ EXCEPT ![t] = "readytorun"]]]

(* The turns of that loop, one for each task of the pending list.          *)
Turns(q, pr) ==
    LET m[i \in 0 .. Len(q.pend)] ==
          IF i = 0 THEN [at |-> 1, q |-> q] ELSE MergeOne(m[i - 1], q.pend[i], pr)
    IN  m

(* nxsched_merge_pending()                                                 *)
MergePending(q, pr, lock) ==
    IF lock[Head(q.rtr)] > 0 THEN q
    ELSE [Turns(q, pr)[Len(q.pend)].q EXCEPT !.pend = <<>>]

(* Mutant of RemoveSelf: the pending list is left alone.                   *)
RemoveSelf_NoMerge(q, t, s, pr, lock) == RemoveReadyToRun(q, t, s)

(* nxsched_remove_self()                                                   *)
RemoveSelf(q, t, s, pr, lock) == MergePending(RemoveReadyToRun(q, t, s), pr, lock)

(* nxsched_reprioritize_rtr(): the head changes if exactly one of the      *)
(* removal and the insertion changes it, and then pending tasks are merged.*)
ReprioritizeRtr(q, t, pr, lock) ==
    LET removed == RemoveReadyToRun(q, t, "invalid")
        added == AddReadyToRun(removed, t, pr, lock)
    IN  IF Head(added.rtr) # Head(q.rtr) THEN MergePending(added, pr, lock)
        ELSE added

-----------------------------------------------------------------------------
(* Steps of the running task.  A task that returns from a semaphore wait   *)
(* first ends it (Resume).                                                 *)

Free(r) == r = Running /\ resume[r] = "none"

SchedLock(r) ==
    /\ Free(r)
    /\ lockcount[r] < MaxLock
    /\ lockcount' = [lockcount EXCEPT ![r] = @ + 1]
    /\ UNCHANGED <<readytorun, pending, state, prio, timeslice, resume>>

(* sched_unlock(): with the last lock gone the pending tasks are merged.   *)
(* What the code does to the slice of a task that is thereby replaced it   *)
(* does after up_switch_context(), when the task is running again, and     *)
(* then its condition, rtcb != this_task(), is false.                      *)
Unlock(r) ==
    LET lock == [lockcount EXCEPT ![r] = @ - 1]
    IN  /\ lockcount' = lock
        /\ Install(IF lockcount[r] = 1 THEN MergePending(Queues, prio, lock)
                   ELSE Queues)
        /\ UNCHANGED <<prio, timeslice>>

SchedUnlock(r) == Free(r) /\ lockcount[r] > 0 /\ Unlock(r) /\ UNCHANGED resume

(* Mutant of Block: no lock is taken for the sched_unlock() of Resume.     *)
Block_NoLock(r, protocol) ==
    /\ Free(r) /\ r # Idle
    /\ Install(RemoveSelf(Queues, r, "blocked", prio, lockcount))
    /\ resume' = [resume EXCEPT ![r] = protocol]
    /\ UNCHANGED <<lockcount, prio, timeslice>>

(* nxsem_wait_slow() blocks the task, after a sched_lock() if the protocol *)
(* is priority inheritance.  With SEM_PRIO_NONE this stands for every      *)
(* other wait too: for a signal, a message, an event, or for time to pass. *)
Block(r, protocol) ==
    /\ Free(r) /\ r # Idle
    /\ LET lock == [lockcount EXCEPT ![r] = @ + IF protocol = "inherit" THEN 1 ELSE 0]
       IN  /\ lockcount' = lock
           /\ Install(RemoveSelf(Queues, r, "blocked", prio, lock))
    /\ resume' = [resume EXCEPT ![r] = protocol]
    /\ UNCHANGED <<prio, timeslice>>

(* nxsem_wait_slow() returns after up_switch_context(), with a             *)
(* sched_unlock() if there is a protocol.                                  *)
Resume(r) ==
    /\ r = Running
    /\ resume[r] # "none"
    /\ Unlock(r)
    /\ resume' = [resume EXCEPT ![r] = "none"]

(* The TCB of a task that is gone, or is not yet activated.                *)
Reset(t) ==
    /\ lockcount' = [lockcount EXCEPT ![t] = 0]
    /\ timeslice' = [timeslice EXCEPT ![t] = Slice]
    /\ resume' = [resume EXCEPT ![t] = "none"]

(* nxtask_exit().  While the TCB is released the next task has preemption  *)
(* disabled; the release may wake a task (W), a vfork() parent.            *)
Exit(r, W) ==
    LET q1 == RemoveSelf(Queues, r, "inactive", prio, lockcount)
        n == Head(q1.rtr)
        q2 == [q1 EXCEPT !.st[n] = "readytorun"]
        lock == [lockcount EXCEPT ![n] = @ + 1]
        q3 == IF W = {} THEN q2
              ELSE AddReadyToRun(q2, CHOOSE w \in W : TRUE, prio, lock)
        q4 == [q3 EXCEPT !.st[n] = "running"]
    IN  /\ Free(r) /\ r # Idle
        /\ Install(MergePending(q4, prio, lockcount))
        /\ Reset(r)
        /\ UNCHANGED prio

(* nxtask_terminate(): another task is deleted.                            *)
Terminate(t) ==
    /\ resume[Running] = "none"
    /\ t # Running /\ state[t] # "inactive"
    /\ Install(RemoveReadyToRun(Queues, t, "inactive"))
    /\ Reset(t)
    /\ UNCHANGED prio

(* nxtask_setup_scheduler() and nxtask_activate() of a new task.           *)
Activate(t, p) ==
    /\ resume[Running] = "none"
    /\ state[t] = "inactive"
    /\ prio' = [prio EXCEPT ![t] = p]
    /\ Install(AddReadyToRun(Queues, t, prio', lockcount))
    /\ UNCHANGED <<lockcount, timeslice, resume>>

(* nxsched_suspend(): the task is stopped in whatever state it is.         *)
Suspend(t) ==
    /\ resume[Running] = "none"
    /\ state[t] \notin {"inactive", "stopped"}
    /\ LET q == RemoveReadyToRun(Queues, t, "stopped")
       IN  Install(IF t = Running THEN MergePending(q, prio, lockcount) ELSE q)
    /\ UNCHANGED <<lockcount, prio, timeslice, resume>>

-----------------------------------------------------------------------------
(* Steps of the running task or of an interrupt handler.                   *)

(* A wait ends, or SIGCONT resumes a stopped task.                         *)
Wake(t) ==
    /\ state[t] \in {"blocked", "stopped"}
    /\ Install(AddReadyToRun(Queues, t, prio, lockcount))
    /\ UNCHANGED <<lockcount, prio, timeslice, resume>>

(* nxsched_add_prioritized() of the tasks us, one after the other.         *)
AddAll(list, us, pr) ==
    LET l[i \in 0 .. Len(us)] ==
          IF i = 0 THEN list ELSE AddPrioritized(l[i - 1], us[i], pr)
    IN  l

(* The loop of nxsched_running_setpriority(): the first task after the     *)
(* running one, and then every one of a priority above p, moves to the     *)
(* pending list; n is the place of the last.                               *)
MoveToPending(q, p, pr) ==
    LET n == CHOOSE i \in 2 .. Len(q.rtr) - 1 :
               /\ \A j \in 3 .. i : p < pr[q.rtr[j]]
               /\ pr[q.rtr[i + 1]] <= p
        moved == SubSeq(q.rtr, 2, n)
    IN  [rtr  |-> <<Head(q.rtr)>> \o SubSeq(q.rtr, n + 1, Len(q.rtr)),
         pend |-> AddAll(q.pend, moved, pr)[Len(moved)],
         st   |-> [u \in All |-> IF u \in ToSet(moved) THEN "pending" ELSE q.st[u]]]

(* Mutant of SetRunning: the lock is not looked at.                        *)
SetRunning_IgnoresLock(t, p, pr) ==
    IF p > prio[readytorun[2]] THEN Queues
    ELSE ReprioritizeRtr(Queues, t, pr, [u \in All |-> 0])

(* nxsched_running_setpriority(): a task of lower priority than the next   *)
(* one, or of the same, gives up the CPU, unless preemption is disabled.   *)
SetRunning(t, p, pr) ==
    CASE p > prio[readytorun[2]] -> Queues
      [] p <= prio[readytorun[2]] /\ lockcount[t] > 0 -> MoveToPending(Queues, p, prio)
      [] OTHER -> ReprioritizeRtr(Queues, t, pr, lockcount)

(* Mutant of SetPriority: a pending task keeps its place.                  *)
SetPriority_NoRequeue(t, p) ==
    LET pr == [prio EXCEPT ![t] = p]
    IN  /\ state[t] # "inactive"
        /\ prio' = pr
        /\ Install(CASE state[t] = "running" -> SetRunning(t, p, pr)
                     [] state[t] = "readytorun" ->
                          ReprioritizeRtr(Queues, t, pr, lockcount)
                     [] OTHER -> Queues)
        /\ UNCHANGED <<lockcount, timeslice, resume>>

(* nxsched_set_priority(), also called by sched_yield() and by priority    *)
(* inheritance.  A task in the pending list is moved within that list.     *)
SetPriority(t, p) ==
    LET pr == [prio EXCEPT ![t] = p]
    IN  /\ state[t] # "inactive"
        /\ prio' = pr
        /\ Install(CASE state[t] = "running" -> SetRunning(t, p, pr)
                     [] state[t] = "readytorun" ->
                          ReprioritizeRtr(Queues, t, pr, lockcount)
                     [] state[t] = "pending" ->
                          [Queues EXCEPT !.pend =
                             AddPrioritized(DqRem(@, t), t, pr)]
                     [] OTHER -> Queues)
        /\ UNCHANGED <<lockcount, timeslice, resume>>

(* Mutant of Tick: the task gets a new slice and goes on.                  *)
Tick_NoSwitch ==
    /\ Running # Idle
    /\ timeslice' = [timeslice EXCEPT ![Running] = IF @ > 1 THEN @ - 1 ELSE Slice]
    /\ UNCHANGED <<readytorun, pending, state, lockcount, prio, resume>>

(* nxsched_process_roundrobin() of the running task at a tick: when its    *)
(* slice has run out and it may be preempted it gets a new one and goes    *)
(* behind the tasks of its priority.                                       *)
Tick ==
    LET r == Running
        left == IF timeslice[r] > 0 THEN timeslice[r] - 1 ELSE 0
        expired == left = 0 /\ lockcount[r] <= 0
    IN  /\ r # Idle
        /\ timeslice' = [timeslice EXCEPT ![r] = IF expired THEN Slice ELSE left]
        /\ Install(IF expired /\ prio[readytorun[2]] >= prio[r]
                   THEN ReprioritizeRtr(Queues, r, prio, lockcount) ELSE Queues)
        /\ UNCHANGED <<lockcount, prio, resume>>

-----------------------------------------------------------------------------
Next ==
    \/ \E r \in All : SchedLock(r) \/ SchedUnlock(r) \/ Resume(r)
    \/ \E r \in Tasks, protocol \in Protocols : Block(r, protocol)
    \/ \E r \in Tasks :
         \E W \in {{}} \cup {{w} : w \in {t \in Tasks : state[t] = "blocked"}} :
            Exit(r, W)
    \/ \E t \in Tasks :
         \/ Terminate(t) \/ Suspend(t) \/ Wake(t)
         \/ \E p \in Prios : Activate(t, p) \/ SetPriority(t, p)
    \/ Tick

Spec == Init /\ [][Next]_vars

(* The timer interrupt occurs, not only while preemption is disabled, and  *)
(* the running task goes on: it ends the waits it returns from and         *)
(* releases the locks it holds.                                            *)
Fairness ==
    /\ SF_vars(lockcount[Running] <= 0 /\ Tick)
    /\ WF_vars(\E r \in All : Resume(r) \/ SchedUnlock(r))

FairSpec == Spec /\ Fairness

-----------------------------------------------------------------------------
(* Properties.                                                             *)

(* The lists and the task states have their types and agree: the head of   *)
(* the ready-to-run list, and nothing else, is running, the IDLE task is   *)
(* last, no task is in two places, and both lists are in order.            *)
ListsConsistent ==
    /\ TypeOK
    /\ readytorun # <<>> /\ readytorun[Len(readytorun)] = Idle
    /\ NoDuplicates(readytorun \o pending)
    /\ IsPrioritized(readytorun, prio) /\ IsPrioritized(pending, prio)
    /\ \A t \in All :
        state[t] = IF t = Running THEN "running"
                   ELSE IF t \in ToSet(readytorun) THEN "readytorun"
                   ELSE IF t \in ToSet(pending) THEN "pending"
                   ELSE state[t]
    /\ \A t \in All : state[t] \in {"running", "readytorun", "pending"} =>
        t \in ToSet(readytorun) \cup ToSet(pending)

(* Unless it has preemption disabled, the running task has the highest     *)
(* priority of all tasks that are ready, the pending ones included, and    *)
(* nothing is left pending: whatever makes a task ready, or replaces the   *)
(* running one, publishes the pending tasks in time.                       *)
HighestRuns ==
    lockcount[Running] <= 0 =>
        /\ pending = <<>>
        /\ \A t \in ToSet(readytorun) : prio[t] <= prio[Running]

(* A task with preemption disabled keeps the CPU until it enables it or    *)
(* itself blocks, stops or exits, whatever is woken or reprioritized.      *)
LockKeepsCpu ==
    [][LET r == Running
       IN  lockcount[r] > 0 /\ Running' # r =>
              \/ lockcount'[r] = 0
              \/ state'[r] \in {"blocked", "stopped", "inactive"}]_vars

(* sched_unlock() is called only with preemption disabled: it asserts      *)
(* lockcount > 0.  The one that ends a semaphore wait relies on the        *)
(* sched_lock() made before the task blocked, whatever happened meanwhile. *)
UnlockBalanced ==
    [][\A r \in All : lockcount'[r] < lockcount[r] => lockcount[r] > 0]_vars

(* One ready task stands before another: both lists run in order, and the  *)
(* pending tasks will be merged behind the ready ones of their priority.   *)
Before(t, u) ==
    LET l == readytorun \o pending
    IN  {t, u} \subseteq ToSet(l) /\ t # u /\ IndexOf(l, t) < IndexOf(l, u)

(* Waiting tasks of equal priority are scheduled first in, first out: two  *)
(* of them change places only if one is reprioritized.                     *)
FifoAmongEquals ==
    [][\A t, u \in Tasks \ {Running} :
         /\ prio[t] = prio[u]
         /\ Before(t, u) /\ Before(u, t)'
         => \E p \in Prios : SetPriority(t, p) \/ SetPriority(u, p)]_vars

(* Round robin: with equal priorities every task that is ready runs, or is *)
(* deleted or stopped, as long as priorities are left alone.               *)
ReadyTaskRuns ==
    \A t \in Watched :
        \/ state[t] \in {"readytorun", "pending"}
             ~> state[t] \notin {"readytorun", "pending"}
        \/ []<><<\E u \in Tasks, p \in Prios : SetPriority(u, p)>>_vars
=============================================================================
