# NuttX scheduling core in TLA+

TLA+ models of the part of NuttX on which everything else rests: mutexes and
counting semaphores with their lock-free fast paths, the prioritized lists they
and the scheduler use, the ready-to-run machinery of the scheduler on one CPU
and on several, priority inheritance, work queues and the reader-writer
semaphore. TLC checks the models on small instances; TLAPS proves the safety of
the mutex, the semaphores, priority inheritance, the work queue and both
schedulers for any number of threads and CPUs and any priorities.

Paths below are relative to the repository. `PROJECT.json` maps every
definition to the lines it models and lists the runs, mutants, the finding, the
hazards and the theorems.

## The system

NuttX is a POSIX real-time operating system for microcontrollers. The kernel
(`sched/`) is a library of calls that run in the context of the calling task or
of an interrupt handler. It protects itself with `enter_critical_section()`,
which disables interrupts and, with several CPUs, takes one global spinlock. A
thread that blocks gives the critical section up in the context switch and has
it again when it resumes.

### Inventory

| Part | State | Operations | Interacts with | What is hard | What makes it correct |
|---|---|---|---|---|---|
| Prioritized lists (`sched/sched/sched.h`, `include/nuttx/queue.h`) | doubly linked TCB lists | `nxsched_add_prioritized`, `dq_rem` | all wait lists, ready and pending lists | order after a change of priority | sorted, first come first served among equals, nothing lost or doubled |
| Mutex (`sched/semaphore`, `libs/libc/semaphore`, `include/nuttx/mutex.h`) | lock word (holder, blocking bit), wait list | lock, trylock, ticklock, unlock, reset | scheduler, watchdog, task exit, priority inheritance | lock-free exchanges racing slow paths, timeouts and dying holders | one owner, no lost waiter, blocking bit agrees with the list, highest waiter first, waiters served |
| Counting semaphore (same files) | count, wait list | wait, trywait, timed wait, post, reset | the same, and signals, cancellation | a wait ended from outside, count and list changed together | units conserved, count = waiters, no missed signal, maximum respected |
| Single-CPU scheduler (`sched/sched`, `sched/task`) | `g_readytorun`, `g_pendingtasks`, task states, lock counts, priorities, slices | lock/unlock, block, wake, exit, terminate, suspend, set priority, tick | every blocking call, timer interrupt | tasks made ready while preemption is disabled | lists and states agree, the highest ready task runs, preemption lock respected, round robin |
| SMP scheduler (`sched_smp.c`, `sched_process_delivered.c`, ...) | `g_assignedtasks`, shared ready list, `g_delivertasks` | deliver, process delivered, set affinity | inter-CPU interrupts | delivery is asynchronous, the target changes before it arrives | the N highest eligible tasks run |
| Critical sections, spinlocks (`sched/irq`) | nesting counts, `g_cpu_irqlock`, `g_cpu_irqset` | enter, leave | context switch | counts per task and per CPU, interrupt nesting | mutual exclusion, released exactly once |
| Priority inheritance / protection (`sem_holder.c`, `sem_protect.c`) | holder lists, base and current priority | boost, restore | mutex, semaphore, set priority | several semaphores per holder, transitive boosts, exhausted holder pool | a holder runs at the highest priority that waits for it, and comes back |
| Work queues (`sched/wqueue`) | pending and expired lists, timer, workers | queue, cancel, cancel_sync | watchdog, semaphores | requeue while the callback runs, several workers, units against items | every queued item runs once or is cancelled; no callback after a synchronous cancel |
| Watchdogs and high-resolution timers (`sched/wdog`, `sched/hrtimer`) | list ordered by expiry | start, cancel, expire | timer interrupt | restart and cancel from a callback, tick wrap-around | expire in order, not early, not after cancel |
| Reader-writer semaphore, recursive mutex (`sem_rw.c`, `lib_mutex.c`) | reader/writer/waiter counts; owner, depth | read/write lock, upgrade, break/restore | mutex, semaphore | state tested before and after a wait | readers exclude writers, nobody sleeps for ever |
| Event flags, message queues (`sched/event`, `sched/mqueue`) | event mask, message list, waiters | post, wait; send, receive, notify | scheduler, watchdog, signals | queue at its limits, timeouts racing posts | no lost or doubled message or event |
| Signals, cancellation points (`sched/signal`, `task_cancelpt.c`) | pending queues, masks, cancel depth | dispatch, deliver, wait | every blocking call | a signal between test and sleep | delivered once, no wait survives it |
| Task groups, join, waitpid, stop/continue (`sched/group`, `sched/pthread`) | members, child status | exit, join, waitpid, SIGSTOP, SIGCONT | scheduler, signals | exit racing join, threads stopped in any state | status delivered once |
| Memory, file systems, network, drivers, architectures, libraries | various | various | the above | | outside this project |

## Modules

| Module | Models | Kind |
|---|---|---|
| `PrioList` | `nxsched_add_prioritized()`, `dq_rem()` on sequences | operators |
| `PrioListProofs` | what these keep: members, no duplicates, order, head is highest; sums | TLAPS |
| `Mutex` | what a mutex promises | abstract specification |
| `NxMutex` | one mutex, any number of threads and CPUs; implements `Mutex` | state machine, refinement |
| `NxMutexProofs` | its inductive invariant, the safety properties, and that it implements `Mutex` | TLAPS |
| `Semaphore` | what a counting semaphore promises | abstract specification |
| `NxSem` | one counting semaphore; implements `Semaphore` | state machine, refinement |
| `NxSemProofs` | its invariants, and that it implements `Semaphore` | TLAPS |
| `ReadyToRun` | the lists of the single-CPU scheduler | state machine |
| `ReadyToRunProofs` | its lists, that the highest task runs, and its lock | TLAPS |
| `SmpSched` | the scheduler with several CPUs: assigned tasks, delivery, SMP calls | state machine |
| `SmpSchedProofs` | its lists, its lock, that no task is forgotten and that a task is stopped where it runs | TLAPS |
| `PrioInherit` | holders, boost and restore over several semaphores | state machine |
| `PrioInheritProofs` | its holder structures, boosts and their end | TLAPS |
| `WorkQueue` | one work queue with its workers, clients and watchdog | state machine |
| `WorkQueueProofs` | its invariants and `CancelledQuiet` | TLAPS |
| `RwSem` | one reader-writer semaphore | state machine |
| `RwSemProofs` | its invariants | TLAPS |
| `MCNxMutex`, `MCNxSem`, `MCReadyToRun`, `MCSmpSched`, `MCPrioInherit`, `MCWorkQueue`, `MCRwSem` | instances for TLC | |

Operators whose names contain an underscore (`PostCas_PlainStore`) are mutants:
the definition they precede, changed the way a plausible bug would change it.
No specification uses them; each shows that a property notices the bug.

### NxMutex

State: the lock word `mholder` (holder field and blocking bit of
`sem->val.mholder`), the wait list, the thread inside the critical section
(`csec`), and for each thread its place in the code (`pc`), the value it read
(`old`), whether it is in `nxsem_tickwait()` (`timed`), its watchdog, `errcode`
and `sched_priority`.

A step is one access to shared data. The fast paths are a read and an exchange
that may fail (`WaitRead`, `WaitCas`, `TryRead`, `TryCas`, `PostRead`,
`PostCas`). The slow paths are cut where other CPUs can see a difference:
`WaitOr`/`PostOr` enter the critical section and set the blocking bit with
`atomic_or()`, `WaitTake`, `WaitBlock`, `PostFree` and `PostBlocking` do the
rest and leave it. Between the two, fast paths of other threads run; everything
that needs the critical section does not. `Timeout` is the watchdog,
`SetPriority` is `nxsched_set_priority()`, `Terminate` and `ReleaseTcb` are the
two halves of a thread's end: in between its TCB is still found by
`nxsched_get_tcb()`. `Robust` adds the reset of a robust pthread mutex at exit,
`AsyncCancel` the deletion of a thread wherever it stands.

The refinement mapping to `Mutex` reads the owner off the holder field (a reset
mutex has none) and the state of a thread off its place in the code. A thread
that was handed the mutex has it before it runs; one whose wait timed out is
idle although it has not run. `Mutex` lets a thread be refused a free mutex:
`nxsem_trywait()` wants the word to be exactly `NXSEM_NO_MHOLDER`, and refuses a
mutex that was reset, or is free but has the blocking bit set because another
thread is about to take it on the slow path.

Left out: the `SEM_PRIO_PROTECT` ceiling. Priority inheritance appears only as
arbitrary changes of priority, which include the ones it makes. A mutex is
never interrupted by a signal or cancelled (`sem_waitirq.c:87`).

### NxSem

The same grain of atomicity for `sem->val.semcount`. How the semaphore is set up
and used is a constant of the behaviour, `use`, chosen in `Init`: `FastPath` is
whether the semaphore has no priority protocol; `Uninterruptible` and `Syscall`
choose the interface and how a signal meets a waiter; `MaxValue` is its maximum.
`StopSignal` makes the signals SIGSTOP. Without fast paths nothing changes the count outside the critical
section, so `TrySlow` is one step. `Reset` enters the critical section;
`ResetPost` is a turn of the loop of `reset_sem()`, `ResetRead` the read after
it, and `ResetBreak` and `ResetCas` the loop of the exchange; `left` is its
`count`. The critical section keeps the slow paths of other CPUs out, and with
them every change of a negative count. It does not keep out the fast paths:
these come between any two of the steps once the count is not negative.
`WaitIrq` is `nxsem_wait_irq()`, called by the watchdog, by a signal and by
cancellation.

The refinement mapping reads a positive count as the available units and a
thread that has been woken with `errcode = OK` as having its unit already, which
is when `nxsem_post_slow()` passes it on. A negative count is no units. In
`Semaphore` a post and a reset begin and end in steps of their own; a reset to
`n` has `n` units to give (`rest`), grants them one by one and ends by replacing
the value with the rest. So the abstract reset is not atomic either, and what
it replaces may have been posted after it began.

### ReadyToRun

`readytorun` (its head runs), `pending`, `state`, `lockcount`, `prio`,
`timeslice`. Every operation runs with interrupts disabled, so it is one step;
what makes it hard is the long sequences of them. `AddReadyToRun`,
`RemoveReadyToRun`, `MergePending`, `ReprioritizeRtr` and `SetRunning` are the
functions of the same names; the actions compose them as the callers do:
`Exit` for instance removes the task, merges, raises the lock count of the next
one, lets the release of the TCB wake somebody, and merges again. `Block` stands
for every blocking call. It carries the protocol of the semaphore because
`nxsem_wait_slow()` locks the scheduler before the context switch and unlocks it
after (`Resume`), depending on it.

`up_switch_context()` called by a task returns when the task runs again. The
code after it in `sched_unlock()` therefore finds `rtcb == this_task()`, and the
new time slice it would give to a task that was replaced is never given:
`Unlock` leaves the slice alone.

### SmpSched

`ready` is `g_readytorun`, `assigned` the running task of each CPU (a CPU number
stands for its IDLE task too), `deliver` is `g_delivertasks`. A step is one
critical section. The functions of the scheduler (`SwitchRunning`,
`DeliverTask`, `AddReadyToRun`, `RemoveReadyToRun`, `SetPriority`) take the
scheduler's state as a record and return the next, so that the actions compose
them in the order of the code; each is told the CPU it runs on, as only a CPU
itself changes what it runs. What is asynchronous is a step of its own:
`ProcessDelivered` is the schedule interrupt, `TakeCall`, `StopHandler`,
`PostCaller` and `RobinHandler` are the handling of an SMP call. `SuspendRemote`
queues the call that stops a task on another CPU and `CallWait` waits for it.
`RoundRobin` is the end of a time slice found by the timer interrupt of CPU 0.
It uses one static `g_call_data` for all CPUs: `robin` is the pid in it, `torn`
that initializing it again has cut a queue it was still in.

Left out: signal delivery, `task_delete()` and `task_restart()` through SMP
calls, IDLE tasks that disable preemption, and a task that is stopped while it
waits for an SMP call. `Masks`, `Reprio`, `Stoppable`, `Lockers`, `RobinTasks`
(the tasks with the policy `SCHED_RR`) and `StuckMoves` choose which tasks do
what; the observations say what happens beyond them.

### PrioInherit

`sem_holder.c` with a pool of holders. `hhead` is the holder list of each
semaphore, `counts` the counts in the structures; `owner` and `held` are the
truth they stand for. The functions of `sem_holder.c` work on a record of the
lists and priorities and are applied one after the other, in the order of the
code; the loops over holders are recursive functions over their turns. The order matters, since the priorities of waiters decide to what the
holders fall back, and a change of priority moves a waiter in its list. Every
operation holds the critical section throughout and is one step. Any task that
does not wait may take the next step; which one the scheduler would run depends
on what else they wait for. `use` is chosen in `Init`: which semaphores are
waited for with a timeout, and whether tasks block while they hold one.

Left out: `CONFIG_SEM_PREALLOCHOLDERS = 0`, priority protection,
`sched_setparam()` on a boosted task, and `nxsem_recover()` and
`nxsem_release_all()` of a holder that exits.

### WorkQueue

The lists, the units of `wqueue->sem`, the watchdog, and for each worker its
place, its work and the callers that wait for it. A step is one section under
`wqueue->lock`. The watchdog runs under the critical section instead: `Fire`
marks it inactive and `TimerExpired` posts. A worker that only reads
`WDOG_ISACTIVE()` can come in between; whoever starts or cancels the watchdog
waits for the critical section and cannot (`~firing` in `StartTimer`). Times are
relative to the current tick, so `Tick` brings everything nearer and the model
stays finite. `Queue` computes the expiration before it has the lock, `spin`
ticks ago. `QueueNext` is `work_queue_next()` from a callback.
`CancelSync`, `SyncWake` and `Rescan` are the loop of `work_cancel_sync()`.
`FreeExit`, `FreeCancel` and `FreeJoin` are `work_queue_free()`.

Left out: a worker that cannot be created, notifiers, the user-mode queue, and
the tick counter passing zero.

### RwSem

The fields of `rw_semaphore_t`, and what each thread holds and where it stands.
A step is what a thread does with `rwsem->protected` locked; a thread that must
wait counts itself in `waiter`, and `Wait` (the call of `nxsem_wait()`) and
`Recheck` are steps of their own. `WaitSignal` ends a wait early: the result of
`nxsem_wait()` is not looked at. `nxsem_post()` and `nxsem_wait()` are taken to
keep what `Semaphore` promises. Callers release what they hold and do not ask
for the write lock while they read. `destroy_rwsem()` is left out.

## Runs

| Run | Instance | Shows |
|---|---|---|
| `mutex_safety` | 3 threads, 2 priorities | exclusion, blocking bit, no lost waiter, watchdogs, hand-over to the highest waiter, nobody overtakes the waiters, implements `Mutex` |
| `mutex_live` | 3 threads, 1 priority, robust, fair | every waiter is served, also after a reset; `nxmutex_ticklock()` returns |
| `mutex_delete` | as `mutex_safety`, asynchronous deletion | **violated**: the finding |
| `sem_safety` | 3 threads, 2 priorities; fast paths and interruptible, or slow paths, uninterruptible and maximum 1; resets to 0 and 1 | count = waiters, units conserved, no missed signal |
| `sem_live` | 2 threads, resets to 1, fair | timed waits and posts return |
| `sched_lists` | 3 tasks, IDLE, 2 priorities, nested locks, slices of 2 ticks | lists and states agree, highest runs, lock keeps the CPU, every unlock has its lock |
| `sched_robin` | 3 tasks of one priority, fair | every ready task runs |
| `smp_safety` | 2 CPUs, 3 tasks, 2 priorities; one task is stopped, by up to two calls at once, moved, reprioritized and rotated, the others disable preemption | lists agree, no ready task is forgotten, the call that pinned a task finds it where it runs, lock keeps the CPU |
| `inherit` | 5 tasks of 3 priorities, 2 mutexes, a counting semaphore of 2 units, 4 holders | holder structures exact, pool suffices, no inversion, priorities given back |
| `wq_safety` | 2 workers, 2 clients, 2 works | lists and timer agree, enough wake-ups, cancelled work is quiet, waiters counted, nothing uses a freed queue |
| `wq_live` | 2 workers, 1 client, 1 work, fair | work is performed, `work_cancel_sync()` and `work_queue_free()` return |
| `rwsem` | 4 threads, nesting of 2, fair | exclusion, fields agree, no lost wake-up, calls return |

Why these sizes. Races of the mutex involve a holder, a thread that arrives and
one that already waits: three threads. Two priorities are enough to have a
waiter that should go first and one that should not, and reprioritization in
both directions. In the liveness runs the threads are interchangeable, so one
of them is watched. Symmetry is used only in runs without liveness and only
between threads of equal role. A semaphore needs counts from below zero to one
above the interesting maximum. Three tasks and the IDLE task give the scheduler
a running, a ready and a pending task at once; a nesting of two tells the last
unlock from others, and a slice of two ticks an expired one from a used one. On
two CPUs three tasks leave one ready that should replace one of two. Five tasks
of three priorities let both units of the counting semaphore and both mutexes be
held with waiters above them. Two workers are needed for a work that two of them
perform at once, and two works for a timer that passes from one to the other.
Four threads let two readers share the semaphore while a writer and another one
wait.

What some properties do not say. `TimedLockReturns` would not notice a stale
blocking bit, as the lock then times out; `BlockingBitExact` does.
`CancelReturns` is checked with one worker that calls `work_cancel_sync()` from
its callbacks; with two it fails (see Observations). `HoldersAgree` does not
look at priorities, which are the matter of `Boosted` and `Restored`.
`NotForgotten` needs `StuckMoves = FALSE`, which the code does not guarantee.
`StoppedHere` is about the call that pinned the task. `LockKeepsCpu` on SMP is
about deliveries and time slices: another CPU may stop a task whether it has
disabled preemption or not.

Bounds: `CountCap` (no post starts with that many units available), `MaxLock`
(depth of `sched_lock()`), `Watched` (threads a liveness property is stated
for), `MaxStops` (calls under way to stop the same task), `Horizon`, `MaxLate`
and `MaxSpin` (how far ahead work is queued, how late it may be dispatched, how
long a caller waits for the lock), `SemCap` and `MaxUnits` (no work is queued,
and no contended lock asked for, with that many units posted), `MaxNest`
(locks a thread holds at once). `SemCap` and `MaxUnits` do not limit the units
themselves: the timer, the dispatch and the releases post beyond them. A mutex system in which every thread has exited stops, so its runs do not
check for deadlock; all others do.

### Fairness

`NxMutex` and `NxSem`: strong fairness of a thread's steps and of its watchdog.
The code justifies it where a ready thread is scheduled and
`enter_critical_section()` admits whoever keeps trying (a ticket spinlock, or
one CPU with interrupts disabled). Owners release the mutex (`Unlock` is a
step). For the exchanges a second strong fairness says that a thread does not
lose every race for a word it could exchange; a hardware compare-and-swap does
not promise this, and without it a fast path may retry for ever. Nothing is
assumed of callers: `Lock`, `Post`, `SetPriority`, `Signal` and `Terminate` may
or may not happen.

`ReadyToRun`: the timer interrupt occurs again and again while preemption is
enabled (strong fairness, as preemption may be disabled in between), and a
running task ends the waits it returns from and releases its locks.
`ReadyTaskRuns` exempts behaviours in which tasks are reprioritized for ever:
`nxsched_set_priority()` sends a task behind its equals each time.

`WorkQueue`: workers and callers are scheduled, callbacks return (`WorkDone` is
a step of the worker), the timer interrupt occurs and the clock goes on. Strong
fairness where a step competes for a semaphore or for the watchdog with others.
`WorkPerformed` and `CancelReturns` exempt work that is queued again and again:
each time puts it off.

`RwSem`: threads run, get the mutex and release what they hold (weak fairness of
`Wait`, `Recheck` and the releases). Nobody need ask and no signal need come.
`Served` exempts behaviours in which others take the lock again and again:
readers can keep a writer out.

## Finding

`mutex_delete`: `nxsem_recover()` removes a TCB from the wait list that
`nxtask_terminate()` has removed already. Both links of the TCB are NULL by
then, so `dq_rem()` empties the list, and every other waiter is lost. It takes
asynchronous cancellation.

## Observations

Where the code and what one would expect of it part, short of a run of their
own. Those with a configuration are reproduced by `tlc -config <file> <module>`,
which reports the violation.

Semaphores:

- The fast path of `nxsem_post()` ignores the maximum value, which only
  `nxsem_post_slow()` checks; `include/nuttx/semaphore.h:453` says
  `nxsem_setmaxvalue()` "sets the maximum allowed value".
  (`NxSem_max.cfg`, `MCNxSem`, `MaxRespected`)
- SIGSTOP takes a thread out of a semaphore wait without giving back its unit
  (`sched_suspend.c:135`): the count stays negative without a waiter and the
  next post is lost. A mutex keeps its blocking bit in the same way.
  (`NxSem_stop.cfg`, `MCNxSem`, `CountIsWaiters`)
- `nxsem_reset()` may lose a post of another CPU. With the count at -1 and a
  reset to 2 its loop posts once; a fast-path `nxsem_post()` then makes the
  count 1, and the exchange (`sem_reset.c:99`) replaces it by the 1 that is left.
  In no order of the two calls does the semaphore end with fewer than 2. The
  comment at `sem_reset.c:144`, "Prevent any access to the semaphore by interrupt
  handlers while we are performing this operation", holds on one CPU only.
  (`NxSem_reset.cfg`, `MCNxSem`, `ResetKeepsPosts`)

Scheduler:

- A task that yields, or whose priority falls to that of other ready tasks,
  while preemption is disabled makes the first of them last
  (`sched_setpriority.c:127`); `Documentation/reference/user/02_task_scheduling.rst:7`
  says "Tasks of equal priority are scheduled FIFO."
  (`ReadyToRun_fifo.cfg`, `MCReadyToRun`, `FifoAmongEquals`)
- A contended wait on a `SEM_PRIO_PROTECT` semaphore calls `sched_unlock()` once
  too often when priority inheritance is configured too (`sem_wait.c:305`
  against 225). (`ReadyToRun_protect.cfg`, `MCReadyToRun`, `UnlockBalanced`)
- The new time slice at `sched_unlock()` described above contradicts the comment
  at `sched_unlock.c:115`. The effect is one short turn.
- With SMP the highest ready tasks need not run once all requests are served,
  against `Documentation/os/scheduling/smp.rst:328`: two tasks may become ready
  before a CPU serves its schedule interrupt, both having chosen that CPU, while
  another one goes on with a lower task. `NotForgotten` is what holds instead.
  (`SmpSched_top.cfg`, `MCSmpSched`, `TopRun`)
- `sched_setaffinity()` of a task that runs on a CPU outside the new mask does
  not move it if it runs on another CPU or no other task is ready
  (`StuckMoves = TRUE`; `NotForgotten` then fails).
- Two calls under way may stop the same task. The second finds
  `TCB_FLAG_CPU_LOCKED` set and counts on it, but the handler of the first clears
  it: if the task is continued, it may run on another CPU when the second handler
  comes. (`SmpSched_stops.cfg`, `MCSmpSched`, `EveryStopHere`)
- With three CPUs, `g_call_data` of `sched_roundrobin.c:49` may be initialized
  again while it is queued for another CPU: its pid is overwritten and what
  follows it in that queue is cut off.

Priority inheritance:

- The timeout of a wait for a mutex frees the holder structure of its owner and
  drops the owner's priority although others still wait (`sem_holder.c:451`,
  "Mutex is held only by one thread, so the holder is always freed"), against
  `Documentation/os/scheduling/index.rst:77`.
  (`PrioInherit_timeout.cfg`, `MCPrioInherit`, `BoostedAfterTimeout`)
- The timeout of a wait for a counting semaphore restores the holders while the
  waiter is still in the list (`sem_waitirq.c:93`): they keep its priority, and
  a post that wakes nobody does not restore it.
- Boosts are not transitive, and a mutex handed to a waiter has no holder
  structure until the next task blocks on it: a task that then posts another
  mutex falls below the waiters of the first.

Work queues and reader-writer semaphore:

- Two callbacks of one work that both call `work_cancel_sync()` for it wait for
  each other (`SyncCallers = {1, 2}` in `WorkQueue_live.cfg` shows it).
- `include/nuttx/wqueue.h` calls the cancellation of work that is not queued a
  successful no-op; the code returns `-ENOENT`.
- After `downgrade_write()` a writer that begins to wait may take the unit that
  was posted for a reader on its way to `nxsem_wait()`. That reader sleeps until
  the last reader releases the semaphore. Units left over make spurious
  wake-ups.

## Proofs

Every theorem holds for every set of threads or tasks, CPUs, priorities, works
and masks the assumptions on the constants allow; TLC evaluates those on the
instances above. Each proof has the same shape: an inductive invariant `IInv`,
one lemma per action or group of actions that shows the action keeps it, with
one step per conjunct the action can disturb, `NextInv`, and the temporal step.
`PrioListProofs` has the facts about lists that all of them use: `InsertPos`
finds a place; insertion and removal keep the members, the absence of
duplicates and the order; the head is highest; a list without duplicates is as
long as its set of members is large. It also has the facts about sums: the
recursive function of the community module's fold exists for every finite set,
the order of the terms is irrelevant, a sum changes by what one term changes,
and it bounds its terms and the number of positive ones. Each is shown by taking
a smallest counterexample.

| Module | Theorems | Properties | Hypothesis |
|---|---|---|---|
| `NxMutexProofs` | `MutexExclusive`, `BlockingBitCorrect`, `WaitersAccounted`, `WatchdogsScoped`, `HighestFirst`, `NobodyOvertakes`, `MutexImplemented` | all safety properties of `mutex_safety`, the refinement of `Mutex` among them | `AsyncCancel = FALSE`: with TRUE the finding refutes them |
| `NxSemProofs` | `SemTypeCorrect`, `CountCorrect`, `SignalsSeen`, `UnitsPreserved`, and `ResetGuarded` for the last | all safety properties of `sem_safety`, the refinement of `Semaphore` among them | `StopSignal = FALSE`: `NxSem_stop.cfg` refutes them for TRUE |
| `RwSemProofs` | `WritersExclude`, `FieldsCorrect`, `WakeupsKept` | all safety properties of `rwsem` | none |
| `PrioInheritProofs` | `InheritHoldersAgree`, `InheritBoosted`, `InheritRestored`, `InheritPoolSuffices` (from `InheritInductive`) | all properties of `inherit` | for the pool only: a structure for each mutex and each count of a counting semaphore (`Total(Demand) <= NHolders`; the run has exactly that many) |
| `WorkQueueProofs` | `QueueCorrect`, `UnitsCorrect`, `WaitersCorrect`, `FreeCorrect`, `CancelCorrect` | all safety properties of `wq_safety` | none |
| `ReadyToRunProofs` | `SchedListsConsistent`, `SchedHighestRuns`, `SchedLockKeepsCpu`, `SchedUnlockBalanced` | all safety properties of `sched_lists` | `Prios # {}`; `NoProtection`: no semaphore has `SEM_PRIO_PROTECT`, with which `ReadyToRun_protect.cfg` refutes `UnlockBalanced` |
| `SmpSchedProofs` | `ListsCorrect`, `LockCorrect`, `NoneForgotten`, `StopsCorrect` | all properties of `smp_safety` | `StuckMoves = FALSE` for `NoneForgotten` only: a task stuck on a CPU outside its mask breaks it |

The assumptions on the constants are `MutexConstants`, `SemConstants`,
`RwConstants`, `InheritConstants`, `QueueConstants`, `SchedConstants` and
`SmpConstants`. They say what the constants are (priorities are naturals, IDLE's is the lowest, nobody has the number that
stands for nobody) and that the sets which are counted are finite. Two say more.
`SemConstants` wants the initial and reset values of a semaphore within its
maximum and within `CountCap`. `SmpConstants` wants every affinity mask to have
a CPU and the default mask to be one of them; an empty mask is refused by
`nxsched_set_affinity()` (`sched_setaffinity.c:85`).

### The mutex

What the properties leave open is the state between the two halves of a slow
path and the values threads carry from a read to an exchange. `IInv` adds:

- who may be inside the critical section, by place in the code, and that the
  blocking bit is set as long as somebody is between its two steps, so that no
  fast path can succeed there;
- that the word a slow path remembers differs from the current one at most in
  that bit;
- that the word names the owner: the thread that owns the mutex, or was handed
  it, is the holder field, and a holder field that names a live thread names
  one that owns it or was handed it;
- that the wait list is exactly the set of blocked threads, without duplicates;
- that a watchdog is active only inside a timed call, in the part of it that
  may still block.

`HighestFirst` needs in addition that the wait list stays in order of priority
(`NextSorted`), also when priorities change, and that whoever is handed the
mutex was its head (`HandedIsHead`). `NobodyOvertakes` rests on the blocking
bit: with waiters the word is never the one a fast path's exchange expects, so
that only a hand-over or `nxsem_wait_slow()` with a dead holder is left.

`MutexImplemented` maps each action to one action of `Mutex` or to a stutter
(`AbsStep` for the steps that concern one thread, `AbsHands` for a hand-over).
The invariant supplies what the abstract guards ask for: that the value a slow
path read still names the owner, that nobody waits when the mutex is freed on a
fast path or by `PostFree`, and that a waiter's `errcode` is still OK when it is
handed the mutex, so that it cannot return with an old error and leave the mutex
locked. The run has a mutex that is not robust; the theorem holds for both.

### The counting semaphore

`IInv` says that the count and the list change together even inside the critical
section (`CountInv`), that the values the exchanges expect do not cross zero
(`OldInv`: a fast path takes only from a positive count and posts only to one
that is not negative, which is why it can leave the list alone), that the list
is the set of blocked threads and none of them has been told of an error
(`WaitersInv`), and how far posts under way can still raise the count
(`PostersInv`, from which the bound in `TypeOK` follows).

`GuardInv` is what a reset relies on, an invariant beside `IInv`: a thread that
resets or is about to post on the slow path is inside the critical section
(`CsecInv`), and between the read and the exchange of a reset a negative count
stays as it was, with no unit left to give, and any other does not become
negative (`ResetInv`). Without it `ResetBreak` could return with units not
given, and `ResetCas` could overwrite the count of a waiting thread. For
`UnitsPreserved`
each action is shown to map to one action of `Semaphore` or to a stutter, with
the number of available units and the threads that have one read off the count,
the places and `errcode`.

### The reader-writer semaphore

`FieldsAgree` compares a field with a sum over the threads, so that each action
needs to show only how one thread's share changes. `IInv` says that `holder` is
whoever has write locks, that `waiter` is the number of threads inside a waiting
call, and that there are units enough for those that have not yet called
`nxsem_wait()` when the lock was released in front of them (`Provided`): the
wake-up a thread on its way to sleep would otherwise miss.

### Priority inheritance

An action applies several functions to the record `k` of lists and priorities,
some of which loop over the holders of a semaphore. Each function has a lemma
about what it does to the parts of the record (`HoldersBecome`,
`WaitersBecome`, `CountsDrop`). The loops have predicates for the state after
any number of turns: `Boosting`, that the holders visited so far have at least
the priority of the task that blocks, and `Restoring`, that those visited have
the highest priority that still waits for them or their base priority, and that
mutexes have lost their structures. That the predicate holds after every turn is
shown by taking a first turn after which it does not.

`IInv` is `Good` of the present state. Its parts are:

- `Agree` and `WaitersAgree`, what `HoldersAgree` says of the structures and the
  wait lists;
- `Ledger` and `Owned`: the count, what is held and the number of waiters of a
  counting semaphore add up to `Units`, no count is left while somebody waits,
  and a mutex with waiters has an owner. A task that takes a semaphore without
  blocking therefore has nobody waiting for it, and needs no boost;
- `Single`: unless `use.nested`, a task holds one semaphore and none while it
  waits. A change of a holder's priority in a loop then moves no waiter and
  changes no priority another turn depends on;
- `NoInversion`, what `Boosted` says, and `Raised`: a task above its base
  priority is recorded as holder of a semaphore, with a waiter of that priority
  unless `use.nested`. `Restored` asks only that it holds one; the induction
  needs the structure, since `nxsem_restore_priority()` sees only what is
  recorded;
- `Above`: no priority is below its base.

For the pool, a mutex has at most one structure, and a counting semaphore has no
more than the sum of the counts held, which `Ledger` bounds by `Units`.

### The work queue

The pending list is in the order of a key, the negated expiration, so that the
facts about priorities apply to it. `ListsInv` ties the lists to
`work->worker` and `work->qtime`, `TimerInv` the watchdog to the first pending
work, `WorkersInv` and `WaitInv` each worker's counts to the callers that wait
for it, and `UnitsInv` the posted units to `Demand`: the expired works and the
watchdog that nobody has restarted. `UnitsInv` is what is inductive about
`WakeupsSuffice`. `Demand` counts a pending list without a running watchdog as
one more thing some worker must wake up for.

### The single-CPU scheduler

The actions compose functions on a record of the two lists and the task states.
`Good(q, pr)` says that the three agree and that the lists are in order for the
priorities `pr`; `Prompt(q, lock)` that tasks are pending only while the first
task has preemption disabled; `Keeps(q, r, X)` that no task outside `X` becomes
ready or ceases to be. Each function has a lemma in these terms (`Added`,
`Removed`, `Merged`, `SelfRemoved`, `Reprioritized`, `MovedToPending`), and the
lemma of an action composes them as the code composes the functions. The loops
of `nxsched_merge_pending()` and `nxsched_running_setpriority()` are recursive
functions over their turns; that such a function exists, and what holds after
every turn (`Merging`: the tasks merged so far are in the list, the walk stands
at the last one, and nothing before it is lower than what comes next), is shown
by taking a first turn at which it fails.

`IInv` adds to the properties that no lock count is negative and that a task
inside a wait which ends with `sched_unlock()` holds the lock that
`nxsem_wait_slow()` took for it (`Counts`). Without the second
the `sched_unlock()` at the end of the wait could take the count below zero.
With priority protection the code takes no lock and still releases one (see
Observations), so the count can become negative and `Counts` fails: that is the
one hypothesis on the system. `nxtask_exit()` marks the next task ready and then
running again while its count is raised; `ExitAdds` shows that this marking
cannot hide a change of the running task, because a task woken meanwhile does
not become the first.

### The SMP scheduler

The actions compose functions on the scheduler's state. Each function has a
lemma with three parts. `Good(S, out)` says that the lists and the task states
agree in `S`, but for one task `out` that is between two lists while a function
moves it. `Moves(S, T, X)` bounds what a function does to the tasks outside `X`:
nobody running with preemption disabled is switched out. `Settled` and `Placed`
are what `NotForgotten` asks of one CPU and of one task: a CPU may run a lower
task than one that is ready for it only if a delivery is under way or preemption
is disabled, and a task runs where its mask allows. The lemmas compose as the
code composes the functions, and `SchedStep` sums up an action. `ListsCorrect`
and `LockCorrect` need no hypothesis and hold whatever the order in which
deliveries and SMP calls arrive.

`StoppedHere` is about SMP calls, which move: from the end of a CPU's queue to
its head and into the handler, and some are dropped when a round-robin call
cuts a queue. `StopsCorrect` gives each call a place (`CallAt`) and strengthens
the property to `StopInv`: no task has two calls under way that pinned it and
are still to stop it (`OneCall`), and a task with such a call is pinned to the
CPU that was called, or has exited (`Anchored`). `Shifted` says how a step moves
the calls; `Stays`, a part of `SchedStep`, says that no step moves a pinned task
or activates a task again while a call for it is under way. `OneCall` is what
the handler needs: it unpins its task, which would set free a task that another
call still counts on. It holds because a call made while a task is pinned does
not pin it (`restore` is FALSE): its handler does not unpin the task either, and
`StoppedHere` asks nothing of it (see Observations). So the theorem needs no
bound on the number of calls.

### Only model-checked

- Liveness (`WaitersServed`, `TimedLockReturns`, `WorkPerformed`, `Served`, ...):
  it rests on fairness, which is beyond the prover used here.

## Plan

Done: the modules above. Still open, in this order:

1. `Wdog`: the ordered list with wrap-around of the tick, cancel and restart
   from callbacks.
2. `Events` and `Mqueue`; `RMutex` on the abstract `Mutex`.
3. `Csection`: nesting of critical sections across context switches and
   interrupts, showing that the mutual exclusion the other modules take as given
   is provided.

## Not modelled

`PROJECT.json` gives the reason for each part. In short: watchdog lists,
high-resolution timers, critical-section nesting, event flags, message queues,
signal queueing, cancellation points, pthread joins and condition variables,
task groups, POSIX timers and sporadic scheduling are parts of the core that a
later module may take up; the memory manager, file systems, network, drivers,
architectures and libraries are outside the scheduling core.
