------------------------------ MODULE SmpSched ------------------------------
(***************************************************************************)
(* The scheduler with CONFIG_SMP.  Every CPU has one running task, in      *)
(* g_assignedtasks, and all CPUs share g_readytorun.  Only a CPU changes   *)
(* what it runs: a CPU that wants another one to switch leaves a request   *)
(* in g_delivertasks and sends it a schedule interrupt, and a CPU that     *)
(* wants another one to stop or to rotate a task queues an SMP call.       *)
(*                                                                         *)
(* A step is one critical section, which all CPUs share.  The requests of  *)
(* a CPU wait for as long as it leaves its interrupts disabled; meanwhile  *)
(* the lists change.                                                       *)
(***************************************************************************)
EXTENDS PrioList, FiniteSets, FiniteSetsExt

CONSTANTS
    NCPUS,       \* CONFIG_SMP_NCPUS
    Tasks,
    Null,
    Prios,       \* the priorities of tasks
    Masks,       \* the affinity masks that are used
    Reprio,      \* the tasks whose priority and affinity are changed
    Stoppable,   \* the tasks that are stopped; they do not stop others
    Lockers,     \* the tasks that disable preemption
    RobinTasks,  \* the tasks with the SCHED_RR policy
    StuckMoves,  \* TRUE: tasks are also given an affinity that excludes the
                 \* CPU they run on when the code cannot move them
    MaxStops     \* bound: calls under way that stop the same task

CPUs == 0 .. NCPUS - 1

ASSUME SmpConstants ==
    /\ NCPUS \in Nat \ {0}
    /\ Tasks \cap CPUs = {}
    /\ Null \notin Tasks \cup CPUs
    /\ Prios \subseteq Nat \ {0}
    /\ Masks \subseteq (SUBSET CPUs) \ {{}}
    /\ CPUs \in Masks
    /\ Reprio \subseteq Tasks /\ Stoppable \subseteq Tasks /\ Lockers \subseteq Tasks
    /\ RobinTasks \subseteq Tasks
    /\ StuckMoves \in BOOLEAN
    /\ MaxStops \in Nat

(* A CPU stands for its idle task, g_idletcb[cpu], as well.                *)
Tcbs == Tasks \cup CPUs

VARIABLES
    ready,     \* g_readytorun
    assigned,  \* g_assignedtasks
    deliver,   \* g_delivertasks: "none", or the schedule interrupt's request
    state,     \* tcb->task_state
    cpu,       \* tcb->cpu
    prio,      \* tcb->sched_priority
    mask,      \* tcb->affinity
    lock,      \* tcb->lockcount > 0
    pinned,    \* TCB_FLAG_CPU_LOCKED
    queue,     \* g_smp_call_queue
    torn,      \* the tail of the call queue is beyond reach from its head
    robin,     \* the task in g_call_data of sched_roundrobin.c
    inCall,    \* the SMP call a CPU is handling, or Null
    stopping   \* progress of the nxsched_smp_call() a task is inside

schedVars == <<ready, assigned, deliver, state, cpu, prio, mask, lock>>

callVars == <<queue, torn, robin, inCall, stopping>>

vars == <<schedVars, pinned, callVars>>

(* Requests to stop a task, and to rotate the tasks of a CPU.              *)
StopCalls == [tcb : Tasks, by : Tasks, restore : BOOLEAN, phase : {"run", "post"}]

RobinCalls == [robin : Tasks \cup {Null}]

IsStop(e) == e # Null /\ "tcb" \in DOMAIN e

IsRobin(e) == e # Null /\ "robin" \in DOMAIN e

TypeOK ==
    /\ ready \in Seq(Tasks)
    /\ assigned \in [CPUs -> Tcbs]
    /\ deliver \in [CPUs -> {"none", "higher", "equal"}]
    /\ state \in [Tasks -> {"inactive", "ready", "running", "blocked", "stopped"}]
    /\ cpu \in [Tasks -> CPUs]
    /\ prio \in [Tcbs -> Nat]
    /\ mask \in [Tasks -> Masks]
    /\ lock \in [Tcbs -> BOOLEAN]
    /\ pinned \in [Tasks -> BOOLEAN]
    /\ queue \in [CPUs -> Seq(StopCalls \cup RobinCalls)]
    /\ torn \in [CPUs -> BOOLEAN]
    /\ robin \in Tasks \cup {Null}
    /\ inCall \in [CPUs -> StopCalls \cup RobinCalls \cup {Null}]
    /\ stopping \in [Tasks -> {"no", "called", "done"}]

Init ==
    /\ ready = <<>>
    /\ assigned = [c \in CPUs |-> c]
    /\ deliver = [c \in CPUs |-> "none"]
    /\ state = [t \in Tasks |-> "inactive"]
    /\ cpu = [t \in Tasks |-> 0]
    /\ prio \in {p \in [Tcbs -> Prios \cup {0}] :
                   \A x \in Tcbs : p[x] = 0 <=> x \in CPUs}
    /\ mask = [t \in Tasks |-> CPUs]
    /\ lock = [x \in Tcbs |-> FALSE]
    /\ pinned = [t \in Tasks |-> FALSE]
    /\ queue = [c \in CPUs |-> <<>>]
    /\ torn = [c \in CPUs |-> FALSE]
    /\ robin = Null
    /\ inCall = [c \in CPUs |-> Null]
    /\ stopping = [t \in Tasks |-> "no"]

-----------------------------------------------------------------------------
(* The functions of the scheduler, from one state S to the next.           *)

Now == [ready |-> ready, assigned |-> assigned, deliver |-> deliver,
        state |-> state, cpu |-> cpu, prio |-> prio, mask |-> mask,
        lock |-> lock]

Becomes(S) ==
    /\ ready' = S.ready /\ assigned' = S.assigned /\ deliver' = S.deliver
    /\ state' = S.state /\ cpu' = S.cpu /\ prio' = S.prio /\ mask' = S.mask
    /\ lock' = S.lock

(* Mutant of MayRun: TCB_FLAG_CPU_LOCKED is not looked at.                 *)
MayRun_IgnoresPin(S, t, c) == c \in S.mask[t]

(* The CPU is allowed by the affinity, and by TCB_FLAG_CPU_LOCKED.         *)
MayRun(S, t, c) == c \in S.mask[t] /\ (pinned[t] => S.cpu[t] = c)

(* nxsched_select_cpu(): the first idle CPU, or else the last one of those *)
(* with the lowest priority.                                               *)
SelectCpu(S, m) ==
    LET idle == {i \in m : S.assigned[i] = i}
        p(i) == S.prio[S.assigned[i]]
    IN  IF idle # {} THEN Min(idle)
        ELSE Max({i \in m : \A j \in m : p(i) <= p(j)})

(* The place in g_readytorun of the first task that nxsched_switch_running *)
(* () would run on the CPU instead of a task of priority p; 0 if none.     *)
NextFor(S, c, p) ==
    LET found == {i \in 1 .. Len(S.ready) :
                    /\ \A j \in 1 .. i : S.prio[S.ready[j]] > p
                    /\ MayRun(S, S.ready[i], c)}
    IN  IF found = {} THEN 0 ELSE Min(found)

(* The CPU takes the task b from g_readytorun and runs it; its running     *)
(* task, unless it is the idle task, goes into the list.                   *)
SwitchTo(S, c, b) ==
    LET r == S.assigned[c]
        rest == DqRem(S.ready, b)
    IN  [S EXCEPT !.ready = IF r \in CPUs THEN rest
                            ELSE AddPrioritized(rest, r, S.prio),
                  !.state = [t \in Tasks |-> CASE t = b -> "running"
                                               [] t # b /\ t = r -> "ready"
                                               [] OTHER -> S.state[t]],
                  !.assigned[c] = b,
                  !.cpu[b] = c]

(* Mutant of SwitchRunning: the running task may have disabled preemption. *)
SwitchRunning_IgnoresLock(S, c, equal) ==
    LET i == NextFor(S, c, S.prio[S.assigned[c]])
    IN  IF i = 0 THEN S ELSE SwitchTo(S, c, S.ready[i])

(* nxsched_switch_running(cpu, switch_equal); it returns true iff the task *)
(* assigned to the CPU is another one afterwards.                          *)
SwitchRunning(S, c, equal) ==
    LET r == S.assigned[c]
        i == NextFor(S, c, IF equal /\ S.prio[r] > 0 THEN S.prio[r] - 1
                                                     ELSE S.prio[r])
    IN  IF S.lock[r] \/ i = 0 THEN S ELSE SwitchTo(S, c, S.ready[i])

(* nxsched_deliver_task(), on the CPU me.                                  *)
DeliverTask(S, me, target, rule) ==
    CASE S.deliver[target] = rule -> S
      [] S.deliver[target] # rule /\ me = target ->
            SwitchRunning(S, me, rule = "equal")
      [] OTHER -> [S EXCEPT !.deliver[target] = rule]

(* nxsched_add_readytorun(), on the CPU me.                                *)
AddReadyToRun(S, me, t) ==
    LET target == IF pinned[t] THEN S.cpu[t] ELSE SelectCpu(S, S.mask[t])
        added == [S EXCEPT !.ready = AddPrioritized(@, t, S.prio),
                           !.state[t] = "ready",
                           !.cpu[t] = target]
    IN  IF S.prio[S.assigned[target]] < S.prio[t]
        THEN DeliverTask(added, me, target, "higher")
        ELSE added

(* The task is given this state.  The CPU in its TCB is forgotten, unless  *)
(* it is pinned: nothing reads it before the task is ready again.          *)
Leaves(S, t, next) ==
    [S EXCEPT !.state[t] = next, !.cpu[t] = IF pinned[t] THEN @ ELSE 0]

(* nxsched_remove_running(); next is the state the caller gives the task.  *)
RemoveRunning(S, t, next) ==
    LET c == S.cpu[t]
    IN  SwitchRunning([Leaves(S, t, next) EXCEPT !.assigned[c] = c], c, FALSE)

(* Mutant of RemoveReadyToRun: a ready task keeps its place.               *)
RemoveReadyToRun_NoDequeue(S, t, next) ==
    IF S.state[t] = "running" THEN RemoveRunning(S, t, next)
                              ELSE Leaves(S, t, next)

(* nxsched_remove_readytorun(), also of a task that blocked meanwhile.     *)
RemoveReadyToRun(S, t, next) ==
    CASE S.state[t] = "running" -> RemoveRunning(S, t, next)
      [] S.state[t] = "ready" -> [Leaves(S, t, next) EXCEPT !.ready = DqRem(@, t)]
      [] OTHER -> Leaves(S, t, next)

(* nxsched_set_priority(), on the CPU me.                                  *)
SetPriority(S, me, t, p) ==
    LET changed == [S EXCEPT !.prio[t] = p]
        away == S.cpu[t] \notin S.mask[t]
    IN  CASE S.state[t] = "running" ->
               IF S.ready # <<>> /\ (p <= S.prio[Head(S.ready)] \/ away)
               THEN IF t = S.assigned[me] /\ away
                    THEN AddReadyToRun(RemoveRunning(changed, t, "ready"), me, t)
                    ELSE DeliverTask(changed, me, S.cpu[t], "equal")
               ELSE changed
          [] S.state[t] = "ready" ->
               AddReadyToRun([changed EXCEPT !.ready = DqRem(@, t)], me, t)
          [] OTHER -> changed

-----------------------------------------------------------------------------
(* What the task that runs on a CPU does.                                  *)

(* The calls queued for a CPU or being handled, and those of them, for any *)
(* CPU, that are to stop a task.                                           *)
CallsOn(c) == (ToSet(queue[c]) \cup {inCall[c]}) \ {Null}

Stops(t) == {e \in UNION {CallsOn(c) : c \in CPUs} : IsStop(e) /\ e.tcb = t}

(* The CPU is not inside the handler of an SMP call.                       *)
NotInCall(me) == inCall[me] = Null

(* The CPU runs this task, which is not waiting for an SMP call.           *)
Runs(me, t) == NotInCall(me) /\ assigned[me] = t /\ t \in Tasks /\ stopping[t] = "no"

(* The task waits for something.                                           *)
Block(me, t) ==
    /\ Runs(me, t)
    /\ Becomes(RemoveRunning(Now, t, "blocked"))
    /\ UNCHANGED <<pinned, callVars>>

(* A task or an interrupt handler on the CPU makes a waiting task ready,   *)
(* continues a stopped one or activates a new one.                         *)
Wake(me, t) ==
    /\ NotInCall(me)
    /\ state[t] \in {"blocked", "stopped", "inactive"} /\ stopping[t] = "no"
    /\ state[t] = "inactive" => Stops(t) = {}    \* its pid is a new one
    /\ Becomes(AddReadyToRun(Now, me, t))
    /\ UNCHANGED <<pinned, callVars>>

(* sched_lock()                                                            *)
Lock(me, t) ==
    /\ Runs(me, t) /\ t \in Lockers /\ ~lock[t]
    /\ lock' = [lock EXCEPT ![t] = TRUE]
    /\ UNCHANGED <<ready, assigned, deliver, state, cpu, prio, mask, pinned, callVars>>

(* Mutant of UnlockTask: the tasks that came meanwhile are left waiting.   *)
UnlockTask_NoCheck(S, me, t) == [S EXCEPT !.lock[t] = FALSE]

(* sched_unlock(), of the last level.                                      *)
UnlockTask(S, me, t) ==
    LET open == [S EXCEPT !.lock[t] = FALSE]
    IN  IF S.ready # <<>> /\ S.prio[Head(S.ready)] > S.prio[t]
        THEN DeliverTask(open, me, me, "higher")
        ELSE open

Unlock(me, t) ==
    /\ Runs(me, t) /\ lock[t]
    /\ Becomes(UnlockTask(Now, me, t))
    /\ UNCHANGED <<pinned, callVars>>

(* nxsched_set_priority() by any task; sched_yield() if t is its own.      *)
Reprioritize(me, t, p) ==
    /\ NotInCall(me)
    /\ \E u \in Tasks : Runs(me, u)
    /\ Becomes(SetPriority(Now, me, t, p))
    /\ UNCHANGED <<pinned, callVars>>

(* nxsched_set_affinity()                                                  *)
SetAffinity(me, t, m) ==
    LET S == [Now EXCEPT !.mask[t] = m]
    IN  /\ \E u \in Tasks : Runs(me, u)
        /\ ~pinned[t] /\ state[t] # "inactive"
        /\ state[t] = "running" /\ cpu[t] \notin m =>
              StuckMoves \/ (t = assigned[me] /\ ready # <<>>)
        /\ Becomes(IF state[t] \in {"ready", "running"} /\ cpu[t] \notin m
                   THEN SetPriority(S, me, t, prio[t]) ELSE S)
        /\ UNCHANGED <<pinned, callVars>>

(* nxtask_exit(): preemption is disabled for the next task while the TCB   *)
(* is released, which may wake up tasks W (the parent that waits in        *)
(* vfork(), a task that joins).                                            *)
Exit(me, t, W) ==
    LET gone == [RemoveRunning(Now, t, "inactive") EXCEPT !.lock[t] = FALSE,
                                                          !.mask[t] = CPUs]
        r == gone.assigned[me]
        was == gone.lock[r]
        woken(S) == IF W = {} THEN S
                    ELSE AddReadyToRun(S, me, CHOOSE w \in W : TRUE)
        released == [woken([gone EXCEPT !.lock[r] = TRUE]) EXCEPT !.lock[r] = was]
    IN  /\ Runs(me, t)
        /\ Becomes(DeliverTask(released, me, me, "higher"))
        /\ pinned' = [pinned EXCEPT ![t] = FALSE]
        /\ UNCHANGED callVars

-----------------------------------------------------------------------------
(* The schedule interrupt.                                                 *)

(* nxsched_process_delivered()                                             *)
ProcessDelivered(c) ==
    LET rule == deliver[c]
        S == [Now EXCEPT !.deliver[c] = "none"]
        T == SwitchRunning(S, c, rule = "equal")
        h == Head(S.ready)
        target == IF pinned[h] THEN S.cpu[h] ELSE SelectCpu(S, S.mask[h])
    IN  /\ NotInCall(c)
        /\ rule # "none"
        /\ Becomes(IF /\ T.assigned[c] = S.assigned[c]
                      /\ S.ready # <<>>
                      /\ target # c
                      /\ S.prio[S.assigned[target]] < S.prio[h]
                   THEN DeliverTask(S, c, target, rule)
                   ELSE T)
        /\ UNCHANGED <<pinned, callVars>>

-----------------------------------------------------------------------------
(* SMP calls.                                                              *)

(* nxsched_smp_call_add()                                                  *)
CallAdd(q, c, e) == IF torn[c] THEN q ELSE [q EXCEPT ![c] = Append(@, e)]

(* nxsched_suspend() of a task that runs on another CPU: it is pinned to   *)
(* that CPU and the CPU is called; nxsched_smp_call_async() disables       *)
(* preemption around that.                                                 *)
SuspendRemote(me, u, t) ==
    LET call == [tcb |-> t, by |-> u, restore |-> ~pinned[t], phase |-> "run"]
    IN  /\ state[t] = "running" /\ cpu[t] # me
        /\ Becomes(IF lock[u] THEN Now ELSE UnlockTask(Now, me, u))
        /\ pinned' = [pinned EXCEPT ![t] = TRUE]
        /\ queue' = CallAdd(queue, cpu[t], call)
        /\ stopping' = [stopping EXCEPT ![u] = "called"]
        /\ UNCHANGED <<torn, robin, inCall>>

(* Of any other task: the task itself included.                            *)
SuspendLocal(me, t) ==
    LET S == RemoveReadyToRun(Now, t, "stopped")
    IN  /\ state[t] # "stopped" /\ state[t] # "inactive"
        /\ ~(state[t] = "running" /\ cpu[t] # me)
        /\ Becomes(IF state[t] = "running"
                   THEN DeliverTask(S, me, cpu[t], "higher") ELSE S)
        /\ UNCHANGED <<pinned, callVars>>

Suspend(me, u, t) ==
    /\ Runs(me, u)
    /\ t \in Stoppable /\ (u \in Stoppable => u = t)
    /\ Cardinality(Stops(t)) < MaxStops
    /\ SuspendRemote(me, u, t) \/ SuspendLocal(me, t)

(* nxsched_smp_call() waits for its semaphore, or finds it posted.         *)
CallWait(me, u) ==
    /\ NotInCall(me) /\ assigned[me] = u /\ u \in Tasks
    /\ \/ /\ stopping[u] = "called"
          /\ Becomes(RemoveRunning(Now, u, "blocked"))
          /\ UNCHANGED stopping
       \/ /\ stopping[u] = "done"
          /\ stopping' = [stopping EXCEPT ![u] = "no"]
          /\ UNCHANGED schedVars
    /\ UNCHANGED <<pinned, queue, torn, robin, inCall>>

(* nxsched_smp_call_handler() takes the first call of its queue and reads  *)
(* its argument.                                                           *)
TakeCall(c) ==
    LET e == Head(queue[c])
    IN  /\ NotInCall(c) /\ queue[c] # <<>>
        /\ queue' = [queue EXCEPT ![c] = Tail(@)]
        /\ inCall' = [inCall EXCEPT ![c] = IF IsRobin(e) THEN [robin |-> robin]
                                                         ELSE e]
        /\ torn' = [torn EXCEPT ![c] = @ /\ ~IsRobin(e)]
        /\ robin' = IF \E d \in CPUs : \E x \in ToSet(queue'[d]) : IsRobin(x)
                    THEN robin ELSE Null    \* forgotten once no CPU will read it
        /\ UNCHANGED <<schedVars, pinned, stopping>>

(* nxsched_suspend_handler()                                               *)
StopHandler(c) ==
    LET e == inCall[c]
    IN  /\ IsStop(e) /\ e.phase = "run"
        /\ IF state[e.tcb] = "inactive" THEN UNCHANGED <<schedVars, pinned>>
           ELSE /\ pinned' = [pinned EXCEPT ![e.tcb] = @ /\ ~e.restore]
                /\ Becomes(RemoveReadyToRun(Now, e.tcb, "stopped"))
        /\ inCall' = [inCall EXCEPT ![c].phase = "post"]
        /\ UNCHANGED <<queue, torn, robin, stopping>>

(* The handler then posts the semaphore of the caller.                     *)
PostCaller(c) ==
    LET u == inCall[c].by
    IN  /\ IsStop(inCall[c]) /\ inCall[c].phase = "post"
        /\ IF state[u] = "blocked"
           THEN /\ Becomes(AddReadyToRun(Now, c, u))
                /\ stopping' = [stopping EXCEPT ![u] = "no"]
           ELSE /\ stopping' = [stopping EXCEPT ![u] = "done"]
                /\ UNCHANGED schedVars
        /\ inCall' = [inCall EXCEPT ![c] = Null]
        /\ UNCHANGED <<pinned, queue, torn, robin>>

(* nxsched_roundrobin_handler()                                            *)
RobinHandler(c) ==
    LET t == inCall[c].robin
    IN  /\ IsRobin(inCall[c])
        /\ Becomes(IF state[t] = "running" /\ cpu[t] = c
                   THEN SwitchRunning(Now, c, TRUE) ELSE Now)
        /\ inCall' = [inCall EXCEPT ![c] = Null]
        /\ UNCHANGED <<pinned, queue, torn, robin, stopping>>

(* nxsched_smp_call_init() clears the links of the call data, which may    *)
(* still be queued for other CPUs: what follows it there is out of reach.  *)
UpToRobin(q) ==
    IF \E i \in 1 .. Len(q) : IsRobin(q[i])
    THEN SubSeq(q, 1, CHOOSE i \in 1 .. Len(q) : IsRobin(q[i]))
    ELSE q

(* nxsched_process_roundrobin() in the timer interrupt of CPU 0: the time  *)
(* slice of a task has expired.  CPUs take a call within a time slice.     *)
RoundRobin(c) ==
    /\ NotInCall(0)
    /\ assigned[c] \in RobinTasks /\ ~lock[assigned[c]]
    /\ \/ /\ c = 0
          /\ Becomes(SwitchRunning(Now, 0, TRUE))
          /\ UNCHANGED <<pinned, callVars>>
       \/ /\ c # 0
          /\ \A e \in ToSet(queue[c]) : ~IsRobin(e)
          /\ robin' = assigned[c]
          /\ torn' = [d \in CPUs |-> torn[d] \/ UpToRobin(queue[d]) # queue[d]]
          /\ queue' = CallAdd([d \in CPUs |-> UpToRobin(queue[d])], c,
                              [robin |-> Null])
          /\ UNCHANGED <<schedVars, pinned, inCall, stopping>>

-----------------------------------------------------------------------------
TaskStep(me) ==
    \E t \in Tasks :
        \/ Block(me, t) \/ Lock(me, t) \/ Unlock(me, t)
        \/ CallWait(me, t)
        \/ \E W \in {{}} \cup {{w} : w \in Tasks \ {t}} :
              /\ \A w \in W : state[w] = "blocked" /\ stopping[w] = "no"
              /\ Exit(me, t, W)
        \/ \E s \in Tasks : Suspend(me, t, s)

Handler(c) == TakeCall(c) \/ StopHandler(c) \/ PostCaller(c) \/ RobinHandler(c)

Next ==
    \E c \in CPUs :
        \/ TaskStep(c)
        \/ \E t \in Tasks : Wake(c, t)
        \/ \E t \in Reprio :
              \/ \E p \in Prios : Reprioritize(c, t, p)
              \/ \E m \in Masks : SetAffinity(c, t, m)
        \/ ProcessDelivered(c)
        \/ Handler(c)
        \/ RoundRobin(c)

Spec == Init /\ [][Next]_vars

-----------------------------------------------------------------------------
(* Properties.                                                             *)

(* Every task is where its state says: the ready ones, and no others, are  *)
(* once in g_readytorun, in order of priority, and a running one runs on   *)
(* one CPU, the one in its TCB.                                            *)
ListsConsistent ==
    /\ TypeOK
    /\ NoDuplicates(ready) /\ IsPrioritized(ready, prio)
    /\ ToSet(ready) = {t \in Tasks : state[t] = "ready"}
    /\ \A t \in Tasks, c \in CPUs :
          assigned[c] = t <=> state[t] = "running" /\ cpu[t] = c
    /\ \A c, d \in CPUs : assigned[c] = d => c = d

(* A ready task is not forgotten: the CPU it was given to runs no lower    *)
(* task, unless that has disabled preemption or the CPU has a request it   *)
(* has still to serve.  Not so with StuckMoves, if a task that cannot be   *)
(* moved at once is excluded from the CPU it runs on.                      *)
NotForgotten ==
    \A t \in Tasks :
        state[t] = "ready" /\ cpu[t] \in mask[t] =>
            \/ deliver[cpu[t]] # "none"
            \/ lock[assigned[cpu[t]]]
            \/ prio[assigned[cpu[t]]] >= prio[t]

(* The call that pinned a task finds it on its CPU: from the look of       *)
(* nxsched_suspend() until the handler runs, the task does not run on      *)
(* another one, also if others stop, continue or wake it meanwhile.        *)
StoppedHere ==
    \A c \in CPUs :
        \A e \in CallsOn(c) :
            /\ IsStop(e) /\ e.phase = "run" /\ e.restore
            /\ state[e.tcb] = "running"
            => cpu[e.tcb] = c

(* The same of every call; not so if a task is pinned for another call,    *)
(* whose handler ends that, when it is called to be stopped once more.     *)
EveryStopHere ==
    \A c \in CPUs :
        \A e \in CallsOn(c) :
            /\ IsStop(e) /\ e.phase = "run"
            /\ state[e.tcb] = "running"
            => cpu[e.tcb] = c

(* No delivery and no end of a time slice makes a CPU switch a task out    *)
(* that has disabled preemption.  (The task itself may block or exit, and  *)
(* another CPU may stop it, whether it has disabled preemption or not.)    *)
LockKeepsCpu ==
    [][\A t \in Tasks :
         state[t] = "running" /\ lock[t] /\ lock'[t] /\ state'[t] = "ready" =>
            cpu[t] \notin mask'[t]]_vars

(* If nothing is under way and preemption is enabled, no ready task has a  *)
(* higher priority than a task running on a CPU that it may use; not so    *)
(* if two tasks became ready before a CPU served its schedule interrupt.   *)
TopRun ==
    (\A c \in CPUs : deliver[c] = "none" /\ queue[c] = <<>> /\ inCall[c] = Null) =>
        \A t \in Tasks, c \in CPUs :
            state[t] = "ready" /\ MayRun(Now, t, c) =>
                lock[assigned[c]] \/ prio[assigned[c]] >= prio[t]
=============================================================================
