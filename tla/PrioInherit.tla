---------------------------- MODULE PrioInherit -----------------------------
(***************************************************************************)
(* Priority inheritance: sched/semaphore/sem_holder.c and the slow paths   *)
(* of sem_wait.c, sem_post.c and sem_waitirq.c that call it, for mutexes   *)
(* and counting semaphores of protocol SEM_PRIO_INHERIT, with a pool of    *)
(* holders (CONFIG_SEM_PREALLOCHOLDERS > 0).  Every operation runs in one  *)
(* critical section, with the scheduler locked: it is one step.            *)
(*                                                                         *)
(* The holder of a counting semaphore is recorded when it gets its count;  *)
(* the owner of a mutex only when another thread blocks on the mutex.      *)
(*                                                                         *)
(* Any thread that does not wait may take the next step: which of them the *)
(* scheduler runs depends on what else they wait for.  The threads keep    *)
(* the rules: they post what they hold, take semaphores in the order of    *)
(* their numbers, and block while they hold one only if use.nested.        *)
(***************************************************************************)
EXTENDS PrioList

CONSTANTS
    Tasks,
    Base,        \* base_priority of each task
    Mutexes, Counters,  \* the semaphores, disjoint sets of numbers
    Units,       \* the initial count of the counting semaphores
    NHolders,    \* CONFIG_SEM_PREALLOCHOLDERS
    Uses,        \* how the semaphores may be used, see use
    None

Sems == Mutexes \cup Counters

ASSUME InheritConstants ==
    /\ Base \in [Tasks -> Nat] /\ Units \in Nat \ {0} /\ NHolders \in Nat
    /\ IsFiniteSet(Tasks) /\ IsFiniteSet(Sems)
    /\ Sems \subseteq Nat /\ Mutexes \cap Counters = {}
    /\ Uses \subseteq [timed : SUBSET Sems, nested : BOOLEAN]
    /\ None \notin Tasks \cup Sems

VARIABLES
    use,      \* use.timed: the semaphores waited for with a timeout
    owner,    \* the holder in sem->val.mholder of a mutex
    count,    \* sem->val.semcount of a counting semaphore
    waitobj,  \* tcb->waitobj
    held,     \* the counts a task has taken of a counting semaphore
    wait,     \* SEM_WAITLIST(sem)
    hhead,    \* sem->hhead: the tasks of the holder structures, in order
    counts,   \* pholder->counts
    prio      \* tcb->sched_priority

vars == <<use, owner, count, waitobj, held, wait, hhead, counts, prio>>

(* The task owns the mutex or has taken counts of the semaphore.           *)
Holds(t, s) == IF s \in Mutexes THEN owner[s] = t ELSE held[s][t] > 0

TypeOK ==
    /\ use \in Uses
    /\ owner \in [Mutexes -> Tasks \cup {None}]
    /\ count \in [Counters -> Int]
    /\ waitobj \in [Tasks -> Sems \cup {None}]
    /\ held \in [Counters -> [Tasks -> 0 .. Units]]
    /\ wait \in [Sems -> Seq(Tasks)] /\ hhead \in [Sems -> Seq(Tasks)]
    /\ counts \in [Sems -> [Tasks -> Nat]]
    /\ prio \in [Tasks -> Nat]
    /\ \A s \in Sems :
        /\ NoDuplicates(wait[s]) /\ IsPrioritized(wait[s], prio)
        /\ ToSet(wait[s]) = {t \in Tasks : waitobj[t] = s}

Init ==
    /\ use \in Uses
    /\ owner = [s \in Mutexes |-> None]
    /\ count = [s \in Counters |-> Units]
    /\ waitobj = [t \in Tasks |-> None]
    /\ held = [s \in Counters |-> [t \in Tasks |-> 0]]
    /\ wait = [s \in Sems |-> <<>>]
    /\ hhead = [s \in Sems |-> <<>>]
    /\ counts = [s \in Sems |-> [t \in Tasks |-> 0]]
    /\ prio = Base

-----------------------------------------------------------------------------
(***************************************************************************)
(* The functions of sem_holder.c change the lists and priorities one after *)
(* the other: each is an operator on the record k of these.                *)
(***************************************************************************)
Now == [wait |-> wait, hhead |-> hhead, counts |-> counts, prio |-> prio]

Become(k) ==
    /\ wait' = k.wait /\ hhead' = k.hhead
    /\ counts' = k.counts /\ prio' = k.prio

(* Mutant of AddHolder: a structure is allocated for every count.          *)
AddHolder_Allocates(k, t, s) ==
    [k EXCEPT !.counts[s][t] = @ + 1, !.hhead[s] = <<t>> \o @]

(* nxsem_add_holder_tcb(): the structure is found or allocated.            *)
AddHolder(k, t, s) ==
    [k EXCEPT !.counts[s][t] = @ + 1,
              !.hhead[s] = IF Contains(@, t) THEN @ ELSE <<t>> \o @]

(* nxsem_freeholder()                                                      *)
FreeHolder(k, t, s) ==
    [k EXCEPT !.counts[s][t] = 0, !.hhead[s] = DqRem(@, t)]

(* nxsched_set_priority(): a waiting task moves in the wait list.          *)
SetPriority(k, t, p) ==
    LET new == [k.prio EXCEPT ![t] = p]
    IN  [k EXCEPT !.prio = new,
                  !.wait = [s \in Sems |->
                      IF Contains(k.wait[s], t)
                        THEN AddPrioritized(DqRem(k.wait[s], t), t, new)
                        ELSE k.wait[s]]]

(* nxsem_boostholderprio() of the holder h, for the running task t.        *)
BoostHolderPrio(k, t, h) ==
    IF k.prio[t] > k.prio[h] THEN SetPriority(k, h, k.prio[t]) ELSE k

(* nxsem_boost_priority(): the turns of the loop over the holders hs.      *)
BoostTurns(k, t, hs) ==
    LET x[i \in 0 .. Len(hs)] ==
          IF i = 0 THEN k ELSE BoostHolderPrio(x[i - 1], t, hs[i])
    IN  x

BoostPriority(k, t, s) == BoostTurns(k, t, k.hhead[s])[Len(k.hhead[s])]

(* Mutant of RestorePriority: the other semaphores the task holds are not  *)
(* looked at.                                                              *)
RestorePriority_ToBase(k, t) ==
    IF k.prio[t] = Base[t] THEN k ELSE SetPriority(k, t, Base[t])

(* nxsem_restore_priority(): back to the base priority, or to that of the  *)
(* first waiter of a semaphore the task is a recorded holder of.           *)
RestorePriority(k, t) ==
    LET first == {k.prio[Head(k.wait[s])] :
                    s \in {r \in Sems : /\ Contains(k.hhead[r], t)
                                        /\ k.wait[r] # <<>>}}
    IN  IF k.prio[t] = Base[t] THEN k
        ELSE SetPriority(k, t, Max({Base[t]} \cup first))

(* Mutant of RestoreHolderPrio: the structure of a mutex stays.            *)
RestoreHolderPrio_KeepsMutex(k, t, s) ==
    RestorePriority(IF k.counts[s][t] <= 0 THEN FreeHolder(k, t, s) ELSE k, t)

(* nxsem_restoreholderprio()                                               *)
RestoreHolderPrio(k, t, s) ==
    RestorePriority(
        IF k.counts[s][t] <= 0 \/ s \in Mutexes THEN FreeHolder(k, t, s)
                                                ELSE k, t)

(* nxsem_restoreholderprio_others(): there is one exception.               *)
RestoreOthers(k, t, s, but) == IF t = but THEN k ELSE RestoreHolderPrio(k, t, s)

(* nxsem_foreachholder() of that: the turns of the loop over holders hs.   *)
RestoreTurns(k, s, hs, but) ==
    LET x[i \in 0 .. Len(hs)] ==
          IF i = 0 THEN k ELSE RestoreOthers(x[i - 1], hs[i], s, but)
    IN  x

RestoreEach(k, s, but) == RestoreTurns(k, s, k.hhead[s], but)[Len(k.hhead[s])]

(* nxsem_canceled()                                                        *)
Canceled(k, s) == RestoreEach(k, s, None)

(* Mutant of RestoreBaseprio: only the running task is looked at.          *)
RestoreBaseprio_SelfOnly(k, self, woken, s) ==
    IF Contains(k.hhead[s], self) THEN RestoreHolderPrio(k, self, s) ELSE k

(* nxsem_restore_baseprio(), by the running task self: the other holders   *)
(* first.  Without a woken task, the first structure without counts is     *)
(* freed.                                                                  *)
RestoreBaseprio(k, self, woken, s) ==
    LET others == RestoreEach(k, s, self)
        empty == {i \in 1 .. Len(k.hhead[s]) :
                    k.counts[s][k.hhead[s][i]] <= 0 \/ s \in Mutexes}
    IN  IF woken
          THEN IF Contains(others.hhead[s], self)
                 THEN RestoreHolderPrio(others, self, s) ELSE others
          ELSE IF empty = {} THEN k
                 ELSE FreeHolder(k, k.hhead[s][Min(empty)], s)

-----------------------------------------------------------------------------
(* What the threads' rules allow.                                          *)
MayBlock(t, s) ==
    /\ waitobj[t] = None
    /\ \A r \in Sems : Holds(t, r) => use.nested /\ r < s

(* nxsem_wait_slow(): the task gets the semaphore ...                      *)
WaitTakes(t, s) ==
    /\ MayBlock(t, s)
    /\ \/ /\ s \in Mutexes /\ owner[s] = None
          /\ owner' = [owner EXCEPT ![s] = t]
          /\ UNCHANGED <<count, held>> /\ Become(Now)
       \/ /\ s \in Counters /\ count[s] > 0
          /\ count' = [count EXCEPT ![s] = @ - 1]
          /\ held' = [held EXCEPT ![s][t] = @ + 1]
          /\ Become(AddHolder(Now, t, s)) /\ UNCHANGED owner
    /\ UNCHANGED <<use, waitobj>>

(* ... or blocks: the owner of the mutex is recorded, and all holders get  *)
(* the priority of the task if that is higher.                             *)
WaitBlocks(t, s) ==
    LET k1 == IF s \in Mutexes THEN AddHolder(Now, owner[s], s) ELSE Now
        k2 == BoostPriority(k1, t, s)
    IN  /\ MayBlock(t, s)
        /\ \/ s \in Mutexes /\ owner[s] # None /\ UNCHANGED count
           \/ /\ s \in Counters /\ count[s] <= 0
              /\ count' = [count EXCEPT ![s] = @ - 1]
        /\ Become([k2 EXCEPT !.wait[s] = AddPrioritized(@, t, k2.prio)])
        /\ waitobj' = [waitobj EXCEPT ![t] = s]
        /\ UNCHANGED <<use, owner, held>>

(* nxsem_trywait_slow(), of a counting semaphore that may be held already. *)
TrywaitTakes(t, s) ==
    /\ waitobj[t] = None /\ use.nested
    /\ s \in Counters /\ count[s] > 0
    /\ count' = [count EXCEPT ![s] = @ - 1]
    /\ held' = [held EXCEPT ![s][t] = @ + 1]
    /\ Become(AddHolder(Now, t, s))
    /\ UNCHANGED <<use, owner, waitobj>>

(* nxsem_post_slow() by a holder.                                          *)
Post(t, s) ==
    LET woken == wait[s] # <<>>
        w == Head(wait[s])
        counter == s \in Counters
        k1 == IF Contains(hhead[s], t)
                THEN [Now EXCEPT !.counts[s][t] = @ - 1] ELSE Now
        k2 == IF woken THEN [k1 EXCEPT !.wait[s] = Tail(@)] ELSE k1
        k3 == IF woken /\ counter THEN AddHolder(k2, w, s) ELSE k2
    IN  /\ waitobj[t] = None /\ Holds(t, s)
        /\ Become(RestoreBaseprio(k3, t, woken, s))
        /\ waitobj' = IF woken THEN [waitobj EXCEPT ![w] = None] ELSE waitobj
        /\ owner' = IF counter THEN owner
                    ELSE [owner EXCEPT ![s] = IF woken THEN w ELSE None]
        /\ count' = IF counter THEN [count EXCEPT ![s] = @ + 1] ELSE count
        /\ held' = IF ~counter THEN held
                   ELSE [held EXCEPT ![s] = [u \in Tasks |->
                            @[u] - (IF u = t THEN 1 ELSE 0)
                                 + (IF woken /\ u = w THEN 1 ELSE 0)]]
        /\ UNCHANGED use

(* nxsem_wait_irq(): a timeout ends the wait.  The holders' priorities are *)
(* set first, with the task still in the wait list.                        *)
WaitIrq(t) ==
    LET s == waitobj[t]
        k == Canceled(Now, s)
    IN  /\ s \in use.timed
        /\ Become([k EXCEPT !.wait[s] = DqRem(@, t)])
        /\ waitobj' = [waitobj EXCEPT ![t] = None]
        /\ count' = IF s \in Counters THEN [count EXCEPT ![s] = @ + 1]
                                      ELSE count
        /\ UNCHANGED <<use, owner, held>>

Next ==
    \E t \in Tasks :
        \/ WaitIrq(t)
        \/ \E s \in Sems : \/ WaitTakes(t, s) \/ WaitBlocks(t, s)
                           \/ TrywaitTakes(t, s) \/ Post(t, s)

Spec == Init /\ [][Next]_vars

-----------------------------------------------------------------------------
(* Properties.                                                             *)

(* The holder structures agree with who holds: those of a counting         *)
(* semaphore count what each task has taken, and a mutex has at most one,  *)
(* that of its owner, while somebody waits for it; whoever blocks, times   *)
(* out, posts or is handed the semaphore.  Whether the priorities fit is   *)
(* the matter of Boosted and Restored.                                     *)
HoldersAgree ==
    /\ TypeOK
    /\ \A s \in Sems :
        /\ NoDuplicates(hhead[s])
        /\ ToSet(hhead[s]) = {t \in Tasks : counts[s][t] > 0}
        /\ IF s \in Mutexes
             THEN /\ ToSet(hhead[s]) \subseteq {owner[s]}
                  /\ hhead[s] # <<>> => wait[s] # <<>>
             ELSE counts[s] = held[s]

(* A free structure is left for the next blocked task or holder: mutexes   *)
(* need one structure per contended mutex, a counting semaphore one per    *)
(* holder; nxsem_allocholder() does not come to its PANIC().               *)
PoolSuffices ==
    FoldFunctionOnSet(LAMBDA a, b : a + b, 0,
                      [s \in Sems |-> Len(hhead[s])], Sems) <= NHolders

(* w waits for a semaphore that h holds with a lower priority.             *)
Inverted(w, h, s) == waitobj[w] = s /\ Holds(h, s) /\ prio[h] < prio[w]

(* No priority inversion: a holder has at least the priority of each       *)
(* waiter, when no task blocks while it holds another semaphore and the    *)
(* wait for a mutex does not time out.                                     *)
Boosted ==
    ~use.nested =>
        \A w, h \in Tasks : \A s \in Sems \ (Mutexes \cap use.timed) :
            ~Inverted(w, h, s)

(* The same when waits for mutexes may time out.                           *)
BoostedAfterTimeout ==
    \A w, h \in Tasks : \A s \in Sems : ~Inverted(w, h, s)

(* A raised priority is given back: a task has it only while it holds a    *)
(* semaphore, and, if waiters hold nothing themselves, while a task of     *)
(* that priority waits for it; unless a wait for a counting semaphore      *)
(* timed out.                                                              *)
Restored ==
    use.timed \cap Counters = {} =>
        \A t \in Tasks : prio[t] # Base[t] =>
            /\ prio[t] > Base[t]
            /\ \E s \in Sems :
                /\ Holds(t, s)
                /\ use.nested \/ \E w \in ToSet(wait[s]) : prio[w] = prio[t]
=============================================================================
