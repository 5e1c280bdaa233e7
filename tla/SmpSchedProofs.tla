--------------------------- MODULE SmpSchedProofs ---------------------------
(***************************************************************************)
(* Proofs about the SMP scheduler, for any number of CPUs and tasks, any   *)
(* priorities and any affinity masks.                                      *)
(***************************************************************************)
EXTENDS SmpSched, PrioListProofs

-----------------------------------------------------------------------------
(* The scheduler's state, and what its functions may rely on.              *)

SchedState ==
    [ready : Seq(Tasks), assigned : [CPUs -> Tcbs],
     deliver : [CPUs -> {"none", "higher", "equal"}],
     state : [Tasks -> {"inactive", "ready", "running", "blocked", "stopped"}],
     cpu : [Tasks -> CPUs], prio : [Tcbs -> Nat], mask : [Tasks -> Masks],
     lock : [Tcbs -> BOOLEAN]]

(* The lists agree with the task states, but for a task that is out of     *)
(* the lists while a function moves it; Null stands for none.              *)
Good(S, out) ==
    /\ S \in SchedState
    /\ NoDuplicates(S.ready) /\ IsPrioritized(S.ready, S.prio)
    /\ \A t \in Tasks : t \in ToSet(S.ready) <=> S.state[t] = "ready" /\ t # out
    /\ out \in Tasks => S.state[out] # "running"
    /\ \A t \in Tasks, c \in CPUs :
          S.assigned[c] = t <=> S.state[t] = "running" /\ S.cpu[t] = c
    /\ \A c, d \in CPUs : S.assigned[c] = d => c = d

LEMMA Fields ==
    ASSUME NEW S \in SchedState
    PROVE  /\ S.ready \in Seq(Tasks) /\ S.assigned \in [CPUs -> Tcbs]
           /\ S.deliver \in [CPUs -> {"none", "higher", "equal"}]
           /\ S.state \in [Tasks -> {"inactive", "ready", "running", "blocked", "stopped"}]
           /\ S.cpu \in [Tasks -> CPUs] /\ S.prio \in [Tcbs -> Nat]
           /\ S.mask \in [Tasks -> Masks] /\ S.lock \in [Tcbs -> BOOLEAN]
BY DEF SchedState

LEMMA Kinds ==
    /\ Null \notin Tasks /\ Null \notin CPUs
    /\ \A t \in Tasks : t \notin CPUs /\ t \in Tcbs
    /\ \A c \in CPUs : c \notin Tasks /\ c \in Tcbs /\ c \in Nat
    /\ NCPUS \in Nat /\ 0 \in CPUs
BY SmpConstants DEF Tcbs, CPUs

(* The lists hold tasks, and the priorities are those of idle tasks too.   *)
LEMMA TasksOnly ==
    ASSUME NEW list \in Seq(Tcbs), ToSet(list) \subseteq Tasks
    PROVE  list \in Seq(Tasks)
<1>1. \A k \in 1 .. Len(list) : list[k] \in Tasks
  BY ToSetIndex
<1> QED BY <1>1

LEMMA AddedFacts ==
    ASSUME NEW list \in Seq(Tasks), NEW t \in Tasks, NEW p \in [Tcbs -> Nat],
           NoDuplicates(list), IsPrioritized(list, p), t \notin ToSet(list)
    PROVE  /\ AddPrioritized(list, t, p) \in Seq(Tasks)
           /\ ToSet(AddPrioritized(list, t, p)) = ToSet(list) \cup {t}
           /\ NoDuplicates(AddPrioritized(list, t, p))
           /\ IsPrioritized(AddPrioritized(list, t, p), p)
<1>1. list \in Seq(Tcbs) /\ t \in Tcbs /\ p \in [Tcbs -> Int]
  BY DEF Tcbs
<1>2. PICK r : r = AddPrioritized(list, t, p)
  OBVIOUS
<1>3. r \in Seq(Tcbs) /\ ToSet(r) = ToSet(list) \cup {t} /\ NoDuplicates(r)
  <2>1. /\ AddPrioritized(list, t, p) \in Seq(Tcbs)
        /\ ToSet(AddPrioritized(list, t, p)) = ToSet(list) \cup {t}
        /\ NoDuplicates(AddPrioritized(list, t, p))
    BY <1>1, AddPrioritizedFacts
  <2> QED BY <1>2, <2>1
<1>4. ToSet(list) \subseteq Tasks
  BY ToSetIndex
<1>5. r \in Seq(Tasks)
  BY <1>3, <1>4, TasksOnly
<1>6. IsPrioritized(r, p)
  BY <1>1, <1>2, AddPrioritizedSorted
<1> QED BY <1>2, <1>3, <1>5, <1>6

(* The least and the greatest of some CPUs.                                *)
LEMMA MinCpu ==
    ASSUME NEW T, T \subseteq Nat, T # {}
    PROVE  Min(T) \in T /\ \A x \in T : Min(T) <= x
<1>1. \E x \in T : \A y \in T : x <= y
  BY LeastNatural
<1> QED BY <1>1 DEF Min

LEMMA MaxCpu ==
    ASSUME NEW T, T \subseteq CPUs, T # {}
    PROVE  Max(T) \in T
<1> DEFINE D == {NCPUS - x : x \in T}
<1>1. NCPUS \in Nat /\ \A x \in T : x \in Nat /\ x <= NCPUS
  BY SmpConstants DEF CPUs
<1>2. D \subseteq Nat /\ D # {}
  BY <1>1
<1> HIDE DEF D
<1>3. PICK d \in D : \A e \in D : d <= e
  BY <1>2, LeastNatural
<1> USE DEF D
<1>4. PICK x \in T : d = NCPUS - x
  OBVIOUS
<1>5. ASSUME NEW y \in T PROVE y <= x
  <2>1. d <= NCPUS - y
    BY <1>3
  <2> QED BY <1>1, <1>4, <2>1
<1>6. \E z \in T : \A y \in T : z >= y
  BY <1>1, <1>5
<1> QED BY <1>6 DEF Max

(* nxsched_select_cpu() selects one of the CPUs it may.                    *)
LEMMA SelectedCpu ==
    ASSUME NEW S \in SchedState, NEW m \in Masks
    PROVE  SelectCpu(S, m) \in m /\ SelectCpu(S, m) \in CPUs
<1>1. m \subseteq CPUs /\ m # {}
  BY SmpConstants
<1>2. PICK idle : idle = {i \in m : S.assigned[i] = i}
  OBVIOUS
<1>3. PICK low : low = {i \in m : \A j \in m : S.prio[S.assigned[i]] <= S.prio[S.assigned[j]]}
  OBVIOUS
<1>4. SelectCpu(S, m) = IF idle # {} THEN Min(idle) ELSE Max(low)
  BY <1>2, <1>3 DEF SelectCpu
<1>5. CASE idle # {}
  <2>1. idle \subseteq Nat /\ idle \subseteq m
    BY <1>1, <1>2, Kinds
  <2>2. Min(idle) \in idle
    BY <1>5, <2>1, MinCpu
  <2> QED BY <1>1, <1>4, <1>5, <2>1, <2>2
<1>6. CASE idle = {}
  <2>1. PICK P : P = {S.prio[S.assigned[i]] : i \in m}
    OBVIOUS
  <2>2. P \subseteq Nat /\ P # {}
    BY <1>1, <2>1, Fields
  <2>3. PICK p \in P : \A q \in P : p <= q
    BY <2>2, LeastNatural
  <2>4. low # {} /\ low \subseteq CPUs /\ low \subseteq m
    BY <1>1, <1>3, <2>1, <2>3
  <2>5. Max(low) \in low
    BY <2>4, MaxCpu
  <2> QED BY <1>1, <1>4, <1>6, <2>4, <2>5
<1> QED BY <1>5, <1>6

-----------------------------------------------------------------------------
(* nxsched_switch_running()                                                *)

(* The task that is found has the highest priority of those in the list    *)
(* that may run on the CPU, and a higher one than p.                       *)
LEMMA NextFound ==
    ASSUME NEW S \in SchedState, NEW c \in CPUs, NEW p \in Int,
           IsPrioritized(S.ready, S.prio)
    PROVE  \/ /\ NextFor(S, c, p) = 0
              /\ \A t \in ToSet(S.ready) : MayRun(S, t, c) => S.prio[t] <= p
           \/ /\ NextFor(S, c, p) \in 1 .. Len(S.ready)
              /\ MayRun(S, S.ready[NextFor(S, c, p)], c)
              /\ S.prio[S.ready[NextFor(S, c, p)]] > p
              /\ \A t \in ToSet(S.ready) :
                    MayRun(S, t, c) => S.prio[t] <= S.prio[S.ready[NextFor(S, c, p)]]
<1>1. PICK F : F = {i \in 1 .. Len(S.ready) : /\ \A j \in 1 .. i : S.prio[S.ready[j]] > p
                                              /\ MayRun(S, S.ready[i], c)}
  OBVIOUS
<1>2. PICK n : n = NextFor(S, c, p)
  OBVIOUS
<1>3. n = IF F = {} THEN 0 ELSE Min(F)
  BY <1>1, <1>2 DEF NextFor
<1>4. /\ S.ready \in Seq(Tasks) /\ Len(S.ready) \in Nat
      /\ \A i \in 1 .. Len(S.ready) : S.ready[i] \in Tasks /\ S.prio[S.ready[i]] \in Nat
  BY Fields DEF Tcbs
<1>5. ASSUME NEW i \in 1 .. Len(S.ready), S.prio[S.ready[i]] > p, MayRun(S, S.ready[i], c)
      PROVE  i \in F
  <2>1. ASSUME NEW j \in 1 .. i PROVE S.prio[S.ready[j]] > p
    <3>1. j \in 1 .. Len(S.ready) /\ (j = i \/ j < i)
      BY <1>4
    <3>2. j < i => S.prio[S.ready[i]] <= S.prio[S.ready[j]]
      BY <3>1 DEF IsPrioritized
    <3> QED BY <1>4, <1>5, <3>1, <3>2
  <2> QED BY <1>1, <1>5, <2>1
<1>6. CASE F = {}
  <2>1. ASSUME NEW t \in ToSet(S.ready), MayRun(S, t, c) PROVE S.prio[t] <= p
    <3>1. PICK i \in 1 .. Len(S.ready) : t = S.ready[i]
      BY <1>4, ToSetIndex
    <3>2. ~(S.prio[t] > p)
      BY <1>5, <1>6, <2>1, <3>1
    <3> QED BY <1>4, <3>1, <3>2
  <2> QED BY <1>2, <1>3, <1>6, <2>1
<1>7. CASE F # {}
  <2>1. F \subseteq Nat
    BY <1>1
  <2>2. n \in F /\ \A i \in F : n <= i
    BY <1>3, <1>7, <2>1, MinCpu
  <2>3. n \in 1 .. Len(S.ready) /\ MayRun(S, S.ready[n], c) /\ S.prio[S.ready[n]] > p
    BY <1>1, <2>2
  <2>4. ASSUME NEW t \in ToSet(S.ready), MayRun(S, t, c) PROVE S.prio[t] <= S.prio[S.ready[n]]
    <3>1. PICK i \in 1 .. Len(S.ready) : t = S.ready[i]
      BY <1>4, ToSetIndex
    <3>2. CASE n < i
      BY <2>3, <3>1, <3>2 DEF IsPrioritized
    <3>3. CASE i = n
      BY <1>4, <3>1, <3>3
    <3>4. CASE i < n
      <4>1. i \notin F
        BY <2>2, <2>3, <3>4
      <4>2. ~(S.prio[t] > p)
        BY <1>5, <2>4, <3>1, <4>1
      <4> QED BY <1>4, <2>3, <3>1, <4>2
    <3> QED BY <2>3, <3>2, <3>3, <3>4
  <2> QED BY <1>2, <2>3, <2>4
<1> QED BY <1>6, <1>7

(* The state after CPU c has switched to the task b.                       *)
SwitchedTo(S, T, c, b) ==
    /\ T \in SchedState
    /\ T.assigned = [S.assigned EXCEPT ![c] = b]
    /\ T.cpu = [S.cpu EXCEPT ![b] = c]
    /\ T.state = [t \in Tasks |-> IF t = b THEN "running"
                                  ELSE IF t = S.assigned[c] THEN "ready" ELSE S.state[t]]
    /\ T.deliver = S.deliver /\ T.prio = S.prio /\ T.mask = S.mask /\ T.lock = S.lock
    /\ NoDuplicates(T.ready) /\ IsPrioritized(T.ready, S.prio)
    /\ ToSet(T.ready) = (ToSet(S.ready) \ {b}) \cup ({S.assigned[c]} \cap Tasks)

LEMMA SwitchCases ==
    ASSUME NEW S, NEW out, Good(S, out), NEW c \in CPUs, NEW equal
    PROVE  \/ /\ SwitchRunning(S, c, equal) = S
              /\ \/ S.lock[S.assigned[c]]
                 \/ \A t \in ToSet(S.ready) :
                       MayRun(S, t, c) => S.prio[t] <= S.prio[S.assigned[c]]
           \/ /\ ~S.lock[S.assigned[c]]
              /\ \E b \in ToSet(S.ready) :
                    /\ MayRun(S, b, c) /\ S.prio[S.assigned[c]] <= S.prio[b]
                    /\ \A t \in ToSet(S.ready) : MayRun(S, t, c) => S.prio[t] <= S.prio[b]
                    /\ SwitchedTo(S, SwitchRunning(S, c, equal), c, b)
<1>1. PICK r : r = S.assigned[c]
  OBVIOUS
<1>2. PICK p : p = IF equal /\ S.prio[r] > 0 THEN S.prio[r] - 1 ELSE S.prio[r]
  OBVIOUS
<1>3. PICK i : i = NextFor(S, c, p)
  OBVIOUS
<1>4. S \in SchedState /\ NoDuplicates(S.ready) /\ IsPrioritized(S.ready, S.prio)
  BY DEF Good
<1>5. r \in Tcbs /\ S.prio[r] \in Nat /\ S.ready \in Seq(Tasks) /\ S.prio \in [Tcbs -> Nat]
  BY <1>1, <1>4, Fields
<1>6. p \in Int /\ p <= S.prio[r] /\ S.prio[r] <= p + 1
  BY <1>2, <1>5
<1>7. \/ /\ i = 0
         /\ \A t \in ToSet(S.ready) : MayRun(S, t, c) => S.prio[t] <= p
      \/ /\ i \in 1 .. Len(S.ready)
         /\ MayRun(S, S.ready[i], c)
         /\ S.prio[S.ready[i]] > p
         /\ \A t \in ToSet(S.ready) : MayRun(S, t, c) => S.prio[t] <= S.prio[S.ready[i]]
  BY <1>3, <1>4, <1>6, NextFound
<1>8. PICK T : T = SwitchRunning(S, c, equal)
  OBVIOUS
<1>9. CASE S.lock[r] \/ i = 0
  <2>1. T = S
    BY <1>1, <1>2, <1>3, <1>8, <1>9 DEF SwitchRunning
  <2>2. ASSUME i = 0, NEW t \in ToSet(S.ready), MayRun(S, t, c) PROVE S.prio[t] <= S.prio[r]
    <3>1. S.prio[t] <= p /\ t \in Tcbs
      BY <1>5, <1>7, <2>2, ToSetIndex DEF Tcbs
    <3> QED BY <1>5, <1>6, <3>1
  <2> QED BY <1>1, <1>8, <1>9, <2>1, <2>2
<1>10. CASE ~(S.lock[r] \/ i = 0)
  <2>1. PICK b : b = S.ready[i]
    OBVIOUS
  <2>2. /\ i \in 1 .. Len(S.ready) /\ MayRun(S, b, c) /\ S.prio[b] > p
        /\ \A t \in ToSet(S.ready) : MayRun(S, t, c) => S.prio[t] <= S.prio[b]
    BY <1>7, <1>10, <2>1
  <2>3. b \in ToSet(S.ready) /\ b \in Tasks /\ b \in Tcbs /\ S.prio[b] \in Nat
    BY <1>5, <2>1, <2>2, ToSetIndex DEF Tcbs
  <2>4. S.prio[r] <= S.prio[b]
    BY <1>5, <1>6, <2>2, <2>3
  <2>5. PICK rest : rest = DqRem(S.ready, b)
    OBVIOUS
  <2>7. /\ rest \in Seq(Tasks) /\ ToSet(rest) = ToSet(S.ready) \ {b}
        /\ NoDuplicates(rest) /\ IsPrioritized(rest, S.prio)
    <3>1. /\ DqRem(S.ready, b) \in Seq(Tasks) /\ ToSet(DqRem(S.ready, b)) = ToSet(S.ready) \ {b}
          /\ NoDuplicates(DqRem(S.ready, b))
      BY <1>4, <1>5, <2>3, DqRemFacts
    <3>2. IsPrioritized(DqRem(S.ready, b), S.prio)
      BY <1>4, <1>5, <2>3, DqRemSorted
    <3> QED BY <2>5, <3>1, <3>2
  <2>8. PICK new : new = IF r \in CPUs THEN rest ELSE AddPrioritized(rest, r, S.prio)
    OBVIOUS
  <2>9. /\ new \in Seq(Tasks) /\ NoDuplicates(new) /\ IsPrioritized(new, S.prio)
        /\ ToSet(new) = (ToSet(S.ready) \ {b}) \cup ({r} \cap Tasks)
    <3>1. CASE r \in CPUs
      BY <2>7, <2>8, <3>1, Kinds
    <3>2. CASE r \notin CPUs
      <4>1. r \in Tasks /\ r \notin ToSet(rest)
        BY <1>1, <1>5, <2>7, <3>2 DEF Good, Tcbs
      <4>2. /\ AddPrioritized(rest, r, S.prio) \in Seq(Tasks)
            /\ ToSet(AddPrioritized(rest, r, S.prio)) = ToSet(rest) \cup {r}
            /\ NoDuplicates(AddPrioritized(rest, r, S.prio))
            /\ IsPrioritized(AddPrioritized(rest, r, S.prio), S.prio)
        BY <1>5, <2>7, <4>1, AddedFacts
      <4> QED BY <2>7, <2>8, <3>2, <4>1, <4>2
    <3> QED BY <3>1, <3>2
  <2>10. PICK st : st = [t \in Tasks |-> CASE t = b -> "running"
                                           [] t # b /\ t = r -> "ready"
                                           [] OTHER -> S.state[t]]
    BY Zenon
  <2>11. st = [t \in Tasks |-> IF t = b THEN "running"
                               ELSE IF t = r THEN "ready" ELSE S.state[t]]
    BY <2>10
  <2>12. T = [S EXCEPT !.ready = new, !.state = st, !.assigned[c] = b, !.cpu[b] = c]
    <3>1. T = SwitchTo(S, c, b)
      BY <1>1, <1>2, <1>3, <1>8, <1>10, <2>1, ZenonT(30) DEF SwitchRunning
    <3> QED BY <1>1, <2>5, <2>8, <2>10, <3>1, Zenon DEF SwitchTo
  <2>13. /\ T.ready = new /\ T.state = st /\ T.deliver = S.deliver /\ T.prio = S.prio
         /\ T.mask = S.mask /\ T.lock = S.lock
         /\ T.assigned = [S.assigned EXCEPT ![c] = b] /\ T.cpu = [S.cpu EXCEPT ![b] = c]
    BY <1>4, <2>12 DEF SchedState
  <2>14. st \in [Tasks -> {"inactive", "ready", "running", "blocked", "stopped"}]
    BY <1>4, <2>11, Fields
  <2>15. T \in SchedState
    BY <1>4, <2>3, <2>9, <2>12, <2>14 DEF SchedState
  <2>16. SwitchedTo(S, T, c, b)
    BY <1>1, <2>9, <2>11, <2>13, <2>15 DEF SwitchedTo
  <2> QED BY <1>1, <1>8, <1>10, <2>2, <2>3, <2>4, <2>16
<1> QED BY <1>9, <1>10

-----------------------------------------------------------------------------
(* What the functions of the scheduler keep.                               *)

(* Tasks that are not in X stay ready or running, or in their wait, or     *)
(* stopped; they lose a CPU only if they have not disabled preemption; and *)
(* a task that is pinned to a CPU stays there.                             *)
Moves(S, T, X) ==
    /\ T.lock = S.lock /\ T.mask = S.mask /\ T.prio = S.prio
    /\ \A u \in Tasks :
          /\ u \notin X /\ S.state[u] \notin {"ready", "running"} => T.state[u] = S.state[u]
          /\ u \notin X /\ S.state[u] \in {"ready", "running"} =>
                T.state[u] \in {"ready", "running"}
          /\ u \notin X /\ S.state[u] = "running" /\ S.lock[u] => T.state[u] = "running"
          /\ pinned[u] => T.cpu[u] = S.cpu[u]

(* No task in the list waits for the CPU it was given to while that runs a *)
(* lower one, unless a request or an unlock is still to come.              *)
Settled(S, c) ==
    \A t \in ToSet(S.ready) :
        S.cpu[t] = c /\ c \in S.mask[t] =>
            \/ S.deliver[c] # "none"
            \/ S.lock[S.assigned[c]]
            \/ S.prio[t] <= S.prio[S.assigned[c]]

(* The tasks, but for x, are on CPUs that their affinity allows.           *)
Placed(S, x) ==
    \A t \in Tasks \ {x} :
        t \in ToSet(S.ready) \/ S.state[t] = "running" \/ pinned[t] => S.cpu[t] \in S.mask[t]

LEMMA MovesRefl ==
    ASSUME NEW S, NEW X
    PROVE  Moves(S, S, X)
BY DEF Moves

LEMMA MovesTrans ==
    ASSUME NEW S, NEW T, NEW U, NEW X, Moves(S, T, X), Moves(T, U, X)
    PROVE  Moves(S, U, X)
BY DEF Moves

(* Tasks that are pinned to a CPU stay there and none comes to life.       *)
Anchors(S, T) ==
    \A u \in Tasks : /\ pinned[u] => T.cpu[u] = S.cpu[u]
                     /\ S.state[u] = "inactive" => T.state[u] = "inactive"

LEMMA AnchorsMoves ==
    ASSUME NEW S, NEW T, NEW X, Moves(S, T, X), \A u \in X : S.state[u] # "inactive"
    PROVE  Anchors(S, T)
BY DEF Moves, Anchors

LEMMA AnchorsSame ==
    ASSUME NEW S, NEW T, T.state = S.state, T.cpu = S.cpu
    PROVE  Anchors(S, T)
BY DEF Anchors

LEMMA AnchorsTrans ==
    ASSUME NEW S, NEW T, NEW U, Anchors(S, T), Anchors(T, U)
    PROVE  Anchors(S, U)
BY DEF Anchors

LEMMA Switched ==
    ASSUME NEW S, NEW out, Good(S, out), NEW c \in CPUs, NEW equal
    PROVE  /\ Good(SwitchRunning(S, c, equal), out)
           /\ \A X : Moves(S, SwitchRunning(S, c, equal), X)
           /\ Settled(SwitchRunning(S, c, equal), c)
           /\ \A d \in CPUs \ {c} : Settled(S, d) => Settled(SwitchRunning(S, c, equal), d)
           /\ \A x : Placed(S, x) => Placed(SwitchRunning(S, c, equal), x)
           /\ S.lock[S.assigned[c]] => SwitchRunning(S, c, equal) = S
           /\ SwitchRunning(S, c, equal).deliver = S.deliver
           /\ SwitchRunning(S, c, equal).assigned[c] = S.assigned[c] =>
                 SwitchRunning(S, c, equal) = S
<1>1. PICK T : T = SwitchRunning(S, c, equal)
  OBVIOUS
<1>2. PICK r : r = S.assigned[c]
  OBVIOUS
<1>3. S \in SchedState
  BY DEF Good
<1>4. /\ S.ready \in Seq(Tasks) /\ S.assigned \in [CPUs -> Tcbs] /\ S.cpu \in [Tasks -> CPUs]
      /\ S.state \in [Tasks -> {"inactive", "ready", "running", "blocked", "stopped"}]
      /\ S.prio \in [Tcbs -> Nat] /\ r \in Tcbs /\ ToSet(S.ready) \subseteq Tasks
  BY <1>2, <1>3, Fields, ToSetIndex
<1>5. CASE /\ T = S
           /\ \/ S.lock[r]
              \/ \A t \in ToSet(S.ready) : MayRun(S, t, c) => S.prio[t] <= S.prio[r]
  <2>1. Settled(S, c)
    <3>1. ASSUME NEW t \in ToSet(S.ready), S.cpu[t] = c, c \in S.mask[t] PROVE MayRun(S, t, c)
      BY <3>1 DEF MayRun
    <3> QED BY <1>2, <1>5, <3>1 DEF Settled
  <2> QED BY <1>1, <1>5, <2>1, MovesRefl
<1>6. CASE /\ ~S.lock[r]
           /\ \E b \in ToSet(S.ready) :
                 /\ MayRun(S, b, c) /\ S.prio[r] <= S.prio[b]
                 /\ \A t \in ToSet(S.ready) : MayRun(S, t, c) => S.prio[t] <= S.prio[b]
                 /\ SwitchedTo(S, T, c, b)
  <2>1. PICK b \in ToSet(S.ready) :
                 /\ MayRun(S, b, c) /\ S.prio[r] <= S.prio[b]
                 /\ \A t \in ToSet(S.ready) : MayRun(S, t, c) => S.prio[t] <= S.prio[b]
                 /\ SwitchedTo(S, T, c, b)
    BY <1>6
  <2>2. /\ T \in SchedState
        /\ T.assigned = [S.assigned EXCEPT ![c] = b]
        /\ T.cpu = [S.cpu EXCEPT ![b] = c]
        /\ T.state = [t \in Tasks |-> IF t = b THEN "running"
                                      ELSE IF t = r THEN "ready" ELSE S.state[t]]
        /\ T.deliver = S.deliver /\ T.prio = S.prio /\ T.mask = S.mask /\ T.lock = S.lock
        /\ NoDuplicates(T.ready) /\ IsPrioritized(T.ready, S.prio)
        /\ ToSet(T.ready) = (ToSet(S.ready) \ {b}) \cup ({r} \cap Tasks)
    BY <1>2, <2>1 DEF SwitchedTo
  <2>3. /\ b \in Tasks /\ S.state[b] = "ready" /\ b # out /\ b # r
        /\ r \in Tasks => S.state[r] = "running" /\ S.cpu[r] = c /\ r # out
        /\ ~pinned[b] \/ S.cpu[b] = c
        /\ c \in S.mask[b]
    BY <1>2, <1>4, <2>1 DEF Good, MayRun
  <2>4. Good(T, out)
    <3>1. ASSUME NEW t \in Tasks
          PROVE  /\ t \in ToSet(T.ready) <=> T.state[t] = "ready" /\ t # out
                 /\ t = out => T.state[t] # "running"
      BY <2>2, <2>3 DEF Good
    <3>2. ASSUME NEW t \in Tasks, NEW d \in CPUs
          PROVE  T.assigned[d] = t <=> T.state[t] = "running" /\ T.cpu[t] = d
      <4>1. S.assigned[d] = t <=> S.state[t] = "running" /\ S.cpu[t] = d
        BY DEF Good
      <4>2. T.assigned[d] = IF d = c THEN b ELSE S.assigned[d]
        BY <1>4, <2>2
      <4>3. T.cpu[t] = IF t = b THEN c ELSE S.cpu[t]
        BY <1>4, <2>2
      <4>4. T.state[t] = IF t = b THEN "running" ELSE IF t = r THEN "ready" ELSE S.state[t]
        BY <2>2
      <4>5. S.state[t] = "running" /\ S.cpu[t] = c => t = r
        BY <1>2 DEF Good
      <4> QED BY <1>2, <2>3, <4>1, <4>2, <4>3, <4>4, <4>5
    <3>3. ASSUME NEW d \in CPUs, NEW e \in CPUs, T.assigned[d] = e PROVE d = e
      <4>1. b \notin CPUs
        BY <2>3, Kinds
      <4>2. T.assigned[d] = IF d = c THEN b ELSE S.assigned[d]
        BY <1>4, <2>2
      <4>3. S.assigned[d] = e
        BY <3>3, <4>1, <4>2
      <4> QED BY <4>3 DEF Good
    <3> QED BY <2>2, <3>1, <3>2, <3>3 DEF Good
  <2>5. ASSUME NEW X PROVE Moves(S, T, X)
    <3>1. ASSUME NEW u \in Tasks
          PROVE  /\ S.state[u] \notin {"ready", "running"} => T.state[u] = S.state[u]
                 /\ S.state[u] \in {"ready", "running"} => T.state[u] \in {"ready", "running"}
                 /\ S.state[u] = "running" /\ S.lock[u] => T.state[u] = "running"
                 /\ pinned[u] => T.cpu[u] = S.cpu[u]
      BY <1>4, <1>6, <2>2, <2>3
    <3> QED BY <2>2, <3>1 DEF Moves
  <2>6. Settled(T, c)
    <3> SUFFICES ASSUME NEW t \in ToSet(T.ready), T.cpu[t] = c, c \in T.mask[t]
                 PROVE  T.prio[t] <= T.prio[T.assigned[c]]
      BY DEF Settled
    <3>1. T.assigned[c] = b /\ T.prio = S.prio
      BY <1>4, <2>2
    <3>2. CASE t = r
      BY <2>1, <3>1, <3>2
    <3>3. CASE t # r
      <4>1. t \in ToSet(S.ready) /\ t # b /\ t \in Tasks
        BY <1>4, <2>2, <3>3
      <4>2. S.cpu[t] = c /\ c \in S.mask[t]
        BY <1>4, <2>2, <4>1
      <4>3. MayRun(S, t, c)
        BY <4>2 DEF MayRun
      <4> QED BY <2>1, <3>1, <4>1, <4>3
    <3> QED BY <3>2, <3>3
  <2>7. ASSUME NEW d \in CPUs \ {c}, Settled(S, d) PROVE Settled(T, d)
    <3> SUFFICES ASSUME NEW t \in ToSet(T.ready), T.cpu[t] = d, d \in T.mask[t]
                 PROVE  \/ T.deliver[d] # "none" \/ T.lock[T.assigned[d]]
                        \/ T.prio[t] <= T.prio[T.assigned[d]]
      BY DEF Settled
    <3>1. t \in ToSet(S.ready) /\ t # b /\ S.cpu[t] = d
      BY <1>4, <2>2, <2>3
    <3>2. T.assigned[d] = S.assigned[d]
      BY <1>4, <2>2
    <3> QED BY <2>2, <2>7, <3>1, <3>2 DEF Settled
  <2>8. ASSUME NEW x, Placed(S, x) PROVE Placed(T, x)
    <3> SUFFICES ASSUME NEW t \in Tasks \ {x},
                        t \in ToSet(T.ready) \/ T.state[t] = "running" \/ pinned[t]
                 PROVE  T.cpu[t] \in T.mask[t]
      BY DEF Placed
    <3>1. CASE t = b
      BY <1>4, <2>2, <2>3, <3>1
    <3>2. CASE t # b
      <4>1. T.cpu[t] = S.cpu[t] /\ T.mask[t] = S.mask[t]
        BY <1>4, <2>2, <3>2
      <4>2. t \in ToSet(S.ready) \/ S.state[t] = "running" \/ pinned[t]
        BY <2>2, <2>3, <3>2
      <4> QED BY <2>8, <4>1, <4>2 DEF Placed
    <3> QED BY <3>1, <3>2
  <2>9. T.assigned[c] # r
    BY <1>4, <2>2, <2>3
  <2> QED BY <1>1, <1>2, <1>6, <2>2, <2>4, <2>5, <2>6, <2>7, <2>8, <2>9
<1> QED BY <1>1, <1>2, <1>5, <1>6, SwitchCases

(* nxsched_deliver_task(): the target has switched, or has a request.      *)
LEMMA Delivered ==
    ASSUME NEW S, NEW out, Good(S, out), NEW me \in CPUs, NEW target \in CPUs,
           NEW rule \in {"higher", "equal"}
    PROVE  /\ Good(DeliverTask(S, me, target, rule), out)
           /\ \A X : Moves(S, DeliverTask(S, me, target, rule), X)
           /\ Settled(DeliverTask(S, me, target, rule), target)
           /\ \A d \in CPUs \ {target} :
                 Settled(S, d) => Settled(DeliverTask(S, me, target, rule), d)
           /\ \A x : Placed(S, x) => Placed(DeliverTask(S, me, target, rule), x)
           /\ S.lock[S.assigned[me]] =>
                 DeliverTask(S, me, target, rule).assigned = S.assigned
<1>1. PICK T : T = DeliverTask(S, me, target, rule)
  OBVIOUS
<1>2. CASE S.deliver[target] = rule
  <2>1. T = S
    BY <1>1, <1>2 DEF DeliverTask
  <2>2. Settled(S, target)
    BY <1>2 DEF Settled
  <2> QED BY <1>1, <2>1, <2>2, MovesRefl
<1>3. CASE S.deliver[target] # rule /\ me = target
  <2>1. T = SwitchRunning(S, me, rule = "equal")
    BY <1>1, <1>3 DEF DeliverTask
  <2>2. PICK eq : eq = (rule = "equal")
    OBVIOUS
  <2>3. T = SwitchRunning(S, me, eq)
    BY <2>1, <2>2
  <2>4. /\ Good(SwitchRunning(S, me, eq), out)
        /\ \A X : Moves(S, SwitchRunning(S, me, eq), X)
        /\ Settled(SwitchRunning(S, me, eq), me)
        /\ \A d \in CPUs \ {me} : Settled(S, d) => Settled(SwitchRunning(S, me, eq), d)
        /\ \A x : Placed(S, x) => Placed(SwitchRunning(S, me, eq), x)
        /\ S.lock[S.assigned[me]] => SwitchRunning(S, me, eq) = S
    BY Switched
  <2> QED BY <1>1, <1>3, <2>3, <2>4
<1>4. CASE S.deliver[target] # rule /\ me # target
  <2>1. T = [S EXCEPT !.deliver[target] = rule]
    BY <1>1, <1>4 DEF DeliverTask
  <2>2. S \in SchedState /\ S.deliver \in [CPUs -> {"none", "higher", "equal"}]
    BY Fields DEF Good
  <2>3. /\ T \in SchedState /\ T.deliver = [S.deliver EXCEPT ![target] = rule]
        /\ T.ready = S.ready /\ T.assigned = S.assigned /\ T.state = S.state /\ T.cpu = S.cpu
        /\ T.prio = S.prio /\ T.mask = S.mask /\ T.lock = S.lock
    BY <2>1, <2>2 DEF SchedState
  <2>4. Good(T, out)
    BY <2>3 DEF Good
  <2>5. \A X : Moves(S, T, X)
    BY <2>3 DEF Moves
  <2>6. T.deliver[target] # "none" /\ \A d \in CPUs \ {target} : T.deliver[d] = S.deliver[d]
    BY <2>2, <2>3
  <2>7. Settled(T, target)
    BY <2>6 DEF Settled
  <2>8. \A d \in CPUs \ {target} : Settled(S, d) => Settled(T, d)
    BY <2>3, <2>6 DEF Settled
  <2>9. \A x : Placed(S, x) => Placed(T, x)
    BY <2>3 DEF Placed
  <2> QED BY <1>1, <2>3, <2>4, <2>5, <2>7, <2>8, <2>9
<1> QED BY <1>2, <1>3, <1>4

(* nxsched_add_readytorun() of a task that is in no list.                  *)
LEMMA Added ==
    ASSUME NEW S, NEW t \in Tasks, Good(S, t), NEW me \in CPUs
    PROVE  /\ Good(AddReadyToRun(S, me, t), Null)
           /\ Moves(S, AddReadyToRun(S, me, t), {t})
           /\ \A d \in CPUs : Settled(S, d) => Settled(AddReadyToRun(S, me, t), d)
           /\ Placed(S, t) /\ (pinned[t] => S.cpu[t] \in S.mask[t]) =>
                 Placed(AddReadyToRun(S, me, t), Null)
           /\ S.lock[S.assigned[me]] => AddReadyToRun(S, me, t).assigned = S.assigned
<1>1. PICK target : target = IF pinned[t] THEN S.cpu[t] ELSE SelectCpu(S, S.mask[t])
  OBVIOUS
<1>2. PICK T : T = [S EXCEPT !.ready = AddPrioritized(@, t, S.prio), !.state[t] = "ready",
                             !.cpu[t] = target]
  OBVIOUS
<1>3. PICK new : new = AddPrioritized(S.ready, t, S.prio)
  OBVIOUS
<1>4. /\ S \in SchedState
      /\ S.ready \in Seq(Tasks) /\ S.assigned \in [CPUs -> Tcbs] /\ S.cpu \in [Tasks -> CPUs]
      /\ S.state \in [Tasks -> {"inactive", "ready", "running", "blocked", "stopped"}]
      /\ S.prio \in [Tcbs -> Nat] /\ S.mask[t] \in Masks /\ S.lock \in [Tcbs -> BOOLEAN]
      /\ NoDuplicates(S.ready) /\ IsPrioritized(S.ready, S.prio) /\ t \notin ToSet(S.ready)
      /\ t \in Tcbs
  BY Fields, Kinds, SMTT(30) DEF Good
<1>5. target \in CPUs /\ (~pinned[t] => target \in S.mask[t])
  BY <1>1, <1>4, SelectedCpu
<1>6. /\ new \in Seq(Tasks) /\ ToSet(new) = ToSet(S.ready) \cup {t}
      /\ NoDuplicates(new) /\ IsPrioritized(new, S.prio)
  BY <1>3, <1>4, AddedFacts
<1>7. /\ T \in SchedState /\ T.ready = new /\ T.state = [S.state EXCEPT ![t] = "ready"]
      /\ T.cpu = [S.cpu EXCEPT ![t] = target] /\ T.assigned = S.assigned
      /\ T.deliver = S.deliver /\ T.prio = S.prio /\ T.mask = S.mask /\ T.lock = S.lock
  <2>1. T = [S EXCEPT !.ready = new, !.state[t] = "ready", !.cpu[t] = target]
    BY <1>2, <1>3
  <2> QED BY <1>4, <1>5, <1>6, <2>1 DEF SchedState
<1>8. Good(T, Null)
  <2>1. ASSUME NEW u \in Tasks
        PROVE  u \in ToSet(T.ready) <=> T.state[u] = "ready" /\ u # Null
    BY <1>4, <1>6, <1>7, Kinds, SMTT(30) DEF Good
  <2>2. ASSUME NEW u \in Tasks, NEW d \in CPUs
        PROVE  T.assigned[d] = u <=> T.state[u] = "running" /\ T.cpu[u] = d
    BY <1>4, <1>7 DEF Good
  <2> QED BY <1>6, <1>7, <2>1, <2>2, Kinds DEF Good
<1>9. Moves(S, T, {t})
  BY <1>1, <1>4, <1>7 DEF Moves
<1>10. PICK R : R = AddReadyToRun(S, me, t)
  OBVIOUS
<1>11. R = IF S.prio[S.assigned[target]] < S.prio[t]
           THEN DeliverTask(T, me, target, "higher") ELSE T
  BY <1>1, <1>2, <1>10 DEF AddReadyToRun
<1>12. ASSUME NEW d \in CPUs \ {target}, Settled(S, d) PROVE Settled(T, d)
  <2> SUFFICES ASSUME NEW u \in ToSet(T.ready), T.cpu[u] = d, d \in T.mask[u]
               PROVE  \/ T.deliver[d] # "none" \/ T.lock[T.assigned[d]]
                      \/ T.prio[u] <= T.prio[T.assigned[d]]
    BY DEF Settled
  <2>1. u \in ToSet(S.ready) /\ S.cpu[u] = d
    BY <1>4, <1>6, <1>7, ToSetIndex
  <2> QED BY <1>7, <1>12, <2>1 DEF Settled
<1>13. ASSUME Placed(S, t), pinned[t] => S.cpu[t] \in S.mask[t] PROVE Placed(T, Null)
  <2> SUFFICES ASSUME NEW u \in Tasks,
                      u \in ToSet(T.ready) \/ T.state[u] = "running" \/ pinned[u]
               PROVE  T.cpu[u] \in T.mask[u]
    BY DEF Placed
  <2>1. CASE u = t
    BY <1>1, <1>4, <1>5, <1>7, <1>13, <2>1
  <2>2. CASE u # t
    <3>1. /\ T.cpu[u] = S.cpu[u] /\ T.mask[u] = S.mask[u]
          /\ u \in ToSet(S.ready) \/ S.state[u] = "running" \/ pinned[u]
      BY <1>4, <1>6, <1>7, <2>2
    <3> QED BY <1>13, <2>2, <3>1 DEF Placed
  <2> QED BY <2>1, <2>2
<1>14. CASE S.prio[S.assigned[target]] < S.prio[t]
  <2>1. PICK U : U = DeliverTask(T, me, target, "higher")
    OBVIOUS
  <2>2. R = U
    BY <1>11, <1>14, <2>1
  <2>3. /\ Good(U, Null) /\ Moves(T, U, {t}) /\ Settled(U, target)
        /\ \A d \in CPUs \ {target} : Settled(T, d) => Settled(U, d)
        /\ \A x : Placed(T, x) => Placed(U, x)
        /\ T.lock[T.assigned[me]] => U.assigned = T.assigned
    <3>1. "higher" \in {"higher", "equal"}
      OBVIOUS
    <3>2. /\ Good(DeliverTask(T, me, target, "higher"), Null)
          /\ \A X : Moves(T, DeliverTask(T, me, target, "higher"), X)
          /\ Settled(DeliverTask(T, me, target, "higher"), target)
          /\ \A d \in CPUs \ {target} :
                Settled(T, d) => Settled(DeliverTask(T, me, target, "higher"), d)
          /\ \A x : Placed(T, x) => Placed(DeliverTask(T, me, target, "higher"), x)
          /\ T.lock[T.assigned[me]] =>
                DeliverTask(T, me, target, "higher").assigned = T.assigned
      BY <1>5, <1>8, <3>1, Delivered
    <3> QED BY <2>1, <3>2
  <2>4. Moves(S, U, {t})
    BY <1>9, <2>3, MovesTrans
  <2>5. \A d \in CPUs : Settled(S, d) => Settled(U, d)
    BY <1>12, <2>3
  <2> QED BY <1>7, <1>10, <1>13, <2>2, <2>3, <2>4, <2>5
<1>15. CASE ~(S.prio[S.assigned[target]] < S.prio[t])
  <2>1. R = T
    BY <1>11, <1>15
  <2>2. ASSUME Settled(S, target) PROVE Settled(T, target)
    <3> SUFFICES ASSUME NEW u \in ToSet(T.ready), T.cpu[u] = target, target \in T.mask[u]
                 PROVE  \/ T.deliver[target] # "none" \/ T.lock[T.assigned[target]]
                        \/ T.prio[u] <= T.prio[T.assigned[target]]
      BY DEF Settled
    <3>1. CASE u = t
      <4>1. S.prio[t] \in Nat /\ S.prio[S.assigned[target]] \in Nat
        BY <1>4, <1>5
      <4> QED BY <1>7, <1>15, <3>1, <4>1
    <3>2. CASE u # t
      <4>1. u \in ToSet(S.ready) /\ u \in Tasks
        BY <1>4, <1>6, <1>7, <3>2, ToSetIndex
      <4>2. S.cpu[u] = target
        BY <1>4, <1>7, <3>2, <4>1
      <4> QED BY <1>7, <2>2, <4>1, <4>2 DEF Settled
    <3> QED BY <3>1, <3>2
  <2>3. \A d \in CPUs : Settled(S, d) => Settled(T, d)
    BY <1>12, <2>2
  <2> QED BY <1>7, <1>8, <1>9, <1>10, <1>13, <2>1, <2>3
<1> QED BY <1>14, <1>15

(* A task that is not ready is not missed in the list.                     *)
LEMMA GoodAgain ==
    ASSUME NEW S, NEW t \in Tasks
    PROVE  /\ Good(S, t) /\ S.state[t] # "ready" => Good(S, Null)
           /\ Good(S, Null) /\ S.state[t] \notin {"ready", "running"} => Good(S, t)
<1>1. \A u \in Tasks : u # Null
  BY Kinds
<1>2. Null \notin Tasks
  BY Kinds
<1> QED BY <1>1, <1>2 DEF Good

LeftAs(S, L, t, next) ==
    /\ L \in SchedState /\ L.state = [S.state EXCEPT ![t] = next]
    /\ L.cpu = [S.cpu EXCEPT ![t] = IF pinned[t] THEN S.cpu[t] ELSE 0]
    /\ L.ready = S.ready /\ L.assigned = S.assigned /\ L.deliver = S.deliver
    /\ L.prio = S.prio /\ L.mask = S.mask /\ L.lock = S.lock

LEMMA LeavesFields ==
    ASSUME NEW S \in SchedState, NEW t \in Tasks,
           NEW next \in {"inactive", "ready", "blocked", "stopped"}
    PROVE  LeftAs(S, Leaves(S, t, next), t, next)
<1>1. 0 \in CPUs
  BY Kinds
<1> QED BY <1>1 DEF Leaves, SchedState, LeftAs

(* nxsched_remove_running(): the CPU runs another task, or its idle task.  *)
LEMMA Removed ==
    ASSUME NEW S, NEW t \in Tasks, Good(S, Null), S.state[t] = "running",
           NEW next \in {"inactive", "ready", "blocked", "stopped"}
    PROVE  /\ Good(RemoveRunning(S, t, next), t)
           /\ next # "ready" =>
                 /\ Good(RemoveRunning(S, t, next), Null)
                 /\ RemoveRunning(S, t, next).state[t] = next
           /\ Moves(S, RemoveRunning(S, t, next), {t})
           /\ \A d \in CPUs : d = S.cpu[t] \/ Settled(S, d) =>
                 Settled(RemoveRunning(S, t, next), d)
           /\ \A x : Placed(S, x) => Placed(RemoveRunning(S, t, next), x)
<1>1. PICK c : c = S.cpu[t]
  OBVIOUS
<1>2. PICK L : L = Leaves(S, t, next)
  OBVIOUS
<1>3. PICK T : T = [L EXCEPT !.assigned[c] = c]
  OBVIOUS
<1>4. PICK R : R = SwitchRunning(T, c, FALSE)
  OBVIOUS
<1>5. R = RemoveRunning(S, t, next)
  BY <1>1, <1>2, <1>3, <1>4 DEF RemoveRunning
<1>6. /\ S \in SchedState
      /\ S.ready \in Seq(Tasks) /\ S.assigned \in [CPUs -> Tcbs] /\ S.cpu \in [Tasks -> CPUs]
      /\ S.state \in [Tasks -> {"inactive", "ready", "running", "blocked", "stopped"}]
      /\ t \notin ToSet(S.ready) /\ c \in CPUs /\ c \in Tcbs /\ S.assigned[c] = t
  BY <1>1, Fields, Kinds DEF Good
<1>7. /\ L \in SchedState /\ L.state = [S.state EXCEPT ![t] = next]
      /\ L.cpu = [S.cpu EXCEPT ![t] = IF pinned[t] THEN S.cpu[t] ELSE 0]
      /\ L.ready = S.ready /\ L.assigned = S.assigned /\ L.deliver = S.deliver
      /\ L.prio = S.prio /\ L.mask = S.mask /\ L.lock = S.lock
  <2>1. LeftAs(S, L, t, next)
    BY <1>2, <1>6, LeavesFields
  <2> QED BY <2>1 DEF LeftAs
<1>8. /\ T \in SchedState /\ T.state = [S.state EXCEPT ![t] = next]
      /\ T.cpu = [S.cpu EXCEPT ![t] = IF pinned[t] THEN S.cpu[t] ELSE 0]
      /\ T.ready = S.ready /\ T.assigned = [S.assigned EXCEPT ![c] = c]
      /\ T.deliver = S.deliver /\ T.prio = S.prio /\ T.mask = S.mask /\ T.lock = S.lock
  BY <1>3, <1>6, <1>7 DEF SchedState
<1>9. Good(T, t)
  <2>1. ASSUME NEW u \in Tasks
        PROVE  /\ u \in ToSet(T.ready) <=> T.state[u] = "ready" /\ u # t
               /\ u = t => T.state[u] # "running"
    <3>1. u # Null
      BY Kinds
    <3> QED BY <1>6, <1>8, <3>1 DEF Good
  <2>2. ASSUME NEW u \in Tasks, NEW d \in CPUs
        PROVE  T.assigned[d] = u <=> T.state[u] = "running" /\ T.cpu[u] = d
    <3>1. S.assigned[d] = u <=> S.state[u] = "running" /\ S.cpu[u] = d
      BY DEF Good
    <3>2. T.assigned[d] = IF d = c THEN c ELSE S.assigned[d]
      BY <1>6, <1>8
    <3>3. c # u
      BY <1>6, Kinds
    <3>4. u # t => T.cpu[u] = S.cpu[u] /\ T.state[u] = S.state[u]
      BY <1>6, <1>8
    <3>5. T.state[t] # "running" /\ S.cpu[t] = c /\ S.assigned[c] = t
      BY <1>1, <1>6, <1>8
    <3> QED BY <3>1, <3>2, <3>3, <3>4, <3>5
  <2>3. ASSUME NEW d \in CPUs, NEW e \in CPUs, T.assigned[d] = e PROVE d = e
    <3>1. T.assigned[d] = IF d = c THEN c ELSE S.assigned[d]
      BY <1>6, <1>8
    <3> QED BY <2>3, <3>1 DEF Good
  <2>4. NoDuplicates(T.ready) /\ IsPrioritized(T.ready, T.prio)
    BY <1>8 DEF Good
  <2> QED BY <1>8, <2>1, <2>2, <2>3, <2>4 DEF Good
<1>10. Moves(S, T, {t})
  BY <1>6, <1>8 DEF Moves
<1>11. ASSUME NEW d \in CPUs \ {c}, Settled(S, d) PROVE Settled(T, d)
  <2> SUFFICES ASSUME NEW u \in ToSet(T.ready), T.cpu[u] = d, d \in T.mask[u]
               PROVE  \/ T.deliver[d] # "none" \/ T.lock[T.assigned[d]]
                      \/ T.prio[u] <= T.prio[T.assigned[d]]
    BY DEF Settled
  <2>1. u \in ToSet(S.ready) /\ u # t /\ u \in Tasks
    BY <1>6, <1>8, ToSetIndex
  <2>2. S.cpu[u] = d /\ T.assigned[d] = S.assigned[d]
    BY <1>6, <1>8, <2>1
  <2> QED BY <1>8, <1>11, <2>1, <2>2 DEF Settled
<1>12. ASSUME NEW x, Placed(S, x) PROVE Placed(T, x)
  <2> SUFFICES ASSUME NEW u \in Tasks \ {x},
                      u \in ToSet(T.ready) \/ T.state[u] = "running" \/ pinned[u]
               PROVE  T.cpu[u] \in T.mask[u]
    BY DEF Placed
  <2>1. /\ T.cpu[u] = S.cpu[u] /\ T.mask[u] = S.mask[u]
        /\ u \in ToSet(S.ready) \/ S.state[u] = "running" \/ pinned[u]
    BY <1>6, <1>8
  <2> QED BY <1>12, <2>1 DEF Placed
<1>13. /\ Good(R, t) /\ Moves(T, R, {}) /\ Settled(R, c)
       /\ \A d \in CPUs \ {c} : Settled(T, d) => Settled(R, d)
       /\ \A x : Placed(T, x) => Placed(R, x)
  <2>1. /\ Good(SwitchRunning(T, c, FALSE), t)
        /\ \A X : Moves(T, SwitchRunning(T, c, FALSE), X)
        /\ Settled(SwitchRunning(T, c, FALSE), c)
        /\ \A d \in CPUs \ {c} : Settled(T, d) => Settled(SwitchRunning(T, c, FALSE), d)
        /\ \A x : Placed(T, x) => Placed(SwitchRunning(T, c, FALSE), x)
    BY <1>6, <1>9, Switched
  <2> QED BY <1>4, <2>1
<1>14. Moves(S, R, {t})
  <2>1. Moves(T, R, {t})
    BY <1>13 DEF Moves
  <2> QED BY <1>10, <2>1, MovesTrans
<1>15. ASSUME next # "ready" PROVE R.state[t] = next /\ Good(R, Null)
  <2>1. T.state[t] = next
    BY <1>6, <1>8
  <2>2. R.state[t] = next
    BY <1>13, <1>15, <2>1 DEF Moves
  <2> QED BY <1>13, <1>15, <2>2, GoodAgain
<1>16. \A d \in CPUs : d = c \/ Settled(S, d) => Settled(R, d)
  BY <1>11, <1>13
<1> QED BY <1>1, <1>5, <1>12, <1>13, <1>14, <1>15, <1>16

(* nxsched_remove_readytorun() of a task in whatever state.                *)
LEMMA RemovedAny ==
    ASSUME NEW S, NEW t \in Tasks, Good(S, Null),
           NEW next \in {"inactive", "blocked", "stopped"}
    PROVE  /\ Good(RemoveReadyToRun(S, t, next), Null)
           /\ RemoveReadyToRun(S, t, next).state[t] = next
           /\ Moves(S, RemoveReadyToRun(S, t, next), {t})
           /\ \A d \in CPUs : Settled(S, d) => Settled(RemoveReadyToRun(S, t, next), d)
           /\ \A x : Placed(S, x) => Placed(RemoveReadyToRun(S, t, next), x)
<1>1. PICK R : R = RemoveReadyToRun(S, t, next)
  OBVIOUS
<1>2. CASE S.state[t] = "running"
  <2>1. R = RemoveRunning(S, t, next) /\ next # "ready"
        /\ next \in {"inactive", "ready", "blocked", "stopped"}
    BY <1>1, <1>2 DEF RemoveReadyToRun
  <2>2. /\ Good(RemoveRunning(S, t, next), Null)
        /\ RemoveRunning(S, t, next).state[t] = next
        /\ Moves(S, RemoveRunning(S, t, next), {t})
        /\ \A d \in CPUs : d = S.cpu[t] \/ Settled(S, d) =>
              Settled(RemoveRunning(S, t, next), d)
        /\ \A x : Placed(S, x) => Placed(RemoveRunning(S, t, next), x)
    BY <1>2, <2>1, Removed
  <2> QED BY <1>1, <2>1, <2>2
<1>3. CASE S.state[t] # "running"
  <2>1. PICK L : L = Leaves(S, t, next)
    OBVIOUS
  <2>2. /\ S \in SchedState
        /\ S.ready \in Seq(Tasks) /\ S.assigned \in [CPUs -> Tcbs] /\ S.cpu \in [Tasks -> CPUs]
        /\ S.state \in [Tasks -> {"inactive", "ready", "running", "blocked", "stopped"}]
        /\ NoDuplicates(S.ready) /\ IsPrioritized(S.ready, S.prio)
        /\ ToSet(S.ready) \subseteq Tasks
        /\ t \in ToSet(S.ready) <=> S.state[t] = "ready"
    BY Fields, Kinds, ToSetIndex DEF Good
  <2>3. PICK new : new = IF S.state[t] = "ready" THEN DqRem(S.ready, t) ELSE S.ready
    OBVIOUS
  <2>4. /\ new \in Seq(Tasks) /\ NoDuplicates(new) /\ IsPrioritized(new, S.prio)
        /\ ToSet(new) = ToSet(S.ready) \ {t}
    <3>1. CASE S.state[t] = "ready"
      <4>1. /\ DqRem(S.ready, t) \in Seq(Tasks) /\ NoDuplicates(DqRem(S.ready, t))
            /\ ToSet(DqRem(S.ready, t)) = ToSet(S.ready) \ {t}
        BY <2>2, <3>1, DqRemFacts
      <4>2. IsPrioritized(DqRem(S.ready, t), S.prio)
        BY <2>2, <3>1, DqRemSorted
      <4> QED BY <2>3, <3>1, <4>1, <4>2
    <3>2. CASE S.state[t] # "ready"
      BY <2>2, <2>3, <3>2
    <3> QED BY <3>1, <3>2
  <2>5. /\ L \in SchedState /\ L.state = [S.state EXCEPT ![t] = next]
        /\ L.cpu = [S.cpu EXCEPT ![t] = IF pinned[t] THEN S.cpu[t] ELSE 0]
        /\ L.ready = S.ready /\ L.assigned = S.assigned /\ L.deliver = S.deliver
        /\ L.prio = S.prio /\ L.mask = S.mask /\ L.lock = S.lock
    <3>1. next \in {"inactive", "ready", "blocked", "stopped"}
      OBVIOUS
    <3>2. LeftAs(S, L, t, next)
      BY <2>1, <2>2, <3>1, LeavesFields
    <3> QED BY <3>2 DEF LeftAs
  <2>6. R = [L EXCEPT !.ready = new]
    <3>1. CASE S.state[t] = "ready"
      <4>1. R = [Leaves(S, t, next) EXCEPT !.ready = DqRem(@, t)]
        BY <1>1, <3>1 DEF RemoveReadyToRun
      <4> QED BY <2>1, <2>3, <2>5, <3>1, <4>1
    <3>2. CASE S.state[t] # "ready"
      <4>1. R = L
        BY <1>1, <1>3, <2>1, <3>2 DEF RemoveReadyToRun
      <4> QED BY <2>3, <2>5, <3>2, <4>1 DEF SchedState
    <3> QED BY <3>1, <3>2
  <2>7. /\ R \in SchedState /\ R.state = [S.state EXCEPT ![t] = next]
        /\ R.cpu = [S.cpu EXCEPT ![t] = IF pinned[t] THEN S.cpu[t] ELSE 0]
        /\ R.ready = new /\ R.assigned = S.assigned /\ R.deliver = S.deliver
        /\ R.prio = S.prio /\ R.mask = S.mask /\ R.lock = S.lock
    BY <2>4, <2>5, <2>6 DEF SchedState
  <2>8. Good(R, Null)
    <3>1. ASSUME NEW u \in Tasks
          PROVE  u \in ToSet(R.ready) <=> R.state[u] = "ready" /\ u # Null
      <4>1. u # Null
        BY Kinds
      <4> QED BY <2>2, <2>4, <2>7, <4>1 DEF Good
    <3>2. ASSUME NEW u \in Tasks, NEW d \in CPUs
          PROVE  R.assigned[d] = u <=> R.state[u] = "running" /\ R.cpu[u] = d
      BY <1>3, <2>2, <2>7 DEF Good
    <3>3. Null \notin Tasks
      BY Kinds
    <3> QED BY <2>4, <2>7, <3>1, <3>2, <3>3 DEF Good
  <2>9. Moves(S, R, {t}) /\ R.state[t] = next
    BY <2>2, <2>7 DEF Moves
  <2>10. ASSUME NEW d \in CPUs, Settled(S, d) PROVE Settled(R, d)
    <3> SUFFICES ASSUME NEW u \in ToSet(R.ready), R.cpu[u] = d, d \in R.mask[u]
                 PROVE  \/ R.deliver[d] # "none" \/ R.lock[R.assigned[d]]
                        \/ R.prio[u] <= R.prio[R.assigned[d]]
      BY DEF Settled
    <3>1. u \in ToSet(S.ready) /\ S.cpu[u] = d
      BY <2>2, <2>4, <2>7
    <3> QED BY <2>7, <2>10, <3>1 DEF Settled
  <2>11. ASSUME NEW x, Placed(S, x) PROVE Placed(R, x)
    <3> SUFFICES ASSUME NEW u \in Tasks \ {x},
                        u \in ToSet(R.ready) \/ R.state[u] = "running" \/ pinned[u]
                 PROVE  R.cpu[u] \in R.mask[u]
      BY DEF Placed
    <3>1. /\ R.cpu[u] = S.cpu[u] /\ R.mask[u] = S.mask[u]
          /\ u \in ToSet(S.ready) \/ S.state[u] = "running" \/ pinned[u]
      BY <2>2, <2>4, <2>7
    <3> QED BY <2>11, <3>1 DEF Placed
  <2> QED BY <1>1, <2>8, <2>9, <2>10, <2>11
<1> QED BY <1>2, <1>3

WithPrio(S, C, t, p) ==
    /\ C \in SchedState /\ C.prio = [S.prio EXCEPT ![t] = p]
    /\ C.ready = S.ready /\ C.assigned = S.assigned /\ C.deliver = S.deliver
    /\ C.state = S.state /\ C.cpu = S.cpu /\ C.mask = S.mask /\ C.lock = S.lock

LEMMA PrioFields ==
    ASSUME NEW S \in SchedState, NEW t \in Tasks, NEW p \in Nat
    PROVE  WithPrio(S, [S EXCEPT !.prio[t] = p], t, p)
<1>1. t \in Tcbs
  BY Kinds
<1> QED BY <1>1 DEF SchedState, WithPrio

(* The priority of a task that is not in the list changes.                 *)
LEMMA Reprioritized ==
    ASSUME NEW S, NEW t \in Tasks, Good(S, Null), NEW p \in Nat, NEW C,
           WithPrio(S, C, t, p)
    PROVE  /\ S.state[t] # "ready" => Good(C, Null)
           /\ \A d \in CPUs : /\ Settled(S, d) /\ S.state[t] # "ready"
                              /\ S.state[t] = "running" => d # S.cpu[t]
                              => Settled(C, d)
           /\ \A x : Placed(S, x) => Placed(C, x)
<1>1. S \in SchedState /\ t \in Tcbs
  BY Kinds DEF Good
<1>2. /\ S.ready \in Seq(Tasks) /\ S.prio \in [Tcbs -> Nat] /\ ToSet(S.ready) \subseteq Tasks
      /\ S.assigned \in [CPUs -> Tcbs]
  BY <1>1, Fields, ToSetIndex
<1>3. /\ C \in SchedState /\ C.prio = [S.prio EXCEPT ![t] = p]
      /\ C.ready = S.ready /\ C.assigned = S.assigned /\ C.deliver = S.deliver
      /\ C.state = S.state /\ C.cpu = S.cpu /\ C.mask = S.mask /\ C.lock = S.lock
  BY DEF WithPrio
<1>4. \A x \in Tcbs : x # t => C.prio[x] = S.prio[x]
  BY <1>2, <1>3
<1>5. ASSUME S.state[t] # "ready" PROVE t \notin ToSet(S.ready)
  BY <1>5 DEF Good
<1>6. ASSUME S.state[t] # "ready" PROVE Good(C, Null)
  <2>1. \A x \in ToSet(S.ready) : C.prio[x] = S.prio[x]
    BY <1>2, <1>4, <1>5, <1>6 DEF Tcbs
  <2>2. IsPrioritized(S.ready, S.prio)
    BY DEF Good
  <2>3. IsPrioritized(S.ready, C.prio)
    BY <1>2, <2>1, <2>2, SamePriorities
  <2> QED BY <1>3, <2>3 DEF Good
<1>7. ASSUME NEW d \in CPUs, Settled(S, d), S.state[t] # "ready",
             S.state[t] = "running" => d # S.cpu[t]
      PROVE  Settled(C, d)
  <2>1. S.assigned[d] \in Tcbs /\ S.assigned[d] # t
    BY <1>2, <1>7 DEF Good
  <2> SUFFICES ASSUME NEW u \in ToSet(C.ready), C.cpu[u] = d, d \in C.mask[u]
               PROVE  \/ C.deliver[d] # "none" \/ C.lock[C.assigned[d]]
                      \/ C.prio[u] <= C.prio[C.assigned[d]]
    BY DEF Settled
  <2>2. u \in Tcbs /\ u # t /\ u \in ToSet(S.ready)
    BY <1>2, <1>3, <1>5, <1>7 DEF Tcbs
  <2>3. C.prio[u] = S.prio[u] /\ C.prio[S.assigned[d]] = S.prio[S.assigned[d]]
    BY <1>4, <2>1, <2>2
  <2> QED BY <1>3, <1>7, <2>2, <2>3 DEF Settled
<1>8. \A x : Placed(S, x) => Placed(C, x)
  BY <1>3 DEF Placed
<1> QED BY <1>6, <1>7, <1>8

(* A ready task is taken out of the list, to be added again.               *)
LEMMA TakenOut ==
    ASSUME NEW S, NEW t \in Tasks, Good(S, Null), S.state[t] = "ready", NEW p \in Nat,
           NEW C, WithPrio(S, C, t, p),
           NEW D, D = [C EXCEPT !.ready = DqRem(C.ready, t)]
    PROVE  /\ Good(D, t)
           /\ D.prio = C.prio /\ D.state = C.state /\ D.cpu = C.cpu
           /\ D.mask = C.mask /\ D.lock = C.lock
           /\ \A d \in CPUs : Settled(S, d) => Settled(D, d)
           /\ \A x : Placed(S, x) => Placed(D, x)
<1>1. S \in SchedState /\ t \in Tcbs
  BY Kinds DEF Good
<1>2. /\ S.ready \in Seq(Tasks) /\ S.prio \in [Tcbs -> Nat] /\ ToSet(S.ready) \subseteq Tasks
      /\ S.assigned \in [CPUs -> Tcbs] /\ NoDuplicates(S.ready)
      /\ IsPrioritized(S.ready, S.prio)
  BY <1>1, Fields, ToSetIndex DEF Good
<1>3. t \in ToSet(S.ready) /\ \A d \in CPUs : S.assigned[d] # t
  BY Kinds DEF Good
<1>4. PICK new : new = DqRem(S.ready, t)
  OBVIOUS
<1>5. /\ new \in Seq(Tasks) /\ NoDuplicates(new) /\ IsPrioritized(new, S.prio)
      /\ ToSet(new) = ToSet(S.ready) \ {t}
  <2>1. /\ DqRem(S.ready, t) \in Seq(Tasks) /\ NoDuplicates(DqRem(S.ready, t))
        /\ ToSet(DqRem(S.ready, t)) = ToSet(S.ready) \ {t}
    BY <1>2, <1>3, DqRemFacts
  <2>2. IsPrioritized(DqRem(S.ready, t), S.prio)
    BY <1>2, <1>3, DqRemSorted
  <2> QED BY <1>4, <2>1, <2>2
<1>6. /\ C \in SchedState /\ C.prio = [S.prio EXCEPT ![t] = p]
      /\ C.ready = S.ready /\ C.assigned = S.assigned /\ C.deliver = S.deliver
      /\ C.state = S.state /\ C.cpu = S.cpu /\ C.mask = S.mask /\ C.lock = S.lock
  BY DEF WithPrio
<1>7. /\ D \in SchedState /\ D.prio = [S.prio EXCEPT ![t] = p] /\ D.ready = new
      /\ D.assigned = S.assigned /\ D.deliver = S.deliver
      /\ D.state = S.state /\ D.cpu = S.cpu /\ D.mask = S.mask /\ D.lock = S.lock
  <2>1. D = [C EXCEPT !.ready = new]
    BY <1>4, <1>6
  <2> QED BY <1>5, <1>6, <2>1 DEF SchedState
<1>8. \A x \in Tcbs : x # t => D.prio[x] = S.prio[x]
  BY <1>2, <1>7
<1>9. Good(D, t)
  <2>1. \A x \in ToSet(new) : D.prio[x] = S.prio[x]
    BY <1>2, <1>5, <1>8 DEF Tcbs
  <2>2. IsPrioritized(new, D.prio)
    BY <1>5, <2>1, SamePriorities
  <2>3. \A u \in Tasks : u \in ToSet(new) <=> S.state[u] = "ready" /\ u # t
    BY <1>5, Kinds DEF Good
  <2>4. S.state[t] # "running"
    OBVIOUS
  <2> QED BY <1>5, <1>7, <2>2, <2>3, <2>4 DEF Good
<1>10. ASSUME NEW d \in CPUs, Settled(S, d) PROVE Settled(D, d)
  <2> SUFFICES ASSUME NEW u \in ToSet(D.ready), D.cpu[u] = d, d \in D.mask[u]
               PROVE  \/ D.deliver[d] # "none" \/ D.lock[D.assigned[d]]
                      \/ D.prio[u] <= D.prio[D.assigned[d]]
    BY DEF Settled
  <2>1. u \in Tcbs /\ u # t /\ u \in ToSet(S.ready)
    BY <1>2, <1>5, <1>7 DEF Tcbs
  <2>2. D.prio[u] = S.prio[u] /\ D.prio[S.assigned[d]] = S.prio[S.assigned[d]]
    BY <1>2, <1>3, <1>8, <2>1
  <2> QED BY <1>7, <1>10, <2>1, <2>2 DEF Settled
<1>11. ASSUME NEW x, Placed(S, x) PROVE Placed(D, x)
  <2>1. ToSet(D.ready) \subseteq ToSet(S.ready)
    BY <1>5, <1>7
  <2> QED BY <1>7, <1>11, <2>1 DEF Placed
<1> QED BY <1>6, <1>7, <1>9, <1>10, <1>11

(* nxsched_set_priority(): a task that is running with preemption disabled *)
(* is moved only if its affinity excludes the CPU it runs on.              *)
LEMMA PrioritySet ==
    ASSUME NEW S, NEW t \in Tasks, Good(S, Null), NEW p \in Nat, NEW me \in CPUs
    PROVE  /\ Good(SetPriority(S, me, t, p), Null)
           /\ Moves([S EXCEPT !.prio[t] = p], SetPriority(S, me, t, p), {t})
           /\ /\ S.state[t] = "running" /\ S.lock[t]
              /\ SetPriority(S, me, t, p).state[t] # "running"
              => S.cpu[t] \notin S.mask[t]
           /\ S.state[t] \notin {"ready", "running"} =>
                 SetPriority(S, me, t, p).state[t] = S.state[t]
           /\ (\A d \in CPUs : Settled(S, d)) =>
                 \A d \in CPUs : Settled(SetPriority(S, me, t, p), d)
           /\ /\ Placed(S, t) /\ (pinned[t] => S.cpu[t] \in S.mask[t])
              /\ S.state[t] = "running" =>
                    S.cpu[t] \in S.mask[t] \/ (t = S.assigned[me] /\ S.ready # <<>>)
              => Placed(SetPriority(S, me, t, p), Null)
<1>1. PICK C : C = [S EXCEPT !.prio[t] = p]
  OBVIOUS
<1>2. PICK R : R = SetPriority(S, me, t, p)
  OBVIOUS
<1>3. WithPrio(S, C, t, p)
  BY <1>1, PrioFields DEF Good
<1>4. /\ S.state[t] # "ready" => Good(C, Null)
      /\ \A d \in CPUs : /\ Settled(S, d) /\ S.state[t] # "ready"
                         /\ S.state[t] = "running" => d # S.cpu[t]
                         => Settled(C, d)
      /\ \A x : Placed(S, x) => Placed(C, x)
  BY <1>3, Reprioritized
<1>5. /\ C \in SchedState /\ C.prio = [S.prio EXCEPT ![t] = p]
      /\ C.ready = S.ready /\ C.assigned = S.assigned /\ C.deliver = S.deliver
      /\ C.state = S.state /\ C.cpu = S.cpu /\ C.mask = S.mask /\ C.lock = S.lock
      /\ S.state[t] # "ready" => Good(C, Null)
      /\ \A d \in CPUs : /\ Settled(S, d) /\ S.state[t] # "ready"
                         /\ S.state[t] = "running" => d # S.cpu[t]
                         => Settled(C, d)
      /\ \A x : Placed(S, x) => Placed(C, x)
  <2>1. /\ C \in SchedState /\ C.prio = [S.prio EXCEPT ![t] = p]
        /\ C.ready = S.ready /\ C.assigned = S.assigned /\ C.deliver = S.deliver
        /\ C.state = S.state /\ C.cpu = S.cpu /\ C.mask = S.mask /\ C.lock = S.lock
    BY <1>3 DEF WithPrio
  <2> QED BY <1>4, <2>1
<1>6. S \in SchedState /\ S.cpu[t] \in CPUs /\ S.ready \in Seq(Tasks) /\ S.prio \in [Tcbs -> Nat]
      /\ IsPrioritized(S.ready, S.prio) /\ ToSet(S.ready) \subseteq Tasks
  BY Fields, ToSetIndex DEF Good
<1>7. ASSUME Placed(S, t), pinned[t] => S.cpu[t] \in S.mask[t], S.state[t] # "ready",
             S.state[t] = "running" => S.cpu[t] \in S.mask[t]
      PROVE  Placed(C, Null)
  <2>1. Placed(C, t)
    BY <1>5, <1>7
  <2>2. t \in ToSet(C.ready) \/ C.state[t] = "running" \/ pinned[t] => C.cpu[t] \in C.mask[t]
    BY <1>5, <1>7, Kinds DEF Good
  <2> QED BY <2>1, <2>2 DEF Placed
<1>8. CASE S.state[t] = "running"
  <2>1. t \notin ToSet(S.ready) /\ Good(C, Null) /\ C.state[t] = "running"
        /\ S.assigned[S.cpu[t]] = t
    BY <1>5, <1>6, <1>8 DEF Good
  <2>2. CASE /\ S.ready # <<>> /\ (p <= S.prio[Head(S.ready)] \/ S.cpu[t] \notin S.mask[t])
             /\ t = S.assigned[me] /\ S.cpu[t] \notin S.mask[t]
    <3>1. PICK G : G = RemoveRunning(C, t, "ready")
      OBVIOUS
    <3>2. R = AddReadyToRun(G, me, t)
      BY <1>1, <1>2, <1>8, <2>2, <3>1 DEF SetPriority
    <3>3. /\ Good(G, t) /\ Moves(C, G, {t})
          /\ \A d \in CPUs : d = C.cpu[t] \/ Settled(C, d) => Settled(G, d)
          /\ \A x : Placed(C, x) => Placed(G, x)
      <4>1. "ready" \in {"inactive", "ready", "blocked", "stopped"}
        OBVIOUS
      <4>2. /\ Good(RemoveRunning(C, t, "ready"), t) /\ Moves(C, RemoveRunning(C, t, "ready"), {t})
            /\ \A d \in CPUs : d = C.cpu[t] \/ Settled(C, d) =>
                  Settled(RemoveRunning(C, t, "ready"), d)
            /\ \A x : Placed(C, x) => Placed(RemoveRunning(C, t, "ready"), x)
        BY <2>1, <4>1, Removed
      <4> QED BY <3>1, <4>2
    <3>4. /\ Good(R, Null) /\ Moves(G, R, {t})
          /\ \A d \in CPUs : Settled(G, d) => Settled(R, d)
          /\ Placed(G, t) /\ (pinned[t] => G.cpu[t] \in G.mask[t]) => Placed(R, Null)
      <4>1. /\ Good(AddReadyToRun(G, me, t), Null) /\ Moves(G, AddReadyToRun(G, me, t), {t})
            /\ \A d \in CPUs : Settled(G, d) => Settled(AddReadyToRun(G, me, t), d)
            /\ Placed(G, t) /\ (pinned[t] => G.cpu[t] \in G.mask[t]) =>
                  Placed(AddReadyToRun(G, me, t), Null)
        BY <3>3, Added
      <4> QED BY <3>2, <4>1
    <3>5. Moves(C, R, {t})
      BY <3>3, <3>4, MovesTrans
    <3>6. G.mask = C.mask /\ (pinned[t] => G.cpu[t] = C.cpu[t])
      BY <3>3 DEF Moves
    <3>7. (\A d \in CPUs : Settled(S, d)) => \A d \in CPUs : Settled(R, d)
      BY <1>5, <1>8, <3>3, <3>4
    <3>8. Placed(S, t) /\ (pinned[t] => S.cpu[t] \in S.mask[t]) => Placed(R, Null)
      BY <1>5, <3>3, <3>4, <3>6
    <3> QED BY <1>1, <1>2, <1>8, <2>2, <3>4, <3>5, <3>7, <3>8
  <2>3. CASE /\ S.ready # <<>> /\ (p <= S.prio[Head(S.ready)] \/ S.cpu[t] \notin S.mask[t])
             /\ ~(t = S.assigned[me] /\ S.cpu[t] \notin S.mask[t])
    <3>1. PICK c : c = S.cpu[t]
      OBVIOUS
    <3>2. R = DeliverTask(C, me, c, "equal")
      BY <1>1, <1>2, <1>8, <2>3, <3>1 DEF SetPriority
    <3>3. /\ Good(R, Null) /\ (\A X : Moves(C, R, X)) /\ Settled(R, c)
          /\ \A d \in CPUs \ {c} : Settled(C, d) => Settled(R, d)
          /\ \A x : Placed(C, x) => Placed(R, x)
      <4>1. "equal" \in {"higher", "equal"} /\ c \in CPUs
        BY <1>6, <3>1
      <4>2. /\ Good(DeliverTask(C, me, c, "equal"), Null)
            /\ \A X : Moves(C, DeliverTask(C, me, c, "equal"), X)
            /\ Settled(DeliverTask(C, me, c, "equal"), c)
            /\ \A d \in CPUs \ {c} : Settled(C, d) => Settled(DeliverTask(C, me, c, "equal"), d)
            /\ \A x : Placed(C, x) => Placed(DeliverTask(C, me, c, "equal"), x)
        BY <2>1, <4>1, Delivered
      <4> QED BY <3>2, <4>2
    <3>4. S.lock[t] => R.state[t] = "running"
      <4>1. Moves(C, R, {})
        BY <3>3
      <4> QED BY <1>5, <2>1, <4>1 DEF Moves
    <3>5. (\A d \in CPUs : Settled(S, d)) => \A d \in CPUs : Settled(R, d)
      BY <1>5, <1>8, <3>1, <3>3
    <3> QED BY <1>1, <1>2, <1>7, <1>8, <2>3, <3>3, <3>4, <3>5
  <2>4. CASE ~(S.ready # <<>> /\ (p <= S.prio[Head(S.ready)] \/ S.cpu[t] \notin S.mask[t]))
    <3>1. R = C
      BY <1>1, <1>2, <1>8, <2>4 DEF SetPriority
    <3>2. Settled(C, S.cpu[t])
      <4> SUFFICES ASSUME NEW u \in ToSet(C.ready), C.cpu[u] = S.cpu[t], S.cpu[t] \in C.mask[u]
                   PROVE  C.prio[u] <= C.prio[C.assigned[S.cpu[t]]]
        BY DEF Settled
      <4>1. C.assigned[S.cpu[t]] = t /\ C.prio[t] = p /\ u \in ToSet(S.ready) /\ u \in Tasks
        BY <1>5, <1>6, <2>1, Kinds
      <4>2. C.prio[u] = S.prio[u]
        BY <1>5, <1>6, <2>1, <4>1, Kinds
      <4>3. S.ready # <<>>
        <5>1. PICK k \in 1 .. Len(S.ready) : u = S.ready[k]
          BY <1>6, <4>1, ToSetIndex
        <5> QED BY <5>1
      <4>4. S.prio[u] <= S.prio[Head(S.ready)]
        <5>1. S.ready \in Seq(Tcbs) /\ S.prio \in [Tcbs -> Int]
          BY <1>6 DEF Tcbs
        <5> QED BY <1>6, <4>1, <4>3, <5>1, HeadHighest
      <4>5. Head(S.ready) \in Tcbs
        BY <1>6, <4>3, Kinds
      <4>6. S.prio[u] \in Nat /\ S.prio[Head(S.ready)] \in Nat
        BY <1>6, <4>1, <4>5, Kinds
      <4> QED BY <2>4, <4>1, <4>2, <4>3, <4>4, <4>6
    <3>3. (\A d \in CPUs : Settled(S, d)) => \A d \in CPUs : Settled(C, d)
      BY <1>5, <1>8, <3>2
    <3>4. S.cpu[t] \notin S.mask[t] => S.ready = <<>>
      BY <2>4
    <3> QED BY <1>1, <1>2, <1>7, <1>8, <2>1, <3>1, <3>3, <3>4, MovesRefl
  <2> QED BY <2>2, <2>3, <2>4
<1>9. CASE S.state[t] = "ready"
  <2>1. PICK D : D = [C EXCEPT !.ready = DqRem(C.ready, t)]
    OBVIOUS
  <2>2. R = AddReadyToRun(D, me, t)
    BY <1>1, <1>2, <1>9, <2>1 DEF SetPriority
  <2>3. /\ Good(D, t)
        /\ D.prio = C.prio /\ D.state = C.state /\ D.cpu = C.cpu
        /\ D.mask = C.mask /\ D.lock = C.lock
        /\ \A d \in CPUs : Settled(S, d) => Settled(D, d)
        /\ \A x : Placed(S, x) => Placed(D, x)
    BY <1>3, <1>9, <2>1, TakenOut
  <2>4. /\ Good(R, Null) /\ Moves(D, R, {t})
        /\ \A d \in CPUs : Settled(D, d) => Settled(R, d)
        /\ Placed(D, t) /\ (pinned[t] => D.cpu[t] \in D.mask[t]) => Placed(R, Null)
    <3>1. /\ Good(AddReadyToRun(D, me, t), Null) /\ Moves(D, AddReadyToRun(D, me, t), {t})
          /\ \A d \in CPUs : Settled(D, d) => Settled(AddReadyToRun(D, me, t), d)
          /\ Placed(D, t) /\ (pinned[t] => D.cpu[t] \in D.mask[t]) =>
                Placed(AddReadyToRun(D, me, t), Null)
      BY <2>3, Added
    <3> QED BY <2>2, <3>1
  <2>5. Moves(C, R, {t})
    BY <1>5, <2>3, <2>4 DEF Moves
  <2> QED BY <1>1, <1>2, <1>5, <1>9, <2>3, <2>4, <2>5
<1>10. CASE S.state[t] \notin {"ready", "running"}
  <2>1. R = C
    BY <1>1, <1>2, <1>10 DEF SetPriority
  <2> QED BY <1>1, <1>2, <1>5, <1>7, <1>10, <2>1, MovesRefl
<1> QED BY <1>8, <1>9, <1>10

(* sched_unlock() by the task that runs on the CPU.                        *)
LEMMA Unlocked ==
    ASSUME NEW S, NEW t \in Tasks, Good(S, Null), NEW me \in CPUs, S.assigned[me] = t
    PROVE  /\ Good(UnlockTask(S, me, t), Null)
           /\ \A X : Moves([S EXCEPT !.lock[t] = FALSE], UnlockTask(S, me, t), X)
           /\ (\A d \in CPUs : Settled(S, d)) => \A d \in CPUs : Settled(UnlockTask(S, me, t), d)
           /\ \A x : Placed(S, x) => Placed(UnlockTask(S, me, t), x)
<1>1. PICK C : C = [S EXCEPT !.lock[t] = FALSE]
  OBVIOUS
<1>2. PICK R : R = UnlockTask(S, me, t)
  OBVIOUS
<1>3. /\ S \in SchedState /\ S.ready \in Seq(Tasks) /\ S.prio \in [Tcbs -> Nat]
      /\ S.lock \in [Tcbs -> BOOLEAN] /\ S.assigned \in [CPUs -> Tcbs]
      /\ IsPrioritized(S.ready, S.prio) /\ ToSet(S.ready) \subseteq Tasks
      /\ \A d \in CPUs : S.assigned[d] = t => d = me
  <2>1. S \in SchedState /\ IsPrioritized(S.ready, S.prio)
    BY DEF Good
  <2>2. \A d \in CPUs : S.assigned[d] = t => d = me
    BY DEF Good
  <2> QED BY <2>1, <2>2, Fields, ToSetIndex
<1>4. /\ C \in SchedState /\ C.lock = [S.lock EXCEPT ![t] = FALSE]
      /\ C.ready = S.ready /\ C.assigned = S.assigned /\ C.deliver = S.deliver
      /\ C.state = S.state /\ C.cpu = S.cpu /\ C.mask = S.mask /\ C.prio = S.prio
  BY <1>1, <1>3, Kinds DEF SchedState
<1>5. Good(C, Null)
  BY <1>4 DEF Good
<1>6. \A x : Placed(S, x) => Placed(C, x)
  BY <1>4 DEF Placed
<1>7. ASSUME NEW d \in CPUs \ {me}, Settled(S, d) PROVE Settled(C, d)
  <2>1. C.lock[C.assigned[d]] = S.lock[S.assigned[d]]
    <3>1. C.assigned[d] = S.assigned[d] /\ S.assigned[d] \in Tcbs /\ S.assigned[d] # t
      BY <1>3, <1>4
    <3>2. \A y \in Tcbs : y # t => C.lock[y] = S.lock[y]
      BY <1>3, <1>4
    <3> QED BY <3>1, <3>2
  <2> QED BY <1>4, <1>7, <2>1 DEF Settled
<1>8. CASE S.ready # <<>> /\ S.prio[Head(S.ready)] > S.prio[t]
  <2>1. R = DeliverTask(C, me, me, "higher")
    BY <1>1, <1>2, <1>8 DEF UnlockTask
  <2>2. /\ Good(R, Null) /\ (\A X : Moves(C, R, X)) /\ Settled(R, me)
        /\ \A d \in CPUs \ {me} : Settled(C, d) => Settled(R, d)
        /\ \A x : Placed(C, x) => Placed(R, x)
    <3>1. "higher" \in {"higher", "equal"}
      OBVIOUS
    <3>2. /\ Good(DeliverTask(C, me, me, "higher"), Null)
          /\ \A X : Moves(C, DeliverTask(C, me, me, "higher"), X)
          /\ Settled(DeliverTask(C, me, me, "higher"), me)
          /\ \A d \in CPUs \ {me} : Settled(C, d) => Settled(DeliverTask(C, me, me, "higher"), d)
          /\ \A x : Placed(C, x) => Placed(DeliverTask(C, me, me, "higher"), x)
      BY <1>5, <3>1, Delivered
    <3> QED BY <2>1, <3>2
  <2> QED BY <1>1, <1>2, <1>6, <1>7, <2>2
<1>9. CASE ~(S.ready # <<>> /\ S.prio[Head(S.ready)] > S.prio[t])
  <2>1. R = C
    BY <1>1, <1>2, <1>9 DEF UnlockTask
  <2>2. Settled(C, me)
    <3> SUFFICES ASSUME NEW u \in ToSet(C.ready)
                 PROVE  C.prio[u] <= C.prio[C.assigned[me]]
      BY DEF Settled
    <3>1. u \in ToSet(S.ready) /\ u \in Tcbs
      BY <1>3, <1>4, Kinds
    <3>2. S.ready # <<>>
      <4>1. PICK k \in 1 .. Len(S.ready) : u = S.ready[k]
        BY <1>3, <3>1, ToSetIndex
      <4> QED BY <4>1
    <3>3. S.prio[u] <= S.prio[Head(S.ready)]
      <4>1. S.ready \in Seq(Tcbs) /\ S.prio \in [Tcbs -> Int]
        BY <1>3 DEF Tcbs
      <4> QED BY <1>3, <3>1, <3>2, <4>1, HeadHighest
    <3>4. Head(S.ready) \in Tcbs /\ t \in Tcbs
      BY <1>3, <3>2, Kinds
    <3>5. S.prio[u] \in Nat /\ S.prio[Head(S.ready)] \in Nat /\ S.prio[t] \in Nat
      BY <1>3, <3>1, <3>4
    <3> QED BY <1>4, <1>9, <3>2, <3>3, <3>5
  <2> QED BY <1>1, <1>2, <1>5, <1>6, <1>7, <2>1, <2>2, MovesRefl
<1> QED BY <1>8, <1>9

(* The lock count of a task or an idle task changes.                       *)
WithLock(S, C, x, v) ==
    /\ C \in SchedState /\ C.lock = [S.lock EXCEPT ![x] = v]
    /\ C.ready = S.ready /\ C.assigned = S.assigned /\ C.deliver = S.deliver
    /\ C.state = S.state /\ C.cpu = S.cpu /\ C.mask = S.mask /\ C.prio = S.prio

LEMMA LockFields ==
    ASSUME NEW S \in SchedState, NEW x \in Tcbs, NEW v \in BOOLEAN
    PROVE  WithLock(S, [S EXCEPT !.lock[x] = v], x, v)
BY DEF SchedState, WithLock

LEMMA Relocked ==
    ASSUME NEW S, NEW out, Good(S, out), NEW x \in Tcbs, NEW v \in BOOLEAN, NEW C,
           WithLock(S, C, x, v)
    PROVE  /\ Good(C, out)
           /\ \A d \in CPUs : Settled(S, d) /\ (v \/ S.assigned[d] # x) => Settled(C, d)
           /\ \A y : Placed(S, y) => Placed(C, y)
<1>1. S \in SchedState /\ S.lock \in [Tcbs -> BOOLEAN] /\ S.assigned \in [CPUs -> Tcbs]
  BY Fields DEF Good
<1>2. /\ C \in SchedState /\ C.lock = [S.lock EXCEPT ![x] = v]
      /\ C.ready = S.ready /\ C.assigned = S.assigned /\ C.deliver = S.deliver
      /\ C.state = S.state /\ C.cpu = S.cpu /\ C.mask = S.mask /\ C.prio = S.prio
  BY DEF WithLock
<1>3. Good(C, out)
  BY <1>2 DEF Good
<1>4. ASSUME NEW d \in CPUs, Settled(S, d), v \/ S.assigned[d] # x PROVE Settled(C, d)
  <2>1. S.lock[S.assigned[d]] => C.lock[C.assigned[d]]
    BY <1>1, <1>2, <1>4
  <2> QED BY <1>2, <1>4, <2>1 DEF Settled
<1>5. \A y : Placed(S, y) => Placed(C, y)
  BY <1>2 DEF Placed
<1> QED BY <1>3, <1>4, <1>5

(* nxtask_exit() first takes the task out, which also forgets its lock     *)
(* count and its affinity.                                                 *)
Cleared(S, G, t) ==
    /\ G \in SchedState /\ G.lock = [S.lock EXCEPT ![t] = FALSE]
    /\ G.mask = [S.mask EXCEPT ![t] = CPUs]
    /\ G.ready = S.ready /\ G.assigned = S.assigned /\ G.deliver = S.deliver
    /\ G.state = S.state /\ G.cpu = S.cpu /\ G.prio = S.prio

LEMMA ClearedFields ==
    ASSUME NEW S \in SchedState, NEW t \in Tasks
    PROVE  Cleared(S, [S EXCEPT !.lock[t] = FALSE, !.mask[t] = CPUs], t)
<1>1. t \in Tcbs /\ CPUs \in Masks
  BY Kinds, SmpConstants
<1>2. PICK L : L = [S EXCEPT !.lock[t] = FALSE]
  OBVIOUS
<1>3. /\ L \in SchedState /\ L.lock = [S.lock EXCEPT ![t] = FALSE]
      /\ L.ready = S.ready /\ L.assigned = S.assigned /\ L.deliver = S.deliver
      /\ L.state = S.state /\ L.cpu = S.cpu /\ L.mask = S.mask /\ L.prio = S.prio
  BY <1>1, <1>2 DEF SchedState
<1>4. PICK G : G = [L EXCEPT !.mask[t] = CPUs]
  OBVIOUS
<1>5. G = [S EXCEPT !.lock[t] = FALSE, !.mask[t] = CPUs]
  BY <1>2, <1>4
<1>6. Cleared(S, G, t)
  BY <1>1, <1>3, <1>4 DEF SchedState, Cleared
<1> QED BY <1>5, <1>6

LEMMA Gone ==
    ASSUME NEW S, NEW t \in Tasks, Good(S, Null), S.state[t] = "running", NEW G,
           Cleared(RemoveRunning(S, t, "inactive"), G, t)
    PROVE  /\ Good(G, Null) /\ G.state[t] = "inactive" /\ ~G.lock[t]
           /\ \A u \in Tasks \ {t} :
                 /\ S.state[u] \notin {"ready", "running"} => G.state[u] = S.state[u]
                 /\ S.state[u] = "running" /\ S.lock[u] => G.state[u] = "running" /\ G.lock[u]
           /\ \A d \in CPUs : Settled(S, d) => Settled(G, d)
           /\ Placed(S, Null) => Placed(G, Null)
           /\ Anchors(S, G)
<1>1. PICK R : R = RemoveRunning(S, t, "inactive")
  OBVIOUS
<1>2. /\ Good(R, Null) /\ R.state[t] = "inactive" /\ Moves(S, R, {t})
      /\ \A d \in CPUs : Settled(S, d) => Settled(R, d)
      /\ Placed(S, Null) => Placed(R, Null)
  <2>1. "inactive" \in {"inactive", "ready", "blocked", "stopped"} /\ "inactive" # "ready"
    OBVIOUS
  <2>2. /\ Good(RemoveRunning(S, t, "inactive"), Null)
        /\ RemoveRunning(S, t, "inactive").state[t] = "inactive"
        /\ Moves(S, RemoveRunning(S, t, "inactive"), {t})
        /\ \A d \in CPUs : d = S.cpu[t] \/ Settled(S, d) =>
              Settled(RemoveRunning(S, t, "inactive"), d)
        /\ \A x : Placed(S, x) => Placed(RemoveRunning(S, t, "inactive"), x)
    BY <2>1, Removed
  <2> QED BY <1>1, <2>2
<1>3. /\ R.lock \in [Tcbs -> BOOLEAN] /\ R.mask \in [Tasks -> Masks]
      /\ R.assigned \in [CPUs -> Tcbs] /\ R.cpu \in [Tasks -> CPUs] /\ t \in Tcbs
      /\ t \notin ToSet(R.ready) /\ \A d \in CPUs : R.assigned[d] # t
  <2>1. R \in SchedState
    BY <1>2 DEF Good
  <2>2. t \notin ToSet(R.ready) /\ \A d \in CPUs : R.assigned[d] # t
    BY <1>2 DEF Good
  <2> QED BY <2>1, <2>2, Fields, Kinds
<1>4. /\ G \in SchedState /\ G.lock = [R.lock EXCEPT ![t] = FALSE]
      /\ G.mask = [R.mask EXCEPT ![t] = CPUs]
      /\ G.ready = R.ready /\ G.assigned = R.assigned /\ G.deliver = R.deliver
      /\ G.state = R.state /\ G.cpu = R.cpu /\ G.prio = R.prio
  BY <1>1 DEF Cleared
<1>5. Good(G, Null)
  BY <1>2, <1>4 DEF Good
<1>6. ASSUME NEW u \in Tasks \ {t}
      PROVE  /\ S.state[u] \notin {"ready", "running"} => G.state[u] = S.state[u]
             /\ S.state[u] = "running" /\ S.lock[u] => G.state[u] = "running" /\ G.lock[u]
  BY <1>2, <1>3, <1>4, Kinds DEF Moves
<1>7. ASSUME NEW d \in CPUs, Settled(R, d) PROVE Settled(G, d)
  <2>1. G.lock[G.assigned[d]] = R.lock[R.assigned[d]]
    <3>1. G.assigned[d] = R.assigned[d] /\ R.assigned[d] \in Tcbs /\ R.assigned[d] # t
      BY <1>3, <1>4
    <3>2. \A y \in Tcbs : y # t => G.lock[y] = R.lock[y]
      BY <1>3, <1>4
    <3> QED BY <3>1, <3>2
  <2>2. ASSUME NEW u \in ToSet(R.ready), d \in G.mask[u] PROVE d \in R.mask[u]
    <3>1. R.ready \in Seq(Tasks)
      BY <1>2, Fields DEF Good
    <3>2. u \in Tasks /\ u # t
      BY <1>3, <3>1, ToSetIndex
    <3> QED BY <1>3, <1>4, <2>2, <3>2
  <2> QED BY <1>4, <1>7, <2>1, <2>2 DEF Settled
<1>8. ASSUME Placed(R, Null) PROVE Placed(G, Null)
  <2> SUFFICES ASSUME NEW u \in Tasks,
                      u \in ToSet(G.ready) \/ G.state[u] = "running" \/ pinned[u]
               PROVE  G.cpu[u] \in G.mask[u]
    BY DEF Placed
  <2>1. CASE u = t
    BY <1>3, <1>4, <2>1
  <2>2. CASE u # t
    <3>1. R.cpu[u] \in R.mask[u]
      BY <1>4, <1>8, Kinds DEF Placed
    <3> QED BY <1>3, <1>4, <2>2, <3>1
  <2> QED BY <2>1, <2>2
<1>9. Anchors(S, G)
  <2>1. Anchors(S, R)
    BY <1>2, AnchorsMoves
  <2> QED BY <1>4, <2>1 DEF Anchors
<1> QED BY <1>2, <1>3, <1>4, <1>5, <1>6, <1>7, <1>8, <1>9

(* nxtask_exit() then wakes up tasks W, with preemption disabled for the   *)
(* task r that the CPU runs next, and lets r be preempted again.           *)
WokenBy(H, me, W) ==
    IF W = {} THEN H ELSE AddReadyToRun(H, me, CHOOSE w \in W : TRUE)

WokenAs(G, K, r) ==
    /\ Good(K, Null) /\ K.assigned = G.assigned /\ K.lock = [G.lock EXCEPT ![r] = TRUE]
    /\ \A u \in Tasks : G.state[u] = "running" /\ G.lock[u] => K.state[u] = "running"
    /\ \A d \in CPUs : Settled(G, d) => Settled(K, d)
    /\ Placed(G, Null) => Placed(K, Null)
    /\ Anchors(G, K)

LEMMA Woken ==
    ASSUME NEW G, Good(G, Null), NEW me \in CPUs, NEW r, r = G.assigned[me],
           NEW W, W = {} \/ \E w \in Tasks : W = {w} /\ G.state[w] = "blocked",
           NEW H, WithLock(G, H, r, TRUE),
           NEW K, K = WokenBy(H, me, W)
    PROVE  WokenAs(G, K, r)
<1>1. /\ G \in SchedState /\ G.lock \in [Tcbs -> BOOLEAN] /\ G.assigned \in [CPUs -> Tcbs]
      /\ r \in Tcbs /\ G.lock[r] \in BOOLEAN
  <2>1. G \in SchedState
    BY DEF Good
  <2> QED BY <2>1, Fields
<1>2. /\ H \in SchedState /\ H.lock = [G.lock EXCEPT ![r] = TRUE]
      /\ H.ready = G.ready /\ H.assigned = G.assigned /\ H.deliver = G.deliver
      /\ H.state = G.state /\ H.cpu = G.cpu /\ H.mask = G.mask /\ H.prio = G.prio
  BY DEF WithLock
<1>3. /\ Good(H, Null)
      /\ \A d \in CPUs : Settled(G, d) => Settled(H, d)
      /\ \A y : Placed(G, y) => Placed(H, y)
  <2>1. TRUE \in BOOLEAN
    OBVIOUS
  <2>2. \A d \in CPUs : Settled(G, d) /\ (TRUE \/ G.assigned[d] # r) => Settled(H, d)
    BY <1>1, <2>1, Relocked, ZenonT(60)
  <2>3. Good(H, Null) /\ \A y : Placed(G, y) => Placed(H, y)
    BY <1>1, <2>1, Relocked, ZenonT(60)
  <2> QED BY <2>2, <2>3
<1>4. H.lock[H.assigned[me]]
  BY <1>1, <1>2
<1>5. /\ Good(K, Null) /\ K.assigned = G.assigned /\ K.lock = H.lock
      /\ \A u \in Tasks : G.state[u] = "running" /\ G.lock[u] => K.state[u] = "running"
      /\ \A d \in CPUs : Settled(H, d) => Settled(K, d)
      /\ Placed(H, Null) => Placed(K, Null)
      /\ Anchors(G, K)
  <2>1. CASE W = {}
    <3>1. K = H
      BY <2>1 DEF WokenBy
    <3>2. Anchors(G, K)
      BY <1>2, <3>1, AnchorsSame
    <3> QED BY <1>2, <1>3, <3>1, <3>2
  <2>2. CASE W # {}
    <3>1. PICK w \in Tasks : W = {w} /\ G.state[w] = "blocked"
      BY <2>2
    <3>2. K = AddReadyToRun(H, me, w)
      <4>1. (CHOOSE v \in W : TRUE) = w
        BY <3>1
      <4> QED BY <2>2, <4>1 DEF WokenBy
    <3>3. Good(H, w)
      BY <1>2, <1>3, <3>1, GoodAgain
    <3>4. /\ Good(K, Null) /\ Moves(H, K, {w})
          /\ \A d \in CPUs : Settled(H, d) => Settled(K, d)
          /\ Placed(H, w) /\ (pinned[w] => H.cpu[w] \in H.mask[w]) => Placed(K, Null)
          /\ K.assigned = H.assigned
      <4>1. /\ Good(AddReadyToRun(H, me, w), Null) /\ Moves(H, AddReadyToRun(H, me, w), {w})
            /\ \A d \in CPUs : Settled(H, d) => Settled(AddReadyToRun(H, me, w), d)
            /\ Placed(H, w) /\ (pinned[w] => H.cpu[w] \in H.mask[w]) =>
                  Placed(AddReadyToRun(H, me, w), Null)
            /\ H.lock[H.assigned[me]] => AddReadyToRun(H, me, w).assigned = H.assigned
        BY <3>3, Added
      <4> QED BY <1>4, <3>2, <4>1
    <3>5. Placed(H, Null) => Placed(H, w) /\ (pinned[w] => H.cpu[w] \in H.mask[w])
      BY Kinds DEF Placed
    <3>6. ASSUME NEW u \in Tasks, G.state[u] = "running", G.lock[u] PROVE K.state[u] = "running"
      <4>1. u # w /\ H.state[u] = "running" /\ H.lock[u]
        BY <1>1, <1>2, <3>1, <3>6, Kinds
      <4> QED BY <3>4, <4>1 DEF Moves
    <3>7. K.lock = H.lock
      BY <3>4 DEF Moves
    <3>8. Anchors(G, K)
      <4>1. Anchors(H, K)
        BY <1>2, <3>1, <3>4, AnchorsMoves
      <4> QED BY <1>2, <4>1 DEF Anchors
    <3> QED BY <1>2, <3>4, <3>5, <3>6, <3>7, <3>8
  <2> QED BY <2>1, <2>2
<1> QED BY <1>2, <1>3, <1>5 DEF WokenAs

LEMMA Exited ==
    ASSUME NEW G, Good(G, Null), NEW me \in CPUs, NEW r, r = G.assigned[me],
           NEW K, WokenAs(G, K, r), NEW L, WithLock(K, L, r, G.lock[r])
    PROVE  /\ Good(DeliverTask(L, me, me, "higher"), Null)
           /\ DeliverTask(L, me, me, "higher").lock = G.lock
           /\ \A u \in Tasks : G.state[u] = "running" /\ G.lock[u] =>
                 DeliverTask(L, me, me, "higher").state[u] = "running"
           /\ (\A d \in CPUs : Settled(G, d)) =>
                 \A d \in CPUs : Settled(DeliverTask(L, me, me, "higher"), d)
           /\ Placed(G, Null) => Placed(DeliverTask(L, me, me, "higher"), Null)
           /\ Anchors(G, DeliverTask(L, me, me, "higher"))
<1>1. /\ G \in SchedState /\ G.lock \in [Tcbs -> BOOLEAN] /\ G.assigned \in [CPUs -> Tcbs]
      /\ r \in Tcbs /\ G.lock[r] \in BOOLEAN
  <2>1. G \in SchedState
    BY DEF Good
  <2> QED BY <2>1, Fields
<1>2. /\ Good(K, Null) /\ K.assigned = G.assigned /\ K.lock = [G.lock EXCEPT ![r] = TRUE]
      /\ \A u \in Tasks : G.state[u] = "running" /\ G.lock[u] => K.state[u] = "running"
      /\ \A d \in CPUs : Settled(G, d) => Settled(K, d)
      /\ Placed(G, Null) => Placed(K, Null)
      /\ Anchors(G, K)
  BY DEF WokenAs
<1>3. /\ L \in SchedState /\ L.lock = [K.lock EXCEPT ![r] = G.lock[r]]
      /\ L.ready = K.ready /\ L.assigned = K.assigned /\ L.deliver = K.deliver
      /\ L.state = K.state /\ L.cpu = K.cpu /\ L.mask = K.mask /\ L.prio = K.prio
  BY DEF WithLock
<1>4. /\ Good(L, Null)
      /\ \A d \in CPUs : Settled(K, d) /\ (G.lock[r] \/ K.assigned[d] # r) => Settled(L, d)
      /\ \A y : Placed(K, y) => Placed(L, y)
  BY <1>1, <1>2, Relocked
<1>5. L.lock = G.lock
  <2>1. \A x \in Tcbs : L.lock[x] = G.lock[x]
    BY <1>1, <1>2, <1>3
  <2>2. L.lock \in [Tcbs -> BOOLEAN]
    BY <1>3, Fields
  <2> QED BY <1>1, <2>1, <2>2
<1>6. \A d \in CPUs \ {me} : G.assigned[d] # r
  BY <1>1 DEF Good, Tcbs
<1>7. PICK T : T = DeliverTask(L, me, me, "higher")
  OBVIOUS
<1>8. /\ Good(T, Null) /\ (\A X : Moves(L, T, X)) /\ Settled(T, me)
      /\ \A d \in CPUs \ {me} : Settled(L, d) => Settled(T, d)
      /\ \A x : Placed(L, x) => Placed(T, x)
  <2>1. "higher" \in {"higher", "equal"}
    OBVIOUS
  <2>2. /\ Good(DeliverTask(L, me, me, "higher"), Null)
        /\ \A X : Moves(L, DeliverTask(L, me, me, "higher"), X)
        /\ Settled(DeliverTask(L, me, me, "higher"), me)
        /\ \A d \in CPUs \ {me} : Settled(L, d) => Settled(DeliverTask(L, me, me, "higher"), d)
        /\ \A x : Placed(L, x) => Placed(DeliverTask(L, me, me, "higher"), x)
    BY <1>4, <2>1, Delivered
  <2> QED BY <1>7, <2>2
<1>9. /\ T.lock = G.lock
      /\ \A u \in Tasks : G.state[u] = "running" /\ G.lock[u] => T.state[u] = "running"
  <2>1. Moves(L, T, {})
    BY <1>8
  <2>2. T.lock = L.lock
    BY <2>1 DEF Moves
  <2>3. ASSUME NEW u \in Tasks, G.state[u] = "running", G.lock[u] PROVE T.state[u] = "running"
    <3>1. L.state[u] = "running" /\ L.lock[u]
      BY <1>2, <1>3, <1>5, <2>3, ZenonT(40)
    <3> QED BY <2>1, <3>1 DEF Moves
  <2> QED BY <1>5, <2>2, <2>3
<1>10. (\A d \in CPUs : Settled(G, d)) => \A d \in CPUs : Settled(T, d)
  BY <1>2, <1>4, <1>6, <1>8
<1>11. Placed(G, Null) => Placed(T, Null)
  BY <1>2, <1>4, <1>8
<1>12. Anchors(G, T)
  <2>1. Moves(L, T, {})
    BY <1>8
  <2>2. Anchors(L, T)
    BY <2>1, AnchorsMoves
  <2>3. Anchors(K, L)
    BY <1>3, AnchorsSame
  <2> QED BY <1>2, <2>2, <2>3, AnchorsTrans
<1> QED BY <1>7, <1>8, <1>9, <1>10, <1>11, <1>12

-----------------------------------------------------------------------------
(* The steps, as far as the scheduler's state is concerned.                *)

(* The inductive invariant.                                                *)
IInv ==
    /\ Good(Now, Null)
    /\ pinned \in [Tasks -> BOOLEAN]
    /\ queue \in [CPUs -> Seq(StopCalls \cup RobinCalls)]
    /\ torn \in [CPUs -> BOOLEAN]
    /\ robin \in Tasks \cup {Null}
    /\ inCall \in [CPUs -> StopCalls \cup RobinCalls \cup {Null}]
    /\ stopping \in [Tasks -> {"no", "called", "done"}]

(* What holds as well as long as no task is stuck on a CPU that its        *)
(* affinity excludes.                                                      *)
Calm == Placed(Now, Null) /\ \A c \in CPUs : Settled(Now, c)

(* No task is switched out in the step to T while preemption is disabled.  *)
Keeps(T) ==
    \A t \in Tasks :
        state[t] = "running" /\ lock[t] /\ T.lock[t] /\ T.state[t] = "ready" =>
            cpu[t] \notin T.mask[t]

CalmAfter(T) ==
    Calm /\ ~StuckMoves => Placed(T, Null) /\ \A c \in CPUs : Settled(T, c)

(* Only tasks that are ready or running are pinned by the step.            *)
Pins(T) == \A t \in Tasks : pinned'[t] /\ ~pinned[t] => T.state[t] \in {"ready", "running"}

(* A task that is pinned to a CPU stays there, and one that has exited is  *)
(* not activated again as long as a call is under way to stop it.          *)
Stays(T) ==
    \A t \in Tasks : /\ pinned[t] => T.cpu[t] = cpu[t]
                     /\ state[t] = "inactive" => T.state[t] = "inactive" \/ Stops(t) = {}

SchedStep ==
    \E T : Becomes(T) /\ Good(T, Null) /\ Keeps(T) /\ CalmAfter(T) /\ Pins(T) /\ Stays(T)

LEMMA NowFields ==
    /\ Now.ready = ready /\ Now.assigned = assigned /\ Now.deliver = deliver
    /\ Now.state = state /\ Now.cpu = cpu /\ Now.prio = prio /\ Now.mask = mask
    /\ Now.lock = lock
BY DEF Now

LEMMA NowState ==
    ASSUME IInv
    PROVE  /\ Now \in SchedState /\ Good(Now, Null)
           /\ ready \in Seq(Tasks) /\ assigned \in [CPUs -> Tcbs]
           /\ deliver \in [CPUs -> {"none", "higher", "equal"}]
           /\ state \in [Tasks -> {"inactive", "ready", "running", "blocked", "stopped"}]
           /\ cpu \in [Tasks -> CPUs] /\ prio \in [Tcbs -> Nat]
           /\ mask \in [Tasks -> Masks] /\ lock \in [Tcbs -> BOOLEAN]
           /\ \A t \in Tasks, c \in CPUs :
                 assigned[c] = t <=> state[t] = "running" /\ cpu[t] = c
<1>1. Good(Now, Null) /\ Now \in SchedState
  BY DEF IInv, Good
<1>2. \A t \in Tasks, c \in CPUs :
         Now.assigned[c] = t <=> Now.state[t] = "running" /\ Now.cpu[t] = c
  BY <1>1 DEF Good
<1> QED BY <1>1, <1>2, Fields, NowFields

LEMMA KeepsMoves ==
    ASSUME NEW T, NEW X, Moves(Now, T, X),
           \A u \in X : T.state[u] # "ready" \/ state[u] # "running"
    PROVE  Keeps(T)
BY NowFields DEF Moves, Keeps

LEMMA StaysAnchors ==
    ASSUME NEW T, Anchors(Now, T)
    PROVE  Stays(T)
BY NowFields DEF Anchors, Stays

LEMMA StaysMoves ==
    ASSUME NEW T, NEW X, Moves(Now, T, X), \A u \in X : state[u] # "inactive"
    PROVE  Stays(T)
BY NowFields, AnchorsMoves, StaysAnchors

LEMMA PinsSame ==
    ASSUME NEW T, \A t \in Tasks : pinned'[t] => pinned[t]
    PROVE  Pins(T)
BY DEF Pins

LEMMA StaysPut ==
    ASSUME IInv, UNCHANGED schedVars, \A t \in Tasks : pinned'[t] => pinned[t]
    PROVE  SchedStep
<1>1. Becomes(Now)
  BY NowFields DEF Becomes, schedVars
<1>2. Good(Now, Null) /\ Moves(Now, Now, {})
  BY NowState, MovesRefl
<1>3. Keeps(Now)
  BY <1>2, KeepsMoves
<1>4. CalmAfter(Now)
  BY DEF CalmAfter, Calm
<1>5. Pins(Now) /\ Stays(Now)
  BY <1>2, PinsSame, StaysMoves
<1> QED BY <1>1, <1>2, <1>3, <1>4, <1>5 DEF SchedStep

(* The running task gives up its CPU.                                      *)
LEMMA RemoveStep ==
    ASSUME IInv, NEW t \in Tasks, NEW me \in CPUs, assigned[me] = t,
           Becomes(RemoveRunning(Now, t, "blocked")), pinned' = pinned
    PROVE  SchedStep
<1>1. PICK T : T = RemoveRunning(Now, t, "blocked")
  OBVIOUS
<1>2. Good(Now, Null) /\ Now.state[t] = "running"
  BY NowState, NowFields
<1>3. /\ Good(T, Null) /\ T.state[t] = "blocked" /\ Moves(Now, T, {t})
      /\ \A d \in CPUs : Settled(Now, d) => Settled(T, d)
      /\ \A x : Placed(Now, x) => Placed(T, x)
  <2>1. "blocked" \in {"inactive", "ready", "blocked", "stopped"} /\ "blocked" # "ready"
    OBVIOUS
  <2>2. /\ Good(RemoveRunning(Now, t, "blocked"), Null)
        /\ RemoveRunning(Now, t, "blocked").state[t] = "blocked"
        /\ Moves(Now, RemoveRunning(Now, t, "blocked"), {t})
        /\ \A d \in CPUs : d = Now.cpu[t] \/ Settled(Now, d) =>
              Settled(RemoveRunning(Now, t, "blocked"), d)
        /\ \A x : Placed(Now, x) => Placed(RemoveRunning(Now, t, "blocked"), x)
    BY <1>2, <2>1, Removed
  <2> QED BY <1>1, <2>2
<1>4. Keeps(T)
  BY <1>3, KeepsMoves
<1>5. CalmAfter(T)
  BY <1>3 DEF CalmAfter, Calm
<1>6. Pins(T) /\ Becomes(T)
  BY <1>1, PinsSame
<1>7. Stays(T)
  <2>1. state[t] # "inactive"
    BY <1>2, NowFields
  <2> QED BY <1>3, <2>1, StaysMoves
<1> QED BY <1>3, <1>4, <1>5, <1>6, <1>7 DEF SchedStep

(* A task that is not ready or running becomes ready.                      *)
LEMMA AddStep ==
    ASSUME IInv, NEW t \in Tasks, NEW me \in CPUs, state[t] \notin {"ready", "running"},
           state[t] = "inactive" => Stops(t) = {},
           Becomes(AddReadyToRun(Now, me, t)), pinned' = pinned
    PROVE  SchedStep
<1>1. PICK T : T = AddReadyToRun(Now, me, t)
  OBVIOUS
<1>2. Good(Now, t)
  BY NowState, NowFields, GoodAgain
<1>3. /\ Good(T, Null) /\ Moves(Now, T, {t})
      /\ \A d \in CPUs : Settled(Now, d) => Settled(T, d)
      /\ Placed(Now, t) /\ (pinned[t] => Now.cpu[t] \in Now.mask[t]) => Placed(T, Null)
  <2>1. /\ Good(AddReadyToRun(Now, me, t), Null) /\ Moves(Now, AddReadyToRun(Now, me, t), {t})
        /\ \A d \in CPUs : Settled(Now, d) => Settled(AddReadyToRun(Now, me, t), d)
        /\ Placed(Now, t) /\ (pinned[t] => Now.cpu[t] \in Now.mask[t]) =>
              Placed(AddReadyToRun(Now, me, t), Null)
    BY <1>2, Added
  <2> QED BY <1>1, <2>1
<1>4. Keeps(T)
  BY <1>3, KeepsMoves
<1>5. Placed(Now, Null) => Placed(Now, t) /\ (pinned[t] => Now.cpu[t] \in Now.mask[t])
  BY Kinds DEF Placed
<1>6. CalmAfter(T)
  BY <1>3, <1>5 DEF CalmAfter, Calm
<1>7. Pins(T) /\ Becomes(T)
  BY <1>1, PinsSame
<1>8. Stays(T)
  BY <1>3, NowFields DEF Moves, Stays
<1> QED BY <1>3, <1>4, <1>6, <1>7, <1>8 DEF SchedStep

(* A CPU switches if it should, as its time slice has ended.               *)
LEMMA SwitchStep ==
    ASSUME IInv, NEW c \in CPUs, Becomes(SwitchRunning(Now, c, TRUE)), pinned' = pinned
    PROVE  SchedStep
<1>1. PICK T : T = SwitchRunning(Now, c, TRUE)
  OBVIOUS
<1>2. Good(Now, Null)
  BY NowState
<1>3. /\ Good(T, Null) /\ (\A X : Moves(Now, T, X)) /\ Settled(T, c)
      /\ \A d \in CPUs \ {c} : Settled(Now, d) => Settled(T, d)
      /\ \A x : Placed(Now, x) => Placed(T, x)
  <2>1. /\ Good(SwitchRunning(Now, c, TRUE), Null)
        /\ \A X : Moves(Now, SwitchRunning(Now, c, TRUE), X)
        /\ Settled(SwitchRunning(Now, c, TRUE), c)
        /\ \A d \in CPUs \ {c} : Settled(Now, d) => Settled(SwitchRunning(Now, c, TRUE), d)
        /\ \A x : Placed(Now, x) => Placed(SwitchRunning(Now, c, TRUE), x)
    BY <1>2, Switched
  <2> QED BY <1>1, <2>1
<1>4. Keeps(T) /\ Stays(T)
  <2>1. Moves(Now, T, {})
    BY <1>3
  <2> QED BY <2>1, KeepsMoves, StaysMoves
<1>5. CalmAfter(T)
  BY <1>3 DEF CalmAfter, Calm
<1>6. Pins(T) /\ Becomes(T)
  BY <1>1, PinsSame
<1> QED BY <1>3, <1>4, <1>5, <1>6 DEF SchedStep

(* sched_lock()                                                            *)
LEMMA LockStep ==
    ASSUME IInv, NEW me \in CPUs, NEW t \in Tasks, Lock(me, t)
    PROVE  SchedStep
<1>1. PICK T : T = [Now EXCEPT !.lock[t] = TRUE]
  OBVIOUS
<1>2. Now \in SchedState /\ Good(Now, Null) /\ t \in Tcbs /\ TRUE \in BOOLEAN
  BY NowState, Kinds
<1>3. WithLock(Now, T, t, TRUE)
  BY <1>1, <1>2, LockFields
<1>4. /\ Good(T, Null)
      /\ \A d \in CPUs : Settled(Now, d) /\ (TRUE \/ Now.assigned[d] # t) => Settled(T, d)
      /\ \A y : Placed(Now, y) => Placed(T, y)
  BY <1>2, <1>3, Relocked
<1>5. Becomes(T) /\ T.state = state /\ T.cpu = cpu
  BY <1>3, NowFields DEF WithLock, Becomes, Lock
<1>6. Keeps(T)
  BY <1>5 DEF Keeps
<1>7. CalmAfter(T)
  BY <1>4 DEF CalmAfter, Calm
<1>8. Pins(T) /\ Stays(T)
  BY <1>5, PinsSame DEF Lock, Stays
<1> QED BY <1>4, <1>5, <1>6, <1>7, <1>8 DEF SchedStep

(* sched_unlock(): what the step does to the scheduler's state.            *)
LEMMA UnlockFacts ==
    ASSUME IInv, NEW me \in CPUs, NEW t \in Tasks, assigned[me] = t, NEW T,
           T = UnlockTask(Now, me, t)
    PROVE  /\ Good(T, Null) /\ Keeps(T) /\ CalmAfter(T) /\ Stays(T)
           /\ \A u \in Tasks : state[u] = "running" => T.state[u] \in {"ready", "running"}
<1>1. PICK C : C = [Now EXCEPT !.lock[t] = FALSE]
  OBVIOUS
<1>2. /\ Now \in SchedState /\ Good(Now, Null) /\ t \in Tcbs /\ FALSE \in BOOLEAN
      /\ Now.assigned[me] = t /\ lock \in [Tcbs -> BOOLEAN]
  BY NowState, NowFields, Kinds
<1>3. WithLock(Now, C, t, FALSE)
  BY <1>1, <1>2, LockFields
<1>4. C.lock = [lock EXCEPT ![t] = FALSE] /\ C.state = state /\ C.cpu = cpu
  BY <1>3, NowFields DEF WithLock
<1>5. /\ Good(T, Null) /\ (\A X : Moves(C, T, X))
      /\ (\A d \in CPUs : Settled(Now, d)) => \A d \in CPUs : Settled(T, d)
      /\ \A x : Placed(Now, x) => Placed(T, x)
  <2>1. /\ Good(UnlockTask(Now, me, t), Null)
        /\ \A X : Moves([Now EXCEPT !.lock[t] = FALSE], UnlockTask(Now, me, t), X)
        /\ (\A d \in CPUs : Settled(Now, d)) =>
              \A d \in CPUs : Settled(UnlockTask(Now, me, t), d)
        /\ \A x : Placed(Now, x) => Placed(UnlockTask(Now, me, t), x)
    BY <1>2, Unlocked
  <2> QED BY <1>1, <2>1
<1>6. Moves(C, T, {})
  BY <1>5
<1>7. Keeps(T)
  <2> SUFFICES ASSUME NEW u \in Tasks, state[u] = "running", lock[u], T.lock[u],
                      T.state[u] = "ready"
               PROVE  FALSE
    BY DEF Keeps
  <2>1. T.lock = C.lock
    BY <1>6 DEF Moves
  <2>2. u # t
    BY <1>2, <1>4, <2>1
  <2>3. C.lock[u] /\ C.state[u] = "running"
    BY <1>4, <2>1
  <2> QED BY <1>6, <2>3 DEF Moves
<1>8. CalmAfter(T)
  BY <1>5 DEF CalmAfter, Calm
<1>9. ASSUME NEW u \in Tasks, state[u] = "running" PROVE T.state[u] \in {"ready", "running"}
  <2>1. C.state[u] \in {"ready", "running"}
    BY <1>4, <1>9
  <2> QED BY <1>6, <2>1 DEF Moves
<1>10. Stays(T)
  BY <1>4, <1>6 DEF Moves, Stays
<1> QED BY <1>5, <1>7, <1>8, <1>9, <1>10

LEMMA UnlockStep ==
    ASSUME IInv, NEW me \in CPUs, NEW t \in Tasks, Unlock(me, t)
    PROVE  SchedStep
<1>1. PICK T : T = UnlockTask(Now, me, t)
  OBVIOUS
<1>2. Becomes(T) /\ assigned[me] = t /\ pinned' = pinned
  BY <1>1 DEF Unlock, Runs
<1>3. Good(T, Null) /\ Keeps(T) /\ CalmAfter(T) /\ Stays(T)
  BY <1>1, <1>2, UnlockFacts
<1>4. Pins(T)
  BY <1>2, PinsSame
<1> QED BY <1>2, <1>3, <1>4 DEF SchedStep

(* nxsched_set_priority()                                                  *)
LEMMA PriorityStep ==
    ASSUME IInv, NEW me \in CPUs, NEW t \in Tasks, NEW p \in Prios, Reprioritize(me, t, p)
    PROVE  SchedStep
<1>1. PICK T : T = SetPriority(Now, me, t, p)
  OBVIOUS
<1>2. PICK C : C = [Now EXCEPT !.prio[t] = p]
  OBVIOUS
<1>3. Now \in SchedState /\ Good(Now, Null) /\ p \in Nat
  BY NowState, SmpConstants
<1>4. WithPrio(Now, C, t, p)
  BY <1>2, <1>3, PrioFields
<1>5. C.mask = mask /\ C.state = state /\ C.lock = lock /\ C.cpu = cpu
  BY <1>4, NowFields DEF WithPrio
<1>6. /\ Good(T, Null) /\ Moves(C, T, {t})
      /\ state[t] = "running" /\ lock[t] /\ T.state[t] # "running" => cpu[t] \notin mask[t]
      /\ (\A d \in CPUs : Settled(Now, d)) => \A d \in CPUs : Settled(T, d)
      /\ /\ Placed(Now, t) /\ (pinned[t] => cpu[t] \in mask[t])
         /\ state[t] = "running" => cpu[t] \in mask[t] \/ (t = assigned[me] /\ ready # <<>>)
         => Placed(T, Null)
  <2>1. /\ Good(SetPriority(Now, me, t, p), Null)
        /\ Moves([Now EXCEPT !.prio[t] = p], SetPriority(Now, me, t, p), {t})
        /\ /\ Now.state[t] = "running" /\ Now.lock[t]
           /\ SetPriority(Now, me, t, p).state[t] # "running"
           => Now.cpu[t] \notin Now.mask[t]
        /\ (\A d \in CPUs : Settled(Now, d)) =>
              \A d \in CPUs : Settled(SetPriority(Now, me, t, p), d)
        /\ /\ Placed(Now, t) /\ (pinned[t] => Now.cpu[t] \in Now.mask[t])
           /\ Now.state[t] = "running" =>
                 Now.cpu[t] \in Now.mask[t] \/ (t = Now.assigned[me] /\ Now.ready # <<>>)
           => Placed(SetPriority(Now, me, t, p), Null)
    BY <1>3, PrioritySet
  <2> QED BY <1>1, <1>2, <2>1, NowFields
<1>7. Keeps(T)
  <2> SUFFICES ASSUME NEW u \in Tasks, state[u] = "running", lock[u], T.state[u] = "ready"
               PROVE  cpu[u] \notin T.mask[u]
    BY DEF Keeps
  <2>1. T.mask = mask
    BY <1>5, <1>6 DEF Moves
  <2>2. u = t
    BY <1>5, <1>6 DEF Moves
  <2> QED BY <1>6, <2>1, <2>2
<1>8. Placed(Now, Null) => /\ Placed(Now, t) /\ (pinned[t] => cpu[t] \in mask[t])
                           /\ state[t] = "running" => cpu[t] \in mask[t]
  BY NowFields, Kinds DEF Placed
<1>9. CalmAfter(T)
  BY <1>6, <1>8 DEF CalmAfter, Calm
<1>10. Pins(T) /\ Becomes(T)
  BY <1>1, PinsSame DEF Reprioritize
<1>11. Stays(T)
  <2>1. CASE state[t] = "inactive"
    <3>1. T = C
      BY <1>1, <1>2, <2>1, NowFields DEF SetPriority
    <3> QED BY <1>5, <3>1 DEF Stays
  <2>2. CASE state[t] # "inactive"
    BY <1>5, <1>6, <2>2 DEF Moves, Stays
  <2> QED BY <2>1, <2>2
<1> QED BY <1>6, <1>7, <1>9, <1>10, <1>11 DEF SchedStep

(* nxsched_set_affinity()                                                  *)
WithMask(S, C, t, m) ==
    /\ C \in SchedState /\ C.mask = [S.mask EXCEPT ![t] = m]
    /\ C.ready = S.ready /\ C.assigned = S.assigned /\ C.deliver = S.deliver
    /\ C.state = S.state /\ C.cpu = S.cpu /\ C.prio = S.prio /\ C.lock = S.lock

LEMMA MaskFields ==
    ASSUME NEW S \in SchedState, NEW t \in Tasks, NEW m \in Masks
    PROVE  WithMask(S, [S EXCEPT !.mask[t] = m], t, m)
BY DEF SchedState, WithMask

LEMMA Remasked ==
    ASSUME IInv, NEW t \in Tasks, ~pinned[t], NEW m \in Masks, NEW C, WithMask(Now, C, t, m)
    PROVE  /\ Good(C, Null)
           /\ Calm => Placed(C, t) /\ \A d \in CPUs : Settled(C, d)
           /\ Calm /\ (state[t] \in {"ready", "running"} => cpu[t] \in m) => Placed(C, Null)
<1>1. /\ Good(Now, Null) /\ mask \in [Tasks -> Masks] /\ ready \in Seq(Tasks)
      /\ cpu \in [Tasks -> CPUs]
  BY NowState
<1>2. /\ C \in SchedState /\ C.mask = [mask EXCEPT ![t] = m]
      /\ C.ready = ready /\ C.assigned = assigned /\ C.deliver = deliver
      /\ C.state = state /\ C.cpu = cpu /\ C.prio = prio /\ C.lock = lock
  BY NowFields DEF WithMask
<1>3. Good(C, Null)
  BY <1>1, <1>2, NowFields DEF Good
<1>4. \A u \in Tasks : C.mask[u] = IF u = t THEN m ELSE mask[u]
  BY <1>1, <1>2
<1>5. \A u \in Tasks : u \in ToSet(ready) => state[u] = "ready"
  BY <1>1, NowFields DEF Good
<1>6. ASSUME Placed(Now, Null)
      PROVE  /\ Placed(C, t)
             /\ (state[t] \in {"ready", "running"} => cpu[t] \in m) => Placed(C, Null)
  <2>1. \A u \in Tasks : u \in ToSet(ready) \/ state[u] = "running" \/ pinned[u] =>
           cpu[u] \in mask[u]
    BY <1>6, NowFields, Kinds DEF Placed
  <2>2. Placed(C, t)
    BY <1>2, <1>4, <2>1 DEF Placed
  <2>3. ASSUME state[t] \in {"ready", "running"} => cpu[t] \in m PROVE Placed(C, Null)
    BY <1>2, <1>4, <1>5, <2>1, <2>3 DEF Placed
  <2> QED BY <2>2, <2>3
<1>7. ASSUME Placed(Now, Null), NEW d \in CPUs, Settled(Now, d) PROVE Settled(C, d)
  <2> SUFFICES ASSUME NEW u \in ToSet(ready), cpu[u] = d
               PROVE  \/ deliver[d] # "none" \/ lock[assigned[d]] \/ prio[u] <= prio[assigned[d]]
    BY <1>2 DEF Settled
  <2>1. u \in Tasks
    BY <1>1, ToSetIndex
  <2>2. cpu[u] \in mask[u]
    BY <1>7, <2>1, NowFields, Kinds DEF Placed
  <2> QED BY <1>7, <2>2, NowFields DEF Settled
<1> QED BY <1>3, <1>6, <1>7 DEF Calm

LEMMA AffinityStep ==
    ASSUME IInv, NEW me \in CPUs, NEW t \in Tasks, NEW m \in Masks, SetAffinity(me, t, m)
    PROVE  SchedStep
<1>1. PICK S : S = [Now EXCEPT !.mask[t] = m]
  OBVIOUS
<1>2. Now \in SchedState /\ Good(Now, Null) /\ prio[t] \in Nat
  BY NowState, Kinds
<1>3. WithMask(Now, S, t, m)
  BY <1>1, <1>2, MaskFields
<1>4. /\ S.mask[t] = m
      /\ S.ready = ready /\ S.assigned = assigned /\ S.deliver = deliver
      /\ S.state = state /\ S.cpu = cpu /\ S.prio = prio /\ S.lock = lock
  BY <1>3, NowFields, NowState DEF WithMask
<1>5. /\ ~pinned[t] /\ pinned' = pinned
      /\ state[t] = "running" /\ cpu[t] \notin m =>
            StuckMoves \/ (t = assigned[me] /\ ready # <<>>)
      /\ Becomes(IF state[t] \in {"ready", "running"} /\ cpu[t] \notin m
                 THEN SetPriority(S, me, t, prio[t]) ELSE S)
  BY <1>1 DEF SetAffinity
<1>6. /\ Good(S, Null)
      /\ Calm => Placed(S, t) /\ \A d \in CPUs : Settled(S, d)
      /\ Calm /\ (state[t] \in {"ready", "running"} => cpu[t] \in m) => Placed(S, Null)
  BY <1>3, <1>5, Remasked
<1>7. CASE state[t] \in {"ready", "running"} /\ cpu[t] \notin m
  <2>1. PICK T : T = SetPriority(S, me, t, prio[t])
    OBVIOUS
  <2>2. PICK C : C = [S EXCEPT !.prio[t] = prio[t]]
    OBVIOUS
  <2>3. WithPrio(S, C, t, prio[t])
    BY <1>2, <1>6, <2>2, PrioFields DEF Good
  <2>4. C.mask = S.mask /\ C.state = state /\ C.lock = lock /\ C.cpu = cpu
    BY <1>4, <2>3 DEF WithPrio
  <2>5. /\ Good(T, Null) /\ Moves(C, T, {t})
        /\ (\A d \in CPUs : Settled(S, d)) => \A d \in CPUs : Settled(T, d)
        /\ /\ Placed(S, t) /\ (pinned[t] => S.cpu[t] \in S.mask[t])
           /\ S.state[t] = "running" =>
                 S.cpu[t] \in S.mask[t] \/ (t = S.assigned[me] /\ S.ready # <<>>)
           => Placed(T, Null)
    <3>1. /\ Good(SetPriority(S, me, t, prio[t]), Null)
          /\ Moves([S EXCEPT !.prio[t] = prio[t]], SetPriority(S, me, t, prio[t]), {t})
          /\ (\A d \in CPUs : Settled(S, d)) =>
                \A d \in CPUs : Settled(SetPriority(S, me, t, prio[t]), d)
          /\ /\ Placed(S, t) /\ (pinned[t] => S.cpu[t] \in S.mask[t])
             /\ S.state[t] = "running" =>
                   S.cpu[t] \in S.mask[t] \/ (t = S.assigned[me] /\ S.ready # <<>>)
             => Placed(SetPriority(S, me, t, prio[t]), Null)
      BY <1>2, <1>6, PrioritySet
    <3> QED BY <2>1, <2>2, <3>1
  <2>6. Keeps(T)
    <3> SUFFICES ASSUME NEW u \in Tasks, state[u] = "running", lock[u], T.state[u] = "ready"
                 PROVE  cpu[u] \notin T.mask[u]
      BY DEF Keeps
    <3>1. T.mask = S.mask
      BY <2>4, <2>5 DEF Moves
    <3>2. u = t
      BY <2>4, <2>5 DEF Moves
    <3> QED BY <1>4, <1>7, <3>1, <3>2
  <2>7. CalmAfter(T)
    BY <1>4, <1>5, <1>6, <2>5 DEF CalmAfter
  <2>8. Pins(T) /\ Becomes(T)
    BY <1>5, <1>7, <2>1, PinsSame
  <2>9. Stays(T)
    BY <1>7, <2>4, <2>5 DEF Moves, Stays
  <2> QED BY <2>5, <2>6, <2>7, <2>8, <2>9 DEF SchedStep
<1>8. CASE ~(state[t] \in {"ready", "running"} /\ cpu[t] \notin m)
  <2>1. Becomes(S)
    BY <1>5, <1>8
  <2>2. Keeps(S)
    BY <1>4 DEF Keeps
  <2>3. CalmAfter(S)
    BY <1>6, <1>8 DEF CalmAfter
  <2>4. Pins(S) /\ Stays(S)
    BY <1>4, <1>5, PinsSame DEF Stays
  <2> QED BY <1>6, <2>1, <2>2, <2>3, <2>4 DEF SchedStep
<1> QED BY <1>7, <1>8

(* nxtask_exit()                                                           *)
LEMMA ExitStep ==
    ASSUME IInv, NEW me \in CPUs, NEW t \in Tasks, NEW W,
           W = {} \/ \E w \in Tasks \ {t} : W = {w} /\ state[w] = "blocked",
           Exit(me, t, W)
    PROVE  SchedStep /\ state'[t] = "inactive"
<1>1. PICK R : R = RemoveRunning(Now, t, "inactive")
  OBVIOUS
<1>2. PICK G : G = [R EXCEPT !.lock[t] = FALSE, !.mask[t] = CPUs]
  OBVIOUS
<1>3. PICK r : r = G.assigned[me]
  OBVIOUS
<1>4. PICK H : H = [G EXCEPT !.lock[r] = TRUE]
  OBVIOUS
<1>5. PICK K : K = WokenBy(H, me, W)
  OBVIOUS
<1>6. PICK L : L = [K EXCEPT !.lock[r] = G.lock[r]]
  OBVIOUS
<1>7. PICK T : T = DeliverTask(L, me, me, "higher")
  OBVIOUS
<1>8. /\ Becomes(T) /\ assigned[me] = t
      /\ pinned' = [pinned EXCEPT ![t] = FALSE]
  BY <1>1, <1>2, <1>3, <1>4, <1>5, <1>6, <1>7 DEF Exit, Runs, WokenBy
<1>9. Good(Now, Null) /\ Now.state[t] = "running"
  BY <1>8, NowState, NowFields
<1>10. Cleared(RemoveRunning(Now, t, "inactive"), G, t)
  <2>1. "inactive" \in {"inactive", "ready", "blocked", "stopped"} /\ "inactive" # "ready"
    OBVIOUS
  <2>2. Good(RemoveRunning(Now, t, "inactive"), Null)
    BY <1>9, <2>1, Removed
  <2>3. R \in SchedState
    BY <1>1, <2>2 DEF Good
  <2> QED BY <1>1, <1>2, <2>3, ClearedFields
<1>11. /\ Good(G, Null) /\ G.state[t] = "inactive" /\ ~G.lock[t]
       /\ \A u \in Tasks \ {t} :
             /\ Now.state[u] \notin {"ready", "running"} => G.state[u] = Now.state[u]
             /\ Now.state[u] = "running" /\ Now.lock[u] => G.state[u] = "running" /\ G.lock[u]
       /\ \A d \in CPUs : Settled(Now, d) => Settled(G, d)
       /\ Placed(Now, Null) => Placed(G, Null)
       /\ Anchors(Now, G)
  BY <1>9, <1>10, Gone
<1>12. G \in SchedState /\ r \in Tcbs /\ G.lock[r] \in BOOLEAN
  <2>1. G \in SchedState
    BY <1>11 DEF Good
  <2> QED BY <1>3, <2>1, Fields
<1>13. WithLock(G, H, r, TRUE)
  BY <1>4, <1>12, LockFields
<1>14. W = {} \/ \E w \in Tasks : W = {w} /\ G.state[w] = "blocked"
  BY <1>11, NowFields
<1>15. WokenAs(G, K, r)
  BY <1>3, <1>5, <1>11, <1>13, <1>14, Woken
<1>16. K \in SchedState
  BY <1>15 DEF WokenAs, Good
<1>17. WithLock(K, L, r, G.lock[r])
  BY <1>6, <1>12, <1>16, LockFields
<1>18. /\ Good(T, Null) /\ T.lock = G.lock
       /\ \A u \in Tasks : G.state[u] = "running" /\ G.lock[u] => T.state[u] = "running"
       /\ (\A d \in CPUs : Settled(G, d)) => \A d \in CPUs : Settled(T, d)
       /\ Placed(G, Null) => Placed(T, Null)
       /\ Anchors(G, T)
  <2>1. /\ Good(DeliverTask(L, me, me, "higher"), Null)
        /\ DeliverTask(L, me, me, "higher").lock = G.lock
        /\ \A u \in Tasks : G.state[u] = "running" /\ G.lock[u] =>
              DeliverTask(L, me, me, "higher").state[u] = "running"
        /\ (\A d \in CPUs : Settled(G, d)) =>
              \A d \in CPUs : Settled(DeliverTask(L, me, me, "higher"), d)
        /\ Placed(G, Null) => Placed(DeliverTask(L, me, me, "higher"), Null)
        /\ Anchors(G, DeliverTask(L, me, me, "higher"))
    BY <1>3, <1>11, <1>15, <1>17, Exited
  <2> QED BY <1>7, <2>1
<1>19. Keeps(T)
  BY <1>11, <1>18, NowFields DEF Keeps
<1>20. CalmAfter(T)
  BY <1>11, <1>18 DEF CalmAfter, Calm
<1>21. Pins(T)
  <2>1. \A u \in Tasks : pinned'[u] => pinned[u]
    BY <1>8 DEF IInv
  <2> QED BY <2>1, PinsSame
<1>22. Stays(T)
  BY <1>11, <1>18, AnchorsTrans, StaysAnchors
<1>23. state'[t] = "inactive"
  <2>1. T.state[t] = "inactive"
    BY <1>11, <1>18 DEF Anchors
  <2> QED BY <1>8, <2>1 DEF Becomes
<1>24. SchedStep
  BY <1>8, <1>18, <1>19, <1>20, <1>21, <1>22 DEF SchedStep
<1> QED BY <1>23, <1>24

(* The request of a CPU is taken.                                          *)
WithDeliver(S, C, c, v) ==
    /\ C \in SchedState /\ C.deliver = [S.deliver EXCEPT ![c] = v]
    /\ C.ready = S.ready /\ C.assigned = S.assigned /\ C.mask = S.mask
    /\ C.state = S.state /\ C.cpu = S.cpu /\ C.prio = S.prio /\ C.lock = S.lock

LEMMA DeliverFields ==
    ASSUME NEW S \in SchedState, NEW c \in CPUs, NEW v \in {"none", "higher", "equal"}
    PROVE  WithDeliver(S, [S EXCEPT !.deliver[c] = v], c, v)
BY DEF SchedState, WithDeliver

(* nxsched_process_delivered()                                             *)
LEMMA DeliveredStep ==
    ASSUME IInv, NEW c \in CPUs, ProcessDelivered(c)
    PROVE  SchedStep
<1> DEFINE S == [Now EXCEPT !.deliver[c] = "none"]
           T == SwitchRunning(S, c, deliver[c] = "equal")
           h == Head(S.ready)
           target == IF pinned[h] THEN S.cpu[h] ELSE SelectCpu(S, S.mask[h])
<1>1. S = [Now EXCEPT !.deliver[c] = "none"]
  OBVIOUS
<1>2. PICK eq : eq = (deliver[c] = "equal")
  OBVIOUS
<1>3. T = SwitchRunning(S, c, eq)
  BY <1>2
<1>4. h = Head(S.ready)
  OBVIOUS
<1>5. target = IF pinned[h] THEN S.cpu[h] ELSE SelectCpu(S, S.mask[h])
  OBVIOUS
<1>6. /\ deliver[c] # "none" /\ pinned' = pinned
      /\ Becomes(IF /\ T.assigned[c] = S.assigned[c]
                    /\ S.ready # <<>>
                    /\ target # c
                    /\ S.prio[S.assigned[target]] < S.prio[h]
                 THEN DeliverTask(S, c, target, deliver[c])
                 ELSE T)
  BY DEF ProcessDelivered
<1> HIDE DEF S, T, h, target
<1>7. /\ Now \in SchedState /\ Good(Now, Null)
      /\ deliver \in [CPUs -> {"none", "higher", "equal"}]
      /\ deliver[c] \in {"higher", "equal"} /\ "none" \in {"none", "higher", "equal"}
  BY <1>6, NowState
<1>8. WithDeliver(Now, S, c, "none")
  BY <1>1, <1>7, DeliverFields
<1>9. /\ S \in SchedState /\ S.deliver = [deliver EXCEPT ![c] = "none"]
      /\ S.ready = ready /\ S.assigned = assigned /\ S.mask = mask
      /\ S.state = state /\ S.cpu = cpu /\ S.prio = prio /\ S.lock = lock
  BY <1>8, NowFields DEF WithDeliver
<1>10. Good(S, Null)
  BY <1>7, <1>9, NowFields DEF Good
<1>11. ASSUME NEW d \in CPUs \ {c}, Settled(Now, d) PROVE Settled(S, d)
  <2>1. S.deliver[d] = deliver[d]
    BY <1>7, <1>9
  <2> QED BY <1>9, <1>11, <2>1, NowFields DEF Settled
<1>12. Placed(Now, Null) => Placed(S, Null)
  BY <1>9, NowFields DEF Placed
<1>13. \A U : Moves(S, U, {}) => Keeps(U) /\ Stays(U)
  BY <1>9 DEF Moves, Keeps, Stays
<1>14. /\ Good(T, Null) /\ Moves(S, T, {}) /\ Settled(T, c)
       /\ \A d \in CPUs \ {c} : Settled(S, d) => Settled(T, d)
       /\ Placed(S, Null) => Placed(T, Null)
       /\ T.assigned[c] = S.assigned[c] => T = S
  <2>1. /\ Good(SwitchRunning(S, c, eq), Null)
        /\ \A X : Moves(S, SwitchRunning(S, c, eq), X)
        /\ Settled(SwitchRunning(S, c, eq), c)
        /\ \A d \in CPUs \ {c} : Settled(S, d) => Settled(SwitchRunning(S, c, eq), d)
        /\ \A x : Placed(S, x) => Placed(SwitchRunning(S, c, eq), x)
        /\ SwitchRunning(S, c, eq).assigned[c] = S.assigned[c] => SwitchRunning(S, c, eq) = S
    BY <1>10, Switched
  <2> QED BY <1>3, <2>1
<1>15. CASE /\ T.assigned[c] = S.assigned[c]
            /\ S.ready # <<>>
            /\ target # c
            /\ S.prio[S.assigned[target]] < S.prio[h]
  <2>1. PICK U : U = DeliverTask(S, c, target, deliver[c])
    OBVIOUS
  <2>2. Becomes(U)
    BY <1>6, <1>15, <2>1
  <2>3. target \in CPUs
    <3>1. S.ready \in Seq(Tasks) /\ S.cpu \in [Tasks -> CPUs] /\ S.mask \in [Tasks -> Masks]
      BY <1>9, Fields
    <3>2. h \in Tasks
      BY <1>4, <1>15, <3>1
    <3>3. S.mask[h] \in Masks
      BY <3>1, <3>2
    <3>4. SelectCpu(S, S.mask[h]) \in CPUs
      BY <1>9, <3>3, SelectedCpu
    <3> QED BY <1>5, <3>1, <3>2, <3>4
  <2>4. Settled(S, c)
    BY <1>14, <1>15
  <2>5. /\ Good(U, Null) /\ (\A X : Moves(S, U, X)) /\ Settled(U, target)
        /\ \A d \in CPUs \ {target} : Settled(S, d) => Settled(U, d)
        /\ \A x : Placed(S, x) => Placed(U, x)
    <3>1. /\ Good(DeliverTask(S, c, target, deliver[c]), Null)
          /\ \A X : Moves(S, DeliverTask(S, c, target, deliver[c]), X)
          /\ Settled(DeliverTask(S, c, target, deliver[c]), target)
          /\ \A d \in CPUs \ {target} :
                Settled(S, d) => Settled(DeliverTask(S, c, target, deliver[c]), d)
          /\ \A x : Placed(S, x) => Placed(DeliverTask(S, c, target, deliver[c]), x)
      BY <1>7, <1>10, <2>3, Delivered
    <3> QED BY <2>1, <3>1
  <2>6. Moves(S, U, {})
    BY <2>5
  <2>7. Keeps(U) /\ Stays(U)
    BY <1>13, <2>6
  <2>8. CalmAfter(U)
    BY <1>11, <1>12, <2>4, <2>5 DEF CalmAfter, Calm
  <2>9. Pins(U)
    BY <1>6, PinsSame
  <2> QED BY <2>2, <2>5, <2>7, <2>8, <2>9 DEF SchedStep
<1>16. CASE ~(/\ T.assigned[c] = S.assigned[c]
              /\ S.ready # <<>>
              /\ target # c
              /\ S.prio[S.assigned[target]] < S.prio[h])
  <2>1. Becomes(T)
    BY <1>6, <1>16
  <2>2. Keeps(T) /\ Stays(T)
    BY <1>13, <1>14
  <2>3. CalmAfter(T)
    BY <1>11, <1>12, <1>14 DEF CalmAfter, Calm
  <2>4. Pins(T)
    BY <1>6, PinsSame
  <2> QED BY <1>14, <2>1, <2>2, <2>3, <2>4 DEF SchedStep
<1> QED BY <1>15, <1>16

(* A record that asks to stop a task is one of the stop calls.             *)
LEMMA StopCall ==
    ASSUME NEW e \in StopCalls \cup RobinCalls \cup {Null}, IsStop(e)
    PROVE  e \in StopCalls /\ e.tcb \in Tasks /\ e.by \in Tasks /\ e.restore \in BOOLEAN
<1>1. e \in StopCalls \cup RobinCalls /\ "tcb" \in DOMAIN e
  BY DEF IsStop
<1>2. e \notin RobinCalls
  <2> SUFFICES ASSUME e \in RobinCalls PROVE FALSE
    OBVIOUS
  <2>1. DOMAIN e = {"robin"}
    BY DEF RobinCalls
  <2> QED BY <1>1, <2>1
<1>3. e \in StopCalls
  BY <1>1, <1>2
<1> QED BY <1>3 DEF StopCalls

(* nxsched_suspend()                                                       *)
LEMMA SuspendStep ==
    ASSUME IInv, NEW me \in CPUs, NEW u \in Tasks, NEW t \in Tasks, Suspend(me, u, t)
    PROVE  SchedStep
<1>1. assigned[me] = u /\ Good(Now, Null) /\ cpu \in [Tasks -> CPUs]
  BY NowState DEF Suspend, Runs
<1>2. CASE SuspendRemote(me, u, t)
  <2>1. PICK T : T = IF lock[u] THEN Now ELSE UnlockTask(Now, me, u)
    OBVIOUS
  <2>2. Becomes(T) /\ state[t] = "running" /\ pinned' = [pinned EXCEPT ![t] = TRUE]
    BY <1>2, <2>1 DEF SuspendRemote
  <2>3. /\ Good(T, Null) /\ Keeps(T) /\ CalmAfter(T) /\ Stays(T)
        /\ \A v \in Tasks : state[v] = "running" => T.state[v] \in {"ready", "running"}
    <3>1. CASE lock[u]
      <4>1. Moves(Now, Now, {})
        BY MovesRefl
      <4>2. Keeps(Now) /\ Stays(Now)
        BY <4>1, KeepsMoves, StaysMoves
      <4>3. CalmAfter(Now)
        BY DEF CalmAfter, Calm
      <4> QED BY <1>1, <2>1, <3>1, <4>2, <4>3, NowFields
    <3>2. CASE ~lock[u]
      <4>1. T = UnlockTask(Now, me, u)
        BY <2>1, <3>2
      <4> QED BY <1>1, <4>1, UnlockFacts
    <3> QED BY <3>1, <3>2
  <2>4. Pins(T)
    <3>1. \A v \in Tasks : pinned'[v] /\ ~pinned[v] => v = t
      BY <2>2 DEF IInv
    <3> QED BY <2>2, <2>3, <3>1 DEF Pins
  <2> QED BY <2>2, <2>3, <2>4 DEF SchedStep
<1>3. CASE SuspendLocal(me, t)
  <2>1. PICK S : S = RemoveReadyToRun(Now, t, "stopped")
    OBVIOUS
  <2>2. PICK T : T = IF state[t] = "running" THEN DeliverTask(S, me, cpu[t], "higher") ELSE S
    OBVIOUS
  <2>3. Becomes(T) /\ pinned' = pinned
    BY <1>3, <2>1, <2>2 DEF SuspendLocal
  <2>4. /\ Good(S, Null) /\ S.state[t] = "stopped" /\ Moves(Now, S, {t})
        /\ \A d \in CPUs : Settled(Now, d) => Settled(S, d)
        /\ \A x : Placed(Now, x) => Placed(S, x)
    <3>1. "stopped" \in {"inactive", "blocked", "stopped"}
      OBVIOUS
    <3>2. /\ Good(RemoveReadyToRun(Now, t, "stopped"), Null)
          /\ RemoveReadyToRun(Now, t, "stopped").state[t] = "stopped"
          /\ Moves(Now, RemoveReadyToRun(Now, t, "stopped"), {t})
          /\ \A d \in CPUs : Settled(Now, d) => Settled(RemoveReadyToRun(Now, t, "stopped"), d)
          /\ \A x : Placed(Now, x) => Placed(RemoveReadyToRun(Now, t, "stopped"), x)
      BY <1>1, <3>1, RemovedAny
    <3> QED BY <2>1, <3>2
  <2>5. /\ Good(T, Null) /\ T.state[t] = "stopped" /\ Moves(Now, T, {t})
        /\ \A d \in CPUs : Settled(Now, d) => Settled(T, d)
        /\ \A x : Placed(Now, x) => Placed(T, x)
    <3>1. CASE state[t] = "running"
      <4>1. PICK c : c = cpu[t]
        OBVIOUS
      <4>2. T = DeliverTask(S, me, c, "higher") /\ c \in CPUs
        BY <1>1, <2>2, <3>1, <4>1
      <4>3. /\ Good(T, Null) /\ (\A X : Moves(S, T, X)) /\ Settled(T, c)
            /\ \A d \in CPUs \ {c} : Settled(S, d) => Settled(T, d)
            /\ \A x : Placed(S, x) => Placed(T, x)
        <5>1. "higher" \in {"higher", "equal"}
          OBVIOUS
        <5>2. /\ Good(DeliverTask(S, me, c, "higher"), Null)
              /\ \A X : Moves(S, DeliverTask(S, me, c, "higher"), X)
              /\ Settled(DeliverTask(S, me, c, "higher"), c)
              /\ \A d \in CPUs \ {c} : Settled(S, d) => Settled(DeliverTask(S, me, c, "higher"), d)
              /\ \A x : Placed(S, x) => Placed(DeliverTask(S, me, c, "higher"), x)
          BY <2>4, <4>2, <5>1, Delivered
        <5> QED BY <4>2, <5>2
      <4>4. Moves(S, T, {t}) /\ Moves(S, T, {})
        BY <4>3
      <4>5. Moves(Now, T, {t})
        BY <2>4, <4>4, MovesTrans
      <4>6. T.state[t] = "stopped"
        BY <2>4, <4>4 DEF Moves
      <4> QED BY <2>4, <4>3, <4>5, <4>6
    <3>2. CASE state[t] # "running"
      BY <2>2, <2>4, <3>2
    <3> QED BY <3>1, <3>2
  <2>6. Keeps(T) /\ Stays(T)
    <3>1. state[t] # "inactive"
      BY <1>3 DEF SuspendLocal
    <3> QED BY <2>5, <3>1, KeepsMoves, StaysMoves
  <2>7. CalmAfter(T)
    BY <2>5 DEF CalmAfter, Calm
  <2>8. Pins(T)
    BY <2>3, PinsSame
  <2> QED BY <2>3, <2>5, <2>6, <2>7, <2>8 DEF SchedStep
<1> QED BY <1>2, <1>3 DEF Suspend

(* nxsched_smp_call()                                                      *)
LEMMA CallWaitStep ==
    ASSUME IInv, NEW me \in CPUs, NEW u \in Tasks, CallWait(me, u)
    PROVE  SchedStep
<1>1. assigned[me] = u /\ pinned' = pinned
  BY DEF CallWait
<1>2. Becomes(RemoveRunning(Now, u, "blocked")) \/ UNCHANGED schedVars
  BY DEF CallWait
<1>3. CASE Becomes(RemoveRunning(Now, u, "blocked"))
  BY <1>1, <1>3, RemoveStep
<1>4. CASE UNCHANGED schedVars
  BY <1>1, <1>4, StaysPut
<1> QED BY <1>2, <1>3, <1>4

(* nxsched_smp_call_handler() and what it calls.                           *)
LEMMA HandlerStep ==
    ASSUME IInv, NEW c \in CPUs, Handler(c)
    PROVE  SchedStep
<1>1. inCall[c] \in StopCalls \cup RobinCalls \cup {Null} /\ Good(Now, Null)
  BY NowState DEF IInv
<1>2. CASE TakeCall(c)
  BY <1>2, StaysPut DEF TakeCall
<1>3. CASE StopHandler(c)
  <2>1. PICK t : t = inCall[c].tcb
    OBVIOUS
  <2>2. t \in Tasks
    BY <1>1, <1>3, <2>1, StopCall DEF StopHandler
  <2>3. CASE state[t] = "inactive"
    BY <1>3, <2>1, <2>3, StaysPut DEF StopHandler
  <2>4. CASE state[t] # "inactive"
    <3>1. PICK T : T = RemoveReadyToRun(Now, t, "stopped")
      OBVIOUS
    <3>2. Becomes(T) /\ pinned' = [pinned EXCEPT ![t] = pinned[t] /\ ~inCall[c].restore]
      BY <1>3, <2>1, <2>4, <3>1 DEF StopHandler
    <3>3. /\ Good(T, Null) /\ T.state[t] = "stopped" /\ Moves(Now, T, {t})
          /\ \A d \in CPUs : Settled(Now, d) => Settled(T, d)
          /\ \A x : Placed(Now, x) => Placed(T, x)
      <4>1. "stopped" \in {"inactive", "blocked", "stopped"}
        OBVIOUS
      <4>2. /\ Good(RemoveReadyToRun(Now, t, "stopped"), Null)
            /\ RemoveReadyToRun(Now, t, "stopped").state[t] = "stopped"
            /\ Moves(Now, RemoveReadyToRun(Now, t, "stopped"), {t})
            /\ \A d \in CPUs : Settled(Now, d) =>
                  Settled(RemoveReadyToRun(Now, t, "stopped"), d)
            /\ \A x : Placed(Now, x) => Placed(RemoveReadyToRun(Now, t, "stopped"), x)
        BY <1>1, <2>2, <4>1, RemovedAny
      <4> QED BY <3>1, <4>2
    <3>4. Keeps(T) /\ Stays(T)
      BY <2>4, <3>3, KeepsMoves, StaysMoves
    <3>5. CalmAfter(T)
      BY <3>3 DEF CalmAfter, Calm
    <3>6. Pins(T)
      <4>1. \A v \in Tasks : pinned'[v] => pinned[v]
        BY <3>2 DEF IInv
      <4> QED BY <4>1, PinsSame
    <3> QED BY <3>2, <3>3, <3>4, <3>5, <3>6 DEF SchedStep
  <2> QED BY <2>3, <2>4
<1>4. CASE PostCaller(c)
  <2>1. PICK u : u = inCall[c].by
    OBVIOUS
  <2>2. u \in Tasks /\ pinned' = pinned
    BY <1>1, <1>4, <2>1, StopCall DEF PostCaller
  <2>3. CASE state[u] = "blocked"
    <3>1. /\ Becomes(AddReadyToRun(Now, c, u)) /\ state[u] \notin {"ready", "running"}
          /\ state[u] = "inactive" => Stops(u) = {}
      BY <1>4, <2>1, <2>3 DEF PostCaller
    <3> QED BY <2>2, <3>1, AddStep
  <2>4. CASE state[u] # "blocked"
    <3>1. UNCHANGED schedVars
      BY <1>4, <2>1, <2>4 DEF PostCaller
    <3> QED BY <2>2, <3>1, StaysPut
  <2> QED BY <2>3, <2>4
<1>5. CASE RobinHandler(c)
  <2>1. pinned' = pinned /\ (Becomes(SwitchRunning(Now, c, TRUE)) \/ Becomes(Now))
    BY <1>5 DEF RobinHandler
  <2>2. CASE Becomes(SwitchRunning(Now, c, TRUE))
    BY <2>1, <2>2, SwitchStep
  <2>3. CASE Becomes(Now)
    <3>1. UNCHANGED schedVars
      BY <2>3, NowFields DEF Becomes, schedVars
    <3> QED BY <2>1, <3>1, StaysPut
  <2> QED BY <2>1, <2>2, <2>3
<1> QED BY <1>2, <1>3, <1>4, <1>5 DEF Handler

LEMMA NextStep ==
    ASSUME IInv, Next
    PROVE  SchedStep
<1>1. PICK c \in CPUs :
        \/ TaskStep(c)
        \/ \E t \in Tasks : Wake(c, t)
        \/ \E t \in Reprio :
              \/ \E p \in Prios : Reprioritize(c, t, p)
              \/ \E m \in Masks : SetAffinity(c, t, m)
        \/ ProcessDelivered(c)
        \/ Handler(c)
        \/ RoundRobin(c)
  BY DEF Next
<1>2. CASE TaskStep(c)
  <2>1. PICK t \in Tasks :
          \/ Block(c, t) \/ Lock(c, t) \/ Unlock(c, t)
          \/ CallWait(c, t)
          \/ \E W \in {{}} \cup {{w} : w \in Tasks \ {t}} :
                /\ \A w \in W : state[w] = "blocked" /\ stopping[w] = "no"
                /\ Exit(c, t, W)
          \/ \E s \in Tasks : Suspend(c, t, s)
    BY <1>2 DEF TaskStep
  <2>2. CASE Block(c, t)
    <3>1. assigned[c] = t /\ Becomes(RemoveRunning(Now, t, "blocked")) /\ pinned' = pinned
      BY <2>2 DEF Block, Runs
    <3> QED BY <3>1, RemoveStep
  <2>3. CASE Lock(c, t)
    BY <2>3, LockStep
  <2>4. CASE Unlock(c, t)
    BY <2>4, UnlockStep
  <2>5. CASE CallWait(c, t)
    BY <2>5, CallWaitStep
  <2>6. ASSUME NEW W \in {{}} \cup {{w} : w \in Tasks \ {t}},
               \A w \in W : state[w] = "blocked" /\ stopping[w] = "no", Exit(c, t, W)
        PROVE  SchedStep
    <3>1. W = {} \/ \E w \in Tasks \ {t} : W = {w} /\ state[w] = "blocked"
      BY <2>6
    <3> QED BY <2>6, <3>1, ExitStep
  <2>7. ASSUME NEW s \in Tasks, Suspend(c, t, s) PROVE SchedStep
    BY <2>7, SuspendStep
  <2> QED BY <2>1, <2>2, <2>3, <2>4, <2>5, <2>6, <2>7
<1>3. ASSUME NEW t \in Tasks, Wake(c, t) PROVE SchedStep
  <2>1. /\ Becomes(AddReadyToRun(Now, c, t)) /\ pinned' = pinned
        /\ state[t] \notin {"ready", "running"} /\ (state[t] = "inactive" => Stops(t) = {})
    BY <1>3 DEF Wake
  <2> QED BY <2>1, AddStep
<1>4. Reprio \subseteq Tasks
  BY SmpConstants
<1>5. ASSUME NEW t \in Reprio, NEW p \in Prios, Reprioritize(c, t, p) PROVE SchedStep
  BY <1>4, <1>5, PriorityStep
<1>6. ASSUME NEW t \in Reprio, NEW m \in Masks, SetAffinity(c, t, m) PROVE SchedStep
  BY <1>4, <1>6, AffinityStep
<1>7. CASE ProcessDelivered(c)
  BY <1>7, DeliveredStep
<1>8. CASE Handler(c)
  BY <1>8, HandlerStep
<1>9. CASE RoundRobin(c)
  <2>1. pinned' = pinned /\ (Becomes(SwitchRunning(Now, 0, TRUE)) \/ UNCHANGED schedVars)
    BY <1>9 DEF RoundRobin
  <2>2. CASE Becomes(SwitchRunning(Now, 0, TRUE))
    BY <2>1, <2>2, SwitchStep, Kinds
  <2>3. CASE UNCHANGED schedVars
    BY <2>1, <2>3, StaysPut
  <2> QED BY <2>1, <2>2, <2>3
<1> QED BY <1>1, <1>2, <1>3, <1>5, <1>6, <1>7, <1>8, <1>9

-----------------------------------------------------------------------------
(* The SMP calls keep their types.                                         *)

Calls == StopCalls \cup RobinCalls

CallTypes ==
    /\ pinned \in [Tasks -> BOOLEAN]
    /\ queue \in [CPUs -> Seq(Calls)]
    /\ torn \in [CPUs -> BOOLEAN]
    /\ robin \in Tasks \cup {Null}
    /\ inCall \in [CPUs -> Calls \cup {Null}]
    /\ stopping \in [Tasks -> {"no", "called", "done"}]

LEMMA CallAdded ==
    ASSUME NEW q \in [CPUs -> Seq(Calls)], NEW c \in CPUs, NEW e \in Calls
    PROVE  CallAdd(q, c, e) \in [CPUs -> Seq(Calls)]
<1>1. Append(q[c], e) \in Seq(Calls)
  OBVIOUS
<1> QED BY <1>1 DEF CallAdd

LEMMA UpToRobinType ==
    ASSUME NEW q \in Seq(Calls)
    PROVE  UpToRobin(q) \in Seq(Calls)
<1>1. CASE \E i \in 1 .. Len(q) : IsRobin(q[i])
  <2>1. PICK i : i = CHOOSE j \in 1 .. Len(q) : IsRobin(q[j])
    OBVIOUS
  <2>2. i \in 1 .. Len(q)
    BY <1>1, <2>1
  <2>3. SubSeq(q, 1, i) \in Seq(Calls)
    BY <2>2
  <2> QED BY <1>1, <2>1, <2>3 DEF UpToRobin
<1>2. CASE ~\E i \in 1 .. Len(q) : IsRobin(q[i])
  BY <1>2 DEF UpToRobin
<1> QED BY <1>1, <1>2

LEMMA CallStep ==
    ASSUME IInv, Next
    PROVE  CallTypes'
<1>1. CallTypes /\ assigned \in [CPUs -> Tcbs] /\ cpu \in [Tasks -> CPUs]
  BY NowState DEF IInv, CallTypes, Calls
<1>2. ASSUME UNCHANGED <<pinned, callVars>> PROVE CallTypes'
  BY <1>1, <1>2 DEF CallTypes, callVars
<1>3. PICK c \in CPUs :
        \/ TaskStep(c)
        \/ \E t \in Tasks : Wake(c, t)
        \/ \E t \in Reprio :
              \/ \E p \in Prios : Reprioritize(c, t, p)
              \/ \E m \in Masks : SetAffinity(c, t, m)
        \/ ProcessDelivered(c)
        \/ Handler(c)
        \/ RoundRobin(c)
  BY DEF Next
<1>4. CASE TaskStep(c)
  <2>1. PICK t \in Tasks :
          \/ Block(c, t) \/ Lock(c, t) \/ Unlock(c, t)
          \/ CallWait(c, t)
          \/ \E W : Exit(c, t, W)
          \/ \E s \in Tasks : Suspend(c, t, s)
    BY <1>4 DEF TaskStep
  <2>2. CASE Block(c, t) \/ Lock(c, t) \/ Unlock(c, t)
    BY <1>2, <2>2 DEF Block, Lock, Unlock
  <2>3. CASE CallWait(c, t)
    BY <1>1, <2>3 DEF CallWait, CallTypes
  <2>4. ASSUME NEW W, Exit(c, t, W) PROVE CallTypes'
    <3>1. pinned' = [pinned EXCEPT ![t] = FALSE] /\ UNCHANGED callVars
      BY <2>4 DEF Exit
    <3> QED BY <1>1, <3>1 DEF CallTypes, callVars
  <2>5. ASSUME NEW s \in Tasks, Suspend(c, t, s) PROVE CallTypes'
    <3>1. CASE SuspendRemote(c, t, s)
      <4>1. PICK e : e = [tcb |-> s, by |-> t, restore |-> ~pinned[s], phase |-> "run"]
        OBVIOUS
      <4>2. e \in Calls
        BY <1>1, <4>1 DEF Calls, StopCalls, CallTypes
      <4>3. /\ pinned' = [pinned EXCEPT ![s] = TRUE]
            /\ queue' = CallAdd(queue, cpu[s], e)
            /\ stopping' = [stopping EXCEPT ![t] = "called"]
            /\ UNCHANGED <<torn, robin, inCall>>
        BY <3>1, <4>1 DEF SuspendRemote
      <4>4. queue' \in [CPUs -> Seq(Calls)]
        BY <1>1, <4>2, <4>3, CallAdded DEF CallTypes
      <4> QED BY <1>1, <4>3, <4>4 DEF CallTypes
    <3>2. CASE SuspendLocal(c, s)
      BY <1>2, <3>2 DEF SuspendLocal
    <3> QED BY <2>5, <3>1, <3>2 DEF Suspend
  <2> QED BY <2>1, <2>2, <2>3, <2>4, <2>5
<1>5. CASE Handler(c)
  <2>1. CASE TakeCall(c)
    <3>1. PICK e : e = Head(queue[c])
      OBVIOUS
    <3>2. PICK f : f = IF IsRobin(e) THEN [robin |-> robin] ELSE e
      OBVIOUS
    <3>3. /\ queue[c] # <<>>
          /\ queue' = [queue EXCEPT ![c] = Tail(queue[c])]
          /\ inCall' = [inCall EXCEPT ![c] = f]
          /\ torn' = [torn EXCEPT ![c] = torn[c] /\ ~IsRobin(e)]
          /\ robin' \in {robin, Null}
          /\ UNCHANGED <<pinned, stopping>>
      BY <2>1, <3>1, <3>2 DEF TakeCall
    <3>4. queue[c] \in Seq(Calls)
      BY <1>1 DEF CallTypes
    <3>5. e \in Calls /\ Tail(queue[c]) \in Seq(Calls)
      BY <3>1, <3>3, <3>4
    <3>6. f \in Calls
      <4>1. [robin |-> robin] \in Calls
        BY <1>1 DEF Calls, RobinCalls, CallTypes
      <4> QED BY <3>2, <3>5, <4>1
    <3>7. (torn[c] /\ ~IsRobin(e)) \in BOOLEAN
      OBVIOUS
    <3> QED BY <1>1, <3>3, <3>5, <3>6, <3>7 DEF CallTypes
  <2>2. CASE StopHandler(c)
    <3>1. PICK e : e = inCall[c]
      OBVIOUS
    <3>2. e \in StopCalls /\ e.tcb \in Tasks
      BY <1>1, <2>2, <3>1, StopCall DEF StopHandler, CallTypes, Calls
    <3>3. PICK f : f = [e EXCEPT !.phase = "post"]
      OBVIOUS
    <3>4. f \in Calls
      BY <3>2, <3>3 DEF Calls, StopCalls
    <3>5. /\ pinned' = pinned \/ pinned' = [pinned EXCEPT ![e.tcb] = pinned[e.tcb] /\ ~e.restore]
          /\ inCall' = [inCall EXCEPT ![c] = f]
          /\ UNCHANGED <<queue, torn, robin, stopping>>
      BY <2>2, <3>1, <3>3 DEF StopHandler
    <3>6. pinned' \in [Tasks -> BOOLEAN]
      BY <1>1, <3>2, <3>5 DEF CallTypes
    <3> QED BY <1>1, <3>4, <3>5, <3>6 DEF CallTypes
  <2>3. CASE PostCaller(c)
    <3>1. PICK u : u = inCall[c].by
      OBVIOUS
    <3>2. u \in Tasks
      BY <1>1, <2>3, <3>1, StopCall DEF PostCaller, CallTypes, Calls
    <3>3. /\ \E v \in {"no", "done"} : stopping' = [stopping EXCEPT ![u] = v]
          /\ inCall' = [inCall EXCEPT ![c] = Null]
          /\ UNCHANGED <<pinned, queue, torn, robin>>
      BY <2>3, <3>1 DEF PostCaller
    <3> QED BY <1>1, <3>2, <3>3 DEF CallTypes
  <2>4. CASE RobinHandler(c)
    BY <1>1, <2>4 DEF RobinHandler, CallTypes
  <2> QED BY <1>5, <2>1, <2>2, <2>3, <2>4 DEF Handler
<1>6. CASE RoundRobin(c)
  <2>1. CASE UNCHANGED <<pinned, callVars>>
    BY <1>2, <2>1
  <2>2. CASE /\ robin' = assigned[c]
             /\ torn' = [d \in CPUs |-> torn[d] \/ UpToRobin(queue[d]) # queue[d]]
             /\ queue' = CallAdd([d \in CPUs |-> UpToRobin(queue[d])], c, [robin |-> Null])
             /\ UNCHANGED <<schedVars, pinned, inCall, stopping>>
    <3>1. PICK q : q = [d \in CPUs |-> UpToRobin(queue[d])]
      OBVIOUS
    <3>2. q \in [CPUs -> Seq(Calls)]
      BY <1>1, <3>1, UpToRobinType DEF CallTypes
    <3>3. PICK e : e = [robin |-> Null]
      OBVIOUS
    <3>4. e \in Calls
      BY <3>3 DEF Calls, RobinCalls
    <3>5. queue' \in [CPUs -> Seq(Calls)]
      BY <2>2, <3>1, <3>2, <3>3, <3>4, CallAdded
    <3>6. robin' \in Tasks \cup {Null}
      BY <1>6, <2>2, SmpConstants DEF RoundRobin
    <3>7. torn' \in [CPUs -> BOOLEAN]
      BY <1>1, <2>2 DEF CallTypes
    <3> QED BY <1>1, <2>2, <3>5, <3>6, <3>7 DEF CallTypes
  <2> QED BY <1>6, <2>1, <2>2 DEF RoundRobin
<1>7. ASSUME NEW t \in Tasks, Wake(c, t) PROVE CallTypes'
  BY <1>2, <1>7 DEF Wake
<1>8. ASSUME NEW t \in Reprio, NEW p \in Prios, Reprioritize(c, t, p) PROVE CallTypes'
  BY <1>2, <1>8 DEF Reprioritize
<1>9. ASSUME NEW t \in Reprio, NEW m \in Masks, SetAffinity(c, t, m) PROVE CallTypes'
  BY <1>2, <1>9 DEF SetAffinity
<1>10. CASE ProcessDelivered(c)
  BY <1>2, <1>10 DEF ProcessDelivered
<1> QED BY <1>3, <1>4, <1>5, <1>6, <1>7, <1>8, <1>9, <1>10

-----------------------------------------------------------------------------
(* The invariants of the scheduler.                                        *)

LEMMA InitInv == Init => IInv
<1> SUFFICES ASSUME Init PROVE IInv
  OBVIOUS
<1>1. /\ ready = <<>> /\ assigned = [c \in CPUs |-> c] /\ deliver = [c \in CPUs |-> "none"]
      /\ state = [t \in Tasks |-> "inactive"] /\ cpu = [t \in Tasks |-> 0]
      /\ prio \in [Tcbs -> Prios \cup {0}] /\ mask = [t \in Tasks |-> CPUs]
      /\ lock = [x \in Tcbs |-> FALSE]
  BY DEF Init
<1>2. prio \in [Tcbs -> Nat]
  <2>1. Prios \cup {0} \subseteq Nat
    BY SmpConstants
  <2> QED BY <1>1, <2>1
<1>3. Now \in SchedState
  <2>1. assigned \in [CPUs -> Tcbs] /\ cpu \in [Tasks -> CPUs] /\ mask \in [Tasks -> Masks]
    BY <1>1, Kinds, SmpConstants
  <2> QED BY <1>1, <1>2, <2>1 DEF Now, SchedState
<1>4. Good(Now, Null)
  <2>1. ToSet(ready) = {} /\ NoDuplicates(ready) /\ IsPrioritized(ready, prio)
    BY <1>1 DEF ToSet, NoDuplicates, IsPrioritized
  <2> QED BY <1>1, <1>3, <2>1, NowFields, Kinds DEF Good
<1>5. queue \in [CPUs -> Seq(StopCalls \cup RobinCalls)]
  BY DEF Init
<1> QED BY <1>4, <1>5 DEF Init, IInv

(* The step leads to the state it is said to lead to.                      *)
LEMMA Arrives ==
    ASSUME NEW T \in SchedState, Becomes(T)
    PROVE  Now' = T
BY DEF Becomes, Now, SchedState

LEMMA NextInv ==
    ASSUME IInv, [Next]_vars
    PROVE  IInv'
<1>1. CASE Next
  <2>1. PICK T : Becomes(T) /\ Good(T, Null)
    BY <1>1, NextStep DEF SchedStep
  <2>2. Now' = T
    BY <2>1, Arrives DEF Good
  <2>3. Good(Now, Null)'
    BY <2>1, <2>2 DEF Good
  <2>4. CallTypes'
    BY <1>1, CallStep
  <2> QED BY <2>3, <2>4 DEF IInv, CallTypes, Calls
<1>2. CASE UNCHANGED vars
  <2>1. UNCHANGED schedVars /\ UNCHANGED callVars /\ pinned' = pinned
    BY <1>2 DEF vars
  <2>2. Now' = Now
    BY <2>1 DEF Now, schedVars
  <2>3. Good(Now, Null)'
    BY <2>2 DEF IInv, Good
  <2> QED BY <2>1, <2>3 DEF IInv, callVars
<1> QED BY <1>1, <1>2

(* The inductive invariant holds in every reachable state.                 *)
THEOREM SmpInductive == Spec => []IInv
<1>1. IInv /\ [Next]_vars => IInv'
  BY NextInv
<1> QED BY <1>1, InitInv, PTL DEF Spec

(* g_readytorun and g_assignedtasks agree with the task states and the     *)
(* CPUs in the TCBs, whatever CPUs ask of each other in which order.       *)
THEOREM ListsCorrect == Spec => []ListsConsistent
<1>1. IInv => ListsConsistent
  <2> SUFFICES ASSUME IInv PROVE ListsConsistent
    OBVIOUS
  <2>1. TypeOK
    BY NowState DEF IInv, TypeOK
  <2>2. /\ NoDuplicates(ready) /\ IsPrioritized(ready, prio)
        /\ \A t \in Tasks : t \in ToSet(ready) <=> state[t] = "ready"
        /\ \A t \in Tasks, c \in CPUs :
              assigned[c] = t <=> state[t] = "running" /\ cpu[t] = c
        /\ \A c, d \in CPUs : assigned[c] = d => c = d
    BY NowState, NowFields, Kinds DEF Good
  <2>3. ToSet(ready) \subseteq Tasks
    BY NowState, ToSetIndex
  <2>4. ToSet(ready) = {t \in Tasks : state[t] = "ready"}
    BY <2>2, <2>3
  <2> QED BY <2>1, <2>2, <2>4 DEF ListsConsistent
<1> QED BY <1>1, SmpInductive, PTL

(* No task that has disabled preemption is switched out, but for one that  *)
(* its own new affinity moves: neither by a request that another CPU left, *)
(* nor by the end of a time slice or by what nxtask_exit() wakes up.       *)
THEOREM LockCorrect == Spec => LockKeepsCpu
<1>1. IInv /\ [Next]_vars =>
        [\A t \in Tasks :
           state[t] = "running" /\ lock[t] /\ lock'[t] /\ state'[t] = "ready" =>
              cpu[t] \notin mask'[t]]_vars
  <2> SUFFICES ASSUME IInv, Next
               PROVE  \A t \in Tasks :
                        state[t] = "running" /\ lock[t] /\ lock'[t] /\ state'[t] = "ready" =>
                           cpu[t] \notin mask'[t]
    OBVIOUS
  <2>1. PICK T : Becomes(T) /\ Keeps(T)
    BY NextStep DEF SchedStep
  <2> QED BY <2>1 DEF Becomes, Keeps
<1> QED BY <1>1, SmpInductive, PTL DEF Spec, LockKeepsCpu

LEMMA CalmNext ==
    ASSUME IInv, Calm, [Next]_vars, ~StuckMoves
    PROVE  Calm'
<1>1. CASE Next
  <2>1. PICK T : Becomes(T) /\ Good(T, Null) /\ CalmAfter(T) /\ Pins(T)
    BY <1>1, NextStep DEF SchedStep
  <2>2. Now' = T
    BY <2>1, Arrives DEF Good
  <2>3. Placed(T, Null) /\ \A c \in CPUs : Settled(T, c)
    BY <2>1 DEF CalmAfter
  <2>4. \A c \in CPUs : Settled(Now, c)'
    BY <2>2, <2>3 DEF Settled
  <2>5. Placed(Now, Null)'
    <3> SUFFICES ASSUME NEW t \in Tasks,
                        t \in ToSet(T.ready) \/ T.state[t] = "running" \/ pinned'[t]
                 PROVE  T.cpu[t] \in T.mask[t]
      BY <2>2 DEF Placed
    <3>1. t \in ToSet(T.ready) \/ T.state[t] = "running" \/ pinned[t]
      BY <2>1, Kinds DEF Pins, Good
    <3> QED BY <2>3, <3>1, Kinds DEF Placed
  <2> QED BY <2>4, <2>5 DEF Calm
<1>2. CASE UNCHANGED vars
  <2>1. pinned' = pinned /\ Now' = Now
    BY <1>2 DEF vars, schedVars, Now
  <2> QED BY <2>1 DEF Calm, Placed, Settled
<1> QED BY <1>1, <1>2

(* No ready task is forgotten on a CPU that runs a lower one: the CPU has  *)
(* a request to serve or its task has disabled preemption, provided that   *)
(* no task is left on a CPU that its new affinity excludes.                *)
THEOREM NoneForgotten ==
    ASSUME StuckMoves = FALSE PROVE Spec => []NotForgotten
<1>1. Init => Calm
  <2> SUFFICES ASSUME Init PROVE Calm
    OBVIOUS
  <2>1. ToSet(ready) = {} /\ \A t \in Tasks : state[t] = "inactive" /\ ~pinned[t]
    BY DEF Init, ToSet
  <2> QED BY <2>1, NowFields DEF Calm, Placed, Settled
<1>2. IInv /\ Calm /\ [Next]_vars => Calm'
  BY CalmNext
<1>3. IInv /\ Calm => NotForgotten
  <2> SUFFICES ASSUME IInv, Calm, NEW t \in Tasks, state[t] = "ready", cpu[t] \in mask[t]
               PROVE  \/ deliver[cpu[t]] # "none"
                      \/ lock[assigned[cpu[t]]]
                      \/ prio[assigned[cpu[t]]] >= prio[t]
    BY DEF NotForgotten
  <2>1. t \in ToSet(ready) /\ cpu[t] \in CPUs
    BY NowState, NowFields, Kinds DEF Good
  <2>2. Settled(Now, cpu[t])
    BY <2>1 DEF Calm
  <2>3. \/ deliver[cpu[t]] # "none" \/ lock[assigned[cpu[t]]]
        \/ prio[t] <= prio[assigned[cpu[t]]]
    BY <2>1, <2>2, NowFields DEF Settled
  <2>4. prio[t] \in Nat /\ prio[assigned[cpu[t]]] \in Nat
    BY <2>1, NowState, Kinds
  <2> QED BY <2>3, <2>4
<1> QED BY <1>1, <1>2, <1>3, SmpInductive, PTL DEF Spec


-----------------------------------------------------------------------------
(* Calls that stop a task.  A call has a place: 0 if the CPU is handling   *)
(* it, or else its place in the queue of the CPU.                          *)

Places(q, c) == 0 .. Len(q[c])

CallAt(q, n, c, i) == IF i = 0 THEN n[c] ELSE q[c][i]

(* The call is to stop the task t; it has pinned it, and is still to       *)
(* stop it.                                                                *)
Asks(e, t) == IsStop(e) /\ e.tcb = t

Pending(e, t) == Asks(e, t) /\ e.phase = "run" /\ e.restore

(* No task is pinned by two calls: the second one finds it pinned.         *)
OneCall(q, n) ==
    \A c, d \in CPUs : \A i \in Places(q, c), j \in Places(q, d) : \A t \in Tasks :
        Pending(CallAt(q, n, c, i), t) /\ Pending(CallAt(q, n, d, j), t) =>
            c = d /\ i = j

(* A task that a call has pinned and is still to stop is pinned to the CPU *)
(* that was called, unless it has exited.                                  *)
Anchored ==
    \A c \in CPUs : \A i \in Places(queue, c) : \A t \in Tasks :
        Pending(CallAt(queue, inCall, c, i), t) =>
            (pinned[t] /\ cpu[t] = c) \/ state[t] = "inactive"

StopInv == OneCall(queue, inCall) /\ Anchored

(* The calls on c are the ones that have a place there.                    *)
LEMMA CallPlaces ==
    ASSUME IInv, NEW c \in CPUs, NEW e
    PROVE  e \in CallsOn(c) <=> e # Null /\ \E i \in Places(queue, c) : CallAt(queue, inCall, c, i) = e
<1>1. queue[c] \in Seq(Calls) /\ Len(queue[c]) \in Nat
  BY DEF IInv, Calls
<1>2. e \in ToSet(queue[c]) <=> \E i \in 1 .. Len(queue[c]) : queue[c][i] = e
  BY <1>1, ToSetIndex
<1>3. ASSUME NEW i \in Places(queue, c)
      PROVE  /\ i = 0 => CallAt(queue, inCall, c, i) = inCall[c]
             /\ i # 0 => i \in 1 .. Len(queue[c]) /\ CallAt(queue, inCall, c, i) = queue[c][i]
  BY <1>1 DEF Places, CallAt
<1>4. 0 \in Places(queue, c) /\ \A i \in 1 .. Len(queue[c]) : i \in Places(queue, c) /\ i # 0
  BY <1>1 DEF Places
<1>5. e \in CallsOn(c) <=> e # Null /\ (e \in ToSet(queue[c]) \/ e = inCall[c])
  BY DEF CallsOn
<1> QED BY <1>2, <1>3, <1>4, <1>5

LEMMA PlaceStops ==
    ASSUME IInv, NEW c \in CPUs, NEW i \in Places(queue, c), NEW t \in Tasks,
           Asks(CallAt(queue, inCall, c, i), t)
    PROVE  CallAt(queue, inCall, c, i) \in Stops(t)
<1>1. PICK e : e = CallAt(queue, inCall, c, i)
  OBVIOUS
<1>2. IsStop(e) /\ e.tcb = t /\ e # Null
  BY <1>1 DEF Asks, IsStop
<1>3. e \in CallsOn(c)
  BY <1>1, <1>2, CallPlaces
<1> QED BY <1>1, <1>2, <1>3 DEF Stops

-----------------------------------------------------------------------------
(* The calls move: the one at place i of the CPU d was at place i + by[d]. *)
Shifted(q, n, r, m, by) ==
    \A d \in CPUs : \A i \in Places(r, d) : \A t \in Tasks :
        Pending(CallAt(r, m, d, i), t) =>
            i + by[d] \in Places(q, d) /\ Pending(CallAt(q, n, d, i + by[d]), t)

LEMMA ShiftedOne ==
    ASSUME NEW q, NEW n, NEW r, NEW m, NEW by \in [CPUs -> Nat],
           Shifted(q, n, r, m, by), OneCall(q, n)
    PROVE  OneCall(r, m)
<1> SUFFICES ASSUME NEW c \in CPUs, NEW d \in CPUs, NEW i \in Places(r, c),
                    NEW j \in Places(r, d), NEW t \in Tasks,
                    Pending(CallAt(r, m, c, i), t), Pending(CallAt(r, m, d, j), t)
             PROVE  c = d /\ i = j
  BY DEF OneCall
<1>1. i + by[c] \in Places(q, c) /\ Pending(CallAt(q, n, c, i + by[c]), t)
  BY DEF Shifted
<1>2. j + by[d] \in Places(q, d) /\ Pending(CallAt(q, n, d, j + by[d]), t)
  BY DEF Shifted
<1>3. c = d /\ i + by[c] = j + by[d]
  BY <1>1, <1>2 DEF OneCall
<1>4. i \in Int /\ j \in Int /\ by[c] \in Nat
  BY DEF Places
<1> QED BY <1>3, <1>4

(* The task of a call that is under way stays where it is, or exits.       *)
LEMMA StaysCalled ==
    ASSUME IInv, Anchored, SchedStep, NEW d \in CPUs, NEW j \in Places(queue, d),
           NEW t \in Tasks, Pending(CallAt(queue, inCall, d, j), t),
           pinned[t] => pinned'[t] \/ state'[t] = "inactive"
    PROVE  (pinned'[t] /\ cpu'[t] = d) \/ state'[t] = "inactive"
<1>1. PICK T : Becomes(T) /\ Stays(T)
  BY DEF SchedStep
<1>2. cpu' = T.cpu /\ state' = T.state
  BY <1>1 DEF Becomes
<1>3. Asks(CallAt(queue, inCall, d, j), t)
  BY DEF Pending
<1>4. (pinned[t] /\ cpu[t] = d) \/ state[t] = "inactive"
  BY DEF Anchored
<1>5. CASE pinned[t] /\ cpu[t] = d
  <2>1. T.cpu[t] = d
    BY <1>1, <1>5 DEF Stays
  <2> QED BY <1>2, <1>5, <2>1
<1>6. CASE state[t] = "inactive"
  <2>1. Stops(t) # {}
    BY <1>3, PlaceStops
  <2>2. T.state[t] = "inactive"
    BY <1>1, <1>6, <2>1 DEF Stays
  <2> QED BY <1>2, <2>2
<1> QED BY <1>4, <1>5, <1>6

LEMMA ShiftedAnchored ==
    ASSUME IInv, Anchored, SchedStep, NEW by \in [CPUs -> Nat],
           Shifted(queue, inCall, queue', inCall', by),
           \A d \in CPUs : \A i \in Places(queue', d) : \A t \in Tasks :
              Pending(CallAt(queue', inCall', d, i), t) /\ pinned[t] =>
                 pinned'[t] \/ state'[t] = "inactive"
    PROVE  Anchored'
<1> SUFFICES ASSUME NEW d \in CPUs, NEW i \in Places(queue', d), NEW t \in Tasks,
                    Pending(CallAt(queue', inCall', d, i), t)
             PROVE  (pinned'[t] /\ cpu'[t] = d) \/ state'[t] = "inactive"
  BY DEF Anchored
<1>1. PICK j : j = i + by[d]
  OBVIOUS
<1>2. j \in Places(queue, d) /\ Pending(CallAt(queue, inCall, d, j), t)
  BY <1>1 DEF Shifted
<1>3. pinned[t] => pinned'[t] \/ state'[t] = "inactive"
  OBVIOUS
<1> QED BY <1>2, <1>3, StaysCalled

LEMMA ShiftedInv ==
    ASSUME IInv, StopInv, SchedStep, NEW by \in [CPUs -> Nat],
           Shifted(queue, inCall, queue', inCall', by),
           \A d \in CPUs : \A i \in Places(queue', d) : \A t \in Tasks :
              Pending(CallAt(queue', inCall', d, i), t) /\ pinned[t] =>
                 pinned'[t] \/ state'[t] = "inactive"
    PROVE  StopInv'
<1>1. OneCall(queue, inCall) /\ Anchored
  BY DEF StopInv
<1>2. OneCall(queue', inCall')
  BY <1>1, ShiftedOne
<1>3. Anchored'
  BY <1>1, ShiftedAnchored
<1> QED BY <1>2, <1>3 DEF StopInv, OneCall

(* The calls stay where they are, but some may be dropped.                 *)
Still == [d \in CPUs |-> 0]

LEMMA StillPlaces ==
    ASSUME NEW q, NEW n, NEW r, NEW m,
           \A d \in CPUs : \A i \in Places(r, d) : \A t \in Tasks :
              Pending(CallAt(r, m, d, i), t) =>
                 i \in Places(q, d) /\ Pending(CallAt(q, n, d, i), t)
    PROVE  Still \in [CPUs -> Nat] /\ Shifted(q, n, r, m, Still)
<1>1. \A d \in CPUs : Still[d] = 0
  BY DEF Still
<1>2. Still \in [CPUs -> Nat]
  BY DEF Still
<1>3. ASSUME NEW d \in CPUs, NEW i \in Places(r, d) PROVE i + Still[d] = i
  <2>1. i \in Int
    BY DEF Places
  <2> QED BY <1>1, <2>1
<1>4. Shifted(q, n, r, m, Still)
  BY <1>3 DEF Shifted
<1> QED BY <1>2, <1>4

(* A step that leaves the calls alone and unpins nobody who does not exit. *)
LEMMA CallsStay ==
    ASSUME IInv, StopInv, SchedStep, queue' = queue, inCall' = inCall,
           \A t \in Tasks : pinned[t] => pinned'[t] \/ state'[t] = "inactive"
    PROVE  StopInv'
<1>1. Still \in [CPUs -> Nat] /\ Shifted(queue, inCall, queue', inCall', Still)
  BY StillPlaces
<1> QED BY <1>1, ShiftedInv

(* A CPU that switches takes no task away from another one.                *)
LEMMA SwitchCpu ==
    ASSUME NEW S, NEW out, Good(S, out), NEW c \in CPUs, NEW equal,
           NEW u \in Tasks, S.state[u] = "running"
    PROVE  SwitchRunning(S, c, equal).cpu[u] = S.cpu[u]
<1>1. PICK T : T = SwitchRunning(S, c, equal)
  OBVIOUS
<1>2. T = S \/ \E b \in ToSet(S.ready) : SwitchedTo(S, T, c, b)
  BY <1>1, SwitchCases
<1>3. CASE T = S
  BY <1>1, <1>3
<1>4. ASSUME NEW b \in ToSet(S.ready), SwitchedTo(S, T, c, b) PROVE T.cpu[u] = S.cpu[u]
  <2>1. u # b
    BY DEF Good
  <2>2. S.cpu \in [Tasks -> CPUs]
    BY Fields DEF Good
  <2> QED BY <1>4, <2>1, <2>2 DEF SwitchedTo
<1> QED BY <1>1, <1>2, <1>3, <1>4

LEMMA UnlockCpu ==
    ASSUME IInv, NEW me \in CPUs, NEW t \in Tasks, NEW u \in Tasks, state[u] = "running"
    PROVE  UnlockTask(Now, me, t).cpu[u] = cpu[u]
<1>1. PICK C : C = [Now EXCEPT !.lock[t] = FALSE]
  OBVIOUS
<1>2. Now \in SchedState /\ Good(Now, Null) /\ t \in Tcbs
  BY NowState, Kinds
<1>3. WithLock(Now, C, t, FALSE)
  BY <1>1, <1>2, LockFields
<1>4. C.state[u] = "running" /\ C.cpu[u] = cpu[u]
  BY <1>3, NowFields DEF WithLock
<1>5. Good(C, Null)
  BY <1>2, <1>3, Relocked
<1>6. UnlockTask(Now, me, t) = C \/ UnlockTask(Now, me, t) = DeliverTask(C, me, me, "higher")
  BY <1>1 DEF UnlockTask
<1>7. DeliverTask(C, me, me, "higher") = C \/
      \E equal : DeliverTask(C, me, me, "higher") = SwitchRunning(C, me, equal)
  BY DEF DeliverTask
<1>8. \A equal : SwitchRunning(C, me, equal).cpu[u] = C.cpu[u]
  BY <1>4, <1>5, SwitchCpu
<1> QED BY <1>4, <1>6, <1>7, <1>8

-----------------------------------------------------------------------------
(* The steps that change the calls.                                        *)

LEMMA ShiftedSame ==
    ASSUME NEW q, NEW n, NEW r, NEW m, NEW by,
           \A d \in CPUs : \A i \in Places(r, d) :
              \/ ~IsStop(CallAt(r, m, d, i))
              \/ i + by[d] \in Places(q, d) /\ CallAt(r, m, d, i) = CallAt(q, n, d, i + by[d])
    PROVE  Shifted(q, n, r, m, by)
BY DEF Shifted, Asks, Pending

LEMMA RobinNotStop ==
    ASSUME NEW x
    PROVE  ~IsStop([robin |-> x])
<1>1. DOMAIN [robin |-> x] = {"robin"}
  OBVIOUS
<1> QED BY <1>1 DEF IsStop

(* A call becomes the one that is handled, and the others move up.         *)
LEMMA TakenCall ==
    ASSUME IInv, StopInv, NEW c \in CPUs, TakeCall(c)
    PROVE  StopInv'
<1>1. PICK e : e = Head(queue[c])
  OBVIOUS
<1>2. PICK f : f = IF IsRobin(e) THEN [robin |-> robin] ELSE e
  OBVIOUS
<1>3. PICK by : by = [d \in CPUs |-> IF d = c THEN 1 ELSE 0]
  OBVIOUS
<1>4. /\ queue[c] # <<>> /\ queue' = [queue EXCEPT ![c] = Tail(queue[c])]
      /\ inCall' = [inCall EXCEPT ![c] = f] /\ pinned' = pinned
  BY <1>1, <1>2 DEF TakeCall
<1>5. SchedStep
  BY HandlerStep DEF Handler
<1>6. queue \in [CPUs -> Seq(Calls)] /\ inCall \in [CPUs -> Calls \cup {Null}]
  BY DEF IInv, Calls
<1>7. by \in [CPUs -> Nat] /\ by[c] = 1 /\ \A d \in CPUs \ {c} : by[d] = 0
  BY <1>3
<1>8. ASSUME NEW d \in CPUs, NEW i \in Places(queue', d)
      PROVE  \/ ~IsStop(CallAt(queue', inCall', d, i))
             \/ /\ i + by[d] \in Places(queue, d)
                /\ CallAt(queue', inCall', d, i) = CallAt(queue, inCall, d, i + by[d])
  <2>1. i \in Int /\ 0 <= i /\ i <= Len(queue'[d])
    BY DEF Places
  <2>2. CASE d # c
    <3>1. queue'[d] = queue[d] /\ inCall'[d] = inCall[d] /\ i + by[d] = i
      BY <1>4, <1>6, <1>7, <2>1, <2>2
    <3> QED BY <3>1 DEF Places, CallAt
  <2>3. CASE d = c
    <3>1. PICK s : s = queue[c]
      OBVIOUS
    <3>2. s \in Seq(Calls) /\ s # <<>> /\ Head(s) = e
      BY <1>1, <1>4, <1>6, <3>1
    <3>3. queue'[d] = Tail(s) /\ inCall'[d] = f /\ i + by[d] = i + 1
      BY <1>4, <1>6, <1>7, <2>1, <2>3, <3>1
    <3>4. Len(s) \in Nat /\ Len(Tail(s)) = Len(s) - 1 /\ e = s[1] /\ Len(s) >= 1
      BY <3>2
    <3>5. i + 1 \in Places(queue, d) /\ i + 1 # 0
      BY <2>1, <2>3, <3>1, <3>3, <3>4 DEF Places
    <3>6. CallAt(queue, inCall, d, i + 1) = s[i + 1]
      BY <2>3, <3>1, <3>5 DEF CallAt
    <3>7. CASE i = 0
      <4>1. CallAt(queue', inCall', d, i) = f
        BY <3>3, <3>7 DEF CallAt
      <4>2. ~IsStop(f) \/ f = s[i + 1]
        BY <1>2, <3>4, <3>7, RobinNotStop
      <4> QED BY <3>3, <3>5, <3>6, <4>1, <4>2
    <3>8. CASE i # 0
      <4>1. CallAt(queue', inCall', d, i) = Tail(s)[i]
        BY <3>3, <3>8 DEF CallAt
      <4>2. i \in 1 .. Len(s) - 1
        BY <2>1, <3>3, <3>4, <3>8
      <4>3. Tail(s)[i] = s[i + 1]
        BY <3>2, <4>2
      <4> QED BY <3>3, <3>5, <3>6, <4>1, <4>3
    <3> QED BY <3>7, <3>8
  <2> QED BY <2>2, <2>3
<1>9. Shifted(queue, inCall, queue', inCall', by)
  BY <1>8, ShiftedSame
<1> QED BY <1>4, <1>5, <1>7, <1>9, ShiftedInv

(* A call is done with.                                                    *)
LEMMA DroppedCall ==
    ASSUME IInv, StopInv, SchedStep, NEW c \in CPUs, queue' = queue, pinned' = pinned,
           inCall' = [inCall EXCEPT ![c] = Null]
    PROVE  StopInv'
<1>1. inCall \in [CPUs -> Calls \cup {Null}]
  BY DEF IInv, Calls
<1>2. ASSUME NEW d \in CPUs, NEW i \in Places(queue', d)
      PROVE  \/ ~IsStop(CallAt(queue', inCall', d, i))
             \/ CallAt(queue', inCall', d, i) = CallAt(queue, inCall, d, i)
  <2>1. CASE i = 0 /\ d = c
    <3>1. CallAt(queue', inCall', d, i) = Null
      BY <1>1, <2>1 DEF CallAt
    <3> QED BY <3>1 DEF IsStop
  <2>2. CASE i # 0 \/ d # c
    BY <1>1, <2>2 DEF CallAt
  <2> QED BY <2>1, <2>2
<1>3. \A d \in CPUs : Places(queue', d) = Places(queue, d)
  BY DEF Places
<1>4. Still \in [CPUs -> Nat] /\ Shifted(queue, inCall, queue', inCall', Still)
  <2>1. \A d \in CPUs : \A i \in Places(queue', d) : \A t \in Tasks :
           Pending(CallAt(queue', inCall', d, i), t) =>
              i \in Places(queue, d) /\ Pending(CallAt(queue, inCall, d, i), t)
    BY <1>2, <1>3 DEF Asks, Pending
  <2> QED BY <2>1, StillPlaces
<1> QED BY <1>4, ShiftedInv

(* The handler of the call that pinned the task unpins it: no other call   *)
(* still to be handled has pinned it.                                      *)
LEMMA HandledCall ==
    ASSUME IInv, StopInv, NEW c \in CPUs, StopHandler(c)
    PROVE  StopInv'
<1>1. PICK e : e = inCall[c]
  OBVIOUS
<1>2. PICK f : f = [e EXCEPT !.phase = "post"]
  OBVIOUS
<1>3. SchedStep
  BY HandlerStep DEF Handler
<1>4. inCall \in [CPUs -> Calls \cup {Null}] /\ pinned \in [Tasks -> BOOLEAN]
  BY DEF IInv, Calls
<1>5. IsStop(e) /\ e \in StopCalls /\ e.tcb \in Tasks
  BY <1>1, <1>4, StopCall DEF StopHandler, Calls
<1>6. /\ pinned' = pinned \/ pinned' = [pinned EXCEPT ![e.tcb] = pinned[e.tcb] /\ ~e.restore]
      /\ inCall' = [inCall EXCEPT ![c] = f] /\ queue' = queue
  BY <1>1, <1>2 DEF StopHandler
<1>7. f.tcb = e.tcb /\ f.phase = "post"
  BY <1>2, <1>5 DEF StopCalls
<1>8. ASSUME NEW d \in CPUs, NEW i \in Places(queue', d)
      PROVE  /\ d # c \/ i # 0 => CallAt(queue', inCall', d, i) = CallAt(queue, inCall, d, i)
             /\ d = c /\ i = 0 => /\ CallAt(queue', inCall', d, i) = f
                                  /\ CallAt(queue, inCall, d, i) = e
  BY <1>1, <1>4, <1>6 DEF CallAt
<1>9. ASSUME NEW t \in Tasks PROVE ~Pending(f, t)
  BY <1>7 DEF Pending
<1>10. \A d \in CPUs : Places(queue', d) = Places(queue, d)
  BY <1>6 DEF Places
<1>11. Still \in [CPUs -> Nat] /\ Shifted(queue, inCall, queue', inCall', Still)
  <2>1. \A d \in CPUs : \A i \in Places(queue', d) : \A t \in Tasks :
           Pending(CallAt(queue', inCall', d, i), t) =>
              i \in Places(queue, d) /\ Pending(CallAt(queue, inCall, d, i), t)
    BY <1>8, <1>9, <1>10
  <2> QED BY <2>1, StillPlaces
<1>12. ASSUME NEW d \in CPUs, NEW i \in Places(queue', d), NEW t \in Tasks,
              Pending(CallAt(queue', inCall', d, i), t), pinned[t]
       PROVE  pinned'[t]
  <2>1. d # c \/ i # 0
    BY <1>8, <1>9, <1>12
  <2>2. Pending(CallAt(queue, inCall, d, i), t) /\ i \in Places(queue, d)
    BY <1>8, <1>10, <1>12, <2>1
  <2>3. ASSUME t = e.tcb, e.restore PROVE FALSE
    <3>1. 0 \in Places(queue, c)
      BY DEF Places, IInv
    <3>2. CallAt(queue, inCall, c, 0) = e /\ e.phase = "run"
      BY <1>1 DEF CallAt, StopHandler
    <3>3. Pending(CallAt(queue, inCall, c, 0), t)
      BY <1>5, <2>3, <3>2 DEF Asks, Pending
    <3>4. OneCall(queue, inCall)
      BY DEF StopInv
    <3>5. d = c /\ i = 0
      BY <2>2, <3>1, <3>3, <3>4 DEF OneCall
    <3> QED BY <2>1, <3>5
  <2>4. CASE t # e.tcb
    BY <1>4, <1>6, <1>12, <2>4
  <2>5. CASE ~e.restore
    BY <1>4, <1>5, <1>6, <1>12, <2>5
  <2> QED BY <2>3, <2>4, <2>5
<1> QED BY <1>3, <1>11, <1>12, ShiftedInv

(* The places after nxsched_smp_call_add(): the old ones, or the last one. *)
AddedAt(q, n, c, e, r, d, i) ==
    \/ i \in Places(q, d) /\ CallAt(r, n, d, i) = CallAt(q, n, d, i)
    \/ d = c /\ i = Len(q[c]) + 1 /\ CallAt(r, n, d, i) = e

LEMMA AddedPlaces ==
    ASSUME NEW q \in [CPUs -> Seq(Calls)], NEW n, NEW c \in CPUs, NEW e \in Calls,
           NEW r, r = CallAdd(q, c, e), NEW d \in CPUs, NEW i \in Places(r, d)
    PROVE  AddedAt(q, n, c, e, r, d, i)
<1> SUFFICES \/ i \in Places(q, d) /\ CallAt(r, n, d, i) = CallAt(q, n, d, i)
             \/ d = c /\ i = Len(q[c]) + 1 /\ CallAt(r, n, d, i) = e
  BY DEF AddedAt
<1>1. CASE r[d] = q[d]
  BY <1>1 DEF Places, CallAt
<1>2. CASE r[d] # q[d]
  <2>1. r = [q EXCEPT ![c] = Append(q[c], e)]
    BY <1>2 DEF CallAdd
  <2>2. d = c /\ r[d] = Append(q[c], e)
    BY <1>2, <2>1
  <2>3. PICK s : s = q[c]
    OBVIOUS
  <2>4. s \in Seq(Calls) /\ Len(s) \in Nat /\ Len(Append(s, e)) = Len(s) + 1
    BY <2>3
  <2>5. i \in 0 .. Len(s) + 1
    BY <2>2, <2>3, <2>4 DEF Places
  <2>6. CASE i = Len(s) + 1
    <3>1. Append(s, e)[i] = e /\ i # 0
      BY <2>4, <2>6
    <3>2. CallAt(r, n, d, i) = e
      BY <2>2, <2>3, <3>1 DEF CallAt
    <3> QED BY <2>2, <2>3, <2>6, <3>2
  <2>7. CASE i # Len(s) + 1
    <3>1. i \in 0 .. Len(s)
      BY <2>4, <2>5, <2>7
    <3>2. i # 0 => Append(s, e)[i] = s[i]
      BY <2>4, <3>1
    <3> QED BY <2>2, <2>3, <3>1, <3>2 DEF Places, CallAt
  <2> QED BY <2>6, <2>7
<1> QED BY <1>1, <1>2

(* What is left of a queue is its beginning.                               *)
LEMMA UpToRobinPrefix ==
    ASSUME NEW q \in Seq(Calls)
    PROVE  /\ UpToRobin(q) \in Seq(Calls) /\ Len(UpToRobin(q)) <= Len(q)
           /\ \A i \in 1 .. Len(UpToRobin(q)) : UpToRobin(q)[i] = q[i]
<1>1. CASE \E i \in 1 .. Len(q) : IsRobin(q[i])
  <2>1. PICK k : k = CHOOSE j \in 1 .. Len(q) : IsRobin(q[j])
    OBVIOUS
  <2>2. k \in 1 .. Len(q)
    BY <1>1, <2>1
  <2>3. UpToRobin(q) = SubSeq(q, 1, k)
    BY <1>1, <2>1 DEF UpToRobin
  <2>4. /\ SubSeq(q, 1, k) \in Seq(Calls) /\ Len(SubSeq(q, 1, k)) = k
        /\ \A i \in 1 .. k : SubSeq(q, 1, k)[i] = q[i]
    BY <2>2
  <2> QED BY <2>2, <2>3, <2>4
<1>2. CASE ~\E i \in 1 .. Len(q) : IsRobin(q[i])
  BY <1>2 DEF UpToRobin
<1> QED BY <1>1, <1>2

(* The call to rotate tasks drops calls, and stops nobody.                 *)
LEMMA RotatedCalls ==
    ASSUME IInv, StopInv, SchedStep, NEW c \in CPUs, NEW q,
           q = [d \in CPUs |-> UpToRobin(queue[d])],
           queue' = CallAdd(q, c, [robin |-> Null]), inCall' = inCall, pinned' = pinned
    PROVE  StopInv'
<1>1. queue \in [CPUs -> Seq(Calls)]
  BY DEF IInv, Calls
<1>2. PICK e : e = [robin |-> Null]
  OBVIOUS
<1>3. e \in Calls /\ ~IsStop(e)
  BY <1>2, RobinNotStop DEF Calls, RobinCalls
<1>4. q \in [CPUs -> Seq(Calls)]
  BY <1>1, UpToRobinType
<1>5. ASSUME NEW d \in CPUs, NEW i \in Places(q, d)
      PROVE  i \in Places(queue, d) /\ CallAt(q, inCall, d, i) = CallAt(queue, inCall, d, i)
  <2>1. PICK s : s = queue[d]
    OBVIOUS
  <2>2. PICK p : p = UpToRobin(s)
    OBVIOUS
  <2>3. s \in Seq(Calls) /\ q[d] = p
    BY <1>1, <2>1, <2>2
  <2>4. p \in Seq(Calls) /\ Len(p) <= Len(s) /\ \A j \in 1 .. Len(p) : p[j] = s[j]
    BY <2>2, <2>3, UpToRobinPrefix
  <2>5. Len(p) \in Nat /\ Len(s) \in Nat
    BY <2>3, <2>4
  <2>6. i \in 0 .. Len(p) /\ i \in 0 .. Len(s)
    BY <2>3, <2>4, <2>5 DEF Places
  <2>7. i # 0 => p[i] = s[i]
    BY <2>4, <2>5, <2>6
  <2> QED BY <2>1, <2>3, <2>6, <2>7 DEF Places, CallAt
<1>6. ASSUME NEW d \in CPUs, NEW i \in Places(queue', d)
      PROVE  \/ ~IsStop(CallAt(queue', inCall', d, i))
             \/ /\ i \in Places(queue, d)
                /\ CallAt(queue', inCall', d, i) = CallAt(queue, inCall, d, i)
  <2>1. \/ i \in Places(q, d) /\ CallAt(queue', inCall, d, i) = CallAt(q, inCall, d, i)
        \/ CallAt(queue', inCall, d, i) = e
    BY <1>2, <1>3, <1>4, AddedPlaces DEF AddedAt
  <2> QED BY <1>3, <1>5, <2>1
<1>7. Still \in [CPUs -> Nat] /\ Shifted(queue, inCall, queue', inCall', Still)
  <2>1. \A d \in CPUs : \A i \in Places(queue', d) : \A t \in Tasks :
           Pending(CallAt(queue', inCall', d, i), t) =>
              i \in Places(queue, d) /\ Pending(CallAt(queue, inCall, d, i), t)
    BY <1>6 DEF Asks, Pending
  <2> QED BY <2>1, StillPlaces
<1> QED BY <1>7, ShiftedInv

(* A task that is called to be stopped is pinned to the CPU it runs on;    *)
(* if a call had pinned it already, this one is not to unpin it.           *)
LEMMA SuspendedCall ==
    ASSUME IInv, StopInv, NEW me \in CPUs, NEW u \in Tasks, NEW t \in Tasks,
           Suspend(me, u, t), SuspendRemote(me, u, t)
    PROVE  StopInv'
<1>1. PICK e : e = [tcb |-> t, by |-> u, restore |-> ~pinned[t], phase |-> "run"]
  OBVIOUS
<1>2. PICK b : b = cpu[t]
  OBVIOUS
<1>3. /\ queue' = CallAdd(queue, b, e) /\ inCall' = inCall /\ state[t] = "running"
      /\ pinned' = [pinned EXCEPT ![t] = TRUE]
      /\ Becomes(IF lock[u] THEN Now ELSE UnlockTask(Now, me, u))
  BY <1>1, <1>2 DEF SuspendRemote
<1>4. SchedStep
  BY SuspendStep
<1>5. /\ queue \in [CPUs -> Seq(Calls)] /\ pinned \in [Tasks -> BOOLEAN]
      /\ cpu \in [Tasks -> CPUs] /\ b \in CPUs
  BY <1>2, NowState DEF IInv, Calls
<1>6. e \in Calls /\ \A v \in Tasks : Asks(e, v) => v = t
  BY <1>1, <1>5 DEF Calls, StopCalls, Asks
<1>7. OneCall(queue, inCall) /\ Anchored
  BY DEF StopInv
<1>8. ASSUME NEW d \in CPUs, NEW i \in Places(queue, d)
      PROVE  ~(Pending(CallAt(queue, inCall, d, i), t) /\ Pending(e, t))
  <2>1. Pending(e, t) => ~pinned[t]
    BY <1>1 DEF Pending
  <2>2. Pending(CallAt(queue, inCall, d, i), t) => pinned[t]
    BY <1>3, <1>7 DEF Anchored
  <2> QED BY <2>1, <2>2
<1>9. ASSUME NEW d \in CPUs, NEW i \in Places(queue', d)
      PROVE  \/ /\ i \in Places(queue, d)
                /\ CallAt(queue', inCall', d, i) = CallAt(queue, inCall, d, i)
             \/ d = b /\ i = Len(queue[b]) + 1 /\ CallAt(queue', inCall', d, i) = e
  <2>1. AddedAt(queue, inCall, b, e, queue', d, i)
    BY <1>3, <1>5, <1>6, AddedPlaces
  <2>2. inCall' = inCall
    BY <1>3
  <2> QED BY <2>1, <2>2 DEF AddedAt
<1>10. OneCall(queue', inCall')
  <2> SUFFICES ASSUME NEW c \in CPUs, NEW d \in CPUs, NEW i \in Places(queue', c),
                      NEW j \in Places(queue', d), NEW v \in Tasks,
                      Pending(CallAt(queue', inCall', c, i), v),
                      Pending(CallAt(queue', inCall', d, j), v)
               PROVE  c = d /\ i = j
    BY DEF OneCall
  <2>1. Pending(e, v) => v = t
    BY <1>6 DEF Pending
  <2>2. CASE /\ i \in Places(queue, c)
             /\ CallAt(queue', inCall', c, i) = CallAt(queue, inCall, c, i)
    <3>1. CASE /\ j \in Places(queue, d)
               /\ CallAt(queue', inCall', d, j) = CallAt(queue, inCall, d, j)
      BY <1>7, <2>2, <3>1 DEF OneCall
    <3>2. CASE CallAt(queue', inCall', d, j) = e
      BY <1>8, <2>1, <2>2, <3>2
    <3> QED BY <1>9, <3>1, <3>2
  <2>3. CASE c = b /\ i = Len(queue[b]) + 1 /\ CallAt(queue', inCall', c, i) = e
    <3>1. CASE /\ j \in Places(queue, d)
               /\ CallAt(queue', inCall', d, j) = CallAt(queue, inCall, d, j)
      BY <1>8, <2>1, <2>3, <3>1
    <3>2. CASE d = b /\ j = Len(queue[b]) + 1
      BY <2>3, <3>2
    <3> QED BY <1>9, <3>1, <3>2
  <2> QED BY <1>9, <2>2, <2>3
<1>11. Anchored'
  <2> SUFFICES ASSUME NEW d \in CPUs, NEW i \in Places(queue', d), NEW v \in Tasks,
                      Pending(CallAt(queue', inCall', d, i), v)
               PROVE  (pinned'[v] /\ cpu'[v] = d) \/ state'[v] = "inactive"
    BY DEF Anchored
  <2>1. pinned'[t] /\ \A x \in Tasks : pinned[x] => pinned'[x]
    BY <1>3, <1>5
  <2>2. CASE i \in Places(queue, d) /\ CallAt(queue', inCall', d, i) = CallAt(queue, inCall, d, i)
    BY <1>4, <1>7, <2>1, <2>2, StaysCalled
  <2>3. CASE d = b /\ CallAt(queue', inCall', d, i) = e
    <3>1. v = t
      BY <1>6, <2>3 DEF Pending
    <3>2. cpu'[t] = cpu[t]
      <4>1. cpu' = cpu \/ cpu' = UnlockTask(Now, me, u).cpu
        BY <1>3, NowFields DEF Becomes
      <4> QED BY <1>3, <4>1, UnlockCpu
    <3> QED BY <1>2, <2>1, <2>3, <3>1, <3>2
  <2> QED BY <1>9, <2>2, <2>3
<1> QED BY <1>10, <1>11 DEF StopInv, OneCall

LEMMA StopNext ==
    ASSUME IInv, StopInv, [Next]_vars
    PROVE  StopInv'
<1>1. CASE UNCHANGED vars
  <2>1. /\ queue' = queue /\ inCall' = inCall /\ pinned' = pinned
        /\ UNCHANGED schedVars
    BY <1>1 DEF vars, callVars
  <2>2. SchedStep
    BY <2>1, StaysPut
  <2> QED BY <2>1, <2>2, CallsStay
<1> SUFFICES ASSUME Next PROVE StopInv'
  BY <1>1
<1>2. SchedStep
  BY NextStep
<1>3. ASSUME queue' = queue, inCall' = inCall, pinned' = pinned PROVE StopInv'
  BY <1>2, <1>3, CallsStay
<1>4. ASSUME UNCHANGED <<pinned, callVars>> PROVE StopInv'
  BY <1>3, <1>4 DEF callVars
<1>5. PICK c \in CPUs :
        \/ TaskStep(c)
        \/ \E t \in Tasks : Wake(c, t)
        \/ \E t \in Reprio :
              \/ \E p \in Prios : Reprioritize(c, t, p)
              \/ \E m \in Masks : SetAffinity(c, t, m)
        \/ ProcessDelivered(c)
        \/ Handler(c)
        \/ RoundRobin(c)
  BY DEF Next
<1>6. CASE TaskStep(c)
  <2>1. PICK t \in Tasks :
          \/ Block(c, t) \/ Lock(c, t) \/ Unlock(c, t)
          \/ CallWait(c, t)
          \/ \E W \in {{}} \cup {{w} : w \in Tasks \ {t}} :
                /\ \A w \in W : state[w] = "blocked" /\ stopping[w] = "no"
                /\ Exit(c, t, W)
          \/ \E s \in Tasks : Suspend(c, t, s)
    BY <1>6 DEF TaskStep
  <2>2. CASE Block(c, t) \/ Lock(c, t) \/ Unlock(c, t)
    BY <1>4, <2>2 DEF Block, Lock, Unlock
  <2>3. CASE CallWait(c, t)
    BY <1>3, <2>3 DEF CallWait
  <2>4. ASSUME NEW W \in {{}} \cup {{w} : w \in Tasks \ {t}},
               \A w \in W : state[w] = "blocked" /\ stopping[w] = "no", Exit(c, t, W)
        PROVE  StopInv'
    <3>1. W = {} \/ \E w \in Tasks \ {t} : W = {w} /\ state[w] = "blocked"
      BY <2>4
    <3>2. state'[t] = "inactive"
      BY <2>4, <3>1, ExitStep
    <3>3. /\ pinned' = [pinned EXCEPT ![t] = FALSE] /\ queue' = queue /\ inCall' = inCall
          /\ pinned \in [Tasks -> BOOLEAN]
      BY <2>4 DEF Exit, callVars, IInv
    <3>4. \A v \in Tasks : pinned[v] => pinned'[v] \/ state'[v] = "inactive"
      BY <3>2, <3>3
    <3> QED BY <1>2, <3>3, <3>4, CallsStay
  <2>5. ASSUME NEW s \in Tasks, Suspend(c, t, s) PROVE StopInv'
    <3>1. CASE SuspendRemote(c, t, s)
      BY <2>5, <3>1, SuspendedCall
    <3>2. CASE SuspendLocal(c, s)
      BY <1>4, <3>2 DEF SuspendLocal
    <3> QED BY <2>5, <3>1, <3>2 DEF Suspend
  <2> QED BY <2>1, <2>2, <2>3, <2>4, <2>5
<1>7. CASE Handler(c)
  <2>1. CASE TakeCall(c)
    BY <2>1, TakenCall
  <2>2. CASE StopHandler(c)
    BY <2>2, HandledCall
  <2>3. CASE PostCaller(c)
    <3>1. queue' = queue /\ pinned' = pinned /\ inCall' = [inCall EXCEPT ![c] = Null]
      BY <2>3 DEF PostCaller
    <3> QED BY <1>2, <3>1, DroppedCall
  <2>4. CASE RobinHandler(c)
    <3>1. queue' = queue /\ pinned' = pinned /\ inCall' = [inCall EXCEPT ![c] = Null]
      BY <2>4 DEF RobinHandler
    <3> QED BY <1>2, <3>1, DroppedCall
  <2> QED BY <1>7, <2>1, <2>2, <2>3, <2>4 DEF Handler
<1>8. CASE RoundRobin(c)
  <2>1. PICK q : q = [d \in CPUs |-> UpToRobin(queue[d])]
    OBVIOUS
  <2>2. \/ UNCHANGED <<pinned, callVars>>
        \/ /\ queue' = CallAdd(q, c, [robin |-> Null])
           /\ inCall' = inCall /\ pinned' = pinned
    BY <1>8, <2>1 DEF RoundRobin
  <2>3. CASE UNCHANGED <<pinned, callVars>>
    BY <1>4, <2>3
  <2>4. CASE /\ queue' = CallAdd(q, c, [robin |-> Null])
             /\ inCall' = inCall /\ pinned' = pinned
    BY <1>2, <2>1, <2>4, RotatedCalls
  <2> QED BY <2>2, <2>3, <2>4
<1>9. ASSUME NEW t \in Tasks, Wake(c, t) PROVE StopInv'
  BY <1>4, <1>9 DEF Wake
<1>10. ASSUME NEW t \in Reprio, NEW p \in Prios, Reprioritize(c, t, p) PROVE StopInv'
  BY <1>4, <1>10 DEF Reprioritize
<1>11. ASSUME NEW t \in Reprio, NEW m \in Masks, SetAffinity(c, t, m) PROVE StopInv'
  BY <1>4, <1>11 DEF SetAffinity
<1>12. CASE ProcessDelivered(c)
  BY <1>4, <1>12 DEF ProcessDelivered
<1> QED BY <1>5, <1>6, <1>7, <1>8, <1>9, <1>10, <1>11, <1>12

(* The call that pinned a task finds it on its CPU, or not running at all: *)
(* neither a switch, a wake-up, an affinity, a new time slice nor another  *)
(* call to stop the task moves it before the handler runs.                 *)
THEOREM StopsCorrect ==
    Spec => []StoppedHere
<1>1. Init => StopInv
  <2> SUFFICES ASSUME Init PROVE StopInv
    OBVIOUS
  <2>1. \A c \in CPUs : inCall[c] = Null /\ queue[c] = <<>>
    BY DEF Init
  <2>2. ASSUME NEW c \in CPUs, NEW i \in Places(queue, c)
        PROVE  ~IsStop(CallAt(queue, inCall, c, i))
    <3>1. i = 0
      BY <2>1 DEF Places
    <3> QED BY <2>1, <3>1 DEF CallAt, IsStop
  <2> QED BY <2>2 DEF StopInv, OneCall, Anchored, Asks, Pending
<1>2. IInv /\ StopInv /\ [Next]_vars => StopInv'
  BY StopNext
<1>3. IInv /\ StopInv => StoppedHere
  <2> SUFFICES ASSUME IInv, StopInv, NEW c \in CPUs, NEW e \in CallsOn(c),
                      IsStop(e), e.phase = "run", e.restore,
                      state[e.tcb] = "running"
               PROVE  cpu[e.tcb] = c
    BY DEF StoppedHere
  <2>1. PICK i \in Places(queue, c) : CallAt(queue, inCall, c, i) = e
    BY CallPlaces
  <2>2. e \in StopCalls \cup RobinCalls \cup {Null}
    <3>1. queue[c] \in Seq(Calls) /\ inCall[c] \in Calls \cup {Null}
      BY DEF IInv, Calls
    <3>2. e \in ToSet(queue[c]) \/ e = inCall[c]
      BY DEF CallsOn
    <3> QED BY <3>1, <3>2, ToSetIndex DEF Calls
  <2>3. e.tcb \in Tasks
    BY <2>2, StopCall
  <2>4. Pending(CallAt(queue, inCall, c, i), e.tcb)
    BY <2>1 DEF Pending, Asks
  <2> QED BY <2>3, <2>4 DEF StopInv, Anchored
<1> QED BY <1>1, <1>2, <1>3, SmpInductive, PTL DEF Spec
=============================================================================
