-------------------------- MODULE ReadyToRunProofs --------------------------
(***************************************************************************)
(* Proofs about the single-CPU scheduler, for any tasks, any priorities,   *)
(* any time slice and any depth of sched_lock(), as long as no semaphore   *)
(* has priority protection.                                                *)
(***************************************************************************)
EXTENDS ReadyToRun, PrioListProofs

-----------------------------------------------------------------------------
(* Lists of tasks.                                                         *)

(* A list the scheduler keeps: no task twice, and in order of priority.    *)
Line(list, pr) ==
    /\ list \in Seq(All)
    /\ NoDuplicates(list)
    /\ IsPrioritized(list, pr)

(* Every task has a priority above that of the IDLE task.                  *)
Priorities(pr) ==
    /\ pr \in [All -> Nat]
    /\ pr[Idle] = 0
    /\ \A t \in Tasks : pr[t] > 0

LEMMA Kinds ==
    /\ Idle \in All /\ Idle \notin Tasks
    /\ \A t \in Tasks : t \in All /\ t # Idle
BY SchedConstants DEF All

(* What a list is after t came to a place k that its priority allows.      *)
InsertedLine(list, t, k, r, pr) ==
    /\ Line(r, pr) /\ r # <<>> /\ ToSet(r) = ToSet(list) \cup {t}
    /\ k \in 1 .. Len(r) /\ r[k] = t
    /\ k = 1 => Head(r) = t /\ r[1] = t /\ r[2] = Head(list) /\ pr[Head(list)] < pr[t]
    /\ k # 1 => Head(r) = Head(list) /\ r[1] = Head(list) /\ pr[t] <= pr[Head(list)]

LEMMA InsertKeepsLine ==
    ASSUME NEW list, NEW pr, NEW t \in All, Priorities(pr), Line(list, pr),
           list # <<>>, t \notin ToSet(list),
           NEW k \in 1 .. Len(list) + 1, StopsAt(list, pr, t, k)
    PROVE  InsertedLine(list, t, k, InsertAt(list, k, t), pr)
<1>1. list \in Seq(All) /\ NoDuplicates(list) /\ IsPrioritized(list, pr)
  BY DEF Line
<1>2. pr \in [All -> Int]
  BY DEF Priorities
<1>3. PICK r : r = InsertAt(list, k, t)
  OBVIOUS
<1>4. r \in Seq(All) /\ Inserted(list, t, k, r)
  BY <1>1, <1>3, InsertAtFacts DEF Inserted
<1>5. IsPrioritized(r, pr)
  BY <1>1, <1>2, <1>4, InsertedSorted
<1>6. r # <<>> /\ ToSet(r) = ToSet(list) \cup {t} /\ NoDuplicates(r)
  <2>1. /\ Len(r) = Len(list) + 1
        /\ \A j \in 1 .. Len(list) + 1 :
             r[j] = IF j < k THEN list[j] ELSE IF j = k THEN t ELSE list[j - 1]
    BY <1>4 DEF Inserted
  <2>2. list \in Seq(All) /\ r \in Seq(All)
    BY <1>1, <1>4
  <2>3. /\ r # <<>>
        /\ ToSet(r) = ToSet(list) \cup {t}
        /\ NoDuplicates(list) /\ t \notin ToSet(list) => NoDuplicates(r)
    BY <2>1, <2>2, InsertedFacts, ZenonT(30)
  <2> QED BY <1>1, <2>3
<1>7. /\ Len(list) \in Nat \ {0} /\ Head(list) = list[1]
      /\ Len(r) = Len(list) + 1 /\ Head(r) = r[1]
  BY <1>1, <1>4, <1>6 DEF Inserted
<1>8. k \in 1 .. Len(r) /\ r[k] = t
  BY <1>7, <1>4 DEF Inserted
<1>9. ASSUME k = 1 PROVE r[1] = t /\ r[2] = Head(list) /\ pr[Head(list)] < pr[t]
  BY <1>9, <1>7, <1>4 DEF Inserted, StopsAt
<1>10. ASSUME k # 1 PROVE r[1] = Head(list) /\ pr[t] <= pr[Head(list)]
  <2>1. 1 \in 1 .. k - 1 /\ 1 \in 1 .. Len(list) + 1 /\ 1 < k
    BY <1>10, <1>7
  <2>2. r[1] = list[1]
    BY <2>1, <1>4 DEF Inserted
  <2> QED BY <2>1, <2>2, <1>7 DEF StopsAt
<1>11. InsertedLine(list, t, k, r, pr)
  BY <1>4, <1>5, <1>6, <1>7, <1>8, <1>9, <1>10 DEF InsertedLine, Line
<1> QED BY <1>3, <1>11

(* nxsched_add_prioritized() finds such a place.                           *)
LEMMA AddKeepsLine ==
    ASSUME NEW list, NEW pr, NEW t \in All, Priorities(pr), Line(list, pr),
           list # <<>>, t \notin ToSet(list)
    PROVE  \E k \in 1 .. Len(list) + 1 :
              InsertedLine(list, t, k, AddPrioritized(list, t, pr), pr)
<1>1. list \in Seq(All) /\ pr \in [All -> Int] /\ pr[t] \in Int
  BY DEF Line, Priorities
<1>2. PICK k \in 1 .. Len(list) + 1 : k = InsertPos(list, pr, pr[t])
  BY <1>1, InsertPosFound
<1>3. StopsAt(list, pr, t, k)
  BY <1>1, <1>2, InsertPosFound DEF StopsAt
<1>4. AddPrioritized(list, t, pr) = InsertAt(list, k, t)
  BY <1>2 DEF AddPrioritized
<1> QED BY <1>2, <1>3, <1>4, InsertKeepsLine

(* The pending list may be empty.                                          *)
LEMMA AddToLine ==
    ASSUME NEW list, NEW pr, NEW t \in All, Priorities(pr), Line(list, pr),
           t \notin ToSet(list)
    PROVE  /\ Line(AddPrioritized(list, t, pr), pr)
           /\ ToSet(AddPrioritized(list, t, pr)) = ToSet(list) \cup {t}
<1>1. list \in Seq(All) /\ NoDuplicates(list) /\ IsPrioritized(list, pr)
  BY DEF Line
<1>2. pr \in [All -> Int]
  BY DEF Priorities
<1> QED BY <1>1, <1>2, AddPrioritizedFacts, AddPrioritizedSorted DEF Line

LEMMA RemoveKeepsLine ==
    ASSUME NEW list, NEW pr, Priorities(pr), Line(list, pr), NEW t \in ToSet(list)
    PROVE  /\ Line(DqRem(list, t), pr)
           /\ ToSet(DqRem(list, t)) = ToSet(list) \ {t}
<1>1. list \in Seq(All) /\ NoDuplicates(list) /\ IsPrioritized(list, pr)
  BY DEF Line
<1> QED BY <1>1, DqRemFacts, DqRemSorted DEF Line

(* Removing a task that is not the first leaves the first where it is.     *)
LEMMA RemoveKeepsHead ==
    ASSUME NEW S, NEW list \in Seq(S), list # <<>>, NEW t \in ToSet(list),
           NoDuplicates(list), t # Head(list)
    PROVE  DqRem(list, t) # <<>> /\ Head(DqRem(list, t)) = Head(list)
<1>1. PICK i \in 1 .. Len(list) : i = IndexOf(list, t) /\ list[i] = t
  BY ToSetIndex DEF IndexOf
<1>2. Len(list) \in Nat \ {0} /\ Head(list) = list[1] /\ i \in 2 .. Len(list)
  BY <1>1
<1>3. PICK r \in Seq(S) : r = DqRem(list, t)
  BY DqRemFacts
<1>4. /\ SubSeq(list, 1, i - 1) \in Seq(S) /\ Len(SubSeq(list, 1, i - 1)) = i - 1
      /\ SubSeq(list, 1, i - 1)[1] = list[1]
      /\ SubSeq(list, i + 1, Len(list)) \in Seq(S)
  BY <1>2, SubSeqProperties
<1>5. r = SubSeq(list, 1, i - 1) \o SubSeq(list, i + 1, Len(list))
  BY <1>1, <1>3 DEF DqRem, RemoveAt
<1>6. PICK a \in Seq(S) : a = SubSeq(list, 1, i - 1)
  BY <1>4
<1>7. PICK b \in Seq(S) : b = SubSeq(list, i + 1, Len(list))
  BY <1>4
<1>8. Len(r) >= 1 /\ r[1] = list[1]
  BY <1>2, <1>4, <1>5, <1>6, <1>7, ConcatProperties
<1> QED BY <1>2, <1>3, <1>8

LEMMA TailKeepsLine ==
    ASSUME NEW list, NEW pr, Priorities(pr), Line(list, pr), list # <<>>
    PROVE  /\ Head(list) \in ToSet(list) /\ Head(list) \in All
           /\ Line(Tail(list), pr)
           /\ ToSet(Tail(list)) = ToSet(list) \ {Head(list)}
           /\ Tail(list) # <<>> => list[2] = Head(Tail(list))
<1>1. list \in Seq(All) /\ NoDuplicates(list) /\ IsPrioritized(list, pr)
  BY DEF Line
<1>2. pr \in [All -> Int]
  BY DEF Priorities
<1>3. IsPrioritized(Tail(list), pr)
  BY <1>1, <1>2, HeadHighest
<1>4. Tail(list) # <<>> => list[2] = Head(Tail(list))
  BY <1>1
<1> QED BY <1>1, <1>3, <1>4, TailFacts DEF Line

LEMMA SamePrioritiesLine ==
    ASSUME NEW list, NEW pr, NEW pr2, Line(list, pr),
           \A u \in ToSet(list) : pr2[u] = pr[u]
    PROVE  Line(list, pr2)
BY SamePriorities DEF Line

-----------------------------------------------------------------------------
(* The two lists and the task states.                                      *)

Ready == {"running", "readytorun", "pending"}

QueueRecords ==
    [rtr : Seq(All), pend : Seq(Tasks), st : [All -> States \cup {"invalid"}]]

(* The states of the tasks say in which list each one is: R and P are the  *)
(* members of the ready-to-run and of the pending list, h is the head.     *)
Agree(R, h, P, st) ==
    /\ h \in R
    /\ \A t \in R : t \notin P
    /\ \A t \in All : /\ st[t] = "running" <=> t = h
                      /\ st[t] = "readytorun" <=> t \in R /\ t # h
                      /\ st[t] = "pending" <=> t \in P

Good(q, pr) ==
    /\ q \in QueueRecords
    /\ Line(q.rtr, pr) /\ Line(q.pend, pr)
    /\ q.rtr # <<>> /\ Idle \in ToSet(q.rtr)
    /\ Agree(ToSet(q.rtr), Head(q.rtr), ToSet(q.pend), q.st)

(* Tasks are pending only while the running task has preemption disabled.  *)
Prompt(q, lock) == lock[Head(q.rtr)] <= 0 => q.pend = <<>>

(* The running task, and whether it has preemption disabled.               *)
First(q) == Head(q.rtr)

Locked(q, lock) == lock[First(q)] > 0

(* Tasks that are not ready stay as they are, the others stay ready.       *)
Keeps(q, r, X) ==
    \A u \in All \ X : \/ r.st[u] = q.st[u]
                       \/ r.st[u] \in Ready /\ q.st[u] \in Ready

LEMMA KeepsTrans ==
    ASSUME NEW q, NEW r, NEW s, NEW X, Keeps(q, r, X), Keeps(r, s, X)
    PROVE  Keeps(q, s, X)
BY DEF Keeps

LEMMA Fields ==
    ASSUME NEW q, NEW pr, Good(q, pr)
    PROVE  /\ q.rtr \in Seq(All) /\ q.pend \in Seq(Tasks)
           /\ q.st \in [All -> States \cup {"invalid"}]
           /\ Line(q.rtr, pr) /\ Line(q.pend, pr) /\ q.rtr # <<>>
           /\ Idle \in ToSet(q.rtr) /\ Head(q.rtr) \in ToSet(q.rtr)
           /\ Head(q.rtr) \in All
           /\ ToSet(q.rtr) \subseteq All /\ ToSet(q.pend) \subseteq Tasks
<1>1. /\ q.rtr \in Seq(All) /\ q.pend \in Seq(Tasks)
      /\ q.st \in [All -> States \cup {"invalid"}]
      /\ Line(q.rtr, pr) /\ Line(q.pend, pr) /\ q.rtr # <<>>
      /\ Idle \in ToSet(q.rtr)
      /\ Head(q.rtr) \in ToSet(q.rtr)
  BY DEF Good, QueueRecords, Agree
<1> QED BY <1>1, ToSetIndex

(* A task that is not ready is in neither list, and is not the IDLE task.  *)
LEMMA NotInLists ==
    ASSUME NEW q, NEW pr, Good(q, pr), NEW t \in All
    PROVE  /\ q.st[t] \notin Ready => t \notin ToSet(q.rtr) /\ t \notin ToSet(q.pend)
           /\ t \in ToSet(q.rtr) => t \notin ToSet(q.pend)
           /\ t \notin ToSet(q.rtr) /\ t \notin ToSet(q.pend) => q.st[t] \notin Ready
           /\ q.st[t] \in Ready => t \in ToSet(q.rtr) \/ t \in ToSet(q.pend)
<1>1. Agree(ToSet(q.rtr), Head(q.rtr), ToSet(q.pend), q.st)
  BY DEF Good
<1> QED BY <1>1 DEF Agree, Ready

(* The priority of a task in neither list does not matter.                 *)
LEMMA OtherPriority ==
    ASSUME NEW q, NEW pr, NEW pr2, Good(q, pr), NEW t \in All, q.st[t] \notin Ready,
           \A u \in All \ {t} : pr2[u] = pr[u]
    PROVE  Good(q, pr2)
<1>1. t \notin ToSet(q.rtr) /\ t \notin ToSet(q.pend)
  BY NotInLists
<1>2. /\ \A u \in ToSet(q.rtr) : pr2[u] = pr[u]
      /\ \A u \in ToSet(q.pend) : pr2[u] = pr[u]
  BY <1>1, Fields, Kinds
<1>3. Line(q.rtr, pr2) /\ Line(q.pend, pr2)
  BY <1>2, Fields, SamePrioritiesLine
<1> QED BY <1>3 DEF Good

(* A list of tasks is a list of tasks again after nxsched_add_prioritized. *)
LEMMA TasksOnly ==
    ASSUME NEW list \in Seq(All), ToSet(list) \subseteq Tasks
    PROVE  list \in Seq(Tasks)
<1>1. \A k \in 1 .. Len(list) : list[k] \in Tasks
  BY ToSetIndex
<1> QED BY <1>1

-----------------------------------------------------------------------------
(* nxsched_add_readytorun().                                               *)

LEMMA AddedPending ==
    ASSUME NEW q, NEW pr, Priorities(pr), Good(q, pr), NEW t \in Tasks,
           q.st[t] \notin Ready, NEW r,
           r = [q EXCEPT !.pend = AddPrioritized(@, t, pr), !.st[t] = "pending"]
    PROVE  /\ Good(r, pr) /\ r.rtr = q.rtr
           /\ r.st[t] = "pending" /\ Keeps(q, r, {t})
<1>1. PICK l : l = AddPrioritized(q.pend, t, pr)
  OBVIOUS
<1>2. t \in All /\ t \notin ToSet(q.rtr) /\ t \notin ToSet(q.pend)
  BY NotInLists, Kinds
<1>3. Line(l, pr) /\ ToSet(l) = ToSet(q.pend) \cup {t}
  BY <1>1, <1>2, Fields, AddToLine
<1>4. l \in Seq(Tasks)
  BY <1>3, Fields, TasksOnly DEF Line
<1>5. q \in QueueRecords
  BY DEF Good
<1>6. /\ r \in QueueRecords /\ r.rtr = q.rtr /\ r.pend = l
      /\ r.st = [q.st EXCEPT ![t] = "pending"]
  BY <1>1, <1>4, <1>5 DEF QueueRecords, States
<1>7. \A u \in All : r.st[u] = IF u = t THEN "pending" ELSE q.st[u]
  BY <1>6, Fields
<1>8. Agree(ToSet(q.rtr), Head(q.rtr), ToSet(q.pend), q.st)
  BY DEF Good
<1>9. Agree(ToSet(r.rtr), Head(r.rtr), ToSet(r.pend), r.st)
  BY <1>2, <1>3, <1>6, <1>7, <1>8, Fields DEF Agree
<1>10. Good(r, pr)
  BY <1>3, <1>6, <1>9, Fields DEF Good
<1>11. Keeps(q, r, {t})
  BY <1>7 DEF Keeps
<1> QED BY <1>2, <1>6, <1>7, <1>10, <1>11

(* The queues with t added to the ready-to-run list, which is l now.       *)
WithReady(q, t, l) ==
    IF l[1] = t
    THEN [q EXCEPT !.rtr = l,
                   !.st = [@ EXCEPT ![t] = "running", ![l[2]] = "readytorun"]]
    ELSE [q EXCEPT !.rtr = l, !.st[t] = "readytorun"]

HeadAfter(q, r, t, pr) ==
    \/ Head(r.rtr) = t /\ pr[Head(q.rtr)] < pr[t]
    \/ Head(r.rtr) = Head(q.rtr) /\ pr[t] <= pr[Head(q.rtr)]

LEMMA AddedReady ==
    ASSUME NEW q, NEW pr, Priorities(pr), Good(q, pr), NEW t \in Tasks,
           q.st[t] \notin Ready,
           NEW l, l = AddPrioritized(q.rtr, t, pr), NEW r, r = WithReady(q, t, l)
    PROVE  /\ Good(r, pr) /\ r.pend = q.pend
           /\ HeadAfter(q, r, t, pr)
           /\ r.st[t] \in Ready /\ Keeps(q, r, {t})
<1>1. PICK h : h = Head(q.rtr)
  OBVIOUS
<1>2. /\ t \in All /\ t \notin ToSet(q.rtr) /\ t \notin ToSet(q.pend)
      /\ h \in All /\ h # t /\ h \in ToSet(q.rtr)
  BY <1>1, NotInLists, Kinds, Fields
<1>3. PICK k \in 1 .. Len(q.rtr) + 1 : InsertedLine(q.rtr, t, k, l, pr)
  BY <1>2, Fields, AddKeepsLine
<1>4. Line(l, pr) /\ l # <<>> /\ ToSet(l) = ToSet(q.rtr) \cup {t} /\ l \in Seq(All)
  BY <1>3 DEF InsertedLine, Line
<1>5. /\ l[1] = t => Head(l) = t /\ l[2] = h /\ pr[h] < pr[t]
      /\ l[1] # t => Head(l) = h /\ pr[t] <= pr[h]
  BY <1>1, <1>2, <1>3 DEF InsertedLine
<1>6. pr[h] \in Int /\ pr[t] \in Int
  BY <1>2 DEF Priorities
<1>7. q \in QueueRecords
  BY DEF Good
<1>8. /\ r \in QueueRecords /\ r.rtr = l /\ r.pend = q.pend
      /\ \A u \in All : r.st[u] = IF u = t THEN IF l[1] = t THEN "running" ELSE "readytorun"
                                  ELSE IF u = h /\ l[1] = t THEN "readytorun"
                                  ELSE q.st[u]
  <2>1. CASE l[1] = t
    <3>1. r = [q EXCEPT !.rtr = l,
                        !.st = [@ EXCEPT ![t] = "running", ![h] = "readytorun"]]
      BY <2>1, <1>5 DEF WithReady
    <3>2. PICK f : f = [q.st EXCEPT ![t] = "running", ![h] = "readytorun"]
      OBVIOUS
    <3>3. /\ f \in [All -> States \cup {"invalid"}]
          /\ \A u \in All : f[u] = IF u = h THEN "readytorun"
                                   ELSE IF u = t THEN "running" ELSE q.st[u]
      BY <3>2, <1>2, Fields DEF States
    <3>4. r = [q EXCEPT !.rtr = l, !.st = f]
      BY <3>1, <3>2
    <3>5. r \in QueueRecords /\ r.rtr = l /\ r.pend = q.pend /\ r.st = f
      BY <3>3, <3>4, <1>4, <1>7 DEF QueueRecords
    <3> QED BY <2>1, <3>3, <3>5, <1>2
  <2>2. CASE l[1] # t
    <3>1. r = [q EXCEPT !.rtr = l, !.st[t] = "readytorun"]
      BY <2>2 DEF WithReady
    <3>2. PICK f : f = [q.st EXCEPT ![t] = "readytorun"]
      OBVIOUS
    <3>3. /\ f \in [All -> States \cup {"invalid"}]
          /\ \A u \in All : f[u] = IF u = t THEN "readytorun" ELSE q.st[u]
      BY <3>2, <1>2, Fields DEF States
    <3>4. r = [q EXCEPT !.rtr = l, !.st = f]
      BY <3>1, <3>2
    <3>5. r \in QueueRecords /\ r.rtr = l /\ r.pend = q.pend /\ r.st = f
      BY <3>3, <3>4, <1>4, <1>7 DEF QueueRecords
    <3> QED BY <2>2, <3>3, <3>5, <1>2
  <2> QED BY <2>1, <2>2
<1>9. Agree(ToSet(q.rtr), h, ToSet(q.pend), q.st)
  BY <1>1 DEF Good
<1>10. Agree(ToSet(r.rtr), Head(r.rtr), ToSet(r.pend), r.st)
  <2>1. CASE l[1] = t
    BY <2>1, <1>2, <1>4, <1>5, <1>8, <1>9 DEF Agree
  <2>2. CASE l[1] # t
    BY <2>2, <1>2, <1>4, <1>5, <1>8, <1>9 DEF Agree
  <2> QED BY <2>1, <2>2
<1>11. Good(r, pr)
  BY <1>4, <1>8, <1>10, Fields DEF Good
<1>12. Keeps(q, r, {t})
  BY <1>8, <1>9, <1>2 DEF Keeps, Ready, Agree
<1>13. HeadAfter(q, r, t, pr)
  BY <1>1, <1>5, <1>8 DEF HeadAfter
<1> QED BY <1>2, <1>8, <1>11, <1>12, <1>13 DEF Ready

(* A task with preemption disabled stays the running one; if t becomes     *)
(* that, the pending list is left alone.                                   *)
HeadKept(q, r, t, lock) ==
    /\ Locked(q, lock) => First(r) = First(q)
    /\ First(r) = t => r.pend = q.pend

LEMMA Added ==
    ASSUME NEW q, NEW pr, Priorities(pr), Good(q, pr), NEW t \in Tasks,
           q.st[t] \notin Ready, NEW lock \in [All -> Int],
           NEW r, r = AddReadyToRun(q, t, pr, lock)
    PROVE  /\ Good(r, pr) /\ r.st[t] \in Ready /\ Keeps(q, r, {t})
           /\ Prompt(q, lock) => Prompt(r, lock)
           /\ HeadKept(q, r, t, lock)
<1>1. PICK h : h = Head(q.rtr)
  OBVIOUS
<1>2. h \in All /\ t \in All /\ lock[h] \in Int /\ pr[h] \in Int /\ pr[t] \in Int /\ h # t
  BY <1>1, Fields, Kinds, NotInLists DEF Priorities
<1>3. CASE lock[h] > 0 /\ pr[h] < pr[t]
  <2>1. r = [q EXCEPT !.pend = AddPrioritized(@, t, pr), !.st[t] = "pending"]
    BY <1>1, <1>3 DEF AddReadyToRun
  <2>2. /\ Good(r, pr) /\ r.rtr = q.rtr
        /\ r.st[t] = "pending" /\ Keeps(q, r, {t})
    BY <2>1, AddedPending
  <2> QED BY <1>1, <1>2, <1>3, <2>2 DEF Prompt, Ready, HeadKept, Locked, First
<1>4. CASE ~(lock[h] > 0 /\ pr[h] < pr[t])
  <2>1. PICK l : l = AddPrioritized(q.rtr, t, pr)
    OBVIOUS
  <2>2. r = WithReady(q, t, l)
    BY <1>1, <1>4, <2>1 DEF AddReadyToRun, WithReady
  <2>3. /\ Good(r, pr) /\ r.pend = q.pend
        /\ r.st[t] \in Ready /\ Keeps(q, r, {t})
    BY <2>1, <2>2, AddedReady
  <2>4. /\ pr[h] < pr[t] => Head(r.rtr) = t
        /\ ~(pr[h] < pr[t]) => Head(r.rtr) = h
    <3>1. HeadAfter(q, r, t, pr)
      BY <2>1, <2>2, AddedReady
    <3> QED BY <1>1, <1>2, <3>1 DEF HeadAfter
  <2>5. Prompt(q, lock) => Prompt(r, lock)
    BY <1>1, <1>2, <1>4, <2>3, <2>4 DEF Prompt
  <2> QED BY <1>1, <1>2, <1>4, <2>3, <2>4, <2>5 DEF HeadKept, Locked, First
<1> QED BY <1>3, <1>4

-----------------------------------------------------------------------------
(* nxsched_remove_readytorun().                                            *)

LEMMA Removed ==
    ASSUME NEW q, NEW pr, Priorities(pr), Good(q, pr), NEW t \in Tasks,
           NEW s \in States \cup {"invalid"}, s \notin Ready,
           NEW r, r = RemoveReadyToRun(q, t, s)
    PROVE  /\ Good(r, pr) /\ r.st[t] = s /\ Keeps(q, r, {t})
           /\ t # First(q) => First(r) = First(q)
           /\ t = First(q) => r.pend = q.pend /\ First(r) # t
           /\ q.pend = <<>> => r.pend = <<>>
<1>1. PICK h : h = Head(q.rtr)
  OBVIOUS
<1>2. /\ t \in All /\ t # Idle /\ h \in All /\ h \in ToSet(q.rtr)
      /\ q \in QueueRecords
  BY <1>1, Kinds, Fields DEF Good
<1>3. Agree(ToSet(q.rtr), h, ToSet(q.pend), q.st)
  BY <1>1 DEF Good
<1>4. CASE t = h
  <2>1. PICK l : l = Tail(q.rtr)
    OBVIOUS
  <2>2. Line(l, pr) /\ ToSet(l) = ToSet(q.rtr) \ {h}
    BY <1>1, <2>1, Fields, TailKeepsLine
  <2>3. l \in Seq(All) /\ Idle \in ToSet(l) /\ l # <<>>
    <3>1. l \in Seq(All) /\ Idle \in ToSet(l)
      BY <2>2, <1>2, <1>4, Fields DEF Line
    <3> QED BY <3>1, ToSetEmpty
  <2>4. Head(l) \in ToSet(l) /\ Head(l) \in All /\ q.rtr[2] = Head(l)
    <3>1. Head(l) \in ToSet(l) /\ Head(l) \in All
      BY <2>2, <2>3, TailKeepsLine
    <3>2. q.rtr[2] = Head(l)
      BY <2>1, <2>3, Fields, TailKeepsLine
    <3> QED BY <3>1, <3>2
  <2>5. PICK n : n = Head(l)
    OBVIOUS
  <2>6. PICK f : f = [q.st EXCEPT ![t] = s, ![n] = "running"]
    OBVIOUS
  <2>7. /\ f \in [All -> States \cup {"invalid"}]
        /\ \A u \in All : f[u] = IF u = n THEN "running" ELSE IF u = t THEN s ELSE q.st[u]
    BY <2>4, <2>5, <2>6, <1>2, Fields DEF States
  <2>8. r = [q EXCEPT !.rtr = l, !.st = f]
    <3>1. t = Head(q.rtr) /\ t \notin ToSet(Tail(q.rtr)) /\ t \notin ToSet(q.pend)
      BY <1>1, <1>3, <1>4, <2>1, <2>2 DEF Agree
    <3>2. r = [q EXCEPT !.rtr = Tail(@), !.st = [@ EXCEPT ![t] = s, ![q.rtr[2]] = "running"]]
      BY <3>1 DEF RemoveReadyToRun
    <3> QED BY <3>2, <2>1, <2>4, <2>5, <2>6
  <2>9. r \in QueueRecords /\ r.rtr = l /\ r.pend = q.pend /\ r.st = f
    BY <1>2, <2>3, <2>7, <2>8 DEF QueueRecords
  <2>10. Agree(ToSet(r.rtr), Head(r.rtr), ToSet(r.pend), r.st)
    BY <1>2, <1>3, <1>4, <2>2, <2>4, <2>5, <2>7, <2>9 DEF Agree, Ready
  <2>11. Good(r, pr)
    BY <2>2, <2>3, <2>9, <2>10, Fields DEF Good
  <2>12. Keeps(q, r, {t})
    BY <1>2, <1>3, <2>2, <2>4, <2>5, <2>7, <2>9 DEF Keeps, Ready, Agree
  <2>13. n # t
    BY <1>4, <2>2, <2>4, <2>5
  <2> QED BY <1>1, <1>2, <1>4, <2>5, <2>7, <2>9, <2>11, <2>12, <2>13 DEF First
<1>5. CASE t # h /\ t \in ToSet(q.rtr)
  <2>1. PICK l : l = DqRem(q.rtr, t)
    OBVIOUS
  <2>2. Line(l, pr) /\ ToSet(l) = ToSet(q.rtr) \ {t}
    BY <1>5, <2>1, Fields, RemoveKeepsLine
  <2>3. l \in Seq(All) /\ Idle \in ToSet(l)
    BY <2>2, <1>2, Fields DEF Line
  <2>4. l # <<>> /\ Head(l) = h
    BY <1>1, <1>5, <2>1, Fields, RemoveKeepsHead DEF Line
  <2>5. PICK f : f = [q.st EXCEPT ![t] = s]
    OBVIOUS
  <2>6. /\ f \in [All -> States \cup {"invalid"}]
        /\ \A u \in All : f[u] = IF u = t THEN s ELSE q.st[u]
    BY <2>5, <1>2, Fields
  <2>7. r = [q EXCEPT !.rtr = l, !.st = f]
    <3>1. t \in ToSet(Tail(q.rtr)) /\ t \notin ToSet(q.pend)
      BY <1>1, <1>2, <1>5, Fields, TailKeepsLine, NotInLists
    <3> QED BY <1>1, <1>5, <2>1, <2>5, <3>1 DEF RemoveReadyToRun
  <2>8. r \in QueueRecords /\ r.rtr = l /\ r.pend = q.pend /\ r.st = f
    BY <1>2, <2>3, <2>6, <2>7 DEF QueueRecords
  <2>9. Agree(ToSet(r.rtr), Head(r.rtr), ToSet(r.pend), r.st)
    BY <1>2, <1>3, <1>5, <2>2, <2>4, <2>6, <2>8 DEF Agree, Ready
  <2>10. Good(r, pr)
    BY <2>2, <2>3, <2>4, <2>8, <2>9, Fields DEF Good
  <2>11. Keeps(q, r, {t})
    BY <2>6, <2>8 DEF Keeps
  <2> QED BY <1>1, <1>2, <1>5, <2>4, <2>6, <2>8, <2>10, <2>11 DEF First
<1>6. CASE t \notin ToSet(q.rtr) /\ t \in ToSet(q.pend)
  <2>1. PICK l : l = DqRem(q.pend, t)
    OBVIOUS
  <2>2. Line(l, pr) /\ ToSet(l) = ToSet(q.pend) \ {t}
    BY <1>6, <2>1, Fields, RemoveKeepsLine
  <2>3. l \in Seq(Tasks)
    BY <2>2, Fields, TasksOnly DEF Line
  <2>4. PICK f : f = [q.st EXCEPT ![t] = s]
    OBVIOUS
  <2>5. /\ f \in [All -> States \cup {"invalid"}]
        /\ \A u \in All : f[u] = IF u = t THEN s ELSE q.st[u]
    BY <2>4, <1>2, Fields
  <2>6. r = [q EXCEPT !.pend = l, !.st = f]
    <3>1. t # h /\ t \notin ToSet(Tail(q.rtr))
      BY <1>1, <1>2, <1>6, Fields, TailKeepsLine
    <3> QED BY <1>1, <1>6, <2>1, <2>4, <3>1 DEF RemoveReadyToRun
  <2>7. r \in QueueRecords /\ r.rtr = q.rtr /\ r.pend = l /\ r.st = f
    BY <1>2, <2>3, <2>5, <2>6 DEF QueueRecords
  <2>8. Agree(ToSet(r.rtr), Head(r.rtr), ToSet(r.pend), r.st)
    BY <1>1, <1>2, <1>3, <1>6, <2>2, <2>5, <2>7 DEF Agree, Ready
  <2>9. Good(r, pr)
    BY <2>2, <2>7, <2>8, Fields DEF Good
  <2>10. Keeps(q, r, {t})
    BY <2>5, <2>7 DEF Keeps
  <2>11. q.pend # <<>>
    BY <1>6 DEF ToSet
  <2> QED BY <1>1, <1>2, <1>6, <2>5, <2>7, <2>9, <2>10, <2>11 DEF First
<1>7. CASE t \notin ToSet(q.rtr) /\ t \notin ToSet(q.pend)
  <2>1. PICK f : f = [q.st EXCEPT ![t] = s]
    OBVIOUS
  <2>2. /\ f \in [All -> States \cup {"invalid"}]
        /\ \A u \in All : f[u] = IF u = t THEN s ELSE q.st[u]
    BY <2>1, <1>2, Fields
  <2>3. r = [q EXCEPT !.st = f]
    <3>1. t # h /\ t \notin ToSet(Tail(q.rtr))
      BY <1>1, <1>2, <1>7, Fields, TailKeepsLine
    <3> QED BY <1>1, <1>7, <2>1, <3>1 DEF RemoveReadyToRun
  <2>4. r \in QueueRecords /\ r.rtr = q.rtr /\ r.pend = q.pend /\ r.st = f
    BY <1>2, <2>2, <2>3 DEF QueueRecords
  <2>5. Agree(ToSet(r.rtr), Head(r.rtr), ToSet(r.pend), r.st)
    BY <1>1, <1>2, <1>3, <1>7, <2>2, <2>4 DEF Agree, Ready
  <2>6. Good(r, pr)
    BY <2>4, <2>5, Fields DEF Good
  <2>7. Keeps(q, r, {t})
    BY <2>2, <2>4 DEF Keeps
  <2> QED BY <1>1, <1>2, <1>7, <2>2, <2>4, <2>6, <2>7 DEF First
<1> QED BY <1>4, <1>5, <1>6, <1>7

-----------------------------------------------------------------------------
(* nxsched_merge_pending().  Its loop is a recursive function on the turns *)
(* taken, which exists by induction on their number.                       *)

Turn(f, q, pr, i) ==
    IF i = 0 THEN [at |-> 1, q |-> q] ELSE MergeOne(f[i - 1], q.pend[i], pr)

LEMMA TurnsChosen ==
    ASSUME NEW q, NEW pr
    PROVE  Turns(q, pr) = CHOOSE f : f = [i \in 0 .. Len(q.pend) |-> Turn(f, q, pr, i)]
BY Zenon DEF Turns, Turn

LEMMA TurnsExist ==
    ASSUME NEW q, NEW pr, NEW n \in Nat
    PROVE  \E f : f = [i \in 0 .. n |-> Turn(f, q, pr, i)]
<1> DEFINE Has(k) == \E f : f = [i \in 0 .. k |-> Turn(f, q, pr, i)]
           Bad == {k \in Nat : ~Has(k)}
<1>1. Has(0)
  <2>1. PICK g : g = [i \in 0 .. 0 |-> [at |-> 1, q |-> q]]
    OBVIOUS
  <2>2. \A i \in 0 .. 0 : Turn(g, q, pr, i) = [at |-> 1, q |-> q]
    BY DEF Turn
  <2>3. g = [i \in 0 .. 0 |-> Turn(g, q, pr, i)]
    BY <2>1, <2>2
  <2> QED BY <2>3
<1>2. ASSUME NEW k \in Nat, Has(k) PROVE Has(k + 1)
  <2>1. PICK f : f = [i \in 0 .. k |-> Turn(f, q, pr, i)]
    BY <1>2
  <2>2. PICK g : g = [i \in 0 .. k + 1 |-> Turn(f, q, pr, i)]
    OBVIOUS
  <2>3. ASSUME NEW i \in 0 .. k + 1 PROVE Turn(g, q, pr, i) = Turn(f, q, pr, i)
    <3>1. CASE i = 0
      BY <3>1 DEF Turn
    <3>2. CASE i # 0
      <4>1. i - 1 \in 0 .. k /\ i - 1 \in 0 .. k + 1
        BY <3>2
      <4>2. f[i - 1] = Turn(f, q, pr, i - 1)
        BY <2>1, <4>1
      <4>3. g[i - 1] = Turn(f, q, pr, i - 1)
        BY <2>2, <4>1
      <4> QED BY <3>2, <4>2, <4>3 DEF Turn
    <3> QED BY <3>1, <3>2
  <2>4. g = [i \in 0 .. k + 1 |-> Turn(g, q, pr, i)]
    BY <2>2, <2>3
  <2> QED BY <2>4
<1>3. Bad = {}
  <2> HIDE DEF Has
  <2> SUFFICES ASSUME Bad # {} PROVE FALSE
    OBVIOUS
  <2>1. PICK k \in Bad : \A j \in Bad : k <= j
    <3>1. Bad \subseteq Nat
      OBVIOUS
    <3> HIDE DEF Bad
    <3> QED BY <3>1, LeastNatural
  <2>2. k # 0
    BY <1>1
  <2>3. k - 1 \in Nat /\ Has(k - 1)
    BY <2>1, <2>2
  <2>4. Has((k - 1) + 1)
    BY <2>3, <1>2
  <2> QED BY <2>4
<1>4. Has(n)
  <2> HIDE DEF Has
  <2> QED BY <1>3
<1> QED BY <1>4

LEMMA TurnByTurn ==
    ASSUME NEW q, NEW pr, NEW n \in Nat, n = Len(q.pend)
    PROVE  /\ Turns(q, pr)[0] = [at |-> 1, q |-> q]
           /\ \A i \in 1 .. n : Turns(q, pr)[i] = MergeOne(Turns(q, pr)[i - 1], q.pend[i], pr)
<1>1. PICK f : f = Turns(q, pr)
  OBVIOUS
<1>2. \E g : g = [i \in 0 .. n |-> Turn(g, q, pr, i)]
  BY TurnsExist
<1>3. f = CHOOSE g : g = [i \in 0 .. n |-> Turn(g, q, pr, i)]
  BY <1>1, TurnsChosen
<1>4. f = [i \in 0 .. n |-> Turn(f, q, pr, i)]
  BY <1>2, <1>3, Zenon
<1>5. \A i \in 0 .. n : f[i] = Turn(f, q, pr, i)
  BY <1>4
<1>6. f[0] = [at |-> 1, q |-> q]
  BY <1>5 DEF Turn
<1>7. \A i \in 1 .. n : f[i] = MergeOne(f[i - 1], q.pend[i], pr)
  BY <1>5 DEF Turn
<1> QED BY <1>1, <1>6, <1>7

(* The place where the walk for t stops, when it starts at place a.        *)
WalkStops(l, pr, t, a, k) ==
    /\ pr[l[k]] < pr[t]
    /\ \A j \in a .. k - 1 : pr[t] <= pr[l[j]]

LEMMA WalkEnds ==
    ASSUME NEW l, NEW pr, NEW t \in Tasks, Priorities(pr), Line(l, pr),
           Idle \in ToSet(l), NEW a \in 1 .. Len(l),
           a = 1 \/ (l[a] \in Tasks /\ pr[t] <= pr[l[a]]),
           NEW k, k = CHOOSE i \in a .. Len(l) : WalkStops(l, pr, t, a, i)
    PROVE  k \in a .. Len(l) /\ StopsAt(l, pr, t, k)
<1>1. /\ l \in Seq(All) /\ Len(l) \in Nat /\ t \in All /\ pr[t] \in Int /\ pr[t] > 0
      /\ \A j \in 1 .. Len(l) : l[j] \in All /\ pr[l[j]] \in Int
  BY Kinds DEF Line, Priorities
<1>2. \A i, j \in 1 .. Len(l) : i < j => pr[l[j]] <= pr[l[i]]
  BY DEF Line, IsPrioritized
<1>3. PICK m \in 1 .. Len(l) : l[m] = Idle
  BY <1>1, ToSetIndex
<1>4. pr[l[m]] = 0
  BY <1>3 DEF Priorities
<1>5. m \in a .. Len(l)
  <2>1. CASE a = 1
    BY <2>1, <1>1
  <2>2. CASE l[a] \in Tasks /\ pr[t] <= pr[l[a]]
    BY <2>2, <1>1, <1>2, <1>4
  <2> QED BY <2>1, <2>2
<1>6. PICK Low : Low = {i \in a .. Len(l) : pr[l[i]] < pr[t]}
  OBVIOUS
<1>7. Low \subseteq Nat /\ Low # {}
  BY <1>1, <1>4, <1>5, <1>6
<1>8. PICK i \in Low : \A j \in Low : i <= j
  BY <1>7, LeastNatural
<1>9. i \in a .. Len(l) /\ WalkStops(l, pr, t, a, i)
  BY <1>1, <1>6, <1>8 DEF WalkStops
<1>10. k \in a .. Len(l) /\ WalkStops(l, pr, t, a, k)
  BY <1>9
<1>11. ASSUME NEW j \in 1 .. k - 1 PROVE pr[t] <= pr[l[j]]
  <2>1. CASE j >= a
    BY <2>1, <1>10, SMTT(30) DEF WalkStops
  <2>2. CASE j < a
    <3>1. j \in 1 .. Len(l) /\ a # 1
      BY <2>2
    <3>2. pr[l[a]] <= pr[l[j]] /\ pr[t] <= pr[l[a]]
      BY <2>2, <3>1, <1>2
    <3> QED BY <3>1, <3>2, <1>1
  <2> QED BY <2>1, <2>2, <1>10
<1> QED BY <1>10, <1>11 DEF StopsAt, WalkStops

(* After i turns the first i pending tasks are in the ready-to-run list;   *)
(* the next walk starts from the last of them.                             *)
Merging(q, pr, i, m) ==
    /\ m.q \in QueueRecords /\ Line(m.q.rtr, pr) /\ m.q.rtr # <<>>
    /\ m.q.pend = q.pend
    /\ ToSet(m.q.rtr) = ToSet(q.rtr) \cup FirstOf(q.pend, i)
    /\ Agree(ToSet(m.q.rtr), Head(m.q.rtr), ToSet(q.pend) \ FirstOf(q.pend, i), m.q.st)
    /\ m.at \in 1 .. Len(m.q.rtr)
    /\ \/ i = 0 /\ m.at = 1
       \/ i > 0 /\ m.q.rtr[m.at] = q.pend[i]
    /\ Keeps(q, m.q, {})

LEMMA MergingStarts ==
    ASSUME NEW q, NEW pr, Good(q, pr), NEW m, m = [at |-> 1, q |-> q]
    PROVE  Merging(q, pr, 0, m)
<1>1. m.at = 1 /\ m.q = q
  OBVIOUS
<1>2. FirstOf(q.pend, 0) = {}
  BY DEF FirstOf
<1>3. /\ q \in QueueRecords /\ Line(q.rtr, pr) /\ q.rtr # <<>>
      /\ Agree(ToSet(q.rtr), Head(q.rtr), ToSet(q.pend), q.st)
  BY DEF Good
<1>4. 1 \in 1 .. Len(q.rtr)
  BY <1>3 DEF Line
<1>5. Keeps(q, q, {})
  BY DEF Keeps
<1>6. ToSet(q.rtr) \cup {} = ToSet(q.rtr) /\ ToSet(q.pend) \ {} = ToSet(q.pend)
  OBVIOUS
<1> QED BY <1>1, <1>2, <1>3, <1>4, <1>5, <1>6 DEF Merging

(* The queues after t went to place k of the list l.                       *)
MergedAt(q, t, k) ==
    [q EXCEPT !.rtr = InsertAt(q.rtr, k, t),
              !.st = IF k = 1
                     THEN [@ EXCEPT ![q.rtr[1]] = "readytorun", ![t] = "running"]
                     ELSE [@ EXCEPT ![t] = "readytorun"]]

LEMMA MergeOneIs ==
    ASSUME NEW m, NEW t, NEW pr, NEW k,
           k = CHOOSE i \in m.at .. Len(m.q.rtr) : WalkStops(m.q.rtr, pr, t, m.at, i)
    PROVE  MergeOne(m, t, pr) = [at |-> k, q |-> MergedAt(m.q, t, k)]
BY Zenon DEF MergeOne, MergedAt, WalkStops

(* The task states after that; h was the head.                             *)
StatesMerged(q, r, t, k, h) ==
    \A u \in All : r.st[u] = IF u = t THEN IF k = 1 THEN "running" ELSE "readytorun"
                              ELSE IF u = h /\ k = 1 THEN "readytorun"
                              ELSE q.st[u]

LEMMA MergedFields ==
    ASSUME NEW q \in QueueRecords, NEW t \in All, NEW k, NEW h \in All, h = q.rtr[1],
           h # t, NEW l \in Seq(All), l = InsertAt(q.rtr, k, t),
           NEW r, r = MergedAt(q, t, k)
    PROVE  /\ r \in QueueRecords /\ r.rtr = l /\ r.pend = q.pend
           /\ StatesMerged(q, r, t, k, h)
<1>1. q.st \in [All -> States \cup {"invalid"}]
  BY DEF QueueRecords
<1>2. CASE k = 1
  <2>1. PICK f : f = [q.st EXCEPT ![h] = "readytorun", ![t] = "running"]
    OBVIOUS
  <2>2. /\ f \in [All -> States \cup {"invalid"}]
        /\ \A u \in All : f[u] = IF u = t THEN "running"
                                 ELSE IF u = h THEN "readytorun" ELSE q.st[u]
    BY <2>1, <1>1 DEF States
  <2>3. r = [q EXCEPT !.rtr = l, !.st = f]
    BY <1>2, <2>1 DEF MergedAt
  <2>4. r \in QueueRecords /\ r.rtr = l /\ r.pend = q.pend /\ r.st = f
    BY <2>2, <2>3 DEF QueueRecords
  <2> QED BY <1>2, <2>2, <2>4 DEF StatesMerged
<1>3. CASE k # 1
  <2>1. PICK f : f = [q.st EXCEPT ![t] = "readytorun"]
    OBVIOUS
  <2>2. /\ f \in [All -> States \cup {"invalid"}]
        /\ \A u \in All : f[u] = IF u = t THEN "readytorun" ELSE q.st[u]
    BY <2>1, <1>1 DEF States
  <2>3. r = [q EXCEPT !.rtr = l, !.st = f]
    BY <1>3, <2>1 DEF MergedAt
  <2>4. r \in QueueRecords /\ r.rtr = l /\ r.pend = q.pend /\ r.st = f
    BY <2>2, <2>3 DEF QueueRecords
  <2> QED BY <1>3, <2>2, <2>4 DEF StatesMerged
<1> QED BY <1>2, <1>3

LEMMA FirstOfNext ==
    ASSUME NEW list \in Seq(Tasks), NoDuplicates(list), NEW i \in 1 .. Len(list)
    PROVE  /\ FirstOf(list, i) = FirstOf(list, i - 1) \cup {list[i]}
           /\ list[i] \in Tasks /\ list[i] \in ToSet(list)
           /\ list[i] \notin FirstOf(list, i - 1)
<1>1. \A j \in 1 .. i : j \in 1 .. i - 1 \/ j = i
  OBVIOUS
<1>2. FirstOf(list, i) = FirstOf(list, i - 1) \cup {list[i]}
  BY <1>1 DEF FirstOf
<1>3. \A j \in 1 .. i - 1 : j \in 1 .. Len(list) /\ j # i
  OBVIOUS
<1>4. list[i] \notin FirstOf(list, i - 1)
  BY <1>3 DEF FirstOf, NoDuplicates
<1> QED BY <1>2, <1>4, ToSetIndex

LEMMA MergingStep ==
    ASSUME NEW q, NEW pr, Priorities(pr), Good(q, pr), NEW i \in 1 .. Len(q.pend),
           NEW m, Merging(q, pr, i - 1, m),
           NEW r, r = MergeOne(m, q.pend[i], pr)
    PROVE  Merging(q, pr, i, r)
<1>1. PICK t : t = q.pend[i]
  OBVIOUS
<1>2. PICK l : l = m.q.rtr
  OBVIOUS
<1>3. PICK F : F = FirstOf(q.pend, i - 1)
  OBVIOUS
<1>4. PICK a : a = m.at
  OBVIOUS
<1>5. /\ m.q \in QueueRecords /\ Line(l, pr) /\ l # <<>> /\ m.q.pend = q.pend
      /\ ToSet(l) = ToSet(q.rtr) \cup F
      /\ Agree(ToSet(l), Head(l), ToSet(q.pend) \ F, m.q.st)
      /\ a \in 1 .. Len(l)
      /\ (i - 1 = 0 /\ a = 1) \/ (i - 1 > 0 /\ l[a] = q.pend[i - 1])
      /\ Keeps(q, m.q, {})
  BY <1>2, <1>3, <1>4 DEF Merging
<1>6. /\ q.pend \in Seq(Tasks) /\ NoDuplicates(q.pend) /\ IsPrioritized(q.pend, pr)
      /\ Idle \in ToSet(q.rtr)
  BY Fields DEF Line
<1>7. /\ FirstOf(q.pend, i) = F \cup {t} /\ t \in Tasks /\ t \in All
      /\ t \in ToSet(q.pend) /\ t \notin F
  BY <1>1, <1>3, <1>6, FirstOfNext, Kinds
<1>8. t \notin ToSet(l)
  <2>1. t \notin ToSet(q.rtr)
    BY <1>7, NotInLists
  <2> QED BY <2>1, <1>5, <1>7
<1>9. a = 1 \/ (l[a] \in Tasks /\ pr[t] <= pr[l[a]])
  <2>1. CASE i - 1 > 0 /\ l[a] = q.pend[i - 1]
    <3>1. i - 1 \in 1 .. Len(q.pend) /\ i - 1 < i
      BY <2>1
    <3> QED BY <2>1, <3>1, <1>1, <1>6 DEF IsPrioritized
  <2> QED BY <2>1, <1>5
<1>10. PICK k : k = CHOOSE j \in a .. Len(l) : WalkStops(l, pr, t, a, j)
  OBVIOUS
<1>11. k \in a .. Len(l) /\ StopsAt(l, pr, t, k)
  BY <1>5, <1>6, <1>7, <1>9, <1>10, WalkEnds
<1>12. r = [at |-> k, q |-> MergedAt(m.q, t, k)]
  BY <1>1, <1>2, <1>4, <1>10, MergeOneIs
<1>13. PICK l2 : l2 = InsertAt(l, k, t)
  OBVIOUS
<1>14. PICK h : h = Head(l)
  OBVIOUS
<1>15. /\ l \in Seq(All) /\ h = l[1] /\ h \in All /\ h \in ToSet(l) /\ h # t
       /\ k \in 1 .. Len(l) + 1
  <2>1. l \in Seq(All) /\ Len(l) \in Nat /\ h = l[1] /\ h \in All
    BY <1>5, <1>14 DEF Line
  <2>2. h \in ToSet(l)
    BY <1>5, <1>14 DEF Agree
  <2> QED BY <2>1, <2>2, <1>5, <1>8, <1>11
<1>16. InsertedLine(l, t, k, l2, pr)
  BY <1>5, <1>7, <1>8, <1>11, <1>13, <1>15, InsertKeepsLine
<1>17. /\ Line(l2, pr) /\ l2 # <<>> /\ l2 \in Seq(All) /\ ToSet(l2) = ToSet(l) \cup {t}
       /\ k \in 1 .. Len(l2) /\ l2[k] = t
       /\ (k = 1 => Head(l2) = t) /\ (k # 1 => Head(l2) = h)
  BY <1>14, <1>16 DEF InsertedLine, Line
<1>18. /\ r.at = k /\ r.q \in QueueRecords /\ r.q.rtr = l2 /\ r.q.pend = q.pend
       /\ \A u \in All : r.q.st[u] = IF u = t THEN IF k = 1 THEN "running" ELSE "readytorun"
                                     ELSE IF u = h /\ k = 1 THEN "readytorun"
                                     ELSE m.q.st[u]
  <2>1. PICK z : z = MergedAt(m.q, t, k)
    OBVIOUS
  <2>2. r.at = k /\ r.q = z
    BY <1>12, <2>1
  <2>3. PICK y : y = m.q
    OBVIOUS
  <2>4. /\ y \in QueueRecords /\ h = y.rtr[1] /\ l2 = InsertAt(y.rtr, k, t)
        /\ z = MergedAt(y, t, k)
    BY <1>2, <1>5, <1>13, <1>15, <2>1, <2>3
  <2>5. h \in All /\ h # t /\ l2 \in Seq(All)
    BY <1>15, <1>17
  <2>6. /\ z \in QueueRecords /\ z.rtr = l2 /\ z.pend = y.pend
        /\ StatesMerged(y, z, t, k, h)
    BY <2>4, <2>5, <1>7, MergedFields
  <2> QED BY <2>2, <2>3, <2>6, <1>5 DEF StatesMerged
<1>19. PICK P : P = ToSet(q.pend)
  OBVIOUS
<1>20. Agree(ToSet(l2), Head(l2), P \ (F \cup {t}), r.q.st)
  <2>1. Agree(ToSet(l), h, P \ F, m.q.st)
    BY <1>5, <1>14, <1>19
  <2>2. CASE k = 1
    BY <2>1, <2>2, <1>7, <1>15, <1>17, <1>18, <1>19, SMTT(30) DEF Agree
  <2>3. CASE k # 1
    BY <2>1, <2>3, <1>7, <1>15, <1>17, <1>18, <1>19, SMTT(30) DEF Agree
  <2> QED BY <2>2, <2>3
<1>21. Keeps(q, r.q, {})
  <2>1. Keeps(m.q, r.q, {})
    <3>1. m.q.st[t] = "pending" /\ m.q.st[h] = "running"
      BY <1>5, <1>7, <1>14, <1>15 DEF Agree
    <3> QED BY <3>1, <1>18 DEF Keeps, Ready
  <2> QED BY <2>1, <1>5, KeepsTrans
<1>22. ToSet(l2) = ToSet(q.rtr) \cup FirstOf(q.pend, i)
  BY <1>5, <1>7, <1>17
<1>23. i > 0 /\ r.q.rtr[r.at] = q.pend[i]
  BY <1>1, <1>17, <1>18
<1> QED BY <1>7, <1>17, <1>18, <1>19, <1>20, <1>21, <1>22, <1>23 DEF Merging

LEMMA Merged ==
    ASSUME NEW q, NEW pr, Priorities(pr), Good(q, pr), NEW lock \in [All -> Int],
           NEW r, r = MergePending(q, pr, lock)
    PROVE  /\ Good(r, pr) /\ Prompt(r, lock) /\ Keeps(q, r, {})
           /\ Locked(q, lock) => r = q
<1>1. lock[Head(q.rtr)] \in Int
  BY Fields
<1>2. CASE lock[Head(q.rtr)] > 0
  <2>1. r = q
    BY <1>2 DEF MergePending
  <2>2. Prompt(r, lock)
    BY <1>1, <1>2, <2>1 DEF Prompt
  <2> QED BY <2>1, <2>2 DEF Keeps
<1>3. CASE ~(lock[Head(q.rtr)] > 0)
  <2>1. PICK n : n = Len(q.pend)
    OBVIOUS
  <2>2. n \in Nat /\ q.pend \in Seq(Tasks)
    BY <2>1, Fields
  <2>3. PICK f : f = Turns(q, pr)
    OBVIOUS
  <2>4. /\ f[0] = [at |-> 1, q |-> q]
        /\ \A i \in 1 .. n : f[i] = MergeOne(f[i - 1], q.pend[i], pr)
    BY <2>1, <2>2, <2>3, TurnByTurn
  <2>5. PICK Bad : Bad = {i \in 0 .. n : ~Merging(q, pr, i, f[i])}
    OBVIOUS
  <2>6. Bad = {}
    <3> SUFFICES ASSUME Bad # {} PROVE FALSE
      OBVIOUS
    <3>1. PICK i \in Bad : \A j \in Bad : i <= j
      <4>1. Bad \subseteq Nat
        BY <2>2, <2>5
      <4> QED BY <4>1, LeastNatural
    <3>2. i # 0
      BY <2>4, <2>5, <3>1, MergingStarts
    <3>3. i \in 1 .. n /\ i - 1 \in 0 .. n /\ i - 1 < i
      BY <2>2, <2>5, <3>2
    <3>4. Merging(q, pr, i - 1, f[i - 1])
      BY <2>5, <3>1, <3>3
    <3>5. Merging(q, pr, i, f[i])
      BY <2>1, <2>4, <3>3, <3>4, MergingStep
    <3> QED BY <2>5, <3>5
  <2>7. PICK m : m = f[n]
    OBVIOUS
  <2>8. Merging(q, pr, n, m)
    BY <2>2, <2>5, <2>6, <2>7
  <2>9. r = [m.q EXCEPT !.pend = <<>>]
    BY <1>3, <2>1, <2>3, <2>7 DEF MergePending
  <2>10. FirstOf(q.pend, n) = ToSet(q.pend)
    BY <2>1, <2>2 DEF FirstOf, ToSet
  <2>11. PICK E \in Seq(Tasks) : E = <<>>
    <3>1. <<>> \in Seq(Tasks)
      OBVIOUS
    <3> QED BY <3>1, Zenon
  <2>12. ToSet(E) = {} /\ Line(E, pr)
    <3>1. E \in Seq(All) /\ Len(E) = 0
      BY <2>11 DEF All
    <3>2. NoDuplicates(E) /\ IsPrioritized(E, pr)
      BY <3>1 DEF NoDuplicates, IsPrioritized
    <3> QED BY <2>11, <3>1, <3>2, ToSetEmpty DEF Line
  <2>13. m.q \in QueueRecords
    BY <2>8 DEF Merging
  <2>14. r \in QueueRecords /\ r.rtr = m.q.rtr /\ r.pend = E /\ r.st = m.q.st
    BY <2>9, <2>11, <2>13 DEF QueueRecords
  <2>15. /\ Line(r.rtr, pr) /\ r.rtr # <<>> /\ ToSet(r.rtr) = ToSet(q.rtr) \cup ToSet(q.pend)
         /\ Agree(ToSet(r.rtr), Head(r.rtr), ToSet(q.pend) \ ToSet(q.pend), r.st)
         /\ Keeps(q, m.q, {})
    BY <2>8, <2>10, <2>14 DEF Merging
  <2>16. Agree(ToSet(r.rtr), Head(r.rtr), ToSet(r.pend), r.st)
    <3>1. ToSet(q.pend) \ ToSet(q.pend) = ToSet(r.pend)
      BY <2>12, <2>14
    <3> QED BY <2>15, <3>1
  <2>17. Idle \in ToSet(r.rtr) /\ Line(r.pend, pr)
    BY <2>12, <2>14, <2>15, Fields
  <2>18. Good(r, pr)
    BY <2>14, <2>15, <2>16, <2>17 DEF Good
  <2>19. Prompt(r, lock)
    BY <2>11, <2>14 DEF Prompt
  <2>20. Keeps(q, r, {})
    BY <2>14, <2>15 DEF Keeps
  <2> QED BY <1>3, <2>18, <2>19, <2>20 DEF Locked, First
<1> QED BY <1>2, <1>3

-----------------------------------------------------------------------------
(* nxsched_remove_self() and nxsched_reprioritize_rtr().                   *)

LEMMA SelfRemoved ==
    ASSUME NEW q, NEW pr, Priorities(pr), Good(q, pr), NEW t \in Tasks,
           NEW s \in States, s \notin Ready, NEW lock \in [All -> Int],
           NEW r, r = MergePending(RemoveReadyToRun(q, t, s), pr, lock)
    PROVE  /\ Good(r, pr) /\ Prompt(r, lock)
           /\ r.st[t] = s /\ Keeps(q, r, {t})
<1>1. PICK x : x = RemoveReadyToRun(q, t, s)
  OBVIOUS
<1>2. Good(x, pr) /\ x.st[t] = s /\ Keeps(q, x, {t})
  BY <1>1, Removed
<1>3. Good(r, pr) /\ Prompt(r, lock) /\ Keeps(x, r, {})
  BY <1>1, <1>2, Merged
<1>4. r.st[t] = s
  BY <1>2, <1>3, Kinds DEF Keeps
<1>5. Keeps(q, r, {t})
  BY <1>2, <1>3 DEF Keeps
<1> QED BY <1>3, <1>4, <1>5

LEMMA Reprioritized ==
    ASSUME NEW q, NEW pr, NEW pr2, Priorities(pr), Priorities(pr2), Good(q, pr),
           NEW t \in Tasks, q.st[t] \in Ready, \A u \in All \ {t} : pr2[u] = pr[u],
           NEW lock \in [All -> Int], Prompt(q, lock),
           NEW r, r = ReprioritizeRtr(q, t, pr2, lock)
    PROVE  /\ Good(r, pr2) /\ Prompt(r, lock) /\ Keeps(q, r, {})
           /\ Locked(q, lock) /\ t # First(q) => First(r) = First(q)
<1>1. PICK x : x = RemoveReadyToRun(q, t, "invalid")
  OBVIOUS
<1>2. "invalid" \in States \cup {"invalid"} /\ "invalid" \notin Ready /\ t \in All
  BY Kinds DEF Ready
<1>3. /\ Good(x, pr) /\ x.st[t] = "invalid" /\ Keeps(q, x, {t})
      /\ t # First(q) => First(x) = First(q)
      /\ t = First(q) => x.pend = q.pend /\ First(x) # t
      /\ q.pend = <<>> => x.pend = <<>>
  BY <1>1, <1>2, Removed, SMTT(30)
<1>4. Good(x, pr2)
  BY <1>2, <1>3, OtherPriority
<1>5. PICK y : y = AddReadyToRun(x, t, pr2, lock)
  OBVIOUS
<1>6. /\ Good(y, pr2) /\ y.st[t] \in Ready /\ Keeps(x, y, {t})
      /\ Prompt(x, lock) => Prompt(y, lock)
      /\ Locked(x, lock) => First(y) = First(x)
      /\ First(y) = t => y.pend = x.pend
  <2>1. x.st[t] \notin Ready
    BY <1>2, <1>3
  <2>2. Good(y, pr2) /\ y.st[t] \in Ready /\ Keeps(x, y, {t})
    BY <2>1, <1>4, <1>5, Added
  <2>3. Prompt(x, lock) => Prompt(y, lock)
    BY <2>1, <1>4, <1>5, Added
  <2>4. HeadKept(x, y, t, lock)
    BY <2>1, <1>4, <1>5, Added
  <2> QED BY <2>2, <2>3, <2>4 DEF HeadKept
<1>7. Keeps(q, y, {})
  BY <1>3, <1>6 DEF Keeps
<1>8. CASE First(y) # First(q)
  <2>1. r = MergePending(y, pr2, lock)
    BY <1>1, <1>5, <1>8 DEF ReprioritizeRtr, First
  <2>2. Good(r, pr2) /\ Prompt(r, lock) /\ Keeps(y, r, {})
    BY <1>6, <2>1, Merged
  <2>3. Keeps(q, r, {})
    BY <1>7, <2>2, KeepsTrans
  <2> QED BY <1>3, <1>6, <1>8, <2>2, <2>3 DEF Locked
<1>9. CASE First(y) = First(q)
  <2>1. r = y
    BY <1>1, <1>5, <1>9 DEF ReprioritizeRtr, First
  <2>2. Prompt(y, lock)
    <3>1. CASE t = First(q)
      BY <3>1, <1>3, <1>6, <1>9 DEF Prompt, First
    <3>2. CASE t # First(q)
      BY <3>2, <1>3, <1>6, <1>9 DEF Prompt, First
    <3> QED BY <3>1, <3>2
  <2> QED BY <1>6, <1>7, <1>9, <2>1, <2>2
<1> QED BY <1>8, <1>9

-----------------------------------------------------------------------------
(* The loop of nxsched_running_setpriority(), in the same way.             *)

AddNext(f, list, us, pr, i) ==
    IF i = 0 THEN list ELSE AddPrioritized(f[i - 1], us[i], pr)

LEMMA AddAllChosen ==
    ASSUME NEW list, NEW us, NEW pr
    PROVE  AddAll(list, us, pr) =
             CHOOSE f : f = [i \in 0 .. Len(us) |-> AddNext(f, list, us, pr, i)]
BY Zenon DEF AddAll, AddNext

LEMMA AddAllExists ==
    ASSUME NEW list, NEW us, NEW pr, NEW n \in Nat
    PROVE  \E f : f = [i \in 0 .. n |-> AddNext(f, list, us, pr, i)]
<1> DEFINE Has(k) == \E f : f = [i \in 0 .. k |-> AddNext(f, list, us, pr, i)]
           Bad == {k \in Nat : ~Has(k)}
<1>1. Has(0)
  <2>1. PICK g : g = [i \in 0 .. 0 |-> list]
    OBVIOUS
  <2>2. \A i \in 0 .. 0 : AddNext(g, list, us, pr, i) = list
    BY DEF AddNext
  <2>3. g = [i \in 0 .. 0 |-> AddNext(g, list, us, pr, i)]
    BY <2>1, <2>2
  <2> QED BY <2>3
<1>2. ASSUME NEW k \in Nat, Has(k) PROVE Has(k + 1)
  <2>1. PICK f : f = [i \in 0 .. k |-> AddNext(f, list, us, pr, i)]
    BY <1>2
  <2>2. PICK g : g = [i \in 0 .. k + 1 |-> AddNext(f, list, us, pr, i)]
    OBVIOUS
  <2>3. ASSUME NEW i \in 0 .. k + 1
        PROVE  AddNext(g, list, us, pr, i) = AddNext(f, list, us, pr, i)
    <3>1. CASE i = 0
      BY <3>1 DEF AddNext
    <3>2. CASE i # 0
      <4>1. i - 1 \in 0 .. k /\ i - 1 \in 0 .. k + 1
        BY <3>2
      <4>2. f[i - 1] = AddNext(f, list, us, pr, i - 1)
        BY <2>1, <4>1
      <4>3. g[i - 1] = AddNext(f, list, us, pr, i - 1)
        BY <2>2, <4>1
      <4> QED BY <3>2, <4>2, <4>3 DEF AddNext
    <3> QED BY <3>1, <3>2
  <2>4. g = [i \in 0 .. k + 1 |-> AddNext(g, list, us, pr, i)]
    BY <2>2, <2>3
  <2> QED BY <2>4
<1>3. Bad = {}
  <2> HIDE DEF Has
  <2> SUFFICES ASSUME Bad # {} PROVE FALSE
    OBVIOUS
  <2>1. PICK k \in Bad : \A j \in Bad : k <= j
    <3>1. Bad \subseteq Nat
      OBVIOUS
    <3> HIDE DEF Bad
    <3> QED BY <3>1, LeastNatural
  <2>2. k # 0
    BY <1>1
  <2>3. k - 1 \in Nat /\ Has(k - 1)
    BY <2>1, <2>2
  <2>4. Has((k - 1) + 1)
    BY <2>3, <1>2
  <2> QED BY <2>4
<1>4. Has(n)
  <2> HIDE DEF Has
  <2> QED BY <1>3
<1> QED BY <1>4

(* Adding the tasks us to a line that has none of them makes it a line     *)
(* that has them all.                                                      *)
LEMMA AllAdded ==
    ASSUME NEW list, NEW pr, Priorities(pr), Line(list, pr),
           NEW us \in Seq(Tasks), NoDuplicates(us),
           \A u \in ToSet(us) : u \notin ToSet(list)
    PROVE  /\ Line(AddAll(list, us, pr)[Len(us)], pr)
           /\ ToSet(AddAll(list, us, pr)[Len(us)]) = ToSet(list) \cup ToSet(us)
<1>1. PICK n \in Nat : n = Len(us)
  OBVIOUS
<1>2. PICK f : f = AddAll(list, us, pr)
  OBVIOUS
<1>3. \A i \in 0 .. n : f[i] = AddNext(f, list, us, pr, i)
  <2>1. \E g : g = [i \in 0 .. n |-> AddNext(g, list, us, pr, i)]
    BY <1>1, AddAllExists, SMTT(30)
  <2>2. f = CHOOSE g : g = [i \in 0 .. n |-> AddNext(g, list, us, pr, i)]
    BY <1>1, <1>2, AddAllChosen
  <2>3. f = [i \in 0 .. n |-> AddNext(f, list, us, pr, i)]
    BY <2>1, <2>2, Zenon
  <2> QED BY <2>3
<1> DEFINE Fine(i) == /\ Line(f[i], pr)
                      /\ ToSet(f[i]) = ToSet(list) \cup FirstOf(us, i)
<1>4. Fine(0)
  <2>1. f[0] = list
    BY <1>3 DEF AddNext
  <2>2. FirstOf(us, 0) = {}
    BY DEF FirstOf
  <2> QED BY <2>1, <2>2
<1>5. ASSUME NEW i \in 1 .. n, Fine(i - 1) PROVE Fine(i)
  <2>1. f[i] = AddPrioritized(f[i - 1], us[i], pr)
    BY <1>3 DEF AddNext
  <2>2. /\ FirstOf(us, i) = FirstOf(us, i - 1) \cup {us[i]}
        /\ us[i] \in Tasks /\ us[i] \in ToSet(us) /\ us[i] \notin FirstOf(us, i - 1)
    BY <1>1, FirstOfNext
  <2>3. us[i] \in All /\ us[i] \notin ToSet(f[i - 1])
    BY <1>5, <2>2, Kinds
  <2>4. /\ Line(f[i], pr)
        /\ ToSet(f[i]) = ToSet(f[i - 1]) \cup {us[i]}
    BY <1>5, <2>1, <2>3, AddToLine
  <2> QED BY <1>5, <2>2, <2>4
<1>6. PICK Bad : Bad = {i \in 0 .. n : ~Fine(i)}
  OBVIOUS
<1>7. Bad = {}
  <2> HIDE DEF Fine
  <2> SUFFICES ASSUME Bad # {} PROVE FALSE
    OBVIOUS
  <2>1. PICK i \in Bad : \A j \in Bad : i <= j
    <3>1. Bad \subseteq Nat
      BY <1>6
    <3> QED BY <3>1, LeastNatural
  <2>2. i \in 1 .. n /\ i - 1 \in 0 .. n /\ i - 1 < i
    BY <1>4, <1>6, <2>1
  <2>3. Fine(i - 1)
    BY <1>6, <2>1, <2>2
  <2>4. Fine(i)
    BY <1>5, <2>2, <2>3
  <2> QED BY <1>6, <2>1, <2>4
<1>8. Fine(n)
  BY <1>6, <1>7
<1>9. FirstOf(us, n) = ToSet(us)
  BY <1>1 DEF FirstOf, ToSet
<1> QED BY <1>1, <1>2, <1>8, <1>9

(* The place of the last task that moves.                                  *)
LastMoved(l, p, pr, i) ==
    /\ \A j \in 3 .. i : p < pr[l[j]]
    /\ pr[l[i + 1]] <= p

LEMMA LastMovedExists ==
    ASSUME NEW l, NEW pr, Priorities(pr), Line(l, pr), Idle \in ToSet(l),
           NEW p \in Nat \ {0}, l[1] # Idle, p <= pr[l[2]],
           NEW n, n = CHOOSE i \in 2 .. Len(l) - 1 : LastMoved(l, p, pr, i)
    PROVE  n \in 2 .. Len(l) - 1 /\ LastMoved(l, p, pr, n)
<1>1. /\ l \in Seq(All) /\ Len(l) \in Nat
      /\ \A j \in 1 .. Len(l) : l[j] \in All /\ pr[l[j]] \in Int
  BY DEF Line, Priorities
<1>2. PICK m \in 1 .. Len(l) : l[m] = Idle
  BY <1>1, ToSetIndex
<1>3. pr[Idle] = 0
  BY DEF Priorities
<1>4. m # 1 /\ m # 2
  BY <1>2, <1>3
<1>5. m \in 3 .. Len(l) /\ m - 1 \in 2 .. Len(l) - 1 /\ (m - 1) + 1 = m
  BY <1>1, <1>2, <1>4
<1>6. PICK Low : Low = {i \in 2 .. Len(l) - 1 : pr[l[i + 1]] <= p}
  OBVIOUS
<1>7. Low \subseteq Nat /\ m - 1 \in Low
  BY <1>1, <1>2, <1>3, <1>5, <1>6
<1>8. PICK i \in Low : \A j \in Low : i <= j
  BY <1>7, LeastNatural
<1>9. i \in 2 .. Len(l) - 1 /\ pr[l[i + 1]] <= p
  BY <1>6, <1>8
<1>10. ASSUME NEW j \in 3 .. i PROVE p < pr[l[j]]
  <2>1. j - 1 \in 2 .. Len(l) - 1 /\ j - 1 < i /\ (j - 1) + 1 = j /\ j \in 1 .. Len(l)
    BY <1>1, <1>9
  <2>2. j - 1 \notin Low
    BY <2>1, <1>8, <1>9
  <2>3. ~(pr[l[(j - 1) + 1]] <= p)
    BY <2>1, <2>2, <1>6
  <2> QED BY <2>1, <2>3, <1>1
<1>11. LastMoved(l, p, pr, i)
  BY <1>9, <1>10 DEF LastMoved
<1> QED BY <1>9, <1>11

(* The list cut in two: the tasks from 2 to n, and the rest.               *)
CutAs(l, moved, kept, pr2) ==
    /\ moved \in Seq(Tasks) /\ NoDuplicates(moved)
    /\ Line(kept, pr2) /\ kept # <<>> /\ Head(kept) = Head(l)
    /\ ToSet(kept) = ToSet(l) \ ToSet(moved)
    /\ Head(l) \notin ToSet(moved) /\ ToSet(moved) \subseteq ToSet(l)

LEMMA CutInTwo ==
    ASSUME NEW l, NEW pr, NEW pr2, Priorities(pr), Priorities(pr2), Line(l, pr),
           NEW n \in 2 .. Len(l) - 1,
           \A u \in All \ {l[1]} : pr2[u] = pr[u], pr[l[n + 1]] <= pr2[l[1]],
           \A j \in 2 .. n : l[j] \in Tasks,
           NEW moved, moved = SubSeq(l, 2, n),
           NEW kept, kept = <<Head(l)>> \o SubSeq(l, n + 1, Len(l))
    PROVE  CutAs(l, moved, kept, pr2)
<1>1. /\ l \in Seq(All) /\ Len(l) \in Nat /\ Head(l) = l[1] /\ n \in Nat
      /\ \A j \in 1 .. Len(l) : l[j] \in All /\ pr[l[j]] \in Int /\ pr2[l[j]] \in Int
  <2>1. l \in Seq(All) /\ Len(l) \in Nat
    BY DEF Line
  <2>2. l # <<>> /\ n \in Nat
    BY <2>1
  <2>3. pr \in [All -> Nat] /\ pr2 \in [All -> Nat]
    BY DEF Priorities
  <2>4. Head(l) = l[1]
    BY <2>1, <2>2
  <2>5. ASSUME NEW j \in 1 .. Len(l)
        PROVE  l[j] \in All /\ pr[l[j]] \in Int /\ pr2[l[j]] \in Int
    <3>1. l[j] \in All
      BY <2>1
    <3> QED BY <3>1, <2>3
  <2> QED BY <2>1, <2>2, <2>4, <2>5
<1>2. \A i, j \in 1 .. Len(l) : i < j => pr[l[j]] <= pr[l[i]]
  BY DEF Line, IsPrioritized
<1>3. \A i, j \in 1 .. Len(l) : l[i] = l[j] => i = j
  BY DEF Line, NoDuplicates
<1>4. /\ moved \in Seq(All) /\ Len(moved) = n - 1
      /\ \A j \in 1 .. n - 1 : moved[j] = l[j + 1]
  BY <1>1, SubSeqProperties
<1>5. PICK rest : rest = SubSeq(l, n + 1, Len(l))
  OBVIOUS
<1>6. /\ rest \in Seq(All) /\ Len(rest) = Len(l) - n
      /\ \A j \in 1 .. Len(l) - n : rest[j] = l[j + n]
  <2>1. n + 1 \in 1 .. Len(l) + 1 /\ Len(l) \in n .. Len(l) /\ n + 1 \in Nat
    BY <1>1
  <2>2. /\ rest \in Seq(All)
        /\ Len(rest) = IF n + 1 <= Len(l) THEN Len(l) - (n + 1) + 1 ELSE 0
        /\ \A j \in 1 .. Len(l) - (n + 1) + 1 : rest[j] = l[(n + 1) + j - 1]
    BY <1>1, <1>5, <2>1, SubSeqProperties
  <2>3. \A j \in 1 .. Len(l) - n : j \in 1 .. Len(l) - (n + 1) + 1 /\ (n + 1) + j - 1 = j + n
    BY <1>1
  <2>4. Len(rest) = Len(l) - n
    BY <1>1, <2>2
  <2> QED BY <2>2, <2>3, <2>4
<1>7. /\ kept \in Seq(All) /\ Len(kept) = Len(l) - n + 1
      /\ kept[1] = l[1]
      /\ \A j \in 2 .. Len(l) - n + 1 : kept[j] = l[j + n - 1]
  <2>1. PICK one \in Seq(All) : one = <<l[1]>> /\ Len(one) = 1 /\ one[1] = l[1]
    <3>1. l[1] \in All
      BY <1>1
    <3>2. PICK h : h = l[1]
      OBVIOUS
    <3>3. <<h>> \in Seq(All) /\ Len(<<h>>) = 1 /\ <<h>>[1] = h
      BY <3>1, <3>2
    <3> QED BY <3>2, <3>3, Zenon
  <2>2. kept = one \o rest
    BY <1>1, <1>5, <2>1
  <2>3. /\ kept \in Seq(All) /\ Len(kept) = 1 + Len(rest)
        /\ \A j \in 1 .. 1 + Len(rest) : kept[j] = IF j <= 1 THEN one[j] ELSE rest[j - 1]
    <3>1. /\ one \o rest \in Seq(All) /\ Len(one \o rest) = Len(one) + Len(rest)
          /\ \A j \in 1 .. Len(one) + Len(rest) :
                (one \o rest)[j] = IF j <= Len(one) THEN one[j] ELSE rest[j - Len(one)]
      <4>1. one \in Seq(All) /\ rest \in Seq(All)
        BY <2>1, <1>6
      <4> QED BY <4>1, ConcatProperties, ZenonT(30)
    <3> QED BY <2>1, <2>2, <3>1
  <2>4. ASSUME NEW j \in 2 .. Len(l) - n + 1 PROVE kept[j] = l[j + n - 1]
    <3>1. j - 1 \in 1 .. Len(l) - n /\ (j - 1) + n = j + n - 1 /\ j \in 1 .. 1 + Len(rest) /\ ~(j <= 1)
      BY <1>1, <1>6
    <3>2. kept[j] = rest[j - 1]
      BY <2>3, <3>1
    <3>3. rest[j - 1] = l[(j - 1) + n]
      BY <1>6, <3>1
    <3> QED BY <3>1, <3>2, <3>3
  <2>5. 1 \in 1 .. 1 + Len(rest)
    BY <1>1, <1>6
  <2> QED BY <2>1, <2>3, <2>4, <2>5, <1>1, <1>6, SMTT(30)
<1>8. moved \in Seq(Tasks) /\ NoDuplicates(moved)
  <2>1. ASSUME NEW j \in 1 .. n - 1 PROVE moved[j] \in Tasks
    BY <1>4
  <2>2. ASSUME NEW i \in 1 .. n - 1, NEW j \in 1 .. n - 1, moved[i] = moved[j] PROVE i = j
    <3>1. i + 1 \in 1 .. Len(l) /\ j + 1 \in 1 .. Len(l)
      BY <1>1
    <3> QED BY <2>2, <3>1, <1>3, <1>4
  <2> QED BY <2>1, <2>2, <1>4 DEF NoDuplicates
<1>9. NoDuplicates(kept)
  <2>1. ASSUME NEW i \in 1 .. Len(kept), NEW j \in 1 .. Len(kept), i < j
        PROVE  kept[i] # kept[j]
    <3>1. j \in 2 .. Len(l) - n + 1 /\ j + n - 1 \in 1 .. Len(l)
      BY <1>1, <1>7, <2>1
    <3>2. CASE i = 1
      BY <3>1, <3>2, <1>1, <1>3, <1>7
    <3>3. CASE i # 1
      <4>1. i \in 2 .. Len(l) - n + 1 /\ i + n - 1 \in 1 .. Len(l) /\ i + n - 1 # j + n - 1
        BY <1>1, <1>7, <2>1, <3>3, SMTT(30)
      <4> QED BY <3>1, <4>1, <1>3, <1>7, ZenonT(30)
    <3> QED BY <3>2, <3>3
  <2>2. \A i, j \in 1 .. Len(kept) : i = j \/ i < j \/ j < i
    BY <1>1, <1>7
  <2> QED BY <2>1, <2>2 DEF NoDuplicates
<1>10. ASSUME NEW i \in 1 .. Len(kept), NEW j \in 1 .. Len(kept), i < j
       PROVE  pr2[kept[j]] <= pr2[kept[i]]
  <2>1. /\ j \in 2 .. Len(l) - n + 1 /\ j + n - 1 \in 1 .. Len(l)
        /\ j + n - 1 # 1 /\ n + 1 \in 1 .. Len(l) /\ 1 \in 1 .. Len(l)
        /\ (n + 1 = j + n - 1 \/ n + 1 < j + n - 1)
    BY <1>1, <1>7, <1>10
  <2>2. kept[j] = l[j + n - 1] /\ pr2[kept[j]] = pr[l[j + n - 1]]
    <3>1. l[j + n - 1] # l[1] /\ l[j + n - 1] \in All
      BY <2>1, <1>1, <1>3
    <3> QED BY <2>1, <3>1, <1>7
  <2>3. CASE i = 1
    <3>1. pr[l[j + n - 1]] <= pr[l[n + 1]]
      <4>1. CASE n + 1 = j + n - 1
        <5>1. pr[l[n + 1]] \in Int
          BY <2>1, <1>1
        <5> QED BY <4>1, <5>1
      <4>2. CASE n + 1 < j + n - 1
        BY <4>2, <2>1, <1>2
      <4> QED BY <4>1, <4>2, <2>1
    <3>2. kept[i] = l[1]
      BY <2>3, <1>7
    <3>3. pr[l[j + n - 1]] \in Int /\ pr[l[n + 1]] \in Int /\ pr2[l[1]] \in Int
      BY <2>1, <1>1
    <3>4. pr[l[j + n - 1]] <= pr2[l[1]]
      BY <3>1, <3>3, SMTT(30)
    <3> QED BY <2>2, <3>2, <3>4, Zenon
  <2>4. CASE i # 1
    <3>1. /\ i \in 2 .. Len(l) - n + 1 /\ i + n - 1 \in 1 .. Len(l)
          /\ i + n - 1 < j + n - 1 /\ i + n - 1 # 1
      <4>1. i \in Int /\ j \in Int /\ Len(kept) \in Int
        BY <1>1, <1>7
      <4>2. i \in 2 .. Len(kept)
        BY <4>1, <2>4
      <4>3. /\ Len(kept) = Len(l) - n + 1 /\ Len(l) \in Nat /\ n \in Nat /\ n >= 2
            /\ i < j
        BY <1>1, <1>7, <1>10
      <4>4. PICK m : m = Len(kept)
        OBVIOUS
      <4>5. PICK p : p = Len(l)
        OBVIOUS
      <4>6. m = p - n + 1 /\ p \in Nat /\ i \in 2 .. m /\ m \in Int
        BY <4>1, <4>2, <4>3, <4>4, <4>5
      <4>7. /\ i \in 2 .. p - n + 1 /\ i + n - 1 \in 1 .. p
            /\ i + n - 1 < j + n - 1 /\ i + n - 1 # 1
        BY <4>1, <4>3, <4>6
      <4> QED BY <4>5, <4>7
    <3>2. kept[i] = l[i + n - 1] /\ pr2[kept[i]] = pr[l[i + n - 1]]
      <4>1. l[i + n - 1] # l[1] /\ l[i + n - 1] \in All
        BY <2>1, <3>1, <1>1, <1>3
      <4> QED BY <3>1, <4>1, <1>7
    <3> QED BY <2>1, <2>2, <3>1, <3>2, <1>2
  <2> QED BY <2>3, <2>4
<1>11. Line(kept, pr2) /\ kept # <<>> /\ Head(kept) = Head(l)
  <2>1. IsPrioritized(kept, pr2)
    BY <1>10 DEF IsPrioritized
  <2>2. Len(kept) # 0 /\ kept # <<>>
    BY <1>1, <1>7
  <2>3. Head(kept) = kept[1]
    BY <1>7, <2>2
  <2> QED BY <1>1, <1>7, <1>9, <2>1, <2>2, <2>3 DEF Line
<1>12. \A j \in 1 .. Len(l) : l[j] \in ToSet(moved) <=> j \in 2 .. n
  <2> TAKE j \in 1 .. Len(l)
  <2>1. ASSUME j \in 2 .. n PROVE l[j] \in ToSet(moved)
    <3>1. j - 1 \in 1 .. Len(moved) /\ moved[j - 1] = l[j]
      BY <1>1, <1>4, <2>1
    <3>2. moved[j - 1] \in ToSet(moved)
      <4>1. moved \in Seq(All)
        BY <1>4
      <4>2. \A k \in 1 .. Len(moved) : moved[k] \in ToSet(moved)
        <5>1. DOMAIN moved = 1 .. Len(moved)
          BY <4>1
        <5> QED BY <5>1 DEF ToSet
      <4> QED BY <3>1, <4>2
    <3> QED BY <3>1, <3>2
  <2>2. ASSUME l[j] \in ToSet(moved) PROVE j \in 2 .. n
    <3>1. PICK i \in 1 .. Len(moved) : l[j] = moved[i]
      BY <2>2, <1>4, ToSetIndex, ZenonT(30)
    <3>2. i + 1 \in 1 .. Len(l) /\ l[j] = l[i + 1] /\ i + 1 \in 2 .. n
      BY <3>1, <1>1, <1>4
    <3> QED BY <3>2, <1>3
  <2> QED BY <2>1, <2>2
<1>13. \A j \in 1 .. Len(l) : l[j] \in ToSet(kept) <=> j \notin 2 .. n
  <2> TAKE j \in 1 .. Len(l)
  <2>0. \A k \in 1 .. Len(kept) : kept[k] \in ToSet(kept)
    <3>1. kept \in Seq(All)
      BY <1>7
    <3>2. DOMAIN kept = 1 .. Len(kept)
      BY <3>1
    <3> QED BY <3>2 DEF ToSet
  <2>1. ASSUME j \notin 2 .. n PROVE l[j] \in ToSet(kept)
    <3>1. CASE j = 1
      <4>1. 1 \in 1 .. Len(kept) /\ kept[1] = l[j]
        BY <3>1, <1>1, <1>7
      <4>2. kept[1] \in ToSet(kept)
        BY <4>1, <2>0
      <4> QED BY <4>1, <4>2
    <3>2. CASE j # 1
      <4>1. /\ j - n + 1 \in 2 .. Len(l) - n + 1 /\ (j - n + 1) + n - 1 = j
            /\ j - n + 1 \in 1 .. Len(kept)
        BY <2>1, <3>2, <1>1, <1>7
      <4>2. kept[j - n + 1] = l[j]
        BY <4>1, <1>7
      <4>3. kept[j - n + 1] \in ToSet(kept)
        BY <4>1, <2>0
      <4> QED BY <4>2, <4>3
    <3> QED BY <3>1, <3>2
  <2>2. ASSUME l[j] \in ToSet(kept) PROVE j \notin 2 .. n
    <3>1. PICK i \in 1 .. Len(kept) : l[j] = kept[i]
      <4>1. kept \in Seq(All)
        BY <1>7
      <4> QED BY <2>2, <4>1, ToSetIndex
    <3>2. CASE i = 1
      BY <3>1, <3>2, <1>1, <1>3, <1>7
    <3>3. CASE i # 1
      <4>1. i \in 2 .. Len(l) - n + 1 /\ i + n - 1 \in 1 .. Len(l) /\ i + n - 1 \notin 2 .. n
        BY <3>1, <3>3, <1>1, <1>7
      <4> QED BY <3>1, <4>1, <1>3, <1>7
    <3> QED BY <3>2, <3>3
  <2> QED BY <2>1, <2>2
<1>14. ToSet(moved) \subseteq ToSet(l)
  <2>1. ASSUME NEW u \in ToSet(moved) PROVE u \in ToSet(l)
    <3>1. PICK i \in 1 .. Len(moved) : u = moved[i]
      BY <1>4, ToSetIndex
    <3>2. i + 1 \in 1 .. Len(l) /\ u = l[i + 1]
      BY <3>1, <1>1, <1>4
    <3> QED BY <3>2, <1>1, ToSetIndex
  <2> QED BY <2>1
<1>15. ToSet(kept) \subseteq ToSet(l)
  <2>1. ASSUME NEW u \in ToSet(kept) PROVE u \in ToSet(l)
    <3>1. PICK i \in 1 .. Len(kept) : u = kept[i]
      BY <1>7, ToSetIndex
    <3>2. \E j \in 1 .. Len(l) : u = l[j]
      <4>1. CASE i = 1
        BY <3>1, <4>1, <1>1, <1>7
      <4>2. CASE i # 1
        <5>1. i \in 2 .. Len(l) - n + 1 /\ i + n - 1 \in 1 .. Len(l)
          BY <3>1, <4>2, <1>1, <1>7
        <5> QED BY <3>1, <5>1, <1>7
      <4> QED BY <4>1, <4>2
    <3> QED BY <3>2, <1>1, ToSetIndex
  <2> QED BY <2>1
<1>16. ToSet(kept) = ToSet(l) \ ToSet(moved)
  <2>1. ASSUME NEW u \in ToSet(l) PROVE u \in ToSet(kept) <=> u \notin ToSet(moved)
    <3>1. PICK j \in 1 .. Len(l) : u = l[j]
      BY <1>1, ToSetIndex
    <3> QED BY <3>1, <1>12, <1>13
  <2> QED BY <2>1, <1>14, <1>15
<1>17. Head(l) \notin ToSet(moved)
  <2>1. 1 \in 1 .. Len(l) /\ 1 \notin 2 .. n
    BY <1>1
  <2> QED BY <2>1, <1>1, <1>12
<1> QED BY <1>8, <1>11, <1>14, <1>16, <1>17, Zenon DEF CutAs

(* What changes when the running task t has priority p from now on.        *)
NewPriority(q, t, p, pr, pr2) ==
    /\ Priorities(pr) /\ Priorities(pr2) /\ Good(q, pr)
    /\ t = First(q) /\ t \in Tasks
    /\ p \in Nat \ {0} /\ pr2[t] = p
    /\ \A u \in All \ {t} : pr2[u] = pr[u]

LEMMA Second ==
    ASSUME NEW q, NEW pr, Good(q, pr), First(q) # Idle
    PROVE  /\ 2 \in 1 .. Len(q.rtr) /\ q.rtr[1] = First(q)
           /\ q.rtr[2] \in ToSet(q.rtr) /\ q.rtr[2] \in All /\ q.rtr[2] # First(q)
<1>1. q.rtr \in Seq(All) /\ q.rtr # <<>> /\ Idle \in ToSet(q.rtr) /\ NoDuplicates(q.rtr)
  BY Fields DEF Line
<1>2. Len(q.rtr) \in Nat \ {0} /\ q.rtr[1] = First(q)
  BY <1>1 DEF First
<1>3. PICK m \in 1 .. Len(q.rtr) : Idle = q.rtr[m]
  BY <1>1, ToSetIndex
<1>4. m # 1
  BY <1>2, <1>3
<1>5. 2 \in 1 .. Len(q.rtr) /\ 1 \in 1 .. Len(q.rtr)
  BY <1>2, <1>3, <1>4
<1>6. q.rtr[2] # q.rtr[1]
  BY <1>1, <1>5 DEF NoDuplicates
<1> QED BY <1>1, <1>2, <1>5, <1>6, ToSetIndex

MovedAs(q, n, moved, pr) ==
    [rtr  |-> <<Head(q.rtr)>> \o SubSeq(q.rtr, n + 1, Len(q.rtr)),
     pend |-> AddAll(q.pend, moved, pr)[Len(moved)],
     st   |-> [u \in All |-> IF u \in ToSet(moved) THEN "pending" ELSE q.st[u]]]

LEMMA MoveIs ==
    ASSUME NEW q, NEW p, NEW pr, NEW n,
           n = CHOOSE i \in 2 .. Len(q.rtr) - 1 : LastMoved(q.rtr, p, pr, i),
           NEW moved, moved = SubSeq(q.rtr, 2, n)
    PROVE  MoveToPending(q, p, pr) = MovedAs(q, n, moved, pr)
BY Zenon DEF MoveToPending, LastMoved, MovedAs

LEMMA MovedToPending ==
    ASSUME NEW q, NEW t, NEW p, NEW pr, NEW pr2, NewPriority(q, t, p, pr, pr2),
           p <= pr[q.rtr[2]], NEW lock \in [All -> Int], Locked(q, lock),
           NEW r, r = MoveToPending(q, p, pr)
    PROVE  Good(r, pr2) /\ Prompt(r, lock) /\ First(r) = First(q) /\ Keeps(q, r, {})
<1>1. /\ Priorities(pr) /\ Priorities(pr2) /\ Good(q, pr) /\ t = First(q) /\ t \in Tasks
      /\ p \in Nat \ {0} /\ pr2[t] = p /\ \A u \in All \ {t} : pr2[u] = pr[u]
  BY DEF NewPriority
<1>2. PICK l : l = q.rtr
  OBVIOUS
<1>3. /\ l \in Seq(All) /\ Line(l, pr) /\ Idle \in ToSet(l) /\ l # <<>>
      /\ q.pend \in Seq(Tasks) /\ Line(q.pend, pr)
      /\ q.st \in [All -> States \cup {"invalid"}]
  BY <1>1, <1>2, Fields
<1>4. /\ 2 \in 1 .. Len(l) /\ l[1] = t /\ Head(l) = t /\ t \in All /\ t # Idle
      /\ p <= pr[l[2]]
  BY <1>1, <1>2, Second, Kinds DEF First
<1>5. PICK n : n = CHOOSE i \in 2 .. Len(l) - 1 : LastMoved(l, p, pr, i)
  OBVIOUS
<1>6. n \in 2 .. Len(l) - 1 /\ LastMoved(l, p, pr, n)
  BY <1>1, <1>3, <1>4, <1>5, LastMovedExists
<1>7. PICK moved : moved = SubSeq(l, 2, n)
  OBVIOUS
<1>8. PICK kept : kept = <<Head(l)>> \o SubSeq(l, n + 1, Len(l))
  OBVIOUS
<1>9. PICK added : added = AddAll(q.pend, moved, pr)[Len(moved)]
  OBVIOUS
<1>10. r = [rtr |-> kept, pend |-> added,
            st |-> [u \in All |-> IF u \in ToSet(moved) THEN "pending" ELSE q.st[u]]]
  <2>1. /\ n = CHOOSE i \in 2 .. Len(q.rtr) - 1 : LastMoved(q.rtr, p, pr, i)
        /\ moved = SubSeq(q.rtr, 2, n)
    BY <1>2, <1>5, <1>7
  <2>2. MoveToPending(q, p, pr) = MovedAs(q, n, moved, pr)
    BY <2>1, MoveIs
  <2> QED BY <2>2, <1>2, <1>8, <1>9, Zenon DEF MovedAs
<1>11. ASSUME NEW j \in 2 .. n PROVE l[j] \in Tasks
  <2>1. j \in 1 .. Len(l) /\ (j = 2 \/ j \in 3 .. n)
    BY <1>3, <1>6
  <2>2. l[j] \in All /\ pr[l[j]] \in Int
    <3>1. l[j] \in All
      BY <2>1, <1>3
    <3> QED BY <3>1, <1>1 DEF Priorities
  <2>3. p <= pr[l[j]]
    BY <2>1, <2>2, <1>1, <1>4, <1>6 DEF LastMoved
  <2>4. l[j] # Idle
    BY <2>2, <2>3, <1>1 DEF Priorities
  <2> QED BY <2>2, <2>4 DEF All
<1>12. pr[l[n + 1]] <= pr2[l[1]] /\ \A u \in All \ {l[1]} : pr2[u] = pr[u]
  BY <1>1, <1>4, <1>6 DEF LastMoved
<1>13. /\ moved \in Seq(Tasks) /\ NoDuplicates(moved)
       /\ Line(kept, pr2) /\ kept # <<>> /\ Head(kept) = t
       /\ ToSet(kept) = ToSet(l) \ ToSet(moved)
       /\ t \notin ToSet(moved) /\ ToSet(moved) \subseteq ToSet(l)
  <2>1. CutAs(l, moved, kept, pr2)
    BY <1>1, <1>3, <1>6, <1>7, <1>8, <1>11, <1>12, CutInTwo
  <2> QED BY <2>1, <1>4 DEF CutAs
<1>14. Agree(ToSet(l), t, ToSet(q.pend), q.st)
  BY <1>1, <1>2 DEF Good, First
<1>15. \A u \in ToSet(moved) : u \notin ToSet(q.pend)
  BY <1>13, <1>14 DEF Agree
<1>16. Line(added, pr) /\ ToSet(added) = ToSet(q.pend) \cup ToSet(moved)
  BY <1>1, <1>3, <1>9, <1>13, <1>15, AllAdded
<1>17. ToSet(moved) \subseteq Tasks /\ ToSet(q.pend) \subseteq Tasks
  BY <1>3, <1>13, ToSetIndex
<1>18. added \in Seq(Tasks)
  BY <1>16, <1>17, TasksOnly DEF Line
<1>19. t \notin ToSet(added)
  <2>1. t \notin ToSet(q.pend)
    BY <1>14 DEF Agree
  <2> QED BY <2>1, <1>13, <1>16
<1>20. Line(added, pr2)
  <2>1. \A u \in ToSet(added) : pr2[u] = pr[u]
    BY <1>1, <1>16, <1>17, <1>19, Kinds
  <2> QED BY <2>1, <1>16, SamePrioritiesLine
<1>21. PICK f : f = [u \in All |-> IF u \in ToSet(moved) THEN "pending" ELSE q.st[u]]
  OBVIOUS
<1>22. /\ f \in [All -> States \cup {"invalid"}]
       /\ \A u \in All : f[u] = IF u \in ToSet(moved) THEN "pending" ELSE q.st[u]
  BY <1>3, <1>21 DEF States
<1>23. /\ r \in QueueRecords /\ r.rtr = kept /\ r.pend = added /\ r.st = f
  <2>1. kept \in Seq(All)
    BY <1>13 DEF Line
  <2>2. r = [rtr |-> kept, pend |-> added, st |-> f]
    BY <1>10, <1>21
  <2> QED BY <2>1, <2>2, <1>18, <1>22 DEF QueueRecords
<1>24. Agree(ToSet(kept), t, ToSet(added), f)
  BY <1>13, <1>14, <1>16, <1>17, <1>22, Kinds DEF Agree
<1>25. Idle \in ToSet(kept)
  BY <1>3, <1>13, <1>17, Kinds
<1>26. Good(r, pr2)
  BY <1>13, <1>20, <1>23, <1>24, <1>25 DEF Good
<1>27. First(r) = First(q)
  BY <1>1, <1>13, <1>23 DEF First
<1>28. Prompt(r, lock)
  <2>1. lock[Head(r.rtr)] > 0 /\ lock[Head(r.rtr)] \in Int
    BY <1>1, <1>4, <1>27 DEF Locked, First
  <2> QED BY <2>1 DEF Prompt
<1>29. Keeps(q, r, {})
  <2>1. \A u \in ToSet(moved) : q.st[u] \in Ready
    BY <1>13, <1>14, <1>17, Kinds DEF Agree, Ready
  <2> QED BY <2>1, <1>22, <1>23 DEF Keeps, Ready
<1> QED BY <1>26, <1>27, <1>28, <1>29

(* A running task whose priority stays above that of the next one stays    *)
(* where it is.                                                            *)
LEMMA StaysFirst ==
    ASSUME NEW q, NEW t, NEW p, NEW pr, NEW pr2, NewPriority(q, t, p, pr, pr2),
           p > pr[q.rtr[2]]
    PROVE  Good(q, pr2)
<1>1. /\ Priorities(pr) /\ Priorities(pr2) /\ Good(q, pr) /\ t = First(q) /\ t \in Tasks
      /\ p \in Nat \ {0} /\ pr2[t] = p /\ \A u \in All \ {t} : pr2[u] = pr[u]
  BY DEF NewPriority
<1>2. PICK l : l = q.rtr
  OBVIOUS
<1>3. /\ l \in Seq(All) /\ Len(l) \in Nat /\ Line(l, pr) /\ NoDuplicates(l)
      /\ Line(q.pend, pr) /\ ToSet(q.pend) \subseteq Tasks
  BY <1>1, <1>2, Fields DEF Line
<1>4. /\ 2 \in 1 .. Len(l) /\ l[1] = t /\ t \in All /\ p > pr[l[2]]
      /\ \A j \in 1 .. Len(l) : l[j] \in All /\ pr[l[j]] \in Int
  <2>1. 2 \in 1 .. Len(l) /\ l[1] = t
    BY <1>1, <1>2, Second, Kinds
  <2> QED BY <1>1, <1>2, <1>3, <2>1, Kinds, SMTT(30) DEF Priorities
<1>5. \A i, j \in 1 .. Len(l) : i < j => pr[l[j]] <= pr[l[i]]
  BY <1>3 DEF Line, IsPrioritized
<1>6. ASSUME NEW j \in 2 .. Len(l) PROVE pr2[l[j]] = pr[l[j]] /\ pr[l[j]] <= p
  <2>1. j \in 1 .. Len(l) /\ 1 \in 1 .. Len(l) /\ j # 1 /\ (j = 2 \/ 2 < j)
    BY <1>3, <1>4
  <2>2. l[j] # t /\ l[j] \in All
    BY <2>1, <1>3, <1>4 DEF NoDuplicates
  <2>3. pr[l[j]] <= pr[l[2]] /\ pr[l[2]] \in Int /\ pr[l[j]] \in Int
    BY <2>1, <1>4, <1>5
  <2> QED BY <2>2, <2>3, <1>1, <1>4
<1>7. ASSUME NEW i \in 1 .. Len(l), NEW j \in 1 .. Len(l), i < j
      PROVE  pr2[l[j]] <= pr2[l[i]]
  <2>1. j \in 2 .. Len(l)
    BY <1>3, <1>7
  <2>2. CASE i = 1
    BY <2>1, <2>2, <1>1, <1>4, <1>6
  <2>3. CASE i # 1
    <3>1. i \in 2 .. Len(l)
      BY <1>3, <2>3
    <3> QED BY <2>1, <3>1, <1>5, <1>6, <1>7
  <2> QED BY <2>2, <2>3
<1>8. Line(q.rtr, pr2)
  BY <1>2, <1>3, <1>7 DEF Line, IsPrioritized
<1>9. Line(q.pend, pr2)
  <2>1. t \notin ToSet(q.pend)
    BY <1>1, Fields, NotInLists DEF First
  <2>2. \A u \in ToSet(q.pend) : pr2[u] = pr[u]
    BY <2>1, <1>1, <1>3, Kinds
  <2> QED BY <2>2, <1>3, SamePrioritiesLine
<1> QED BY <1>1, <1>8, <1>9 DEF Good

-----------------------------------------------------------------------------
(* The inductive invariant.                                                *)

(* No count of locks is negative, and a task inside a wait on a semaphore  *)
(* with priority inheritance has preemption disabled.                      *)
Counts ==
    /\ lockcount \in [All -> Nat]
    /\ resume \in [All -> Protocols \cup {"none"}]
    /\ \A t \in All : resume[t] # "none" => lockcount[t] > 0

PrioritiesOK == prio \in [All -> Prios \cup {0}] /\ Priorities(prio)

QueuesOK ==
    /\ Good(Queues, prio)
    /\ Prompt(Queues, lockcount)
    /\ state \in [All -> States]

IInv ==
    /\ Counts
    /\ PrioritiesOK
    /\ timeslice \in [All -> 0 .. Slice]
    /\ QueuesOK

(* What LockKeepsCpu says of a step.                                       *)
CpuKept ==
    lockcount[Running] > 0 /\ Running' # Running =>
        \/ lockcount'[Running] = 0
        \/ state'[Running] \in {"blocked", "stopped", "inactive"}

LEMMA QueueFields ==
    /\ Queues.rtr = readytorun /\ Queues.pend = pending /\ Queues.st = state
    /\ First(Queues) = Running
BY DEF Queues, First, Running

LEMMA RunningIs ==
    ASSUME IInv
    PROVE  /\ Running \in All /\ state[Running] = "running"
           /\ \A t \in All : state[t] = "running" => t = Running
           /\ Running \in ToSet(readytorun) /\ readytorun \in Seq(All)
           /\ lockcount \in [All -> Int] /\ lockcount[Running] \in Nat
<1>1. Good(Queues, prio) /\ lockcount \in [All -> Nat]
  BY DEF IInv, QueuesOK, Counts
<1>2. Agree(ToSet(readytorun), Running, ToSet(pending), state)
  BY <1>1, QueueFields DEF Good, First
<1>3. Running \in All /\ readytorun \in Seq(All)
  BY <1>1, QueueFields, Fields DEF First
<1> QED BY <1>1, <1>2, <1>3 DEF Agree

(* The queues that a step installs are those of the next state.            *)
LEMMA Installed ==
    ASSUME IInv, NEW q, Install(q), Good(q, prio'), Prompt(q, lockcount'),
           NEW X, Keeps(Queues, q, X), \A u \in X : q.st[u] \in States
    PROVE  QueuesOK' /\ Running' = First(q) /\ state' = q.st
<1>1. q \in QueueRecords
  BY DEF Good
<1>2. Queues' = q
  <2>1. Queues' = [rtr |-> q.rtr, pend |-> q.pend, st |-> q.st]
    BY DEF Queues, Install
  <2> QED BY <1>1, <2>1 DEF QueueRecords
<1>3. Running' = First(q) /\ state' = q.st
  BY DEF Install, Running, First
<1>4. q.st \in [All -> States]
  <2>1. q.st \in [All -> States \cup {"invalid"}]
    BY <1>1 DEF QueueRecords
  <2>2. ASSUME NEW u \in All PROVE q.st[u] \in States
    <3>1. Queues.st = state /\ state \in [All -> States]
      BY QueueFields DEF IInv, QueuesOK
    <3>2. CASE u \in X
      BY <3>2
    <3>3. CASE u \notin X
      BY <3>1, <3>3 DEF Keeps, Ready, States
    <3> QED BY <3>2, <3>3
  <2> QED BY <2>1, <2>2
<1> QED BY <1>2, <1>3, <1>4 DEF QueuesOK

LEMMA KeepsSelf ==
    ASSUME NEW q PROVE Keeps(q, q, {})
BY DEF Keeps

LEMMA SchedLockStep ==
    ASSUME IInv, NEW r \in All, SchedLock(r)
    PROVE  IInv' /\ CpuKept
<1>1. Running \in All /\ Running' = Running /\ Queues' = Queues /\ r = Running
  BY RunningIs DEF SchedLock, Running, Queues, Free
<1>2. /\ lockcount \in [All -> Nat] /\ lockcount' = [lockcount EXCEPT ![r] = @ + 1]
      /\ resume' = resume /\ prio' = prio /\ timeslice' = timeslice /\ state' = state
  BY DEF SchedLock, IInv, Counts
<1>3. lockcount' \in [All -> Nat] /\ \A t \in All : lockcount'[t] >= lockcount[t]
  BY <1>2
<1>4. Counts'
  BY <1>2, <1>3 DEF IInv, Counts
<1>5. Prompt(Queues, lockcount')
  <2>1. First(Queues) \in All /\ Prompt(Queues, lockcount)
    BY <1>1, QueueFields DEF IInv, QueuesOK
  <2> QED BY <2>1, <1>2, <1>3 DEF Prompt, First
<1>6. QueuesOK'
  BY <1>1, <1>2, <1>5 DEF IInv, QueuesOK
<1> QED BY <1>1, <1>2, <1>4, <1>6 DEF IInv, PrioritiesOK, CpuKept

LEMMA UnlockStep ==
    ASSUME IInv, NEW r \in All, r = Running, lockcount[r] > 0, Unlock(r)
    PROVE  /\ QueuesOK' /\ CpuKept /\ prio' = prio /\ timeslice' = timeslice
           /\ lockcount' \in [All -> Nat]
           /\ \A t \in All \ {r} : lockcount'[t] = lockcount[t]
<1>1. /\ lockcount \in [All -> Nat] /\ lockcount' = [lockcount EXCEPT ![r] = @ - 1]
      /\ prio' = prio /\ timeslice' = timeslice
  BY DEF Unlock, IInv, Counts
<1>2. /\ lockcount' \in [All -> Nat] /\ lockcount' \in [All -> Int]
      /\ lockcount'[r] = lockcount[r] - 1
      /\ \A t \in All \ {r} : lockcount'[t] = lockcount[t]
  BY <1>1
<1>3. Good(Queues, prio) /\ Priorities(prio) /\ First(Queues) = r
  BY QueueFields DEF IInv, QueuesOK, PrioritiesOK
<1>4. CASE lockcount[r] = 1
  <2>1. PICK q : q = MergePending(Queues, prio, lockcount')
    OBVIOUS
  <2>2. Install(q)
    BY <1>1, <1>4, <2>1 DEF Unlock
  <2>3. Good(q, prio) /\ Prompt(q, lockcount') /\ Keeps(Queues, q, {})
    BY <1>2, <1>3, <2>1, Merged
  <2>4. QueuesOK'
    <3>1. Good(q, prio') /\ \A u \in {} : q.st[u] \in States
      BY <1>1, <2>3
    <3> QED BY <2>2, <2>3, <3>1, Installed
  <2>5. CpuKept
    BY <1>2, <1>4 DEF CpuKept
  <2> QED BY <1>1, <1>2, <2>4, <2>5
<1>5. CASE lockcount[r] # 1
  <2>1. Install(Queues)
    BY <1>5 DEF Unlock
  <2>2. Prompt(Queues, lockcount')
    <3>1. lockcount'[First(Queues)] > 0 /\ lockcount'[First(Queues)] \in Nat
      BY <1>1, <1>2, <1>3, <1>5
    <3> QED BY <3>1 DEF Prompt, First
  <2>3. QueuesOK' /\ Running' = First(Queues)
    <3>1. Good(Queues, prio') /\ \A u \in {} : Queues.st[u] \in States
      BY <1>1, <1>3
    <3>2. Keeps(Queues, Queues, {})
      BY KeepsSelf
    <3> QED BY <2>1, <2>2, <3>1, <3>2, Installed
  <2>4. CpuKept
    BY <1>3, <2>3 DEF CpuKept
  <2> QED BY <1>1, <1>2, <2>3, <2>4
<1> QED BY <1>4, <1>5

LEMMA SchedUnlockStep ==
    ASSUME IInv, NEW r \in All, SchedUnlock(r)
    PROVE  IInv' /\ CpuKept
<1>1. r = Running /\ resume[r] = "none" /\ lockcount[r] > 0 /\ Unlock(r) /\ resume' = resume
  BY DEF SchedUnlock, Free
<1>2. /\ QueuesOK' /\ CpuKept /\ prio' = prio /\ timeslice' = timeslice
      /\ lockcount' \in [All -> Nat]
      /\ \A t \in All \ {r} : lockcount'[t] = lockcount[t]
  BY <1>1, UnlockStep
<1>3. Counts'
  BY <1>1, <1>2 DEF IInv, Counts
<1> QED BY <1>2, <1>3 DEF IInv, PrioritiesOK

LEMMA ResumeStep ==
    ASSUME IInv, NEW r \in All, Resume(r)
    PROVE  IInv' /\ CpuKept
<1>1. /\ r = Running /\ resume[r] # "none" /\ Unlock(r)
      /\ resume' = [resume EXCEPT ![r] = "none"]
  BY DEF Resume
<1>2. lockcount[r] > 0 /\ resume \in [All -> Protocols \cup {"none"}]
  BY <1>1 DEF IInv, Counts
<1>3. /\ QueuesOK' /\ CpuKept /\ prio' = prio /\ timeslice' = timeslice
      /\ lockcount' \in [All -> Nat]
      /\ \A t \in All \ {r} : lockcount'[t] = lockcount[t]
  BY <1>1, <1>2, UnlockStep
<1>4. Counts'
  BY <1>1, <1>2, <1>3 DEF IInv, Counts
<1> QED BY <1>3, <1>4 DEF IInv, PrioritiesOK

(* No semaphore has priority protection.                                   *)
NoProtection == "protect" \notin Protocols

LEMMA BlockStep ==
    ASSUME NoProtection, IInv, NEW r \in Tasks, NEW protocol \in Protocols,
           Block(r, protocol)
    PROVE  IInv' /\ CpuKept
<1>1. /\ r = Running /\ resume[r] = "none" /\ r \in All
      /\ lockcount' = [lockcount EXCEPT ![r] = @ + IF protocol = "inherit" THEN 1 ELSE 0]
      /\ resume' = [resume EXCEPT ![r] = protocol]
      /\ prio' = prio /\ timeslice' = timeslice
  BY Kinds DEF Block, Free
<1>2. Install(RemoveSelf(Queues, r, "blocked", prio, lockcount'))
  BY DEF Block
<1>3. /\ lockcount \in [All -> Nat] /\ resume \in [All -> Protocols \cup {"none"}]
      /\ \A t \in All : resume[t] # "none" => lockcount[t] > 0
  BY DEF IInv, Counts
<1>4. /\ lockcount' \in [All -> Nat] /\ lockcount' \in [All -> Int]
      /\ protocol = "inherit" => lockcount'[r] > 0
      /\ \A t \in All \ {r} : lockcount'[t] = lockcount[t]
  BY <1>1, <1>3
<1>5. protocol \in {"none", "inherit"}
  BY SchedConstants DEF NoProtection
<1>6. Counts'
  <2>1. resume' \in [All -> Protocols \cup {"none"}]
    BY <1>1, <1>3
  <2>2. ASSUME NEW t \in All, resume'[t] # "none" PROVE lockcount'[t] > 0
    <3>1. CASE t = r
      BY <3>1, <2>2, <1>1, <1>3, <1>4, <1>5
    <3>2. CASE t # r
      BY <3>2, <2>2, <1>1, <1>3, <1>4
    <3> QED BY <3>1, <3>2
  <2> QED BY <2>1, <2>2, <1>4 DEF Counts
<1>7. PICK q : q = RemoveSelf(Queues, r, "blocked", prio, lockcount')
  OBVIOUS
<1>8. q = MergePending(RemoveReadyToRun(Queues, r, "blocked"), prio, lockcount')
  BY <1>7 DEF RemoveSelf
<1>9. "blocked" \in States /\ "blocked" \notin Ready
  BY DEF States, Ready
<1>10. Good(Queues, prio) /\ Priorities(prio)
  BY DEF IInv, QueuesOK, PrioritiesOK
<1>11. /\ Good(q, prio) /\ Prompt(q, lockcount')
       /\ q.st[r] = "blocked" /\ Keeps(Queues, q, {r})
  BY <1>4, <1>8, <1>9, <1>10, SelfRemoved
<1>12. QueuesOK' /\ state' = q.st
  <2>1. Install(q) /\ Good(q, prio') /\ \A u \in {r} : q.st[u] \in States
    BY <1>1, <1>2, <1>7, <1>9, <1>11
  <2> QED BY <2>1, <1>11, Installed
<1>13. CpuKept
  BY <1>1, <1>11, <1>12 DEF CpuKept
<1> QED BY <1>1, <1>6, <1>12, <1>13 DEF IInv, PrioritiesOK

(* A TCB that is reset keeps the counts in order.                          *)
LEMMA ResetStep ==
    ASSUME IInv, NEW t \in All, Reset(t), prio' = prio, QueuesOK'
    PROVE  IInv'
<1>1. /\ lockcount \in [All -> Nat] /\ resume \in [All -> Protocols \cup {"none"}]
      /\ \A u \in All : resume[u] # "none" => lockcount[u] > 0
      /\ timeslice \in [All -> 0 .. Slice]
  BY DEF IInv, Counts
<1>2. /\ lockcount' = [lockcount EXCEPT ![t] = 0]
      /\ timeslice' = [timeslice EXCEPT ![t] = Slice]
      /\ resume' = [resume EXCEPT ![t] = "none"]
  BY DEF Reset
<1>3. Counts'
  BY <1>1, <1>2 DEF Counts
<1>4. timeslice' \in [All -> 0 .. Slice]
  BY <1>1, <1>2, SchedConstants
<1> QED BY <1>3, <1>4 DEF IInv, PrioritiesOK

LEMMA TerminateStep ==
    ASSUME IInv, NEW t \in Tasks, Terminate(t)
    PROVE  IInv' /\ CpuKept
<1>1. t # Running /\ Reset(t) /\ prio' = prio /\ t \in All
  BY Kinds DEF Terminate
<1>2. PICK q : q = RemoveReadyToRun(Queues, t, "inactive")
  OBVIOUS
<1>3. Install(q)
  BY <1>2 DEF Terminate
<1>4. Good(Queues, prio) /\ Priorities(prio) /\ Prompt(Queues, lockcount)
  BY DEF IInv, QueuesOK, PrioritiesOK
<1>5. "inactive" \in States /\ "inactive" \notin Ready /\ "inactive" \in States \cup {"invalid"}
  BY DEF States, Ready
<1>6. First(Queues) = Running /\ Running \in All /\ lockcount \in [All -> Int]
  BY RunningIs, QueueFields
<1>7. /\ Good(q, prio) /\ q.st[t] = "inactive" /\ Keeps(Queues, q, {t})
      /\ t # First(Queues) => First(q) = First(Queues)
      /\ Queues.pend = <<>> => q.pend = <<>>
  BY <1>2, <1>4, <1>5, Removed
<1>8. First(q) = Running
  BY <1>1, <1>6, <1>7
<1>9. lockcount'[Running] = lockcount[Running]
  BY <1>1, <1>6 DEF Reset
<1>10. Prompt(q, lockcount')
  BY <1>4, <1>6, <1>7, <1>8, <1>9 DEF Prompt, First
<1>11. QueuesOK' /\ Running' = First(q)
  <2>1. Good(q, prio') /\ \A u \in {t} : q.st[u] \in States
    BY <1>1, <1>5, <1>7
  <2> QED BY <2>1, <1>3, <1>7, <1>10, Installed
<1>12. CpuKept
  BY <1>8, <1>11 DEF CpuKept
<1> QED BY <1>1, <1>11, <1>12, ResetStep

LEMMA SuspendStep ==
    ASSUME IInv, NEW t \in Tasks, Suspend(t)
    PROVE  IInv' /\ CpuKept
<1>1. /\ lockcount' = lockcount /\ prio' = prio /\ timeslice' = timeslice /\ resume' = resume
      /\ t \in All
  BY Kinds DEF Suspend
<1>2. PICK x : x = RemoveReadyToRun(Queues, t, "stopped")
  OBVIOUS
<1>3. Install(IF t = Running THEN MergePending(x, prio, lockcount) ELSE x)
  BY <1>2 DEF Suspend
<1>4. Good(Queues, prio) /\ Priorities(prio) /\ Prompt(Queues, lockcount)
  BY DEF IInv, QueuesOK, PrioritiesOK
<1>5. "stopped" \in States /\ "stopped" \notin Ready /\ "stopped" \in States \cup {"invalid"}
  BY DEF States, Ready
<1>6. First(Queues) = Running /\ Running \in All /\ lockcount \in [All -> Int]
  BY RunningIs, QueueFields
<1>7. QueuesOK' /\ CpuKept
  <2>1. CASE t = Running
    <3>1. PICK q : q = MergePending(RemoveReadyToRun(Queues, t, "stopped"), prio, lockcount)
      OBVIOUS
    <3>2. /\ Good(q, prio) /\ Prompt(q, lockcount)
          /\ q.st[t] = "stopped" /\ Keeps(Queues, q, {t})
      BY <1>4, <1>5, <1>6, <3>1, SelfRemoved
    <3>3. Install(q) /\ Good(q, prio') /\ Prompt(q, lockcount')
          /\ \A u \in {t} : q.st[u] \in States
      BY <1>1, <1>2, <1>3, <1>5, <2>1, <3>1, <3>2
    <3>4. QueuesOK' /\ state' = q.st
      BY <3>2, <3>3, Installed
    <3> QED BY <2>1, <3>2, <3>4 DEF CpuKept
  <2>2. CASE t # Running
    <3>1. /\ Good(x, prio) /\ x.st[t] = "stopped" /\ Keeps(Queues, x, {t})
          /\ t # First(Queues) => First(x) = First(Queues)
          /\ Queues.pend = <<>> => x.pend = <<>>
      BY <1>2, <1>4, <1>5, Removed
    <3>2. First(x) = Running
      BY <1>6, <2>2, <3>1
    <3>3. Prompt(x, lockcount)
      BY <1>4, <1>6, <3>1, <3>2 DEF Prompt, First
    <3>4. Install(x) /\ Good(x, prio') /\ Prompt(x, lockcount')
          /\ \A u \in {t} : x.st[u] \in States
      BY <1>1, <1>3, <1>5, <2>2, <3>1, <3>3
    <3>5. QueuesOK' /\ Running' = First(x)
      BY <3>1, <3>4, Installed
    <3> QED BY <3>2, <3>5 DEF CpuKept
  <2> QED BY <2>1, <2>2
<1> QED BY <1>1, <1>7 DEF IInv, PrioritiesOK, Counts

LEMMA WakeStep ==
    ASSUME IInv, NEW t \in Tasks, Wake(t)
    PROVE  IInv' /\ CpuKept
<1>1. /\ lockcount' = lockcount /\ prio' = prio /\ timeslice' = timeslice /\ resume' = resume
      /\ Queues.st[t] \notin Ready
  BY QueueFields DEF Wake, Ready
<1>2. PICK q : q = AddReadyToRun(Queues, t, prio, lockcount)
  OBVIOUS
<1>3. Install(q)
  BY <1>2 DEF Wake
<1>4. Good(Queues, prio) /\ Priorities(prio) /\ Prompt(Queues, lockcount)
  BY DEF IInv, QueuesOK, PrioritiesOK
<1>5. First(Queues) = Running /\ Running \in All /\ lockcount \in [All -> Int]
  BY RunningIs, QueueFields
<1>6. Good(q, prio) /\ q.st[t] \in Ready /\ Keeps(Queues, q, {t})
  BY <1>1, <1>2, <1>4, <1>5, Added
<1>7. Prompt(q, lockcount) /\ HeadKept(Queues, q, t, lockcount)
  BY <1>1, <1>2, <1>4, <1>5, Added
<1>8. QueuesOK' /\ Running' = First(q)
  <2>1. Good(q, prio') /\ Prompt(q, lockcount') /\ \A u \in {t} : q.st[u] \in States
    BY <1>1, <1>6, <1>7 DEF Ready, States
  <2> QED BY <2>1, <1>3, <1>6, Installed
<1>9. CpuKept
  BY <1>5, <1>7, <1>8 DEF CpuKept, HeadKept, Locked
<1> QED BY <1>1, <1>8, <1>9 DEF IInv, PrioritiesOK, Counts

(* A task of the program is given a priority of the program.               *)
PriorityIs(pr, t, p) ==
    /\ pr \in [All -> Prios \cup {0}] /\ Priorities(pr)
    /\ p \in Nat \ {0} /\ pr[t] = p /\ \A u \in All \ {t} : pr[u] = prio[u]

LEMMA PriorityGiven ==
    ASSUME IInv, NEW t \in Tasks, NEW p \in Prios
    PROVE  PriorityIs([prio EXCEPT ![t] = p], t, p)
<1>0. PICK pr : pr = [prio EXCEPT ![t] = p]
  OBVIOUS
<1>1. /\ prio \in [All -> Prios \cup {0}] /\ prio \in [All -> Nat]
      /\ prio[Idle] = 0 /\ \A u \in Tasks : prio[u] > 0
  BY DEF IInv, PrioritiesOK, Priorities
<1>2. t \in All /\ t # Idle /\ Idle \in All /\ p \in Nat \ {0} /\ \A u \in Tasks : u \in All
  BY Kinds, SchedConstants
<1>3. /\ pr \in [All -> Prios \cup {0}] /\ pr \in [All -> Nat]
      /\ pr[t] = p /\ \A u \in All \ {t} : pr[u] = prio[u]
  BY <1>0, <1>1, <1>2
<1>4. pr[Idle] = 0 /\ \A u \in Tasks : pr[u] > 0
  BY <1>1, <1>2, <1>3
<1>5. PriorityIs(pr, t, p)
  BY <1>2, <1>3, <1>4 DEF PriorityIs, Priorities
<1> QED BY <1>0, <1>5

LEMMA ActivateStep ==
    ASSUME IInv, NEW t \in Tasks, NEW p \in Prios, Activate(t, p)
    PROVE  IInv' /\ CpuKept
<1>1. /\ lockcount' = lockcount /\ timeslice' = timeslice /\ resume' = resume
      /\ prio' = [prio EXCEPT ![t] = p] /\ Queues.st[t] \notin Ready /\ t \in All
  BY QueueFields, Kinds DEF Activate, Ready
<1>2. PICK q : q = AddReadyToRun(Queues, t, prio', lockcount)
  OBVIOUS
<1>3. Install(q)
  BY <1>2 DEF Activate
<1>4. /\ prio' \in [All -> Prios \cup {0}] /\ Priorities(prio')
      /\ \A u \in All \ {t} : prio'[u] = prio[u]
  <2>1. PriorityIs([prio EXCEPT ![t] = p], t, p)
    BY PriorityGiven
  <2>2. PriorityIs(prio', t, p)
    BY <1>1, <2>1
  <2> QED BY <2>2 DEF PriorityIs
<1>5. Good(Queues, prio') /\ Prompt(Queues, lockcount)
  <2>1. Good(Queues, prio) /\ Prompt(Queues, lockcount)
    BY DEF IInv, QueuesOK
  <2> QED BY <2>1, <1>1, <1>4, OtherPriority, ZenonT(30)
<1>6. First(Queues) = Running /\ Running \in All /\ lockcount \in [All -> Int]
  BY RunningIs, QueueFields
<1>7. Good(q, prio') /\ q.st[t] \in Ready /\ Keeps(Queues, q, {t})
  BY <1>1, <1>2, <1>4, <1>5, <1>6, Added
<1>8. Prompt(q, lockcount) /\ HeadKept(Queues, q, t, lockcount)
  BY <1>1, <1>2, <1>4, <1>5, <1>6, Added
<1>9. QueuesOK' /\ Running' = First(q)
  <2>1. Prompt(q, lockcount') /\ \A u \in {t} : q.st[u] \in States
    BY <1>1, <1>7, <1>8 DEF Ready, States
  <2> QED BY <2>1, <1>3, <1>7, Installed
<1>10. CpuKept
  BY <1>6, <1>8, <1>9 DEF CpuKept, HeadKept, Locked
<1>11. Counts' /\ timeslice' \in [All -> 0 .. Slice]
  BY <1>1 DEF IInv, Counts
<1> QED BY <1>4, <1>9, <1>10, <1>11 DEF IInv, PrioritiesOK

LEMMA TickStep ==
    ASSUME IInv, Tick
    PROVE  IInv' /\ CpuKept
<1>1. PICK r : r = Running
  OBVIOUS
<1>2. PICK left : left = IF timeslice[r] > 0 THEN timeslice[r] - 1 ELSE 0
  OBVIOUS
<1>3. PICK expired \in BOOLEAN : expired <=> left = 0 /\ lockcount[r] <= 0
  OBVIOUS
<1>4. /\ r # Idle
      /\ timeslice' = [timeslice EXCEPT ![r] = IF expired THEN Slice ELSE left]
      /\ Install(IF expired /\ prio[readytorun[2]] >= prio[r]
                 THEN ReprioritizeRtr(Queues, r, prio, lockcount) ELSE Queues)
      /\ lockcount' = lockcount /\ prio' = prio /\ resume' = resume
  BY <1>1, <1>2, <1>3 DEF Tick
<1>5. r \in Tasks /\ r \in All
  BY <1>1, <1>4, RunningIs DEF All
<1>6. timeslice' \in [All -> 0 .. Slice]
  <2>1. timeslice \in [All -> 0 .. Slice]
    BY DEF IInv
  <2>2. timeslice[r] \in 0 .. Slice /\ Slice \in Nat
    BY <2>1, <1>5, SchedConstants
  <2>3. left \in 0 .. Slice
    BY <2>2, <1>2
  <2>4. PICK new : new = IF expired THEN Slice ELSE left
    OBVIOUS
  <2>5. new \in 0 .. Slice /\ timeslice' = [timeslice EXCEPT ![r] = new]
    BY <2>2, <2>3, <2>4, <1>4
  <2> QED BY <2>1, <2>5
<1>7. Good(Queues, prio) /\ Priorities(prio) /\ Prompt(Queues, lockcount)
  BY DEF IInv, QueuesOK, PrioritiesOK
<1>8. First(Queues) = Running /\ lockcount \in [All -> Int] /\ Queues.st[r] \in Ready
  BY <1>1, RunningIs, QueueFields DEF Ready
<1>9. QueuesOK' /\ CpuKept
  <2>1. CASE expired /\ prio[readytorun[2]] >= prio[r]
    <3>1. PICK q : q = ReprioritizeRtr(Queues, r, prio, lockcount)
      OBVIOUS
    <3>2. Good(q, prio) /\ Prompt(q, lockcount) /\ Keeps(Queues, q, {})
      BY <1>5, <1>7, <1>8, <3>1, Reprioritized
    <3>3. Install(q) /\ Good(q, prio') /\ Prompt(q, lockcount')
          /\ \A u \in {} : q.st[u] \in States
      BY <1>4, <2>1, <3>1, <3>2
    <3>4. QueuesOK'
      BY <3>2, <3>3, Installed
    <3>5. ~(lockcount[Running] > 0)
      <4>1. lockcount[Running] <= 0 /\ lockcount[Running] \in Nat
        BY <1>1, <1>3, <2>1, RunningIs
      <4> QED BY <4>1
    <3> QED BY <3>4, <3>5 DEF CpuKept
  <2>2. CASE ~(expired /\ prio[readytorun[2]] >= prio[r])
    <3>1. Install(Queues) /\ Good(Queues, prio') /\ Prompt(Queues, lockcount')
          /\ \A u \in {} : Queues.st[u] \in States
      BY <1>4, <1>7, <2>2
    <3>2. Keeps(Queues, Queues, {})
      BY KeepsSelf
    <3>3. QueuesOK' /\ Running' = First(Queues)
      BY <3>1, <3>2, Installed
    <3> QED BY <1>8, <3>3 DEF CpuKept
  <2> QED BY <2>1, <2>2
<1> QED BY <1>4, <1>6, <1>9 DEF IInv, PrioritiesOK, Counts

LEMMA SetRunningStep ==
    ASSUME IInv, NEW t \in Tasks, NEW p \in Prios, NEW pr, PriorityIs(pr, t, p),
           state[t] = "running", NEW q, q = SetRunning(t, p, pr)
    PROVE  /\ Good(q, pr) /\ Prompt(q, lockcount) /\ Keeps(Queues, q, {})
           /\ Locked(Queues, lockcount) => First(q) = First(Queues)
<1>1. t = Running /\ t \in All /\ lockcount \in [All -> Int] /\ First(Queues) = t
  BY RunningIs, QueueFields, Kinds
<1>2. /\ Good(Queues, prio) /\ Prompt(Queues, lockcount) /\ Priorities(prio)
      /\ Queues.rtr = readytorun /\ Queues.st = state
  BY QueueFields DEF IInv, QueuesOK, PrioritiesOK
<1>3. /\ Priorities(pr) /\ p \in Nat \ {0} /\ pr[t] = p
      /\ \A u \in All \ {t} : pr[u] = prio[u]
  BY DEF PriorityIs
<1>4. NewPriority(Queues, t, p, prio, pr)
  BY <1>1, <1>2, <1>3 DEF NewPriority
<1>5. prio[readytorun[2]] \in Nat
  <2>1. readytorun[2] \in All
    BY <1>1, <1>2, Second, Kinds
  <2> QED BY <2>1, <1>2 DEF Priorities
<1>6. CASE p > prio[readytorun[2]]
  <2>1. q = Queues
    BY <1>3, <1>5, <1>6 DEF SetRunning
  <2>2. p > prio[Queues.rtr[2]]
    BY <1>2, <1>6
  <2>3. Good(Queues, pr)
    BY <1>4, <2>2, StaysFirst
  <2> QED BY <1>2, <2>1, <2>3, KeepsSelf
<1>7. CASE p <= prio[readytorun[2]] /\ lockcount[t] > 0
  <2>1. q = MoveToPending(Queues, p, prio)
    BY <1>3, <1>5, <1>7 DEF SetRunning
  <2>2. p <= prio[Queues.rtr[2]] /\ Locked(Queues, lockcount)
    BY <1>1, <1>2, <1>7 DEF Locked
  <2>3. Good(q, pr) /\ Prompt(q, lockcount) /\ First(q) = First(Queues) /\ Keeps(Queues, q, {})
    BY <1>1, <1>4, <2>1, <2>2, MovedToPending
  <2> QED BY <2>3
<1>8. CASE p <= prio[readytorun[2]] /\ ~(lockcount[t] > 0)
  <2>1. q = ReprioritizeRtr(Queues, t, pr, lockcount)
    BY <1>3, <1>5, <1>8 DEF SetRunning
  <2>2. Queues.st[t] \in Ready
    BY <1>2 DEF Ready
  <2>3. Good(q, pr) /\ Prompt(q, lockcount) /\ Keeps(Queues, q, {})
    BY <1>1, <1>2, <1>3, <2>1, <2>2, Reprioritized
  <2>4. ~Locked(Queues, lockcount)
    BY <1>1, <1>8 DEF Locked
  <2> QED BY <2>3, <2>4
<1>9. p > prio[readytorun[2]] \/ p <= prio[readytorun[2]]
  BY <1>3, <1>5
<1> QED BY <1>6, <1>7, <1>8, <1>9

(* A pending task is moved within the pending list.                        *)
LEMMA SetPendingStep ==
    ASSUME IInv, NEW t \in Tasks, NEW p \in Prios, NEW pr, PriorityIs(pr, t, p),
           state[t] = "pending", NEW q,
           q = [Queues EXCEPT !.pend = AddPrioritized(DqRem(@, t), t, pr)]
    PROVE  /\ Good(q, pr) /\ Prompt(q, lockcount) /\ Keeps(Queues, q, {})
           /\ First(q) = First(Queues)
<1>1. t \in All
  BY Kinds
<1>2. /\ Good(Queues, prio) /\ Prompt(Queues, lockcount) /\ Priorities(prio)
      /\ Queues.pend = pending /\ Queues.st = state
  BY QueueFields DEF IInv, QueuesOK, PrioritiesOK
<1>3. /\ Priorities(pr) /\ \A u \in All \ {t} : pr[u] = prio[u]
  BY DEF PriorityIs
<1>4. Agree(ToSet(Queues.rtr), Head(Queues.rtr), ToSet(Queues.pend), Queues.st)
  BY <1>2 DEF Good
<1>5. t \in ToSet(Queues.pend) /\ t \notin ToSet(Queues.rtr)
  BY <1>1, <1>2, <1>4 DEF Agree
<1>6. /\ Line(Queues.pend, prio) /\ Line(Queues.rtr, prio) /\ Queues \in QueueRecords
      /\ ToSet(Queues.pend) \subseteq Tasks /\ ToSet(Queues.rtr) \subseteq All
      /\ Queues.rtr # <<>> /\ Idle \in ToSet(Queues.rtr)
  BY <1>2, Fields DEF Good
<1>7. PICK l : l = DqRem(Queues.pend, t)
  OBVIOUS
<1>8. Line(l, prio) /\ ToSet(l) = ToSet(Queues.pend) \ {t}
  BY <1>2, <1>5, <1>6, <1>7, RemoveKeepsLine
<1>9. Line(l, pr)
  <2>1. \A u \in ToSet(l) : pr[u] = prio[u]
    BY <1>3, <1>6, <1>8, Kinds
  <2> QED BY <2>1, <1>8, SamePrioritiesLine
<1>10. PICK a : a = AddPrioritized(l, t, pr)
  OBVIOUS
<1>11. Line(a, pr) /\ ToSet(a) = ToSet(Queues.pend)
  <2>1. t \notin ToSet(l)
    BY <1>8
  <2>2. Line(a, pr) /\ ToSet(a) = ToSet(l) \cup {t}
    BY <2>1, <1>1, <1>3, <1>9, <1>10, AddToLine
  <2> QED BY <2>2, <1>5, <1>8
<1>12. a \in Seq(Tasks)
  BY <1>6, <1>11, TasksOnly DEF Line
<1>13. q = [Queues EXCEPT !.pend = a]
  BY <1>7, <1>10
<1>14. q \in QueueRecords /\ q.rtr = Queues.rtr /\ q.pend = a /\ q.st = Queues.st
  BY <1>6, <1>12, <1>13 DEF QueueRecords
<1>15. Line(Queues.rtr, pr)
  <2>1. \A u \in ToSet(Queues.rtr) : pr[u] = prio[u]
    BY <1>3, <1>5, <1>6
  <2> QED BY <2>1, <1>6, SamePrioritiesLine
<1>16. Good(q, pr)
  BY <1>4, <1>6, <1>11, <1>14, <1>15 DEF Good
<1>17. Prompt(q, lockcount)
  <2>1. Queues.pend # <<>>
    BY <1>5 DEF ToSet
  <2> QED BY <2>1, <1>2, <1>14 DEF Prompt
<1> QED BY <1>14, <1>16, <1>17 DEF Keeps, First

LEMMA SetPriorityStep ==
    ASSUME IInv, NEW t \in Tasks, NEW p \in Prios, SetPriority(t, p)
    PROVE  IInv' /\ CpuKept
<1>1. PICK pr : pr = [prio EXCEPT ![t] = p]
  OBVIOUS
<1>2. /\ prio' = pr /\ lockcount' = lockcount /\ timeslice' = timeslice /\ resume' = resume
      /\ t \in All
  BY <1>1, Kinds DEF SetPriority
<1>3. Install(CASE state[t] = "running" -> SetRunning(t, p, pr)
                [] state[t] = "readytorun" -> ReprioritizeRtr(Queues, t, pr, lockcount)
                [] state[t] = "pending" ->
                     [Queues EXCEPT !.pend = AddPrioritized(DqRem(@, t), t, pr)]
                [] OTHER -> Queues)
  BY <1>1 DEF SetPriority
<1>4. /\ Good(Queues, prio) /\ Prompt(Queues, lockcount) /\ Priorities(prio)
      /\ Queues.st = state
  BY QueueFields DEF IInv, QueuesOK, PrioritiesOK
<1>5a. PriorityIs(pr, t, p)
  <2>1. PriorityIs([prio EXCEPT ![t] = p], t, p)
    BY PriorityGiven
  <2> QED BY <1>1, <2>1
<1>5. /\ pr \in [All -> Prios \cup {0}] /\ Priorities(pr)
      /\ \A u \in All \ {t} : pr[u] = prio[u]
  BY <1>5a DEF PriorityIs
<1>6. First(Queues) = Running /\ lockcount \in [All -> Int] /\ lockcount[Running] \in Nat
  BY RunningIs, QueueFields
<1>7. \E q : /\ Install(q) /\ Good(q, pr) /\ Prompt(q, lockcount) /\ Keeps(Queues, q, {})
             /\ Locked(Queues, lockcount) => First(q) = First(Queues)
  <2>1. CASE state[t] = "running"
    <3>1. PICK q : q = SetRunning(t, p, pr)
      OBVIOUS
    <3>2. Install(q)
      BY <1>3, <2>1, <3>1
    <3>3. /\ Good(q, pr) /\ Prompt(q, lockcount) /\ Keeps(Queues, q, {})
          /\ Locked(Queues, lockcount) => First(q) = First(Queues)
      BY <1>5a, <2>1, <3>1, SetRunningStep
    <3> QED BY <3>2, <3>3
  <2>2. CASE state[t] = "readytorun"
    <3>1. PICK q : q = ReprioritizeRtr(Queues, t, pr, lockcount)
      OBVIOUS
    <3>2. Install(q)
      BY <1>3, <2>2, <3>1
    <3>3. Queues.st[t] \in Ready
      BY <1>4, <2>2 DEF Ready
    <3>4. /\ Good(q, pr) /\ Prompt(q, lockcount) /\ Keeps(Queues, q, {})
          /\ Locked(Queues, lockcount) /\ t # First(Queues) => First(q) = First(Queues)
      BY <1>4, <1>5, <1>6, <3>1, <3>3, Reprioritized
    <3>5. t # First(Queues)
      BY <1>6, <2>2, RunningIs
    <3> QED BY <3>2, <3>4, <3>5
  <2>3. CASE state[t] = "pending"
    <3>1. PICK q : q = [Queues EXCEPT !.pend = AddPrioritized(DqRem(@, t), t, pr)]
      OBVIOUS
    <3>2. Install(q)
      BY <1>3, <2>3, <3>1
    <3>3. /\ Good(q, pr) /\ Prompt(q, lockcount) /\ Keeps(Queues, q, {})
          /\ First(q) = First(Queues)
      BY <1>5a, <2>3, <3>1, SetPendingStep
    <3> QED BY <3>2, <3>3
  <2>4. CASE state[t] \notin Ready
    <3>1. Install(Queues)
      BY <1>3, <2>4 DEF Ready
    <3>2. Good(Queues, pr)
      BY <1>2, <1>4, <1>5, <2>4, OtherPriority
    <3> QED BY <1>4, <3>1, <3>2, KeepsSelf
  <2> QED BY <2>1, <2>2, <2>3, <2>4 DEF Ready
<1>8. PICK q : /\ Install(q) /\ Good(q, pr) /\ Prompt(q, lockcount) /\ Keeps(Queues, q, {})
               /\ Locked(Queues, lockcount) => First(q) = First(Queues)
  BY <1>7
<1>9. QueuesOK' /\ Running' = First(q)
  <2>1. Good(q, prio') /\ Prompt(q, lockcount') /\ \A u \in {} : q.st[u] \in States
    BY <1>2, <1>8
  <2> QED BY <2>1, <1>8, Installed
<1>10. CpuKept
  BY <1>6, <1>8, <1>9 DEF CpuKept, Locked
<1>11. Counts' /\ timeslice' \in [All -> 0 .. Slice] /\ PrioritiesOK'
  BY <1>2, <1>5 DEF IInv, Counts, PrioritiesOK
<1> QED BY <1>9, <1>10, <1>11 DEF IInv

-----------------------------------------------------------------------------
(* nxtask_exit() marks the next task as ready and then as running again;   *)
(* since that task has preemption disabled meanwhile, no other is marked.  *)

LEMMA SameRecord ==
    ASSUME NEW a \in QueueRecords, NEW b \in QueueRecords,
           a.rtr = b.rtr, a.pend = b.pend, \A u \in All : a.st[u] = b.st[u]
    PROVE  a = b
<1>1. a.st \in [All -> States \cup {"invalid"}] /\ b.st \in [All -> States \cup {"invalid"}]
  BY DEF QueueRecords
<1>2. a.st = b.st
  BY <1>1
<1> QED BY <1>2 DEF QueueRecords

(* The queues q with the state s for task t.                               *)
Marked(q, t, s) == [q EXCEPT !.st[t] = s]

MarkedAs(q, r, t, s) ==
    /\ r \in QueueRecords /\ r.rtr = q.rtr /\ r.pend = q.pend
    /\ r.st[t] = s /\ \A u \in All \ {t} : r.st[u] = q.st[u]

LEMMA MarkedFields ==
    ASSUME NEW q \in QueueRecords, NEW t \in All, NEW s \in States
    PROVE  MarkedAs(q, Marked(q, t, s), t, s)
<1>1. PICK f : f = [q.st EXCEPT ![t] = s]
  OBVIOUS
<1>2. q.st \in [All -> States \cup {"invalid"}]
  BY DEF QueueRecords
<1>3. /\ f \in [All -> States \cup {"invalid"}]
      /\ \A u \in All : f[u] = IF u = t THEN s ELSE q.st[u]
  BY <1>1, <1>2
<1>4. PICK r : r = Marked(q, t, s)
  OBVIOUS
<1>5. r = [q EXCEPT !.st = f]
  BY <1>1, <1>4 DEF Marked
<1>6. r \in QueueRecords /\ r.rtr = q.rtr /\ r.pend = q.pend /\ r.st = f
  BY <1>3, <1>5 DEF QueueRecords
<1> QED BY <1>3, <1>4, <1>6 DEF MarkedAs

LEMMA MarkedAgain ==
    ASSUME NEW q, NEW pr, Good(q, pr)
    PROVE  Marked(Marked(q, First(q), "readytorun"), First(q), "running") = q
<1>1. PICK n : n = First(q)
  OBVIOUS
<1>2. n \in All /\ q.st[n] = "running" /\ q \in QueueRecords
  BY <1>1, Fields DEF First, Good, Agree
<1>3. "readytorun" \in States /\ "running" \in States
  BY DEF States
<1>4. PICK x : x = Marked(q, n, "readytorun")
  OBVIOUS
<1>5. PICK y : y = Marked(x, n, "running")
  OBVIOUS
<1>6. /\ x \in QueueRecords /\ x.rtr = q.rtr /\ x.pend = q.pend
      /\ \A u \in All \ {n} : x.st[u] = q.st[u]
  <2>1. MarkedAs(q, x, n, "readytorun")
    BY <1>2, <1>3, <1>4, MarkedFields
  <2> QED BY <2>1 DEF MarkedAs
<1>7. /\ y \in QueueRecords /\ y.rtr = x.rtr /\ y.pend = x.pend
      /\ y.st[n] = "running" /\ \A u \in All \ {n} : y.st[u] = x.st[u]
  <2>1. MarkedAs(x, y, n, "running")
    BY <1>2, <1>3, <1>5, <1>6, MarkedFields
  <2> QED BY <2>1 DEF MarkedAs
<1>8. y = q
  BY <1>2, <1>6, <1>7, SameRecord
<1> QED BY <1>1, <1>4, <1>5, <1>8

(* What nxsched_add_readytorun() does while preemption is disabled.        *)
PlacedLocked(q, r, w, n, pr) ==
    /\ pr[n] < pr[w] => /\ r.rtr = q.rtr /\ r.pend = AddPrioritized(q.pend, w, pr)
                        /\ r.st[w] = "pending"
    /\ ~(pr[n] < pr[w]) => /\ r.rtr = AddPrioritized(q.rtr, w, pr) /\ r.pend = q.pend
                           /\ r.st[w] = "readytorun"
    /\ \A u \in All \ {w} : r.st[u] = q.st[u]

LEMMA LockedAdd ==
    ASSUME NEW q \in QueueRecords, NEW pr, Priorities(pr), NEW w \in Tasks,
           NEW n, n = First(q), NEW lock, lock[n] > 0,
           NEW r, r = AddReadyToRun(q, w, pr, lock),
           Line(q.rtr, pr), Line(q.pend, pr), q.rtr # <<>>,
           w \notin ToSet(q.rtr), w \notin ToSet(q.pend)
    PROVE  r \in QueueRecords /\ PlacedLocked(q, r, w, n, pr)
<1>1. /\ w \in All /\ q.st \in [All -> States \cup {"invalid"}] /\ n = Head(q.rtr)
      /\ q.rtr \in Seq(All) /\ q.pend \in Seq(Tasks)
  BY Kinds DEF First, QueueRecords
<1>2. n \in All /\ n \in ToSet(q.rtr) /\ pr[n] \in Nat /\ pr[w] \in Nat
  <2>1. n \in All /\ n \in ToSet(q.rtr)
    BY <1>1, TailKeepsLine
  <2> QED BY <2>1, <1>1 DEF Priorities
<1>3. CASE pr[n] < pr[w]
  <2>1. PICK l : l = AddPrioritized(q.pend, w, pr)
    OBVIOUS
  <2>2. Line(l, pr) /\ ToSet(l) = ToSet(q.pend) \cup {w}
    BY <1>1, <2>1, AddToLine
  <2>3. l \in Seq(Tasks)
    <3>1. ToSet(q.pend) \subseteq Tasks
      BY <1>1, ToSetIndex
    <3> QED BY <2>2, <3>1, TasksOnly DEF Line
  <2>4. PICK f : f = [q.st EXCEPT ![w] = "pending"]
    OBVIOUS
  <2>5. /\ f \in [All -> States \cup {"invalid"}] /\ f[w] = "pending"
        /\ \A u \in All \ {w} : f[u] = q.st[u]
    BY <1>1, <2>4 DEF States
  <2>6. r = [q EXCEPT !.pend = l, !.st = f]
    BY <1>1, <1>3, <2>1, <2>4 DEF AddReadyToRun
  <2>7. r \in QueueRecords /\ r.rtr = q.rtr /\ r.pend = l /\ r.st = f
    BY <2>3, <2>5, <2>6 DEF QueueRecords
  <2> QED BY <1>3, <2>1, <2>5, <2>7 DEF PlacedLocked
<1>4. CASE ~(pr[n] < pr[w])
  <2>1. PICK l : l = AddPrioritized(q.rtr, w, pr)
    OBVIOUS
  <2>2. PICK k \in 1 .. Len(q.rtr) + 1 : InsertedLine(q.rtr, w, k, l, pr)
    BY <1>1, <2>1, AddKeepsLine
  <2>3. l \in Seq(All) /\ l[1] # w
    BY <1>1, <1>2, <1>4, <2>2 DEF InsertedLine, Line
  <2>4. PICK f : f = [q.st EXCEPT ![w] = "readytorun"]
    OBVIOUS
  <2>5. /\ f \in [All -> States \cup {"invalid"}] /\ f[w] = "readytorun"
        /\ \A u \in All \ {w} : f[u] = q.st[u]
    BY <1>1, <2>4 DEF States
  <2>6. r = [q EXCEPT !.rtr = l, !.st = f]
    BY <1>1, <1>4, <2>1, <2>3, <2>4 DEF AddReadyToRun
  <2>7. r \in QueueRecords /\ r.rtr = l /\ r.pend = q.pend /\ r.st = f
    BY <2>3, <2>5, <2>6 DEF QueueRecords
  <2> QED BY <1>4, <2>1, <2>5, <2>7 DEF PlacedLocked
<1> QED BY <1>3, <1>4

LEMMA ExitAdds ==
    ASSUME NEW q, NEW pr, Good(q, pr), Priorities(pr), NEW n, n = First(q),
           NEW lock, lock[n] > 0, NEW w \in Tasks, q.st[w] \notin Ready,
           NEW x, x = Marked(q, n, "readytorun")
    PROVE  Marked(AddReadyToRun(x, w, pr, lock), n, "running") = AddReadyToRun(q, w, pr, lock)
<1>1. /\ n \in All /\ q.st[n] = "running" /\ q \in QueueRecords /\ w \in All
      /\ Line(q.rtr, pr) /\ Line(q.pend, pr) /\ q.rtr # <<>>
  BY Fields, Kinds DEF First, Good, Agree
<1>2. "readytorun" \in States /\ "running" \in States /\ n # w
  BY <1>1 DEF States, Ready
<1>3. w \notin ToSet(q.rtr) /\ w \notin ToSet(q.pend)
  BY <1>1, NotInLists
<1>4. /\ x \in QueueRecords /\ x.rtr = q.rtr /\ x.pend = q.pend
      /\ \A u \in All \ {n} : x.st[u] = q.st[u]
  <2>1. MarkedAs(q, x, n, "readytorun")
    BY <1>1, <1>2, MarkedFields
  <2> QED BY <2>1 DEF MarkedAs
<1>5. n = First(x)
  BY <1>4 DEF First
<1>6. PICK a : a = AddReadyToRun(q, w, pr, lock)
  OBVIOUS
<1>7. PICK b : b = AddReadyToRun(x, w, pr, lock)
  OBVIOUS
<1>8. a \in QueueRecords /\ PlacedLocked(q, a, w, n, pr)
  BY <1>1, <1>3, <1>6, LockedAdd
<1>9. b \in QueueRecords /\ PlacedLocked(x, b, w, n, pr)
  <2>1. /\ Line(x.rtr, pr) /\ Line(x.pend, pr) /\ x.rtr # <<>>
        /\ w \notin ToSet(x.rtr) /\ w \notin ToSet(x.pend)
    BY <1>1, <1>3, <1>4
  <2> QED BY <1>4, <1>5, <1>7, <2>1, LockedAdd
<1>10. PICK c : c = Marked(b, n, "running")
  OBVIOUS
<1>11. /\ c \in QueueRecords /\ c.rtr = b.rtr /\ c.pend = b.pend
       /\ c.st[n] = "running" /\ \A u \in All \ {n} : c.st[u] = b.st[u]
  <2>1. b \in QueueRecords /\ n \in All /\ "running" \in States
    BY <1>1, <1>2, <1>9
  <2>2. MarkedAs(b, c, n, "running")
    BY <2>1, <1>10, MarkedFields
  <2> QED BY <2>2 DEF MarkedAs
<1>12. a.rtr = b.rtr /\ a.pend = b.pend /\ a.st[w] = b.st[w]
  BY <1>4, <1>8, <1>9 DEF PlacedLocked
<1>13. ASSUME NEW u \in All PROVE c.st[u] = a.st[u]
  <2>1. CASE u = n
    BY <1>1, <1>2, <1>8, <1>11, <2>1 DEF PlacedLocked
  <2>2. CASE u = w
    BY <1>2, <1>11, <1>12, <2>2
  <2>3. CASE u # n /\ u # w
    BY <1>4, <1>8, <1>9, <1>11, <2>3 DEF PlacedLocked
  <2> QED BY <2>1, <2>2, <2>3
<1>14. c = a
  BY <1>8, <1>11, <1>12, <1>13, SameRecord
<1> QED BY <1>6, <1>7, <1>10, <1>14

(* The queues after the TCB of the task that exits has been released.      *)
Release(q, n, W, pr, lock) ==
    Marked(IF W = {} THEN Marked(q, n, "readytorun")
           ELSE AddReadyToRun(Marked(q, n, "readytorun"), CHOOSE w \in W : TRUE, pr, lock),
           n, "running")

LEMMA Released ==
    ASSUME NEW q, NEW pr, Good(q, pr), Priorities(pr), NEW n, n = First(q),
           NEW lock \in [All -> Int], lock[n] > 0,
           NEW W, W = {} \/ \E w \in Tasks : W = {w} /\ q.st[w] \notin Ready,
           NEW r, r = Release(q, n, W, pr, lock)
    PROVE  /\ Good(r, pr) /\ Keeps(q, r, W)
           /\ \A w \in W : r.st[w] \in Ready
<1>1. CASE W = {}
  <2>1. r = Marked(Marked(q, n, "readytorun"), n, "running")
    BY <1>1 DEF Release
  <2>2. r = q
    BY <2>1, MarkedAgain
  <2> QED BY <1>1, <2>2, KeepsSelf
<1>2. ASSUME NEW w \in Tasks, W = {w}, q.st[w] \notin Ready
      PROVE  /\ Good(r, pr) /\ Keeps(q, r, W)
             /\ \A u \in W : r.st[u] \in Ready
  <2>1. (CHOOSE u \in W : TRUE) = w /\ W # {}
    BY <1>2
  <2>2. PICK x : x = Marked(q, n, "readytorun")
    OBVIOUS
  <2>3. r = Marked(AddReadyToRun(x, w, pr, lock), n, "running")
    BY <2>1, <2>2, Zenon DEF Release
  <2>4. Marked(AddReadyToRun(x, w, pr, lock), n, "running") = AddReadyToRun(q, w, pr, lock)
    BY <1>2, <2>2, ExitAdds
  <2>5. r = AddReadyToRun(q, w, pr, lock)
    BY <2>3, <2>4
  <2>6. Good(r, pr) /\ r.st[w] \in Ready /\ Keeps(q, r, {w})
    BY <1>2, <2>5, Added
  <2> QED BY <1>2, <2>6
<1> QED BY <1>1, <1>2

LEMMA ExitStep ==
    ASSUME IInv, NEW r \in Tasks,
           NEW W \in {{}} \cup {{w} : w \in {t \in Tasks : state[t] = "blocked"}},
           Exit(r, W)
    PROVE  IInv' /\ CpuKept
<1>1. /\ r = Running /\ Reset(r) /\ prio' = prio /\ r \in All
  BY Kinds DEF Exit, Free
<1>2. /\ Good(Queues, prio) /\ Priorities(prio) /\ Queues.st = state
      /\ lockcount \in [All -> Nat] /\ lockcount \in [All -> Int]
      /\ state[r] = "running"
  BY <1>1, QueueFields, RunningIs DEF IInv, QueuesOK, PrioritiesOK, Counts
<1>3. "inactive" \in States /\ "inactive" \notin Ready
  BY DEF States, Ready
<1>4. PICK q1 : q1 = RemoveSelf(Queues, r, "inactive", prio, lockcount)
  OBVIOUS
<1>5. PICK n : n = First(q1)
  OBVIOUS
<1>6. PICK lock : lock = [lockcount EXCEPT ![n] = @ + 1]
  OBVIOUS
<1>7. PICK q4 : q4 = Release(q1, n, W, prio, lock)
  OBVIOUS
<1>8. PICK q : q = MergePending(q4, prio, lockcount)
  OBVIOUS
<1>9. Install(q)
  BY <1>4, <1>5, <1>6, <1>7, <1>8, Zenon DEF Exit, Release, Marked, First
<1>10. /\ Good(q1, prio) /\ q1.st[r] = "inactive" /\ Keeps(Queues, q1, {r})
  <2>1. q1 = MergePending(RemoveReadyToRun(Queues, r, "inactive"), prio, lockcount)
    BY <1>4 DEF RemoveSelf
  <2> QED BY <2>1, <1>2, <1>3, SelfRemoved
<1>11. /\ W = {} \/ \E w \in Tasks : W = {w} /\ q1.st[w] \notin Ready
       /\ W \subseteq Tasks /\ r \notin W
  <2>1. ASSUME NEW w \in Tasks, state[w] = "blocked"
        PROVE  w # r /\ w \in All /\ q1.st[w] \notin Ready
    <3>1. w # r /\ w \in All
      BY <1>2, <2>1, Kinds
    <3> QED BY <3>1, <1>2, <1>10, <2>1 DEF Keeps, Ready
  <2>2. W = {} \/ \E w \in Tasks : W = {w} /\ state[w] = "blocked"
    OBVIOUS
  <2> QED BY <2>1, <2>2
<1>12. /\ Good(q4, prio) /\ Keeps(q1, q4, W)
       /\ \A w \in W : q4.st[w] \in Ready
  <2>1. lock \in [All -> Int] /\ lock[n] > 0
    <3>1. n \in All
      BY <1>5, <1>10, Fields DEF First
    <3> QED BY <3>1, <1>2, <1>6
  <2> QED BY <2>1, <1>2, <1>5, <1>7, <1>10, <1>11, Released
<1>13. Good(q, prio) /\ Prompt(q, lockcount) /\ Keeps(q4, q, {})
  BY <1>2, <1>8, <1>12, Merged
<1>14. q.st[r] = "inactive"
  BY <1>1, <1>3, <1>10, <1>11, <1>12, <1>13 DEF Keeps
<1>15. First(q) \in All /\ First(q) # r
  BY <1>13, <1>14, Fields DEF First, Good, Agree
<1>16. Prompt(q, lockcount')
  <2>1. lockcount'[First(q)] = lockcount[First(q)]
    BY <1>1, <1>2, <1>15 DEF Reset
  <2> QED BY <1>13, <2>1 DEF Prompt, First
<1>17. Keeps(Queues, q, W \cup {r})
  BY <1>10, <1>12, <1>13 DEF Keeps
<1>18. \A u \in W \cup {r} : q.st[u] \in States
  <2>1. ASSUME NEW u \in W PROVE q.st[u] \in States
    <3>1. u \in All /\ q4.st[u] \in Ready
      BY <1>11, <1>12, Kinds
    <3>2. q.st[u] \in Ready
      BY <1>13, <3>1 DEF Keeps
    <3> QED BY <3>2 DEF Ready, States
  <2> QED BY <2>1, <1>3, <1>14
<1>19. QueuesOK' /\ state' = q.st
  <2>1. Good(q, prio')
    BY <1>1, <1>13
  <2> QED BY <2>1, <1>9, <1>16, <1>17, <1>18, Installed
<1>20. CpuKept
  BY <1>1, <1>14, <1>19 DEF CpuKept
<1> QED BY <1>1, <1>19, <1>20, ResetStep

-----------------------------------------------------------------------------
(* The invariant is inductive.                                             *)

LEMMA Starts ==
    ASSUME Prios # {}, Init PROVE IInv
<1>1. Min(Prios) \in Prios /\ Min(Prios) \in Nat \ {0}
  <2>1. Prios \subseteq Nat \ {0}
    BY SchedConstants
  <2>2. \E x \in Prios : \A y \in Prios : x <= y
    BY <2>1, LeastNatural
  <2> QED BY <2>1, <2>2 DEF Min
<1>2. Counts
  BY DEF Init, Counts
<1>3. PrioritiesOK
  BY <1>1, Kinds DEF Init, PrioritiesOK, Priorities, All
<1>4. timeslice \in [All -> 0 .. Slice]
  BY SchedConstants DEF Init
<1>5. /\ readytorun \in Seq(All) /\ Len(readytorun) = 1 /\ readytorun[1] = Idle
      /\ Head(readytorun) = Idle /\ readytorun # <<>>
  BY Kinds DEF Init
<1>6. pending \in Seq(Tasks) /\ pending \in Seq(All) /\ Len(pending) = 0 /\ pending = <<>>
  BY DEF Init
<1>7. ToSet(readytorun) = {Idle}
  BY <1>5, ToSetIndex
<1>8. ToSet(pending) = {}
  BY <1>6, ToSetEmpty
<1>9. Line(readytorun, prio)
  <2>1. \A i, j \in 1 .. Len(readytorun) : i = j
    BY <1>5
  <2>2. NoDuplicates(readytorun)
    BY <2>1 DEF NoDuplicates
  <2>3. IsPrioritized(readytorun, prio)
    BY <2>1 DEF IsPrioritized
  <2> QED BY <1>5, <2>2, <2>3 DEF Line
<1>10. Line(pending, prio)
  <2>1. 1 .. Len(pending) = {}
    BY <1>6
  <2> QED BY <1>6, <2>1 DEF Line, NoDuplicates, IsPrioritized
<1>11. state \in [All -> States]
  BY DEF Init, States
<1>12. Agree(ToSet(readytorun), Head(readytorun), ToSet(pending), state)
  <2>1. \A t \in All : state[t] = IF t = Idle THEN "running" ELSE "inactive"
    BY DEF Init
  <2> QED BY <1>5, <1>7, <1>8, <2>1 DEF Agree
<1>13. Queues \in QueueRecords
  BY <1>5, <1>6, <1>11 DEF Queues, QueueRecords
<1>14. Good(Queues, prio)
  BY <1>5, <1>7, <1>9, <1>10, <1>12, <1>13, QueueFields DEF Good
<1>15. Prompt(Queues, lockcount)
  BY <1>6, QueueFields DEF Prompt
<1> QED BY <1>2, <1>3, <1>4, <1>11, <1>14, <1>15 DEF IInv, QueuesOK

LEMMA Continues ==
    ASSUME NoProtection, IInv, [Next]_vars PROVE IInv' /\ CpuKept
<1>1. CASE UNCHANGED vars
  <2>1. /\ readytorun' = readytorun /\ pending' = pending /\ state' = state
        /\ lockcount' = lockcount /\ prio' = prio /\ timeslice' = timeslice
        /\ resume' = resume
    BY <1>1 DEF vars
  <2>2. Queues' = Queues /\ Running' = Running
    BY <2>1 DEF Queues, Running
  <2> QED BY <2>1, <2>2 DEF IInv, Counts, PrioritiesOK, QueuesOK, CpuKept
<1>2. ASSUME NEW r \in All, SchedLock(r) \/ SchedUnlock(r) \/ Resume(r)
      PROVE  IInv' /\ CpuKept
  BY <1>2, SchedLockStep, SchedUnlockStep, ResumeStep
<1>3. ASSUME NEW r \in Tasks, NEW protocol \in Protocols, Block(r, protocol)
      PROVE  IInv' /\ CpuKept
  BY <1>3, BlockStep
<1>4. ASSUME NEW r \in Tasks,
             NEW W \in {{}} \cup {{w} : w \in {t \in Tasks : state[t] = "blocked"}},
             Exit(r, W)
      PROVE  IInv' /\ CpuKept
  BY <1>4, ExitStep
<1>5. ASSUME NEW t \in Tasks, Terminate(t) \/ Suspend(t) \/ Wake(t)
      PROVE  IInv' /\ CpuKept
  BY <1>5, TerminateStep, SuspendStep, WakeStep
<1>6. ASSUME NEW t \in Tasks, NEW p \in Prios, Activate(t, p) \/ SetPriority(t, p)
      PROVE  IInv' /\ CpuKept
  BY <1>6, ActivateStep, SetPriorityStep
<1>7. CASE Tick
  BY <1>7, TickStep
<1> QED BY <1>1, <1>2, <1>3, <1>4, <1>5, <1>6, <1>7 DEF Next

(* The IDLE task, the only one of priority 0, is the last one.             *)
LEMMA IdleLast ==
    ASSUME NEW list, NEW pr, Line(list, pr), Priorities(pr), list # <<>>,
           Idle \in ToSet(list)
    PROVE  list[Len(list)] = Idle
<1>1. list \in Seq(All) /\ Len(list) \in Nat \ {0}
  BY DEF Line
<1>2. PICK k \in 1 .. Len(list) : list[k] = Idle
  BY <1>1, ToSetIndex
<1>3. CASE k = Len(list)
  BY <1>2, <1>3
<1>4. CASE k < Len(list)
  <2>1. PICK u \in All : u = list[Len(list)]
    BY <1>1
  <2>2. Len(list) \in 1 .. Len(list)
    BY <1>1
  <2>3. pr[u] <= pr[Idle]
    BY <1>2, <1>4, <2>1, <2>2 DEF Line, IsPrioritized
  <2>4. u = Idle
    BY <2>3 DEF Priorities, All
  <2> QED BY <2>1, <2>4
<1> QED BY <1>1, <1>2, <1>3, <1>4

(* Two lists without a task in common, one behind the other.               *)
LEMMA NoneTwice ==
    ASSUME NEW a \in Seq(All), NEW b \in Seq(All), NoDuplicates(a), NoDuplicates(b),
           \A t \in ToSet(a) : t \notin ToSet(b)
    PROVE  NoDuplicates(a \o b)
<1>1. /\ Len(a) \in Nat /\ Len(b) \in Nat /\ Len(a \o b) = Len(a) + Len(b)
      /\ \A i \in 1 .. Len(a) + Len(b) :
           (a \o b)[i] = IF i <= Len(a) THEN a[i] ELSE b[i - Len(a)]
  OBVIOUS
<1>2. ASSUME NEW i \in 1 .. Len(a) + Len(b), NEW j \in 1 .. Len(a) + Len(b),
             (a \o b)[i] = (a \o b)[j]
      PROVE  i = j
  <2>1. CASE i <= Len(a) /\ j <= Len(a)
    <3>1. i \in 1 .. Len(a) /\ j \in 1 .. Len(a) /\ a[i] = a[j]
      BY <1>1, <1>2, <2>1
    <3> QED BY <3>1 DEF NoDuplicates
  <2>2. CASE i > Len(a) /\ j > Len(a)
    <3>1. /\ i - Len(a) \in 1 .. Len(b) /\ j - Len(a) \in 1 .. Len(b)
          /\ b[i - Len(a)] = b[j - Len(a)]
      BY <1>1, <1>2, <2>2
    <3>2. i - Len(a) = j - Len(a)
      BY <3>1 DEF NoDuplicates
    <3> QED BY <1>1, <3>2
  <2>3. CASE i <= Len(a) /\ j > Len(a)
    <3>1. i \in 1 .. Len(a) /\ j - Len(a) \in 1 .. Len(b) /\ a[i] = b[j - Len(a)]
      BY <1>1, <1>2, <2>3
    <3> QED BY <3>1, ToSetIndex
  <2>4. CASE i > Len(a) /\ j <= Len(a)
    <3>1. j \in 1 .. Len(a) /\ i - Len(a) \in 1 .. Len(b) /\ a[j] = b[i - Len(a)]
      BY <1>1, <1>2, <2>4
    <3> QED BY <3>1, ToSetIndex
  <2> QED BY <1>1, <2>1, <2>2, <2>3, <2>4
<1> QED BY <1>1, <1>2 DEF NoDuplicates

LEMMA Consequences ==
    ASSUME IInv PROVE TypeOK /\ ListsConsistent /\ HighestRuns
<1>1. /\ Good(Queues, prio) /\ Prompt(Queues, lockcount) /\ state \in [All -> States]
      /\ Priorities(prio)
  BY DEF IInv, QueuesOK, PrioritiesOK
<1>2. /\ readytorun \in Seq(All) /\ pending \in Seq(Tasks) /\ readytorun # <<>>
      /\ Line(readytorun, prio) /\ Line(pending, prio) /\ Idle \in ToSet(readytorun)
  BY <1>1, QueueFields, Fields
<1>3. Agree(ToSet(readytorun), Running, ToSet(pending), state)
  BY <1>1, QueueFields DEF Good, First
<1>4. TypeOK
  BY <1>1, <1>2 DEF IInv, Counts, PrioritiesOK, TypeOK
<1>5. ListsConsistent
  <2>1. readytorun[Len(readytorun)] = Idle
    BY <1>1, <1>2, IdleLast
  <2>2. /\ IsPrioritized(readytorun, prio) /\ IsPrioritized(pending, prio)
        /\ NoDuplicates(readytorun) /\ NoDuplicates(pending) /\ pending \in Seq(All)
    BY <1>2 DEF Line
  <2>3. NoDuplicates(readytorun \o pending)
    <3>1. \A t \in ToSet(readytorun) : t \notin ToSet(pending)
      BY <1>3 DEF Agree
    <3> QED BY <1>2, <2>2, <3>1, NoneTwice
  <2>4. \A t \in All :
          state[t] = IF t = Running THEN "running"
                     ELSE IF t \in ToSet(readytorun) THEN "readytorun"
                     ELSE IF t \in ToSet(pending) THEN "pending"
                     ELSE state[t]
    BY <1>3 DEF Agree
  <2>5. \A t \in All : state[t] \in {"running", "readytorun", "pending"} =>
          t \in ToSet(readytorun) \cup ToSet(pending)
    BY <1>3 DEF Agree
  <2> QED BY <1>2, <1>4, <2>1, <2>2, <2>3, <2>4, <2>5 DEF ListsConsistent
<1>6. HighestRuns
  <2>1. lockcount[Running] <= 0 => pending = <<>>
    BY <1>1, QueueFields DEF Prompt, First
  <2>2. IsPrioritized(readytorun, prio) /\ prio \in [All -> Int]
    BY <1>1, <1>2 DEF Line, Priorities
  <2>3. \A t \in ToSet(readytorun) : prio[t] <= prio[Running]
    BY <1>2, <2>2, HeadHighest DEF Running
  <2> QED BY <2>1, <2>3 DEF HighestRuns
<1> QED BY <1>4, <1>5, <1>6

-----------------------------------------------------------------------------
(* The theorems.  They need a priority for the first tasks, and leave out  *)
(* semaphores with SEM_PRIO_PROTECT, whose wait ends with a sched_unlock() *)
(* that no sched_lock() precedes.                                          *)

(* The strengthened invariant: besides what TypeOK, ListsConsistent and    *)
(* HighestRuns say, no lock count is negative, a task inside a wait that   *)
(* will end with sched_unlock() holds the lock for it, and the IDLE task   *)
(* alone has priority 0.                                                   *)
THEOREM SchedInductive ==
    ASSUME Prios # {}, NoProtection PROVE Spec => []IInv
<1>1. Init => IInv
  BY Starts
<1>2. IInv /\ [Next]_vars => IInv'
  BY Continues
<1> QED BY <1>1, <1>2, PTL DEF Spec

(* g_readytorun, g_pendingtasks and the task states, with the types of all *)
(* variables, agree after any sequence of blocking, waking, exits,         *)
(* deletions, stops, ticks and changes of priority.                        *)
THEOREM SchedListsConsistent ==
    ASSUME Prios # {}, NoProtection PROVE Spec => []ListsConsistent
<1>1. IInv => ListsConsistent
  BY Consequences
<1> QED BY <1>1, SchedInductive, PTL

(* The running task has the highest priority of all ready tasks unless it  *)
(* has preemption disabled, and only then is a task left pending.          *)
THEOREM SchedHighestRuns ==
    ASSUME Prios # {}, NoProtection PROVE Spec => []HighestRuns
<1>1. IInv => HighestRuns
  BY Consequences
<1> QED BY <1>1, SchedInductive, PTL

(* No wakeup, tick, deletion or change of priority takes the CPU from a    *)
(* task that has preemption disabled.                                      *)
THEOREM SchedLockKeepsCpu ==
    ASSUME Prios # {}, NoProtection PROVE Spec => LockKeepsCpu
<1> DEFINE Kept == LET r == Running
                   IN  lockcount[r] > 0 /\ Running' # r =>
                          \/ lockcount'[r] = 0
                          \/ state'[r] \in {"blocked", "stopped", "inactive"}
<1>1. IInv /\ [Next]_vars => [Kept]_vars
  <2>1. CpuKept => Kept
    BY DEF CpuKept
  <2> QED BY <2>1, Continues
<1> QED BY <1>1, SchedInductive, PTL DEF Spec, LockKeepsCpu

(* sched_unlock() finds a lock to release whenever it is called, also at   *)
(* the end of a semaphore wait.                                            *)
THEOREM SchedUnlockBalanced ==
    ASSUME Prios # {}, NoProtection PROVE Spec => UnlockBalanced
<1> DEFINE Balanced == \A r \in All : lockcount'[r] < lockcount[r] => lockcount[r] > 0
<1>1. IInv /\ IInv' => [Balanced]_vars
  BY DEF IInv, Counts
<1>2. IInv /\ [Next]_vars => IInv'
  BY Continues
<1> QED BY <1>1, <1>2, SchedInductive, PTL DEF Spec, UnlockBalanced
=============================================================================
