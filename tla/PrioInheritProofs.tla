------------------------- MODULE PrioInheritProofs --------------------------
(***************************************************************************)
(* Proofs about priority inheritance, for any tasks, base priorities and   *)
(* semaphores.                                                             *)
(***************************************************************************)
EXTENDS PrioInherit, PrioListProofs

(* A finite set of naturals that is not empty has a greatest element.      *)
LEMMA GreatestNatural ==
    ASSUME NEW D, D \subseteq Nat, IsFiniteSet(D), D # {}
    PROVE  Max(D) \in D /\ \A y \in D : y <= Max(D)
<1> DEFINE B == {r \in SUBSET D : r # {} /\ ~\E m \in r : \A y \in r : y <= m}
<1>1. B = {}
  <2> SUFFICES ASSUME B # {} PROVE FALSE
    OBVIOUS
  <2>0. B \in SUBSET SUBSET D
    OBVIOUS
  <2>1. PICK r \in B : \A x \in r : r \ {x} \notin B
    <3> HIDE DEF B
    <3> QED BY <2>0, LeastSet
  <2>2. r \in SUBSET D /\ r # {} /\ ~\E m \in r : \A y \in r : y <= m
    OBVIOUS
  <2>3. PICK x \in r : TRUE
    BY <2>2
  <2>4. x \in Nat /\ \A y \in r : y \in Nat
    BY <2>2
  <2>5. CASE r \ {x} = {}
    <3>1. \A y \in r : y <= x
      BY <2>4, <2>5
    <3> QED BY <2>2, <3>1
  <2>6. CASE r \ {x} # {}
    <3>1. PICK m \in r \ {x} : \A y \in r \ {x} : y <= m
      BY <2>1, <2>2, <2>6
    <3>2. m \in r /\ m \in Nat
      BY <2>4, <3>1
    <3>3. CASE x <= m
      <4>1. \A y \in r : y <= m
        BY <3>1, <3>3
      <4> QED BY <2>2, <3>2, <4>1
    <3>4. CASE ~(x <= m)
      <4>1. \A y \in r : y <= x
        BY <2>4, <3>1, <3>2, <3>4
      <4> QED BY <2>2, <2>3, <4>1
    <3> QED BY <3>3, <3>4
  <2> QED BY <2>5, <2>6
<1>2. \E m \in D : \A y \in D : y <= m
  BY <1>1
<1>3. \E m \in D : \A y \in D : m >= y
  BY <1>2
<1>4. PICK m : m = Max(D)
  OBVIOUS
<1>5. m \in D /\ \A y \in D : m >= y
  BY <1>3, <1>4 DEF Max
<1>6. \A y \in D : y <= m
  BY <1>5
<1> QED BY <1>4, <1>5, <1>6

-----------------------------------------------------------------------------
(* The records of lists and priorities.                                    *)

Records ==
    [wait : [Sems -> Seq(Tasks)], hhead : [Sems -> Seq(Tasks)],
     counts : [Sems -> [Tasks -> Nat]], prio : [Tasks -> Nat]]

(* The wait lists are in order; no task is twice in a list.                *)
Lists(k) ==
    /\ k \in Records
    /\ \A s \in Sems : /\ NoDuplicates(k.wait[s]) /\ IsPrioritized(k.wait[s], k.prio)
                       /\ NoDuplicates(k.hhead[s])

SameHolders(k, r) == r.hhead = k.hhead /\ r.counts = k.counts

(* The tasks recorded as holders of s, and those that wait for it.         *)
Recorded(k, s) == ToSet(k.hhead[s])

Waiters(k, s) == ToSet(k.wait[s])

SameWaiters(k, r) == \A s \in Sems : Waiters(r, s) = Waiters(k, s)

LEMMA RecordFields ==
    ASSUME NEW k, Lists(k)
    PROVE  /\ k.wait \in [Sems -> Seq(Tasks)] /\ k.hhead \in [Sems -> Seq(Tasks)]
           /\ k.counts \in [Sems -> [Tasks -> Nat]] /\ k.prio \in [Tasks -> Nat]
           /\ \A s \in Sems : /\ k.wait[s] \in Seq(Tasks) /\ k.hhead[s] \in Seq(Tasks)
                              /\ Waiters(k, s) \subseteq Tasks
                              /\ Recorded(k, s) \subseteq Tasks
<1>1. /\ k.wait \in [Sems -> Seq(Tasks)] /\ k.hhead \in [Sems -> Seq(Tasks)]
      /\ k.counts \in [Sems -> [Tasks -> Nat]] /\ k.prio \in [Tasks -> Nat]
  BY DEF Lists, Records
<1>2. ASSUME NEW s \in Sems
      PROVE  /\ k.wait[s] \in Seq(Tasks) /\ k.hhead[s] \in Seq(Tasks)
             /\ Waiters(k, s) \subseteq Tasks /\ Recorded(k, s) \subseteq Tasks
  <2>1. k.wait[s] \in Seq(Tasks) /\ k.hhead[s] \in Seq(Tasks)
    BY <1>1
  <2> QED BY <2>1, ToSetIndex DEF Waiters, Recorded
<1> QED BY <1>1, <1>2

LEMMA ContainsIs ==
    ASSUME NEW S, NEW list \in Seq(S), NEW t
    PROVE  Contains(list, t) <=> t \in ToSet(list)
BY ToSetIndex DEF Contains

(* The priorities new are old but for task t.                              *)
Changed(old, new, t) == \A u \in Tasks \ {t} : new[u] = old[u]

(* A wait list in which the priority of t changes.                         *)
LEMMA Requeued ==
    ASSUME NEW list \in Seq(Tasks), NoDuplicates(list), NEW old, IsPrioritized(list, old),
           NEW t \in Tasks, NEW new \in [Tasks -> Nat], Changed(old, new, t),
           NEW r, r = IF Contains(list, t) THEN AddPrioritized(DqRem(list, t), t, new)
                      ELSE list
    PROVE  /\ r \in Seq(Tasks) /\ NoDuplicates(r) /\ IsPrioritized(r, new)
           /\ ToSet(r) = ToSet(list)
<1>1. new \in [Tasks -> Int]
  OBVIOUS
<1>2. CASE t \in ToSet(list)
  <2>1. r = AddPrioritized(DqRem(list, t), t, new)
    BY <1>2, ContainsIs
  <2>2. r \in Seq(Tasks) /\ ToSet(r) = ToSet(list) /\ NoDuplicates(r)
    BY <1>1, <1>2, <2>1, RequeueFacts
  <2>3. PICK d : d = DqRem(list, t)
    OBVIOUS
  <2>4. d \in Seq(Tasks) /\ ToSet(d) = ToSet(list) \ {t} /\ IsPrioritized(d, old)
    BY <1>2, <2>3, DqRemFacts, DqRemSorted
  <2>5. IsPrioritized(d, new)
    <3>1. \A x \in ToSet(d) : new[x] = old[x]
      BY <2>4, ToSetIndex DEF Changed
    <3> QED BY <2>4, <3>1, SamePriorities
  <2>6. IsPrioritized(AddPrioritized(d, t, new), new)
    BY <1>1, <2>4, <2>5, AddPrioritizedSorted
  <2> QED BY <2>1, <2>2, <2>3, <2>6
<1>3. CASE t \notin ToSet(list)
  <2>1. r = list
    BY <1>3, ContainsIs
  <2>2. \A x \in ToSet(list) : new[x] = old[x]
    BY <1>3, ToSetIndex DEF Changed
  <2>3. IsPrioritized(list, new)
    BY <2>2, SamePriorities
  <2> QED BY <2>1, <2>3
<1> QED BY <1>2, <1>3

(* nxsched_set_priority()                                                  *)
LEMMA PrioritySet ==
    ASSUME NEW k, Lists(k), NEW t \in Tasks, NEW p \in Nat,
           NEW r, r = SetPriority(k, t, p)
    PROVE  /\ Lists(r) /\ SameHolders(k, r) /\ SameWaiters(k, r)
           /\ r.prio[t] = p /\ Changed(k.prio, r.prio, t)
<1>1. /\ k \in Records /\ k.prio \in [Tasks -> Nat] /\ k.wait \in [Sems -> Seq(Tasks)]
  BY RecordFields DEF Lists
<1>2. PICK new : new = [k.prio EXCEPT ![t] = p]
  OBVIOUS
<1>3. new \in [Tasks -> Nat] /\ new[t] = p /\ Changed(k.prio, new, t)
  BY <1>1, <1>2 DEF Changed
<1>4. PICK lists : lists = [s \in Sems |->
                      IF Contains(k.wait[s], t)
                        THEN AddPrioritized(DqRem(k.wait[s], t), t, new)
                        ELSE k.wait[s]]
  OBVIOUS
<1>5. ASSUME NEW s \in Sems
      PROVE  /\ lists[s] \in Seq(Tasks) /\ NoDuplicates(lists[s])
             /\ IsPrioritized(lists[s], new) /\ ToSet(lists[s]) = ToSet(k.wait[s])
  <2>1. k.wait[s] \in Seq(Tasks) /\ NoDuplicates(k.wait[s]) /\ IsPrioritized(k.wait[s], k.prio)
    BY <1>1 DEF Lists
  <2>2. lists[s] = IF Contains(k.wait[s], t)
                     THEN AddPrioritized(DqRem(k.wait[s], t), t, new)
                     ELSE k.wait[s]
    BY <1>4
  <2> QED BY <1>3, <2>1, <2>2, Requeued
<1>6. lists \in [Sems -> Seq(Tasks)]
  <2>1. \A s \in Sems : lists[s] \in Seq(Tasks)
    BY <1>5
  <2> QED BY <1>4, <2>1
<1>7. r = [k EXCEPT !.prio = new, !.wait = lists]
  BY <1>2, <1>4 DEF SetPriority
<1>8. /\ r \in Records /\ r.prio = new /\ r.wait = lists
      /\ r.hhead = k.hhead /\ r.counts = k.counts
  BY <1>1, <1>3, <1>6, <1>7 DEF Records
<1>9. Lists(r)
  BY <1>5, <1>8 DEF Lists
<1>10. SameWaiters(k, r)
  BY <1>5, <1>8 DEF SameWaiters, Waiters
<1> QED BY <1>3, <1>8, <1>9, <1>10 DEF SameHolders

-----------------------------------------------------------------------------
(* The holder structures.                                                  *)

(* The structures of s are now those of the tasks R, and the one of t has  *)
(* n counts.                                                               *)
HoldersBecome(k, r, s, t, n, R) ==
    /\ r.wait = k.wait /\ r.prio = k.prio
    /\ Recorded(r, s) = R
    /\ r.counts[s][t] = n
    /\ \A u \in Tasks \ {t} : r.counts[s][u] = k.counts[s][u]
    /\ \A q \in Sems \ {s} : r.hhead[q] = k.hhead[q] /\ r.counts[q] = k.counts[q]

LEMMA HoldersUpdated ==
    ASSUME NEW k, Lists(k), NEW s \in Sems, NEW t \in Tasks, NEW n \in Nat,
           NEW h \in Seq(Tasks), NoDuplicates(h),
           NEW r, r = [k EXCEPT !.counts[s][t] = n, !.hhead[s] = h]
    PROVE  Lists(r) /\ HoldersBecome(k, r, s, t, n, ToSet(h))
<1>1. /\ k \in Records /\ k.hhead \in [Sems -> Seq(Tasks)]
      /\ k.counts \in [Sems -> [Tasks -> Nat]]
  BY RecordFields DEF Lists
<1>2. PICK c : c = [k.counts EXCEPT ![s][t] = n]
  OBVIOUS
<1>3. /\ c \in [Sems -> [Tasks -> Nat]] /\ c[s][t] = n
      /\ \A u \in Tasks \ {t} : c[s][u] = k.counts[s][u]
      /\ \A q \in Sems \ {s} : c[q] = k.counts[q]
  BY <1>1, <1>2
<1>4. PICK g : g = [k.hhead EXCEPT ![s] = h]
  OBVIOUS
<1>5. /\ g \in [Sems -> Seq(Tasks)] /\ g[s] = h
      /\ \A q \in Sems \ {s} : g[q] = k.hhead[q]
  BY <1>1, <1>4
<1>6. r = [k EXCEPT !.counts = c, !.hhead = g]
  BY <1>1, <1>2, <1>4 DEF Records
<1>7. /\ r \in Records /\ r.counts = c /\ r.hhead = g
      /\ r.wait = k.wait /\ r.prio = k.prio
  BY <1>1, <1>3, <1>5, <1>6 DEF Records
<1>8. \A q \in Sems : NoDuplicates(g[q])
  BY <1>5 DEF Lists
<1>9. Lists(r)
  BY <1>7, <1>8 DEF Lists
<1>10. Recorded(r, s) = ToSet(h)
  BY <1>5, <1>7 DEF Recorded
<1> QED BY <1>3, <1>5, <1>7, <1>9, <1>10 DEF HoldersBecome

Pushed(list, t) == <<t>> \o list

LEMMA PutFirst ==
    ASSUME NEW list \in Seq(Tasks), NoDuplicates(list), NEW t \in Tasks,
           t \notin ToSet(list), NEW r, r = Pushed(list, t)
    PROVE  r \in Seq(Tasks) /\ NoDuplicates(r) /\ ToSet(r) = ToSet(list) \cup {t}
<1>1. /\ Len(list) \in Nat /\ r \in Seq(Tasks) /\ Len(r) = Len(list) + 1 /\ r[1] = t
      /\ \A i \in 2 .. Len(list) + 1 : r[i] = list[i - 1]
  BY DEF Pushed
<1>2. \A i \in 1 .. Len(r) : i = 1 \/ (i - 1 \in 1 .. Len(list) /\ r[i] = list[i - 1])
  BY <1>1
<1>3. \A i \in 1 .. Len(list) : i + 1 \in 1 .. Len(r) /\ r[i + 1] = list[i]
  BY <1>1
<1>4. NoDuplicates(r)
  <2>1. ASSUME NEW i \in 1 .. Len(r), NEW j \in 1 .. Len(r), r[i] = r[j] PROVE i = j
    <3>1. CASE i = 1 /\ j = 1
      BY <3>1
    <3>2. CASE i = 1 /\ j # 1
      BY <1>1, <1>2, <2>1, <3>2, ToSetIndex
    <3>3. CASE i # 1 /\ j = 1
      BY <1>1, <1>2, <2>1, <3>3, ToSetIndex
    <3>4. CASE i # 1 /\ j # 1
      <4>1. i - 1 = j - 1
        BY <1>2, <2>1, <3>4 DEF NoDuplicates
      <4> QED BY <1>1, <4>1
    <3> QED BY <3>1, <3>2, <3>3, <3>4
  <2> QED BY <2>1 DEF NoDuplicates
<1>5. ToSet(r) = ToSet(list) \cup {t}
  <2>1. ASSUME NEW x \in ToSet(r) PROVE x \in ToSet(list) \cup {t}
    <3>1. PICK i \in 1 .. Len(r) : x = r[i]
      BY <1>1, ToSetIndex
    <3> QED BY <1>1, <1>2, <3>1, ToSetIndex
  <2>2. ASSUME NEW x \in ToSet(list) PROVE x \in ToSet(r)
    <3>1. PICK i \in 1 .. Len(list) : x = list[i]
      BY ToSetIndex
    <3> QED BY <1>1, <1>3, <3>1, ToSetIndex
  <2>3. t \in ToSet(r)
    <3>1. 1 \in 1 .. Len(r)
      BY <1>1
    <3> QED BY <1>1, <3>1, ToSetIndex
  <2> QED BY <2>1, <2>2, <2>3
<1> QED BY <1>1, <1>4, <1>5

(* nxsem_add_holder_tcb()                                                  *)
LEMMA HolderAdded ==
    ASSUME NEW k, Lists(k), NEW s \in Sems, NEW t \in Tasks, NEW r, r = AddHolder(k, t, s)
    PROVE  /\ Lists(r) /\ k.counts[s][t] \in Nat
           /\ HoldersBecome(k, r, s, t, k.counts[s][t] + 1, Recorded(k, s) \cup {t})
<1>1. /\ k \in Records /\ k.counts[s][t] \in Nat /\ k.hhead[s] \in Seq(Tasks)
      /\ NoDuplicates(k.hhead[s])
  BY RecordFields DEF Lists
<1>2. PICK h : h = IF Contains(k.hhead[s], t) THEN k.hhead[s] ELSE <<t>> \o k.hhead[s]
  OBVIOUS
<1>3. h \in Seq(Tasks) /\ NoDuplicates(h) /\ ToSet(h) = Recorded(k, s) \cup {t}
  <2>1. CASE t \in ToSet(k.hhead[s])
    BY <1>1, <1>2, <2>1, ContainsIs DEF Recorded
  <2>2. CASE t \notin ToSet(k.hhead[s])
    <3>1. h = Pushed(k.hhead[s], t)
      BY <1>1, <1>2, <2>2, ContainsIs DEF Pushed
    <3> QED BY <1>1, <2>2, <3>1, PutFirst DEF Recorded
  <2> QED BY <2>1, <2>2
<1>4. PICK n \in Nat : n = k.counts[s][t] + 1
  BY <1>1
<1>5. r = [k EXCEPT !.counts[s][t] = n, !.hhead[s] = h]
  BY <1>2, <1>4 DEF AddHolder
<1>6. Lists(r) /\ HoldersBecome(k, r, s, t, n, ToSet(h))
  BY <1>3, <1>5, HoldersUpdated
<1> QED BY <1>1, <1>3, <1>4, <1>6

(* nxsem_freeholder()                                                      *)
LEMMA HolderFreed ==
    ASSUME NEW k, Lists(k), NEW s \in Sems, NEW t \in Recorded(k, s),
           NEW r, r = FreeHolder(k, t, s)
    PROVE  Lists(r) /\ HoldersBecome(k, r, s, t, 0, Recorded(k, s) \ {t})
<1>1. /\ k.hhead[s] \in Seq(Tasks) /\ NoDuplicates(k.hhead[s])
      /\ t \in Tasks /\ t \in ToSet(k.hhead[s])
  BY RecordFields DEF Lists, Recorded
<1>2. PICK h : h = DqRem(k.hhead[s], t)
  OBVIOUS
<1>3. h \in Seq(Tasks) /\ NoDuplicates(h) /\ ToSet(h) = Recorded(k, s) \ {t}
  BY <1>1, <1>2, DqRemFacts DEF Recorded
<1>4. r = [k EXCEPT !.counts[s][t] = 0, !.hhead[s] = h]
  BY <1>2 DEF FreeHolder
<1>5. Lists(r) /\ HoldersBecome(k, r, s, t, 0, ToSet(h))
  BY <1>1, <1>3, <1>4, HoldersUpdated
<1> QED BY <1>3, <1>5

-----------------------------------------------------------------------------
(* The priorities are at least the base priorities.                        *)
Above(pr) == \A t \in Tasks : Base[t] <= pr[t]

(* In x the priority of t is given back as far as its recorded waiters,    *)
(* with priorities pr, allow.                                              *)
GivenBack(pr, x, t) ==
    /\ Base[t] <= x.prio[t]
    /\ pr[t] = Base[t] => x.prio[t] = Base[t]
    /\ pr[t] # Base[t] =>
         \A q \in Sems : t \in Recorded(x, q) =>
             \A w \in Waiters(x, q) : pr[w] <= x.prio[t]
    /\ x.prio[t] # Base[t] =>
         \E q \in Sems : t \in Recorded(x, q) /\ \E w \in Waiters(x, q) : pr[w] = x.prio[t]

(* nxsem_restore_priority()                                                *)
LEMMA PriorityRestored ==
    ASSUME NEW k, Lists(k), NEW t \in Tasks, Base[t] <= k.prio[t],
           NEW r, r = RestorePriority(k, t)
    PROVE  /\ Lists(r) /\ SameHolders(k, r) /\ SameWaiters(k, r)
           /\ Changed(k.prio, r.prio, t) /\ GivenBack(k.prio, r, t)
<1>0. Base[t] \in Nat /\ IsFiniteSet(Sems)
  BY InheritConstants
<1>1. k.prio \in [Tasks -> Nat]
  BY RecordFields
<1>2. PICK S : S = {q \in Sems : Contains(k.hhead[q], t) /\ k.wait[q] # <<>>}
  OBVIOUS
<1>3. \A q \in Sems : q \in S <=> t \in Recorded(k, q) /\ Waiters(k, q) # {}
  <2> SUFFICES ASSUME NEW q \in Sems
               PROVE  q \in S <=> t \in Recorded(k, q) /\ Waiters(k, q) # {}
    OBVIOUS
  <2>1. k.hhead[q] \in Seq(Tasks) /\ k.wait[q] \in Seq(Tasks)
    BY RecordFields
  <2>2. Contains(k.hhead[q], t) <=> t \in Recorded(k, q)
    BY <2>1, ContainsIs DEF Recorded
  <2>3. k.wait[q] # <<>> <=> Waiters(k, q) # {}
    BY <2>1, ToSetEmpty DEF Waiters
  <2> QED BY <1>2, <2>2, <2>3
<1>4. ASSUME NEW q \in S
      PROVE  /\ k.prio[Head(k.wait[q])] \in Nat /\ Head(k.wait[q]) \in Waiters(k, q)
             /\ \A w \in Waiters(k, q) : k.prio[w] <= k.prio[Head(k.wait[q])]
  <2>1. /\ q \in Sems /\ k.wait[q] \in Seq(Tasks) /\ k.wait[q] # <<>>
        /\ NoDuplicates(k.wait[q]) /\ IsPrioritized(k.wait[q], k.prio)
    BY <1>2, RecordFields DEF Lists
  <2>2. Head(k.wait[q]) \in ToSet(k.wait[q]) /\ Head(k.wait[q]) \in Tasks
    BY <2>1, TailFacts
  <2>3. k.prio \in [Tasks -> Int]
    BY <1>1
  <2>4. \A w \in ToSet(k.wait[q]) : k.prio[w] <= k.prio[Head(k.wait[q])]
    BY <2>1, <2>3, HeadHighest
  <2> QED BY <1>1, <2>2, <2>4 DEF Waiters
<1>5. PICK first : first = {k.prio[Head(k.wait[q])] : q \in S}
  OBVIOUS
<1>6. IsFiniteSet(first)
  <2>1. IsFiniteSet(S)
    BY <1>0, <1>2, FS_Subset
  <2>2. PICK f : f = [q \in S |-> k.prio[Head(k.wait[q])]]
    OBVIOUS
  <2>3. f \in Surjection(S, first)
    BY <1>5, <2>2 DEF Surjection
  <2> QED BY <2>1, <2>3, FS_Surjection
<1>7. PICK D : D = {Base[t]} \cup first
  OBVIOUS
<1>8. D \subseteq Nat /\ IsFiniteSet(D) /\ Base[t] \in D /\ D # {}
  <2>1. IsFiniteSet({Base[t]})
    BY FS_Singleton
  <2>2. IsFiniteSet({Base[t]} \cup first)
    BY <1>6, <2>1, FS_Union
  <2>3. first \subseteq Nat
    BY <1>4, <1>5
  <2> QED BY <1>0, <1>7, <2>2, <2>3
<1>9. PICK p : p = Max(D)
  OBVIOUS
<1>10. p \in D /\ p \in Nat /\ \A y \in D : y <= p
  BY <1>8, <1>9, GreatestNatural
<1>11. CASE k.prio[t] = Base[t]
  <2>1. r = k
    BY <1>11 DEF RestorePriority
  <2> QED BY <1>0, <1>11, <2>1 DEF SameHolders, SameWaiters, Changed, GivenBack
<1>12. CASE k.prio[t] # Base[t]
  <2>1. r = SetPriority(k, t, p)
    BY <1>2, <1>5, <1>7, <1>9, <1>12 DEF RestorePriority
  <2>2. /\ Lists(r) /\ SameHolders(k, r) /\ SameWaiters(k, r)
        /\ r.prio[t] = p /\ Changed(k.prio, r.prio, t)
    BY <1>10, <2>1, PrioritySet
  <2>3. \A q \in Sems : Recorded(r, q) = Recorded(k, q) /\ Waiters(r, q) = Waiters(k, q)
    BY <2>2 DEF SameHolders, SameWaiters, Recorded
  <2>4. Base[t] <= r.prio[t]
    BY <1>8, <1>10, <2>2
  <2>5. ASSUME NEW q \in Sems, t \in Recorded(r, q), NEW w \in Waiters(r, q)
        PROVE  k.prio[w] <= r.prio[t]
    <3>1. q \in S
      BY <1>3, <2>3, <2>5
    <3>2. k.prio[Head(k.wait[q])] \in Nat /\ k.prio[w] <= k.prio[Head(k.wait[q])]
      BY <1>4, <2>3, <2>5, <3>1
    <3>3. k.prio[Head(k.wait[q])] <= p
      BY <1>5, <1>7, <1>10, <3>1
    <3>4. k.prio[w] \in Nat
      BY <1>1, <2>3, <2>5, RecordFields
    <3> QED BY <1>10, <2>2, <3>2, <3>3, <3>4
  <2>6. ASSUME r.prio[t] # Base[t]
        PROVE  \E q \in Sems : /\ t \in Recorded(r, q)
                               /\ \E w \in Waiters(r, q) : k.prio[w] = r.prio[t]
    <3>1. p \in first
      BY <1>7, <1>10, <2>2, <2>6
    <3>2. PICK q \in S : p = k.prio[Head(k.wait[q])]
      BY <1>5, <3>1
    <3>3. q \in Sems
      BY <1>2
    <3>4. t \in Recorded(r, q) /\ Head(k.wait[q]) \in Waiters(r, q)
      BY <1>3, <1>4, <2>3, <3>3
    <3> QED BY <2>2, <3>2, <3>3, <3>4
  <2>7. GivenBack(k.prio, r, t)
    BY <1>12, <2>4, <2>5, <2>6 DEF GivenBack
  <2> QED BY <2>2, <2>7
<1> QED BY <1>11, <1>12

-----------------------------------------------------------------------------
(* nxsem_foreachholder() with nxsem_restoreholderprio().                   *)

(* The structures of s that are left when those of the tasks D were        *)
(* visited, and what visiting changes.                                     *)
Stays(k, s, D) ==
    {u \in Recorded(k, s) : u \notin D \/ (s \in Counters /\ k.counts[s][u] > 0)}

Visited(k, s, D, x) ==
    /\ \A q \in Sems \ {s} : x.hhead[q] = k.hhead[q] /\ x.counts[q] = k.counts[q]
    /\ Recorded(x, s) = Stays(k, s, D)
    /\ \A u \in Tasks : s \in Counters \/ u \notin D => x.counts[s][u] = k.counts[s][u]
    /\ \A u \in Tasks : s \in Mutexes /\ u \in D => x.counts[s][u] = 0

(* A priority above the base priority has a waiter.                        *)
Sustained(x, t) ==
    x.prio[t] # Base[t] => \E q \in Sems : t \in Recorded(x, q) /\ Waiters(x, q) # {}

(* The recorded holders of s do not wait themselves.                       *)
Quiet(k, s) == \A u \in Recorded(k, s) : \A q \in Sems : u \notin Waiters(k, q)

Restoring(k, s, D, x) ==
    /\ Lists(x) /\ SameWaiters(k, x) /\ Visited(k, s, D, x)
    /\ \A u \in Tasks \ D : x.prio[u] = k.prio[u]
    /\ Above(x.prio)
    /\ \A u \in D : Sustained(x, u)
    /\ Quiet(k, s) => \A u \in D : GivenBack(k.prio, x, u)

LEMMA RestoringStarts ==
    ASSUME NEW k, Lists(k), Above(k.prio), NEW s \in Sems
    PROVE  Restoring(k, s, {}, k)
<1>1. SameWaiters(k, k)
  BY DEF SameWaiters
<1>2. Visited(k, s, {}, k)
  BY DEF Visited, Stays
<1> QED BY <1>1, <1>2 DEF Restoring

(* The structure without counts, or of a mutex, is freed.                  *)
LEMMA VisitFrees ==
    ASSUME NEW k, Lists(k), NEW s \in Sems, NEW D, NEW x, Lists(x),
           Visited(k, s, D, x), NEW u \in Recorded(k, s), u \notin D, NEW f,
           f = IF x.counts[s][u] <= 0 \/ s \in Mutexes THEN FreeHolder(x, u, s) ELSE x
    PROVE  /\ Lists(f) /\ f.wait = x.wait /\ f.prio = x.prio
           /\ Visited(k, s, D \cup {u}, f)
<1>1. u \in Tasks /\ u \in Recorded(x, s) /\ Recorded(k, s) \subseteq Tasks
  BY RecordFields DEF Visited, Stays
<1>2. x.counts[s][u] = k.counts[s][u] /\ k.counts[s][u] \in Nat
  <2>1. k.counts \in [Sems -> [Tasks -> Nat]]
    BY RecordFields
  <2> QED BY <1>1, <2>1 DEF Visited
<1>3. (s \in Mutexes \/ s \in Counters) /\ ~(s \in Mutexes /\ s \in Counters)
  BY InheritConstants DEF Sems
<1>4. CASE x.counts[s][u] <= 0 \/ s \in Mutexes
  <2>1. f = FreeHolder(x, u, s)
    BY <1>4
  <2>2. Lists(f) /\ HoldersBecome(x, f, s, u, 0, Recorded(x, s) \ {u})
    BY <1>1, <2>1, HolderFreed
  <2>3. s \in Counters => k.counts[s][u] = 0
    BY <1>2, <1>3, <1>4
  <2>4. Recorded(f, s) = Stays(k, s, D \cup {u})
    <3>1. Recorded(f, s) = Stays(k, s, D) \ {u}
      BY <2>2 DEF HoldersBecome, Visited
    <3> QED BY <1>3, <2>3, <3>1 DEF Stays
  <2>5. /\ \A q \in Sems \ {s} : f.hhead[q] = k.hhead[q] /\ f.counts[q] = k.counts[q]
    BY <2>2 DEF HoldersBecome, Visited
  <2>6. ASSUME NEW v \in Tasks
        PROVE  /\ s \in Counters \/ v \notin D \cup {u} => f.counts[s][v] = k.counts[s][v]
               /\ s \in Mutexes /\ v \in D \cup {u} => f.counts[s][v] = 0
    <3>1. CASE v = u
      BY <1>3, <2>2, <2>3, <3>1 DEF HoldersBecome
    <3>2. CASE v # u
      <4>1. f.counts[s][v] = x.counts[s][v]
        BY <2>2, <3>2 DEF HoldersBecome
      <4> QED BY <3>2, <4>1 DEF Visited
    <3> QED BY <3>1, <3>2
  <2> QED BY <2>2, <2>4, <2>5, <2>6 DEF HoldersBecome, Visited
<1>5. CASE ~(x.counts[s][u] <= 0 \/ s \in Mutexes)
  <2>1. f = x /\ s \in Counters /\ k.counts[s][u] > 0
    BY <1>2, <1>3, <1>5
  <2>2. Stays(k, s, D \cup {u}) = Stays(k, s, D)
    BY <2>1 DEF Stays
  <2> QED BY <1>3, <2>1, <2>2 DEF Visited
<1> QED BY <1>4, <1>5

(* What holds of a task does not depend on the turns of the others.        *)
Unmoved(x, y, v) ==
    /\ y.prio[v] = x.prio[v] /\ SameWaiters(x, y)
    /\ \A q \in Sems : v \in Recorded(y, q) <=> v \in Recorded(x, q)

LEMMA UnmovedKeeps ==
    ASSUME NEW x, NEW y, NEW v, Unmoved(x, y, v), NEW pr
    PROVE  /\ Sustained(x, v) => Sustained(y, v)
           /\ GivenBack(pr, x, v) => GivenBack(pr, y, v)
<1>1. /\ y.prio[v] = x.prio[v]
      /\ \A q \in Sems : Waiters(y, q) = Waiters(x, q)
      /\ \A q \in Sems : v \in Recorded(y, q) <=> v \in Recorded(x, q)
  BY DEF Unmoved, SameWaiters
<1>2. Sustained(x, v) => Sustained(y, v)
  BY <1>1 DEF Sustained
<1>3. GivenBack(pr, x, v) => GivenBack(pr, y, v)
  BY <1>1 DEF GivenBack
<1> QED BY <1>2, <1>3

(* One turn of the loop.                                                   *)
LEMMA RestoringStep ==
    ASSUME NEW k, Lists(k), Above(k.prio), NEW s \in Sems,
           NEW D, D \subseteq Recorded(k, s), NEW x, Restoring(k, s, D, x),
           NEW u \in Recorded(k, s), u \notin D, NEW y, y = RestoreHolderPrio(x, u, s)
    PROVE  Restoring(k, s, D \cup {u}, y)
<1>1. /\ Lists(x) /\ SameWaiters(k, x) /\ Visited(k, s, D, x) /\ Above(x.prio)
      /\ \A v \in Tasks \ D : x.prio[v] = k.prio[v]
      /\ \A v \in D : Sustained(x, v)
      /\ Quiet(k, s) => \A v \in D : GivenBack(k.prio, x, v)
  BY DEF Restoring
<1>2. u \in Tasks /\ Recorded(k, s) \subseteq Tasks
  BY RecordFields
<1>3. PICK f : f = IF x.counts[s][u] <= 0 \/ s \in Mutexes THEN FreeHolder(x, u, s) ELSE x
  OBVIOUS
<1>4. /\ Lists(f) /\ f.wait = x.wait /\ f.prio = x.prio
      /\ Visited(k, s, D \cup {u}, f)
  BY <1>1, <1>3, VisitFrees
<1>5. y = RestorePriority(f, u)
  BY <1>3 DEF RestoreHolderPrio
<1>6. Base[u] <= f.prio[u]
  BY <1>1, <1>2, <1>4 DEF Above
<1>7. /\ Lists(y) /\ SameHolders(f, y) /\ SameWaiters(f, y)
      /\ Changed(f.prio, y.prio, u) /\ GivenBack(f.prio, y, u)
  BY <1>2, <1>4, <1>5, <1>6, PriorityRestored
<1>8. SameWaiters(x, y) /\ SameWaiters(k, y)
  BY <1>1, <1>4, <1>7 DEF SameWaiters, Waiters
<1>9. Visited(k, s, D \cup {u}, y)
  BY <1>4, <1>7 DEF Visited, SameHolders, Recorded
<1>10. \A v \in Tasks \ {u} : y.prio[v] = x.prio[v]
  BY <1>4, <1>7 DEF Changed
<1>11. \A v \in Tasks \ (D \cup {u}) : y.prio[v] = k.prio[v]
  BY <1>1, <1>10
<1>12. Above(y.prio)
  <2>1. Base[u] <= y.prio[u]
    BY <1>7 DEF GivenBack
  <2> QED BY <1>1, <1>10, <2>1 DEF Above
<1>13. ASSUME NEW v \in D PROVE Unmoved(x, y, v)
  <2>1. v \in Tasks /\ v # u
    BY <1>2, <1>13
  <2>2. ASSUME NEW q \in Sems PROVE v \in Recorded(y, q) <=> v \in Recorded(x, q)
    <3>1. CASE q = s
      BY <1>1, <1>9, <1>13, <2>1, <3>1 DEF Visited, Stays
    <3>2. CASE q # s
      BY <1>1, <1>9, <3>2 DEF Visited, Recorded
    <3> QED BY <3>1, <3>2
  <2> QED BY <1>8, <1>10, <2>1, <2>2 DEF Unmoved
<1>14. Sustained(y, u)
  BY <1>7 DEF GivenBack, Sustained
<1>15. \A v \in D \cup {u} : Sustained(y, v)
  BY <1>1, <1>13, <1>14, UnmovedKeeps
<1>16. ASSUME Quiet(k, s), NEW v \in D \cup {u} PROVE GivenBack(k.prio, y, v)
  <2>1. CASE v = u
    <3>1. \A q \in Sems : \A w \in Waiters(y, q) : f.prio[w] = k.prio[w]
      <4> SUFFICES ASSUME NEW q \in Sems, NEW w \in Waiters(y, q) PROVE f.prio[w] = k.prio[w]
        OBVIOUS
      <4>1. w \in Waiters(k, q) /\ w \in Tasks
        BY <1>8, RecordFields DEF SameWaiters
      <4>2. w \notin D
        BY <1>16, <4>1 DEF Quiet
      <4> QED BY <1>1, <1>4, <4>1, <4>2
    <3>2. f.prio[u] = k.prio[u]
      BY <1>1, <1>2, <1>4
    <3> QED BY <1>7, <2>1, <3>1, <3>2 DEF GivenBack
  <2>2. CASE v # u
    BY <1>1, <1>13, <1>16, <2>2, UnmovedKeeps
  <2> QED BY <2>1, <2>2
<1> QED BY <1>7, <1>8, <1>9, <1>11, <1>12, <1>15, <1>16 DEF Restoring

(* The loop is a recursive function on the turns taken, which exists by    *)
(* induction on their number.                                              *)
RestoreTurn(f, k, s, hs, but, i) ==
    IF i = 0 THEN k ELSE RestoreOthers(f[i - 1], hs[i], s, but)

LEMMA RestoreTurnsChosen ==
    ASSUME NEW k, NEW s, NEW hs, NEW but
    PROVE  RestoreTurns(k, s, hs, but) =
             CHOOSE f : f = [i \in 0 .. Len(hs) |-> RestoreTurn(f, k, s, hs, but, i)]
BY Zenon DEF RestoreTurns, RestoreTurn

LEMMA RestoreTurnsExist ==
    ASSUME NEW k, NEW s, NEW hs, NEW but, NEW n \in Nat
    PROVE  \E f : f = [i \in 0 .. n |-> RestoreTurn(f, k, s, hs, but, i)]
<1> DEFINE Has(m) == \E f : f = [i \in 0 .. m |-> RestoreTurn(f, k, s, hs, but, i)]
           Bad == {m \in Nat : ~Has(m)}
<1>1. Has(0)
  <2>1. PICK g : g = [i \in 0 .. 0 |-> k]
    OBVIOUS
  <2>2. \A i \in 0 .. 0 : RestoreTurn(g, k, s, hs, but, i) = k
    BY DEF RestoreTurn
  <2>3. g = [i \in 0 .. 0 |-> RestoreTurn(g, k, s, hs, but, i)]
    BY <2>1, <2>2
  <2> QED BY <2>3
<1>2. ASSUME NEW m \in Nat, Has(m) PROVE Has(m + 1)
  <2>1. PICK f : f = [i \in 0 .. m |-> RestoreTurn(f, k, s, hs, but, i)]
    BY <1>2
  <2>2. PICK g : g = [i \in 0 .. m + 1 |-> RestoreTurn(f, k, s, hs, but, i)]
    OBVIOUS
  <2>3. ASSUME NEW i \in 0 .. m + 1
        PROVE  RestoreTurn(g, k, s, hs, but, i) = RestoreTurn(f, k, s, hs, but, i)
    <3>1. CASE i = 0
      BY <3>1 DEF RestoreTurn
    <3>2. CASE i # 0
      <4>1. i - 1 \in 0 .. m /\ i - 1 \in 0 .. m + 1
        BY <3>2
      <4>2. f[i - 1] = RestoreTurn(f, k, s, hs, but, i - 1)
        BY <2>1, <4>1
      <4>3. g[i - 1] = RestoreTurn(f, k, s, hs, but, i - 1)
        BY <2>2, <4>1
      <4> QED BY <3>2, <4>2, <4>3 DEF RestoreTurn
    <3> QED BY <3>1, <3>2
  <2>4. g = [i \in 0 .. m + 1 |-> RestoreTurn(g, k, s, hs, but, i)]
    BY <2>2, <2>3
  <2> QED BY <2>4
<1>3. Bad = {}
  <2> HIDE DEF Has
  <2> SUFFICES ASSUME Bad # {} PROVE FALSE
    OBVIOUS
  <2>1. PICK m \in Bad : \A j \in Bad : m <= j
    <3>1. Bad \subseteq Nat
      OBVIOUS
    <3> HIDE DEF Bad
    <3> QED BY <3>1, LeastNatural
  <2>2. m # 0
    BY <1>1
  <2>3. m - 1 \in Nat /\ Has(m - 1)
    BY <2>1, <2>2
  <2>4. Has((m - 1) + 1)
    BY <2>3, <1>2
  <2> QED BY <2>4
<1>4. Has(n)
  <2> HIDE DEF Has
  <2> QED BY <1>3
<1> QED BY <1>4

LEMMA RestoreTurnByTurn ==
    ASSUME NEW k, NEW s, NEW hs, NEW but, NEW n \in Nat, n = Len(hs)
    PROVE  \E f : /\ f = RestoreTurns(k, s, hs, but) /\ f[0] = k
                 /\ \A i \in 1 .. n : f[i] = RestoreOthers(f[i - 1], hs[i], s, but)
<1>0. PICK f : f = RestoreTurns(k, s, hs, but)
  OBVIOUS
<1>1. \E g : g = [i \in 0 .. n |-> RestoreTurn(g, k, s, hs, but, i)]
  BY RestoreTurnsExist
<1>2. f = CHOOSE g : g = [i \in 0 .. n |-> RestoreTurn(g, k, s, hs, but, i)]
  BY <1>0, RestoreTurnsChosen
<1>3. f = [i \in 0 .. n |-> RestoreTurn(f, k, s, hs, but, i)]
  BY <1>1, <1>2, Zenon
<1>4. \A i \in 0 .. n : f[i] = RestoreTurn(f, k, s, hs, but, i)
  BY <1>3
<1> QED BY <1>0, <1>4 DEF RestoreTurn

(* The holders the loop has visited after i turns.                         *)
LEMMA FirstGrows ==
    ASSUME NEW S, NEW hs \in Seq(S), NoDuplicates(hs), NEW i \in 1 .. Len(hs)
    PROVE  /\ FirstOf(hs, i) = FirstOf(hs, i - 1) \cup {hs[i]}
           /\ hs[i] \notin FirstOf(hs, i - 1) /\ hs[i] \in ToSet(hs)
           /\ FirstOf(hs, i - 1) \subseteq ToSet(hs)
<1>1. Len(hs) \in Nat
  OBVIOUS
<1>2. \A j \in 1 .. i : j \in 1 .. i - 1 \/ j = i
  BY <1>1
<1>3. FirstOf(hs, i) = FirstOf(hs, i - 1) \cup {hs[i]}
  BY <1>1, <1>2 DEF FirstOf
<1>4. hs[i] \notin FirstOf(hs, i - 1)
  BY <1>1 DEF FirstOf, NoDuplicates
<1>5. hs[i] \in ToSet(hs)
  BY ToSetIndex
<1>6. FirstOf(hs, i - 1) \subseteq ToSet(hs)
  BY <1>1, ToSetIndex DEF FirstOf
<1> QED BY <1>3, <1>4, <1>5, <1>6

LEMMA FirstEnds ==
    ASSUME NEW S, NEW hs \in Seq(S)
    PROVE  FirstOf(hs, 0) = {} /\ FirstOf(hs, Len(hs)) = ToSet(hs)
<1>1. FirstOf(hs, 0) = {}
  BY DEF FirstOf
<1>2. FirstOf(hs, Len(hs)) = ToSet(hs)
  BY ToSetIndex DEF FirstOf
<1> QED BY <1>1, <1>2

(* The loop: all holders but one are visited.                              *)
LEMMA EachRestored ==
    ASSUME NEW k, Lists(k), Above(k.prio), NEW s \in Sems, NEW but,
           NEW r, r = RestoreEach(k, s, but)
    PROVE  Restoring(k, s, Recorded(k, s) \ {but}, r)
<1>1. PICK hs : hs = k.hhead[s]
  OBVIOUS
<1>2. hs \in Seq(Tasks) /\ NoDuplicates(hs) /\ Recorded(k, s) = ToSet(hs)
  BY <1>1, RecordFields DEF Lists, Recorded
<1>3. PICK n \in Nat : n = Len(hs)
  BY <1>2
<1>4. PICK f : /\ f = RestoreTurns(k, s, hs, but) /\ f[0] = k
               /\ \A i \in 1 .. n : f[i] = RestoreOthers(f[i - 1], hs[i], s, but)
  BY <1>3, RestoreTurnByTurn
<1>5. f[0] = k /\ \A i \in 1 .. n : f[i] = RestoreOthers(f[i - 1], hs[i], s, but)
  BY <1>4
<1>6. r = f[n]
  BY <1>1, <1>3, <1>4 DEF RestoreEach
<1>7. PICK Bad : Bad = {i \in 0 .. n : ~Restoring(k, s, FirstOf(hs, i) \ {but}, f[i])}
  OBVIOUS
<1>8. Bad = {}
  <2> SUFFICES ASSUME Bad # {} PROVE FALSE
    OBVIOUS
  <2>1. PICK i \in Bad : \A j \in Bad : i <= j
    <3>1. Bad \subseteq Nat
      BY <1>7
    <3> QED BY <3>1, LeastNatural
  <2>2. i # 0
    <3>1. FirstOf(hs, 0) \ {but} = {}
      BY <1>2, FirstEnds
    <3>2. Restoring(k, s, {}, k)
      BY RestoringStarts
    <3> QED BY <1>5, <1>7, <2>1, <3>1, <3>2
  <2>3. i \in 1 .. n /\ i - 1 \in 0 .. n /\ i - 1 < i
    BY <1>3, <1>7, <2>2
  <2>4. PICK D : D = FirstOf(hs, i - 1) \ {but}
    OBVIOUS
  <2>5. Restoring(k, s, D, f[i - 1])
    <3>1. i - 1 \notin Bad
      BY <2>1, <2>3
    <3> QED BY <1>7, <2>3, <2>4, <3>1
  <2>6. PICK u : u = hs[i]
    OBVIOUS
  <2>7. /\ FirstOf(hs, i) = FirstOf(hs, i - 1) \cup {u}
        /\ u \notin D /\ u \in Recorded(k, s) /\ D \subseteq Recorded(k, s)
    BY <1>2, <1>3, <2>3, <2>4, <2>6, FirstGrows
  <2>8. f[i] = RestoreOthers(f[i - 1], u, s, but)
    BY <1>5, <2>3, <2>6
  <2>9. CASE u = but
    <3>1. f[i] = f[i - 1] /\ FirstOf(hs, i) \ {but} = D
      BY <2>4, <2>7, <2>8, <2>9 DEF RestoreOthers
    <3> QED BY <1>7, <2>5, <3>1
  <2>10. CASE u # but
    <3>1. f[i] = RestoreHolderPrio(f[i - 1], u, s)
      BY <2>8, <2>10 DEF RestoreOthers
    <3>2. FirstOf(hs, i) \ {but} = D \cup {u}
      BY <2>4, <2>7, <2>10
    <3>3. Restoring(k, s, D \cup {u}, f[i])
      BY <2>5, <2>7, <3>1, RestoringStep
    <3> QED BY <1>7, <3>2, <3>3
  <2> QED BY <2>9, <2>10
<1>9. Restoring(k, s, FirstOf(hs, n) \ {but}, f[n])
  BY <1>7, <1>8
<1>10. FirstOf(hs, n) = Recorded(k, s)
  BY <1>2, <1>3, FirstEnds
<1> QED BY <1>6, <1>9, <1>10

(* nxsem_restore_baseprio() with a woken task: all holders are visited.    *)
LEMMA BaseprioRestored ==
    ASSUME NEW k, Lists(k), Above(k.prio), NEW s \in Sems, NEW self,
           NEW r, r = RestoreBaseprio(k, self, TRUE, s)
    PROVE  Restoring(k, s, Recorded(k, s), r)
<1>1. PICK others : others = RestoreEach(k, s, self)
  OBVIOUS
<1>2. PICK D : D = Recorded(k, s) \ {self}
  OBVIOUS
<1>3. Restoring(k, s, D, others)
  BY <1>1, <1>2, EachRestored
<1>4. r = IF Contains(others.hhead[s], self)
            THEN RestoreHolderPrio(others, self, s) ELSE others
  BY <1>1 DEF RestoreBaseprio
<1>5. Contains(others.hhead[s], self) <=> self \in Recorded(k, s)
  <2>1. others.hhead[s] \in Seq(Tasks) /\ Recorded(others, s) = Stays(k, s, D)
    BY <1>3, RecordFields DEF Restoring, Visited
  <2>2. self \in Stays(k, s, D) <=> self \in Recorded(k, s)
    BY <1>2 DEF Stays
  <2> QED BY <2>1, <2>2, ContainsIs DEF Recorded
<1>6. CASE self \in Recorded(k, s)
  <2>1. r = RestoreHolderPrio(others, self, s)
    BY <1>4, <1>5, <1>6
  <2>2. D \subseteq Recorded(k, s) /\ self \notin D /\ D \cup {self} = Recorded(k, s)
    BY <1>2, <1>6
  <2>3. Restoring(k, s, D \cup {self}, r)
    BY <1>3, <1>6, <2>1, <2>2, RestoringStep
  <2> QED BY <2>2, <2>3
<1>7. CASE self \notin Recorded(k, s)
  <2>1. r = others /\ D = Recorded(k, s)
    BY <1>2, <1>4, <1>5, <1>7
  <2> QED BY <1>3, <2>1
<1> QED BY <1>6, <1>7

-----------------------------------------------------------------------------
(* nxsem_boost_priority()                                                  *)

BoostTurn(f, k, t, hs, i) ==
    IF i = 0 THEN k ELSE BoostHolderPrio(f[i - 1], t, hs[i])

LEMMA BoostTurnsChosen ==
    ASSUME NEW k, NEW t, NEW hs
    PROVE  BoostTurns(k, t, hs) =
             CHOOSE f : f = [i \in 0 .. Len(hs) |-> BoostTurn(f, k, t, hs, i)]
BY Zenon DEF BoostTurns, BoostTurn

LEMMA BoostTurnsExist ==
    ASSUME NEW k, NEW t, NEW hs, NEW n \in Nat
    PROVE  \E f : f = [i \in 0 .. n |-> BoostTurn(f, k, t, hs, i)]
<1> DEFINE Has(m) == \E f : f = [i \in 0 .. m |-> BoostTurn(f, k, t, hs, i)]
           Bad == {m \in Nat : ~Has(m)}
<1>1. Has(0)
  <2>1. PICK g : g = [i \in 0 .. 0 |-> k]
    OBVIOUS
  <2>2. \A i \in 0 .. 0 : BoostTurn(g, k, t, hs, i) = k
    BY DEF BoostTurn
  <2>3. g = [i \in 0 .. 0 |-> BoostTurn(g, k, t, hs, i)]
    BY <2>1, <2>2
  <2> QED BY <2>3
<1>2. ASSUME NEW m \in Nat, Has(m) PROVE Has(m + 1)
  <2>1. PICK f : f = [i \in 0 .. m |-> BoostTurn(f, k, t, hs, i)]
    BY <1>2
  <2>2. PICK g : g = [i \in 0 .. m + 1 |-> BoostTurn(f, k, t, hs, i)]
    OBVIOUS
  <2>3. ASSUME NEW i \in 0 .. m + 1
        PROVE  BoostTurn(g, k, t, hs, i) = BoostTurn(f, k, t, hs, i)
    <3>1. CASE i = 0
      BY <3>1 DEF BoostTurn
    <3>2. CASE i # 0
      <4>1. i - 1 \in 0 .. m /\ i - 1 \in 0 .. m + 1
        BY <3>2
      <4>2. f[i - 1] = BoostTurn(f, k, t, hs, i - 1)
        BY <2>1, <4>1
      <4>3. g[i - 1] = BoostTurn(f, k, t, hs, i - 1)
        BY <2>2, <4>1
      <4> QED BY <3>2, <4>2, <4>3 DEF BoostTurn
    <3> QED BY <3>1, <3>2
  <2>4. g = [i \in 0 .. m + 1 |-> BoostTurn(g, k, t, hs, i)]
    BY <2>2, <2>3
  <2> QED BY <2>4
<1>3. Bad = {}
  <2> HIDE DEF Has
  <2> SUFFICES ASSUME Bad # {} PROVE FALSE
    OBVIOUS
  <2>1. PICK m \in Bad : \A j \in Bad : m <= j
    <3>1. Bad \subseteq Nat
      OBVIOUS
    <3> HIDE DEF Bad
    <3> QED BY <3>1, LeastNatural
  <2>2. m # 0
    BY <1>1
  <2>3. m - 1 \in Nat /\ Has(m - 1)
    BY <2>1, <2>2
  <2>4. Has((m - 1) + 1)
    BY <2>3, <1>2
  <2> QED BY <2>4
<1>4. Has(n)
  <2> HIDE DEF Has
  <2> QED BY <1>3
<1> QED BY <1>4

LEMMA BoostTurnByTurn ==
    ASSUME NEW k, NEW t, NEW hs, NEW n \in Nat, n = Len(hs)
    PROVE  \E f : /\ f = BoostTurns(k, t, hs) /\ f[0] = k
                 /\ \A i \in 1 .. n : f[i] = BoostHolderPrio(f[i - 1], t, hs[i])
<1>0. PICK f : f = BoostTurns(k, t, hs)
  OBVIOUS
<1>1. \E g : g = [i \in 0 .. n |-> BoostTurn(g, k, t, hs, i)]
  BY BoostTurnsExist
<1>2. f = CHOOSE g : g = [i \in 0 .. n |-> BoostTurn(g, k, t, hs, i)]
  BY <1>0, BoostTurnsChosen
<1>3. f = [i \in 0 .. n |-> BoostTurn(f, k, t, hs, i)]
  BY <1>1, <1>2, Zenon
<1>4. \A i \in 0 .. n : f[i] = BoostTurn(f, k, t, hs, i)
  BY <1>3
<1> QED BY <1>0, <1>4 DEF BoostTurn

(* The holders D got the priority of t where it was higher.                *)
Raising(old, new, t, D) ==
    /\ \A u \in Tasks \ D : new[u] = old[u]
    /\ \A u \in D : /\ old[u] <= new[u] /\ old[t] <= new[u]
                    /\ new[u] = old[u] \/ new[u] = old[t]

Boosting(k, t, D, x) ==
    /\ Lists(x) /\ SameHolders(k, x) /\ SameWaiters(k, x)
    /\ Raising(k.prio, x.prio, t, D)

LEMMA BoostingStep ==
    ASSUME NEW k, Lists(k), NEW t \in Tasks, NEW D, D \subseteq Tasks, t \notin D,
           NEW x, Boosting(k, t, D, x), NEW u \in Tasks, u \notin D, u # t,
           NEW y, y = BoostHolderPrio(x, t, u)
    PROVE  Boosting(k, t, D \cup {u}, y)
<1>1. /\ Lists(x) /\ SameHolders(k, x) /\ SameWaiters(k, x)
      /\ Raising(k.prio, x.prio, t, D)
  BY DEF Boosting
<1>2. k.prio \in [Tasks -> Nat] /\ x.prio \in [Tasks -> Nat]
  BY <1>1, RecordFields
<1>3. x.prio[t] = k.prio[t] /\ x.prio[u] = k.prio[u]
  BY <1>1 DEF Raising
<1>4. k.prio[t] \in Nat /\ k.prio[u] \in Nat
  BY <1>2
<1>5. CASE k.prio[t] > k.prio[u]
  <2>1. y = SetPriority(x, u, k.prio[t])
    BY <1>3, <1>5 DEF BoostHolderPrio
  <2>2. /\ Lists(y) /\ SameHolders(x, y) /\ SameWaiters(x, y)
        /\ y.prio[u] = k.prio[t] /\ Changed(x.prio, y.prio, u)
    BY <1>1, <1>4, <2>1, PrioritySet
  <2>3. Raising(k.prio, y.prio, t, D \cup {u})
    <3>1. \A v \in Tasks \ (D \cup {u}) : y.prio[v] = k.prio[v]
      BY <1>1, <2>2 DEF Raising, Changed
    <3>2. ASSUME NEW v \in D
          PROVE  /\ k.prio[v] <= y.prio[v] /\ k.prio[t] <= y.prio[v]
                 /\ y.prio[v] = k.prio[v] \/ y.prio[v] = k.prio[t]
      <4>1. y.prio[v] = x.prio[v]
        BY <2>2 DEF Changed
      <4>2. /\ k.prio[v] <= x.prio[v] /\ k.prio[t] <= x.prio[v]
            /\ x.prio[v] = k.prio[v] \/ x.prio[v] = k.prio[t]
        BY <1>1 DEF Raising
      <4> QED BY <4>1, <4>2, Zenon
    <3>3. k.prio[u] <= y.prio[u] /\ k.prio[t] <= y.prio[u]
      BY <1>4, <1>5, <2>2
    <3> QED BY <2>2, <3>1, <3>2, <3>3 DEF Raising
  <2>4. SameHolders(k, y) /\ SameWaiters(k, y)
    BY <1>1, <2>2 DEF SameHolders, SameWaiters
  <2> QED BY <2>2, <2>3, <2>4 DEF Boosting
<1>6. CASE ~(k.prio[t] > k.prio[u])
  <2>1. y = x
    BY <1>3, <1>6 DEF BoostHolderPrio
  <2>2. k.prio[u] <= x.prio[u] /\ k.prio[t] <= x.prio[u]
    BY <1>3, <1>4, <1>6
  <2>3. Raising(k.prio, x.prio, t, D \cup {u})
    BY <1>1, <1>3, <2>2 DEF Raising
  <2> QED BY <1>1, <2>1, <2>3 DEF Boosting
<1> QED BY <1>5, <1>6

LEMMA PriorityBoosted ==
    ASSUME NEW k, Lists(k), NEW s \in Sems, NEW t \in Tasks, t \notin Recorded(k, s),
           NEW r, r = BoostPriority(k, t, s)
    PROVE  Boosting(k, t, Recorded(k, s), r)
<1>1. PICK hs : hs = k.hhead[s]
  OBVIOUS
<1>2. hs \in Seq(Tasks) /\ NoDuplicates(hs) /\ Recorded(k, s) = ToSet(hs)
  BY <1>1, RecordFields DEF Lists, Recorded
<1>3. PICK n \in Nat : n = Len(hs)
  BY <1>2
<1>4. PICK f : /\ f = BoostTurns(k, t, hs) /\ f[0] = k
               /\ \A i \in 1 .. n : f[i] = BoostHolderPrio(f[i - 1], t, hs[i])
  BY <1>3, BoostTurnByTurn
<1>5. f[0] = k /\ \A i \in 1 .. n : f[i] = BoostHolderPrio(f[i - 1], t, hs[i])
  BY <1>4
<1>6. r = f[n]
  BY <1>1, <1>3, <1>4 DEF BoostPriority
<1>7. PICK Bad : Bad = {i \in 0 .. n : ~Boosting(k, t, FirstOf(hs, i), f[i])}
  OBVIOUS
<1>8. Bad = {}
  <2> SUFFICES ASSUME Bad # {} PROVE FALSE
    OBVIOUS
  <2>1. PICK i \in Bad : \A j \in Bad : i <= j
    <3>1. Bad \subseteq Nat
      BY <1>7
    <3> QED BY <3>1, LeastNatural
  <2>2. i # 0
    <3>1. FirstOf(hs, 0) = {}
      BY <1>2, FirstEnds
    <3>2. Boosting(k, t, {}, k)
      BY DEF Boosting, Raising, SameHolders, SameWaiters
    <3> QED BY <1>5, <1>7, <2>1, <3>1, <3>2
  <2>3. i \in 1 .. n /\ i - 1 \in 0 .. n /\ i - 1 < i
    BY <1>3, <1>7, <2>2
  <2>4. PICK D : D = FirstOf(hs, i - 1)
    OBVIOUS
  <2>5. Boosting(k, t, D, f[i - 1])
    <3>1. i - 1 \notin Bad
      BY <2>1, <2>3
    <3> QED BY <1>7, <2>3, <2>4, <3>1
  <2>6. PICK u : u = hs[i]
    OBVIOUS
  <2>7. /\ FirstOf(hs, i) = D \cup {u} /\ u \notin D
        /\ u \in Recorded(k, s) /\ D \subseteq Recorded(k, s)
    BY <1>2, <1>3, <2>3, <2>4, <2>6, FirstGrows
  <2>8. f[i] = BoostHolderPrio(f[i - 1], t, u)
    BY <1>5, <2>3, <2>6
  <2>9. Recorded(k, s) \subseteq Tasks
    BY RecordFields
  <2>10. D \subseteq Tasks /\ t \notin D /\ u \in Tasks /\ u # t
    BY <2>7, <2>9
  <2>11. Boosting(k, t, D \cup {u}, f[i])
    BY <2>5, <2>7, <2>8, <2>10, BoostingStep
  <2> QED BY <1>7, <2>7, <2>11
<1>9. Boosting(k, t, FirstOf(hs, n), f[n])
  BY <1>7, <1>8
<1>10. FirstOf(hs, n) = Recorded(k, s)
  BY <1>2, <1>3, FirstEnds
<1> QED BY <1>6, <1>9, <1>10

-----------------------------------------------------------------------------
(* The inductive invariant, as a formula on the record k of the lists and  *)
(* priorities and on the values of the other variables.                    *)

HoldsIn(own, hld, t, s) == IF s \in Mutexes THEN own[s] = t ELSE hld[s][t] > 0

Scalars(u, own, cnt, wo, hld) ==
    /\ u \in Uses
    /\ own \in [Mutexes -> Tasks \cup {None}]
    /\ cnt \in [Counters -> Int]
    /\ wo \in [Tasks -> Sems \cup {None}]
    /\ hld \in [Counters -> [Tasks -> Nat]]

WaitersAgree(k, wo) == \A s \in Sems : Waiters(k, s) = {t \in Tasks : wo[t] = s}

(* The structures of s: h has the counts taken of a counting semaphore, o  *)
(* is the owner of a mutex.                                                *)
RecordsCounts(k, s) == Recorded(k, s) = {t \in Tasks : k.counts[s][t] > 0}

MutexAgrees(k, s, o) ==
    /\ Recorded(k, s) \subseteq {o}
    /\ Recorded(k, s) # {} => Waiters(k, s) # {}

Agree(k, own, hld) ==
    /\ \A s \in Sems : RecordsCounts(k, s)
    /\ \A s \in Mutexes : MutexAgrees(k, s, own[s])
    /\ \A s \in Counters : k.counts[s] = hld[s]

(* The count c, the counts h taken and the n waiters of a counting         *)
(* semaphore: no count is lost, and none is left while somebody waits.     *)
Balanced(c, h, n) ==
    /\ c + Total(h) + n = Units
    /\ (c >= 0 /\ n = 0) \/ c = -n

Ledger(k, cnt, hld) ==
    \A s \in Counters : Balanced(cnt[s], hld[s], Cardinality(Waiters(k, s)))

(* Somebody owns a mutex that others wait for.                             *)
Owned(k, own) == \A s \in Mutexes : Waiters(k, s) # {} => own[s] # None

(* Without nesting, a task holds one semaphore, and none while it waits.   *)
Single(u, own, wo, hld) ==
    ~u.nested =>
        \A t \in Tasks : \A s \in Sems : HoldsIn(own, hld, t, s) =>
            wo[t] = None /\ \A q \in Sems : HoldsIn(own, hld, t, q) => q = s

NoInversion(k, u, own, hld) ==
    ~u.nested =>
        \A s \in Sems \ (Mutexes \cap u.timed) : \A w \in Waiters(k, s) : \A h \in Tasks :
            HoldsIn(own, hld, h, s) => k.prio[w] <= k.prio[h]

(* The waiters of s are a reason for the priority of t.                    *)
RaisedBy(k, u, t, s) ==
    /\ t \in Recorded(k, s) /\ Waiters(k, s) # {}
    /\ u.nested \/ \E w \in Waiters(k, s) : k.prio[w] = k.prio[t]

Raised(k, u) ==
    u.timed \cap Counters = {} =>
        \A t \in Tasks : k.prio[t] # Base[t] => \E s \in Sems : RaisedBy(k, u, t, s)

Shape(k, u, own, cnt, wo, hld) ==
    /\ Lists(k) /\ Scalars(u, own, cnt, wo, hld)
    /\ WaitersAgree(k, wo) /\ Agree(k, own, hld)
    /\ Ledger(k, cnt, hld) /\ Owned(k, own) /\ Above(k.prio)
    /\ Single(u, own, wo, hld)

Good(k, u, own, cnt, wo, hld) ==
    /\ Shape(k, u, own, cnt, wo, hld)
    /\ NoInversion(k, u, own, hld) /\ Raised(k, u)

IInv == Good(Now, use, owner, count, waitobj, held)

LEMMA Kinds ==
    /\ \A s \in Sems : s \in Mutexes \/ s \in Counters
    /\ \A s \in Mutexes : s \in Sems /\ s \notin Counters
    /\ \A s \in Counters : s \in Sems /\ s \notin Mutexes
    /\ None \notin Tasks /\ None \notin Sems
BY InheritConstants DEF Sems

LEMMA HoldsIs ==
    ASSUME NEW own, NEW hld, NEW t
    PROVE  /\ \A s \in Mutexes : HoldsIn(own, hld, t, s) <=> own[s] = t
           /\ \A s \in Counters : HoldsIn(own, hld, t, s) <=> hld[s][t] > 0
BY Kinds DEF HoldsIn

(* The waiters of a semaphore.                                             *)
LEMMA WaitersFinite ==
    ASSUME NEW k, Lists(k), NEW s \in Sems
    PROVE  /\ IsFiniteSet(Waiters(k, s)) /\ Cardinality(Waiters(k, s)) \in Nat
           /\ Waiters(k, s) = {} <=> Cardinality(Waiters(k, s)) = 0
           /\ Waiters(k, s) = {} <=> k.wait[s] = <<>>
<1>1. k.wait[s] \in Seq(Tasks) /\ NoDuplicates(k.wait[s])
  BY RecordFields DEF Lists
<1>2. IsFiniteSet(Waiters(k, s))
  BY <1>1, LenIsCardinality DEF Waiters
<1>3. Cardinality(Waiters(k, s)) \in Nat
  BY <1>2, FS_CardinalityType
<1>4. Waiters(k, s) = {} <=> Cardinality(Waiters(k, s)) = 0
  BY <1>2, FS_EmptySet
<1>5. Waiters(k, s) = {} <=> k.wait[s] = <<>>
  BY <1>1, ToSetEmpty DEF Waiters
<1> QED BY <1>2, <1>3, <1>4, <1>5

(* A recorded holder holds the semaphore; one that holds a counting        *)
(* semaphore is recorded.                                                  *)
LEMMA RecordedHolds ==
    ASSUME NEW k, NEW own, NEW hld, Lists(k), Agree(k, own, hld), NEW s \in Sems, NEW t \in Tasks
    PROVE  /\ t \in Recorded(k, s) => HoldsIn(own, hld, t, s)
           /\ s \in Counters => (t \in Recorded(k, s) <=> HoldsIn(own, hld, t, s))
<1>1. CASE s \in Mutexes
  <2>1. s \notin Counters
    BY <1>1, Kinds
  <2>2. t \in Recorded(k, s) => own[s] = t
    BY <1>1 DEF Agree, MutexAgrees
  <2> QED BY <1>1, <2>1, <2>2, HoldsIs
<1>2. CASE s \in Counters
  <2>1. Recorded(k, s) = {v \in Tasks : k.counts[s][v] > 0} /\ k.counts[s] = hld[s]
    BY <1>2 DEF Agree, RecordsCounts
  <2>2. t \in Recorded(k, s) <=> hld[s][t] > 0
    BY <2>1
  <2> QED BY <1>2, <2>2, HoldsIs
<1> QED BY <1>1, <1>2, Kinds

(* Without nesting, the recorded holders of a semaphore do not wait.       *)
LEMMA HoldersQuiet ==
    ASSUME NEW k, NEW u, NEW own, NEW cnt, NEW wo, NEW hld,
           Shape(k, u, own, cnt, wo, hld), ~u.nested
    PROVE  \A s \in Sems : Quiet(k, s)
<1> SUFFICES ASSUME NEW s \in Sems, NEW v \in Recorded(k, s), NEW q \in Sems
             PROVE  v \notin Waiters(k, q)
  BY DEF Quiet
<1>1. Lists(k) /\ Agree(k, own, hld) /\ WaitersAgree(k, wo) /\ Single(u, own, wo, hld)
  BY DEF Shape
<1>2. v \in Tasks
  BY <1>1, RecordFields
<1>3. HoldsIn(own, hld, v, s)
  BY <1>1, <1>2, RecordedHolds
<1>4. wo[v] = None
  BY <1>1, <1>2, <1>3 DEF Single
<1>5. None \notin Sems
  BY Kinds
<1> QED BY <1>1, <1>4, <1>5 DEF WaitersAgree

LEMMA BalancedBound ==
    ASSUME NEW c \in Int, NEW h \in [Tasks -> Nat], NEW n \in Nat, Balanced(c, h, n)
    PROVE  /\ Total(h) \in Nat /\ \A t \in Tasks : h[t] \in 0 .. Units
           /\ c > 0 => n = 0
<1>1. Total(h) \in Nat /\ (\A t \in Tasks : h[t] <= Total(h)) /\ Units \in Nat
  BY InheritConstants, TotalNat
<1>2. PICK m \in Nat : m = Total(h)
  BY <1>1
<1>3. c + m + n = Units /\ ((c >= 0 /\ n = 0) \/ c = -n)
  BY <1>2 DEF Balanced
<1>4. m <= Units /\ (c > 0 => n = 0)
  BY <1>1, <1>3
<1>5. ASSUME NEW t \in Tasks PROVE h[t] \in 0 .. Units
  <2>1. h[t] \in Nat /\ h[t] <= m
    BY <1>1, <1>2
  <2> QED BY <1>1, <1>4, <2>1
<1> QED BY <1>1, <1>4, <1>5

-----------------------------------------------------------------------------
(* nxsem_wait_slow() and nxsem_trywait_slow(), when the semaphore is taken. *)

(* The function g is f but for the value v at x.                           *)
Put(f, g, D, x, v) == g[x] = v /\ \A y \in D \ {x} : g[y] = f[y]

(* The only task and semaphore that may have joined are t and s.           *)
Gains(own, hld, o, h, t, s) ==
    \A v \in Tasks : \A q \in Sems :
        HoldsIn(o, h, v, q) => HoldsIn(own, hld, v, q) \/ (v = t /\ q = s)

MayTake(u, own, hld, t) == u.nested \/ \A q \in Sems : ~HoldsIn(own, hld, t, q)

LEMMA SingleTaken ==
    ASSUME NEW u, NEW own, NEW wo, NEW hld, NEW o, NEW h, NEW t \in Tasks, NEW s \in Sems,
           Single(u, own, wo, hld), Gains(own, hld, o, h, t, s), wo[t] = None,
           MayTake(u, own, hld, t)
    PROVE  Single(u, o, wo, h)
<1> SUFFICES ASSUME ~u.nested, NEW v \in Tasks, NEW q \in Sems, HoldsIn(o, h, v, q)
             PROVE  wo[v] = None /\ \A p \in Sems : HoldsIn(o, h, v, p) => p = q
  BY DEF Single
<1>1. \A p \in Sems : ~HoldsIn(own, hld, t, p)
  BY DEF MayTake
<1>2. CASE v = t
  BY <1>1, <1>2 DEF Gains
<1>3. CASE v # t
  <2>1. HoldsIn(own, hld, v, q)
    BY <1>3 DEF Gains
  <2>2. \A p \in Sems : HoldsIn(o, h, v, p) => HoldsIn(own, hld, v, p)
    BY <1>3 DEF Gains
  <2> QED BY <2>1, <2>2 DEF Single
<1> QED BY <1>2, <1>3

LEMMA NoInversionTaken ==
    ASSUME NEW k, NEW u, NEW own, NEW hld, NEW o, NEW h, NEW t \in Tasks, NEW s \in Sems,
           NEW r, NoInversion(k, u, own, hld), Gains(own, hld, o, h, t, s),
           r.prio = k.prio, SameWaiters(k, r), Waiters(k, s) = {}
    PROVE  NoInversion(r, u, o, h)
<1> SUFFICES ASSUME ~u.nested, NEW q \in Sems \ (Mutexes \cap u.timed), NEW w \in Waiters(r, q),
                    NEW v \in Tasks, HoldsIn(o, h, v, q)
             PROVE  r.prio[w] <= r.prio[v]
  BY DEF NoInversion
<1>1. w \in Waiters(k, q) /\ q # s
  BY DEF SameWaiters
<1>2. HoldsIn(own, hld, v, q)
  BY <1>1 DEF Gains
<1> QED BY <1>1, <1>2 DEF NoInversion

LEMMA MutexTaken ==
    ASSUME NEW k, NEW u, NEW own, NEW cnt, NEW wo, NEW hld,
           Good(k, u, own, cnt, wo, hld), NEW t \in Tasks, NEW s \in Mutexes,
           own[s] = None, wo[t] = None, MayTake(u, own, hld, t),
           NEW o \in [Mutexes -> Tasks \cup {None}], Put(own, o, Mutexes, s, t)
    PROVE  Good(k, u, o, cnt, wo, hld)
<1>1. /\ Lists(k) /\ Scalars(u, own, cnt, wo, hld)
      /\ WaitersAgree(k, wo) /\ Agree(k, own, hld)
      /\ Ledger(k, cnt, hld) /\ Owned(k, own) /\ Above(k.prio)
      /\ Single(u, own, wo, hld) /\ NoInversion(k, u, own, hld) /\ Raised(k, u)
  BY DEF Good, Shape
<1>2. s \in Sems /\ t # None
  BY Kinds
<1>3. Waiters(k, s) = {}
  BY <1>1 DEF Owned
<1>4. Recorded(k, s) = {}
  BY <1>1, <1>3 DEF Agree, MutexAgrees
<1>5. Gains(own, hld, o, hld, t, s)
  <2> SUFFICES ASSUME NEW v \in Tasks, NEW q \in Sems, HoldsIn(o, hld, v, q)
               PROVE  HoldsIn(own, hld, v, q) \/ (v = t /\ q = s)
    BY DEF Gains
  <2>1. CASE q \in Mutexes
    BY <2>1, HoldsIs DEF Put
  <2>2. CASE q \in Counters
    BY <2>2, HoldsIs
  <2> QED BY <2>1, <2>2, Kinds
<1>6. Scalars(u, o, cnt, wo, hld)
  BY <1>1 DEF Scalars
<1>7. Agree(k, o, hld)
  <2>1. ASSUME NEW q \in Mutexes PROVE MutexAgrees(k, q, o[q])
    <3>1. CASE q = s
      BY <1>4, <3>1 DEF MutexAgrees
    <3>2. CASE q # s
      BY <1>1, <3>2 DEF Agree, Put
    <3> QED BY <3>1, <3>2
  <2> QED BY <1>1, <2>1 DEF Agree
<1>8. Owned(k, o)
  BY <1>1, <1>2 DEF Owned, Put
<1>9. Single(u, o, wo, hld)
  BY <1>1, <1>2, <1>5, SingleTaken
<1>10. NoInversion(k, u, o, hld)
  <2>1. SameWaiters(k, k)
    BY DEF SameWaiters
  <2> QED BY <1>1, <1>2, <1>3, <1>5, <2>1, NoInversionTaken
<1> QED BY <1>1, <1>6, <1>7, <1>8, <1>9, <1>10 DEF Good, Shape

(* The row h of a counting semaphore with n counts for t.                  *)
Row(h, t, n) == [h EXCEPT ![t] = n]

RowIs(h, r, t, n) ==
    /\ r \in [Tasks -> Nat] /\ r[t] = n /\ \A v \in Tasks \ {t} : r[v] = h[v]
    /\ Total(h) \in Nat /\ Total(r) \in Nat /\ Total(r) = Total(h) - h[t] + n

LEMMA RowFacts ==
    ASSUME NEW h \in [Tasks -> Nat], NEW t \in Tasks, NEW n \in Nat, NEW r, r = Row(h, t, n)
    PROVE  RowIs(h, r, t, n)
<1>1. r \in [Tasks -> Nat] /\ r[t] = n /\ \A v \in Tasks \ {t} : r[v] = h[v]
  BY DEF Row
<1>2. IsFiniteSet(Tasks) /\ h \in [Tasks -> Int] /\ n \in Int
  BY InheritConstants
<1>3. Total([h EXCEPT ![t] = n]) = Total(h) - h[t] + n
  BY <1>2, TotalChange
<1>4. Total(h) \in Nat /\ Total(r) \in Nat
  BY <1>1, <1>2, TotalNat
<1> QED BY <1>1, <1>3, <1>4 DEF Row, RowIs

(* A count that goes from the semaphore to a task.                         *)
LEMMA CounterTaken ==
    ASSUME NEW k, NEW u, NEW own, NEW cnt, NEW wo, NEW hld,
           Good(k, u, own, cnt, wo, hld), NEW t \in Tasks, NEW s \in Counters,
           cnt[s] > 0, wo[t] = None, MayTake(u, own, hld, t),
           NEW r, r = AddHolder(k, t, s),
           NEW c \in [Counters -> Int], Put(cnt, c, Counters, s, cnt[s] - 1),
           NEW h \in [Counters -> [Tasks -> Nat]],
           Put(hld, h, Counters, s, Row(hld[s], t, hld[s][t] + 1))
    PROVE  Good(r, u, own, c, wo, h)
<1>1. /\ Lists(k) /\ Scalars(u, own, cnt, wo, hld)
      /\ WaitersAgree(k, wo) /\ Agree(k, own, hld)
      /\ Ledger(k, cnt, hld) /\ Owned(k, own) /\ Above(k.prio)
      /\ Single(u, own, wo, hld) /\ NoInversion(k, u, own, hld) /\ Raised(k, u)
  BY DEF Good, Shape
<1>2. s \in Sems /\ s \notin Mutexes
  BY Kinds
<1>3. /\ hld[s] \in [Tasks -> Nat] /\ hld[s][t] \in Nat /\ cnt[s] \in Int
      /\ cnt \in [Counters -> Int] /\ hld \in [Counters -> [Tasks -> Nat]]
  BY <1>1 DEF Scalars
<1>4. PICK n \in Nat : n = hld[s][t] + 1
  BY <1>3
<1>5. PICK row : row = Row(hld[s], t, n)
  OBVIOUS
<1>6. /\ row \in [Tasks -> Nat] /\ row[t] = n /\ \A v \in Tasks \ {t} : row[v] = hld[s][v]
      /\ Total(hld[s]) \in Nat /\ Total(row) \in Nat
      /\ Total(row) = Total(hld[s]) - hld[s][t] + n
  <2>1. RowIs(hld[s], row, t, n)
    BY <1>3, <1>5, RowFacts
  <2> QED BY <2>1 DEF RowIs
<1>7. h[s] = row /\ \A q \in Counters \ {s} : h[q] = hld[q]
  BY <1>4, <1>5 DEF Put
<1>8. Lists(r) /\ HoldersBecome(k, r, s, t, k.counts[s][t] + 1, Recorded(k, s) \cup {t})
  BY <1>1, <1>2, HolderAdded
<1>9. r.wait = k.wait /\ r.prio = k.prio /\ SameWaiters(k, r)
  BY <1>8 DEF HoldersBecome, SameWaiters, Waiters
<1>10. \A q \in Sems : Waiters(r, q) = Waiters(k, q)
  BY <1>9 DEF SameWaiters
<1>11. Balanced(cnt[s], hld[s], Cardinality(Waiters(k, s))) /\ Cardinality(Waiters(k, s)) \in Nat
  BY <1>1, <1>2, WaitersFinite DEF Ledger
<1>12. Cardinality(Waiters(k, s)) = 0 /\ Waiters(k, s) = {}
  <2>1. Cardinality(Waiters(k, s)) = 0
    BY <1>3, <1>11, BalancedBound
  <2> QED BY <1>1, <1>2, <2>1, WaitersFinite
<1>13. Agree(r, own, h)
  <2>1. k.counts[s] = hld[s] /\ Recorded(k, s) = {v \in Tasks : k.counts[s][v] > 0}
    BY <1>1, <1>2 DEF Agree, RecordsCounts
  <2>2. r.counts[s][t] = n /\ \A v \in Tasks \ {t} : r.counts[s][v] = hld[s][v]
    BY <1>4, <1>8, <2>1 DEF HoldersBecome
  <2>3. r.counts[s] = row
    <3>1. r.counts[s] \in [Tasks -> Nat]
      BY <1>2, <1>8, RecordFields
    <3>2. \A v \in Tasks : r.counts[s][v] = row[v]
      BY <1>6, <2>2
    <3> QED BY <1>6, <3>1, <3>2
  <2>4. RecordsCounts(r, s)
    <3>1. Recorded(r, s) = Recorded(k, s) \cup {t}
      BY <1>8 DEF HoldersBecome
    <3>2. n > 0
      BY <1>3, <1>4
    <3>3. \A v \in Tasks : v \in Recorded(r, s) <=> r.counts[s][v] > 0
      BY <2>1, <2>2, <3>1, <3>2
    <3>4. Recorded(r, s) \subseteq Tasks
      BY <1>2, <1>8, RecordFields
    <3> QED BY <3>3, <3>4 DEF RecordsCounts
  <2>5. \A q \in Sems \ {s} : Recorded(r, q) = Recorded(k, q) /\ r.counts[q] = k.counts[q]
    BY <1>8 DEF HoldersBecome, Recorded
  <2>6. \A q \in Sems : RecordsCounts(r, q)
    BY <1>1, <2>4, <2>5 DEF Agree, RecordsCounts
  <2>7. ASSUME NEW q \in Mutexes PROVE MutexAgrees(r, q, own[q])
    <3>1. q \in Sems \ {s}
      BY <1>2, Kinds
    <3> QED BY <1>1, <1>10, <2>5, <3>1 DEF Agree, MutexAgrees
  <2>8. ASSUME NEW q \in Counters PROVE r.counts[q] = h[q]
    <3>1. q \in Sems
      BY Kinds
    <3> QED BY <1>1, <1>7, <2>3, <2>5, <3>1 DEF Agree
  <2> QED BY <2>6, <2>7, <2>8 DEF Agree
<1>14. Gains(own, hld, own, h, t, s)
  <2> SUFFICES ASSUME NEW v \in Tasks, NEW q \in Sems, HoldsIn(own, h, v, q)
               PROVE  HoldsIn(own, hld, v, q) \/ (v = t /\ q = s)
    BY DEF Gains
  <2>1. CASE q \in Mutexes
    BY <2>1, HoldsIs
  <2>2. CASE q \in Counters
    <3>1. CASE q = s /\ v = t
      BY <3>1
    <3>2. CASE ~(q = s /\ v = t)
      <4>1. h[q][v] = hld[q][v]
        BY <1>6, <1>7, <2>2, <3>2
      <4> QED BY <2>2, <4>1, HoldsIs
    <3> QED BY <3>1, <3>2
  <2> QED BY <2>1, <2>2, Kinds
<1>15. Ledger(r, c, h)
  <2> SUFFICES ASSUME NEW q \in Counters
               PROVE  Balanced(c[q], h[q], Cardinality(Waiters(r, q)))
    BY DEF Ledger
  <2>1. q \in Sems /\ Waiters(r, q) = Waiters(k, q)
    BY <1>10, Kinds
  <2>2. CASE q = s
    <3>1. PICK a \in Int : a = cnt[s]
      BY <1>3
    <3>2. PICK b \in Nat : b = Total(hld[s])
      BY <1>6
    <3>3. PICK d \in Nat : d = Total(row)
      BY <1>6
    <3>4. d = b + 1
      BY <1>3, <1>4, <1>6, <3>2, <3>3
    <3>5. a + b = Units /\ a > 0
      BY <1>11, <1>12, <3>1, <3>2 DEF Balanced
    <3>6. Cardinality(Waiters(r, q)) = 0 /\ c[q] = a - 1 /\ h[q] = row
      BY <1>7, <1>12, <2>1, <2>2, <3>1 DEF Put
    <3>7. (a - 1) + d + 0 = Units /\ (a - 1) >= 0
      BY <3>4, <3>5
    <3> QED BY <3>3, <3>6, <3>7 DEF Balanced
  <2>3. CASE q # s
    BY <1>1, <1>7, <2>1, <2>3 DEF Ledger, Put
  <2> QED BY <2>2, <2>3
<1>16. Scalars(u, own, c, wo, h)
  BY <1>1 DEF Scalars
<1>17. WaitersAgree(r, wo)
  BY <1>1, <1>10 DEF WaitersAgree
<1>18. Owned(r, own)
  BY <1>1, <1>10, Kinds DEF Owned
<1>19. Single(u, own, wo, h)
  BY <1>1, <1>2, <1>14, SingleTaken
<1>20. NoInversion(r, u, own, h)
  BY <1>1, <1>2, <1>9, <1>12, <1>14, NoInversionTaken
<1>21. Raised(r, u)
  <2>1. \A q \in Sems : \A v \in Recorded(k, q) : v \in Recorded(r, q)
    BY <1>8 DEF HoldersBecome, Recorded
  <2>2. \A v \in Tasks : \A q \in Sems : RaisedBy(k, u, v, q) => RaisedBy(r, u, v, q)
    BY <1>9, <1>10, <2>1 DEF RaisedBy
  <2> QED BY <1>1, <1>9, <2>2 DEF Raised
<1> QED BY <1>1, <1>8, <1>9, <1>13, <1>15, <1>16, <1>17, <1>18, <1>19, <1>20, <1>21
        DEF Good, Shape

-----------------------------------------------------------------------------
(* nxsem_wait_slow(), when the task blocks.                                *)

(* The tasks W wait for s now.                                             *)
WaitersBecome(k, r, s, W) ==
    /\ SameHolders(k, r) /\ r.prio = k.prio
    /\ Waiters(r, s) = W
    /\ \A q \in Sems \ {s} : Waiters(r, q) = Waiters(k, q)

LEMMA WaitReplaced ==
    ASSUME NEW k, Lists(k), NEW s \in Sems, NEW l \in Seq(Tasks), NoDuplicates(l),
           IsPrioritized(l, k.prio), NEW r, r = [k EXCEPT !.wait[s] = l]
    PROVE  Lists(r) /\ WaitersBecome(k, r, s, ToSet(l))
<1>1. k \in Records /\ k.wait \in [Sems -> Seq(Tasks)]
  BY RecordFields DEF Lists
<1>2. PICK g : g = [k.wait EXCEPT ![s] = l]
  OBVIOUS
<1>3. g \in [Sems -> Seq(Tasks)] /\ g[s] = l /\ \A q \in Sems \ {s} : g[q] = k.wait[q]
  BY <1>1, <1>2
<1>4. r = [k EXCEPT !.wait = g]
  BY <1>1, <1>2 DEF Records
<1>5. /\ r \in Records /\ r.wait = g /\ r.hhead = k.hhead
      /\ r.counts = k.counts /\ r.prio = k.prio
  BY <1>1, <1>3, <1>4 DEF Records
<1>6. \A q \in Sems : NoDuplicates(g[q]) /\ IsPrioritized(g[q], k.prio)
  BY <1>3 DEF Lists
<1>7. Lists(r)
  BY <1>5, <1>6 DEF Lists
<1>8. WaitersBecome(k, r, s, ToSet(l))
  BY <1>3, <1>5 DEF WaitersBecome, SameHolders, Waiters
<1> QED BY <1>7, <1>8

Queued(k, t, s) == [k EXCEPT !.wait[s] = AddPrioritized(@, t, k.prio)]

LEMMA WaiterAdded ==
    ASSUME NEW k, Lists(k), NEW s \in Sems, NEW t \in Tasks, t \notin Waiters(k, s),
           NEW r, r = Queued(k, t, s)
    PROVE  Lists(r) /\ WaitersBecome(k, r, s, Waiters(k, s) \cup {t})
<1>1. /\ k \in Records /\ k.prio \in [Tasks -> Int] /\ k.wait[s] \in Seq(Tasks)
      /\ NoDuplicates(k.wait[s]) /\ IsPrioritized(k.wait[s], k.prio)
  BY RecordFields DEF Lists
<1>2. PICK l : l = AddPrioritized(k.wait[s], t, k.prio)
  OBVIOUS
<1>3. l \in Seq(Tasks) /\ ToSet(l) = ToSet(k.wait[s]) \cup {t} /\ NoDuplicates(l)
  <2>1. t \notin ToSet(k.wait[s])
    BY DEF Waiters
  <2>2. PICK f \in [Tasks -> Int] : f = k.prio
    BY <1>1
  <2>3. PICK a \in Seq(Tasks) : a = k.wait[s]
    BY <1>1
  <2>4. /\ AddPrioritized(a, t, f) \in Seq(Tasks)
        /\ ToSet(AddPrioritized(a, t, f)) = ToSet(a) \cup {t}
        /\ NoDuplicates(a) /\ t \notin ToSet(a) => NoDuplicates(AddPrioritized(a, t, f))
    BY AddPrioritizedFacts
  <2> QED BY <1>1, <1>2, <2>1, <2>2, <2>3, <2>4
<1>4. IsPrioritized(l, k.prio)
  BY <1>1, <1>2, AddPrioritizedSorted
<1>5. r = [k EXCEPT !.wait[s] = l]
  BY <1>2 DEF Queued
<1>6. Lists(r) /\ WaitersBecome(k, r, s, ToSet(l))
  BY <1>3, <1>4, <1>5, WaitReplaced
<1> QED BY <1>3, <1>6 DEF Waiters

(* t waits for s, and all recorded holders of s have its priority.         *)
Blocks(k, r, t, s) ==
    /\ Raising(k.prio, r.prio, t, Recorded(r, s))
    /\ \A q \in Sems : Recorded(k, q) \subseteq Recorded(r, q)
    /\ Waiters(r, s) = Waiters(k, s) \cup {t}
    /\ \A q \in Sems \ {s} : Waiters(r, q) = Waiters(k, q)

LEMMA BlockedCalm ==
    ASSUME NEW k, NEW u, NEW own, NEW cnt, NEW wo, NEW hld,
           Good(k, u, own, cnt, wo, hld), NEW t \in Tasks, NEW s \in Sems,
           wo[t] = None, ~HoldsIn(own, hld, t, s),
           NEW r, Lists(r), Agree(r, own, hld), Blocks(k, r, t, s),
           \A h \in Tasks : HoldsIn(own, hld, h, s) => h \in Recorded(r, s)
    PROVE  NoInversion(r, u, own, hld) /\ Raised(r, u) /\ Above(r.prio)
<1>1. /\ Lists(k) /\ Scalars(u, own, cnt, wo, hld)
      /\ WaitersAgree(k, wo) /\ Agree(k, own, hld) /\ Above(k.prio)
      /\ Single(u, own, wo, hld) /\ NoInversion(k, u, own, hld) /\ Raised(k, u)
  BY DEF Good, Shape
<1>2. PICK D : D = Recorded(r, s)
  OBVIOUS
<1>3. D \subseteq Tasks /\ Raising(k.prio, r.prio, t, D)
  BY <1>2, RecordFields DEF Blocks
<1>4. \A v \in D : HoldsIn(own, hld, v, s)
  BY <1>2, <1>3, RecordedHolds
<1>5. t \notin D
  BY <1>4
<1>6. k.prio \in [Tasks -> Nat] /\ r.prio \in [Tasks -> Nat] /\ Base \in [Tasks -> Nat]
  BY <1>1, RecordFields, InheritConstants
<1>7. \A v \in Tasks : k.prio[v] <= r.prio[v]
  <2> SUFFICES ASSUME NEW v \in Tasks PROVE k.prio[v] <= r.prio[v]
    OBVIOUS
  <2>1. CASE v \in D
    BY <1>3, <2>1 DEF Raising
  <2>2. CASE v \notin D
    <3>1. r.prio[v] = k.prio[v] /\ k.prio[v] \in Nat
      BY <1>3, <1>6, <2>2 DEF Raising
    <3> QED BY <3>1
  <2> QED BY <2>1, <2>2
<1>8. Above(r.prio)
  <2> SUFFICES ASSUME NEW v \in Tasks PROVE Base[v] <= r.prio[v]
    BY DEF Above
  <2>1. Base[v] <= k.prio[v] /\ k.prio[v] <= r.prio[v]
    BY <1>1, <1>7 DEF Above
  <2>2. Base[v] \in Nat /\ k.prio[v] \in Nat /\ r.prio[v] \in Nat
    BY <1>6
  <2> QED BY <2>1, <2>2
<1>9. ASSUME ~u.nested, NEW q \in Sems, NEW w \in Waiters(r, q)
      PROVE  w \in Tasks /\ w \notin D /\ r.prio[w] = k.prio[w]
  <2>1. w \in Tasks
    BY RecordFields
  <2>2. w \notin D
    <3>1. CASE w = t
      BY <1>5, <3>1
    <3>2. CASE w # t
      <4>1. w \in Waiters(k, q)
        BY <3>2 DEF Blocks
      <4>2. wo[w] = q /\ q # None
        BY <1>1, <4>1, Kinds DEF WaitersAgree
      <4> QED BY <1>1, <1>4, <1>9, <2>1, <4>2 DEF Single
    <3> QED BY <3>1, <3>2
  <2> QED BY <1>3, <2>1, <2>2 DEF Raising
<1>10. NoInversion(r, u, own, hld)
  <2> SUFFICES ASSUME ~u.nested, NEW q \in Sems \ (Mutexes \cap u.timed),
                      NEW w \in Waiters(r, q), NEW h \in Tasks, HoldsIn(own, hld, h, q)
               PROVE  r.prio[w] <= r.prio[h]
    BY DEF NoInversion
  <2>1. w \in Tasks /\ r.prio[w] = k.prio[w]
    BY <1>9
  <2>2. CASE w \in Waiters(k, q)
    <3>1. k.prio[w] <= k.prio[h]
      BY <1>1, <2>2 DEF NoInversion
    <3>2. k.prio[h] <= r.prio[h]
      BY <1>7
    <3>3. k.prio[w] \in Nat /\ k.prio[h] \in Nat /\ r.prio[h] \in Nat
      BY <1>6, <2>1
    <3> QED BY <2>1, <3>1, <3>2, <3>3
  <2>3. CASE w \notin Waiters(k, q)
    <3>1. w = t /\ q = s
      BY <2>3 DEF Blocks
    <3>2. h \in D
      BY <1>2, <3>1
    <3>3. k.prio[t] <= r.prio[h]
      BY <1>3, <3>2 DEF Raising
    <3> QED BY <2>1, <3>1, <3>3
  <2> QED BY <2>2, <2>3
<1>11. Raised(r, u)
  <2> SUFFICES ASSUME u.timed \cap Counters = {}, NEW v \in Tasks, r.prio[v] # Base[v]
               PROVE  \E q \in Sems : RaisedBy(r, u, v, q)
    BY DEF Raised
  <2>1. CASE r.prio[v] = k.prio[v]
    <3>1. PICK q \in Sems : RaisedBy(k, u, v, q)
      BY <1>1, <2>1 DEF Raised
    <3>2. v \in Recorded(r, q) /\ Waiters(k, q) \subseteq Waiters(r, q) /\ Waiters(k, q) # {}
      BY <3>1 DEF RaisedBy, Blocks
    <3>3. CASE u.nested
      BY <3>2, <3>3 DEF RaisedBy
    <3>4. CASE ~u.nested
      <4>1. PICK w \in Waiters(k, q) : k.prio[w] = k.prio[v]
        BY <3>1, <3>4 DEF RaisedBy
      <4>2. w \in Waiters(r, q) /\ r.prio[w] = k.prio[w]
        BY <1>9, <3>2, <3>4
      <4>3. r.prio[w] = r.prio[v]
        BY <2>1, <4>1, <4>2
      <4> QED BY <3>2, <4>2, <4>3 DEF RaisedBy
    <3> QED BY <3>3, <3>4
  <2>2. CASE r.prio[v] # k.prio[v]
    <3>1. v \in D /\ r.prio[v] = k.prio[t]
      BY <1>3, <2>2 DEF Raising
    <3>2. r.prio[t] = k.prio[t] /\ t \in Waiters(r, s)
      BY <1>3, <1>5 DEF Raising, Blocks
    <3>3. r.prio[t] = r.prio[v]
      BY <3>1, <3>2
    <3> QED BY <1>2, <3>1, <3>2, <3>3 DEF RaisedBy
  <2> QED BY <2>1, <2>2
<1> QED BY <1>8, <1>10, <1>11

(* The changes of nxsem_boost_priority() and of the wait list together.    *)
LEMMA BoostAndQueue ==
    ASSUME NEW k, Lists(k), NEW s \in Sems, NEW t \in Tasks,
           t \notin Recorded(k, s), t \notin Waiters(k, s),
           NEW b, b = BoostPriority(k, t, s), NEW r, r = Queued(b, t, s)
    PROVE  Lists(r) /\ SameHolders(k, r) /\ Blocks(k, r, t, s)
<1>1. Boosting(k, t, Recorded(k, s), b)
  BY PriorityBoosted
<1>2. /\ Lists(b) /\ SameHolders(k, b) /\ SameWaiters(k, b)
      /\ Raising(k.prio, b.prio, t, Recorded(k, s))
  BY <1>1 DEF Boosting
<1>3. t \notin Waiters(b, s)
  BY <1>2 DEF SameWaiters
<1>4. Lists(r) /\ WaitersBecome(b, r, s, Waiters(b, s) \cup {t})
  BY <1>2, <1>3, WaiterAdded
<1>5. SameHolders(k, r)
  BY <1>2, <1>4 DEF SameHolders, WaitersBecome
<1>6. \A q \in Sems : Recorded(r, q) = Recorded(k, q)
  BY <1>5 DEF SameHolders, Recorded
<1>7. Blocks(k, r, t, s)
  <2>1. Raising(k.prio, r.prio, t, Recorded(r, s))
    BY <1>2, <1>4, <1>6 DEF WaitersBecome
  <2>2. Waiters(r, s) = Waiters(k, s) \cup {t}
    BY <1>2, <1>4 DEF WaitersBecome, SameWaiters
  <2>3. \A q \in Sems \ {s} : Waiters(r, q) = Waiters(k, q)
    BY <1>2, <1>4 DEF WaitersBecome, SameWaiters
  <2> QED BY <1>6, <2>1, <2>2, <2>3 DEF Blocks
<1> QED BY <1>4, <1>5, <1>7

(* The holder structures of a semaphore somebody waits for: the owner of a *)
(* mutex has one.                                                          *)
Prepared(k, own, s) == IF s \in Mutexes THEN AddHolder(k, own[s], s) ELSE k

LEMMA HoldersPrepared ==
    ASSUME NEW k, NEW u, NEW own, NEW cnt, NEW wo, NEW hld,
           Shape(k, u, own, cnt, wo, hld), NEW s \in Sems,
           s \in Mutexes => own[s] # None, NEW p, p = Prepared(k, own, s)
    PROVE  /\ Lists(p) /\ p.wait = k.wait /\ p.prio = k.prio
           /\ \A q \in Sems : RecordsCounts(p, q) /\ Recorded(k, q) \subseteq Recorded(p, q)
           /\ \A q \in Sems \ {s} : Recorded(p, q) = Recorded(k, q)
           /\ \A q \in Counters : p.counts[q] = hld[q]
           /\ s \in Mutexes => Recorded(p, s) = {own[s]}
           /\ \A h \in Tasks : HoldsIn(own, hld, h, s) <=> h \in Recorded(p, s)
<1>1. Lists(k) /\ Scalars(u, own, cnt, wo, hld) /\ Agree(k, own, hld)
  BY DEF Shape
<1>2. CASE s \in Mutexes
  <2>1. own[s] \in Tasks
    BY <1>1, <1>2 DEF Scalars
  <2>2. PICK o \in Tasks : o = own[s]
    BY <2>1
  <2>3. p = AddHolder(k, o, s)
    BY <1>2, <2>2 DEF Prepared
  <2>4. /\ Lists(p) /\ k.counts[s][o] \in Nat
        /\ HoldersBecome(k, p, s, o, k.counts[s][o] + 1, Recorded(k, s) \cup {o})
    BY <1>1, <2>3, HolderAdded
  <2>5. Recorded(k, s) \subseteq {o}
    BY <1>1, <1>2, <2>2 DEF Agree, MutexAgrees
  <2>6. Recorded(p, s) = {o}
    BY <2>4, <2>5 DEF HoldersBecome
  <2>7. \A q \in Sems \ {s} : Recorded(p, q) = Recorded(k, q) /\ p.counts[q] = k.counts[q]
    BY <2>4 DEF HoldersBecome, Recorded
  <2>8. RecordsCounts(p, s)
    <3>1. PICK m \in Nat : m = k.counts[s][o]
      BY <2>4
    <3>2. p.counts[s][o] = m + 1 /\ m + 1 > 0
      BY <2>4, <3>1 DEF HoldersBecome
    <3>3. ASSUME NEW v \in Tasks, v # o PROVE ~(p.counts[s][v] > 0)
      <4>1. p.counts[s][v] = k.counts[s][v]
        BY <2>4, <3>3 DEF HoldersBecome
      <4>2. v \notin Recorded(k, s)
        BY <2>5, <3>3
      <4> QED BY <1>1, <4>1, <4>2 DEF Agree, RecordsCounts
    <3> QED BY <2>6, <3>2, <3>3 DEF RecordsCounts
  <2>9. \A q \in Sems : RecordsCounts(p, q) /\ Recorded(k, q) \subseteq Recorded(p, q)
    BY <1>1, <2>5, <2>6, <2>7, <2>8 DEF Agree, RecordsCounts
  <2>10. ASSUME NEW q \in Counters PROVE p.counts[q] = hld[q]
    <3>1. q \in Sems \ {s}
      BY <1>2, Kinds
    <3> QED BY <1>1, <2>7, <3>1 DEF Agree
  <2>11. \A h \in Tasks : HoldsIn(own, hld, h, s) <=> h \in Recorded(p, s)
    BY <1>2, <2>2, <2>6, HoldsIs
  <2> QED BY <2>2, <2>4, <2>6, <2>7, <2>9, <2>10, <2>11 DEF HoldersBecome
<1>3. CASE s \in Counters
  <2>1. p = k /\ s \notin Mutexes
    BY <1>3, Kinds DEF Prepared
  <2>2. \A h \in Tasks : HoldsIn(own, hld, h, s) <=> h \in Recorded(k, s)
    BY <1>1, <1>3, RecordedHolds
  <2> QED BY <1>1, <2>1, <2>2 DEF Agree
<1> QED BY <1>2, <1>3, Kinds

(* Without nesting, a task that holds nothing may wait.                    *)
LEMMA SingleWaits ==
    ASSUME NEW u, NEW own, NEW wo, NEW hld, Single(u, own, wo, hld),
           NEW t \in Tasks, MayTake(u, own, hld, t), NEW s, NEW w, Put(wo, w, Tasks, t, s)
    PROVE  Single(u, own, w, hld)
<1> SUFFICES ASSUME ~u.nested, NEW v \in Tasks, NEW q \in Sems, HoldsIn(own, hld, v, q)
             PROVE  w[v] = None /\ \A p \in Sems : HoldsIn(own, hld, v, p) => p = q
  BY DEF Single
<1>1. v # t
  BY DEF MayTake
<1> QED BY <1>1 DEF Single, Put

LEMMA TaskBlocked ==
    ASSUME NEW k, NEW u, NEW own, NEW cnt, NEW wo, NEW hld,
           Good(k, u, own, cnt, wo, hld), NEW t \in Tasks, NEW s \in Sems,
           wo[t] = None, ~HoldsIn(own, hld, t, s), MayTake(u, own, hld, t),
           s \in Mutexes => own[s] # None, s \in Counters => cnt[s] <= 0,
           NEW p, p = Prepared(k, own, s), NEW b, b = BoostPriority(p, t, s),
           NEW r, r = Queued(b, t, s),
           NEW c \in [Counters -> Int], s \in Mutexes => c = cnt,
           s \in Counters => Put(cnt, c, Counters, s, cnt[s] - 1),
           NEW w \in [Tasks -> Sems \cup {None}], Put(wo, w, Tasks, t, s)
    PROVE  Good(r, u, own, c, w, hld)
<1>1. /\ Shape(k, u, own, cnt, wo, hld)
      /\ Lists(k) /\ Scalars(u, own, cnt, wo, hld)
      /\ WaitersAgree(k, wo) /\ Agree(k, own, hld)
      /\ Ledger(k, cnt, hld) /\ Owned(k, own) /\ Above(k.prio)
      /\ Single(u, own, wo, hld) /\ NoInversion(k, u, own, hld) /\ Raised(k, u)
  BY DEF Good, Shape
<1>2. /\ Lists(p) /\ p.wait = k.wait /\ p.prio = k.prio
      /\ \A q \in Sems : RecordsCounts(p, q) /\ Recorded(k, q) \subseteq Recorded(p, q)
      /\ \A q \in Sems \ {s} : Recorded(p, q) = Recorded(k, q)
      /\ \A q \in Counters : p.counts[q] = hld[q]
      /\ s \in Mutexes => Recorded(p, s) = {own[s]}
      /\ \A h \in Tasks : HoldsIn(own, hld, h, s) <=> h \in Recorded(p, s)
  BY <1>1, HoldersPrepared
<1>3. \A q \in Sems : Waiters(p, q) = Waiters(k, q)
  BY <1>2 DEF Waiters
<1>4. t \notin Recorded(p, s) /\ t \notin Waiters(p, s)
  <2>1. t \notin Waiters(k, s)
    BY <1>1, Kinds DEF WaitersAgree
  <2> QED BY <1>2, <1>3, <2>1
<1>5. Lists(r) /\ SameHolders(p, r) /\ Blocks(p, r, t, s)
  BY <1>2, <1>4, BoostAndQueue
<1>6. \A q \in Sems : Recorded(r, q) = Recorded(p, q) /\ r.counts[q] = p.counts[q]
  BY <1>5 DEF SameHolders, Recorded
<1>7. Blocks(k, r, t, s)
  <2>1. Raising(k.prio, r.prio, t, Recorded(r, s))
    BY <1>2, <1>5 DEF Blocks
  <2>2. \A q \in Sems : Recorded(k, q) \subseteq Recorded(r, q)
    BY <1>2, <1>6
  <2>3. Waiters(r, s) = Waiters(k, s) \cup {t}
    BY <1>3, <1>5 DEF Blocks
  <2>4. \A q \in Sems \ {s} : Waiters(r, q) = Waiters(k, q)
    BY <1>3, <1>5 DEF Blocks
  <2> QED BY <2>1, <2>2, <2>3, <2>4 DEF Blocks
<1>8. Agree(r, own, hld)
  <2>1. \A q \in Sems : RecordsCounts(r, q)
    BY <1>2, <1>6 DEF RecordsCounts
  <2>2. ASSUME NEW q \in Mutexes PROVE MutexAgrees(r, q, own[q])
    <3>0. q \in Sems
      BY Kinds
    <3>1. CASE q = s
      <4>1. Recorded(r, q) = {own[q]} /\ Waiters(r, q) # {}
        BY <1>2, <1>6, <1>7, <3>1 DEF Blocks
      <4> QED BY <4>1 DEF MutexAgrees
    <3>2. CASE q # s
      <4>1. Recorded(r, q) = Recorded(k, q) /\ Waiters(r, q) = Waiters(k, q)
        BY <1>2, <1>6, <1>7, <3>0, <3>2 DEF Blocks
      <4> QED BY <1>1, <4>1 DEF Agree, MutexAgrees
    <3> QED BY <3>1, <3>2
  <2>3. \A q \in Counters : r.counts[q] = hld[q]
    BY <1>2, <1>6, Kinds
  <2> QED BY <2>1, <2>2, <2>3 DEF Agree
<1>9. NoInversion(r, u, own, hld) /\ Raised(r, u) /\ Above(r.prio)
  <2>1. \A h \in Tasks : HoldsIn(own, hld, h, s) => h \in Recorded(r, s)
    BY <1>2, <1>6
  <2> QED BY <1>5, <1>7, <1>8, <2>1, BlockedCalm
<1>10. Scalars(u, own, c, w, hld)
  BY <1>1 DEF Scalars
<1>11. WaitersAgree(r, w)
  <2> SUFFICES ASSUME NEW q \in Sems PROVE Waiters(r, q) = {v \in Tasks : w[v] = q}
    BY DEF WaitersAgree
  <2>1. Waiters(k, q) = {v \in Tasks : wo[v] = q}
    BY <1>1 DEF WaitersAgree
  <2>2. w[t] = s /\ \A v \in Tasks \ {t} : w[v] = wo[v]
    BY DEF Put
  <2>3. t \notin Waiters(k, q)
    BY <2>1, Kinds
  <2>4. CASE q = s
    BY <1>7, <2>1, <2>2, <2>4 DEF Blocks
  <2>5. CASE q # s
    BY <1>7, <2>1, <2>2, <2>3, <2>5 DEF Blocks
  <2> QED BY <2>4, <2>5
<1>12. Ledger(r, c, hld)
  <2> SUFFICES ASSUME NEW q \in Counters
               PROVE  Balanced(c[q], hld[q], Cardinality(Waiters(r, q)))
    BY DEF Ledger
  <2>1. q \in Sems /\ q \notin Mutexes
    BY Kinds
  <2>2. CASE q = s
    <3>1. PICK n \in Nat : n = Cardinality(Waiters(k, s))
      BY <1>1, WaitersFinite
    <3>2. Cardinality(Waiters(r, q)) = n + 1
      <4>1. IsFiniteSet(Waiters(k, s)) /\ t \notin Waiters(k, s)
        BY <1>1, <1>3, <1>4, WaitersFinite
      <4>2. Cardinality(Waiters(k, s) \cup {t}) = n + 1
        BY <3>1, <4>1, FS_AddElement
      <4> QED BY <1>7, <2>2, <4>2 DEF Blocks
    <3>3. PICK a \in Int : a = cnt[s]
      BY <1>1, <2>2 DEF Scalars
    <3>4. PICK m \in Nat : m = Total(hld[s])
      <4>1. hld[s] \in [Tasks -> Nat]
        BY <1>1, <2>2 DEF Scalars
      <4> QED BY <4>1, TotalNat, InheritConstants
    <3>5. a + m + n = Units /\ ((a >= 0 /\ n = 0) \/ a = -n)
      BY <1>1, <2>2, <3>1, <3>3, <3>4 DEF Ledger, Balanced
    <3>6. a <= 0
      BY <2>2, <3>3
    <3>7. (a - 1) + m + (n + 1) = Units /\ a - 1 = -(n + 1)
      BY <3>5, <3>6
    <3>8. c[q] = a - 1
      BY <2>2, <3>3 DEF Put
    <3> QED BY <2>2, <3>2, <3>4, <3>7, <3>8 DEF Balanced
  <2>3. CASE q # s
    <3>1. c[q] = cnt[q]
      BY <2>3, Kinds DEF Put
    <3>2. Waiters(r, q) = Waiters(k, q)
      BY <1>7, <2>1, <2>3 DEF Blocks
    <3> QED BY <1>1, <3>1, <3>2 DEF Ledger
  <2> QED BY <2>2, <2>3
<1>13. Owned(r, own)
  <2> SUFFICES ASSUME NEW q \in Mutexes, Waiters(r, q) # {} PROVE own[q] # None
    BY DEF Owned
  <2>1. CASE q = s
    BY <2>1
  <2>2. CASE q # s
    <3>1. Waiters(r, q) = Waiters(k, q)
      BY <1>7, <2>2, Kinds DEF Blocks
    <3> QED BY <1>1, <3>1 DEF Owned
  <2> QED BY <2>1, <2>2
<1>14. Single(u, own, w, hld)
  BY <1>1, SingleWaits
<1> QED BY <1>5, <1>8, <1>9, <1>10, <1>11, <1>12, <1>13, <1>14 DEF Good, Shape

-----------------------------------------------------------------------------
(* What the restored priorities are, when all holders of s were visited.   *)

LEMMA VisitedAll ==
    ASSUME NEW k, Lists(k), NEW s \in Sems, NEW x, Lists(x),
           Visited(k, s, Recorded(k, s), x),
           \A v \in Tasks : k.counts[s][v] > 0 => v \in Recorded(k, s)
    PROVE  /\ RecordsCounts(x, s)
           /\ s \in Mutexes => Recorded(x, s) = {}
           /\ s \in Counters => x.counts[s] = k.counts[s]
           /\ \A q \in Sems \ {s} : Recorded(x, q) = Recorded(k, q) /\ x.counts[q] = k.counts[q]
<1>1. /\ \A q \in Sems \ {s} : x.hhead[q] = k.hhead[q] /\ x.counts[q] = k.counts[q]
      /\ Recorded(x, s) = Stays(k, s, Recorded(k, s))
      /\ \A v \in Tasks : s \in Counters \/ v \notin Recorded(k, s) =>
                            x.counts[s][v] = k.counts[s][v]
      /\ \A v \in Tasks : s \in Mutexes /\ v \in Recorded(k, s) => x.counts[s][v] = 0
  BY DEF Visited
<1>2. /\ k.counts[s] \in [Tasks -> Nat] /\ x.counts[s] \in [Tasks -> Nat]
      /\ Recorded(k, s) \subseteq Tasks
  BY RecordFields
<1>3. \A q \in Sems \ {s} : Recorded(x, q) = Recorded(k, q) /\ x.counts[q] = k.counts[q]
  BY <1>1 DEF Recorded
<1>4. CASE s \in Mutexes
  <2>1. s \notin Counters
    BY <1>4, Kinds
  <2>2. Recorded(x, s) = {}
    BY <1>1, <2>1 DEF Stays
  <2>3. ASSUME NEW v \in Tasks PROVE ~(x.counts[s][v] > 0)
    <3>1. CASE v \in Recorded(k, s)
      BY <1>1, <1>4, <3>1
    <3>2. CASE v \notin Recorded(k, s)
      BY <1>1, <3>2
    <3> QED BY <3>1, <3>2
  <2> QED BY <1>3, <2>1, <2>2, <2>3 DEF RecordsCounts
<1>5. CASE s \in Counters
  <2>1. s \notin Mutexes
    BY <1>5, Kinds
  <2>2. x.counts[s] = k.counts[s]
    BY <1>1, <1>2, <1>5
  <2>3. Recorded(x, s) = {v \in Tasks : k.counts[s][v] > 0}
    BY <1>1, <1>2, <1>5 DEF Stays
  <2> QED BY <1>3, <2>1, <2>2, <2>3 DEF RecordsCounts
<1> QED BY <1>4, <1>5, Kinds

(* The record r has the structures and priorities of x.                    *)
Settles(x, r) ==
    /\ Lists(r) /\ r.prio = x.prio
    /\ \A q \in Sems : Recorded(r, q) = Recorded(x, q)

LEMMA RestoredBoosts ==
    ASSUME NEW k, Lists(k), NEW u, NEW own, NEW hld, NEW s \in Sems,
           NEW x, Restoring(k, s, Recorded(k, s), x), NEW r, Settles(x, r),
           \A q \in Sems : Waiters(r, q) \subseteq Waiters(k, q),
           Agree(r, own, hld), NoInversion(k, u, own, hld),
           ~u.nested => Quiet(k, s),
           ~u.nested => \A q \in Mutexes \ u.timed : own[q] \notin Recorded(k, s)
    PROVE  NoInversion(r, u, own, hld)
<1> SUFFICES ASSUME ~u.nested, NEW q \in Sems \ (Mutexes \cap u.timed),
                    NEW w \in Waiters(r, q), NEW h \in Tasks, HoldsIn(own, hld, h, q)
             PROVE  r.prio[w] <= r.prio[h]
  BY DEF NoInversion
<1>1. PICK D : D = Recorded(k, s)
  OBVIOUS
<1>2. /\ \A v \in Tasks \ D : x.prio[v] = k.prio[v]
      /\ \A v \in D : GivenBack(k.prio, x, v)
      /\ SameWaiters(k, x)
  BY <1>1 DEF Restoring
<1>3. w \in Waiters(k, q) /\ w \in Waiters(x, q) /\ w \in Tasks /\ w \notin D
  <2>1. w \in Waiters(k, q)
    OBVIOUS
  <2> QED BY <1>1, <1>2, <2>1, RecordFields DEF SameWaiters, Quiet
<1>4. r.prio[w] = k.prio[w] /\ r.prio[h] = x.prio[h]
  BY <1>2, <1>3 DEF Settles
<1>5. k.prio[w] <= k.prio[h]
  BY <1>3 DEF NoInversion
<1>6. CASE h \notin D
  BY <1>2, <1>4, <1>5, <1>6
<1>7. CASE h \in D
  <2>1. GivenBack(k.prio, x, h)
    BY <1>2, <1>7
  <2>2. CASE k.prio[h] = Base[h]
    BY <1>4, <1>5, <2>1, <2>2 DEF GivenBack
  <2>3. CASE k.prio[h] # Base[h]
    <3>1. q \in Counters
      <4>1. CASE q \in Mutexes
        <5>1. own[q] = h /\ q \notin u.timed
          BY <4>1, HoldsIs
        <5> QED BY <1>1, <1>7, <4>1, <5>1
      <4> QED BY <4>1, Kinds
    <3>2. h \in Recorded(r, q)
      BY <3>1, RecordedHolds DEF Settles
    <3>3. h \in Recorded(x, q)
      BY <3>2 DEF Settles
    <3>4. k.prio[w] <= x.prio[h]
      BY <1>3, <2>1, <2>3, <3>3 DEF GivenBack
    <3> QED BY <1>4, <3>4
  <2> QED BY <2>2, <2>3
<1> QED BY <1>6, <1>7

LEMMA RestoredRaises ==
    ASSUME NEW k, Lists(k), NEW u, NEW s \in Sems, NEW old, Raised(old, u),
           NEW x, Restoring(k, s, Recorded(k, s), x), NEW r, Settles(x, r),
           k.prio = old.prio, Recorded(old, s) \subseteq Recorded(k, s),
           \A q \in Sems \ {s} : /\ Recorded(k, q) = Recorded(old, q)
                                 /\ Waiters(k, q) = Waiters(old, q)
                                 /\ Waiters(r, q) = Waiters(old, q),
           u.timed \cap Counters = {} => Waiters(r, s) = Waiters(k, s) \/ Recorded(r, s) = {},
           ~u.nested => Quiet(k, s)
    PROVE  Raised(r, u)
<1> SUFFICES ASSUME u.timed \cap Counters = {}, NEW v \in Tasks, r.prio[v] # Base[v]
             PROVE  \E q \in Sems : RaisedBy(r, u, v, q)
  BY DEF Raised
<1>1. PICK D : D = Recorded(k, s)
  OBVIOUS
<1>2. /\ \A t \in Tasks \ D : x.prio[t] = k.prio[t]
      /\ \A t \in D : Sustained(x, t)
      /\ ~u.nested => \A t \in D : GivenBack(k.prio, x, t)
      /\ SameWaiters(k, x) /\ Visited(k, s, D, x)
  BY <1>1 DEF Restoring
<1>3. r.prio = x.prio /\ \A q \in Sems : Recorded(r, q) = Recorded(x, q)
  BY DEF Settles
<1>4. \A q \in Sems : v \in Recorded(x, q) => Waiters(r, q) = Waiters(x, q)
  BY <1>2, <1>3 DEF SameWaiters
<1>5. ASSUME ~u.nested, NEW q \in Sems, NEW w \in Waiters(k, q) PROVE x.prio[w] = k.prio[w]
  BY <1>1, <1>2, <1>5, RecordFields DEF Quiet
<1>6. CASE v \in D
  <2>1. CASE u.nested
    <3>1. PICK q \in Sems : v \in Recorded(x, q) /\ Waiters(x, q) # {}
      BY <1>2, <1>3, <1>6 DEF Sustained
    <3> QED BY <1>3, <1>4, <2>1, <3>1 DEF RaisedBy
  <2>2. CASE ~u.nested
    <3>1. GivenBack(k.prio, x, v)
      BY <1>2, <1>6, <2>2
    <3>2. PICK q \in Sems : v \in Recorded(x, q) /\ \E w \in Waiters(x, q) : k.prio[w] = x.prio[v]
      BY <1>3, <3>1 DEF GivenBack
    <3>3. PICK w \in Waiters(x, q) : k.prio[w] = x.prio[v]
      BY <3>2
    <3>4. x.prio[w] = k.prio[w]
      BY <1>2, <1>5, <2>2 DEF SameWaiters
    <3>5. v \in Recorded(r, q) /\ w \in Waiters(r, q) /\ r.prio[w] = r.prio[v]
      BY <1>3, <1>4, <3>2, <3>3, <3>4
    <3> QED BY <3>5 DEF RaisedBy
  <2> QED BY <2>1, <2>2
<1>7. CASE v \notin D
  <2>1. r.prio[v] = old.prio[v]
    BY <1>2, <1>3, <1>7
  <2>2. PICK q \in Sems : RaisedBy(old, u, v, q)
    BY <2>1 DEF Raised
  <2>3. v \in Recorded(old, q) /\ Waiters(old, q) # {}
    BY <2>2 DEF RaisedBy
  <2>4. q # s
    BY <1>1, <1>7, <2>3
  <2>5. /\ v \in Recorded(r, q) /\ Waiters(r, q) = Waiters(old, q)
        /\ Waiters(k, q) = Waiters(old, q)
    BY <1>2, <1>3, <2>3, <2>4 DEF Visited, Recorded
  <2>6. CASE u.nested
    BY <2>3, <2>5, <2>6 DEF RaisedBy
  <2>7. CASE ~u.nested
    <3>1. PICK w \in Waiters(old, q) : old.prio[w] = old.prio[v]
      BY <2>2, <2>7 DEF RaisedBy
    <3>2. r.prio[w] = old.prio[w]
      BY <1>3, <1>5, <2>5, <2>7, <3>1
    <3>3. w \in Waiters(r, q) /\ r.prio[w] = r.prio[v]
      BY <2>1, <2>5, <3>1, <3>2
    <3> QED BY <2>5, <3>3 DEF RaisedBy
  <2> QED BY <2>6, <2>7
<1> QED BY <1>6, <1>7

-----------------------------------------------------------------------------
(* nxsem_wait_irq()                                                        *)

Dequeued(k, t, s) == [k EXCEPT !.wait[s] = DqRem(@, t)]

LEMMA WaiterRemoved ==
    ASSUME NEW k, Lists(k), NEW s \in Sems, NEW t, t \in Waiters(k, s),
           NEW r, r = Dequeued(k, t, s)
    PROVE  Lists(r) /\ WaitersBecome(k, r, s, Waiters(k, s) \ {t})
<1>1. /\ k \in Records /\ k.wait[s] \in Seq(Tasks) /\ t \in ToSet(k.wait[s])
      /\ NoDuplicates(k.wait[s]) /\ IsPrioritized(k.wait[s], k.prio)
  BY RecordFields DEF Lists, Waiters
<1>2. PICK l : l = DqRem(k.wait[s], t)
  OBVIOUS
<1>3. l \in Seq(Tasks) /\ ToSet(l) = ToSet(k.wait[s]) \ {t} /\ NoDuplicates(l)
  BY <1>1, <1>2, DqRemFacts
<1>4. IsPrioritized(l, k.prio)
  BY <1>1, <1>2, DqRemSorted
<1>5. r = [k EXCEPT !.wait[s] = l]
  BY <1>2 DEF Dequeued
<1>6. Lists(r) /\ WaitersBecome(k, r, s, ToSet(l))
  BY <1>3, <1>4, <1>5, WaitReplaced
<1> QED BY <1>3, <1>6 DEF Waiters

(* The task t waits for s no longer.                                       *)
LEMMA WaitersLeave ==
    ASSUME NEW k, NEW wo, NEW r, NEW t \in Tasks, NEW s \in Sems, NEW w,
           WaitersAgree(k, wo), wo[t] = s, Put(wo, w, Tasks, t, None),
           Waiters(r, s) = Waiters(k, s) \ {t},
           \A q \in Sems \ {s} : Waiters(r, q) = Waiters(k, q)
    PROVE  WaitersAgree(r, w)
<1> SUFFICES ASSUME NEW q \in Sems PROVE Waiters(r, q) = {v \in Tasks : w[v] = q}
  BY DEF WaitersAgree
<1>1. Waiters(k, q) = {v \in Tasks : wo[v] = q}
  BY DEF WaitersAgree
<1>2. w[t] = None /\ (\A v \in Tasks \ {t} : w[v] = wo[v]) /\ None # q
  BY Kinds DEF Put
<1>3. CASE q = s
  BY <1>1, <1>2, <1>3
<1>4. CASE q # s
  BY <1>1, <1>2, <1>4
<1> QED BY <1>3, <1>4

LEMMA SingleLeaves ==
    ASSUME NEW u, NEW own, NEW wo, NEW hld, Single(u, own, wo, hld),
           NEW t, NEW w, Put(wo, w, Tasks, t, None)
    PROVE  Single(u, own, w, hld)
<1> SUFFICES ASSUME ~u.nested, NEW v \in Tasks, NEW q \in Sems, HoldsIn(own, hld, v, q)
             PROVE  w[v] = None /\ \A p \in Sems : HoldsIn(own, hld, v, p) => p = q
  BY DEF Single
<1>1. wo[v] = None /\ \A p \in Sems : HoldsIn(own, hld, v, p) => p = q
  BY DEF Single
<1> QED BY <1>1 DEF Put

LEMMA WaitEnded ==
    ASSUME NEW k, NEW u, NEW own, NEW cnt, NEW wo, NEW hld,
           Good(k, u, own, cnt, wo, hld), NEW t \in Tasks, NEW s \in Sems,
           wo[t] = s, s \in u.timed,
           NEW x, x = Canceled(k, s), NEW r, r = Dequeued(x, t, s),
           NEW c \in [Counters -> Int], s \in Mutexes => c = cnt,
           s \in Counters => Put(cnt, c, Counters, s, cnt[s] + 1),
           NEW w \in [Tasks -> Sems \cup {None}], Put(wo, w, Tasks, t, None)
    PROVE  Good(r, u, own, c, w, hld)
<1>1. /\ Shape(k, u, own, cnt, wo, hld)
      /\ Lists(k) /\ Scalars(u, own, cnt, wo, hld)
      /\ WaitersAgree(k, wo) /\ Agree(k, own, hld)
      /\ Ledger(k, cnt, hld) /\ Owned(k, own) /\ Above(k.prio)
      /\ Single(u, own, wo, hld) /\ NoInversion(k, u, own, hld) /\ Raised(k, u)
  BY DEF Good, Shape
<1>2. Restoring(k, s, Recorded(k, s), x)
  <2>1. None \notin Recorded(k, s)
    BY <1>1, RecordFields, Kinds
  <2>2. Recorded(k, s) \ {None} = Recorded(k, s)
    BY <2>1
  <2>3. Restoring(k, s, Recorded(k, s) \ {None}, x)
    BY <1>1, EachRestored DEF Canceled
  <2> QED BY <2>2, <2>3
<1>3. Lists(x) /\ SameWaiters(k, x) /\ Visited(k, s, Recorded(k, s), x) /\ Above(x.prio)
  BY <1>2 DEF Restoring
<1>4. t \in Waiters(k, s) /\ t \in Waiters(x, s)
  BY <1>1, <1>3 DEF WaitersAgree, SameWaiters
<1>5. Lists(r) /\ WaitersBecome(x, r, s, Waiters(x, s) \ {t})
  BY <1>3, <1>4, WaiterRemoved
<1>6. /\ Waiters(r, s) = Waiters(k, s) \ {t}
      /\ \A q \in Sems \ {s} : Waiters(r, q) = Waiters(k, q)
  BY <1>3, <1>5 DEF WaitersBecome, SameWaiters
<1>7. /\ r.prio = x.prio
      /\ \A q \in Sems : Recorded(r, q) = Recorded(x, q) /\ r.counts[q] = x.counts[q]
  BY <1>5 DEF WaitersBecome, SameHolders, Recorded
<1>8. Settles(x, r)
  BY <1>5, <1>7 DEF Settles
<1>9. /\ RecordsCounts(x, s)
      /\ s \in Mutexes => Recorded(x, s) = {}
      /\ s \in Counters => x.counts[s] = k.counts[s]
      /\ \A q \in Sems \ {s} : Recorded(x, q) = Recorded(k, q) /\ x.counts[q] = k.counts[q]
  <2>1. \A v \in Tasks : k.counts[s][v] > 0 => v \in Recorded(k, s)
    BY <1>1 DEF Agree, RecordsCounts
  <2> QED BY <1>1, <1>3, <2>1, VisitedAll
<1>10. Agree(r, own, hld)
  <2>1. ASSUME NEW q \in Sems PROVE RecordsCounts(r, q)
    <3>1. CASE q = s
      BY <1>7, <1>9, <3>1 DEF RecordsCounts
    <3>2. CASE q # s
      BY <1>1, <1>7, <1>9, <3>2 DEF Agree, RecordsCounts
    <3> QED BY <3>1, <3>2
  <2>2. ASSUME NEW q \in Mutexes PROVE MutexAgrees(r, q, own[q])
    <3>0. q \in Sems
      BY Kinds
    <3>1. CASE q = s
      BY <1>7, <1>9, <3>1 DEF MutexAgrees
    <3>2. CASE q # s
      <4>1. Recorded(r, q) = Recorded(k, q) /\ Waiters(r, q) = Waiters(k, q)
        BY <1>6, <1>7, <1>9, <3>0, <3>2
      <4> QED BY <1>1, <4>1 DEF Agree, MutexAgrees
    <3> QED BY <3>1, <3>2
  <2>3. ASSUME NEW q \in Counters PROVE r.counts[q] = hld[q]
    <3>0. q \in Sems
      BY Kinds
    <3> QED BY <1>1, <1>7, <1>9, <3>0 DEF Agree
  <2> QED BY <2>1, <2>2, <2>3 DEF Agree
<1>11. ~u.nested => Quiet(k, s)
  BY <1>1, HoldersQuiet
<1>12. NoInversion(r, u, own, hld)
  <2>1. \A q \in Sems : Waiters(r, q) \subseteq Waiters(k, q)
    BY <1>6
  <2>2. ASSUME ~u.nested, NEW q \in Mutexes \ u.timed PROVE own[q] \notin Recorded(k, s)
    <3> SUFFICES ASSUME own[q] \in Recorded(k, s) PROVE FALSE
      OBVIOUS
    <3>1. PICK o : o = own[q]
      OBVIOUS
    <3>2. o \in Recorded(k, s) /\ o \in Tasks /\ q \in Sems /\ q # s
      BY <1>1, <2>2, <3>1, RecordFields, Kinds
    <3>3. HoldsIn(own, hld, o, q) /\ HoldsIn(own, hld, o, s)
      BY <1>1, <3>1, <3>2, HoldsIs, RecordedHolds
    <3> QED BY <1>1, <2>2, <3>2, <3>3 DEF Single
  <2> QED BY <1>1, <1>2, <1>8, <1>10, <1>11, <2>1, <2>2, RestoredBoosts
<1>13. Raised(r, u)
  <2>1. \A q \in Sems \ {s} : /\ Recorded(k, q) = Recorded(k, q)
                              /\ Waiters(k, q) = Waiters(k, q)
                              /\ Waiters(r, q) = Waiters(k, q)
    BY <1>6
  <2>2. u.timed \cap Counters = {} => Recorded(r, s) = {}
    BY <1>7, <1>9, Kinds
  <2> QED BY <1>1, <1>2, <1>8, <1>11, <2>1, <2>2, RestoredRaises
<1>14. Scalars(u, own, c, w, hld)
  BY <1>1 DEF Scalars
<1>15. WaitersAgree(r, w)
  <2>1. WaitersAgree(k, wo) /\ wo[t] = s /\ Put(wo, w, Tasks, t, None)
    BY <1>1
  <2> QED BY <1>6, <2>1, WaitersLeave
<1>16. Ledger(r, c, hld)
  <2> SUFFICES ASSUME NEW q \in Counters
               PROVE  Balanced(c[q], hld[q], Cardinality(Waiters(r, q)))
    BY DEF Ledger
  <2>1. q \in Sems /\ q \notin Mutexes
    BY Kinds
  <2>2. CASE q = s
    <3>1. PICK n \in Nat : n = Cardinality(Waiters(k, s))
      BY <1>1, WaitersFinite
    <3>2. Cardinality(Waiters(r, q)) = n - 1 /\ n # 0
      <4>1. IsFiniteSet(Waiters(k, s))
        BY <1>1, WaitersFinite
      <4>2. Cardinality(Waiters(k, s) \ {t}) = n - 1
        BY <1>4, <3>1, <4>1, FS_RemoveElement
      <4>3. n # 0
        BY <1>1, <1>4, <3>1, WaitersFinite
      <4> QED BY <1>6, <2>2, <4>2, <4>3
    <3>3. PICK a \in Int : a = cnt[s]
      BY <1>1, <2>2 DEF Scalars
    <3>4. PICK m \in Nat : m = Total(hld[s])
      <4>1. hld[s] \in [Tasks -> Nat]
        BY <1>1, <2>2 DEF Scalars
      <4> QED BY <4>1, TotalNat, InheritConstants
    <3>5. a + m + n = Units /\ ((a >= 0 /\ n = 0) \/ a = -n)
      BY <1>1, <2>2, <3>1, <3>3, <3>4 DEF Ledger, Balanced
    <3>6. (a + 1) + m + (n - 1) = Units /\ a + 1 = -(n - 1)
      BY <3>2, <3>5
    <3>7. c[q] = a + 1
      BY <2>2, <3>3 DEF Put
    <3> QED BY <2>2, <3>2, <3>4, <3>6, <3>7 DEF Balanced
  <2>3. CASE q # s
    <3>1. c[q] = cnt[q]
      BY <2>3, Kinds DEF Put
    <3>2. Waiters(r, q) = Waiters(k, q)
      BY <1>6, <2>1, <2>3
    <3> QED BY <1>1, <3>1, <3>2 DEF Ledger
  <2> QED BY <2>2, <2>3
<1>17. Owned(r, own)
  BY <1>1, <1>6, Kinds DEF Owned
<1>18. Single(u, own, w, hld)
  BY <1>1, SingleLeaves
<1>19. Above(r.prio)
  BY <1>3, <1>7
<1> QED BY <1>5, <1>10, <1>12, <1>13, <1>14, <1>15, <1>16, <1>17, <1>18, <1>19 DEF Good, Shape

-----------------------------------------------------------------------------
(* nxsem_post_slow() with a waiting task.                                  *)

(* The task w gets the count of t; nobody else's counts change.            *)
RowMoves(h, row, t, w) ==
    /\ row \in [Tasks -> Nat] /\ Total(row) = Total(h)
    /\ row[t] = h[t] - 1 /\ row[w] = h[w] + 1
    /\ \A v \in Tasks \ {t, w} : row[v] = h[v]

(* The semaphore s goes from t to w.                                       *)
Hands(own, cnt, hld, o, c, h, t, w, s) ==
    /\ s \in Mutexes => Put(own, o, Mutexes, s, w) /\ c = cnt /\ h = hld
    /\ s \in Counters => /\ o = own /\ Put(cnt, c, Counters, s, cnt[s] + 1)
                         /\ \A q \in Counters \ {s} : h[q] = hld[q]
                         /\ RowMoves(hld[s], h[s], t, w)

(* The lists before the priorities are restored: w has left the wait list, *)
(* and is a recorded holder of a counting semaphore.                       *)
Passes(k, p, w, s, h) ==
    /\ Lists(p) /\ p.prio = k.prio
    /\ Waiters(p, s) = Waiters(k, s) \ {w}
    /\ \A q \in Sems \ {s} : /\ Waiters(p, q) = Waiters(k, q)
                             /\ Recorded(p, q) = Recorded(k, q) /\ p.counts[q] = k.counts[q]
    /\ Recorded(k, s) \subseteq Recorded(p, s)
    /\ Recorded(p, s) \subseteq Recorded(k, s) \cup {w}
    /\ s \in Mutexes => Recorded(p, s) = Recorded(k, s)
    /\ s \in Counters => p.counts[s] = h[s]
    /\ \A v \in Tasks : p.counts[s][v] > 0 => v \in Recorded(p, s)

LEMMA HandsGains ==
    ASSUME NEW own, NEW cnt, NEW hld, NEW o, NEW c, NEW h, NEW t \in Tasks, NEW w \in Tasks,
           NEW s \in Sems, Hands(own, cnt, hld, o, c, h, t, w, s),
           hld \in [Counters -> [Tasks -> Nat]], HoldsIn(own, hld, t, s)
    PROVE  Gains(own, hld, o, h, w, s)
<1> SUFFICES ASSUME NEW v \in Tasks, NEW q \in Sems, HoldsIn(o, h, v, q)
             PROVE  HoldsIn(own, hld, v, q) \/ (v = w /\ q = s)
  BY DEF Gains
<1>1. CASE q = s /\ v = w
  BY <1>1
<1>2. CASE ~(q = s /\ v = w) /\ q \in Mutexes
  <2>1. o[q] = v
    BY <1>2, HoldsIs
  <2>2. own[q] = v
    <3>1. CASE s \in Mutexes
      BY <1>2, <2>1, <3>1 DEF Hands, Put
    <3>2. CASE s \in Counters
      BY <2>1, <3>2 DEF Hands
    <3> QED BY <3>1, <3>2, Kinds
  <2> QED BY <1>2, <2>2, HoldsIs
<1>3. CASE ~(q = s /\ v = w) /\ q \in Counters
  <2>1. h[q][v] > 0
    BY <1>3, HoldsIs
  <2>2. CASE q = s
    <3>1. s \in Counters /\ v # w /\ RowMoves(hld[s], h[s], t, w)
      BY <1>3, <2>2 DEF Hands
    <3>2. CASE v = t
      BY <2>2, <3>2
    <3>3. CASE v # t
      <4>1. h[s][v] = hld[s][v]
        BY <3>1, <3>3 DEF RowMoves
      <4> QED BY <1>3, <2>1, <2>2, <4>1, HoldsIs
    <3> QED BY <3>2, <3>3
  <2>3. CASE q # s
    <3>1. h[q] = hld[q]
      BY <1>3, <2>3, Kinds DEF Hands
    <3> QED BY <1>3, <2>1, <3>1, HoldsIs
  <2> QED BY <2>2, <2>3
<1> QED BY <1>1, <1>2, <1>3, Kinds

LEMMA PostWakes ==
    ASSUME NEW k, NEW u, NEW own, NEW cnt, NEW wo, NEW hld,
           Good(k, u, own, cnt, wo, hld), NEW t \in Tasks, NEW s \in Sems,
           wo[t] = None, HoldsIn(own, hld, t, s), NEW w \in Waiters(k, s),
           \A v \in Waiters(k, s) : k.prio[v] <= k.prio[w],
           NEW o, NEW c, NEW wn, NEW h, Scalars(u, o, c, wn, h),
           Hands(own, cnt, hld, o, c, h, t, w, s), Put(wo, wn, Tasks, w, None),
           NEW p, Passes(k, p, w, s, h), NEW x, Restoring(p, s, Recorded(p, s), x)
    PROVE  Good(x, u, o, c, wn, h)
<1>1. /\ Shape(k, u, own, cnt, wo, hld)
      /\ Lists(k) /\ Scalars(u, own, cnt, wo, hld)
      /\ WaitersAgree(k, wo) /\ Agree(k, own, hld)
      /\ Ledger(k, cnt, hld) /\ Owned(k, own) /\ Above(k.prio)
      /\ Single(u, own, wo, hld) /\ NoInversion(k, u, own, hld) /\ Raised(k, u)
  BY DEF Good, Shape
<1>2. /\ Lists(p) /\ p.prio = k.prio
      /\ Waiters(p, s) = Waiters(k, s) \ {w}
      /\ \A q \in Sems \ {s} : Waiters(p, q) = Waiters(k, q)
      /\ \A q \in Sems \ {s} : Recorded(p, q) = Recorded(k, q) /\ p.counts[q] = k.counts[q]
      /\ Recorded(k, s) \subseteq Recorded(p, s)
      /\ Recorded(p, s) \subseteq Recorded(k, s) \cup {w}
      /\ s \in Mutexes => Recorded(p, s) = Recorded(k, s)
      /\ s \in Counters => p.counts[s] = h[s]
      /\ \A v \in Tasks : p.counts[s][v] > 0 => v \in Recorded(p, s)
  BY DEF Passes
<1>3. w \in Tasks /\ wo[w] = s /\ w # t /\ s # None /\ w # None
  BY <1>1, Kinds DEF WaitersAgree
<1>4. Restoring(p, s, Recorded(p, s), x)
  OBVIOUS
<1>5. Lists(x) /\ SameWaiters(p, x) /\ Visited(p, s, Recorded(p, s), x) /\ Above(x.prio)
  BY <1>4 DEF Restoring
<1>6. /\ Waiters(x, s) = Waiters(k, s) \ {w}
      /\ \A q \in Sems \ {s} : Waiters(x, q) = Waiters(k, q)
  BY <1>2, <1>5 DEF SameWaiters
<1>7. /\ RecordsCounts(x, s)
      /\ s \in Mutexes => Recorded(x, s) = {}
      /\ s \in Counters => x.counts[s] = p.counts[s]
      /\ \A q \in Sems \ {s} : Recorded(x, q) = Recorded(p, q) /\ x.counts[q] = p.counts[q]
  <2>1. Lists(p) /\ \A v \in Tasks : p.counts[s][v] > 0 => v \in Recorded(p, s)
    BY <1>2
  <2> QED BY <1>5, <2>1, VisitedAll
<1>8. Agree(x, o, h)
  <2>1. ASSUME NEW q \in Sems PROVE RecordsCounts(x, q)
    <3>1. CASE q = s
      BY <1>7, <3>1
    <3>2. CASE q # s
      <4>1. Recorded(x, q) = Recorded(k, q) /\ x.counts[q] = k.counts[q]
        BY <1>2, <1>7, <3>2
      <4> QED BY <1>1, <4>1 DEF Agree, RecordsCounts
    <3> QED BY <3>1, <3>2
  <2>2. ASSUME NEW q \in Mutexes PROVE MutexAgrees(x, q, o[q])
    <3>0. q \in Sems
      BY Kinds
    <3>1. CASE q = s
      BY <1>7, <3>1 DEF MutexAgrees
    <3>2. CASE q # s
      <4>1. Recorded(x, q) = Recorded(k, q) /\ Waiters(x, q) = Waiters(k, q)
        BY <1>2, <1>6, <1>7, <3>0, <3>2
      <4>2. o[q] = own[q]
        BY <3>2, Kinds DEF Hands, Put
      <4> QED BY <1>1, <4>1, <4>2 DEF Agree, MutexAgrees
    <3> QED BY <3>1, <3>2
  <2>3. ASSUME NEW q \in Counters PROVE x.counts[q] = h[q]
    <3>0. q \in Sems
      BY Kinds
    <3>1. CASE q = s
      BY <1>2, <1>7, <3>1
    <3>2. CASE q # s
      <4>1. x.counts[q] = k.counts[q]
        BY <1>2, <1>7, <3>0, <3>2
      <4>2. h[q] = hld[q]
        BY <3>2, Kinds DEF Hands
      <4> QED BY <1>1, <4>1, <4>2 DEF Agree
    <3> QED BY <3>1, <3>2
  <2> QED BY <2>1, <2>2, <2>3 DEF Agree
<1>9. Gains(own, hld, o, h, w, s)
  <2>1. hld \in [Counters -> [Tasks -> Nat]]
    BY <1>1 DEF Scalars
  <2> QED BY <1>3, <2>1, HandsGains
<1>10. ~u.nested => \A q \in Sems : ~HoldsIn(own, hld, w, q)
  BY <1>1, <1>3 DEF Single
<1>11. Single(u, o, wn, h)
  <2>1. Single(u, own, wn, hld) /\ wn[w] = None
    BY <1>1, SingleLeaves DEF Put
  <2>2. MayTake(u, own, hld, w)
    BY <1>10 DEF MayTake
  <2> QED BY <1>3, <1>9, <2>1, <2>2, SingleTaken
<1>12. \A q \in Sems : Waiters(p, q) \subseteq Waiters(k, q)
  BY <1>2
<1>13. NoInversion(p, u, o, h)
  <2> SUFFICES ASSUME ~u.nested, NEW q \in Sems \ (Mutexes \cap u.timed),
                      NEW v \in Waiters(p, q), NEW g \in Tasks, HoldsIn(o, h, g, q)
               PROVE  p.prio[v] <= p.prio[g]
    BY DEF NoInversion
  <2>1. v \in Waiters(k, q)
    BY <1>12
  <2>2. CASE HoldsIn(own, hld, g, q)
    BY <1>1, <1>2, <2>1, <2>2 DEF NoInversion
  <2>3. CASE ~HoldsIn(own, hld, g, q)
    <3>1. g = w /\ q = s
      BY <1>9, <2>3 DEF Gains
    <3> QED BY <1>2, <2>1, <3>1
  <2> QED BY <2>2, <2>3
<1>14. ASSUME ~u.nested PROVE Quiet(p, s)
  <2> SUFFICES ASSUME NEW v \in Recorded(p, s), NEW q \in Sems PROVE v \notin Waiters(p, q)
    BY DEF Quiet
  <2>1. CASE v \in Recorded(k, s)
    <3>1. Quiet(k, s)
      BY <1>1, <1>14, HoldersQuiet
    <3> QED BY <1>12, <2>1, <3>1 DEF Quiet
  <2>2. CASE v = w
    <3>1. CASE q = s
      BY <1>2, <2>2, <3>1
    <3>2. CASE q # s
      BY <1>1, <1>2, <1>3, <2>2, <3>2 DEF WaitersAgree
    <3> QED BY <3>1, <3>2
  <2> QED BY <1>2, <2>1, <2>2
<1>15. ASSUME ~u.nested, NEW q \in Mutexes \ u.timed PROVE o[q] \notin Recorded(p, s)
  <2> SUFFICES ASSUME o[q] \in Recorded(p, s) PROVE FALSE
    OBVIOUS
  <2>1. PICK g : g = o[q]
    OBVIOUS
  <2>2. g \in Recorded(p, s) /\ g \in Tasks /\ q \in Sems
    BY <1>2, <2>1, RecordFields, Kinds
  <2>3. CASE q = s
    <3>1. g = w /\ w \in Recorded(k, s)
      BY <1>2, <2>1, <2>2, <2>3 DEF Hands, Put
    <3>2. Quiet(k, s)
      BY <1>1, <1>15, HoldersQuiet
    <3> QED BY <3>1, <3>2 DEF Quiet
  <2>4. CASE q # s
    <3>1. own[q] = g
      BY <2>1, <2>4, Kinds DEF Hands, Put
    <3>2. HoldsIn(own, hld, g, q)
      BY <3>1, HoldsIs
    <3>3. g # w
      BY <1>10, <1>15, <2>2, <3>2
    <3>4. HoldsIn(own, hld, g, s)
      BY <1>1, <1>2, <2>2, <3>3, RecordedHolds
    <3> QED BY <1>1, <1>15, <2>2, <2>4, <3>2, <3>4 DEF Single
  <2> QED BY <2>3, <2>4
<1>16. Settles(x, x)
  BY <1>5 DEF Settles
<1>17. NoInversion(x, u, o, h)
  <2>1. \A q \in Sems : Waiters(x, q) \subseteq Waiters(p, q)
    BY <1>5 DEF SameWaiters
  <2> QED BY <1>2, <1>4, <1>8, <1>13, <1>14, <1>15, <1>16, <2>1, RestoredBoosts
<1>18. Raised(x, u)
  <2>1. \A q \in Sems \ {s} : /\ Recorded(p, q) = Recorded(k, q)
                              /\ Waiters(p, q) = Waiters(k, q)
                              /\ Waiters(x, q) = Waiters(k, q)
    BY <1>2, <1>6
  <2>2. Waiters(x, s) = Waiters(p, s)
    BY <1>5 DEF SameWaiters
  <2>3. Lists(p) /\ p.prio = k.prio /\ Recorded(k, s) \subseteq Recorded(p, s)
    BY <1>2
  <2> QED BY <1>1, <1>4, <1>14, <1>16, <2>1, <2>2, <2>3, RestoredRaises
<1>19. WaitersAgree(x, wn)
  BY <1>1, <1>3, <1>6, WaitersLeave
<1>20. Owned(x, o)
  <2> SUFFICES ASSUME NEW q \in Mutexes, Waiters(x, q) # {} PROVE o[q] # None
    BY DEF Owned
  <2>1. CASE q = s
    BY <1>3, <2>1 DEF Hands, Put
  <2>2. CASE q # s
    <3>1. Waiters(x, q) = Waiters(k, q) /\ o[q] = own[q]
      BY <1>6, <2>2, Kinds DEF Hands, Put
    <3> QED BY <1>1, <3>1 DEF Owned
  <2> QED BY <2>1, <2>2
<1>21. Ledger(x, c, h)
  <2> SUFFICES ASSUME NEW q \in Counters
               PROVE  Balanced(c[q], h[q], Cardinality(Waiters(x, q)))
    BY DEF Ledger
  <2>1. q \in Sems /\ q \notin Mutexes
    BY Kinds
  <2>2. CASE q = s
    <3>1. PICK n \in Nat : n = Cardinality(Waiters(k, s))
      BY <1>1, WaitersFinite
    <3>2. Cardinality(Waiters(x, q)) = n - 1 /\ n # 0
      <4>1. IsFiniteSet(Waiters(k, s))
        BY <1>1, WaitersFinite
      <4>2. Cardinality(Waiters(k, s) \ {w}) = n - 1
        BY <3>1, <4>1, FS_RemoveElement
      <4>3. n # 0
        BY <1>1, <3>1, WaitersFinite
      <4> QED BY <1>6, <2>2, <4>2, <4>3
    <3>3. PICK a \in Int : a = cnt[s]
      BY <1>1, <2>2 DEF Scalars
    <3>4. PICK m \in Nat : m = Total(hld[s])
      <4>1. hld[s] \in [Tasks -> Nat]
        BY <1>1, <2>2 DEF Scalars
      <4> QED BY <4>1, TotalNat, InheritConstants
    <3>5. a + m + n = Units /\ ((a >= 0 /\ n = 0) \/ a = -n)
      BY <1>1, <2>2, <3>1, <3>3, <3>4 DEF Ledger, Balanced
    <3>6. (a + 1) + m + (n - 1) = Units /\ a + 1 = -(n - 1)
      BY <3>2, <3>5
    <3>7. c[q] = a + 1 /\ Total(h[q]) = m
      BY <2>2, <3>3, <3>4 DEF Hands, Put, RowMoves
    <3> QED BY <3>2, <3>6, <3>7 DEF Balanced
  <2>3. CASE q # s
    <3>1. c[q] = cnt[q] /\ h[q] = hld[q]
      BY <2>3, Kinds DEF Hands, Put
    <3>2. Waiters(x, q) = Waiters(k, q)
      BY <1>6, <2>1, <2>3
    <3> QED BY <1>1, <3>1, <3>2 DEF Ledger
  <2> QED BY <2>2, <2>3
<1> QED BY <1>5, <1>8, <1>11, <1>17, <1>18, <1>19, <1>20, <1>21 DEF Good, Shape

(* The count of t is taken back, if t is recorded.                         *)
Uncounted(k, t, s) ==
    IF Contains(k.hhead[s], t) THEN [k EXCEPT !.counts[s][t] = @ - 1] ELSE k

CountsDrop(k, r, t, s) ==
    /\ r.wait = k.wait /\ r.prio = k.prio /\ r.hhead = k.hhead
    /\ \A q \in Sems \ {s} : r.counts[q] = k.counts[q]
    /\ \A v \in Tasks \ {t} : r.counts[s][v] = k.counts[s][v]
    /\ t \in Recorded(k, s) => r.counts[s][t] = k.counts[s][t] - 1
    /\ t \notin Recorded(k, s) => r.counts[s][t] = k.counts[s][t]

LEMMA CountTaken ==
    ASSUME NEW k, Lists(k), NEW s \in Sems, RecordsCounts(k, s), NEW t \in Tasks,
           NEW r, r = Uncounted(k, t, s)
    PROVE  Lists(r) /\ CountsDrop(k, r, t, s)
<1>1. /\ k \in Records /\ k.hhead[s] \in Seq(Tasks) /\ k.counts \in [Sems -> [Tasks -> Nat]]
      /\ k.counts[s][t] \in Nat
  BY RecordFields DEF Lists
<1>2. CASE t \in Recorded(k, s)
  <2>1. Contains(k.hhead[s], t)
    BY <1>1, <1>2, ContainsIs DEF Recorded
  <2>2. PICK n : n = k.counts[s][t] - 1
    OBVIOUS
  <2>3. n \in Nat
    <3>1. k.counts[s][t] > 0
      BY <1>2 DEF RecordsCounts
    <3> QED BY <1>1, <2>2, <3>1
  <2>4. PICK g : g = [k.counts EXCEPT ![s][t] = n]
    OBVIOUS
  <2>5. /\ g \in [Sems -> [Tasks -> Nat]] /\ g[s][t] = n
        /\ \A v \in Tasks \ {t} : g[s][v] = k.counts[s][v]
        /\ \A q \in Sems \ {s} : g[q] = k.counts[q]
    BY <1>1, <2>3, <2>4
  <2>6. r = [k EXCEPT !.counts[s][t] = k.counts[s][t] - 1]
    BY <2>1 DEF Uncounted
  <2>7. r = [k EXCEPT !.counts = g]
    BY <1>1, <2>2, <2>4, <2>6 DEF Records
  <2>8. /\ r \in Records /\ r.counts = g /\ r.wait = k.wait /\ r.prio = k.prio
        /\ r.hhead = k.hhead
    BY <1>1, <2>5, <2>7 DEF Records
  <2>9. Lists(r)
    BY <2>8 DEF Lists
  <2> QED BY <1>2, <2>2, <2>5, <2>8, <2>9 DEF CountsDrop
<1>3. CASE t \notin Recorded(k, s)
  <2>1. r = k
    BY <1>1, <1>3, ContainsIs DEF Recorded, Uncounted
  <2> QED BY <1>3, <2>1 DEF CountsDrop
<1> QED BY <1>2, <1>3

Popped(k, s) == [k EXCEPT !.wait[s] = Tail(@)]

LEMMA FirstLeaves ==
    ASSUME NEW k, Lists(k), NEW s \in Sems, k.wait[s] # <<>>, NEW w, w = Head(k.wait[s]),
           NEW r, r = Popped(k, s)
    PROVE  /\ Lists(r) /\ w \in Waiters(k, s)
           /\ WaitersBecome(k, r, s, Waiters(k, s) \ {w})
           /\ \A v \in Waiters(k, s) : k.prio[v] <= k.prio[w]
<1>1. /\ k \in Records /\ k.wait[s] \in Seq(Tasks) /\ k.prio \in [Tasks -> Int]
      /\ NoDuplicates(k.wait[s]) /\ IsPrioritized(k.wait[s], k.prio)
  BY RecordFields DEF Lists
<1>2. PICK l : l = Tail(k.wait[s])
  OBVIOUS
<1>3. /\ w \in ToSet(k.wait[s]) /\ l \in Seq(Tasks)
      /\ ToSet(l) = ToSet(k.wait[s]) \ {w} /\ NoDuplicates(l)
  BY <1>1, <1>2, TailFacts
<1>4. IsPrioritized(l, k.prio) /\ \A v \in ToSet(k.wait[s]) : k.prio[v] <= k.prio[w]
  BY <1>1, <1>2, HeadHighest
<1>5. r = [k EXCEPT !.wait[s] = l]
  BY <1>2 DEF Popped
<1>6. Lists(r) /\ WaitersBecome(k, r, s, ToSet(l))
  BY <1>3, <1>4, <1>5, WaitReplaced
<1> QED BY <1>3, <1>4, <1>6 DEF Waiters

(* The lists that nxsem_restore_baseprio() gets.                           *)
LEMMA MutexPasses ==
    ASSUME NEW k, Lists(k), NEW own, NEW hld, Agree(k, own, hld), NEW t \in Tasks,
           NEW s \in Mutexes, k.wait[s] # <<>>, NEW w, w = Head(k.wait[s]),
           NEW a, a = Uncounted(k, t, s), NEW p, p = Popped(a, s), NEW h
    PROVE  Passes(k, p, w, s, h)
<1>1. s \in Sems /\ s \notin Counters
  BY Kinds
<1>2. RecordsCounts(k, s)
  BY <1>1 DEF Agree
<1>3. Lists(a) /\ CountsDrop(k, a, t, s)
  BY <1>1, <1>2, CountTaken
<1>4. /\ a.wait = k.wait /\ a.prio = k.prio /\ a.hhead = k.hhead
      /\ \A q \in Sems \ {s} : a.counts[q] = k.counts[q]
  BY <1>3 DEF CountsDrop
<1>5. Lists(p) /\ WaitersBecome(a, p, s, Waiters(a, s) \ {w})
  BY <1>1, <1>3, <1>4, FirstLeaves
<1>6. /\ p.prio = k.prio /\ p.hhead = k.hhead /\ p.counts = a.counts
      /\ Waiters(p, s) = Waiters(k, s) \ {w}
      /\ \A q \in Sems \ {s} : Waiters(p, q) = Waiters(k, q)
  BY <1>4, <1>5 DEF WaitersBecome, SameHolders, Waiters
<1>7. \A q \in Sems : Recorded(p, q) = Recorded(k, q)
  BY <1>6 DEF Recorded
<1>8. ASSUME NEW v \in Tasks, p.counts[s][v] > 0 PROVE v \in Recorded(p, s)
  <2>1. k.counts[s][v] > 0
    <3>1. CASE v = t /\ t \in Recorded(k, s)
      BY <1>2, <3>1 DEF RecordsCounts
    <3>2. CASE ~(v = t /\ t \in Recorded(k, s))
      <4>1. a.counts[s][v] = k.counts[s][v]
        BY <1>3, <3>2 DEF CountsDrop
      <4>2. a.counts[s][v] > 0
        BY <1>6, <1>8, Zenon
      <4> QED BY <4>1, <4>2
    <3> QED BY <3>1, <3>2
  <2> QED BY <1>1, <1>2, <1>7, <2>1 DEF RecordsCounts
<1> QED BY <1>1, <1>4, <1>5, <1>6, <1>7, <1>8 DEF Passes

LEMMA CounterPasses ==
    ASSUME NEW k, Lists(k), NEW own, NEW hld, Agree(k, own, hld), NEW t \in Tasks,
           NEW s \in Counters, hld[s][t] > 0, k.wait[s] # <<>>,
           NEW w \in Tasks, w = Head(k.wait[s]), w # t,
           NEW a, a = Uncounted(k, t, s), NEW b, b = Popped(a, s),
           NEW p, p = AddHolder(b, w, s), NEW h, RowMoves(hld[s], h[s], t, w)
    PROVE  Passes(k, p, w, s, h)
<1>1. s \in Sems /\ s \notin Mutexes
  BY Kinds
<1>2. RecordsCounts(k, s) /\ k.counts[s] = hld[s]
  BY <1>1 DEF Agree
<1>3. Lists(a) /\ CountsDrop(k, a, t, s)
  BY <1>1, <1>2, CountTaken
<1>4. /\ a.wait = k.wait /\ a.prio = k.prio /\ a.hhead = k.hhead
      /\ \A q \in Sems \ {s} : a.counts[q] = k.counts[q]
  BY <1>3 DEF CountsDrop
<1>5. Lists(b) /\ WaitersBecome(a, b, s, Waiters(a, s) \ {w})
  BY <1>1, <1>3, <1>4, FirstLeaves
<1>6. /\ b.prio = k.prio /\ b.hhead = k.hhead /\ b.counts = a.counts
      /\ Waiters(b, s) = Waiters(k, s) \ {w}
      /\ \A q \in Sems \ {s} : Waiters(b, q) = Waiters(k, q)
  BY <1>4, <1>5 DEF WaitersBecome, SameHolders, Waiters
<1>7. /\ Lists(p) /\ b.counts[s][w] \in Nat
      /\ HoldersBecome(b, p, s, w, b.counts[s][w] + 1, Recorded(b, s) \cup {w})
  BY <1>1, <1>5, HolderAdded
<1>8. /\ p.prio = k.prio /\ p.wait = b.wait
      /\ Recorded(p, s) = Recorded(k, s) \cup {w}
      /\ \A q \in Sems \ {s} : p.hhead[q] = k.hhead[q] /\ p.counts[q] = k.counts[q]
  <2>1. /\ p.prio = b.prio /\ p.wait = b.wait
        /\ Recorded(p, s) = Recorded(b, s) \cup {w}
        /\ \A q \in Sems \ {s} : p.hhead[q] = b.hhead[q] /\ p.counts[q] = b.counts[q]
    BY <1>7, Zenon DEF HoldersBecome
  <2>2. Recorded(b, s) = Recorded(k, s)
    BY <1>6 DEF Recorded
  <2> QED BY <1>4, <1>6, <2>1, <2>2
<1>9. Waiters(p, s) = Waiters(k, s) \ {w} /\ \A q \in Sems \ {s} : Waiters(p, q) = Waiters(k, q)
  BY <1>6, <1>8 DEF Waiters
<1>10. p.counts[s] = h[s]
  <2>1. p.counts[s] \in [Tasks -> Nat] /\ h[s] \in [Tasks -> Nat]
    BY <1>1, <1>7, RecordFields DEF RowMoves
  <2>2. ASSUME NEW v \in Tasks PROVE p.counts[s][v] = h[s][v]
    <3>1. CASE v = t
      <4>1. t \in Recorded(k, s)
        BY <1>2, SMTT(30) DEF RecordsCounts
      <4>2. p.counts[s][t] = a.counts[s][t] /\ a.counts[s][t] = k.counts[s][t] - 1
        BY <1>3, <1>6, <1>7, <4>1 DEF HoldersBecome, CountsDrop
      <4> QED BY <1>2, <3>1, <4>2, SMTT(30) DEF RowMoves
    <3>2. CASE v = w
      <4>1. p.counts[s][w] = b.counts[s][w] + 1 /\ b.counts[s][w] = k.counts[s][w]
        BY <1>3, <1>6, <1>7 DEF HoldersBecome, CountsDrop
      <4> QED BY <1>2, <3>2, <4>1, SMTT(30) DEF RowMoves
    <3>3. CASE v # t /\ v # w
      <4>1. p.counts[s][v] = b.counts[s][v] /\ b.counts[s][v] = k.counts[s][v]
        BY <1>3, <1>6, <1>7, <3>3 DEF HoldersBecome, CountsDrop
      <4> QED BY <1>2, <3>3, <4>1, SMTT(30) DEF RowMoves
    <3> QED BY <3>1, <3>2, <3>3
  <2> QED BY <2>1, <2>2, SMTT(30)
<1>11. ASSUME NEW v \in Tasks, p.counts[s][v] > 0 PROVE v \in Recorded(p, s)
  <2>1. CASE v = w
    BY <1>8, <2>1
  <2>2. CASE v = t
    BY <1>2, <1>8, <2>2 DEF RecordsCounts
  <2>3. CASE v # t /\ v # w
    <3>1. p.counts[s][v] = k.counts[s][v]
      BY <1>3, <1>6, <1>7, <2>3 DEF HoldersBecome, CountsDrop
    <3> QED BY <1>2, <1>8, <1>11, <3>1, SMTT(30) DEF RecordsCounts
  <2> QED BY <2>1, <2>2, <2>3
<1>12. \A q \in Sems \ {s} : Recorded(p, q) = Recorded(k, q)
  BY <1>8 DEF Recorded
<1> QED BY <1>1, <1>7, <1>8, <1>9, <1>10, <1>11, <1>12, Zenon DEF Passes

-----------------------------------------------------------------------------
(* nxsem_post_slow() without a waiting task.                               *)

(* nxsem_freecount0holder()                                                *)
Empties(k, s) ==
    {i \in 1 .. Len(k.hhead[s]) : k.counts[s][k.hhead[s][i]] <= 0 \/ s \in Mutexes}

Frees(k, s) ==
    IF Empties(k, s) = {} THEN k ELSE FreeHolder(k, k.hhead[s][Min(Empties(k, s))], s)

LEMMA NobodyWoken ==
    ASSUME NEW k, NEW t, NEW s
    PROVE  RestoreBaseprio(k, t, FALSE, s) = Frees(k, s)
BY Zenon DEF RestoreBaseprio, Frees, Empties

LEMMA FreesNone ==
    ASSUME NEW k, NEW s, k.hhead[s] = <<>>
    PROVE  Frees(k, s) = k
<1>1. Len(k.hhead[s]) = 0
  OBVIOUS
<1>2. Empties(k, s) = {}
  BY <1>1 DEF Empties
<1> QED BY <1>2 DEF Frees

(* At most one structure has no counts: it is freed.                       *)
FreesEmpty(k, r, s) ==
    /\ r.wait = k.wait /\ r.prio = k.prio
    /\ \A q \in Sems \ {s} : r.hhead[q] = k.hhead[q] /\ r.counts[q] = k.counts[q]
    /\ \A v \in Tasks : r.counts[s][v] = k.counts[s][v]
    /\ Recorded(r, s) = {v \in Recorded(k, s) : k.counts[s][v] > 0}

LEMMA FreesOne ==
    ASSUME NEW k, Lists(k), NEW s \in Counters, NEW t \in Recorded(k, s),
           \A v \in Recorded(k, s) \ {t} : k.counts[s][v] > 0, NEW r, r = Frees(k, s)
    PROVE  Lists(r) /\ FreesEmpty(k, r, s)
<1>1. s \in Sems /\ s \notin Mutexes
  BY Kinds
<1>2. PICK hs : hs = k.hhead[s]
  OBVIOUS
<1>3. hs \in Seq(Tasks) /\ Recorded(k, s) = ToSet(hs) /\ Recorded(k, s) \subseteq Tasks
  BY <1>1, <1>2, RecordFields DEF Recorded
<1>4. k.counts[s] \in [Tasks -> Nat] /\ t \in Tasks
  BY <1>1, <1>3, RecordFields
<1>5. PICK E : E = Empties(k, s)
  OBVIOUS
<1>6. \A i : i \in E <=> i \in 1 .. Len(hs) /\ k.counts[s][hs[i]] <= 0
  BY <1>1, <1>2, <1>5 DEF Empties
<1>7. CASE E = {}
  <2>1. r = k
    BY <1>5, <1>7 DEF Frees
  <2>2. \A v \in Recorded(k, s) : k.counts[s][v] > 0
    <3> SUFFICES ASSUME NEW v \in Recorded(k, s) PROVE k.counts[s][v] > 0
      OBVIOUS
    <3>1. PICK i \in 1 .. Len(hs) : v = hs[i]
      BY <1>3, ToSetIndex
    <3>2. ~(k.counts[s][v] <= 0) /\ k.counts[s][v] \in Nat
      BY <1>3, <1>4, <1>6, <1>7, <3>1
    <3> QED BY <3>2
  <2> QED BY <2>1, <2>2 DEF FreesEmpty
<1>8. CASE E # {}
  <2>1. PICK i : i = Min(E)
    OBVIOUS
  <2>2. i \in E
    <3>1. E \subseteq Nat
      BY <1>6
    <3>2. \E x \in E : \A y \in E : x <= y
      BY <1>8, <3>1, LeastNatural
    <3> QED BY <2>1, <3>2 DEF Min
  <2>3. hs[i] \in Recorded(k, s) /\ k.counts[s][hs[i]] <= 0
    BY <1>3, <1>6, <2>2, ToSetIndex
  <2>4. hs[i] \in Tasks /\ k.counts[s][hs[i]] \in Nat
    BY <1>3, <1>4, <2>3
  <2>5. hs[i] = t /\ k.counts[s][t] = 0
    BY <2>3, <2>4
  <2>6. r = FreeHolder(k, t, s)
    BY <1>2, <1>5, <1>8, <2>1, <2>5 DEF Frees
  <2>7. Lists(r) /\ HoldersBecome(k, r, s, t, 0, Recorded(k, s) \ {t})
    BY <1>1, <2>6, HolderFreed
  <2>8. Recorded(r, s) = {v \in Recorded(k, s) : k.counts[s][v] > 0}
    BY <2>5, <2>7 DEF HoldersBecome
  <2>9. \A v \in Tasks : r.counts[s][v] = k.counts[s][v]
    BY <2>5, <2>7 DEF HoldersBecome
  <2> QED BY <2>7, <2>8, <2>9 DEF HoldersBecome, FreesEmpty
<1> QED BY <1>7, <1>8

LEMMA SingleLoses ==
    ASSUME NEW u, NEW own, NEW wo, NEW hld, Single(u, own, wo, hld), NEW o, NEW h,
           \A v \in Tasks : \A q \in Sems : HoldsIn(o, h, v, q) => HoldsIn(own, hld, v, q)
    PROVE  Single(u, o, wo, h)
BY DEF Single

LEMMA MutexReleased ==
    ASSUME NEW k, NEW u, NEW own, NEW cnt, NEW wo, NEW hld,
           Good(k, u, own, cnt, wo, hld), NEW t \in Tasks, NEW s \in Mutexes,
           own[s] = t, k.wait[s] = <<>>, NEW a, a = Uncounted(k, t, s),
           NEW r, r = Frees(a, s), NEW o, Scalars(u, o, cnt, wo, hld),
           Put(own, o, Mutexes, s, None)
    PROVE  Good(r, u, o, cnt, wo, hld)
<1>1. /\ Lists(k) /\ Scalars(u, own, cnt, wo, hld)
      /\ WaitersAgree(k, wo) /\ Agree(k, own, hld)
      /\ Ledger(k, cnt, hld) /\ Owned(k, own) /\ Above(k.prio)
      /\ Single(u, own, wo, hld) /\ NoInversion(k, u, own, hld) /\ Raised(k, u)
  BY DEF Good, Shape
<1>2. s \in Sems /\ t # None
  BY Kinds
<1>3. Waiters(k, s) = {}
  BY <1>1, <1>2, WaitersFinite
<1>4. Recorded(k, s) = {}
  BY <1>1, <1>3 DEF Agree, MutexAgrees
<1>5. k.hhead[s] \in Seq(Tasks) /\ k.hhead[s] = <<>>
  <2>1. k.hhead[s] \in Seq(Tasks)
    BY <1>1, <1>2, RecordFields
  <2>2. ToSet(k.hhead[s]) = {}
    BY <1>4 DEF Recorded
  <2> QED BY <2>1, <2>2, ToSetEmpty
<1>6. a = k
  BY <1>4, <1>5, ContainsIs DEF Uncounted, Recorded
<1>7. r = k
  BY <1>5, <1>6, FreesNone
<1>8. ASSUME NEW v \in Tasks, NEW q \in Sems, HoldsIn(o, hld, v, q)
      PROVE  HoldsIn(own, hld, v, q)
  <2>1. CASE q \in Mutexes
    BY <1>8, <2>1, HoldsIs, Kinds DEF Put
  <2>2. CASE q \in Counters
    BY <1>8, <2>2, HoldsIs
  <2> QED BY <2>1, <2>2, Kinds
<1>9. Agree(k, o, hld)
  <2>1. ASSUME NEW q \in Mutexes PROVE MutexAgrees(k, q, o[q])
    <3>1. CASE q = s
      BY <1>4, <3>1 DEF MutexAgrees
    <3>2. CASE q # s
      BY <1>1, <3>2 DEF Agree, Put
    <3> QED BY <3>1, <3>2
  <2> QED BY <1>1, <2>1 DEF Agree
<1>10. Owned(k, o)
  BY <1>1, <1>3 DEF Owned, Put
<1>11. Single(u, o, wo, hld)
  BY <1>1, <1>8, SingleLoses
<1>12. NoInversion(k, u, o, hld)
  BY <1>1, <1>8 DEF NoInversion
<1> QED BY <1>1, <1>7, <1>9, <1>10, <1>11, <1>12 DEF Good, Shape

LEMMA CounterReleased ==
    ASSUME NEW k, NEW u, NEW own, NEW cnt, NEW wo, NEW hld,
           Good(k, u, own, cnt, wo, hld), NEW t \in Tasks, NEW s \in Counters,
           hld[s][t] > 0, k.wait[s] = <<>>, NEW a, a = Uncounted(k, t, s),
           NEW r, r = Frees(a, s), NEW c, NEW h, Scalars(u, own, c, wo, h),
           Put(cnt, c, Counters, s, cnt[s] + 1),
           Put(hld, h, Counters, s, Row(hld[s], t, hld[s][t] - 1))
    PROVE  Good(r, u, own, c, wo, h)
<1>1. /\ Lists(k) /\ Scalars(u, own, cnt, wo, hld)
      /\ WaitersAgree(k, wo) /\ Agree(k, own, hld)
      /\ Ledger(k, cnt, hld) /\ Owned(k, own) /\ Above(k.prio)
      /\ Single(u, own, wo, hld) /\ NoInversion(k, u, own, hld) /\ Raised(k, u)
  BY DEF Good, Shape
<1>2. s \in Sems /\ s \notin Mutexes
  BY Kinds
<1>3. Waiters(k, s) = {}
  BY <1>1, <1>2, WaitersFinite
<1>4. hld[s] \in [Tasks -> Nat] /\ hld[s][t] \in Nat /\ cnt[s] \in Int
  BY <1>1 DEF Scalars
<1>5. PICK n \in Nat : n = hld[s][t] - 1
  BY <1>4
<1>6. PICK row : row = Row(hld[s], t, n)
  OBVIOUS
<1>7. /\ row \in [Tasks -> Nat] /\ row[t] = n /\ \A v \in Tasks \ {t} : row[v] = hld[s][v]
      /\ Total(hld[s]) \in Nat /\ Total(row) \in Nat
      /\ Total(row) = Total(hld[s]) - hld[s][t] + n
  <2>1. RowIs(hld[s], row, t, n)
    BY <1>4, <1>6, RowFacts
  <2> QED BY <2>1 DEF RowIs
<1>8. h[s] = row /\ \A q \in Counters \ {s} : h[q] = hld[q]
  BY <1>5, <1>6 DEF Put
<1>9. RecordsCounts(k, s) /\ k.counts[s] = hld[s]
  BY <1>1, <1>2 DEF Agree
<1>10. Lists(a) /\ CountsDrop(k, a, t, s)
  BY <1>1, <1>2, <1>9, CountTaken
<1>11. t \in Recorded(k, s)
  BY <1>9 DEF RecordsCounts
<1>12. /\ a.wait = k.wait /\ a.prio = k.prio /\ Recorded(a, s) = Recorded(k, s)
       /\ \A q \in Sems \ {s} : a.hhead[q] = k.hhead[q] /\ a.counts[q] = k.counts[q]
       /\ \A v \in Tasks : a.counts[s][v] = row[v]
  <2>1. a.counts[s][t] = row[t]
    BY <1>5, <1>7, <1>9, <1>10, <1>11 DEF CountsDrop
  <2>2. \A v \in Tasks \ {t} : a.counts[s][v] = row[v]
    BY <1>7, <1>9, <1>10 DEF CountsDrop
  <2> QED BY <1>10, <2>1, <2>2 DEF CountsDrop, Recorded
<1>13. Lists(r) /\ FreesEmpty(a, r, s)
  <2>1. \A v \in Recorded(a, s) \ {t} : a.counts[s][v] > 0
    BY <1>7, <1>9, <1>12 DEF RecordsCounts
  <2> QED BY <1>10, <1>11, <1>12, <2>1, FreesOne
<1>14. /\ r.wait = k.wait /\ r.prio = k.prio
       /\ \A q \in Sems \ {s} : Recorded(r, q) = Recorded(k, q) /\ r.counts[q] = k.counts[q]
       /\ \A v \in Tasks : r.counts[s][v] = row[v]
       /\ Recorded(r, s) = {v \in Recorded(k, s) : row[v] > 0}
  <2>1. /\ r.wait = a.wait /\ r.prio = a.prio
        /\ \A q \in Sems \ {s} : r.hhead[q] = a.hhead[q] /\ r.counts[q] = a.counts[q]
        /\ \A v \in Tasks : r.counts[s][v] = a.counts[s][v]
        /\ Recorded(r, s) = {v \in Recorded(a, s) : a.counts[s][v] > 0}
    BY <1>13 DEF FreesEmpty
  <2>2. Recorded(k, s) \subseteq Tasks
    BY <1>1, <1>2, RecordFields
  <2>3. Recorded(r, s) = {v \in Recorded(k, s) : row[v] > 0}
    BY <1>12, <2>1, <2>2
  <2> QED BY <1>12, <2>1, <2>3 DEF Recorded
<1>15. \A q \in Sems : Waiters(r, q) = Waiters(k, q)
  BY <1>14 DEF Waiters
<1>16. Agree(r, own, h)
  <2>1. r.counts[s] = row
    <3>1. r.counts[s] \in [Tasks -> Nat]
      BY <1>2, <1>13, RecordFields
    <3> QED BY <1>7, <1>14, <3>1
  <2>2. RecordsCounts(r, s)
    <3>1. ASSUME NEW v \in Tasks, row[v] > 0 PROVE v \in Recorded(k, s)
      BY <1>7, <1>9, <1>11, <3>1 DEF RecordsCounts
    <3>2. Recorded(k, s) \subseteq Tasks
      BY <1>1, <1>2, RecordFields
    <3> QED BY <1>14, <2>1, <3>1, <3>2 DEF RecordsCounts
  <2>3. ASSUME NEW q \in Sems PROVE RecordsCounts(r, q)
    <3>1. CASE q = s
      BY <2>2, <3>1
    <3>2. CASE q # s
      BY <1>1, <1>14, <3>2 DEF Agree, RecordsCounts
    <3> QED BY <3>1, <3>2
  <2>4. ASSUME NEW q \in Mutexes PROVE MutexAgrees(r, q, own[q])
    <3>1. q \in Sems \ {s}
      BY <1>2, Kinds
    <3> QED BY <1>1, <1>14, <1>15, <3>1 DEF Agree, MutexAgrees
  <2>5. ASSUME NEW q \in Counters PROVE r.counts[q] = h[q]
    <3>1. q \in Sems
      BY Kinds
    <3> QED BY <1>1, <1>8, <1>14, <2>1, <3>1 DEF Agree
  <2> QED BY <2>3, <2>4, <2>5 DEF Agree
<1>17. ASSUME NEW v \in Tasks, NEW q \in Sems, HoldsIn(own, h, v, q)
       PROVE  HoldsIn(own, hld, v, q)
  <2>1. CASE q \in Mutexes
    BY <1>17, <2>1, HoldsIs
  <2>2. CASE q \in Counters
    <3>1. h[q][v] > 0
      BY <1>17, <2>2, HoldsIs
    <3>2. CASE q = s /\ v = t
      BY <2>2, <3>2, HoldsIs
    <3>3. CASE ~(q = s /\ v = t)
      <4>1. h[q][v] = hld[q][v]
        BY <1>7, <1>8, <2>2, <3>3
      <4> QED BY <2>2, <3>1, <4>1, HoldsIs
    <3> QED BY <3>2, <3>3
  <2> QED BY <2>1, <2>2, Kinds
<1>18. Ledger(r, c, h)
  <2> SUFFICES ASSUME NEW q \in Counters
               PROVE  Balanced(c[q], h[q], Cardinality(Waiters(r, q)))
    BY DEF Ledger
  <2>1. q \in Sems /\ Waiters(r, q) = Waiters(k, q)
    BY <1>15, Kinds
  <2>2. CASE q = s
    <3>1. PICK x \in Int : x = cnt[s]
      BY <1>4
    <3>2. PICK b \in Nat : b = Total(hld[s])
      BY <1>7
    <3>3. PICK d \in Nat : d = Total(row)
      BY <1>7
    <3>4. d = b - 1
      BY <1>4, <1>5, <1>7, <3>2, <3>3
    <3>5. Cardinality(Waiters(k, s)) = 0
      BY <1>1, <1>2, <1>3, WaitersFinite
    <3>6. x + b = Units /\ x >= 0
      BY <1>1, <3>1, <3>2, <3>5 DEF Ledger, Balanced
    <3>7. Cardinality(Waiters(r, q)) = 0 /\ c[q] = x + 1 /\ h[q] = row
      BY <1>8, <2>1, <2>2, <3>1, <3>5 DEF Put
    <3>8. (x + 1) + d + 0 = Units /\ x + 1 >= 0
      BY <3>4, <3>6
    <3> QED BY <3>3, <3>7, <3>8 DEF Balanced
  <2>3. CASE q # s
    BY <1>1, <1>8, <2>1, <2>3 DEF Ledger, Put
  <2> QED BY <2>2, <2>3
<1>19. WaitersAgree(r, wo)
  BY <1>1, <1>15 DEF WaitersAgree
<1>20. Owned(r, own)
  BY <1>1, <1>15, Kinds DEF Owned
<1>21. Single(u, own, wo, h)
  BY <1>1, <1>17, SingleLoses
<1>22. NoInversion(r, u, own, h)
  BY <1>1, <1>14, <1>15, <1>17 DEF NoInversion
<1>23. Raised(r, u)
  <2> SUFFICES ASSUME u.timed \cap Counters = {}, NEW v \in Tasks, r.prio[v] # Base[v]
               PROVE  \E q \in Sems : RaisedBy(r, u, v, q)
    BY DEF Raised
  <2>1. PICK q \in Sems : RaisedBy(k, u, v, q)
    BY <1>1, <1>14 DEF Raised
  <2>2. q # s
    BY <1>3, <2>1 DEF RaisedBy
  <2>3. RaisedBy(r, u, v, q)
    BY <1>14, <1>15, <2>1, <2>2 DEF RaisedBy
  <2> QED BY <2>3
<1>24. Above(r.prio)
  BY <1>1, <1>14
<1> QED BY <1>13, <1>16, <1>18, <1>19, <1>20, <1>21, <1>22, <1>23, <1>24 DEF Good, Shape

-----------------------------------------------------------------------------
(* The actions.                                                            *)

LEMMA NowFields ==
    /\ Now.wait = wait /\ Now.hhead = hhead /\ Now.counts = counts /\ Now.prio = prio
    /\ (Now \in Records <=> /\ wait \in [Sems -> Seq(Tasks)] /\ hhead \in [Sems -> Seq(Tasks)]
                            /\ counts \in [Sems -> [Tasks -> Nat]] /\ prio \in [Tasks -> Nat])
BY DEF Now, Records

LEMMA NowBecomes ==
    ASSUME NEW r, Lists(r), Become(r)
    PROVE  Now' = r
<1>1. r \in Records
  BY DEF Lists
<1>2. r = [wait |-> r.wait, hhead |-> r.hhead, counts |-> r.counts, prio |-> r.prio]
  BY <1>1 DEF Records
<1>3. wait' = r.wait /\ hhead' = r.hhead /\ counts' = r.counts /\ prio' = r.prio
  BY DEF Become
<1> QED BY <1>2, <1>3 DEF Now

LEMMA HoldsHere ==
    ASSUME NEW t, NEW s
    PROVE  Holds(t, s) <=> HoldsIn(owner, held, t, s)
BY DEF Holds, HoldsIn

LEMMA GoodParts ==
    ASSUME IInv
    PROVE  /\ Good(Now, use, owner, count, waitobj, held)
           /\ Shape(Now, use, owner, count, waitobj, held)
           /\ Lists(Now) /\ Agree(Now, owner, held) /\ WaitersAgree(Now, waitobj)
           /\ owner \in [Mutexes -> Tasks \cup {None}]
           /\ count \in [Counters -> Int]
           /\ waitobj \in [Tasks -> Sems \cup {None}]
           /\ held \in [Counters -> [Tasks -> Nat]]
           /\ use \in Uses
BY DEF IInv, Good, Shape, Scalars

LEMMA BlockRules ==
    ASSUME NEW t \in Tasks, NEW s \in Sems, MayBlock(t, s)
    PROVE  /\ waitobj[t] = None /\ MayTake(use, owner, held, t)
           /\ ~HoldsIn(owner, held, t, s)
<1>1. Sems \subseteq Nat
  BY InheritConstants
<1>2. waitobj[t] = None /\ \A r \in Sems : Holds(t, r) => use.nested /\ r < s
  BY DEF MayBlock
<1>3. \A r \in Sems : HoldsIn(owner, held, t, r) => use.nested /\ r < s
  BY <1>2, HoldsHere
<1>4. ~(s < s)
  BY <1>1
<1> QED BY <1>2, <1>3, <1>4 DEF MayTake

LEMMA InitGood ==
    ASSUME Init
    PROVE  IInv
<1>1. /\ owner = [s \in Mutexes |-> None] /\ count = [s \in Counters |-> Units]
      /\ waitobj = [t \in Tasks |-> None]
      /\ held = [s \in Counters |-> [t \in Tasks |-> 0]]
      /\ wait = [s \in Sems |-> <<>>] /\ hhead = [s \in Sems |-> <<>>]
      /\ counts = [s \in Sems |-> [t \in Tasks |-> 0]] /\ prio = Base /\ use \in Uses
  BY DEF Init
<1>2. Base \in [Tasks -> Nat] /\ Units \in Nat /\ IsFiniteSet(Tasks)
  BY InheritConstants
<1>3. Scalars(use, owner, count, waitobj, held)
  BY <1>1, <1>2 DEF Scalars
<1>4. PICK e : e = <<>>
  OBVIOUS
<1>5. e \in Seq(Tasks) /\ Len(e) = 0
  BY <1>4
<1>6. NoDuplicates(e) /\ \A pr : IsPrioritized(e, pr)
  BY <1>5 DEF NoDuplicates, IsPrioritized
<1>7. ToSet(e) = {}
  BY <1>4, <1>5, ToSetEmpty
<1>8. \A s \in Sems : wait[s] = e /\ hhead[s] = e
  BY <1>1, <1>4
<1>9. Lists(Now)
  <2>1. wait \in [Sems -> Seq(Tasks)] /\ hhead \in [Sems -> Seq(Tasks)]
    BY <1>1, <1>4, <1>5
  <2>2. counts \in [Sems -> [Tasks -> Nat]] /\ prio \in [Tasks -> Nat]
    BY <1>1, <1>2
  <2>3. Now \in Records
    BY <2>1, <2>2, NowFields
  <2> QED BY <1>6, <1>8, <2>3, NowFields DEF Lists
<1>10. \A s \in Sems : Waiters(Now, s) = {} /\ Recorded(Now, s) = {}
  BY <1>7, <1>8, NowFields DEF Waiters, Recorded
<1>11. WaitersAgree(Now, waitobj)
  <2>1. \A s \in Sems : \A t \in Tasks : waitobj[t] # s
    BY <1>1, Kinds
  <2> QED BY <1>10, <2>1 DEF WaitersAgree
<1>12. Agree(Now, owner, held)
  <2>1. ASSUME NEW s \in Sems PROVE RecordsCounts(Now, s)
    <3>1. \A t \in Tasks : ~(Now.counts[s][t] > 0)
      BY <1>1, NowFields
    <3> QED BY <1>10, <3>1 DEF RecordsCounts
  <2>2. \A s \in Mutexes : MutexAgrees(Now, s, owner[s])
    BY <1>10, Kinds DEF MutexAgrees
  <2>3. \A s \in Counters : Now.counts[s] = held[s]
    BY <1>1, NowFields, Kinds
  <2> QED BY <2>1, <2>2, <2>3 DEF Agree
<1>13. Ledger(Now, count, held)
  <2> SUFFICES ASSUME NEW s \in Counters
               PROVE  Balanced(count[s], held[s], Cardinality(Waiters(Now, s)))
    BY DEF Ledger
  <2>1. Cardinality(Waiters(Now, s)) = 0
    BY <1>10, FS_EmptySet, Kinds
  <2>2. Total(held[s]) = 0
    <3>1. held[s] \in [Tasks -> Nat] /\ \A t \in Tasks : held[s][t] = 0
      BY <1>1
    <3> QED BY <1>2, <3>1, TotalNat
  <2>3. count[s] = Units
    BY <1>1
  <2>4. Units + 0 + 0 = Units /\ Units >= 0
    BY <1>2
  <2> QED BY <2>1, <2>2, <2>3, <2>4 DEF Balanced
<1>14. Owned(Now, owner)
  BY <1>10, Kinds DEF Owned
<1>15. Above(Now.prio)
  <2>1. \A t \in Tasks : Base[t] <= Base[t]
    BY <1>2
  <2> QED BY <1>1, <2>1, NowFields DEF Above
<1>16. \A t \in Tasks : \A s \in Sems : ~HoldsIn(owner, held, t, s)
  <2> SUFFICES ASSUME NEW t \in Tasks, NEW s \in Sems PROVE ~HoldsIn(owner, held, t, s)
    OBVIOUS
  <2>1. CASE s \in Mutexes
    BY <1>1, <2>1, HoldsIs, Kinds
  <2>2. CASE s \in Counters
    <3>1. ~(held[s][t] > 0)
      BY <1>1, <2>2
    <3> QED BY <2>2, <3>1, HoldsIs
  <2> QED BY <2>1, <2>2, Kinds
<1>17. Single(use, owner, waitobj, held)
  BY <1>16 DEF Single
<1>18. NoInversion(Now, use, owner, held)
  BY <1>16 DEF NoInversion
<1>19. Raised(Now, use)
  BY <1>1, NowFields DEF Raised
<1> QED BY <1>3, <1>9, <1>11, <1>12, <1>13, <1>14, <1>15, <1>17, <1>18, <1>19
        DEF IInv, Good, Shape

(* A count of s goes to t, in WaitTakes and in TrywaitTakes.               *)
LEMMA CountGoes ==
    ASSUME IInv, NEW t \in Tasks, NEW s \in Counters, count[s] > 0, waitobj[t] = None,
           MayTake(use, owner, held, t),
           count' = [count EXCEPT ![s] = @ - 1],
           held' = [held EXCEPT ![s][t] = @ + 1],
           Become(AddHolder(Now, t, s)), UNCHANGED <<use, owner, waitobj>>
    PROVE  IInv'
<1>1. /\ Good(Now, use, owner, count, waitobj, held) /\ Lists(Now)
      /\ count \in [Counters -> Int] /\ held \in [Counters -> [Tasks -> Nat]]
  BY GoodParts
<1>2. PICK r : r = AddHolder(Now, t, s)
  OBVIOUS
<1>3. PICK c : c = count'
  OBVIOUS
<1>4. PICK h : h = held'
  OBVIOUS
<1>5. c \in [Counters -> Int] /\ Put(count, c, Counters, s, count[s] - 1)
  BY <1>1, <1>3 DEF Put
<1>6. h \in [Counters -> [Tasks -> Nat]]
  BY <1>1, <1>4
<1>7. Put(held, h, Counters, s, Row(held[s], t, held[s][t] + 1))
  BY <1>1, <1>4 DEF Put, Row
<1>8. Good(r, use, owner, c, waitobj, h)
  BY <1>1, <1>2, <1>5, <1>6, <1>7, CounterTaken
<1>9. Now' = r
  <2>1. Lists(r)
    BY <1>8 DEF Good, Shape
  <2> QED BY <1>2, <2>1, NowBecomes
<1> QED BY <1>3, <1>4, <1>8, <1>9 DEF IInv

LEMMA WaitTakesGood ==
    ASSUME IInv, NEW t \in Tasks, NEW s \in Sems, WaitTakes(t, s)
    PROVE  IInv'
<1>1. waitobj[t] = None /\ MayTake(use, owner, held, t)
  BY BlockRules DEF WaitTakes
<1>2. CASE /\ s \in Mutexes /\ owner[s] = None
           /\ owner' = [owner EXCEPT ![s] = t]
           /\ UNCHANGED <<count, held>> /\ Become(Now)
  <2>1. /\ Good(Now, use, owner, count, waitobj, held) /\ Lists(Now)
        /\ owner \in [Mutexes -> Tasks \cup {None}]
    BY GoodParts
  <2>2. PICK o : o = owner'
    OBVIOUS
  <2>3. o \in [Mutexes -> Tasks \cup {None}] /\ Put(owner, o, Mutexes, s, t)
    BY <1>2, <2>1, <2>2 DEF Put
  <2>4. Good(Now, use, o, count, waitobj, held)
    BY <1>1, <1>2, <2>1, <2>3, MutexTaken
  <2>5. Now' = Now
    BY <1>2, <2>1, NowBecomes
  <2>6. use' = use /\ waitobj' = waitobj /\ count' = count /\ held' = held
    BY <1>2 DEF WaitTakes
  <2> QED BY <2>2, <2>4, <2>5, <2>6 DEF IInv
<1>3. CASE /\ s \in Counters /\ count[s] > 0
           /\ count' = [count EXCEPT ![s] = @ - 1]
           /\ held' = [held EXCEPT ![s][t] = @ + 1]
           /\ Become(AddHolder(Now, t, s)) /\ UNCHANGED owner
  <2>1. UNCHANGED <<use, owner, waitobj>>
    BY <1>3 DEF WaitTakes
  <2> QED BY <1>1, <1>3, <2>1, CountGoes
<1> QED BY <1>2, <1>3 DEF WaitTakes

LEMMA TrywaitTakesGood ==
    ASSUME IInv, NEW t \in Tasks, NEW s \in Sems, TrywaitTakes(t, s)
    PROVE  IInv'
<1>1. /\ waitobj[t] = None /\ use.nested /\ s \in Counters /\ count[s] > 0
      /\ count' = [count EXCEPT ![s] = @ - 1]
      /\ held' = [held EXCEPT ![s][t] = @ + 1]
      /\ Become(AddHolder(Now, t, s)) /\ UNCHANGED <<use, owner, waitobj>>
  BY DEF TrywaitTakes
<1>2. MayTake(use, owner, held, t)
  BY <1>1 DEF MayTake
<1> QED BY <1>1, <1>2, CountGoes

LEMMA WaitBlocksGood ==
    ASSUME IInv, NEW t \in Tasks, NEW s \in Sems, WaitBlocks(t, s)
    PROVE  IInv'
<1>1. /\ Good(Now, use, owner, count, waitobj, held)
      /\ count \in [Counters -> Int] /\ waitobj \in [Tasks -> Sems \cup {None}]
  BY GoodParts
<1>2. /\ waitobj[t] = None /\ MayTake(use, owner, held, t)
      /\ ~HoldsIn(owner, held, t, s)
  BY BlockRules DEF WaitBlocks
<1>3. PICK p : p = Prepared(Now, owner, s)
  OBVIOUS
<1>4. PICK b : b = BoostPriority(p, t, s)
  OBVIOUS
<1>5. PICK r : r = Queued(b, t, s)
  OBVIOUS
<1>6. /\ Become(r)
      /\ waitobj' = [waitobj EXCEPT ![t] = s] /\ UNCHANGED <<use, owner, held>>
      /\ \/ s \in Mutexes /\ owner[s] # None /\ UNCHANGED count
         \/ /\ s \in Counters /\ count[s] <= 0
            /\ count' = [count EXCEPT ![s] = @ - 1]
  BY <1>3, <1>4, <1>5, Zenon DEF WaitBlocks, Prepared, Queued
<1>7. PICK c : c = count'
  OBVIOUS
<1>8. PICK w : w = waitobj'
  OBVIOUS
<1>9. w \in [Tasks -> Sems \cup {None}] /\ Put(waitobj, w, Tasks, t, s)
  BY <1>1, <1>6, <1>8 DEF Put
<1>10. /\ s \in Mutexes => owner[s] # None /\ c = count
       /\ s \in Counters => count[s] <= 0 /\ Put(count, c, Counters, s, count[s] - 1)
       /\ c \in [Counters -> Int]
  <2>1. CASE s \in Mutexes
    <3>1. owner[s] # None /\ c = count
      BY <1>6, <1>7, <2>1, Kinds
    <3> QED BY <1>1, <2>1, <3>1, Kinds
  <2>2. CASE s \in Counters
    <3>1. count[s] <= 0 /\ c = [count EXCEPT ![s] = @ - 1]
      BY <1>6, <1>7, <2>2, Kinds
    <3>2. c \in [Counters -> Int] /\ Put(count, c, Counters, s, count[s] - 1)
      BY <1>1, <2>2, <3>1 DEF Put
    <3> QED BY <2>2, <3>1, <3>2, Kinds
  <2> QED BY <2>1, <2>2, Kinds
<1>11. Good(r, use, owner, c, w, held)
  BY <1>1, <1>2, <1>3, <1>4, <1>5, <1>9, <1>10, TaskBlocked
<1>12. Now' = r
  <2>1. Lists(r)
    BY <1>11 DEF Good, Shape
  <2> QED BY <1>6, <2>1, NowBecomes
<1>13. use' = use /\ owner' = owner /\ held' = held
  BY <1>6
<1> QED BY <1>7, <1>8, <1>11, <1>12, <1>13 DEF IInv

LEMMA WaitIrqGood ==
    ASSUME IInv, NEW t \in Tasks, WaitIrq(t)
    PROVE  IInv'
<1>1. /\ Good(Now, use, owner, count, waitobj, held) /\ use \in Uses
      /\ count \in [Counters -> Int] /\ waitobj \in [Tasks -> Sems \cup {None}]
  BY GoodParts
<1>2. PICK s : s = waitobj[t]
  OBVIOUS
<1>3. PICK x : x = Canceled(Now, s)
  OBVIOUS
<1>4. PICK r : r = Dequeued(x, t, s)
  OBVIOUS
<1>5. /\ s \in use.timed /\ Become(r)
      /\ waitobj' = [waitobj EXCEPT ![t] = None]
      /\ count' = IF s \in Counters THEN [count EXCEPT ![s] = @ + 1] ELSE count
      /\ UNCHANGED <<use, owner, held>>
  BY <1>2, <1>3, <1>4, Zenon DEF WaitIrq, Dequeued
<1>6. s \in Sems
  BY <1>1, <1>5, InheritConstants
<1>7. PICK c : c = count'
  OBVIOUS
<1>8. PICK w : w = waitobj'
  OBVIOUS
<1>9. w \in [Tasks -> Sems \cup {None}] /\ Put(waitobj, w, Tasks, t, None)
  BY <1>1, <1>5, <1>8 DEF Put
<1>10. /\ s \in Mutexes => c = count
       /\ s \in Counters => Put(count, c, Counters, s, count[s] + 1)
       /\ c \in [Counters -> Int]
  <2>1. CASE s \in Mutexes
    BY <1>1, <1>5, <1>7, <2>1, Kinds
  <2>2. CASE s \in Counters
    <3>1. c = [count EXCEPT ![s] = @ + 1]
      BY <1>5, <1>7, <2>2
    <3>2. c \in [Counters -> Int] /\ Put(count, c, Counters, s, count[s] + 1)
      BY <1>1, <2>2, <3>1 DEF Put
    <3> QED BY <2>2, <3>2, Kinds
  <2> QED BY <1>6, <2>1, <2>2, Kinds
<1>11. Good(r, use, owner, c, w, held)
  BY <1>1, <1>2, <1>3, <1>4, <1>5, <1>6, <1>9, <1>10, WaitEnded
<1>12. Now' = r
  <2>1. Lists(r)
    BY <1>11 DEF Good, Shape
  <2> QED BY <1>5, <2>1, NowBecomes
<1>13. use' = use /\ owner' = owner /\ held' = held
  BY <1>5
<1> QED BY <1>7, <1>8, <1>11, <1>12, <1>13 DEF IInv

-----------------------------------------------------------------------------
(* Post: the lists it hands to nxsem_restore_baseprio(), and the new row   *)
(* of a counting semaphore.                                                *)

PostRow(h, t, woken, w) ==
    [u \in Tasks |-> h[u] - (IF u = t THEN 1 ELSE 0)
                          + (IF woken /\ u = w THEN 1 ELSE 0)]

LEMMA RowHandedOver ==
    ASSUME NEW h \in [Tasks -> Nat], NEW t \in Tasks, NEW w \in Tasks, t # w, h[t] > 0,
           NEW row, row = PostRow(h, t, TRUE, w)
    PROVE  RowMoves(h, row, t, w)
<1>1. PICK m \in Nat : m = h[t] - 1
  OBVIOUS
<1>2. PICK a : a = Row(h, t, m)
  OBVIOUS
<1>3. RowIs(h, a, t, m)
  BY <1>2, RowFacts
<1>4. /\ a \in [Tasks -> Nat] /\ a[t] = m /\ \A v \in Tasks \ {t} : a[v] = h[v]
      /\ Total(h) \in Nat /\ Total(a) \in Nat /\ Total(a) = Total(h) - h[t] + m
  BY <1>3 DEF RowIs
<1>5. PICK n \in Nat : n = h[w] + 1
  OBVIOUS
<1>6. PICK b : b = Row(a, w, n)
  OBVIOUS
<1>7. RowIs(a, b, w, n)
  BY <1>4, <1>6, RowFacts
<1>8. /\ b \in [Tasks -> Nat] /\ b[w] = n /\ \A v \in Tasks \ {w} : b[v] = a[v]
      /\ Total(b) \in Nat /\ Total(b) = Total(a) - a[w] + n
  BY <1>7 DEF RowIs
<1>9. b = row
  <2>1. \A v \in Tasks : b[v] = h[v] - (IF v = t THEN 1 ELSE 0) + (IF v = w THEN 1 ELSE 0)
    BY <1>1, <1>4, <1>5, <1>8
  <2>2. row = [v \in Tasks |-> h[v] - (IF v = t THEN 1 ELSE 0) + (IF v = w THEN 1 ELSE 0)]
    BY DEF PostRow
  <2> QED BY <1>8, <2>1, <2>2
<1>10. Total(b) = Total(h)
  <2>1. a[w] = h[w] /\ h[w] \in Nat /\ h[t] \in Nat
    BY <1>4
  <2> QED BY <1>1, <1>4, <1>5, <1>8, <2>1
<1>11. b[t] = h[t] - 1 /\ b[w] = h[w] + 1 /\ \A v \in Tasks \ {t, w} : b[v] = h[v]
  BY <1>1, <1>4, <1>5, <1>8
<1> QED BY <1>8, <1>9, <1>10, <1>11 DEF RowMoves

LEMMA RowGivenBack ==
    ASSUME NEW h \in [Tasks -> Nat], NEW t \in Tasks, NEW w, h[t] > 0
    PROVE  PostRow(h, t, FALSE, w) = Row(h, t, h[t] - 1)
<1>1. PostRow(h, t, FALSE, w) = [u \in Tasks |-> h[u] - (IF u = t THEN 1 ELSE 0) + 0]
  BY DEF PostRow
<1>2. \A u \in Tasks : h[u] - (IF u = t THEN 1 ELSE 0) + 0 = Row(h, t, h[t] - 1)[u]
  BY DEF Row
<1>3. Row(h, t, h[t] - 1) = [u \in Tasks |-> Row(h, t, h[t] - 1)[u]]
  BY DEF Row
<1> QED BY <1>1, <1>2, <1>3

(* The parts of Post(t, s).                                                *)
PostNow(t, s) == Uncounted(Now, t, s)

PostNext(k, t, s, w, woken) ==
    LET k2 == IF woken THEN Popped(k, s) ELSE k
    IN  IF woken /\ s \in Counters THEN AddHolder(k2, w, s) ELSE k2

PostDoes(t, s, w, woken) ==
    /\ waitobj[t] = None /\ Holds(t, s)
    /\ Become(RestoreBaseprio(PostNext(PostNow(t, s), t, s, w, woken), t, woken, s))
    /\ waitobj' = IF woken THEN [waitobj EXCEPT ![w] = None] ELSE waitobj
    /\ owner' = IF s \in Counters THEN owner
                ELSE [owner EXCEPT ![s] = IF woken THEN w ELSE None]
    /\ count' = IF s \in Counters THEN [count EXCEPT ![s] = @ + 1] ELSE count
    /\ held' = IF ~(s \in Counters) THEN held
               ELSE [held EXCEPT ![s] = PostRow(@, t, woken, w)]
    /\ use' = use

LEMMA PostIs ==
    ASSUME NEW t, NEW s, Post(t, s), NEW woken, woken = (wait[s] # <<>>),
           NEW w, w = Head(wait[s])
    PROVE  PostDoes(t, s, w, woken)
<1>1. Now.hhead = hhead
  BY NowFields
<1> QED BY <1>1, Zenon DEF Post, PostNext, PostNow, Uncounted, Popped, PostRow,
                            PostDoes

(* Somebody waits: the semaphore goes to the first waiter.                 *)
LEMMA PostWakesGood ==
    ASSUME IInv, NEW t \in Tasks, NEW s \in Sems, Post(t, s), wait[s] # <<>>
    PROVE  IInv'
<1>1. /\ Good(Now, use, owner, count, waitobj, held)
      /\ Lists(Now) /\ Agree(Now, owner, held) /\ WaitersAgree(Now, waitobj)
      /\ owner \in [Mutexes -> Tasks \cup {None}] /\ count \in [Counters -> Int]
      /\ waitobj \in [Tasks -> Sems \cup {None}] /\ held \in [Counters -> [Tasks -> Nat]]
      /\ use \in Uses /\ Above(Now.prio)
  BY GoodParts DEF Good, Shape
<1>2. PICK w : w = Head(wait[s])
  OBVIOUS
<1>3. TRUE = (wait[s] # <<>>)
  OBVIOUS
<1>4. /\ waitobj[t] = None /\ Holds(t, s)
      /\ Become(RestoreBaseprio(PostNext(PostNow(t, s), t, s, w, TRUE), t, TRUE, s))
      /\ waitobj' = IF TRUE THEN [waitobj EXCEPT ![w] = None] ELSE waitobj
      /\ owner' = IF s \in Counters THEN owner
                  ELSE [owner EXCEPT ![s] = IF TRUE THEN w ELSE None]
      /\ count' = IF s \in Counters THEN [count EXCEPT ![s] = @ + 1] ELSE count
      /\ held' = IF ~(s \in Counters) THEN held
                 ELSE [held EXCEPT ![s] = PostRow(@, t, TRUE, w)]
      /\ use' = use
  <2>1. PostDoes(t, s, w, TRUE)
    BY <1>2, <1>3, PostIs, Zenon
  <2> QED BY <2>1, Zenon DEF PostDoes
<1>5. HoldsIn(owner, held, t, s)
  BY <1>4, HoldsHere
<1>6. Now.wait[s] # <<>> /\ w = Head(Now.wait[s])
  BY <1>2, NowFields
<1>7. w \in Waiters(Now, s) /\ \A v \in Waiters(Now, s) : Now.prio[v] <= Now.prio[w]
  <2>1. PICK r : r = Popped(Now, s)
    OBVIOUS
  <2> QED BY <1>1, <1>6, <2>1, FirstLeaves
<1>8. w \in Tasks /\ w # t
  BY <1>1, <1>4, <1>7, Kinds DEF WaitersAgree
<1>9. PICK o : o = owner'
  OBVIOUS
<1>10. PICK c : c = count'
  OBVIOUS
<1>11. PICK wn : wn = waitobj'
  OBVIOUS
<1>12. PICK h : h = held'
  OBVIOUS
<1>13. wn \in [Tasks -> Sems \cup {None}] /\ Put(waitobj, wn, Tasks, w, None)
  <2>1. wn = [waitobj EXCEPT ![w] = None]
    BY <1>4, <1>11
  <2> QED BY <1>1, <1>8, <2>1 DEF Put
<1>14. /\ o \in [Mutexes -> Tasks \cup {None}] /\ c \in [Counters -> Int]
       /\ h \in [Counters -> [Tasks -> Nat]]
       /\ Hands(owner, count, held, o, c, h, t, w, s)
  <2>1. CASE s \in Mutexes
    <3>1. s \notin Counters
      BY <2>1, Kinds
    <3>2. o = [owner EXCEPT ![s] = w] /\ c = count /\ h = held
      BY <1>4, <1>9, <1>10, <1>12, <3>1
    <3>3. o \in [Mutexes -> Tasks \cup {None}] /\ Put(owner, o, Mutexes, s, w)
      BY <1>1, <1>8, <2>1, <3>2 DEF Put
    <3> QED BY <1>1, <3>1, <3>2, <3>3 DEF Hands
  <2>2. CASE s \in Counters
    <3>1. s \notin Mutexes
      BY <2>2, Kinds
    <3>2. PICK row : row = PostRow(held[s], t, TRUE, w)
      OBVIOUS
    <3>3. o = owner /\ c = [count EXCEPT ![s] = @ + 1] /\ h = [held EXCEPT ![s] = row]
      BY <1>4, <1>9, <1>10, <1>12, <2>2, <3>2
    <3>4. held[s] \in [Tasks -> Nat] /\ held[s][t] > 0
      BY <1>1, <1>5, <2>2, HoldsIs
    <3>5. RowMoves(held[s], row, t, w)
      BY <1>8, <3>2, <3>4, RowHandedOver
    <3>6. row \in [Tasks -> Nat]
      BY <3>5 DEF RowMoves
    <3>7. c \in [Counters -> Int] /\ Put(count, c, Counters, s, count[s] + 1)
      BY <1>1, <2>2, <3>3 DEF Put
    <3>8. /\ h \in [Counters -> [Tasks -> Nat]] /\ h[s] = row
          /\ \A q \in Counters \ {s} : h[q] = held[q]
      BY <1>1, <2>2, <3>3, <3>6
    <3> QED BY <1>1, <3>1, <3>3, <3>5, <3>7, <3>8 DEF Hands
  <2> QED BY <2>1, <2>2, Kinds
<1>15. Scalars(use, o, c, wn, h)
  BY <1>1, <1>13, <1>14 DEF Scalars
<1>16. PICK a : a = PostNow(t, s)
  OBVIOUS
<1>17. PICK p : p = PostNext(a, t, s, w, TRUE)
  OBVIOUS
<1>18. a = Uncounted(Now, t, s)
  BY <1>16 DEF PostNow
<1>19. Passes(Now, p, w, s, h)
  <2>1. CASE s \in Mutexes
    <3>1. s \notin Counters
      BY <2>1, Kinds
    <3>2. p = Popped(a, s)
      BY <1>17, <3>1 DEF PostNext
    <3> QED BY <1>1, <1>6, <1>18, <2>1, <3>2, MutexPasses
  <2>2. CASE s \in Counters
    <3>1. PICK b : b = Popped(a, s)
      OBVIOUS
    <3>2. p = AddHolder(b, w, s)
      BY <1>17, <2>2, <3>1 DEF PostNext
    <3>3. held[s][t] > 0
      BY <1>5, <2>2, HoldsIs
    <3>4. RowMoves(held[s], h[s], t, w)
      BY <1>14, <2>2 DEF Hands
    <3> QED BY <1>1, <1>6, <1>8, <1>18, <2>2, <3>1, <3>2, <3>3, <3>4, CounterPasses
  <2> QED BY <2>1, <2>2, Kinds
<1>20. PICK x : x = RestoreBaseprio(p, t, TRUE, s)
  OBVIOUS
<1>21. Restoring(p, s, Recorded(p, s), x)
  <2>1. Lists(p) /\ Above(p.prio)
    BY <1>1, <1>19 DEF Passes
  <2> QED BY <1>20, <2>1, BaseprioRestored
<1>22. Good(x, use, o, c, wn, h)
  BY <1>1, <1>4, <1>5, <1>7, <1>13, <1>14, <1>15, <1>19, <1>21, PostWakes
<1>23. Now' = x
  <2>1. Lists(x)
    BY <1>22 DEF Good, Shape
  <2>2. Become(x)
    BY <1>4, <1>16, <1>17, <1>20
  <2> QED BY <2>1, <2>2, NowBecomes
<1>24. use' = use
  BY <1>4
<1> QED BY <1>9, <1>10, <1>11, <1>12, <1>22, <1>23, <1>24 DEF IInv

(* Nobody waits.                                                           *)
LEMMA PostFreesGood ==
    ASSUME IInv, NEW t \in Tasks, NEW s \in Sems, Post(t, s), wait[s] = <<>>
    PROVE  IInv'
<1>1. /\ Good(Now, use, owner, count, waitobj, held)
      /\ owner \in [Mutexes -> Tasks \cup {None}] /\ count \in [Counters -> Int]
      /\ waitobj \in [Tasks -> Sems \cup {None}] /\ held \in [Counters -> [Tasks -> Nat]]
      /\ use \in Uses
  BY GoodParts
<1>2. PICK w : w = Head(wait[s])
  OBVIOUS
<1>3. FALSE = (wait[s] # <<>>)
  OBVIOUS
<1>4. /\ waitobj[t] = None /\ Holds(t, s)
      /\ Become(RestoreBaseprio(PostNext(PostNow(t, s), t, s, w, FALSE), t, FALSE, s))
      /\ waitobj' = IF FALSE THEN [waitobj EXCEPT ![w] = None] ELSE waitobj
      /\ owner' = IF s \in Counters THEN owner
                  ELSE [owner EXCEPT ![s] = IF FALSE THEN w ELSE None]
      /\ count' = IF s \in Counters THEN [count EXCEPT ![s] = @ + 1] ELSE count
      /\ held' = IF ~(s \in Counters) THEN held
                 ELSE [held EXCEPT ![s] = PostRow(@, t, FALSE, w)]
      /\ use' = use
  <2>1. PostDoes(t, s, w, FALSE)
    BY <1>2, <1>3, PostIs, Zenon
  <2> QED BY <2>1, Zenon DEF PostDoes
<1>5. HoldsIn(owner, held, t, s)
  BY <1>4, HoldsHere
<1>6. Now.wait[s] = <<>>
  BY NowFields
<1>7. PICK a : a = Uncounted(Now, t, s)
  OBVIOUS
<1>8. PICK r : r = Frees(a, s)
  OBVIOUS
<1>9. Become(r)
  <2>1. PostNext(PostNow(t, s), t, s, w, FALSE) = a
    BY <1>7 DEF PostNext, PostNow
  <2>2. RestoreBaseprio(a, t, FALSE, s) = r
    BY <1>8, NobodyWoken
  <2> QED BY <1>4, <2>1, <2>2
<1>10. waitobj' = waitobj /\ use' = use
  BY <1>4
<1>11. CASE s \in Mutexes
  <2>1. s \notin Counters
    BY <1>11, Kinds
  <2>2. PICK o : o = owner'
    OBVIOUS
  <2>3. o = [owner EXCEPT ![s] = None] /\ count' = count /\ held' = held
    BY <1>4, <2>1, <2>2
  <2>4. o \in [Mutexes -> Tasks \cup {None}] /\ Put(owner, o, Mutexes, s, None)
    BY <1>1, <1>11, <2>3 DEF Put
  <2>5. Scalars(use, o, count, waitobj, held)
    BY <1>1, <2>4 DEF Scalars
  <2>6. owner[s] = t
    BY <1>5, <1>11, HoldsIs
  <2>7. Good(r, use, o, count, waitobj, held)
    BY <1>1, <1>6, <1>7, <1>8, <1>11, <2>4, <2>5, <2>6, MutexReleased
  <2>8. Now' = r
    <3>1. Lists(r)
      BY <2>7 DEF Good, Shape
    <3> QED BY <1>9, <3>1, NowBecomes
  <2> QED BY <1>10, <2>2, <2>3, <2>7, <2>8 DEF IInv
<1>12. CASE s \in Counters
  <2>1. PICK c : c = count'
    OBVIOUS
  <2>2. PICK h : h = held'
    OBVIOUS
  <2>3. held[s] \in [Tasks -> Nat] /\ held[s][t] > 0 /\ held[s][t] \in Nat
    BY <1>1, <1>5, <1>12, HoldsIs
  <2>4. PICK row : row = Row(held[s], t, held[s][t] - 1)
    OBVIOUS
  <2>5. row \in [Tasks -> Nat]
    BY <2>3, <2>4 DEF Row
  <2>6. PostRow(held[s], t, FALSE, w) = row
    BY <2>3, <2>4, RowGivenBack
  <2>7. owner' = owner /\ c = [count EXCEPT ![s] = @ + 1] /\ h = [held EXCEPT ![s] = row]
    BY <1>4, <1>12, <2>1, <2>2, <2>6
  <2>8. c \in [Counters -> Int] /\ Put(count, c, Counters, s, count[s] + 1)
    BY <1>1, <1>12, <2>7 DEF Put
  <2>9. h \in [Counters -> [Tasks -> Nat]] /\ Put(held, h, Counters, s, row)
    BY <1>1, <1>12, <2>5, <2>7 DEF Put
  <2>10. Put(held, h, Counters, s, Row(held[s], t, held[s][t] - 1))
    BY <2>4, <2>9
  <2>11. Scalars(use, owner, c, waitobj, h)
    BY <1>1, <2>8, <2>9 DEF Scalars
  <2>12. Good(r, use, owner, c, waitobj, h)
    BY <1>1, <1>6, <1>7, <1>8, <1>12, <2>3, <2>8, <2>10, <2>11, CounterReleased
  <2>13. Now' = r
    <3>1. Lists(r)
      BY <2>12 DEF Good, Shape
    <3> QED BY <1>9, <3>1, NowBecomes
  <2> QED BY <1>10, <2>1, <2>2, <2>7, <2>12, <2>13 DEF IInv
<1> QED BY <1>11, <1>12, Kinds

-----------------------------------------------------------------------------
(* The theorems.                                                           *)

(* The inductive invariant: who holds, who is recorded and who waits       *)
(* agree, no count is lost, and every raised priority has a waiter, in     *)
(* each state the functions of sem_holder.c can come to.                   *)
THEOREM InheritInductive == Spec => []IInv
<1>1. Init => IInv
  BY InitGood
<1>2. IInv /\ [Next]_vars => IInv'
  <2> SUFFICES ASSUME IInv, [Next]_vars PROVE IInv'
    OBVIOUS
  <2>1. ASSUME NEW t \in Tasks, WaitIrq(t) PROVE IInv'
    BY <2>1, WaitIrqGood
  <2>2. ASSUME NEW t \in Tasks, NEW s \in Sems, WaitTakes(t, s) PROVE IInv'
    BY <2>2, WaitTakesGood
  <2>3. ASSUME NEW t \in Tasks, NEW s \in Sems, WaitBlocks(t, s) PROVE IInv'
    BY <2>3, WaitBlocksGood
  <2>4. ASSUME NEW t \in Tasks, NEW s \in Sems, TrywaitTakes(t, s) PROVE IInv'
    BY <2>4, TrywaitTakesGood
  <2>5. ASSUME NEW t \in Tasks, NEW s \in Sems, Post(t, s) PROVE IInv'
    BY <2>5, PostWakesGood, PostFreesGood
  <2>6. CASE UNCHANGED vars
    BY <2>6 DEF vars, IInv, Now
  <2> QED BY <2>1, <2>2, <2>3, <2>4, <2>5, <2>6 DEF Next
<1> QED BY <1>1, <1>2, PTL DEF Spec

(* Who holds and who is recorded agree (HoldersAgree), whoever blocks,     *)
(* times out, posts or is handed the semaphore.                            *)
THEOREM InheritHoldersAgree == Spec => []HoldersAgree
<1>1. IInv => HoldersAgree
  <2> SUFFICES ASSUME IInv PROVE HoldersAgree
    OBVIOUS
  <2>1. /\ Lists(Now) /\ Agree(Now, owner, held) /\ WaitersAgree(Now, waitobj)
        /\ Ledger(Now, count, held) /\ use \in Uses
        /\ owner \in [Mutexes -> Tasks \cup {None}] /\ count \in [Counters -> Int]
        /\ waitobj \in [Tasks -> Sems \cup {None}] /\ held \in [Counters -> [Tasks -> Nat]]
    BY GoodParts DEF IInv, Good, Shape
  <2>2. /\ wait \in [Sems -> Seq(Tasks)] /\ hhead \in [Sems -> Seq(Tasks)]
        /\ counts \in [Sems -> [Tasks -> Nat]] /\ prio \in [Tasks -> Nat]
    BY <2>1, NowFields DEF Lists
  <2>3. ASSUME NEW s \in Sems
        PROVE  /\ NoDuplicates(wait[s]) /\ IsPrioritized(wait[s], prio) /\ NoDuplicates(hhead[s])
               /\ ToSet(wait[s]) = {t \in Tasks : waitobj[t] = s}
    BY <2>1, NowFields DEF Lists, WaitersAgree, Waiters
  <2>4. held \in [Counters -> [Tasks -> 0 .. Units]]
    <3>1. ASSUME NEW s \in Counters PROVE held[s] \in [Tasks -> 0 .. Units]
      <4>1. /\ count[s] \in Int /\ held[s] \in [Tasks -> Nat]
            /\ Balanced(count[s], held[s], Cardinality(Waiters(Now, s)))
        BY <2>1 DEF Ledger
      <4>2. Cardinality(Waiters(Now, s)) \in Nat
        BY <2>1, WaitersFinite, Kinds
      <4>3. \A t \in Tasks : held[s][t] \in 0 .. Units
        BY <4>1, <4>2, BalancedBound
      <4> QED BY <4>1, <4>3
    <3> QED BY <2>1, <3>1
  <2>5. TypeOK
    BY <2>1, <2>2, <2>3, <2>4 DEF TypeOK
  <2>6. ASSUME NEW s \in Sems PROVE ToSet(hhead[s]) = {t \in Tasks : counts[s][t] > 0}
    BY <2>1, NowFields DEF Agree, RecordsCounts, Recorded
  <2>7. ASSUME NEW s \in Mutexes
        PROVE  ToSet(hhead[s]) \subseteq {owner[s]} /\ (hhead[s] # <<>> => wait[s] # <<>>)
    <3>1. s \in Sems /\ MutexAgrees(Now, s, owner[s])
      BY <2>1, Kinds DEF Agree
    <3>2. ToSet(hhead[s]) \subseteq {owner[s]} /\ (ToSet(hhead[s]) # {} => ToSet(wait[s]) # {})
      BY <3>1, NowFields DEF MutexAgrees, Recorded, Waiters
    <3>3. hhead[s] \in Seq(Tasks) /\ wait[s] \in Seq(Tasks)
      BY <2>2, <3>1
    <3> QED BY <3>2, <3>3, ToSetEmpty
  <2>8. ASSUME NEW s \in Counters PROVE counts[s] = held[s]
    BY <2>1, NowFields DEF Agree
  <2>9. ASSUME NEW s \in Sems
        PROVE  IF s \in Mutexes
                 THEN /\ ToSet(hhead[s]) \subseteq {owner[s]}
                      /\ hhead[s] # <<>> => wait[s] # <<>>
                 ELSE counts[s] = held[s]
    BY <2>7, <2>8, Kinds
  <2> QED BY <2>3, <2>5, <2>6, <2>9 DEF HoldersAgree
<1> QED BY <1>1, InheritInductive, PTL

(* No priority inversion (Boosted): a holder has at least the priority of  *)
(* each waiter, when tasks do not block while they hold another semaphore  *)
(* and the wait for a mutex does not time out; also when counting          *)
(* semaphores have several holders and waits for them time out.            *)
THEOREM InheritBoosted == Spec => []Boosted
<1>1. IInv => Boosted
  <2> SUFFICES ASSUME IInv, ~use.nested, NEW w \in Tasks, NEW h \in Tasks,
                      NEW s \in Sems \ (Mutexes \cap use.timed), Inverted(w, h, s)
               PROVE  FALSE
    BY DEF Boosted
  <2>1. /\ NoInversion(Now, use, owner, held) /\ WaitersAgree(Now, waitobj) /\ Lists(Now)
    BY GoodParts DEF IInv, Good
  <2>2. waitobj[w] = s /\ Holds(h, s) /\ prio[h] < prio[w]
    BY DEF Inverted
  <2>3. w \in Waiters(Now, s) /\ HoldsIn(owner, held, h, s)
    BY <2>1, <2>2, HoldsHere DEF WaitersAgree
  <2>4. prio[w] <= prio[h]
    BY <2>1, <2>3, NowFields DEF NoInversion
  <2>5. prio[w] \in Nat /\ prio[h] \in Nat
    BY <2>1, NowFields DEF Lists
  <2> QED BY <2>2, <2>4, <2>5
<1> QED BY <1>1, InheritInductive, PTL

(* A raised priority is given back (Restored): no task keeps a priority    *)
(* that nobody waiting for it justifies, unless a wait for a counting      *)
(* semaphore timed out.                                                    *)
THEOREM InheritRestored == Spec => []Restored
<1>1. IInv => Restored
  <2> SUFFICES ASSUME IInv, use.timed \cap Counters = {}, NEW t \in Tasks, prio[t] # Base[t]
               PROVE  /\ prio[t] > Base[t]
                      /\ \E s \in Sems :
                           /\ Holds(t, s)
                           /\ use.nested \/ \E w \in ToSet(wait[s]) : prio[w] = prio[t]
    BY DEF Restored
  <2>1. /\ Raised(Now, use) /\ Above(Now.prio) /\ Lists(Now) /\ Agree(Now, owner, held)
    BY GoodParts DEF IInv, Good, Shape
  <2>2. prio[t] \in Nat /\ Base[t] \in Nat /\ Base[t] <= prio[t]
    BY <2>1, NowFields, InheritConstants DEF Lists, Above
  <2>3. PICK s \in Sems : RaisedBy(Now, use, t, s)
    BY <2>1, NowFields DEF Raised
  <2>4. t \in Recorded(Now, s)
    BY <2>3 DEF RaisedBy
  <2>5. Holds(t, s)
    BY <2>1, <2>4, RecordedHolds, HoldsHere
  <2>6. use.nested \/ \E w \in ToSet(wait[s]) : prio[w] = prio[t]
    BY <2>3, NowFields DEF RaisedBy, Waiters
  <2>7. prio[t] > Base[t]
    BY <2>2
  <2> QED BY <2>5, <2>6, <2>7
<1> QED BY <1>1, InheritInductive, PTL

(* The structures a semaphore may need: one for the owner of a mutex, and  *)
(* for a counting semaphore as many as there are counts to take.           *)
Demand == [s \in Sems |-> IF s \in Mutexes THEN 1 ELSE Units]

(* The pool of holder structures lasts (PoolSuffices): with a structure    *)
(* for each mutex and each count of the counting semaphores,               *)
(* nxsem_allocholder() does not come to its PANIC(), in whatever order     *)
(* tasks take, wait, time out and post.                                    *)
THEOREM InheritPoolSuffices ==
    ASSUME Total(Demand) <= NHolders
    PROVE  Spec => []PoolSuffices
<1>1. IInv => PoolSuffices
  <2> SUFFICES ASSUME IInv PROVE PoolSuffices
    OBVIOUS
  <2>1. /\ Lists(Now) /\ Agree(Now, owner, held) /\ Ledger(Now, count, held)
        /\ count \in [Counters -> Int] /\ held \in [Counters -> [Tasks -> Nat]]
    BY GoodParts DEF IInv, Good, Shape
  <2>2. ASSUME NEW s \in Sems
        PROVE  /\ hhead[s] \in Seq(Tasks) /\ NoDuplicates(hhead[s])
               /\ ToSet(hhead[s]) = Recorded(Now, s)
    BY <2>1, NowFields DEF Lists, Recorded
  <2>3. PICK f : f = [s \in Sems |-> Len(hhead[s])]
    OBVIOUS
  <2>4. \A s \in Sems : f[s] \in Nat /\ f[s] = Cardinality(Recorded(Now, s))
    BY <2>2, <2>3, LenIsCardinality
  <2>5. f \in [Sems -> Nat] /\ Demand \in [Sems -> Nat]
    BY <2>3, <2>4, InheritConstants DEF Demand
  <2>6. ASSUME NEW s \in Mutexes PROVE f[s] <= Demand[s]
    <3>1. s \in Sems /\ MutexAgrees(Now, s, owner[s])
      BY <2>1, Kinds DEF Agree
    <3>2. Recorded(Now, s) \subseteq {owner[s]}
      BY <3>1 DEF MutexAgrees
    <3>3. IsFiniteSet({owner[s]}) /\ Cardinality({owner[s]}) = 1
      BY FS_Singleton
    <3>4. Cardinality(Recorded(Now, s)) <= 1
      BY <3>2, <3>3, FS_Subset
    <3> QED BY <2>4, <3>1, <3>4 DEF Demand
  <2>7. ASSUME NEW s \in Counters PROVE f[s] <= Demand[s]
    <3>1. s \in Sems /\ s \notin Mutexes
      BY Kinds
    <3>2. Recorded(Now, s) = {t \in Tasks : held[s][t] > 0}
      BY <2>1, <3>1 DEF Agree, RecordsCounts
    <3>3. /\ count[s] \in Int /\ held[s] \in [Tasks -> Nat]
          /\ Balanced(count[s], held[s], Cardinality(Waiters(Now, s)))
          /\ Cardinality(Waiters(Now, s)) \in Nat
      BY <2>1, <3>1, WaitersFinite DEF Ledger
    <3>4. Cardinality({t \in Tasks : held[s][t] > 0}) <= Total(held[s])
      BY <3>3, TotalCounts, InheritConstants
    <3>5. PICK m \in Nat : m = Total(held[s])
      BY <3>3, TotalNat, InheritConstants
    <3>6. m <= Units
      BY <3>3, <3>5, InheritConstants DEF Balanced
    <3>7. f[s] <= m
      BY <2>4, <3>1, <3>2, <3>4, <3>5
    <3> QED BY <2>4, <3>1, <3>6, <3>7, InheritConstants DEF Demand
  <2>8. \A s \in Sems : f[s] <= Demand[s]
    BY <2>6, <2>7, Kinds
  <2>9. Total(f) <= Total(Demand)
    BY <2>5, <2>8, TotalBelow, InheritConstants
  <2>10. Total(f) \in Nat /\ Total(Demand) \in Nat /\ NHolders \in Nat
    BY <2>5, TotalNat, InheritConstants
  <2>11. Total(f) <= NHolders
    BY <2>9, <2>10
  <2>12. DOMAIN f = Sems
    BY <2>3
  <2>13. Total(f) = FoldFunctionOnSet(LAMBDA a, b : a + b, 0, f, Sems)
    BY <2>12, Zenon DEF Total, FoldFunction
  <2> QED BY <2>3, <2>11, <2>13, Zenon DEF PoolSuffices
<1> QED BY <1>1, InheritInductive, PTL
=============================================================================
