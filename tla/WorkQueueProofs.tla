--------------------------- MODULE WorkQueueProofs --------------------------
(***************************************************************************)
(* Proofs about the work queue, for any number of worker threads, clients  *)
(* and works, and any delays.                                              *)
(***************************************************************************)
EXTENDS WorkQueue, PrioListProofs

-----------------------------------------------------------------------------
(* The lists.                                                              *)

(* The pending list is in descending order of this key.                    *)
Key(q) == [w \in Works |-> IF q[w] = Null THEN 0 ELSE -q[w]]

LEMMA KeyType ==
    ASSUME NEW q \in [Works -> Int \cup {Null}]
    PROVE  Key(q) \in [Works -> Int]
BY QueueConstants DEF Key

(* Taking an entry out of a list leaves the first one alone, unless it is  *)
(* that one.                                                               *)
LEMMA DqRemHead ==
    ASSUME NEW S, NEW list \in Seq(S), NEW t \in ToSet(list), NoDuplicates(list)
    PROVE  /\ Len(DqRem(list, t)) = Len(list) - 1
           /\ Head(list) # t => DqRem(list, t) # <<>> /\ Head(DqRem(list, t)) = Head(list)
<1>1. PICK i \in 1 .. Len(list) : i = IndexOf(list, t) /\ list[i] = t
  BY DEF IndexOf, ToSet
<1>2. PICK a : a = SubSeq(list, 1, i - 1)
  OBVIOUS
<1>3. PICK b : b = SubSeq(list, i + 1, Len(list))
  OBVIOUS
<1>4. a \in Seq(S) /\ Len(a) = i - 1 /\ \A j \in 1 .. i - 1 : a[j] = list[j]
  BY <1>2, SubSeqProperties
<1>5. b \in Seq(S) /\ Len(b) = Len(list) - i
  BY <1>3, SubSeqProperties
<1>6. DqRem(list, t) = a \o b
  BY <1>1, <1>2, <1>3 DEF DqRem, RemoveAt
<1>7. Len(a \o b) = Len(list) - 1
  BY <1>4, <1>5
<1>8. ASSUME Head(list) # t PROVE a \o b # <<>> /\ Head(a \o b) = Head(list)
  <2>1. i # 1 /\ Len(a) >= 1
    BY <1>1, <1>4, <1>8
  <2>2. (a \o b)[1] = a[1] /\ a[1] = list[1]
    BY <2>1, <1>4, <1>5
  <2> QED BY <2>1, <2>2, <1>4, <1>5, <1>7
<1> QED BY <1>6, <1>7, <1>8

LEMMA UnlinkFacts ==
    ASSUME NEW list \in Seq(Works), NEW w \in Works, NoDuplicates(list)
    PROVE  /\ Unlink(list, w) \in Seq(Works)
           /\ ToSet(Unlink(list, w)) = ToSet(list) \ {w}
           /\ NoDuplicates(Unlink(list, w))
           /\ \A prio : IsPrioritized(list, prio) => IsPrioritized(Unlink(list, w), prio)
           /\ Len(Unlink(list, w)) = IF w \in ToSet(list) THEN Len(list) - 1 ELSE Len(list)
           /\ list # <<>> /\ Head(list) # w =>
                Unlink(list, w) # <<>> /\ Head(Unlink(list, w)) = Head(list)
<1>1. CASE w \in ToSet(list)
  <2>1. Unlink(list, w) = DqRem(list, w)
    BY <1>1 DEF Unlink
  <2>2. /\ DqRem(list, w) \in Seq(Works) /\ ToSet(DqRem(list, w)) = ToSet(list) \ {w}
        /\ NoDuplicates(DqRem(list, w))
    BY <1>1, DqRemFacts
  <2>3. \A prio : IsPrioritized(list, prio) => IsPrioritized(DqRem(list, w), prio)
    BY <1>1, DqRemSorted
  <2>4. /\ Len(DqRem(list, w)) = Len(list) - 1
        /\ Head(list) # w => DqRem(list, w) # <<>> /\ Head(DqRem(list, w)) = Head(list)
    BY <1>1, DqRemHead
  <2> QED BY <1>1, <2>1, <2>2, <2>3, <2>4
<1>2. CASE w \notin ToSet(list)
  <2>1. Unlink(list, w) = list
    BY <1>2 DEF Unlink
  <2> QED BY <1>2, <2>1
<1> QED BY <1>1, <1>2

(* The first entry after an insertion is the new one or the old first one. *)
LEMMA AddPrioritizedHead ==
    ASSUME NEW S, NEW list \in Seq(S), NEW t \in S, NEW prio \in [S -> Int]
    PROVE  \/ Head(AddPrioritized(list, t, prio)) = t
           \/ list # <<>> /\ Head(AddPrioritized(list, t, prio)) = Head(list)
<1>1. PICK i \in 1 .. Len(list) + 1 : i = InsertPos(list, prio, prio[t])
  BY InsertPosFound
<1>2. PICK r : r = AddPrioritized(list, t, prio)
  OBVIOUS
<1>3. r = InsertAt(list, i, t)
  BY <1>1, <1>2 DEF AddPrioritized
<1>4. /\ r \in Seq(S) /\ Len(r) = Len(list) + 1
      /\ \A j \in 1 .. Len(list) + 1 :
           r[j] = IF j < i THEN list[j] ELSE IF j = i THEN t ELSE list[j - 1]
  <2>1. InsertAt(list, i, t) \in Seq(S)
    BY InsertAtFacts
  <2>2. /\ Len(InsertAt(list, i, t)) = Len(list) + 1
        /\ \A j \in 1 .. Len(list) + 1 :
             InsertAt(list, i, t)[j] = IF j < i THEN list[j]
                                       ELSE IF j = i THEN t
                                       ELSE list[j - 1]
    BY InsertAtFacts
  <2> QED BY <1>3, <2>1, <2>2
<1>5. Len(list) \in Nat /\ Head(r) = r[1]
  BY <1>4
<1>6. CASE i = 1
  BY <1>2, <1>4, <1>5, <1>6
<1>7. CASE i # 1
  <2>1. 1 \in 1 .. Len(list) + 1 /\ 1 < i /\ Len(list) >= 1
    BY <1>5, <1>7
  <2>2. r[1] = list[1]
    BY <2>1, <1>4
  <2>3. list # <<>> /\ Head(list) = list[1]
    BY <2>1
  <2> QED BY <1>2, <1>5, <2>2, <2>3
<1> QED BY <1>6, <1>7

(* work_insert_pending(), in the order that the new expirations define.    *)
LEMMA InsertPendingFacts ==
    ASSUME NEW list \in Seq(Works), NEW w \in Works, NEW q \in Int, NoDuplicates(list),
           qtime \in [Works -> Int \cup {Null}],
           w \notin ToSet(list), IsPrioritized(list, Key(qtime)),
           NEW qt, qt = [qtime EXCEPT ![w] = q]
    PROVE  /\ InsertPending(list, w, q) \in Seq(Works)
           /\ InsertPending(list, w, q) # <<>>
           /\ ToSet(InsertPending(list, w, q)) = ToSet(list) \cup {w}
           /\ NoDuplicates(InsertPending(list, w, q))
           /\ IsPrioritized(InsertPending(list, w, q), Key(qt))
           /\ \/ Head(InsertPending(list, w, q)) = w
              \/ list # <<>> /\ Head(InsertPending(list, w, q)) = Head(list)
<1>1. PICK key : key = Key(qt)
  OBVIOUS
<1>2. qt \in [Works -> Int \cup {Null}] /\ key \in [Works -> Int]
  BY <1>1, KeyType
<1>3. key = [x \in Works |-> CASE x = w -> -q
                               [] x # w /\ qtime[x] # Null -> -qtime[x]
                               [] OTHER -> 0]
  BY <1>1, QueueConstants DEF Key
<1>4. PICK r : r = InsertPending(list, w, q)
  OBVIOUS
<1>5. r = AddPrioritized(list, w, key)
  BY <1>3, <1>4 DEF InsertPending
<1>6. IsPrioritized(list, key)
  <2>1. \A x \in ToSet(list) : key[x] = Key(qtime)[x]
    <3>1. ASSUME NEW x \in ToSet(list) PROVE key[x] = Key(qtime)[x]
      <4>1. x \in Works /\ x # w
        BY ToSetIndex
      <4> QED BY <1>1, <4>1 DEF Key
    <3> QED BY <3>1
  <2> QED BY <2>1, SamePriorities
<1>7. IsPrioritized(r, key)
  BY <1>2, <1>5, <1>6, AddPrioritizedSorted
<1>8. /\ r \in Seq(Works) /\ r # <<>> /\ ToSet(r) = ToSet(list) \cup {w}
      /\ NoDuplicates(r)
  <2>1. /\ AddPrioritized(list, w, key) \in Seq(Works)
        /\ AddPrioritized(list, w, key) # <<>>
        /\ ToSet(AddPrioritized(list, w, key)) = ToSet(list) \cup {w}
        /\ NoDuplicates(AddPrioritized(list, w, key))
    BY <1>2, AddPrioritizedFacts
  <2> QED BY <1>5, <2>1
<1>9. Head(r) = w \/ (list # <<>> /\ Head(r) = Head(list))
  <2>1. \/ Head(AddPrioritized(list, w, key)) = w
        \/ list # <<>> /\ Head(AddPrioritized(list, w, key)) = Head(list)
    BY <1>2, AddPrioritizedHead
  <2> QED BY <1>5, <2>1, Zenon
<1> QED BY <1>1, <1>4, <1>7, <1>8, <1>9

LEMMA AppendFacts ==
    ASSUME NEW list \in Seq(Works), NEW w \in Works, NoDuplicates(list), w \notin ToSet(list)
    PROVE  /\ Append(list, w) \in Seq(Works)
           /\ ToSet(Append(list, w)) = ToSet(list) \cup {w}
           /\ NoDuplicates(Append(list, w))
           /\ Len(Append(list, w)) = Len(list) + 1
<1>1. PICK r : r = Append(list, w)
  OBVIOUS
<1>2. /\ r \in Seq(Works) /\ Len(r) = Len(list) + 1
      /\ \A j \in 1 .. Len(list) : r[j] = list[j]
      /\ r[Len(list) + 1] = w
  BY <1>1, AppendProperties
<1>3. /\ Len(list) \in Nat /\ DOMAIN r = 1 .. Len(list) + 1 /\ DOMAIN list = 1 .. Len(list)
      /\ \A j \in 1 .. Len(list) + 1 : j \in 1 .. Len(list) \/ j = Len(list) + 1
  BY <1>2
<1>4. ToSet(r) = ToSet(list) \cup {w}
  BY <1>2, <1>3 DEF ToSet
<1>5. \A j \in 1 .. Len(list) : list[j] # w
  BY <1>3 DEF ToSet
<1>6. NoDuplicates(r)
  BY <1>2, <1>3, <1>5 DEF NoDuplicates
<1> QED BY <1>1, <1>2, <1>4, <1>6

-----------------------------------------------------------------------------
(* The inductive invariant, in parts.                                      *)

ListsInv ==
    /\ pending \in Seq(Works) /\ expired \in Seq(Works)
    /\ timer \in Int \cup {Null}
    /\ qtime \in [Works -> Int \cup {Null}] /\ worker \in [Works -> BOOLEAN]
    /\ NoDuplicates(pending) /\ NoDuplicates(expired)
    /\ ToSet(pending) \cap ToSet(expired) = {}
    /\ \A w \in Works : worker[w] <=> w \in ToSet(pending) \cup ToSet(expired)
    /\ \A w \in ToSet(pending) : qtime[w] \in Int
    /\ IsPrioritized(pending, Key(qtime))

TimerInv ==
    /\ timer # Null /\ ~Exit => pending # <<>> /\ timer = qtime[Head(pending)]
    /\ Exit => pending = <<>> /\ expired = <<>>
    /\ freeing \in {"no", "exit", "join", "freed"} /\ firing \in BOOLEAN
    /\ freeing \in {"join", "freed"} => timer = Null /\ ~firing

(* The units the queue needs: one for every expired work, and one if the   *)
(* timer does not stand for the pending work.                              *)
Demand == Len(expired) + (IF timer = Null /\ pending # <<>> THEN 1 ELSE 0)

(* Work that leaves a list leaves the rest of it in order.                 *)
LEMMA RestFacts ==
    ASSUME ListsInv, NEW w \in Works
    PROVE  /\ Unlink(pending, w) \in Seq(Works)
           /\ ToSet(Unlink(pending, w)) = ToSet(pending) \ {w}
           /\ NoDuplicates(Unlink(pending, w))
           /\ IsPrioritized(Unlink(pending, w), Key(qtime))
           /\ pending # <<>> /\ Head(pending) # w =>
                Unlink(pending, w) # <<>> /\ Head(Unlink(pending, w)) = Head(pending)
           /\ pending = <<>> => Unlink(pending, w) = <<>>
           /\ Unlink(expired, w) \in Seq(Works)
           /\ ToSet(Unlink(expired, w)) = ToSet(expired) \ {w}
           /\ NoDuplicates(Unlink(expired, w))
           /\ Len(Unlink(expired, w)) \in Nat /\ Len(Unlink(expired, w)) <= Len(expired)
<1>1. /\ pending \in Seq(Works) /\ expired \in Seq(Works)
      /\ NoDuplicates(pending) /\ NoDuplicates(expired)
      /\ IsPrioritized(pending, Key(qtime))
  BY DEF ListsInv
<1>2. /\ Unlink(pending, w) \in Seq(Works)
      /\ ToSet(Unlink(pending, w)) = ToSet(pending) \ {w}
      /\ NoDuplicates(Unlink(pending, w))
      /\ IsPrioritized(Unlink(pending, w), Key(qtime))
      /\ pending # <<>> /\ Head(pending) # w =>
           Unlink(pending, w) # <<>> /\ Head(Unlink(pending, w)) = Head(pending)
  BY <1>1, UnlinkFacts
<1>3. /\ Unlink(expired, w) \in Seq(Works)
      /\ ToSet(Unlink(expired, w)) = ToSet(expired) \ {w}
      /\ NoDuplicates(Unlink(expired, w))
      /\ Len(Unlink(expired, w)) = IF w \in ToSet(expired) THEN Len(expired) - 1 ELSE Len(expired)
  BY <1>1, UnlinkFacts
<1>4. pending = <<>> => Unlink(pending, w) = <<>>
  BY DEF Unlink, ToSet
<1>5. Len(Unlink(expired, w)) \in Nat /\ Len(Unlink(expired, w)) <= Len(expired)
  BY <1>1, <1>3
<1> QED BY <1>2, <1>3, <1>4, <1>5

(* The order of works whose expiration does not change.                    *)
LEMMA KeyKept ==
    ASSUME NEW list \in Seq(Works), NEW q, NEW r,
           IsPrioritized(list, Key(q)), \A x \in ToSet(list) : r[x] = q[x]
    PROVE  IsPrioritized(list, Key(r))
<1>1. ASSUME NEW x \in ToSet(list) PROVE Key(r)[x] = Key(q)[x]
  <2>1. x \in Works
    BY ToSetIndex
  <2> QED BY <2>1 DEF Key
<1> QED BY <1>1, SamePriorities

(* work_qqueue() with a delay.                                             *)
LEMMA QueuedLater ==
    ASSUME ListsInv, TimerInv, NEW w \in Works, NEW q \in Int, NEW d, d > 0, ~(d = 0),
           Qqueue(w, q, d)
    PROVE  ListsInv' /\ TimerInv' /\ Demand' <= Demand /\ sem' = sem
<1>1. PICK rest : rest = Unlink(pending, w)
  OBVIOUS
<1>2. PICK new : new = InsertPending(rest, w, q)
  OBVIOUS
<1>3. /\ rest \in Seq(Works) /\ ToSet(rest) = ToSet(pending) \ {w} /\ NoDuplicates(rest)
      /\ IsPrioritized(rest, Key(qtime))
      /\ pending # <<>> /\ Head(pending) # w => rest # <<>> /\ Head(rest) = Head(pending)
      /\ pending = <<>> => rest = <<>>
  BY <1>1, RestFacts
<1>4. /\ expired' = Unlink(expired, w) /\ pending' = new /\ sem' = sem
      /\ qtime' = [qtime EXCEPT ![w] = q] /\ worker' = [worker EXCEPT ![w] = TRUE]
      /\ freeing' = freeing /\ firing' = firing /\ ~Exit
  BY <1>1, <1>2 DEF Qqueue
<1>5. /\ expired' \in Seq(Works) /\ ToSet(expired') = ToSet(expired) \ {w}
      /\ NoDuplicates(expired') /\ Len(expired') \in Nat /\ Len(expired') <= Len(expired)
  BY <1>4, RestFacts
<1>6. /\ new \in Seq(Works) /\ new # <<>> /\ ToSet(new) = ToSet(rest) \cup {w}
      /\ NoDuplicates(new) /\ IsPrioritized(new, Key(qtime'))
      /\ Head(new) = w \/ (rest # <<>> /\ Head(new) = Head(rest))
  <2>1. PICK qt : qt = [qtime EXCEPT ![w] = q]
    OBVIOUS
  <2>2. w \notin ToSet(rest) /\ qtime \in [Works -> Int \cup {Null}]
    BY <1>3 DEF ListsInv
  <2>3. /\ InsertPending(rest, w, q) \in Seq(Works) /\ InsertPending(rest, w, q) # <<>>
        /\ ToSet(InsertPending(rest, w, q)) = ToSet(rest) \cup {w}
        /\ NoDuplicates(InsertPending(rest, w, q))
        /\ IsPrioritized(InsertPending(rest, w, q), Key(qt))
        /\ \/ Head(InsertPending(rest, w, q)) = w
           \/ rest # <<>> /\ Head(InsertPending(rest, w, q)) = Head(rest)
    BY <1>3, <2>1, <2>2, InsertPendingFacts
  <2>4. qtime' = qt
    BY <1>4, <2>1
  <2> QED BY <1>2, <2>3, <2>4
<1>7. rest # <<>> => Head(rest) \in ToSet(pending) /\ Head(rest) # w /\ Head(rest) \in Works
  BY <1>3, TailFacts
<1>8. timer' = IF Head(new) = w THEN q
               ELSE IF pending # <<>> /\ Head(pending) = w THEN qtime[Head(rest)] ELSE timer
  <2>1. IsHead(pending, w) => worker[w]
    BY TailFacts DEF IsHead, ListsInv
  <2>2. CASE IsHead(new, w)
    BY <1>4, <1>1, <1>2, <1>6, <2>2 DEF Qqueue, IsHead, StartTimer
  <2>3. CASE ~IsHead(new, w) /\ IsHead(pending, w)
    BY <1>4, <1>1, <1>2, <1>6, <2>1, <2>3 DEF Qqueue, IsHead, StartTimer, TimerReset
  <2>4. CASE ~IsHead(new, w) /\ ~IsHead(pending, w)
    BY <1>4, <1>1, <1>2, <1>6, <2>4 DEF Qqueue, IsHead
  <2> QED BY <2>2, <2>3, <2>4
<1>9. timer' \in Int \cup {Null} /\ (timer' = Null => timer = Null /\ pending # <<>>)
  BY <1>3, <1>6, <1>7, <1>8, QueueConstants DEF ListsInv
<1>10. timer' # Null => timer' = qtime'[Head(new)]
  <2>1. CASE Head(new) = w
    BY <1>4, <1>8, <2>1 DEF ListsInv
  <2>2. CASE Head(new) # w
    <3>1. Head(new) = Head(rest) /\ qtime'[Head(new)] = qtime[Head(rest)]
      BY <1>4, <1>6, <1>7, <2>2 DEF ListsInv
    <3>2. CASE pending # <<>> /\ Head(pending) = w
      BY <1>8, <2>2, <3>1, <3>2
    <3>3. CASE ~(pending # <<>> /\ Head(pending) = w)
      BY <1>3, <1>4, <1>6, <1>8, <2>2, <3>1, <3>3 DEF TimerInv
    <3> QED BY <3>2, <3>3
  <2> QED BY <2>1, <2>2
<1>11. TimerInv'
  BY <1>4, <1>6, <1>10 DEF TimerInv, Exit
<1>12. /\ qtime' \in [Works -> Int \cup {Null}] /\ worker' \in [Works -> BOOLEAN]
       /\ ToSet(new) \cap ToSet(expired') = {}
       /\ \A x \in ToSet(new) : qtime'[x] \in Int
  BY <1>3, <1>4, <1>5, <1>6 DEF ListsInv
<1>13. ASSUME NEW x \in Works PROVE worker'[x] <=> x \in ToSet(new) \cup ToSet(expired')
  BY <1>3, <1>4, <1>5, <1>6 DEF ListsInv
<1>14. ListsInv'
  BY <1>4, <1>5, <1>6, <1>9, <1>12, <1>13 DEF ListsInv
<1>15. Demand' <= Demand
  <2>1. Len(expired) \in Nat
    BY DEF ListsInv
  <2> QED BY <2>1, <1>5, <1>9 DEF Demand
<1> QED BY <1>4, <1>11, <1>14, <1>15

(* work_qqueue() without delay: the work is expired at once.               *)
LEMMA QueuedNow ==
    ASSUME ListsInv, TimerInv, NEW w \in Works, NEW q \in Int \cup {Null}, NEW d,
           d = 0, ~(d > 0), Qqueue(w, q, d), sem \in Nat
    PROVE  ListsInv' /\ TimerInv' /\ Demand' <= Demand + 1 /\ sem' = sem + 1
<1>1. PICK rest : rest = Unlink(pending, w)
  OBVIOUS
<1>2. PICK late : late = Unlink(expired, w)
  OBVIOUS
<1>3. /\ rest \in Seq(Works) /\ ToSet(rest) = ToSet(pending) \ {w} /\ NoDuplicates(rest)
      /\ IsPrioritized(rest, Key(qtime))
      /\ pending # <<>> /\ Head(pending) # w => rest # <<>> /\ Head(rest) = Head(pending)
      /\ pending = <<>> => rest = <<>>
  BY <1>1, RestFacts
<1>4. /\ pending' = rest /\ expired' = Append(late, w) /\ sem' = sem + 1
      /\ qtime' = [qtime EXCEPT ![w] = q] /\ worker' = [worker EXCEPT ![w] = TRUE]
      /\ freeing' = freeing /\ firing' = firing /\ ~Exit
  BY <1>1, <1>2 DEF Qqueue
<1>5. /\ late \in Seq(Works) /\ ToSet(late) = ToSet(expired) \ {w}
      /\ NoDuplicates(late) /\ Len(late) \in Nat /\ Len(late) <= Len(expired)
  BY <1>2, RestFacts
<1>6. /\ Append(late, w) \in Seq(Works) /\ ToSet(Append(late, w)) = ToSet(late) \cup {w}
      /\ NoDuplicates(Append(late, w)) /\ Len(Append(late, w)) = Len(late) + 1
  BY <1>5, AppendFacts
<1>7. rest # <<>> => Head(rest) \in ToSet(pending) /\ Head(rest) # w /\ Head(rest) \in Works
  BY <1>3, TailFacts
<1>8. timer' = IF pending # <<>> /\ Head(pending) = w
               THEN IF rest = <<>> THEN Null ELSE qtime[Head(rest)]
               ELSE timer
  <2>1. IsHead(pending, w) => worker[w]
    BY TailFacts DEF IsHead, ListsInv
  <2>2. CASE IsHead(pending, w)
    BY <1>1, <2>1, <2>2 DEF Qqueue, IsHead, StartTimer, TimerReset
  <2>3. CASE ~IsHead(pending, w)
    BY <2>3 DEF Qqueue, IsHead
  <2> QED BY <2>2, <2>3
<1>9. /\ timer' \in Int \cup {Null}
      /\ timer' = Null /\ rest # <<>> => timer = Null /\ pending # <<>>
  BY <1>3, <1>7, <1>8, QueueConstants DEF ListsInv
<1>10. timer' # Null => rest # <<>> /\ timer' = qtime'[Head(rest)]
  <2>1. rest # <<>> => qtime'[Head(rest)] = qtime[Head(rest)]
    BY <1>4, <1>7 DEF ListsInv
  <2>2. CASE pending # <<>> /\ Head(pending) = w
    BY <1>8, <2>1, <2>2
  <2>3. CASE ~(pending # <<>> /\ Head(pending) = w)
    BY <1>3, <1>4, <1>8, <2>1, <2>3 DEF TimerInv
  <2> QED BY <2>2, <2>3
<1>11. TimerInv'
  BY <1>4, <1>10 DEF TimerInv, Exit
<1>12. /\ qtime' \in [Works -> Int \cup {Null}] /\ worker' \in [Works -> BOOLEAN]
       /\ ToSet(pending') \cap ToSet(expired') = {}
       /\ \A x \in ToSet(pending') : x \in Works /\ qtime'[x] = qtime[x] /\ qtime'[x] \in Int
  <2>1. \A x \in ToSet(rest) : x \in Works
    BY <1>3, ToSetIndex
  <2> QED BY <1>3, <1>4, <1>5, <1>6, <2>1 DEF ListsInv
<1>13. IsPrioritized(pending', Key(qtime'))
  <2>1. PICK qt : qt = qtime'
    OBVIOUS
  <2>2. \A x \in ToSet(rest) : qt[x] = qtime[x]
    BY <1>4, <1>12, <2>1
  <2>3. IsPrioritized(rest, Key(qt))
    BY <1>3, <2>2, KeyKept
  <2> QED BY <1>4, <2>1, <2>3
<1>14. ASSUME NEW x \in Works PROVE worker'[x] <=> x \in ToSet(pending') \cup ToSet(expired')
  BY <1>3, <1>4, <1>5, <1>6 DEF ListsInv
<1>15. ListsInv'
  BY <1>3, <1>4, <1>6, <1>9, <1>12, <1>13, <1>14 DEF ListsInv
<1>16. Demand' <= Demand + 1
  <2>1. Len(expired) \in Nat /\ Len(expired') = Len(late) + 1
    BY <1>4, <1>6 DEF ListsInv
  <2> QED BY <2>1, <1>4, <1>5, <1>9 DEF Demand
<1> QED BY <1>4, <1>11, <1>15, <1>16

(* Work that is neither queued nor performed loses its expiration.         *)
LEMMA Forgotten ==
    ASSUME qtime \in [Works -> Int \cup {Null}], NEW w \in Works, NEW K, Forget(w, K)
    PROVE  /\ qtime' \in [Works -> Int \cup {Null}]
           /\ \A x \in Works \ {w} : qtime'[x] = qtime[x]
BY DEF Forget

(* work_qcancel()                                                          *)
LEMMA QueuedCancelled ==
    ASSUME ListsInv, TimerInv, NEW w \in Works, CancelQueued(w),
           UNCHANGED <<freeing, firing>>
    PROVE  ListsInv' /\ TimerInv' /\ Demand' <= Demand /\ ~worker'[w]
<1>1. CASE ~worker[w]
  BY <1>1 DEF CancelQueued, lists, ListsInv, TimerInv, Demand, Exit
<1>2. CASE worker[w]
  <2>1. PICK rest : rest = Unlink(pending, w)
    OBVIOUS
  <2>3. /\ rest \in Seq(Works) /\ ToSet(rest) = ToSet(pending) \ {w} /\ NoDuplicates(rest)
        /\ IsPrioritized(rest, Key(qtime))
        /\ pending # <<>> /\ Head(pending) # w => rest # <<>> /\ Head(rest) = Head(pending)
        /\ pending = <<>> => rest = <<>>
    BY <2>1, RestFacts
  <2>4. /\ pending' = rest /\ expired' = Unlink(expired, w) /\ Forget(w, {})
        /\ worker' = [worker EXCEPT ![w] = FALSE]
    BY <1>2, <2>1 DEF CancelQueued
  <2>5. /\ expired' \in Seq(Works) /\ ToSet(expired') = ToSet(expired) \ {w}
        /\ NoDuplicates(expired') /\ Len(expired') \in Nat /\ Len(expired') <= Len(expired)
    BY <2>4, RestFacts
  <2>6. ~Exit
    BY <1>2 DEF TimerInv, ListsInv, ToSet
  <2>7. rest # <<>> => Head(rest) \in ToSet(pending) /\ Head(rest) # w /\ Head(rest) \in Works
    BY <2>3, TailFacts
  <2>8. timer' = IF pending # <<>> /\ Head(pending) = w
                 THEN IF rest = <<>> THEN Null ELSE qtime[Head(rest)]
                 ELSE timer
    BY <1>2, <2>1 DEF CancelQueued, IsHead, StartTimer, TimerReset
  <2>9. /\ timer' \in Int \cup {Null}
        /\ timer' = Null /\ rest # <<>> => timer = Null /\ pending # <<>>
    BY <2>3, <2>7, <2>8, QueueConstants DEF ListsInv
  <2>10. /\ qtime' \in [Works -> Int \cup {Null}]
         /\ \A x \in Works \ {w} : qtime'[x] = qtime[x]
    BY <2>4, Forgotten DEF ListsInv
  <2>11. timer' # Null => rest # <<>> /\ timer' = qtime'[Head(rest)]
    <3>1. rest # <<>> => qtime'[Head(rest)] = qtime[Head(rest)]
      BY <2>7, <2>10
    <3>2. CASE pending # <<>> /\ Head(pending) = w
      BY <2>8, <3>1, <3>2
    <3>3. CASE ~(pending # <<>> /\ Head(pending) = w)
      BY <2>3, <2>6, <2>8, <3>1, <3>3 DEF TimerInv
    <3> QED BY <3>2, <3>3
  <2>12. TimerInv'
    BY <2>4, <2>6, <2>11 DEF TimerInv, Exit
  <2>13. /\ worker' \in [Works -> BOOLEAN] /\ ~worker'[w]
         /\ ToSet(pending') \cap ToSet(expired') = {}
         /\ \A x \in ToSet(pending') : x \in Works /\ qtime'[x] = qtime[x] /\ qtime'[x] \in Int
    <3>1. \A x \in ToSet(rest) : x \in Works
      BY <2>3, ToSetIndex
    <3> QED BY <2>3, <2>4, <2>5, <2>10, <3>1 DEF ListsInv
  <2>14. IsPrioritized(pending', Key(qtime'))
    <3>1. PICK qt : qt = qtime'
      OBVIOUS
    <3>2. \A x \in ToSet(rest) : qt[x] = qtime[x]
      BY <2>4, <2>13, <3>1
    <3>3. IsPrioritized(rest, Key(qt))
      BY <2>3, <3>2, KeyKept
    <3> QED BY <2>4, <3>1, <3>3
  <2>15. ASSUME NEW x \in Works PROVE worker'[x] <=> x \in ToSet(pending') \cup ToSet(expired')
    BY <2>3, <2>4, <2>5 DEF ListsInv
  <2>16. ListsInv'
    BY <2>3, <2>4, <2>5, <2>9, <2>10, <2>13, <2>14, <2>15 DEF ListsInv
  <2>17. Demand' <= Demand
    <3>1. Len(expired) \in Nat
      BY DEF ListsInv
    <3> QED BY <3>1, <2>4, <2>5, <2>9 DEF Demand
  <2> QED BY <2>12, <2>13, <2>16, <2>17
<1> QED BY <1>1, <1>2

-----------------------------------------------------------------------------
(* work_dispatch() and the worker that takes the first expired work.       *)

LEMMA ConcatFacts ==
    ASSUME NEW a \in Seq(Works), NEW b \in Seq(Works), NoDuplicates(a), NoDuplicates(b),
           ToSet(a) \cap ToSet(b) = {}
    PROVE  /\ a \o b \in Seq(Works)
           /\ ToSet(a \o b) = ToSet(a) \cup ToSet(b)
           /\ NoDuplicates(a \o b)
           /\ Len(a \o b) = Len(a) + Len(b)
<1>1. PICK r : r = a \o b
  OBVIOUS
<1>2. PICK m : m = Len(a)
  OBVIOUS
<1>3. PICK n : n = Len(b)
  OBVIOUS
<1>4. /\ m \in Nat /\ n \in Nat
      /\ r \in Seq(Works) /\ Len(r) = m + n
      /\ \A j \in 1 .. m : r[j] = a[j]
      /\ \A j \in m + 1 .. m + n : r[j] = b[j - m]
  BY <1>1, <1>2, <1>3, ConcatProperties
<1>5. \A j \in 1 .. m + n : j \in 1 .. m \/ j \in m + 1 .. m + n
  BY <1>4
<1>6. \A j \in 1 .. m : a[j] \in ToSet(a)
  BY <1>2, ToSetIndex
<1>7. \A j \in m + 1 .. m + n : j - m \in 1 .. n /\ b[j - m] \in ToSet(b)
  <2>1. \A k \in 1 .. n : b[k] \in ToSet(b)
    BY <1>3, ToSetIndex
  <2>2. \A j \in m + 1 .. m + n : j - m \in 1 .. n
    BY <1>4
  <2> QED BY <2>1, <2>2
<1>8. ToSet(r) = ToSet(a) \cup ToSet(b)
  <2>1. ASSUME NEW x \in ToSet(r) PROVE x \in ToSet(a) \cup ToSet(b)
    <3>1. PICK k \in 1 .. m + n : x = r[k]
      BY <1>4, ToSetIndex
    <3> QED BY <1>4, <1>5, <1>6, <1>7, <3>1
  <2>2. ASSUME NEW x \in ToSet(a) PROVE x \in ToSet(r)
    <3>1. PICK k \in 1 .. m : x = a[k]
      BY <1>2, ToSetIndex
    <3>2. k \in 1 .. Len(r) /\ r[k] = x
      BY <1>4, <3>1
    <3> QED BY <1>4, <3>2, ToSetIndex
  <2>3. ASSUME NEW x \in ToSet(b) PROVE x \in ToSet(r)
    <3>1. PICK k \in 1 .. n : x = b[k]
      BY <1>3, ToSetIndex
    <3>2. m + k \in 1 .. Len(r) /\ m + k \in m + 1 .. m + n /\ (m + k) - m = k
      BY <1>4
    <3>3. r[m + k] = x
      BY <1>4, <3>1, <3>2
    <3> QED BY <1>4, <3>2, <3>3, ToSetIndex
  <2> QED BY <2>1, <2>2, <2>3
<1>9. NoDuplicates(r)
  <2> SUFFICES ASSUME NEW i \in 1 .. m + n, NEW j \in 1 .. m + n, r[i] = r[j] PROVE i = j
    BY <1>4 DEF NoDuplicates
  <2>1. CASE i \in 1 .. m /\ j \in 1 .. m
    BY <1>2, <1>4, <2>1 DEF NoDuplicates
  <2>2. CASE i \in m + 1 .. m + n /\ j \in m + 1 .. m + n
    <3>1. i - m = j - m
      BY <1>3, <1>4, <1>7, <2>2 DEF NoDuplicates
    <3> QED BY <1>4, <3>1
  <2>3. CASE i \in 1 .. m /\ j \in m + 1 .. m + n
    BY <1>4, <1>6, <1>7, <2>3
  <2>4. CASE i \in m + 1 .. m + n /\ j \in 1 .. m
    BY <1>4, <1>6, <1>7, <2>4
  <2> QED BY <1>5, <2>1, <2>2, <2>3, <2>4
<1> QED BY <1>1, <1>2, <1>3, <1>4, <1>8, <1>9

(* The list cut in two after n entries.                                    *)
LEMMA CutFacts ==
    ASSUME NEW list \in Seq(Works), NoDuplicates(list), NEW n \in 0 .. Len(list),
           NEW prio, IsPrioritized(list, prio)
    PROVE  /\ SubSeq(list, 1, n) \in Seq(Works) /\ Len(SubSeq(list, 1, n)) = n
           /\ NoDuplicates(SubSeq(list, 1, n))
           /\ SubSeq(list, n + 1, Len(list)) \in Seq(Works)
           /\ NoDuplicates(SubSeq(list, n + 1, Len(list)))
           /\ IsPrioritized(SubSeq(list, n + 1, Len(list)), prio)
           /\ ToSet(SubSeq(list, 1, n)) \cap ToSet(SubSeq(list, n + 1, Len(list))) = {}
           /\ ToSet(SubSeq(list, 1, n)) \cup ToSet(SubSeq(list, n + 1, Len(list))) = ToSet(list)
           /\ n = 0 => SubSeq(list, n + 1, Len(list)) = list
<1>1. PICK a : a = SubSeq(list, 1, n)
  OBVIOUS
<1>2. PICK b : b = SubSeq(list, n + 1, Len(list))
  OBVIOUS
<1>3. PICK l : l = Len(list) /\ l \in Nat
  OBVIOUS
<1>4. /\ n \in Nat /\ n <= l
      /\ a \in Seq(Works) /\ Len(a) = n /\ \A j \in 1 .. n : a[j] = list[j]
  BY <1>1, <1>3, SubSeqProperties
<1>5. b \in Seq(Works) /\ Len(b) = l - n /\ \A j \in 1 .. l - n : b[j] = list[n + j]
  BY <1>2, <1>3, <1>4, SubSeqProperties
<1>6. \A j \in 1 .. l - n : n + j \in 1 .. l
  BY <1>3, <1>4
<1>7. NoDuplicates(a)
  BY <1>3, <1>4 DEF NoDuplicates
<1>8. NoDuplicates(b)
  <2> SUFFICES ASSUME NEW i \in 1 .. l - n, NEW j \in 1 .. l - n, b[i] = b[j] PROVE i = j
    BY <1>5 DEF NoDuplicates
  <2>1. n + i = n + j
    BY <1>3, <1>5, <1>6 DEF NoDuplicates
  <2> QED BY <1>4, <2>1
<1>9. IsPrioritized(b, prio)
  <2> SUFFICES ASSUME NEW i \in 1 .. l - n, NEW j \in 1 .. l - n, i < j
               PROVE  prio[b[j]] <= prio[b[i]]
    BY <1>5 DEF IsPrioritized
  <2>1. n + i < n + j
    BY <1>4
  <2>2. prio[list[n + j]] <= prio[list[n + i]]
    BY <1>3, <1>6, <2>1 DEF IsPrioritized
  <2> QED BY <1>5, <2>2
<1>10. ASSUME NEW x \in ToSet(a) PROVE x \in ToSet(list) /\ x \notin ToSet(b)
  <2>1. PICK i \in 1 .. n : x = a[i]
    BY <1>4, ToSetIndex
  <2>2. i \in 1 .. l /\ x = list[i]
    BY <1>3, <1>4, <2>1
  <2>3. ASSUME x \in ToSet(b) PROVE FALSE
    <3>1. PICK j \in 1 .. l - n : x = b[j]
      BY <1>5, <2>3, ToSetIndex
    <3>2. i = n + j
      BY <1>3, <1>5, <1>6, <2>2, <3>1 DEF NoDuplicates
    <3> QED BY <1>4, <2>1, <3>2
  <2> QED BY <1>3, <2>2, <2>3, ToSetIndex
<1>11. ASSUME NEW x \in ToSet(b) PROVE x \in ToSet(list)
  <2>1. PICK j \in 1 .. l - n : x = b[j]
    BY <1>5, ToSetIndex
  <2>2. n + j \in 1 .. l /\ x = list[n + j]
    BY <1>5, <1>6, <2>1
  <2> QED BY <1>3, <2>2, ToSetIndex
<1>12. ASSUME NEW x \in ToSet(list) PROVE x \in ToSet(a) \cup ToSet(b)
  <2>1. PICK i \in 1 .. l : x = list[i]
    BY <1>3, ToSetIndex
  <2>2. CASE i <= n
    <3>1. i \in 1 .. Len(a) /\ x = a[i]
      BY <1>4, <2>1, <2>2
    <3> QED BY <1>4, <3>1, ToSetIndex
  <2>3. CASE ~(i <= n)
    <3>1. i - n \in 1 .. Len(b) /\ n + (i - n) = i
      BY <1>3, <1>4, <1>5, <2>3
    <3>2. x = b[i - n]
      BY <1>5, <2>1, <3>1
    <3> QED BY <1>5, <3>1, <3>2, ToSetIndex
  <2> QED BY <2>2, <2>3
<1>13. ASSUME n = 0 PROVE b = list
  BY <1>2, <1>13, SubSeqFull
<1>14. ToSet(a) \cap ToSet(b) = {} /\ ToSet(a) \cup ToSet(b) = ToSet(list)
  BY <1>10, <1>11, <1>12
<1> QED BY <1>1, <1>2, <1>4, <1>5, <1>7, <1>8, <1>9, <1>13, <1>14

LEMMA DueFacts ==
    ASSUME ListsInv
    PROVE  Due \in 0 .. Len(pending) /\ (Due > 0 => timer = Null)
<1>1. PICK D : D = {i \in 1 .. Len(pending) : \A j \in 1 .. i : qtime[pending[j]] <= 0}
  OBVIOUS
<1>2. Len(pending) \in Nat
  BY DEF ListsInv
<1>3. IsFiniteSet(1 .. Len(pending)) /\ Cardinality(1 .. Len(pending)) = Len(pending)
  <2>1. 1 \in Int /\ Len(pending) \in Int
    BY <1>2
  <2>2. /\ IsFiniteSet(1 .. Len(pending))
        /\ Cardinality(1 .. Len(pending)) =
              IF 1 > Len(pending) THEN 0 ELSE Len(pending) - 1 + 1
    BY <2>1, FS_Interval, Zenon
  <2> QED BY <1>2, <2>2
<1>4. IsFiniteSet(D) /\ Cardinality(D) <= Len(pending)
  BY <1>1, <1>3, FS_Subset
<1>5. Cardinality(D) \in Nat
  BY <1>4, FS_CardinalityType
<1>6. Due = IF timer = Null THEN Cardinality(D) ELSE 0
  BY <1>1 DEF Due
<1> QED BY <1>2, <1>4, <1>5, <1>6

(* A worker that finds nothing expired leaves the timer to stand for the   *)
(* pending work; one that takes a work leaves a unit for every other one.  *)
LEMMA WorkTaken ==
    ASSUME ListsInv, TimerInv, NEW k \in Workers, TakeWork(k), sem \in Nat,
           pc \in [Workers -> {"lock", "run", "wait", "exited"}],
           kwork \in [Workers -> Works \cup {Null}]
    PROVE  /\ ListsInv' /\ TimerInv' /\ sem' \in Nat
           /\ \/ Demand' = 0 /\ pc' = [pc EXCEPT ![k] = "wait"] /\ kwork' = kwork
              \/ /\ Demand' + sem + 1 <= Demand + sem'
                 /\ pc' = [pc EXCEPT ![k] = "run"]
                 /\ \E w \in Works : kwork' = [kwork EXCEPT ![k] = w]
<1>1. PICK n : n = Due
  OBVIOUS
<1>2. PICK rest : rest = SubSeq(pending, n + 1, Len(pending))
  OBVIOUS
<1>3. PICK moved : moved = SubSeq(pending, 1, n)
  OBVIOUS
<1>4. PICK list : list = expired \o moved
  OBVIOUS
<1>5. n \in 0 .. Len(pending) /\ (n > 0 => timer = Null) /\ n \in Nat
  <2>1. Due \in 0 .. Len(pending) /\ (Due > 0 => timer = Null)
    BY DueFacts
  <2> QED BY <1>1, <2>1
<1>6. /\ moved \in Seq(Works) /\ Len(moved) = n /\ NoDuplicates(moved)
      /\ rest \in Seq(Works) /\ NoDuplicates(rest) /\ IsPrioritized(rest, Key(qtime))
      /\ ToSet(moved) \cap ToSet(rest) = {} /\ ToSet(moved) \cup ToSet(rest) = ToSet(pending)
      /\ n = 0 => rest = pending
  <2>1. pending \in Seq(Works) /\ NoDuplicates(pending) /\ IsPrioritized(pending, Key(qtime))
    BY DEF ListsInv
  <2> QED BY <1>2, <1>3, <1>5, <2>1, CutFacts
<1>7. /\ list \in Seq(Works) /\ ToSet(list) = ToSet(expired) \cup ToSet(moved)
      /\ NoDuplicates(list) /\ Len(list) = Len(expired) + n
  <2>1. expired \in Seq(Works) /\ NoDuplicates(expired) /\ ToSet(expired) \cap ToSet(moved) = {}
    BY <1>6 DEF ListsInv
  <2>2. /\ expired \o moved \in Seq(Works)
        /\ ToSet(expired \o moved) = ToSet(expired) \cup ToSet(moved)
        /\ NoDuplicates(expired \o moved)
        /\ Len(expired \o moved) = Len(expired) + Len(moved)
    BY <1>6, <2>1, ConcatFacts
  <2> QED BY <1>4, <1>6, <2>2
<1>8. /\ pending' = rest /\ sem' = sem + DispatchPosts(n) /\ ~Exit
      /\ IF timer = Null /\ rest # <<>> THEN TimerReset(rest) ELSE timer' = timer
      /\ IF list = <<>>
         THEN /\ pc' = [pc EXCEPT ![k] = "wait"]
              /\ expired' = expired /\ worker' = worker /\ kwork' = kwork
         ELSE /\ expired' = Tail(list)
              /\ worker' = [worker EXCEPT ![Head(list)] = FALSE]
              /\ kwork' = [kwork EXCEPT ![k] = Head(list)]
              /\ pc' = [pc EXCEPT ![k] = "run"]
      /\ qtime' = qtime /\ firing' = firing /\ freeing' = freeing
  BY <1>1, <1>2, <1>3, <1>4 DEF TakeWork
<1>9. /\ sem' \in Nat /\ sem' >= sem
      /\ sem' = sem + (IF n > 0 THEN n - 1 ELSE 0)
  BY <1>5, <1>8 DEF DispatchPosts
<1>10. rest # <<>> => Head(rest) \in ToSet(pending)
  BY <1>6, TailFacts
<1>11. /\ timer' \in Int \cup {Null}
       /\ timer' = Null => rest = <<>>
       /\ timer' # Null => rest # <<>> /\ timer' = qtime[Head(rest)]
  <2>1. CASE timer = Null /\ rest # <<>>
    <3>1. timer' = qtime[Head(rest)] /\ timer' \in Int
      BY <1>8, <1>10, <2>1 DEF TimerReset, StartTimer, ListsInv
    <3> QED BY <2>1, <3>1, QueueConstants
  <2>2. CASE timer = Null /\ rest = <<>>
    BY <1>8, <2>2
  <2>3. CASE timer # Null
    <3>1. n = 0 /\ rest = pending
      BY <1>5, <1>6, <2>3
    <3> QED BY <1>8, <2>3, <3>1 DEF TimerInv, ListsInv
  <2> QED BY <2>1, <2>2, <2>3
<1>12. TimerInv'
  BY <1>8, <1>11 DEF TimerInv, Exit
<1>13. Len(expired) \in Nat /\ \A x \in ToSet(rest) : x \in Works /\ qtime[x] \in Int
  BY <1>6, ToSetIndex DEF ListsInv
<1>14. CASE list = <<>>
  <2>1. Len(expired) = 0 /\ n = 0 /\ rest = pending
    BY <1>5, <1>6, <1>7, <1>13, <1>14
  <2>2. expired' = expired /\ worker' = worker /\ pending' = pending
    BY <1>8, <1>14, <2>1
  <2>3. ListsInv'
    BY <1>8, <1>11, <2>2 DEF ListsInv
  <2>4. Demand' = 0
    BY <1>8, <1>11, <2>1, <2>2 DEF Demand
  <2> QED BY <1>8, <1>9, <1>12, <1>14, <2>3, <2>4
<1>15. CASE list # <<>>
  <2>1. /\ Head(list) \in ToSet(list) /\ Head(list) \in Works /\ Tail(list) \in Seq(Works)
        /\ ToSet(Tail(list)) = ToSet(list) \ {Head(list)} /\ NoDuplicates(Tail(list))
    BY <1>7, <1>15, TailFacts
  <2>2. Len(Tail(list)) = Len(expired) + n - 1 /\ Len(expired) + n >= 1
    BY <1>5, <1>7, <1>13, <1>15
  <2>3. expired' = Tail(list) /\ worker' = [worker EXCEPT ![Head(list)] = FALSE]
    BY <1>8, <1>15
  <2>4. ToSet(pending') \cap ToSet(expired') = {} /\ worker' \in [Works -> BOOLEAN]
    BY <1>6, <1>7, <1>8, <2>1, <2>3 DEF ListsInv
  <2>5. ASSUME NEW x \in Works PROVE worker'[x] <=> x \in ToSet(pending') \cup ToSet(expired')
    BY <1>6, <1>7, <1>8, <2>1, <2>3 DEF ListsInv
  <2>6. ListsInv'
    BY <1>6, <1>8, <1>11, <1>13, <2>1, <2>3, <2>4, <2>5 DEF ListsInv
  <2>7. Demand' = Len(expired) + n - 1
    <3>1. Len(expired') = Len(expired) + n - 1 /\ Len(expired') \in Int
      BY <1>5, <1>13, <2>2, <2>3
    <3>2. ~(timer' = Null /\ pending' # <<>>)
      BY <1>8, <1>11
    <3> QED BY <3>1, <3>2 DEF Demand
  <2>8. Demand >= Len(expired) + (IF n > 0 THEN 1 ELSE 0)
    <3>1. n > 0 => timer = Null /\ pending # <<>>
      BY <1>5
    <3> QED BY <1>13, <3>1 DEF Demand
  <2>9. Demand \in Nat
    BY <1>13 DEF Demand
  <2>10. Demand' + sem + 1 <= Demand + sem'
    BY <1>5, <1>9, <1>13, <2>7, <2>8, <2>9
  <2> QED BY <1>8, <1>9, <1>12, <1>15, <2>1, <2>6, <2>10
<1> QED BY <1>14, <1>15

(* The clock.                                                              *)
LEMMA EarlierType ==
    ASSUME NEW t \in Int \cup {Null}
    PROVE  /\ Earlier(t) \in Int \cup {Null}
           /\ Earlier(t) = Null <=> t = Null
           /\ t # Null /\ t > -MaxLate => Earlier(t) = t - 1
<1>1. CASE t = Null
  BY <1>1 DEF Earlier
<1>2. CASE t \in Int
  BY <1>2, QueueConstants DEF Earlier
<1> QED BY <1>1, <1>2

LEMMA Ticked ==
    ASSUME ListsInv, TimerInv, Tick
    PROVE  ListsInv' /\ TimerInv' /\ Demand' = Demand
<1>1. /\ pending' = pending /\ expired' = expired /\ worker' = worker
      /\ firing' = firing /\ freeing' = freeing
      /\ qtime' = [w \in Works |-> Earlier(qtime[w])] /\ timer' = Earlier(timer)
  BY DEF Tick
<1>2. timer' \in Int \cup {Null} /\ (timer' = Null <=> timer = Null)
  BY <1>1, EarlierType DEF ListsInv
<1>3. qtime' \in [Works -> Int \cup {Null}]
  BY <1>1, EarlierType DEF ListsInv
<1>4. ASSUME NEW i \in 1 .. Len(pending)
      PROVE  /\ pending[i] \in Works /\ qtime[pending[i]] \in Int
             /\ qtime'[pending[i]] = qtime[pending[i]] - 1
  <2>1. pending[i] \in ToSet(pending) /\ pending[i] \in Works
    BY ToSetIndex DEF ListsInv
  <2>2. qtime[pending[i]] \in Int /\ qtime[pending[i]] # Null /\ qtime[pending[i]] > -MaxLate
    BY <2>1, QueueConstants DEF ListsInv, Tick
  <2>3. Earlier(qtime[pending[i]]) = qtime[pending[i]] - 1
    BY <2>2, EarlierType
  <2> QED BY <1>1, <2>1, <2>2, <2>3
<1>5. \A x \in ToSet(pending) : qtime'[x] \in Int
  <2>1. ASSUME NEW x \in ToSet(pending) PROVE qtime'[x] \in Int
    <3>1. PICK i \in 1 .. Len(pending) : x = pending[i]
      BY ToSetIndex DEF ListsInv
    <3> QED BY <1>4, <3>1
  <2> QED BY <2>1
<1>6. IsPrioritized(pending, Key(qtime'))
  <2> SUFFICES ASSUME NEW i \in 1 .. Len(pending), NEW j \in 1 .. Len(pending), i < j
               PROVE  Key(qtime')[pending[j]] <= Key(qtime')[pending[i]]
    BY DEF IsPrioritized
  <2>1. Key(qtime)[pending[j]] <= Key(qtime)[pending[i]]
    BY DEF ListsInv, IsPrioritized
  <2>2. /\ Key(qtime)[pending[i]] = -qtime[pending[i]]
        /\ Key(qtime)[pending[j]] = -qtime[pending[j]]
    BY <1>4, QueueConstants DEF Key
  <2>3. /\ Key(qtime')[pending[i]] = 1 - qtime[pending[i]]
        /\ Key(qtime')[pending[j]] = 1 - qtime[pending[j]]
    <3>1. PICK q : q = qtime'
      OBVIOUS
    <3>2. /\ q[pending[i]] \in Int /\ -q[pending[i]] = 1 - qtime[pending[i]]
          /\ q[pending[j]] \in Int /\ -q[pending[j]] = 1 - qtime[pending[j]]
      BY <1>4, <3>1
    <3>3. Key(q)[pending[i]] = -q[pending[i]] /\ Key(q)[pending[j]] = -q[pending[j]]
      BY <1>4, <3>2, QueueConstants DEF Key
    <3> QED BY <3>1, <3>2, <3>3
  <2> QED BY <1>4, <2>1, <2>2, <2>3
<1>7. ListsInv'
  BY <1>1, <1>2, <1>3, <1>5, <1>6 DEF ListsInv
<1>8. ASSUME timer' # Null, ~Exit' PROVE pending # <<>> /\ timer' = qtime'[Head(pending)]
  <2>1. timer # Null /\ timer \in Int /\ ~Exit
    BY <1>1, <1>2, <1>8 DEF ListsInv, Exit
  <2>2. pending # <<>> /\ timer = qtime[Head(pending)] /\ timer > -MaxLate
    BY <2>1 DEF TimerInv, Tick
  <2>3. timer' = timer - 1
    BY <1>1, <2>1, <2>2, EarlierType
  <2>4. 1 \in 1 .. Len(pending) /\ Head(pending) = pending[1]
    BY <2>2 DEF ListsInv
  <2> QED BY <1>4, <2>2, <2>3, <2>4
<1>9. TimerInv'
  BY <1>1, <1>2, <1>8 DEF TimerInv, Exit
<1>10. Demand' = Demand
  BY <1>1, <1>2 DEF Demand
<1> QED BY <1>7, <1>9, <1>10

-----------------------------------------------------------------------------
(* The workers and the calls.                                              *)

(* The workers that are about to look at the lists, and the callers that   *)
(* wait for a worker in work_cancel_sync().                                *)
Looking(p) == {k \in Workers : p[k] = "lock"}

WaitsFor(call, k) == call # Null /\ call.on = k

WaitingFor(s, k) == {c \in Callers : WaitsFor(s[c], k)}

Calls == [work : Works, on : Workers \cup {Null}] \cup {Null}

WorkersInv ==
    /\ sem \in Nat
    /\ pc \in [Workers -> {"lock", "run", "wait", "exited"}]
    /\ kwork \in [Workers -> Works \cup {Null}]
    /\ wait_count \in [Workers -> Nat] /\ wait \in [Workers -> Nat]
    /\ sync \in [Callers -> Calls]
    /\ \A k \in Workers :
          /\ kwork[k] # Null <=> pc[k] = "run"
          /\ kwork[k] = Null => wait_count[k] = 0
          /\ sync[k] # Null => pc[k] = "run"
    /\ Exit => \A c \in Clients : sync[c] = Null
    /\ freeing = "freed" => \A k \in Workers : pc[k] = "exited"

WaitInv ==
    \A k \in Workers : Cardinality(WaitingFor(sync, k)) = wait_count[k] + wait[k]

UnitsInv ==
    ~Exit => Demand <= sem + Cardinality(Looking(pc)) + (IF firing THEN 1 ELSE 0)

IInv == ListsInv /\ TimerInv /\ WorkersInv /\ WaitInv /\ UnitsInv

LEMMA FiniteCallers == IsFiniteSet(Workers) /\ IsFiniteSet(Callers)
<1>1. NThreads \in Nat /\ IsFiniteSet(Clients)
  BY QueueConstants
<1>2. IsFiniteSet(Workers)
  BY <1>1, FS_Interval DEF Workers
<1> QED BY <1>1, <1>2, FS_Union DEF Callers

(* A worker that moves on.                                                 *)
LEMMA LookingFacts ==
    ASSUME NEW p \in [Workers -> {"lock", "run", "wait", "exited"}], NEW k \in Workers,
           NEW l \in {"lock", "run", "wait", "exited"}, NEW r, r = [p EXCEPT ![k] = l]
    PROVE  /\ Cardinality(Looking(p)) \in Nat /\ Cardinality(Looking(r)) \in Nat
           /\ p[k] = "lock" /\ l # "lock" =>
                Cardinality(Looking(r)) = Cardinality(Looking(p)) - 1
           /\ p[k] # "lock" /\ l = "lock" =>
                Cardinality(Looking(r)) = Cardinality(Looking(p)) + 1
           /\ p[k] # "lock" /\ l # "lock" => Looking(r) = Looking(p)
<1>1. IsFiniteSet(Looking(p)) /\ IsFiniteSet(Looking(r))
  BY FiniteCallers, FS_Subset DEF Looking
<1>2. Cardinality(Looking(p)) \in Nat /\ Cardinality(Looking(r)) \in Nat
  BY <1>1, FS_CardinalityType
<1>3. ASSUME p[k] = "lock", l # "lock"
      PROVE  Cardinality(Looking(r)) = Cardinality(Looking(p)) - 1
  <2>1. Looking(r) = Looking(p) \ {k} /\ k \in Looking(p)
    BY <1>3 DEF Looking
  <2> QED BY <1>1, <2>1, FS_RemoveElement
<1>4. ASSUME p[k] # "lock", l = "lock"
      PROVE  Cardinality(Looking(r)) = Cardinality(Looking(p)) + 1
  <2>1. Looking(r) = Looking(p) \cup {k} /\ k \notin Looking(p)
    BY <1>4 DEF Looking
  <2> QED BY <1>1, <2>1, FS_AddElement
<1>5. ASSUME p[k] # "lock", l # "lock" PROVE Looking(r) = Looking(p)
  BY <1>5 DEF Looking
<1> QED BY <1>2, <1>3, <1>4, <1>5

(* A caller that starts, goes on with or ends its wait.                    *)
LEMMA WaitingFacts ==
    ASSUME NEW s \in [Callers -> Calls], NEW c \in Callers, NEW v \in Calls,
           NEW k \in Workers
    PROVE  /\ ~WaitsFor(s[c], k) /\ WaitsFor(v, k) =>
                Cardinality(WaitingFor([s EXCEPT ![c] = v], k))
                  = Cardinality(WaitingFor(s, k)) + 1
           /\ WaitsFor(s[c], k) /\ ~WaitsFor(v, k) =>
                Cardinality(WaitingFor([s EXCEPT ![c] = v], k))
                  = Cardinality(WaitingFor(s, k)) - 1
           /\ ~WaitsFor(s[c], k) /\ ~WaitsFor(v, k) =>
                WaitingFor([s EXCEPT ![c] = v], k) = WaitingFor(s, k)
<1> DEFINE r == [s EXCEPT ![c] = v]
<1>1. IsFiniteSet(WaitingFor(s, k))
  BY FiniteCallers, FS_Subset DEF WaitingFor
<1>2. ASSUME ~WaitsFor(s[c], k), WaitsFor(v, k)
      PROVE  Cardinality(WaitingFor(r, k)) = Cardinality(WaitingFor(s, k)) + 1
  <2>1. WaitingFor(r, k) = WaitingFor(s, k) \cup {c} /\ c \notin WaitingFor(s, k)
    BY <1>2 DEF WaitingFor
  <2> QED BY <1>1, <2>1, FS_AddElement
<1>3. ASSUME WaitsFor(s[c], k), ~WaitsFor(v, k)
      PROVE  Cardinality(WaitingFor(r, k)) = Cardinality(WaitingFor(s, k)) - 1
  <2>1. WaitingFor(r, k) = WaitingFor(s, k) \ {c} /\ c \in WaitingFor(s, k)
    BY <1>3 DEF WaitingFor
  <2> QED BY <1>1, <2>1, FS_RemoveElement
<1>4. ASSUME ~WaitsFor(s[c], k), ~WaitsFor(v, k)
      PROVE  WaitingFor(r, k) = WaitingFor(s, k)
  BY <1>4 DEF WaitingFor
<1> QED BY <1>2, <1>3, <1>4

-----------------------------------------------------------------------------
(* Every step preserves the invariant.                                     *)

LEMMA DemandType ==
    ASSUME ListsInv
    PROVE  Demand \in Nat
BY DEF Demand, ListsInv

LEMMA InitInv ==
    ASSUME Init
    PROVE  IInv
<1>1. ToSet(pending) = {} /\ ToSet(expired) = {}
  BY DEF Init, ToSet
<1>2. ListsInv
  BY <1>1 DEF Init, ListsInv, NoDuplicates, IsPrioritized
<1>3. TimerInv /\ WorkersInv
  BY QueueConstants DEF Init, TimerInv, WorkersInv, Exit, Calls, Callers
<1>4. WaitInv
  <2>1. \A k \in Workers : WaitingFor(sync, k) = {}
    BY DEF Init, WaitingFor, WaitsFor
  <2>2. \A k \in Workers : Cardinality(WaitingFor(sync, k)) = 0
    BY <2>1, FS_EmptySet
  <2>3. \A k \in Workers : wait_count[k] + wait[k] = 0
    BY DEF Init
  <2> QED BY <2>2, <2>3 DEF WaitInv
<1>5. UnitsInv
  <2>1. PICK k : k \in Workers
    BY QueueConstants DEF Workers
  <2>2. Cardinality(Looking(pc)) \in Nat
    BY FiniteCallers, FS_Subset, FS_CardinalityType DEF Looking
  <2> QED BY <2>2 DEF UnitsInv, Demand, Init
<1> QED BY <1>2, <1>3, <1>4, <1>5 DEF IInv

LEMMA LookingType ==
    Cardinality(Looking(pc)) \in Nat
BY FiniteCallers, FS_Subset, FS_CardinalityType DEF Looking

(* work_qqueue()                                                           *)
LEMMA QqueueStep ==
    ASSUME IInv, NEW w \in Works, NEW q \in Int \cup {Null}, NEW d \in Nat,
           d > 0 => q \in Int, Qqueue(w, q, d)
    PROVE  IInv'
<1>1. UNCHANGED <<firing, freeing, workers, sync>>
  BY DEF Qqueue
<1>2. /\ ListsInv' /\ TimerInv' /\ sem' \in Nat /\ sem \in Nat
      /\ Demand' <= Demand + (sem' - sem)
  <2>1. CASE d > 0
    <3>1. ListsInv' /\ TimerInv' /\ Demand' <= Demand /\ sem' = sem
      BY <2>1, QueuedLater DEF IInv
    <3> QED BY <3>1, DemandType DEF IInv, WorkersInv
  <2>2. CASE d = 0
    <3>1. ~(d > 0) /\ sem \in Nat
      BY <2>2 DEF IInv, WorkersInv
    <3>2. ListsInv' /\ TimerInv' /\ Demand' <= Demand + 1 /\ sem' = sem + 1
      BY <2>2, <3>1, QueuedNow DEF IInv
    <3> QED BY <3>1, <3>2, DemandType DEF IInv
  <2> QED BY <2>1, <2>2
<1>3. WorkersInv'
  BY <1>1, <1>2 DEF IInv, WorkersInv, workers, Exit
<1>4. WaitInv'
  BY <1>1 DEF IInv, WaitInv, workers
<1>5. UnitsInv'
  <2>1. Looking(pc)' = Looking(pc) /\ Exit' = Exit
    BY <1>1 DEF workers, Exit
  <2>2. Demand' \in Nat
    BY <1>2 DEF Demand, ListsInv
  <2> QED BY <1>1, <1>2, <2>1, <2>2, DemandType, LookingType DEF IInv, UnitsInv
<1> QED BY <1>2, <1>3, <1>4, <1>5 DEF IInv

LEMMA QueueStep ==
    ASSUME IInv, NEW c \in Callers, NEW w \in Works, NEW d \in Delays,
           NEW spin \in 0 .. MaxSpin, Queue(c, w, d, spin)
    PROVE  IInv'
<1>1. d \in Nat /\ spin \in Int
  BY QueueConstants
<1>2. PICK q : q = IF d = 0 THEN Null ELSE d + 1 - spin
  OBVIOUS
<1>3. q \in Int \cup {Null} /\ (d > 0 => q \in Int) /\ Qqueue(w, q, d)
  BY <1>1, <1>2 DEF Queue
<1> QED BY <1>1, <1>3, QqueueStep

LEMMA QueueNextStep ==
    ASSUME IInv, NEW k \in Workers, NEW d \in Delays, QueueNext(k, d)
    PROVE  IInv'
<1>1. d \in Nat
  BY QueueConstants
<1>2. PICK w : w = kwork[k]
  OBVIOUS
<1>3. w \in Works
  BY <1>2 DEF QueueNext, CanCall, IInv, WorkersInv
<1>4. PICK q : q = (IF qtime[w] = Null THEN 0 ELSE qtime[w]) + d
  OBVIOUS
<1>5. q \in Int
  BY <1>1, <1>3, <1>4 DEF IInv, ListsInv
<1>6. Qqueue(w, q, d)
  BY <1>2, <1>4 DEF QueueNext
<1> QED BY <1>1, <1>3, <1>5, <1>6, QqueueStep

(* work_qcancel(), whatever becomes of the caller.                         *)
LEMMA CancelUnits ==
    ASSUME IInv, NEW w \in Works, CancelQueued(w), UNCHANGED <<sem, firing, freeing, pc>>
    PROVE  ListsInv' /\ TimerInv' /\ UnitsInv' /\ ~worker'[w]
<1>1. ListsInv' /\ TimerInv' /\ Demand' <= Demand /\ ~worker'[w]
  BY QueuedCancelled DEF IInv
<1>2. Looking(pc)' = Looking(pc) /\ Exit' = Exit
  BY DEF Exit
<1>3. Demand' \in Nat
  BY <1>1 DEF Demand, ListsInv
<1>4. UnitsInv'
  BY <1>1, <1>2, <1>3, DemandType, LookingType DEF IInv, UnitsInv, WorkersInv
<1> QED BY <1>1, <1>4

LEMMA CancelStep ==
    ASSUME IInv, NEW c \in Callers, NEW w \in Works, Cancel(c, w)
    PROVE  IInv'
<1>1. CancelQueued(w) /\ UNCHANGED <<sem, firing, freeing, workers, sync>>
  BY DEF Cancel
<1>2. ListsInv' /\ TimerInv' /\ UnitsInv'
  BY <1>1, CancelUnits DEF workers
<1>3. WorkersInv'
  BY <1>1 DEF IInv, WorkersInv, workers, Exit
<1>4. WaitInv'
  BY <1>1 DEF IInv, WaitInv, workers
<1> QED BY <1>2, <1>3, <1>4 DEF IInv

(* The loop of work_cancel_sync().  The caller is not waiting for a worker *)
(* when it looks.                                                          *)
LEMMA ScanStep ==
    ASSUME IInv, NEW c \in Callers, NEW w \in Works, Scan(c, w),
           sync[c] # Null => sync[c].on = Null,
           c \in Clients => ~Exit, c \in Workers => pc[c] = "run"
    PROVE  /\ IInv'
           /\ sync'[c] = Null => ~worker'[w] /\ \A k \in Workers \ {c} : kwork'[k] # w
<1>1. /\ CancelQueued(w) /\ UNCHANGED <<sem, firing, freeing, pc, kwork, wait>>
      /\ IF Running(c, w) = {}
         THEN sync' = [sync EXCEPT ![c] = Null] /\ wait_count' = wait_count
         ELSE /\ wait_count' = [wait_count EXCEPT ![Min(Running(c, w))] = @ + 1]
              /\ sync' = [sync EXCEPT ![c] = [work |-> w, on |-> Min(Running(c, w))]]
  BY DEF Scan
<1>2. ListsInv' /\ TimerInv' /\ UnitsInv' /\ ~worker'[w]
  BY <1>1, CancelUnits
<1>3. sync \in [Callers -> Calls] /\ wait_count \in [Workers -> Nat] /\ Null \notin Workers
  BY QueueConstants DEF IInv, WorkersInv, Callers
<1>4. CASE Running(c, w) = {}
  <2>1. sync' = [sync EXCEPT ![c] = Null] /\ wait_count' = wait_count
    BY <1>1, <1>4
  <2>2. Null \in Calls
    BY DEF Calls
  <2>3. WorkersInv'
    BY <1>1, <1>3, <2>1, <2>2 DEF IInv, WorkersInv, Exit
  <2>4. WaitInv'
    <3>1. ASSUME NEW k \in Workers PROVE WaitingFor(sync', k) = WaitingFor(sync, k)
      <4>1. ~WaitsFor(sync[c], k) /\ ~WaitsFor(Null, k)
        BY <1>3 DEF WaitsFor
      <4>2. WaitingFor([sync EXCEPT ![c] = Null], k) = WaitingFor(sync, k)
        BY <1>3, <2>2, <4>1, WaitingFacts, ZenonT(60)
      <4> QED BY <2>1, <4>2
    <3> QED BY <1>1, <2>1, <3>1 DEF IInv, WaitInv
  <2>5. \A k \in Workers \ {c} : kwork'[k] # w
    BY <1>1, <1>4 DEF Running
  <2> QED BY <1>2, <2>3, <2>4, <2>5 DEF IInv
<1>5. CASE Running(c, w) # {}
  <2>1. PICK k : k = Min(Running(c, w))
    OBVIOUS
  <2>2. k \in Running(c, w)
    <3>1. PICK R : R = Running(c, w)
      OBVIOUS
    <3>2. R \subseteq Nat
      BY <3>1 DEF Running, Workers
    <3>3. \E x \in R : \A y \in R : x <= y
      BY <1>5, <3>1, <3>2, LeastNatural
    <3>4. Min(R) \in R
      BY <3>3 DEF Min
    <3> QED BY <2>1, <3>1, <3>4
  <2>3. k \in Workers /\ kwork[k] = w
    BY <2>2 DEF Running
  <2>4. PICK v : v = [work |-> w, on |-> k]
    OBVIOUS
  <2>5. v \in Calls /\ v # Null /\ v.on = k /\ v \in [work : Works, on : Workers \cup {Null}]
    <3>1. v \in [work : Works, on : Workers \cup {Null}] /\ v.on = k
      BY <2>3, <2>4
    <3>2. v # Null
      BY <3>1, QueueConstants
    <3> QED BY <3>1, <3>2 DEF Calls
  <2>6. sync' = [sync EXCEPT ![c] = v] /\ wait_count' = [wait_count EXCEPT ![k] = @ + 1]
    BY <1>1, <1>5, <2>1, <2>4
  <2>7. WorkersInv'
    <3>1. sync' \in [Callers -> Calls] /\ wait_count' \in [Workers -> Nat]
      BY <1>3, <2>3, <2>5, <2>6
    <3>2. ASSUME NEW x \in Workers
          PROVE  /\ kwork'[x] = Null => wait_count'[x] = 0
                 /\ sync'[x] # Null => pc'[x] = "run"
      <4>1. x \in Callers /\ Null \notin Works
        BY QueueConstants DEF Callers
      <4> QED BY <1>1, <1>3, <2>3, <2>6, <4>1 DEF IInv, WorkersInv
    <3>3. ASSUME Exit', NEW x \in Clients PROVE sync'[x] = Null
      <4>1. x \in Callers /\ Exit /\ x # c
        BY <1>1, <3>3 DEF Callers, Exit
      <4> QED BY <1>3, <2>6, <4>1 DEF IInv, WorkersInv
    <3> QED BY <1>1, <3>1, <3>2, <3>3 DEF IInv, WorkersInv
  <2>8. WaitInv'
    <3>1. ASSUME NEW x \in Workers
          PROVE  Cardinality(WaitingFor(sync', x)) = wait_count'[x] + wait'[x]
      <4>1. PICK r : r = [sync EXCEPT ![c] = v]
        OBVIOUS
      <4>2. ~WaitsFor(sync[c], x) /\ (WaitsFor(v, x) <=> x = k)
        BY <1>3, <2>5 DEF WaitsFor
      <4>3. /\ x = k => Cardinality(WaitingFor(r, x)) = Cardinality(WaitingFor(sync, x)) + 1
            /\ x # k => WaitingFor(r, x) = WaitingFor(sync, x)
        <5>1. /\ x = k => Cardinality(WaitingFor([sync EXCEPT ![c] = v], x))
                           = Cardinality(WaitingFor(sync, x)) + 1
              /\ x # k => WaitingFor([sync EXCEPT ![c] = v], x) = WaitingFor(sync, x)
          BY <1>3, <2>5, <4>2, WaitingFacts, ZenonT(60)
        <5> QED BY <4>1, <5>1
      <4>4. Cardinality(WaitingFor(sync, x)) = wait_count[x] + wait[x]
        BY DEF IInv, WaitInv
      <4>5. wait_count'[x] = IF x = k THEN wait_count[x] + 1 ELSE wait_count[x]
        BY <1>3, <2>6
      <4>6. wait_count[x] \in Nat /\ wait[x] \in Nat /\ wait' = wait /\ sync' = r
        BY <1>1, <1>3, <2>6, <4>1 DEF IInv, WorkersInv
      <4> QED BY <4>3, <4>4, <4>5, <4>6
    <3> QED BY <3>1 DEF WaitInv
  <2> QED BY <1>2, <1>3, <2>5, <2>6, <2>7, <2>8 DEF IInv
<1> QED BY <1>4, <1>5

LEMMA CancelSyncStep ==
    ASSUME IInv, NEW c \in Callers, NEW w \in Works, CancelSync(c, w)
    PROVE  IInv'
<1>1. /\ Scan(c, w) /\ sync[c] = Null
      /\ c \in Clients => ~Exit
      /\ c \in Workers => pc[c] = "run"
  BY DEF CancelSync, CanCall
<1> QED BY <1>1, ScanStep

(* A caller that comes back to the loop.                                   *)
LEMMA RescanStep ==
    ASSUME IInv, NEW c \in Callers, Rescan(c)
    PROVE  /\ IInv'
           /\ sync'[c] = Null =>
                /\ ~worker'[sync[c].work]
                /\ \A k \in Workers \ {c} : kwork'[k] # sync[c].work
<1>1. PICK w : w = sync[c].work
  OBVIOUS
<1>2. sync[c] # Null /\ sync[c].on = Null /\ Scan(c, w)
  BY <1>1 DEF Rescan
<1>3. w \in Works
  BY <1>1, <1>2 DEF IInv, WorkersInv, Calls
<1>4. (c \in Clients => ~Exit) /\ (c \in Workers => pc[c] = "run")
  BY <1>2 DEF IInv, WorkersInv
<1> QED BY <1>1, <1>2, <1>3, <1>4, ScanStep

LEMMA SyncWakeStep ==
    ASSUME IInv, NEW c \in Callers, SyncWake(c)
    PROVE  IInv' /\ sync' = [sync EXCEPT ![c].on = Null] /\ sync'[c] # Null
<1>1. PICK k : k = sync[c].on
  OBVIOUS
<1>2. /\ sync[c] # Null /\ k # Null /\ wait[k] > 0
      /\ wait' = [wait EXCEPT ![k] = @ - 1]
      /\ UNCHANGED <<lists, sem, timer, firing, freeing, pc, kwork, wait_count>>
      /\ sync' = [sync EXCEPT ![c].on = Null]
  BY <1>1 DEF SyncWake
<1>3. sync \in [Callers -> Calls] /\ wait \in [Workers -> Nat] /\ Null \notin Workers
  BY QueueConstants DEF IInv, WorkersInv, Callers
<1>4. sync[c] \in [work : Works, on : Workers \cup {Null}] /\ k \in Workers
  BY <1>1, <1>2, <1>3 DEF Calls
<1>5. PICK v : v = [sync[c] EXCEPT !.on = Null]
  OBVIOUS
<1>6. /\ v \in [work : Works, on : Workers \cup {Null}] /\ v.on = Null
      /\ v \in Calls /\ v # Null
  BY <1>4, <1>5, QueueConstants DEF Calls
<1>7. sync' = [sync EXCEPT ![c] = v]
  BY <1>2, <1>5
<1>8. ListsInv' /\ TimerInv' /\ UnitsInv'
  BY <1>2 DEF IInv, ListsInv, TimerInv, UnitsInv, Demand, Exit, lists
<1>9. WorkersInv'
  <2>1. sync' \in [Callers -> Calls] /\ wait' \in [Workers -> Nat]
    BY <1>2, <1>3, <1>4, <1>6, <1>7
  <2>2. ASSUME NEW x \in Callers PROVE sync'[x] # Null => sync[x] # Null
    BY <1>2, <1>3, <1>7
  <2> QED BY <1>2, <2>1, <2>2 DEF IInv, WorkersInv, Exit, Callers
<1>10. WaitInv'
  <2>1. ASSUME NEW x \in Workers
        PROVE  Cardinality(WaitingFor(sync', x)) = wait_count'[x] + wait'[x]
    <3>1. PICK r : r = [sync EXCEPT ![c] = v]
      OBVIOUS
    <3>2. ~WaitsFor(v, x) /\ (WaitsFor(sync[c], x) <=> x = k)
      BY <1>1, <1>2, <1>3, <1>6 DEF WaitsFor
    <3>3. /\ x = k => Cardinality(WaitingFor(r, x)) = Cardinality(WaitingFor(sync, x)) - 1
          /\ x # k => WaitingFor(r, x) = WaitingFor(sync, x)
      <4>1. /\ x = k => Cardinality(WaitingFor([sync EXCEPT ![c] = v], x))
                         = Cardinality(WaitingFor(sync, x)) - 1
            /\ x # k => WaitingFor([sync EXCEPT ![c] = v], x) = WaitingFor(sync, x)
        BY <1>3, <1>6, <3>2, WaitingFacts, ZenonT(60)
      <4> QED BY <3>1, <4>1
    <3>4. Cardinality(WaitingFor(sync, x)) = wait_count[x] + wait[x]
      BY DEF IInv, WaitInv
    <3>5. wait'[x] = IF x = k THEN wait[x] - 1 ELSE wait[x]
      BY <1>2, <1>3
    <3>6. /\ wait_count[x] \in Nat /\ wait[x] \in Nat
          /\ wait_count' = wait_count /\ sync' = r
      BY <1>2, <1>7, <3>1 DEF IInv, WorkersInv
    <3> QED BY <3>3, <3>4, <3>5, <3>6
  <2> QED BY <2>1 DEF WaitInv
<1>11. sync'[c] # Null
  BY <1>3, <1>6, <1>7
<1> QED BY <1>2, <1>8, <1>9, <1>10, <1>11 DEF IInv

(* work_thread()                                                           *)
LEMMA TakeWorkStep ==
    ASSUME IInv, NEW k \in Workers, TakeWork(k)
    PROVE  IInv'
<1>1. /\ pc[k] = "lock" /\ ~Exit
      /\ UNCHANGED <<firing, freeing, wait_count, wait, sync>>
  BY DEF TakeWork
<1>2. /\ sem \in Nat /\ pc \in [Workers -> {"lock", "run", "wait", "exited"}]
      /\ kwork \in [Workers -> Works \cup {Null}] /\ Null \notin Works
  BY QueueConstants DEF IInv, WorkersInv
<1>3. /\ ListsInv' /\ TimerInv' /\ sem' \in Nat
      /\ \/ Demand' = 0 /\ pc' = [pc EXCEPT ![k] = "wait"] /\ kwork' = kwork
         \/ /\ Demand' + sem + 1 <= Demand + sem'
            /\ pc' = [pc EXCEPT ![k] = "run"]
            /\ \E w \in Works : kwork' = [kwork EXCEPT ![k] = w]
  BY <1>2, WorkTaken DEF IInv
<1>4. WaitInv'
  BY <1>1 DEF IInv, WaitInv
<1>5. freeing' = "no" /\ ~Exit'
  BY <1>1 DEF Exit
<1>6. CASE Demand' = 0 /\ pc' = [pc EXCEPT ![k] = "wait"] /\ kwork' = kwork
  <2>1. WorkersInv'
    BY <1>1, <1>2, <1>3, <1>5, <1>6 DEF IInv, WorkersInv
  <2>2. Cardinality(Looking(pc')) \in Nat
    BY <1>2, <1>6, LookingFacts
  <2>3. UnitsInv'
    BY <1>3, <1>6, <2>2 DEF UnitsInv
  <2> QED BY <1>3, <1>4, <2>1, <2>3 DEF IInv
<1>7. CASE /\ Demand' + sem + 1 <= Demand + sem'
           /\ pc' = [pc EXCEPT ![k] = "run"]
           /\ \E w \in Works : kwork' = [kwork EXCEPT ![k] = w]
  <2>1. PICK w \in Works : kwork' = [kwork EXCEPT ![k] = w]
    BY <1>7
  <2>2. WorkersInv'
    <3>1. ASSUME NEW x \in Workers
          PROVE  /\ kwork'[x] # Null <=> pc'[x] = "run"
                 /\ kwork'[x] = Null => wait_count'[x] = 0
                 /\ sync'[x] # Null => pc'[x] = "run"
      BY <1>1, <1>2, <1>7, <2>1 DEF IInv, WorkersInv
    <3> QED BY <1>1, <1>2, <1>3, <1>5, <1>7, <2>1, <3>1 DEF IInv, WorkersInv
  <2>3. /\ Cardinality(Looking(pc')) = Cardinality(Looking(pc)) - 1
        /\ Cardinality(Looking(pc)) \in Nat
    <3>1. PICK r : r = [pc EXCEPT ![k] = "run"]
      OBVIOUS
    <3>2. /\ Cardinality(Looking(r)) = Cardinality(Looking(pc)) - 1
          /\ Cardinality(Looking(pc)) \in Nat
      BY <1>1, <1>2, <3>1, LookingFacts
    <3> QED BY <1>7, <3>1, <3>2
  <2>4. PICK f \in Nat : f = IF firing THEN 1 ELSE 0
    OBVIOUS
  <2>5. Demand \in Nat /\ Demand' \in Nat /\ Demand <= sem + Cardinality(Looking(pc)) + f
    BY <1>1, <1>3, <2>4, DemandType DEF IInv, Demand, ListsInv, UnitsInv
  <2>6. Demand' <= sem' + Cardinality(Looking(pc')) + f
    <3>1. sem \in Nat /\ sem' \in Nat /\ Demand' + sem + 1 <= Demand + sem'
      BY <1>2, <1>3, <1>7
    <3>2. PICK m \in Nat : m = Cardinality(Looking(pc)) /\ Cardinality(Looking(pc')) = m - 1
      BY <2>3
    <3>3. Demand <= sem + m + f
      BY <2>5, <3>2
    <3>4. PICK n \in Nat : n = Demand'
      BY <2>5
    <3>5. PICK u \in Nat : u = sem'
      BY <3>1
    <3>6. n + sem + 1 <= Demand + u
      BY <3>1, <3>4, <3>5
    <3>7. n <= u + (m - 1) + f
      BY <2>5, <3>1, <3>3, <3>6
    <3> QED BY <3>2, <3>4, <3>5, <3>7
  <2>7. UnitsInv'
    BY <1>1, <2>4, <2>6 DEF UnitsInv
  <2> QED BY <1>3, <1>4, <2>2, <2>7 DEF IInv
<1> QED BY <1>3, <1>6, <1>7

LEMMA WorkDoneStep ==
    ASSUME IInv, NEW k \in Workers, WorkDone(k)
    PROVE  IInv'
<1>1. PICK w : w = kwork[k]
  OBVIOUS
<1>2. PICK l : l = IF Exit THEN "exited" ELSE "wait"
  OBVIOUS
<1>3. /\ pc[k] = "run" /\ sync[k] = Null
      /\ kwork' = [kwork EXCEPT ![k] = Null]
      /\ IF worker[w] THEN qtime' = qtime ELSE Forget(w, {k})
      /\ wait' = [wait EXCEPT ![k] = @ + wait_count[k]]
      /\ wait_count' = [wait_count EXCEPT ![k] = 0]
      /\ pc' = [pc EXCEPT ![k] = l]
      /\ UNCHANGED <<pending, expired, worker, sem, timer, firing, freeing, sync>>
  BY <1>1, <1>2 DEF WorkDone, Waiters
<1>4. /\ w \in Works /\ l \in {"exited", "wait"} /\ Null \notin Works
      /\ pc \in [Workers -> {"lock", "run", "wait", "exited"}]
      /\ wait_count \in [Workers -> Nat] /\ wait \in [Workers -> Nat]
      /\ kwork \in [Workers -> Works \cup {Null}]
  BY <1>1, <1>2, <1>3, QueueConstants DEF IInv, WorkersInv
<1>5. /\ qtime' \in [Works -> Int \cup {Null}]
      /\ \A x \in ToSet(pending) : x \in Works /\ qtime'[x] = qtime[x]
  <2>1. \A x \in ToSet(pending) : x \in Works
    BY ToSetIndex DEF IInv, ListsInv
  <2>2. CASE worker[w]
    BY <1>3, <2>1, <2>2 DEF IInv, ListsInv
  <2>3. CASE ~worker[w]
    <3>1. w \notin ToSet(pending)
      BY <1>4, <2>3 DEF IInv, ListsInv
    <3>2. /\ qtime' \in [Works -> Int \cup {Null}]
          /\ \A x \in Works \ {w} : qtime'[x] = qtime[x]
      BY <1>3, <1>4, <2>3, Forgotten DEF IInv, ListsInv
    <3> QED BY <2>1, <3>1, <3>2
  <2> QED BY <2>2, <2>3
<1>6. ListsInv'
  <2>1. PICK q : q = qtime'
    OBVIOUS
  <2>2. pending \in Seq(Works) /\ IsPrioritized(pending, Key(qtime))
    BY DEF IInv, ListsInv
  <2>3. \A x \in ToSet(pending) : q[x] = qtime[x]
    BY <1>5, <2>1
  <2>4. IsPrioritized(pending, Key(q))
    BY <2>2, <2>3, KeyKept
  <2> QED BY <1>3, <1>5, <2>1, <2>4 DEF IInv, ListsInv
<1>7. TimerInv'
  <2>1. pending # <<>> => Head(pending) \in ToSet(pending)
    BY TailFacts DEF IInv, ListsInv
  <2> QED BY <1>3, <1>5, <2>1 DEF IInv, TimerInv, Exit
<1>8. WorkersInv'
  <2>1. ASSUME NEW x \in Workers
        PROVE  /\ kwork'[x] # Null <=> pc'[x] = "run"
               /\ kwork'[x] = Null => wait_count'[x] = 0
               /\ sync'[x] # Null => pc'[x] = "run"
               /\ pc[x] = "exited" => pc'[x] = "exited"
    BY <1>3, <1>4 DEF IInv, WorkersInv
  <2>2. wait' \in [Workers -> Nat] /\ wait_count' \in [Workers -> Nat]
    BY <1>3, <1>4
  <2>3. /\ kwork' \in [Workers -> Works \cup {Null}]
        /\ pc' \in [Workers -> {"lock", "run", "wait", "exited"}]
    BY <1>3, <1>4
  <2> QED BY <1>3, <2>1, <2>2, <2>3 DEF IInv, WorkersInv, Exit
<1>9. WaitInv'
  <2>1. ASSUME NEW x \in Workers
        PROVE  Cardinality(WaitingFor(sync, x)) = wait_count'[x] + wait'[x]
    <3>1. /\ Cardinality(WaitingFor(sync, x)) = wait_count[x] + wait[x]
          /\ wait_count[x] \in Nat /\ wait[x] \in Nat
      BY <1>4 DEF IInv, WaitInv
    <3>2. /\ wait_count'[x] = IF x = k THEN 0 ELSE wait_count[x]
          /\ wait'[x] = IF x = k THEN wait[x] + wait_count[x] ELSE wait[x]
      BY <1>3, <1>4
    <3> QED BY <3>1, <3>2
  <2> QED BY <1>3, <2>1 DEF WaitInv
<1>10. UnitsInv'
  <2>1. PICK r : r = [pc EXCEPT ![k] = l]
    OBVIOUS
  <2>2. Looking(r) = Looking(pc)
    BY <1>3, <1>4, <2>1, LookingFacts
  <2>3. Looking(pc') = Looking(pc) /\ Demand' = Demand /\ Exit' = Exit
    BY <1>3, <2>1, <2>2 DEF Demand, Exit
  <2> QED BY <1>3, <2>3 DEF IInv, UnitsInv
<1> QED BY <1>6, <1>7, <1>8, <1>9, <1>10 DEF IInv

(* A worker comes out of its wait, or goes.                                *)
LEMMA WaitSemStep ==
    ASSUME IInv, NEW k \in Workers, WaitSem(k)
    PROVE  IInv'
<1>1. /\ pc[k] = "wait" /\ sem > 0 /\ sem' = sem - 1
      /\ pc' = [pc EXCEPT ![k] = "lock"]
      /\ UNCHANGED <<lists, timer, firing, freeing, kwork, wait_count, wait, sync>>
  BY DEF WaitSem
<1>2. sem \in Nat /\ pc \in [Workers -> {"lock", "run", "wait", "exited"}]
  BY DEF IInv, WorkersInv
<1>3. ListsInv' /\ TimerInv' /\ WaitInv'
  BY <1>1 DEF IInv, ListsInv, TimerInv, WaitInv, Exit, lists
<1>4. WorkersInv'
  BY <1>1, <1>2 DEF IInv, WorkersInv, Exit
<1>5. UnitsInv'
  <2>1. PICK r : r = [pc EXCEPT ![k] = "lock"]
    OBVIOUS
  <2>2. /\ Cardinality(Looking(r)) = Cardinality(Looking(pc)) + 1
        /\ Cardinality(Looking(pc)) \in Nat
    BY <1>1, <1>2, <2>1, LookingFacts, ZenonT(60)
  <2>3. /\ Cardinality(Looking(pc')) = Cardinality(Looking(pc)) + 1
        /\ Demand' = Demand /\ Exit' = Exit /\ firing' = firing
    BY <1>1, <2>1, <2>2 DEF Demand, Exit, lists
  <2> QED BY <1>1, <1>2, <2>2, <2>3 DEF IInv, UnitsInv
<1> QED BY <1>3, <1>4, <1>5 DEF IInv

LEMMA ThreadExitStep ==
    ASSUME IInv, NEW k \in Workers, ThreadExit(k)
    PROVE  IInv'
<1>1. /\ pc[k] = "lock" /\ Exit /\ pc' = [pc EXCEPT ![k] = "exited"]
      /\ UNCHANGED <<lists, sem, timer, firing, freeing, kwork, wait_count, wait, sync>>
  BY DEF ThreadExit
<1>2. ListsInv' /\ TimerInv' /\ WaitInv' /\ UnitsInv'
  BY <1>1 DEF IInv, ListsInv, TimerInv, WaitInv, UnitsInv, Exit, lists
<1>3. WorkersInv'
  BY <1>1 DEF IInv, WorkersInv, Exit
<1> QED BY <1>2, <1>3 DEF IInv

(* The watchdog: the unit it owes is counted from the time it is inactive. *)
LEMMA FireStep ==
    ASSUME IInv, Fire
    PROVE  IInv'
<1>1. /\ timer # Null /\ ~firing /\ timer' = Null /\ firing' = TRUE
      /\ UNCHANGED <<lists, sem, freeing, workers, sync>>
  BY DEF Fire
<1>2. ListsInv' /\ WaitInv' /\ WorkersInv'
  BY <1>1 DEF IInv, ListsInv, WaitInv, WorkersInv, Exit, lists, workers
<1>3. TimerInv'
  BY <1>1 DEF IInv, TimerInv, Exit, lists
<1>4. UnitsInv'
  <2>1. Demand' <= Demand + 1 /\ Demand \in Nat /\ Demand' \in Nat
    BY <1>1, <1>2 DEF IInv, Demand, ListsInv, lists
  <2>2. Looking(pc') = Looking(pc) /\ Exit' = Exit /\ sem \in Nat /\ sem' = sem
    BY <1>1 DEF Exit, workers, IInv, WorkersInv
  <2>3. ~Exit => Demand <= sem + Cardinality(Looking(pc))
    BY <1>1, <2>2, LookingType DEF IInv, UnitsInv
  <2> QED BY <1>1, <2>1, <2>2, <2>3, LookingType DEF UnitsInv
<1> QED BY <1>2, <1>3, <1>4 DEF IInv

LEMMA TimerExpiredStep ==
    ASSUME IInv, TimerExpired
    PROVE  IInv'
<1>1. /\ firing /\ firing' = FALSE /\ sem' = sem + 1
      /\ UNCHANGED <<lists, timer, freeing, workers, sync>>
  BY DEF TimerExpired
<1>2. sem \in Nat /\ sem' \in Nat
  BY <1>1 DEF IInv, WorkersInv
<1>3. ListsInv' /\ WaitInv' /\ WorkersInv' /\ TimerInv'
  BY <1>1, <1>2 DEF IInv, ListsInv, WaitInv, WorkersInv, TimerInv, Exit, lists, workers
<1>4. UnitsInv'
  <2>1. Demand' = Demand /\ Looking(pc') = Looking(pc) /\ Exit' = Exit
    BY <1>1 DEF Demand, Exit, lists, workers
  <2> QED BY <1>1, <1>2, <2>1, LookingType DEF IInv, UnitsInv
<1> QED BY <1>3, <1>4 DEF IInv

LEMMA TickStep ==
    ASSUME IInv, Tick
    PROVE  IInv'
<1>1. ListsInv' /\ TimerInv' /\ Demand' = Demand
  BY Ticked DEF IInv
<1>2. UNCHANGED <<sem, firing, freeing, workers, sync>>
  BY DEF Tick
<1>3. WorkersInv' /\ WaitInv'
  BY <1>2 DEF IInv, WorkersInv, WaitInv, workers, Exit
<1>4. UnitsInv'
  BY <1>1, <1>2 DEF IInv, UnitsInv, workers, Exit
<1> QED BY <1>1, <1>3, <1>4 DEF IInv

(* work_queue_free()                                                       *)
LEMMA FreeExitStep ==
    ASSUME IInv, FreeExit
    PROVE  IInv'
<1>1. /\ freeing = "no" /\ (\A c \in Clients : sync[c] = Null) /\ freeing' = "exit"
      /\ pending' = <<>> /\ expired' = <<>>
      /\ worker' = [w \in Works |-> FALSE] /\ qtime' = [w \in Works |-> Null]
      /\ UNCHANGED <<sem, timer, firing, workers, sync>>
  BY DEF FreeExit
<1>2. ToSet(pending') = {} /\ ToSet(expired') = {}
  BY <1>1 DEF ToSet
<1>3. ListsInv'
  <2>1. pending' \in Seq(Works) /\ expired' \in Seq(Works) /\ timer' \in Int \cup {Null}
    BY <1>1 DEF IInv, ListsInv
  <2>2. NoDuplicates(pending') /\ NoDuplicates(expired') /\ IsPrioritized(pending', Key(qtime'))
    BY <1>1 DEF NoDuplicates, IsPrioritized
  <2> QED BY <1>1, <1>2, <2>1, <2>2 DEF ListsInv
<1>4. TimerInv' /\ WorkersInv' /\ WaitInv' /\ UnitsInv'
  BY <1>1 DEF IInv, TimerInv, WorkersInv, WaitInv, UnitsInv, Exit, workers
<1> QED BY <1>3, <1>4 DEF IInv

LEMMA FreeCancelStep ==
    ASSUME IInv, FreeCancel
    PROVE  IInv'
<1>1. /\ freeing = "exit" /\ ~firing /\ timer' = Null /\ sem' = sem + NThreads
      /\ freeing' = "join" /\ UNCHANGED <<lists, firing, workers, sync>>
  BY DEF FreeCancel, StartTimer
<1>2. sem' \in Nat
  <2>1. NThreads \in Nat
    BY QueueConstants
  <2> QED BY <1>1, <2>1 DEF IInv, WorkersInv
<1>3. ListsInv' /\ TimerInv' /\ WorkersInv' /\ WaitInv' /\ UnitsInv'
  BY <1>1, <1>2 DEF IInv, ListsInv, TimerInv, WorkersInv, WaitInv, UnitsInv, Exit, lists,
                    workers
<1> QED BY <1>3 DEF IInv

LEMMA FreeJoinStep ==
    ASSUME IInv, FreeJoin
    PROVE  IInv'
<1>1. /\ freeing = "join" /\ (\A k \in Workers : pc[k] = "exited") /\ freeing' = "freed"
      /\ UNCHANGED <<lists, sem, timer, firing, workers, sync>>
  BY DEF FreeJoin
<1>2. ListsInv' /\ TimerInv' /\ WorkersInv' /\ WaitInv' /\ UnitsInv'
  BY <1>1 DEF IInv, ListsInv, TimerInv, WorkersInv, WaitInv, UnitsInv, Exit, lists, workers
<1> QED BY <1>2 DEF IInv

LEMMA NextInv ==
    ASSUME IInv, [Next]_vars
    PROVE  IInv'
<1>1. CASE \E c \in Callers : Call(c) \/ SyncWake(c) \/ Rescan(c)
  <2>1. PICK c \in Callers : Call(c) \/ SyncWake(c) \/ Rescan(c)
    BY <1>1
  <2>2. CASE Call(c)
    <3>1. PICK w \in Works :
            \/ \E d \in Delays, spin \in 0 .. MaxSpin : Queue(c, w, d, spin)
            \/ Cancel(c, w)
            \/ CancelSync(c, w)
      BY <2>2 DEF Call
    <3> QED BY <3>1, QueueStep, CancelStep, CancelSyncStep
  <2> QED BY <2>1, <2>2, SyncWakeStep, RescanStep
<1>2. CASE \E k \in Workers : Thread(k) \/ \E d \in Delays : QueueNext(k, d)
  <2>1. PICK k \in Workers : Thread(k) \/ \E d \in Delays : QueueNext(k, d)
    BY <1>2
  <2> QED BY <2>1, TakeWorkStep, WorkDoneStep, WaitSemStep, ThreadExitStep, QueueNextStep
          DEF Thread
<1>3. CASE Fire \/ TimerExpired \/ Tick
  BY <1>3, FireStep, TimerExpiredStep, TickStep
<1>4. CASE FreeExit \/ FreeCancel \/ FreeJoin
  BY <1>4, FreeExitStep, FreeCancelStep, FreeJoinStep
<1>5. CASE UNCHANGED vars
  BY <1>5 DEF vars, IInv, ListsInv, TimerInv, WorkersInv, WaitInv, UnitsInv, Demand, Exit
<1> QED BY <1>1, <1>2, <1>3, <1>4, <1>5 DEF Next

-----------------------------------------------------------------------------
(* What follows for every behaviour of the work queue.                     *)

(* The lists, the timer, the workers, the waiters and the units of the     *)
(* queue agree after every call, callback, interrupt and tick.             *)
THEOREM QueueInductive == Spec => []IInv
BY InitInv, NextInv, PTL DEF Spec

(* Queued work is in one list, once, in the order of its expiration, and   *)
(* the active watchdog is the one of the first pending work.               *)
THEOREM QueueCorrect == Spec => []QueueConsistent
<1>1. IInv => QueueConsistent
  <2> SUFFICES ASSUME IInv PROVE QueueConsistent
    OBVIOUS
  <2>1. TypeOK
    <3>1. sem \in Nat /\ timer \in Int \cup {Null} /\ firing \in BOOLEAN
      BY DEF IInv, WorkersInv, ListsInv, TimerInv
    <3>2. sync \in [Callers -> [work : Works, on : Workers \cup {Null}] \cup {Null}]
      BY DEF IInv, WorkersInv, Calls
    <3> QED BY <3>1, <3>2 DEF IInv, WorkersInv, ListsInv, TimerInv, TypeOK
  <2>2. /\ pending \in Seq(Works) /\ expired \in Seq(Works) /\ NoDuplicates(pending)
        /\ NoDuplicates(expired) /\ ToSet(pending) \cap ToSet(expired) = {}
    BY DEF IInv, ListsInv
  <2>3. /\ ToSet(pending \o expired) = ToSet(pending) \cup ToSet(expired)
        /\ NoDuplicates(pending \o expired)
    BY <2>2, ConcatFacts
  <2>4. ToSet(pending \o expired) = {w \in Works : worker[w]}
    <3>1. ToSet(pending) \subseteq Works /\ ToSet(expired) \subseteq Works
      BY <2>2, ToSetIndex
    <3>2. \A w \in Works : worker[w] <=> w \in ToSet(pending) \cup ToSet(expired)
      BY DEF IInv, ListsInv
    <3> QED BY <2>3, <3>1, <3>2
  <2>5. ASSUME NEW i \in 1 .. Len(pending), NEW j \in 1 .. Len(pending), i < j
        PROVE  qtime[pending[i]] <= qtime[pending[j]]
    <3>1. /\ pending[i] \in ToSet(pending) /\ pending[i] \in Works
          /\ pending[j] \in ToSet(pending) /\ pending[j] \in Works
      BY <2>2, ToSetIndex
    <3>2. /\ qtime[pending[i]] \in Int /\ qtime[pending[i]] # Null
          /\ qtime[pending[j]] \in Int /\ qtime[pending[j]] # Null
      BY <3>1, QueueConstants DEF IInv, ListsInv
    <3>3. Key(qtime)[pending[j]] <= Key(qtime)[pending[i]]
      BY <2>5 DEF IInv, ListsInv, IsPrioritized
    <3>4. -qtime[pending[j]] <= -qtime[pending[i]]
      BY <3>1, <3>2, <3>3 DEF Key
    <3> QED BY <3>2, <3>4
  <2>6. timer # Null /\ ~Exit => pending # <<>> /\ timer = qtime[Head(pending)]
    BY DEF IInv, TimerInv
  <2> QED BY <2>1, <2>3, <2>4, <2>5, <2>6 DEF QueueConsistent
<1> QED BY <1>1, QueueInductive, PTL

(* No expired work is left with all workers asleep: the units, the workers *)
(* about to look and the watchdog function about to post cover it.         *)
THEOREM UnitsCorrect == Spec => []WakeupsSuffice
<1>1. IInv => WakeupsSuffice
  <2> SUFFICES ASSUME IInv, ~Exit
               PROVE  sem + Cardinality({k \in Workers : pc[k] = "lock"})
                          + (IF firing THEN 1 ELSE 0) >= Demand
    BY DEF WakeupsSuffice, Demand
  <2>1. PICK m \in Nat : m = Cardinality(Looking(pc))
    BY LookingType
  <2>2. m = Cardinality({k \in Workers : pc[k] = "lock"})
    BY <2>1 DEF Looking
  <2>3. Demand \in Nat /\ sem \in Nat
    BY DemandType DEF IInv, WorkersInv
  <2>4. Demand <= sem + m + (IF firing THEN 1 ELSE 0)
    BY <2>1 DEF IInv, UnitsInv
  <2> QED BY <2>2, <2>3, <2>4
<1> QED BY <1>1, QueueInductive, PTL

(* Every thread that waits in work_cancel_sync() has a unit or is counted  *)
(* by the worker it waits for, and no idle worker counts a waiter.         *)
THEOREM WaitersCorrect == Spec => []WaitersCounted
<1>1. IInv => WaitersCounted
  <2> SUFFICES ASSUME IInv, NEW k \in Workers
               PROVE  /\ Cardinality({c \in Callers : sync[c] # Null /\ sync[c].on = k})
                           = wait_count[k] + wait[k]
                      /\ kwork[k] = Null => wait_count[k] = 0
    BY DEF WaitersCounted
  <2>1. Cardinality(WaitingFor(sync, k)) = wait_count[k] + wait[k]
    BY DEF IInv, WaitInv
  <2>2. WaitingFor(sync, k) = {c \in Callers : sync[c] # Null /\ sync[c].on = k}
    BY DEF WaitingFor, WaitsFor
  <2>3. kwork[k] = Null => wait_count[k] = 0
    BY DEF IInv, WorkersInv
  <2> QED BY <2>1, <2>2, <2>3
<1> QED BY <1>1, QueueInductive, PTL

(* The memory of the queue is freed after the last worker, waiter and      *)
(* watchdog is gone.                                                       *)
THEOREM FreeCorrect == Spec => []FreedUnused
<1>1. IInv => FreedUnused
  <2> SUFFICES ASSUME IInv, freeing = "freed" PROVE FreedUnused
    BY DEF FreedUnused
  <2>1. \A k \in Workers : pc[k] = "exited"
    BY DEF IInv, WorkersInv
  <2>2. \A c \in Callers : sync[c] = Null
    BY <2>1 DEF IInv, WorkersInv, Callers, Exit
  <2>3. timer = Null /\ ~firing
    BY DEF IInv, TimerInv
  <2> QED BY <2>1, <2>2, <2>3 DEF FreedUnused
<1> QED BY <1>1, QueueInductive, PTL

(* A work_cancel_sync() that had to wait returns in a step that finds the  *)
(* work in no list and performed by no worker but the caller.              *)
THEOREM CancelCorrect == Spec => CancelledQuiet
<1> DEFINE Returned(c) == sync[c] # Null /\ sync'[c] = Null =>
                             /\ ~worker'[sync[c].work]
                             /\ \A k \in Workers \ {c} : kwork'[k] # sync[c].work
<1>1. ASSUME IInv, [Next]_vars, NEW x \in Callers PROVE Returned(x)
  <2>1. CASE sync' = sync
    BY <2>1
  <2>2. ASSUME NEW c \in Callers, NEW w \in Works, CancelSync(c, w) PROVE Returned(x)
    <3>1. sync[c] = Null /\ \E v : sync' = [sync EXCEPT ![c] = v]
      BY <2>2 DEF CancelSync, CanCall, Scan
    <3> QED BY <3>1 DEF IInv, WorkersInv
  <2>3. ASSUME NEW c \in Callers, SyncWake(c) PROVE Returned(x)
    <3>1. sync' = [sync EXCEPT ![c].on = Null] /\ sync'[c] # Null
      BY <1>1, <2>3, SyncWakeStep
    <3> QED BY <1>1, <3>1 DEF IInv, WorkersInv
  <2>4. ASSUME NEW c \in Callers, Rescan(c) PROVE Returned(x)
    <3>1. CASE x = c
      BY <1>1, <2>4, <3>1, RescanStep
    <3>2. CASE x # c
      <4>1. \E v : sync' = [sync EXCEPT ![c] = v]
        BY <2>4 DEF Rescan, Scan
      <4> QED BY <1>1, <3>2, <4>1 DEF IInv, WorkersInv
    <3> QED BY <3>1, <3>2
  <2>5. CASE \E c \in Callers : Call(c) \/ SyncWake(c) \/ Rescan(c)
    <3>1. ASSUME NEW c \in Callers, NEW w \in Works,
                 Cancel(c, w) \/ \E d \in Delays, spin \in 0 .. MaxSpin : Queue(c, w, d, spin)
          PROVE  sync' = sync
      BY <3>1 DEF Cancel, Queue, Qqueue
    <3> QED BY <2>1, <2>2, <2>3, <2>4, <2>5, <3>1 DEF Call
  <2>6. CASE \E k \in Workers : Thread(k) \/ \E d \in Delays : QueueNext(k, d)
    <3>1. sync' = sync
      BY <2>6 DEF Thread, TakeWork, WorkDone, WaitSem, ThreadExit, QueueNext, Qqueue
    <3> QED BY <2>1, <3>1
  <2>7. CASE \/ Fire \/ TimerExpired \/ Tick \/ FreeExit \/ FreeCancel \/ FreeJoin
             \/ UNCHANGED vars
    <3>1. sync' = sync
      BY <2>7 DEF Fire, TimerExpired, Tick, FreeExit, FreeCancel, FreeJoin, vars
    <3> QED BY <2>1, <3>1
  <2> QED BY <1>1, <2>5, <2>6, <2>7 DEF Next
<1>2. IInv /\ [Next]_vars => [\A c \in Callers : Returned(c)]_vars
  BY <1>1
<1> QED BY <1>2, QueueInductive, PTL DEF Spec, CancelledQuiet

=============================================================================
