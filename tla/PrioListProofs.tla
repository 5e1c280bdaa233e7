--------------------------- MODULE PrioListProofs ---------------------------
(* What the operators on prioritized lists return, and facts about sums:   *)
(* used wherever a component keeps threads in such a list or counts.       *)
EXTENDS PrioList, SequenceTheorems, FiniteSetTheorems, WellFoundedInduction,
        TLAPS

(* A set of naturals that is not empty has a least element.                *)
LEMMA LeastNatural ==
    ASSUME NEW T, T \subseteq Nat, T # {}
    PROVE  \E x \in T : \A y \in T : x <= y
<1>1. \E x \in T : \A y \in T : <<y, x>> \notin OpToRel(<, Nat)
  BY NatLessThanWellFounded, WFMin
<1>2. ASSUME NEW x \in T, NEW y \in T, <<y, x>> \notin OpToRel(<, Nat)
      PROVE  x <= y
  BY <1>2 DEF OpToRel
<1> QED BY <1>1, <1>2

(* Membership in a list, by index.                                         *)
LEMMA ToSetIndex ==
    ASSUME NEW S, NEW list \in Seq(S)
    PROVE  /\ \A k \in 1 .. Len(list) : list[k] \in ToSet(list)
           /\ \A x \in ToSet(list) : \E k \in 1 .. Len(list) : x = list[k]
           /\ ToSet(list) \subseteq S
<1>1. DOMAIN list = 1 .. Len(list)
  OBVIOUS
<1>2. \A k \in 1 .. Len(list) : list[k] \in S
  OBVIOUS
<1> QED BY <1>1, <1>2 DEF ToSet

(* The place nxsched_add_prioritized() looks for exists.                   *)
LEMMA InsertPosFound ==
    ASSUME NEW S, NEW list \in Seq(S), NEW prio \in [S -> Int], NEW p \in Int
    PROVE  /\ InsertPos(list, prio, p) \in 1 .. Len(list) + 1
           /\ \A j \in 1 .. InsertPos(list, prio, p) - 1 : p <= prio[list[j]]
           /\ InsertPos(list, prio, p) <= Len(list) =>
                 prio[list[InsertPos(list, prio, p)]] < p
<1> DEFINE Stops(i) == /\ \A j \in 1 .. i - 1 : p <= prio[list[j]]
                       /\ i <= Len(list) => prio[list[i]] < p
           Lower == {i \in 1 .. Len(list) : prio[list[i]] < p}
<1>1. \E i \in 1 .. Len(list) + 1 : Stops(i)
  <2>1. CASE Lower = {}
    <3>1. \A j \in 1 .. Len(list) : p <= prio[list[j]]
      BY <2>1
    <3> QED BY <3>1
  <2>2. CASE Lower # {}
    <3>0. Lower \subseteq Nat
      OBVIOUS
    <3> HIDE DEF Lower
    <3>1. PICK i \in Lower : \A j \in Lower : i <= j
      BY <2>2, <3>0, LeastNatural
    <3> USE DEF Lower
    <3>2. \A j \in 1 .. i - 1 : p <= prio[list[j]]
      BY <3>1
    <3> QED BY <3>1, <3>2
  <2> QED BY <2>1, <2>2
<1> QED BY <1>1 DEF InsertPos

(* Inserting a new thread at a place of the list adds just that thread.    *)
LEMMA InsertAtFacts ==
    ASSUME NEW S, NEW list \in Seq(S), NEW t \in S,
           NEW i \in 1 .. Len(list) + 1
    PROVE  /\ InsertAt(list, i, t) \in Seq(S)
           /\ Len(InsertAt(list, i, t)) = Len(list) + 1
           /\ \A j \in 1 .. Len(list) + 1 :
                InsertAt(list, i, t)[j] = IF j < i THEN list[j]
                                          ELSE IF j = i THEN t
                                          ELSE list[j - 1]
<1> DEFINE a == SubSeq(list, 1, i - 1)
           b == SubSeq(list, i, Len(list))
<1>1. /\ a \in Seq(S) /\ Len(a) = i - 1
      /\ \A j \in 1 .. i - 1 : a[j] = list[j]
  BY SubSeqProperties
<1>2. /\ b \in Seq(S) /\ Len(b) = Len(list) - i + 1
      /\ \A j \in 1 .. Len(list) - i + 1 : b[j] = list[i + j - 1]
  BY SubSeqProperties
<1>3. /\ <<t>> \in Seq(S) /\ Len(<<t>>) = 1 /\ <<t>>[1] = t
  OBVIOUS
<1> DEFINE c == a \o <<t>>
<1>4. /\ c \in Seq(S) /\ Len(c) = i
      /\ \A j \in 1 .. i : c[j] = IF j <= i - 1 THEN a[j] ELSE <<t>>[j - (i - 1)]
  BY <1>1, <1>3, ConcatProperties
<1>5. \A j \in 1 .. i : c[j] = IF j < i THEN list[j] ELSE t
  BY <1>1, <1>3, <1>4
<1> HIDE DEF a, b, c
<1>51. Len(list) \in Nat /\ Len(c) + Len(b) = Len(list) + 1
  BY <1>2, <1>4
<1>52. /\ c \o b \in Seq(S) /\ Len(c \o b) = Len(c) + Len(b)
       /\ \A j \in 1 .. Len(c) + Len(b) :
             (c \o b)[j] = IF j <= Len(c) THEN c[j] ELSE b[j - Len(c)]
  BY <1>2, <1>4, ConcatProperties
<1>6. /\ c \o b \in Seq(S) /\ Len(c \o b) = Len(list) + 1
      /\ \A j \in 1 .. Len(list) + 1 :
            (c \o b)[j] = IF j <= i THEN c[j] ELSE b[j - i]
  BY <1>4, <1>51, <1>52
<1>7. \A j \in 1 .. Len(list) + 1 :
         (c \o b)[j] = IF j < i THEN list[j] ELSE IF j = i THEN t ELSE list[j - 1]
  <2> TAKE j \in 1 .. Len(list) + 1
  <2>0. i \in Int /\ j \in Int
    OBVIOUS
  <2>1. CASE j <= i
    BY <2>1, <1>5, <1>6
  <2>2. CASE j > i
    <3>1. j - i \in 1 .. Len(list) - i + 1 /\ i + (j - i) - 1 = j - 1
      BY <2>2, <1>51
    <3> QED BY <3>1, <2>2, <1>2, <1>6
  <2>3. j <= i \/ j > i
    BY <2>0
  <2> QED BY <2>1, <2>2, <2>3, Zenon
<1>8. InsertAt(list, i, t) = c \o b
  BY DEF InsertAt, a, b, c
<1> QED BY <1>6, <1>7, <1>8

(* A list r that is another one with t put in at place i.                  *)
LEMMA InsertedFacts ==
    ASSUME NEW S, NEW list \in Seq(S), NEW t \in S,
           NEW i \in 1 .. Len(list) + 1,
           NEW r \in Seq(S), Len(r) = Len(list) + 1,
           \A j \in 1 .. Len(list) + 1 :
             r[j] = IF j < i THEN list[j] ELSE IF j = i THEN t ELSE list[j - 1]
    PROVE  /\ r # <<>>
           /\ ToSet(r) = ToSet(list) \cup {t}
           /\ NoDuplicates(list) /\ t \notin ToSet(list) => NoDuplicates(r)
<1>1. /\ i \in Int /\ Len(list) \in Nat
      /\ r[i] = t
      /\ \A j \in 1 .. i - 1 : r[j] = list[j]
      /\ \A j \in i .. Len(list) : r[j + 1] = list[j]
  OBVIOUS
<1>2. r # <<>>
  OBVIOUS
<1>3. ToSet(r) = ToSet(list) \cup {t}
  <2>1. ASSUME NEW j \in 1 .. Len(list) + 1
        PROVE  r[j] = t \/ \E k \in 1 .. Len(list) : r[j] = list[k]
    <3>1. CASE j < i
      BY <3>1
    <3>2. CASE j = i
      BY <3>2
    <3>3. CASE j > i
      <4>1. j - 1 \in 1 .. Len(list) /\ r[j] = list[j - 1]
        BY <3>3
      <4> QED BY <4>1
    <3> QED BY <3>1, <3>2, <3>3, <1>1
  <2>2. ASSUME NEW k \in 1 .. Len(list)
        PROVE  \E j \in 1 .. Len(r) : r[j] = list[k]
    <3>1. CASE k < i
      BY <3>1, <1>1
    <3>2. CASE ~(k < i)
      <4>1. k + 1 \in 1 .. Len(r) /\ r[k + 1] = list[k]
        BY <3>2, <1>1
      <4> QED BY <4>1
    <3> QED BY <3>1, <3>2
  <2>3. DOMAIN r = 1 .. Len(r) /\ DOMAIN list = 1 .. Len(list)
    OBVIOUS
  <2>4. \A x \in ToSet(r) : x \in ToSet(list) \cup {t}
    BY <2>1, <2>3 DEF ToSet
  <2>5. ASSUME NEW x \in ToSet(list) PROVE x \in ToSet(r)
    <3>1. PICK k \in 1 .. Len(list) : x = list[k]
      BY <2>3 DEF ToSet
    <3>2. PICK j \in 1 .. Len(r) : r[j] = x
      BY <2>2, <3>1
    <3> QED BY <3>2, <2>3 DEF ToSet
  <2>6. t \in ToSet(r)
    BY <1>1, <2>3 DEF ToSet
  <2> QED BY <2>4, <2>5, <2>6
<1>4. ASSUME NoDuplicates(list), t \notin ToSet(list)
      PROVE  NoDuplicates(r)
  <2>1. \A k \in 1 .. Len(list) : list[k] # t
    BY <1>4 DEF ToSet
  <2>2. ASSUME NEW j \in 1 .. Len(r), NEW k \in 1 .. Len(r), j < k
        PROVE  r[j] # r[k]
    <3>1. CASE k < i
      BY <3>1, <2>2, <1>1, <1>4 DEF NoDuplicates
    <3>2. CASE k = i
      <4>1. j \in 1 .. i - 1 /\ j \in 1 .. Len(list)
        BY <3>2, <2>2, <1>1
      <4>2. r[j] = list[j] /\ r[k] = t
        BY <4>1, <3>2, <1>1
      <4> QED BY <4>1, <4>2, <2>1
    <3>3. CASE k > i
      <4>1. k - 1 \in 1 .. Len(list) /\ r[k] = list[k - 1]
        BY <3>3
      <4>2. CASE j < i
        BY <4>1, <4>2, <3>3, <1>1, <1>4 DEF NoDuplicates
      <4>3. CASE j = i
        BY <4>1, <4>3, <1>1, <2>1
      <4>4. CASE j > i
        <5>1. j - 1 \in 1 .. Len(list) /\ r[j] = list[j - 1]
          BY <4>4
        <5>2. j - 1 # k - 1
          BY <2>2
        <5> QED BY <4>1, <5>1, <5>2, <1>4 DEF NoDuplicates
      <4> QED BY <4>2, <4>3, <4>4, <1>1
    <3> QED BY <3>1, <3>2, <3>3, <1>1
  <2>3. \A j, k \in 1 .. Len(r) : r[j] = r[k] => ~(j < k) /\ ~(k < j)
    BY <2>2
  <2> QED BY <2>3 DEF NoDuplicates
<1> QED BY <1>2, <1>3, <1>4

(* nxsched_add_prioritized(): the list gains the thread, and no other.     *)
LEMMA AddPrioritizedFacts ==
    ASSUME NEW S, NEW list \in Seq(S), NEW t \in S, NEW prio \in [S -> Int]
    PROVE  /\ AddPrioritized(list, t, prio) \in Seq(S)
           /\ AddPrioritized(list, t, prio) # <<>>
           /\ ToSet(AddPrioritized(list, t, prio)) = ToSet(list) \cup {t}
           /\ NoDuplicates(list) /\ t \notin ToSet(list) =>
                NoDuplicates(AddPrioritized(list, t, prio))
<1>1. PICK i \in 1 .. Len(list) + 1 : i = InsertPos(list, prio, prio[t])
  BY InsertPosFound
<1>2. PICK r : r = AddPrioritized(list, t, prio)
  OBVIOUS
<1>3. r = InsertAt(list, i, t)
  BY <1>1, <1>2 DEF AddPrioritized
<1>4. /\ r \in Seq(S) /\ Len(r) = Len(list) + 1
      /\ \A j \in 1 .. Len(list) + 1 :
            r[j] = IF j < i THEN list[j] ELSE IF j = i THEN t ELSE list[j - 1]
  <2>1. InsertAt(list, i, t) \in Seq(S)
    BY InsertAtFacts
  <2>2. /\ Len(InsertAt(list, i, t)) = Len(list) + 1
        /\ \A j \in 1 .. Len(list) + 1 :
             InsertAt(list, i, t)[j] = IF j < i THEN list[j]
                                       ELSE IF j = i THEN t
                                       ELSE list[j - 1]
    BY InsertAtFacts
  <2> QED BY <2>1, <2>2, <1>3, Zenon
<1>5. /\ r # <<>>
      /\ ToSet(r) = ToSet(list) \cup {t}
      /\ NoDuplicates(list) /\ t \notin ToSet(list) => NoDuplicates(r)
  BY <1>4, InsertedFacts
<1> QED BY <1>2, <1>4, <1>5

(* dq_rem() of a thread in the list takes out that thread, and no other.   *)
LEMMA DqRemFacts ==
    ASSUME NEW S, NEW list \in Seq(S), NEW t \in ToSet(list),
           NoDuplicates(list)
    PROVE  /\ DqRem(list, t) \in Seq(S)
           /\ ToSet(DqRem(list, t)) = ToSet(list) \ {t}
           /\ NoDuplicates(DqRem(list, t))
<1> DEFINE i == IndexOf(list, t)
           r == DqRem(list, t)
           a == SubSeq(list, 1, i - 1)
           b == SubSeq(list, i + 1, Len(list))
<1>1. i \in 1 .. Len(list) /\ list[i] = t
  BY DEF IndexOf, ToSet
<1>2. /\ a \in Seq(S) /\ Len(a) = i - 1
      /\ \A j \in 1 .. i - 1 : a[j] = list[j]
  BY <1>1, SubSeqProperties
<1>3. /\ b \in Seq(S) /\ Len(b) = Len(list) - i
      /\ \A j \in 1 .. Len(list) - i : b[j] = list[i + j]
  BY <1>1, SubSeqProperties
<1>4. r = a \o b
  BY DEF DqRem, RemoveAt
<1> HIDE DEF i, r, a, b
<1>5. /\ r \in Seq(S) /\ Len(r) = Len(list) - 1
      /\ \A j \in 1 .. Len(list) - 1 :
            r[j] = IF j < i THEN a[j] ELSE b[j - (i - 1)]
  <2>1. /\ a \o b \in Seq(S) /\ Len(a \o b) = Len(a) + Len(b)
        /\ \A j \in 1 .. Len(a) + Len(b) :
              (a \o b)[j] = IF j <= Len(a) THEN a[j] ELSE b[j - Len(a)]
    BY <1>2, <1>3, ConcatProperties
  <2>2. Len(a) + Len(b) = Len(list) - 1 /\ i \in Int
    BY <1>1, <1>2, <1>3
  <2> QED BY <1>2, <1>4, <2>1, <2>2
<1>6. \A j \in 1 .. Len(list) - 1 :
         r[j] = IF j < i THEN list[j] ELSE list[j + 1]
  BY <1>1, <1>2, <1>3, <1>5
<1>7. ToSet(r) = ToSet(list) \ {t}
  <2>1. ASSUME NEW j \in 1 .. Len(list) - 1
        PROVE  r[j] \in ToSet(list) /\ r[j] # t
    BY <1>1, <1>6 DEF ToSet, NoDuplicates
  <2>2. ASSUME NEW k \in 1 .. Len(list), list[k] # t
        PROVE  list[k] \in ToSet(r)
    <3>1. CASE k < i
      <4>1. k \in 1 .. Len(r) /\ r[k] = list[k] BY <3>1, <1>1, <1>5, <1>6
      <4> QED BY <4>1, <1>5 DEF ToSet
    <3>2. CASE k > i
      <4>1. k - 1 \in 1 .. Len(r) /\ r[k - 1] = list[k]
        BY <3>2, <1>1, <1>5, <1>6
      <4> QED BY <4>1, <1>5 DEF ToSet
    <3> QED BY <3>1, <3>2, <2>2, <1>1
  <2>3. ASSUME NEW x \in ToSet(r) PROVE x \in ToSet(list) \ {t}
    <3>1. PICK j \in 1 .. Len(list) - 1 : x = r[j]
      BY <1>5, ToSetIndex
    <3> QED BY <2>1, <3>1
  <2>4. ASSUME NEW x \in ToSet(list), x # t PROVE x \in ToSet(r)
    <3>1. PICK k \in 1 .. Len(list) : x = list[k]
      BY ToSetIndex
    <3> QED BY <2>2, <2>4, <3>1
  <2> QED BY <2>3, <2>4
<1>8. NoDuplicates(r)
  BY <1>1, <1>5, <1>6 DEF NoDuplicates
<1> QED BY <1>5, <1>7, <1>8 DEF r

(* Moving a thread to the place of its new priority keeps the threads.     *)
LEMMA RequeueFacts ==
    ASSUME NEW S, NEW list \in Seq(S), NEW t \in ToSet(list),
           NoDuplicates(list), NEW prio \in [S -> Int]
    PROVE  /\ AddPrioritized(DqRem(list, t), t, prio) \in Seq(S)
           /\ ToSet(AddPrioritized(DqRem(list, t), t, prio)) = ToSet(list)
           /\ NoDuplicates(AddPrioritized(DqRem(list, t), t, prio))
<1>1. t \in S
  BY ToSetIndex
<1>2. PICK r \in Seq(S) : r = DqRem(list, t)
  BY DqRemFacts
<1>3. ToSet(r) = ToSet(list) \ {t} /\ NoDuplicates(r)
  BY <1>2, DqRemFacts
<1>4. /\ AddPrioritized(r, t, prio) \in Seq(S)
      /\ ToSet(AddPrioritized(r, t, prio)) = ToSet(r) \cup {t}
      /\ NoDuplicates(r) /\ t \notin ToSet(r) =>
            NoDuplicates(AddPrioritized(r, t, prio))
  BY <1>1, AddPrioritizedFacts
<1> QED BY <1>1, <1>2, <1>3, <1>4

(* dq_remfirst() takes out the head.                                       *)
LEMMA TailFacts ==
    ASSUME NEW S, NEW list \in Seq(S), list # <<>>, NoDuplicates(list)
    PROVE  /\ Head(list) \in ToSet(list)
           /\ Head(list) \in S
           /\ Tail(list) \in Seq(S)
           /\ ToSet(Tail(list)) = ToSet(list) \ {Head(list)}
           /\ NoDuplicates(Tail(list))
<1>1. /\ Len(list) \in Nat \ {0} /\ Head(list) = list[1]
      /\ Tail(list) \in Seq(S) /\ Len(Tail(list)) = Len(list) - 1
      /\ \A j \in 1 .. Len(list) - 1 : Tail(list)[j] = list[j + 1]
  OBVIOUS
<1>2. ASSUME NEW j \in 1 .. Len(list) - 1
      PROVE  Tail(list)[j] \in ToSet(list) \ {Head(list)}
  BY <1>1 DEF ToSet, NoDuplicates
<1>3. ASSUME NEW k \in 1 .. Len(list), list[k] # Head(list)
      PROVE  list[k] \in ToSet(Tail(list))
  <2>1. k - 1 \in 1 .. Len(Tail(list)) /\ Tail(list)[k - 1] = list[k]
    BY <1>1, <1>3
  <2> QED BY <2>1, <1>1, ToSetIndex
<1>4. NoDuplicates(Tail(list))
  BY <1>1 DEF NoDuplicates
<1>5. Head(list) \in ToSet(list)
  BY <1>1 DEF ToSet
<1>6. Head(list) \in S
  BY <1>1
<1>7. ToSet(Tail(list)) = ToSet(list) \ {Head(list)}
  <2>1. \A x \in ToSet(Tail(list)) : x \in ToSet(list) \ {Head(list)}
    BY <1>1, <1>2 DEF ToSet
  <2>2. \A x \in ToSet(list) \ {Head(list)} : x \in ToSet(Tail(list))
    BY <1>3 DEF ToSet
  <2> QED BY <2>1, <2>2
<1> QED BY <1>1, <1>4, <1>5, <1>6, <1>7

(* A list is empty exactly when nobody is in it.                           *)
LEMMA ToSetEmpty ==
    ASSUME NEW S, NEW list \in Seq(S)
    PROVE  ToSet(list) = {} <=> list = <<>>
<1>1. ASSUME list # <<>> PROVE ToSet(list) # {}
  <2>1. 1 \in DOMAIN list BY <1>1
  <2> QED BY <2>1 DEF ToSet
<1>2. ToSet(<<>>) = {}
  BY DEF ToSet
<1> QED BY <1>1, <1>2

-----------------------------------------------------------------------------
(* The order of the lists.                                                 *)

(* Order depends on the priorities of the threads in the list only.        *)
LEMMA SamePriorities ==
    ASSUME NEW S, NEW list \in Seq(S), NEW p, NEW q, IsPrioritized(list, p),
           \A x \in ToSet(list) : q[x] = p[x]
    PROVE  IsPrioritized(list, q)
<1>1. \A k \in 1 .. Len(list) : q[list[k]] = p[list[k]]
  BY ToSetIndex
<1> QED BY <1>1 DEF IsPrioritized

(* What nxsched_add_prioritized() knows of the place i it found for t, and *)
(* the list r it leaves.                                                   *)
StopsAt(list, prio, t, i) ==
    /\ \A j \in 1 .. i - 1 : prio[t] <= prio[list[j]]
    /\ i <= Len(list) => prio[list[i]] < prio[t]

Inserted(list, t, i, r) ==
    /\ Len(r) = Len(list) + 1
    /\ \A j \in 1 .. Len(list) + 1 :
         r[j] = IF j < i THEN list[j] ELSE IF j = i THEN t ELSE list[j - 1]

(* The place nxsched_add_prioritized() finds keeps the order.              *)
LEMMA InsertedSorted ==
    ASSUME NEW S, NEW list \in Seq(S), NEW t \in S, NEW prio \in [S -> Int],
           NEW i \in 1 .. Len(list) + 1, NEW r \in Seq(S),
           StopsAt(list, prio, t, i), Inserted(list, t, i, r),
           IsPrioritized(list, prio)
    PROVE  IsPrioritized(r, prio)
<1> USE DEF StopsAt, Inserted
<1>1. /\ i \in Int /\ Len(list) \in Nat /\ prio[t] \in Int
      /\ \A k \in 1 .. Len(list) : prio[list[k]] \in Int
      /\ r[i] = t
      /\ \A j \in 1 .. i - 1 : r[j] = list[j]
  BY SMTT(30)
<1>2. ASSUME NEW k \in i .. Len(list) PROVE prio[list[k]] <= prio[t]
  <2>1. i \in 1 .. Len(list) /\ k \in 1 .. Len(list) /\ (i = k \/ i < k)
    BY SMTT(30)
  <2>2. prio[list[k]] <= prio[list[i]]
    BY <1>1, <2>1, SMTT(30) DEF IsPrioritized
  <2> QED BY <1>1, <2>1, <2>2, SMTT(30)
<1>3. ASSUME NEW j \in 1 .. Len(r), NEW k \in 1 .. Len(r), j < k
      PROVE  prio[r[k]] <= prio[r[j]]
  <2>0. /\ j \in Int /\ k \in Int
        /\ j \in 1 .. Len(list) + 1 /\ k \in 1 .. Len(list) + 1
    BY SMTT(30)
  <2>1. CASE k < i
    <3>1. /\ j \in 1 .. i - 1 /\ k \in 1 .. i - 1
          /\ j \in 1 .. Len(list) /\ k \in 1 .. Len(list)
      BY <2>0, <2>1, <1>1, <1>3, SMTT(30)
    <3>2. r[j] = list[j] /\ r[k] = list[k]
      BY <3>1, <1>1
    <3> QED BY <3>1, <3>2, <1>3 DEF IsPrioritized
  <2>2. CASE k = i
    <3>1. j \in 1 .. i - 1 /\ r[j] = list[j] /\ r[k] = t
      BY <2>2, <1>1, <1>3, SMTT(30)
    <3> QED BY <3>1
  <2>3. CASE k > i
    <3>1. k - 1 \in i .. Len(list) /\ r[k] = list[k - 1]
      <4>1. k - 1 \in i .. Len(list) /\ (k - 1) + 1 = k
        BY <1>1, <2>0, <2>3, SMTT(30)
      <4>2. r[k] = IF k < i THEN list[k] ELSE IF k = i THEN t ELSE list[k - 1]
        BY <2>0
      <4> QED BY <4>1, <4>2, <2>0, <2>3
    <3>2. CASE j < i
      <4>1. j \in 1 .. Len(list) /\ k - 1 \in 1 .. Len(list) /\ j < k - 1
        BY <3>1, <3>2, <2>3
      <4> QED BY <4>1, <3>1, <3>2, <1>1 DEF IsPrioritized
    <3>3. CASE j = i
      BY <3>1, <3>3, <1>1, <1>2
    <3>4. CASE j > i
      <4>1. j - 1 \in 1 .. Len(list) /\ k - 1 \in 1 .. Len(list)
            /\ j - 1 < k - 1 /\ r[j] = list[j - 1]
        BY <1>1, <2>0, <3>4, <3>1, <1>3
      <4> QED BY <4>1, <3>1 DEF IsPrioritized
    <3> QED BY <3>2, <3>3, <3>4, <1>1
  <2> QED BY <2>1, <2>2, <2>3, <1>1
<1> QED BY <1>3 DEF IsPrioritized

(* nxsched_add_prioritized() keeps the order.                              *)
LEMMA AddPrioritizedSorted ==
    ASSUME NEW S, NEW list \in Seq(S), NEW t \in S, NEW prio \in [S -> Int],
           IsPrioritized(list, prio)
    PROVE  IsPrioritized(AddPrioritized(list, t, prio), prio)
<1>1. PICK i \in 1 .. Len(list) + 1 : i = InsertPos(list, prio, prio[t])
  BY InsertPosFound
<1>2. StopsAt(list, prio, t, i)
  BY <1>1, InsertPosFound DEF StopsAt
<1>3. PICK r \in Seq(S) : r = InsertAt(list, i, t)
  BY InsertAtFacts
<1>4. Inserted(list, t, i, r)
  <2>1. /\ Len(InsertAt(list, i, t)) = Len(list) + 1
        /\ \A j \in 1 .. Len(list) + 1 :
             InsertAt(list, i, t)[j] = IF j < i THEN list[j]
                                       ELSE IF j = i THEN t
                                       ELSE list[j - 1]
    BY InsertAtFacts
  <2> QED BY <2>1, <1>3, Zenon DEF Inserted
<1>5. IsPrioritized(r, prio)
  BY <1>2, <1>4, InsertedSorted
<1>6. r = AddPrioritized(list, t, prio)
  BY <1>1, <1>3, Zenon DEF AddPrioritized
<1> QED BY <1>5, <1>6

(* Taking a thread out of a list keeps the order of the others.            *)
LEMMA DqRemSorted ==
    ASSUME NEW S, NEW list \in Seq(S), NEW t \in ToSet(list), NEW prio,
           IsPrioritized(list, prio)
    PROVE  IsPrioritized(DqRem(list, t), prio)
<1> DEFINE i == IndexOf(list, t)
           r == DqRem(list, t)
           a == SubSeq(list, 1, i - 1)
           b == SubSeq(list, i + 1, Len(list))
<1>1. i \in 1 .. Len(list) /\ list[i] = t
  BY DEF IndexOf, ToSet
<1>2. /\ a \in Seq(S) /\ Len(a) = i - 1
      /\ \A j \in 1 .. i - 1 : a[j] = list[j]
  BY <1>1, SubSeqProperties
<1>3. /\ b \in Seq(S) /\ Len(b) = Len(list) - i
      /\ \A j \in 1 .. Len(list) - i : b[j] = list[i + j]
  BY <1>1, SubSeqProperties
<1>4. r = a \o b
  BY DEF DqRem, RemoveAt
<1> HIDE DEF i, r, a, b
<1>5. /\ r \in Seq(S) /\ Len(r) = Len(list) - 1
      /\ \A j \in 1 .. Len(list) - 1 :
            r[j] = IF j < i THEN a[j] ELSE b[j - (i - 1)]
  <2>1. /\ a \o b \in Seq(S) /\ Len(a \o b) = Len(a) + Len(b)
        /\ \A j \in 1 .. Len(a) + Len(b) :
              (a \o b)[j] = IF j <= Len(a) THEN a[j] ELSE b[j - Len(a)]
    BY <1>2, <1>3, ConcatProperties
  <2>2. Len(a) + Len(b) = Len(list) - 1 /\ i \in Int
    BY <1>1, <1>2, <1>3
  <2> QED BY <1>2, <1>4, <2>1, <2>2
<1>6. \A j \in 1 .. Len(list) - 1 :
         r[j] = IF j < i THEN list[j] ELSE list[j + 1]
  BY <1>1, <1>2, <1>3, <1>5
<1>7. ASSUME NEW j \in 1 .. Len(r), NEW k \in 1 .. Len(r), j < k
      PROVE  prio[r[k]] <= prio[r[j]]
  <2>1. PICK x \in 1 .. Len(list), y \in 1 .. Len(list) :
           x < y /\ r[j] = list[x] /\ r[k] = list[y]
    <3>1. j \in 1 .. Len(list) - 1 /\ k \in 1 .. Len(list) - 1
      BY <1>5
    <3>2. CASE k < i
      BY <1>1, <1>6, <1>7, <3>1, <3>2
    <3>3. CASE j < i /\ i <= k
      <4>1. r[j] = list[j] /\ r[k] = list[k + 1] /\ j < k + 1
        BY <1>1, <1>6, <1>7, <3>1, <3>3
      <4>2. j \in 1 .. Len(list) /\ k + 1 \in 1 .. Len(list)
        BY <3>1
      <4> QED BY <4>1, <4>2
    <3>4. CASE i <= j
      <4>1. r[j] = list[j + 1] /\ r[k] = list[k + 1] /\ j + 1 < k + 1
        BY <1>1, <1>6, <1>7, <3>1, <3>4
      <4>2. j + 1 \in 1 .. Len(list) /\ k + 1 \in 1 .. Len(list)
        BY <3>1
      <4> QED BY <4>1, <4>2
    <3> QED BY <1>1, <1>7, <3>2, <3>3, <3>4
  <2> QED BY <2>1 DEF IsPrioritized
<1>8. IsPrioritized(r, prio)
  BY <1>7 DEF IsPrioritized
<1> QED BY <1>8 DEF r

(* The head has the highest priority, and without it the list is in order. *)
LEMMA HeadHighest ==
    ASSUME NEW S, NEW list \in Seq(S), list # <<>>, NEW prio \in [S -> Int],
           IsPrioritized(list, prio)
    PROVE  /\ \A x \in ToSet(list) : prio[x] <= prio[Head(list)]
           /\ IsPrioritized(Tail(list), prio)
<1>1. /\ Len(list) \in Nat \ {0} /\ Head(list) = list[1]
      /\ Tail(list) \in Seq(S) /\ Len(Tail(list)) = Len(list) - 1
      /\ \A j \in 1 .. Len(list) - 1 : Tail(list)[j] = list[j + 1]
      /\ \A k \in 1 .. Len(list) : prio[list[k]] \in Int
  OBVIOUS
<1>2. ASSUME NEW x \in ToSet(list) PROVE prio[x] <= prio[Head(list)]
  <2>1. PICK k \in 1 .. Len(list) : x = list[k]
    BY ToSetIndex
  <2>2. CASE k = 1
    BY <1>1, <2>1, <2>2
  <2>3. CASE k > 1
    BY <1>1, <2>1, <2>3 DEF IsPrioritized
  <2> QED BY <2>2, <2>3
<1>3. IsPrioritized(Tail(list), prio)
  BY <1>1 DEF IsPrioritized
<1> QED BY <1>2, <1>3

-----------------------------------------------------------------------------
(* Counting.                                                               *)

(* A list without duplicates is as long as the set of its threads.         *)
LEMMA LenIsCardinality ==
    ASSUME NEW S, NEW list \in Seq(S), NoDuplicates(list)
    PROVE  IsFiniteSet(ToSet(list)) /\ Cardinality(ToSet(list)) = Len(list)
<1>1. Len(list) \in Nat /\ DOMAIN list = 1 .. Len(list)
  OBVIOUS
<1>2. list \in [1 .. Len(list) -> ToSet(list)]
  BY ToSetIndex, <1>1
<1>3. list \in Bijection(1 .. Len(list), ToSet(list))
  <2>1. \A a, b \in 1 .. Len(list) : list[a] = list[b] => a = b
    BY DEF NoDuplicates
  <2>2. \A x \in ToSet(list) : \E k \in 1 .. Len(list) : list[k] = x
    BY ToSetIndex
  <2> QED BY <1>2, <2>1, <2>2, Zenon
          DEF Bijection, Injection, Surjection, IsInjective
<1>4. ExistsBijection(1 .. Len(list), ToSet(list))
  BY <1>3 DEF ExistsBijection
<1> QED BY <1>1, <1>4, FS_NatBijection, FS_CountingElements

(* The first n threads of a list, and what remains without them.           *)
FirstOf(list, n) == {list[i] : i \in 1 .. n}

DropFirst(list, n) == SubSeq(list, n + 1, Len(list))

(* Taking out the first n threads takes out n threads, and no other.       *)
LEMMA DropFacts ==
    ASSUME NEW S, NEW list \in Seq(S), NoDuplicates(list),
           NEW n \in 0 .. Len(list)
    PROVE  /\ DropFirst(list, n) \in Seq(S)
           /\ Len(DropFirst(list, n)) = Len(list) - n
           /\ FirstOf(list, n) \subseteq ToSet(list)
           /\ ToSet(DropFirst(list, n)) = ToSet(list) \ FirstOf(list, n)
           /\ NoDuplicates(DropFirst(list, n))
           /\ IsFiniteSet(FirstOf(list, n)) /\ Cardinality(FirstOf(list, n)) = n
<1>a. PICK first : first = FirstOf(list, n)
  OBVIOUS
<1>b. PICK rest : rest = DropFirst(list, n)
  OBVIOUS
<1>c. first = {list[i] : i \in 1 .. n}
  BY <1>a DEF FirstOf
<1>0. Len(list) \in Nat /\ n \in Nat /\ n <= Len(list)
  OBVIOUS
<1>1. /\ rest \in Seq(S) /\ Len(rest) = Len(list) - n
      /\ \A j \in 1 .. Len(list) - n : rest[j] = list[n + j]
  <2>1. \A i \in n + 1 .. Len(list) : list[i] \in S
    OBVIOUS
  <2>2. /\ rest \in Seq(S)
        /\ Len(rest) = IF n + 1 <= Len(list) THEN Len(list) - (n + 1) + 1 ELSE 0
        /\ \A j \in 1 .. Len(list) - (n + 1) + 1 : rest[j] = list[n + 1 + j - 1]
    BY <1>0, <1>b, <2>1, SubSeqProperties DEF DropFirst
  <2> QED BY <1>0, <2>2
<1>2. first \subseteq ToSet(list)
  BY <1>0, <1>c, ToSetIndex
<1>3. NoDuplicates(rest)
  <2> SUFFICES ASSUME NEW i \in 1 .. Len(rest), NEW j \in 1 .. Len(rest),
                      rest[i] = rest[j]
               PROVE  i = j
    BY DEF NoDuplicates
  <2>1. n + i \in 1 .. Len(list) /\ n + j \in 1 .. Len(list)
    BY <1>0, <1>1
  <2>2. list[n + i] = list[n + j]
    BY <1>1
  <2>3. n + i = n + j
    BY <2>1, <2>2 DEF NoDuplicates
  <2> QED BY <1>0, <2>3
<1>4. ToSet(rest) \subseteq ToSet(list) \ first
  <2> SUFFICES ASSUME NEW x \in ToSet(rest) PROVE x \in ToSet(list) \ first
    OBVIOUS
  <2>0. PICK j \in 1 .. Len(rest) : x = rest[j]
    BY <1>1, ToSetIndex, Zenon
  <2>1. j \in 1 .. Len(list) - n /\ x = list[n + j]
    BY <1>1, <2>0
  <2>2. n + j \in 1 .. Len(list) /\ n + j \notin 1 .. n
    BY <1>0, <2>1
  <2> QED BY <1>0, <1>c, <2>1, <2>2, ToSetIndex DEF NoDuplicates
<1>5. ToSet(list) \ first \subseteq ToSet(rest)
  <2> SUFFICES ASSUME NEW x \in ToSet(list), x \notin first PROVE x \in ToSet(rest)
    OBVIOUS
  <2>1. PICK k \in 1 .. Len(list) : x = list[k]
    BY ToSetIndex
  <2>2. k - n \in 1 .. Len(rest) /\ rest[k - n] = list[k]
    BY <1>0, <1>1, <1>c, <2>1
  <2>3. rest[k - n] \in ToSet(rest)
    <3>1. \A i \in 1 .. Len(rest) : rest[i] \in ToSet(rest)
      BY <1>1, ToSetIndex, Zenon
    <3> QED BY <2>2, <3>1, Zenon
  <2> QED BY <2>1, <2>2, <2>3
<1>6. IsFiniteSet(first) /\ Cardinality(first) = n
  <2>1. /\ IsFiniteSet(ToSet(list)) /\ Cardinality(ToSet(list)) = Len(list)
        /\ Cardinality(ToSet(rest)) = Len(rest)
    BY <1>1, <1>3, LenIsCardinality
  <2>2. ToSet(rest) = ToSet(list) \ first /\ first = ToSet(list) \cap first
    BY <1>2, <1>4, <1>5
  <2>3. IsFiniteSet(first) /\ Cardinality(first) \in Nat
    BY <1>2, <2>1, FS_Subset, FS_CardinalityType
  <2>4. Cardinality(ToSet(rest)) = Cardinality(ToSet(list)) - Cardinality(first)
    <3>1. Cardinality(ToSet(list) \ first)
            = Cardinality(ToSet(list)) - Cardinality(ToSet(list) \cap first)
      BY <2>1, FS_Difference
    <3> QED BY <2>2, <3>1
  <2> QED BY <1>0, <1>1, <2>1, <2>3, <2>4
<1>7. ToSet(rest) = ToSet(list) \ first
  BY <1>4, <1>5
<1> QED BY <1>a, <1>b, <1>1, <1>2, <1>3, <1>6, <1>7

-----------------------------------------------------------------------------
(* Sums over threads, or over semaphores.  FoldFunction is defined by a    *)
(* recursive function on the subsets of the domain that picks the elements *)
(* in some order; the lemmas say that the function exists and that the     *)
(* order is irrelevant.                                                    *)

Total(f) == FoldFunction(LAMBDA a, b : a + b, 0, f)

Pick(s) == CHOOSE x \in s : TRUE

(* What FoldFunction makes of the subset s, given the values h for the     *)
(* smaller ones.                                                           *)
Layer(f, h, s) == IF s = {} THEN 0 ELSE f[Pick(s)] + h[s \ {Pick(s)}]

Sums(f) == CHOOSE h : h = [s \in SUBSET DOMAIN f |-> Layer(f, h, s)]

LEMMA TotalIsSums ==
    ASSUME NEW f
    PROVE  Total(f) = Sums(f)[DOMAIN f]
BY Zenon DEF Total, Sums, Layer, Pick, FoldFunction, FoldFunctionOnSet, MapThenFoldSet

LEMMA PickIn ==
    ASSUME NEW s, s # {}
    PROVE  Pick(s) \in s
BY DEF Pick

(* There is such a function: for the subsets of at most n elements, by     *)
(* induction on n.                                                         *)
LEMMA SumsExist ==
    ASSUME NEW D, IsFiniteSet(D), NEW f \in [D -> Int]
    PROVE  \E h \in [SUBSET D -> Int] : \A s \in SUBSET D : h[s] = Layer(f, h, s)
<1> DEFINE Upto(n) == {s \in SUBSET D : Cardinality(s) <= n}
           Good(n) == \E h \in [Upto(n) -> Int] :
                        \A s \in Upto(n) : h[s] = Layer(f, h, s)
           Bad == {n \in Nat : ~Good(n)}
<1>0. \A s \in SUBSET D : IsFiniteSet(s) /\ Cardinality(s) \in Nat
  BY FS_Subset, FS_CardinalityType
<1>1. Good(0)
  <2> DEFINE h == [s \in Upto(0) |-> 0]
  <2>1. \A s \in Upto(0) : s = {}
    BY <1>0, FS_EmptySet
  <2>2. \A s \in Upto(0) : h[s] = Layer(f, h, s)
    BY <2>1 DEF Layer
  <2>3. h \in [Upto(0) -> Int]
    OBVIOUS
  <2> QED BY <2>2, <2>3
<1>2. ASSUME NEW n \in Nat, Good(n) PROVE Good(n + 1)
  <2>1. PICK h \in [Upto(n) -> Int] : \A s \in Upto(n) : h[s] = Layer(f, h, s)
    BY <1>2
  <2> DEFINE g == [s \in Upto(n + 1) |-> Layer(f, h, s)]
  <2>2. \A s \in Upto(n + 1) : s # {} =>
          /\ Pick(s) \in s /\ Pick(s) \in D /\ f[Pick(s)] \in Int
          /\ s \ {Pick(s)} \in Upto(n) /\ s \ {Pick(s)} \in Upto(n + 1)
    <3> SUFFICES ASSUME NEW s \in Upto(n + 1), s # {}
                 PROVE  /\ Pick(s) \in s /\ Pick(s) \in D /\ f[Pick(s)] \in Int
                        /\ s \ {Pick(s)} \in Upto(n)
                        /\ s \ {Pick(s)} \in Upto(n + 1)
      OBVIOUS
    <3>1. Pick(s) \in s
      BY PickIn
    <3>2. Cardinality(s \ {Pick(s)}) = Cardinality(s) - 1
      BY <1>0, <3>1, FS_RemoveElement
    <3> QED BY <1>0, <3>1, <3>2
  <2>3. \A s \in Upto(n + 1) : s \in Upto(n) => g[s] = h[s]
    BY <2>1
  <2>4. ASSUME NEW s \in Upto(n + 1) PROVE g[s] = Layer(f, g, s) /\ g[s] \in Int
    <3>1. CASE s = {}
      BY <3>1 DEF Layer
    <3>2. CASE s # {}
      <4>1. g[s \ {Pick(s)}] = h[s \ {Pick(s)}]
        BY <2>2, <2>3, <3>2
      <4>2. g[s] = f[Pick(s)] + h[s \ {Pick(s)}]
        BY <3>2 DEF Layer
      <4>3. h[s \ {Pick(s)}] \in Int
        BY <2>2, <3>2
      <4>4. Layer(f, g, s) = f[Pick(s)] + g[s \ {Pick(s)}]
        BY <3>2 DEF Layer
      <4> HIDE DEF g
      <4> QED BY <4>1, <4>2, <4>3, <4>4, <2>2, <3>2
    <3> QED BY <3>1, <3>2
  <2>5. g \in [Upto(n + 1) -> Int]
    BY <2>4
  <2> QED BY <2>4, <2>5
<1>3. \A n \in Nat : Good(n)
  <2> HIDE DEF Good
  <2> SUFFICES ASSUME Bad # {} PROVE FALSE
    OBVIOUS
  <2>1. PICK n \in Bad : \A m \in Bad : n <= m
    <3>1. Bad \subseteq Nat
      OBVIOUS
    <3> HIDE DEF Bad
    <3> QED BY <3>1, LeastNatural
  <2>2. n # 0
    BY <1>1
  <2>3. n - 1 \in Nat /\ Good(n - 1)
    BY <2>1, <2>2
  <2>4. Good((n - 1) + 1)
    BY <2>3, <1>2
  <2> QED BY <2>4
<1>4. Cardinality(D) \in Nat /\ \A s \in SUBSET D : Cardinality(s) <= Cardinality(D)
  BY FS_CardinalityType, FS_Subset
<1>5. Upto(Cardinality(D)) = SUBSET D
  BY <1>4
<1>6. PICK h \in [SUBSET D -> Int] : \A s \in SUBSET D : h[s] = Layer(f, h, s)
  <2>1. Good(Cardinality(D))
    BY <1>3, <1>4
  <2> HIDE DEF Upto
  <2> QED BY <2>1, <1>5
<1> QED BY <1>6

(* Among subsets of a finite set there is a smallest: a property that can  *)
(* fail for a subset fails for one all of whose own subsets have it.       *)
LEMMA LeastSet ==
    ASSUME NEW D, IsFiniteSet(D), NEW B \in SUBSET SUBSET D, B # {}
    PROVE  \E s \in B : \A x \in s : s \ {x} \notin B
<1> DEFINE Sizes == {n \in Nat : \E s \in B : n = Cardinality(s)}
<1>1. \A s \in B : IsFiniteSet(s) /\ Cardinality(s) \in Nat
  BY FS_Subset, FS_CardinalityType
<1>2. Sizes # {} /\ Sizes \subseteq Nat
  BY <1>1
<1>3. PICK n \in Sizes : \A m \in Sizes : n <= m
  <2> HIDE DEF Sizes
  <2> QED BY <1>2, LeastNatural
<1>4. PICK s \in B : n = Cardinality(s)
  BY <1>3
<1>5. ASSUME NEW x \in s, s \ {x} \in B PROVE FALSE
  <2>1. Cardinality(s \ {x}) = Cardinality(s) - 1
    BY <1>1, FS_RemoveElement
  <2> QED BY <1>1, <1>3, <1>4, <1>5, <2>1
<1> QED BY <1>5

LEMMA SumsFacts ==
    ASSUME NEW D, IsFiniteSet(D), NEW f \in [D -> Int]
    PROVE  /\ \A s \in SUBSET D : Sums(f)[s] \in Int
           /\ Sums(f)[{}] = 0
           /\ \A s \in SUBSET D : s # {} =>
                Sums(f)[s] = f[Pick(s)] + Sums(f)[s \ {Pick(s)}]
<1>1. DOMAIN f = D
  OBVIOUS
<1>2. Sums(f) = [s \in SUBSET D |-> Layer(f, Sums(f), s)]
  <2>1. PICK h \in [SUBSET D -> Int] : \A s \in SUBSET D : h[s] = Layer(f, h, s)
    BY SumsExist
  <2>2. h = [s \in SUBSET D |-> Layer(f, h, s)]
    BY <2>1
  <2> QED BY <2>2, <1>1, Zenon DEF Sums
<1>3. PICK h : h = Sums(f)
  OBVIOUS
<1>4. \A s \in SUBSET D : h[s] = Layer(f, h, s)
  BY <1>2, <1>3
<1>5. h[{}] = 0 /\ \A s \in SUBSET D : s # {} => h[s] = f[Pick(s)] + h[s \ {Pick(s)}]
  BY <1>4 DEF Layer
<1> DEFINE B == {s \in SUBSET D : h[s] \notin Int}
<1>6. B = {}
  <2> SUFFICES ASSUME B # {} PROVE FALSE
    OBVIOUS
  <2>0. B \in SUBSET SUBSET D
    OBVIOUS
  <2>1. PICK s \in B : \A x \in s : s \ {x} \notin B
    <3> HIDE DEF B
    <3> QED BY <2>0, LeastSet
  <2>2. s \in SUBSET D /\ h[s] \notin Int
    OBVIOUS
  <2>3. s # {}
    <3>1. 0 \in Int
      OBVIOUS
    <3> QED BY <1>5, <2>2, <3>1, Zenon
  <2>4. Pick(s) \in s
    BY <2>3, PickIn
  <2>5. h[s \ {Pick(s)}] \in Int /\ f[Pick(s)] \in Int
    BY <2>1, <2>2, <2>4
  <2>6. h[s] = f[Pick(s)] + h[s \ {Pick(s)}]
    BY <1>5, <2>2, <2>3
  <2> QED BY <2>2, <2>5, <2>6
<1> QED BY <1>3, <1>5, <1>6

(* The order is irrelevant: any element may be taken out first.            *)
LEMMA SumsTakeOut ==
    ASSUME NEW D, IsFiniteSet(D), NEW f \in [D -> Int]
    PROVE  \A s \in SUBSET D : \A y \in s : Sums(f)[s] = f[y] + Sums(f)[s \ {y}]
<1>1. PICK h : h = Sums(f)
  OBVIOUS
<1>2. /\ \A r \in SUBSET D : h[r] \in Int
      /\ \A r \in SUBSET D : r # {} => h[r] = f[Pick(r)] + h[r \ {Pick(r)}]
  BY <1>1, SumsFacts, ZenonT(90)
<1> DEFINE B == {r \in SUBSET D : \E z \in r : h[r] # f[z] + h[r \ {z}]}
<1>3. B = {}
  <2> SUFFICES ASSUME B # {} PROVE FALSE
    OBVIOUS
  <2>0. B \in SUBSET SUBSET D
    OBVIOUS
  <2>1. PICK r \in B : \A x \in r : r \ {x} \notin B
    <3> HIDE DEF B
    <3> QED BY <2>0, LeastSet
  <2>2. PICK z \in r : h[r] # f[z] + h[r \ {z}]
    OBVIOUS
  <2>3. PICK x : x = Pick(r)
    OBVIOUS
  <2>4. x \in r /\ h[r] = f[x] + h[r \ {x}]
    BY <1>2, <2>3, PickIn
  <2>5. x # z
    BY <2>2, <2>4
  <2>6. h[r \ {x}] = f[z] + h[(r \ {x}) \ {z}]
    BY <2>1, <2>4, <2>5
  <2>7. h[r \ {z}] = f[x] + h[(r \ {z}) \ {x}]
    BY <2>1, <2>4, <2>5
  <2>8. (r \ {x}) \ {z} = (r \ {z}) \ {x}
    OBVIOUS
  <2>9. /\ f[x] \in Int /\ f[z] \in Int
        /\ h[r \ {x}] \in Int /\ h[r \ {z}] \in Int /\ h[(r \ {z}) \ {x}] \in Int
    BY <1>2, <2>4
  <2>10. h[r \ {x}] = f[z] + h[(r \ {z}) \ {x}]
    BY <2>6, <2>8
  <2> HIDE DEF B
  <2> QED BY <2>2, <2>4, <2>7, <2>9, <2>10
<1> QED BY <1>1, <1>3

(* Functions that agree on a set have the same sum there.                  *)
LEMMA SumsAgree ==
    ASSUME NEW D, IsFiniteSet(D), NEW f \in [D -> Int], NEW g \in [D -> Int],
           NEW s \in SUBSET D, \A x \in s : f[x] = g[x]
    PROVE  Sums(f)[s] = Sums(g)[s]
<1>1. PICK h : h = Sums(f)
  OBVIOUS
<1>2. PICK k : k = Sums(g)
  OBVIOUS
<1>3. /\ h[{}] = 0
      /\ \A r \in SUBSET D : r # {} => h[r] = f[Pick(r)] + h[r \ {Pick(r)}]
  BY <1>1, SumsFacts, ZenonT(90)
<1>4. /\ k[{}] = 0
      /\ \A r \in SUBSET D : r # {} => k[r] = g[Pick(r)] + k[r \ {Pick(r)}]
  BY <1>2, SumsFacts, ZenonT(90)
<1> DEFINE B == {r \in SUBSET s : h[r] # k[r]}
<1>5. B = {}
  <2> SUFFICES ASSUME B # {} PROVE FALSE
    OBVIOUS
  <2>0. B \in SUBSET SUBSET D
    OBVIOUS
  <2>1. PICK r \in B : \A x \in r : r \ {x} \notin B
    <3> HIDE DEF B
    <3> QED BY <2>0, LeastSet
  <2>2. r # {} /\ Pick(r) \in r
    BY <1>3, <1>4, PickIn
  <2>3. h[r \ {Pick(r)}] = k[r \ {Pick(r)}] /\ f[Pick(r)] = g[Pick(r)]
    BY <2>1, <2>2
  <2> QED BY <1>3, <1>4, <2>2, <2>3
<1> QED BY <1>1, <1>2, <1>5

(* What a change of one thread's value does to the total.                  *)
LEMMA TotalChange ==
    ASSUME NEW D, IsFiniteSet(D), NEW f \in [D -> Int], NEW t \in D, NEW v \in Int
    PROVE  /\ Total(f) \in Int
           /\ Total([f EXCEPT ![t] = v]) = Total(f) - f[t] + v
<1>1. PICK g : g = [f EXCEPT ![t] = v]
  OBVIOUS
<1>2. g \in [D -> Int] /\ g[t] = v /\ \A x \in D \ {t} : f[x] = g[x]
  BY <1>1
<1>3. DOMAIN f = D /\ DOMAIN g = D
  BY <1>2
<1>4. Sums(f)[D] = f[t] + Sums(f)[D \ {t}] /\ Sums(g)[D] = g[t] + Sums(g)[D \ {t}]
  <2>1. D \in SUBSET D
    OBVIOUS
  <2>2. Sums(f)[D] = f[t] + Sums(f)[D \ {t}]
    BY <2>1, SumsTakeOut
  <2>3. Sums(g)[D] = g[t] + Sums(g)[D \ {t}]
    BY <1>2, <2>1, SumsTakeOut
  <2> QED BY <2>2, <2>3
<1>5. Sums(f)[D \ {t}] = Sums(g)[D \ {t}]
  BY <1>2, SumsAgree
<1>6. Sums(f)[D \ {t}] \in Int /\ Sums(f)[D] \in Int
  BY SumsFacts
<1>7. Total(f) = Sums(f)[D] /\ Total(g) = Sums(g)[D]
  BY <1>3, TotalIsSums
<1> QED BY <1>1, <1>2, <1>4, <1>5, <1>6, <1>7

(* The total of naturals bounds each of them; that of zeros is zero.       *)
LEMMA TotalNat ==
    ASSUME NEW D, IsFiniteSet(D), NEW f \in [D -> Nat]
    PROVE  /\ Total(f) \in Nat
           /\ \A t \in D : f[t] <= Total(f)
           /\ (\A t \in D : f[t] = 0) => Total(f) = 0
<1>0. f \in [D -> Int]
  OBVIOUS
<1>1. PICK h : h = Sums(f)
  OBVIOUS
<1>2. /\ h[{}] = 0
      /\ \A r \in SUBSET D : h[r] \in Int
      /\ \A r \in SUBSET D : r # {} => h[r] = f[Pick(r)] + h[r \ {Pick(r)}]
  BY <1>0, <1>1, SumsFacts
<1> DEFINE B == {r \in SUBSET D : ~(h[r] \in Nat)}
           C == {r \in SUBSET D : (\A x \in D : f[x] = 0) /\ h[r] # 0}
<1>3. B = {}
  <2> SUFFICES ASSUME B # {} PROVE FALSE
    OBVIOUS
  <2>0. B \in SUBSET SUBSET D
    OBVIOUS
  <2>1. PICK r \in B : \A x \in r : r \ {x} \notin B
    <3> HIDE DEF B
    <3> QED BY <2>0, LeastSet
  <2>2. r \in SUBSET D /\ h[r] \notin Nat
    OBVIOUS
  <2>3. r # {}
    <3>1. 0 \in Nat
      OBVIOUS
    <3> QED BY <1>2, <2>2, <3>1, Zenon
  <2>4. Pick(r) \in r
    BY <2>3, PickIn
  <2>5. h[r \ {Pick(r)}] \in Nat /\ f[Pick(r)] \in Nat
    BY <2>1, <2>2, <2>4
  <2>6. h[r] = f[Pick(r)] + h[r \ {Pick(r)}]
    BY <1>2, <2>2, <2>3
  <2> QED BY <2>2, <2>5, <2>6
<1>4. C = {}
  <2> SUFFICES ASSUME C # {} PROVE FALSE
    OBVIOUS
  <2>0. C \in SUBSET SUBSET D
    OBVIOUS
  <2>1. PICK r \in C : \A x \in r : r \ {x} \notin C
    <3> HIDE DEF C
    <3> QED BY <2>0, LeastSet
  <2>2. r \in SUBSET D /\ h[r] # 0 /\ \A x \in D : f[x] = 0
    OBVIOUS
  <2>3. r # {}
    BY <1>2, <2>2
  <2>4. Pick(r) \in r
    BY <2>3, PickIn
  <2>5. h[r \ {Pick(r)}] = 0 /\ f[Pick(r)] = 0
    BY <2>1, <2>2, <2>4
  <2>6. h[r] = f[Pick(r)] + h[r \ {Pick(r)}]
    BY <1>2, <2>2, <2>3
  <2> QED BY <2>2, <2>5, <2>6
<1>5. Total(f) = h[D]
  <2>1. DOMAIN f = D
    OBVIOUS
  <2> QED BY <1>1, <2>1, TotalIsSums
<1>6. \A t \in D : h[D] = f[t] + h[D \ {t}]
  BY <1>0, <1>1, SumsTakeOut
<1>7. \A t \in D : h[D \ {t}] \in Nat
  BY <1>3
<1>8. h[D] \in Nat /\ \A t \in D : f[t] <= h[D]
  <2>1. h[D] \in Nat
    BY <1>3
  <2>2. ASSUME NEW t \in D PROVE f[t] <= h[D]
    <3>1. f[t] \in Nat
      OBVIOUS
    <3> HIDE DEF B, C
    <3>2. h[D] = f[t] + h[D \ {t}] /\ h[D \ {t}] \in Nat
      BY <1>6, <1>7
    <3>3. \A a, b, c : a \in Nat /\ b \in Nat /\ c = a + b => a <= c
      OBVIOUS
    <3> QED BY <3>1, <3>2, <3>3, Zenon
  <2> QED BY <2>1, <2>2
<1>9. (\A t \in D : f[t] = 0) => h[D] = 0
  BY <1>4
<1> QED BY <1>5, <1>8, <1>9

(* A sum is at most the sum of bounds of its terms.                        *)
LEMMA TotalBelow ==
    ASSUME NEW D, IsFiniteSet(D), NEW f \in [D -> Nat], NEW g \in [D -> Nat],
           \A x \in D : f[x] <= g[x]
    PROVE  Total(f) <= Total(g)
<1>0. f \in [D -> Int] /\ g \in [D -> Int] /\ DOMAIN f = D /\ DOMAIN g = D
  OBVIOUS
<1>1. PICK h : h = Sums(f)
  OBVIOUS
<1>2. PICK k : k = Sums(g)
  OBVIOUS
<1>3. /\ h[{}] = 0
      /\ \A r \in SUBSET D : h[r] \in Int
      /\ \A r \in SUBSET D : r # {} => h[r] = f[Pick(r)] + h[r \ {Pick(r)}]
  BY <1>0, <1>1, SumsFacts, ZenonT(90)
<1>4. /\ k[{}] = 0
      /\ \A r \in SUBSET D : k[r] \in Int
      /\ \A r \in SUBSET D : r # {} => k[r] = g[Pick(r)] + k[r \ {Pick(r)}]
  BY <1>0, <1>2, SumsFacts, ZenonT(90)
<1> DEFINE B == {r \in SUBSET D : ~(h[r] <= k[r])}
<1>5. B = {}
  <2> SUFFICES ASSUME B # {} PROVE FALSE
    OBVIOUS
  <2>0. B \in SUBSET SUBSET D
    OBVIOUS
  <2>1. PICK r \in B : \A x \in r : r \ {x} \notin B
    <3> HIDE DEF B
    <3> QED BY <2>0, LeastSet
  <2>2. r \in SUBSET D /\ ~(h[r] <= k[r])
    OBVIOUS
  <2>3. r # {}
    <3>1. 0 <= 0
      OBVIOUS
    <3> QED BY <1>3, <1>4, <2>2, <3>1, Zenon
  <2>4. PICK x : x = Pick(r)
    OBVIOUS
  <2>5. x \in r /\ x \in D
    BY <2>2, <2>3, <2>4, PickIn
  <2>6. h[r] = f[x] + h[r \ {x}] /\ k[r] = g[x] + k[r \ {x}]
    BY <1>3, <1>4, <2>2, <2>3, <2>4
  <2>7. f[x] \in Nat /\ g[x] \in Nat /\ f[x] <= g[x]
    BY <2>5
  <2>8. h[r \ {x}] \in Int /\ k[r \ {x}] \in Int /\ h[r \ {x}] <= k[r \ {x}]
    BY <1>3, <1>4, <2>1, <2>2, <2>5
  <2> QED BY <2>2, <2>6, <2>7, <2>8
<1>6. Total(f) = h[D] /\ Total(g) = k[D]
  BY <1>0, <1>1, <1>2, TotalIsSums
<1> QED BY <1>5, <1>6

(* No more terms than the sum are positive.                                *)
LEMMA TotalCounts ==
    ASSUME NEW D, IsFiniteSet(D), NEW f \in [D -> Nat]
    PROVE  Cardinality({x \in D : f[x] > 0}) <= Total(f)
<1>0. f \in [D -> Int] /\ DOMAIN f = D
  OBVIOUS
<1>1. PICK h : h = Sums(f)
  OBVIOUS
<1>3. /\ h[{}] = 0
      /\ \A r \in SUBSET D : h[r] \in Int
      /\ \A r \in SUBSET D : r # {} => h[r] = f[Pick(r)] + h[r \ {Pick(r)}]
  BY <1>0, <1>1, SumsFacts, ZenonT(90)
<1> DEFINE P(r) == {x \in r : f[x] > 0}
           B == {r \in SUBSET D : ~(Cardinality(P(r)) <= h[r])}
<1>4. \A r \in SUBSET D : IsFiniteSet(P(r)) /\ Cardinality(P(r)) \in Nat
  <2> SUFFICES ASSUME NEW r \in SUBSET D
               PROVE  IsFiniteSet(P(r)) /\ Cardinality(P(r)) \in Nat
    OBVIOUS
  <2>1. P(r) \subseteq D
    OBVIOUS
  <2> HIDE DEF P
  <2> QED BY <2>1, FS_Subset, FS_CardinalityType
<1>5. B = {}
  <2> SUFFICES ASSUME B # {} PROVE FALSE
    OBVIOUS
  <2>0. B \in SUBSET SUBSET D
    OBVIOUS
  <2>1. PICK r \in B : \A x \in r : r \ {x} \notin B
    <3> HIDE DEF B
    <3> QED BY <2>0, LeastSet
  <2>2. r \in SUBSET D /\ ~(Cardinality(P(r)) <= h[r])
    OBVIOUS
  <2>3. r # {}
    <3>1. P({}) = {}
      OBVIOUS
    <3>2. Cardinality({}) = 0
      BY FS_EmptySet
    <3>3. 0 <= 0
      OBVIOUS
    <3> HIDE DEF P, B
    <3> QED BY <1>3, <2>2, <3>1, <3>2, <3>3, Zenon
  <2>4. PICK x : x = Pick(r)
    OBVIOUS
  <2>5. x \in r /\ x \in D
    BY <2>2, <2>3, <2>4, PickIn
  <2>6. h[r] = f[x] + h[r \ {x}] /\ f[x] \in Nat /\ h[r \ {x}] \in Int
    BY <1>3, <2>2, <2>3, <2>4, <2>5
  <2>7. PICK n \in Nat : n = Cardinality(P(r \ {x})) /\ n <= h[r \ {x}]
    <3>1. r \ {x} \in SUBSET D
      BY <2>2
    <3>2. Cardinality(P(r \ {x})) <= h[r \ {x}]
      BY <2>1, <2>5, <3>1
    <3> HIDE DEF P, B
    <3> QED BY <1>4, <3>1, <3>2
  <2>8. CASE f[x] > 0
    <3>1. P(r \ {x}) = P(r) \ {x} /\ x \in P(r)
      BY <2>5, <2>8
    <3> HIDE DEF P, B
    <3>2. Cardinality(P(r) \ {x}) = Cardinality(P(r)) - 1
      BY <1>4, <2>2, <3>1, FS_RemoveElement
    <3>3. PICK m \in Nat : m = Cardinality(P(r))
      BY <1>4, <2>2
    <3>4. n = m - 1 /\ ~(m <= h[r])
      BY <2>2, <2>7, <3>1, <3>2, <3>3
    <3>5. PICK i \in Int : i = h[r \ {x}]
      BY <2>6
    <3>6. PICK v \in Nat : v = f[x]
      BY <2>6
    <3>7. n <= i /\ v > 0 /\ ~(m <= v + i)
      BY <2>6, <2>7, <2>8, <3>4, <3>5, <3>6
    <3> QED BY <3>4, <3>7
  <2>9. CASE ~(f[x] > 0)
    <3>1. P(r \ {x}) = P(r)
      BY <2>9
    <3> HIDE DEF P, B
    <3> QED BY <2>2, <2>6, <2>7, <3>1
  <2> QED BY <2>8, <2>9
<1>6. Total(f) = h[D]
  BY <1>0, <1>1, TotalIsSums
<1>7. Cardinality(P(D)) <= h[D]
  BY <1>5
<1> QED BY <1>6, <1>7
=============================================================================
