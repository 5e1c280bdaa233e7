---------------------------- MODULE NxSemProofs -----------------------------
(***************************************************************************)
(* The counting semaphore for any number of threads, any priorities and    *)
(* any set of uses, where signals do not stop a thread inside its wait     *)
(* (StopSignal = FALSE): the invariants, and that it implements Semaphore. *)
(***************************************************************************)
EXTENDS NxSem, PrioListProofs

(* The types, with no bound on the count.                                  *)
Typed ==
    /\ count \in Int
    /\ waitlist \in Seq(Threads)
    /\ csec \in Threads \cup {None}
    /\ pc \in [Threads -> Locs]
    /\ old \in [Threads -> Int]
    /\ timed \in [Threads -> BOOLEAN]
    /\ waitdog \in [Threads -> BOOLEAN]
    /\ errcode \in [Threads -> {"OK", "EINTR", "ECANCELED", "ETIMEDOUT"}]
    /\ sigpend \in [Threads -> BOOLEAN]
    /\ left \in [Threads -> 0 .. CountCap]
    /\ use \in Uses

(* The count says how many wait, inside the critical section too: what     *)
(* changes one of the count and the list changes the other in one step.    *)
CountInv == Len(waitlist) = IF count < 0 THEN -count ELSE 0

(* What the exchanges expect: the fast paths never cross zero.             *)
OldInv ==
    \A t \in Threads :
        /\ pc[t] \in {"try_cas", "wait_cas"} => old[t] >= 1
        /\ pc[t] = "post_cas" => old[t] >= 0

(* Who waits has not been told of an error.                                *)
WaitersInv ==
    /\ ToSet(waitlist) = {t \in Threads : pc[t] = "blocked"}
    /\ NoDuplicates(waitlist)
    /\ \A t \in Threads : pc[t] = "blocked" => errcode[t] = "OK"

(* The posts under way may still raise the count by one each.              *)
Posters ==
    {t \in Threads : pc[t] \in {"post_read", "post_cas", "post_slow", "post_slow_cas"}}

PostersInv == count + Cardinality(Posters) <= CountCap + Cardinality(Threads)

IInv ==
    /\ Typed
    /\ CountInv
    /\ OldInv
    /\ WaitersInv
    /\ PostersInv
    /\ SignalNotMissed

(* Sets of threads are finite.                                             *)
LEMMA ThreadSets ==
    ASSUME NEW X \in SUBSET Threads
    PROVE  /\ IsFiniteSet(X) /\ Cardinality(X) \in Nat
           /\ Cardinality(X) <= Cardinality(Threads)
           /\ Cardinality(Threads) \in Nat
BY SemConstants, FS_Subset, FS_CardinalityType

(* The invariant bounds the count, from below by the number of waiters.    *)
LEMMA InvTypeOK ==
    ASSUME IInv PROVE TypeOK
<1>1. Len(waitlist) <= Cardinality(Threads) /\ Len(waitlist) \in Nat
  <2>1. ToSet(waitlist) \in SUBSET Threads
    BY DEF IInv, WaitersInv
  <2>2. Cardinality(ToSet(waitlist)) = Len(waitlist)
    BY LenIsCardinality DEF IInv, Typed, WaitersInv
  <2> QED BY <2>1, <2>2, ThreadSets
<1>2. Cardinality(Posters) \in Nat /\ Cardinality(Threads) \in Nat
  BY ThreadSets DEF Posters
<1>3. CountCap \in Nat
  BY SemConstants
<1>4. -Cardinality(Threads) <= count
  BY <1>1, <1>2 DEF IInv, CountInv, Typed
<1>5. count <= CountCap + Cardinality(Threads)
  BY <1>2, <1>3 DEF IInv, PostersInv, Typed
<1> QED BY <1>2, <1>3, <1>4, <1>5 DEF IInv, Typed, TypeOK

(* The end of a wait keeps the types, and touches only the thread itself.  *)
LEMMA ReturnFacts ==
    ASSUME Typed, NEW t \in Threads, NEW l \in {"idle", "got"}, Return(t, l)
    PROVE  /\ csec' \in Threads \cup {None}
           /\ pc' = [pc EXCEPT ![t] = l] /\ pc' \in [Threads -> Locs]
           /\ old' = [old EXCEPT ![t] = 0] /\ old' \in [Threads -> Int]
           /\ timed' \in [Threads -> BOOLEAN]
           /\ waitdog' \in [Threads -> BOOLEAN]
           /\ errcode' = [errcode EXCEPT ![t] = "OK"]
           /\ errcode' \in [Threads -> {"OK", "EINTR", "ECANCELED", "ETIMEDOUT"}]
           /\ sigpend' = [sigpend EXCEPT ![t] = FALSE]
           /\ sigpend' \in [Threads -> BOOLEAN]
BY DEF Typed, Return, Goto, Expect, LeaveCsec, Locs

(* Steps that leave the list of waiters alone and take a unit or none.     *)
LEMMA QuietInv ==
    ASSUME IInv, Typed', OldInv',
           \/ count' = count
           \/ count > 0 /\ count' = count - 1,
           UNCHANGED <<waitlist, use>>,
           \A t \in Threads : pc'[t] = "blocked" <=> pc[t] = "blocked",
           \A t \in Threads :
             pc[t] = "blocked" => errcode'[t] = errcode[t] /\ sigpend'[t] = sigpend[t],
           Posters' \subseteq Posters
    PROVE  IInv'
<1>1. CountInv'
  <2>1. count \in Int /\ waitlist' = waitlist
    BY DEF IInv, Typed
  <2>2. CASE count' = count
    BY <2>1, <2>2 DEF IInv, CountInv
  <2>3. CASE count > 0 /\ count' = count - 1
    <3>1. ~(count < 0) /\ ~(count' < 0)
      BY <2>1, <2>3
    <3> QED BY <2>1, <3>1 DEF IInv, CountInv
  <2> QED BY <2>2, <2>3
<1>2. WaitersInv'
  BY DEF IInv, WaitersInv
<1>3. PostersInv'
  <2>1. /\ Cardinality(Posters') <= Cardinality(Posters)
        /\ Cardinality(Posters') \in Nat /\ Cardinality(Posters) \in Nat
        /\ Cardinality(Threads) \in Nat
    <3>1. Posters \in SUBSET Threads
      BY DEF Posters
    <3>2. IsFiniteSet(Posters) /\ Posters' \in SUBSET Posters
      BY <3>1, ThreadSets
    <3> QED BY <3>1, <3>2, ThreadSets, FS_Subset
  <2> QED BY <2>1, SemConstants DEF IInv, PostersInv, Typed
<1>4. SignalNotMissed'
  BY DEF IInv, SignalNotMissed, Uninterruptible
<1> QED BY <1>1, <1>2, <1>3, <1>4 DEF IInv

(* Entries and reads.                                                      *)
LEMMA MoveInv ==
    ASSUME IInv, UNCHANGED <<use, left>>, NEW t \in Threads,
           \/ Wait(t) \/ TryWait(t) \/ TickWait(t) \/ TickEnter(t) \/ Consume(t)
           \/ TryRead(t) \/ WaitRead(t) \/ PostRead(t) \/ PostSlow(t)
           \/ PostOverflow(t)
    PROVE  IInv'
<1> USE DEF Wait, TryWait, TickWait, TickEnter, Consume, TryRead, WaitRead,
            PostRead, PostSlow, PostOverflow, Goto, Expect, EnterCsec
<1>1. Typed'
  <2> USE DEF IInv, Typed, Locs
  <2>1. CASE Wait(t) \/ TryWait(t) \/ Consume(t)
    BY <2>1
  <2>2. CASE TickWait(t) \/ TickEnter(t)
    BY <2>2
  <2>3. CASE TryRead(t) \/ WaitRead(t) \/ PostRead(t)
    BY <2>3
  <2>4. CASE PostSlow(t)
    BY <2>4
  <2>5. CASE PostOverflow(t)
    BY <2>5
  <2> QED BY <2>1, <2>2, <2>3, <2>4, <2>5
<1>2. OldInv'
  BY DEF IInv, Typed, OldInv
<1>3. UNCHANGED <<count, waitlist, errcode, sigpend>>
  OBVIOUS
<1>4. \A u \in Threads : pc'[u] = "blocked" <=> pc[u] = "blocked"
  BY DEF IInv, Typed
<1>5. Posters' \subseteq Posters
  BY DEF IInv, Typed, Posters
<1> QED BY <1>1, <1>2, <1>3, <1>4, <1>5, QuietInv

(* Steps that end a wait, with a unit or without, or try it again.         *)
LEMMA ReturnInv ==
    ASSUME IInv, UNCHANGED <<use, left>>, NEW t \in Threads,
           \/ TryCas(t) \/ TrySlow(t) \/ TryFail(t) \/ WaitCas(t)
           \/ WaitInterrupted(t) \/ WaitTake(t) \/ WaitResume(t)
    PROVE  IInv'
<1>1. /\ UNCHANGED waitlist
      /\ count' = count \/ (count > 0 /\ count' = count - 1)
      /\ count' \in Int
  BY DEF TryCas, TrySlow, TryFail, WaitCas, WaitInterrupted, WaitTake,
         WaitResume, IInv, Typed, OldInv
<1>2. pc[t] \in {"try_read", "try_cas", "wait_cas", "wait_slow", "woken"}
  BY DEF TryCas, TrySlow, TryFail, WaitCas, WaitInterrupted, WaitTake, WaitResume
<1>3. \/ \E l \in {"idle", "got"} : Return(t, l)
      \/ /\ \E l \in {"try_read", "wait_read", "tick_enter"} :
              pc' = [pc EXCEPT ![t] = l]
         /\ \E c \in Int : old' = [old EXCEPT ![t] = c]
         /\ csec' = csec
         /\ UNCHANGED <<timed, sigpend>>
         /\ \E b \in BOOLEAN : waitdog' = [waitdog EXCEPT ![t] = b]
         /\ \E e \in {"OK", errcode[t]} : errcode' = [errcode EXCEPT ![t] = e]
  <2> USE DEF IInv, Typed, Goto, Expect
  <2>1. CASE TryCas(t) \/ WaitCas(t)
    <3>1. CASE count = old[t]
      BY <2>1, <3>1 DEF TryCas, WaitCas
    <3>2. CASE count # old[t]
      <4>1. waitdog' = [waitdog EXCEPT ![t] = waitdog[t]]
            /\ errcode' = [errcode EXCEPT ![t] = errcode[t]]
            /\ waitdog[t] \in BOOLEAN
        BY <2>1, <3>2 DEF TryCas, WaitCas
      <4>2. /\ \E l \in {"try_read", "wait_read"} : pc' = [pc EXCEPT ![t] = l]
            /\ old' = [old EXCEPT ![t] = 0]
            /\ UNCHANGED <<csec, timed, sigpend>>
        BY <2>1, <3>2 DEF TryCas, WaitCas
      <4>3. 0 \in Int
        OBVIOUS
      <4> QED BY <4>1, <4>2, <4>3, Zenon
    <3> QED BY <3>1, <3>2
  <2>2. CASE TrySlow(t) \/ WaitInterrupted(t) \/ WaitTake(t)
    BY <2>2 DEF TrySlow, WaitInterrupted, WaitTake
  <2>3. CASE TryFail(t)
    <3>1. CASE Return(t, "idle")
      BY <3>1
    <3>2. CASE ~Return(t, "idle")
      <4>1. old' = [old EXCEPT ![t] = old[t]] /\ old[t] \in Int
            /\ errcode' = [errcode EXCEPT ![t] = errcode[t]]
        BY <2>3, <3>2 DEF TryFail
      <4> QED BY <2>3, <3>2, <4>1 DEF TryFail
    <3> QED BY <3>1, <3>2
  <2>4. CASE WaitResume(t)
    <3>1. CASE errcode[t] = "EINTR" /\ Uninterruptible
      <4>1. old' = [old EXCEPT ![t] = old[t]] /\ old[t] \in Int
        BY <2>4, <3>1 DEF WaitResume
      <4> QED BY <2>4, <3>1, <4>1 DEF WaitResume
    <3>2. CASE ~(errcode[t] = "EINTR" /\ Uninterruptible)
      BY <2>4, <3>2 DEF WaitResume
    <3> QED BY <3>1, <3>2
  <2> QED BY <2>1, <2>2, <2>3, <2>4
<1>4. CASE \E l \in {"idle", "got"} : Return(t, l)
  <2>1. PICK l \in {"idle", "got"} : Return(t, l)
    BY <1>4
  <2>2. /\ csec' \in Threads \cup {None}
        /\ pc' = [pc EXCEPT ![t] = l] /\ pc' \in [Threads -> Locs]
        /\ old' = [old EXCEPT ![t] = 0] /\ old' \in [Threads -> Int]
        /\ timed' \in [Threads -> BOOLEAN]
        /\ waitdog' \in [Threads -> BOOLEAN]
        /\ errcode' = [errcode EXCEPT ![t] = "OK"]
        /\ errcode' \in [Threads -> {"OK", "EINTR", "ECANCELED", "ETIMEDOUT"}]
        /\ sigpend' = [sigpend EXCEPT ![t] = FALSE]
        /\ sigpend' \in [Threads -> BOOLEAN]
    BY <2>1, ReturnFacts DEF IInv
  <2>3. Typed'
    BY <1>1, <2>2 DEF IInv, Typed
  <2>4. OldInv'
    BY <2>2 DEF IInv, Typed, OldInv
  <2>5. \A u \in Threads :
          /\ pc'[u] = "blocked" <=> pc[u] = "blocked"
          /\ pc[u] = "blocked" => errcode'[u] = errcode[u] /\ sigpend'[u] = sigpend[u]
    BY <1>2, <2>2 DEF IInv, Typed
  <2>6. Posters' \subseteq Posters
    BY <2>2 DEF IInv, Typed, Posters
  <2> QED BY <1>1, <2>3, <2>4, <2>5, <2>6, QuietInv
<1>5. CASE ~ \E l \in {"idle", "got"} : Return(t, l)
  <2>1. PICK l \in {"try_read", "wait_read", "tick_enter"} : pc' = [pc EXCEPT ![t] = l]
    BY <1>3, <1>5
  <2>2. PICK c \in Int : old' = [old EXCEPT ![t] = c]
    BY <1>3, <1>5
  <2>3. PICK b \in BOOLEAN : waitdog' = [waitdog EXCEPT ![t] = b]
    BY <1>3, <1>5
  <2>4. PICK e \in {"OK", errcode[t]} : errcode' = [errcode EXCEPT ![t] = e]
    BY <1>3, <1>5
  <2>5. csec' = csec /\ UNCHANGED <<timed, sigpend>>
    BY <1>3, <1>5
  <2>6. Typed'
    BY <1>1, <2>1, <2>2, <2>3, <2>4, <2>5 DEF IInv, Typed, Locs
  <2>7. OldInv'
    BY <2>1, <2>2 DEF IInv, Typed, OldInv
  <2>8. \A u \in Threads :
          /\ pc'[u] = "blocked" <=> pc[u] = "blocked"
          /\ pc[u] = "blocked" => errcode'[u] = errcode[u] /\ sigpend'[u] = sigpend[u]
    BY <1>2, <2>1, <2>4, <2>5 DEF IInv, Typed
  <2>9. Posters' \subseteq Posters
    BY <2>1 DEF IInv, Typed, Posters
  <2> QED BY <1>1, <2>6, <2>7, <2>8, <2>9, QuietInv
<1> QED BY <1>4, <1>5

(* A post begins.                                                          *)
LEMMA PostInv ==
    ASSUME IInv, UNCHANGED <<use, left>>, NEW t \in Threads, Post(t)
    PROVE  IInv'
<1> USE DEF Post, Goto
<1>1. Typed'
  BY DEF IInv, Typed, Locs
<1>2. CountInv'
  BY DEF IInv, CountInv
<1>3. OldInv'
  BY DEF IInv, Typed, OldInv
<1>4. WaitersInv'
  BY DEF IInv, Typed, WaitersInv
<1>5. PostersInv'
  <2>1. Posters' \in SUBSET Threads
    BY DEF Posters
  <2>2. /\ Cardinality(Posters') \in Nat /\ Cardinality(Threads) \in Nat
        /\ Cardinality(Posters') <= Cardinality(Threads)
    BY <2>1, ThreadSets
  <2>3. count' \in Int /\ CountCap \in Nat /\ count' < CountCap
    BY SemConstants DEF IInv, Typed
  <2> QED BY <2>2, <2>3 DEF PostersInv
<1>6. SignalNotMissed'
  BY DEF IInv, Typed, SignalNotMissed, Uninterruptible
<1> QED BY <1>1, <1>2, <1>3, <1>4, <1>5, <1>6 DEF IInv

(* A post ends that has raised the count.                                  *)
LEMMA PostEnds ==
    ASSUME IInv, NEW t \in Posters, Posters' = Posters \ {t}, count' = count + 1
    PROVE  PostersInv'
<1>1. Posters \in SUBSET Threads
  BY DEF Posters
<1>2. IsFiniteSet(Posters) /\ Cardinality(Posters) \in Nat
      /\ Cardinality(Threads) \in Nat
  BY <1>1, ThreadSets
<1>3. Cardinality(Posters') = Cardinality(Posters) - 1
  BY <1>2, FS_RemoveElement
<1>4. count \in Int /\ CountCap \in Nat
  BY SemConstants DEF IInv, Typed
<1> QED BY <1>2, <1>3, <1>4 DEF IInv, PostersInv

(* The fast path of nxsem_post() finds no waiter.                          *)
LEMMA PostCasInv ==
    ASSUME IInv, UNCHANGED <<use, left>>, NEW t \in Threads, PostCas(t)
    PROVE  IInv'
<1> USE DEF PostCas, Goto, Expect
<1>1. Typed'
  <2>1. count' \in Int /\ old' \in [Threads -> Int]
    BY DEF IInv, Typed
  <2>2. pc' \in [Threads -> Locs]
    BY DEF IInv, Typed, Locs
  <2> QED BY <2>1, <2>2 DEF IInv, Typed
<1>2. OldInv'
  BY DEF IInv, Typed, OldInv
<1>3. \A u \in Threads : pc'[u] = "blocked" <=> pc[u] = "blocked"
  BY DEF IInv, Typed
<1>4. CASE count # old[t]
  <2>1. Posters' \subseteq Posters
    BY <1>4 DEF IInv, Typed, Posters
  <2> QED BY <1>1, <1>2, <1>3, <1>4, <2>1, QuietInv
<1>5. CASE count = old[t]
  <2>1. count \in Int /\ count >= 0 /\ count' = count + 1 /\ waitlist' = waitlist
    BY <1>5 DEF IInv, Typed, OldInv
  <2>2. CountInv'
    <3>1. ~(count < 0) /\ ~(count' < 0)
      BY <2>1
    <3> QED BY <2>1, <3>1 DEF IInv, CountInv
  <2>3. WaitersInv'
    BY <1>3, <1>5 DEF IInv, WaitersInv
  <2>4. t \in Posters /\ Posters' = Posters \ {t}
    BY <1>5 DEF IInv, Typed, Posters
  <2>5. PostersInv'
    BY <2>1, <2>4, PostEnds
  <2>6. SignalNotMissed'
    BY <1>3 DEF IInv, SignalNotMissed, Uninterruptible
  <2> QED BY <1>1, <1>2, <2>2, <2>3, <2>5, <2>6 DEF IInv
<1> QED BY <1>4, <1>5

(* nxsem_wait_slow() puts the thread in the list and lowers the count.     *)
LEMMA WaitBlockInv ==
    ASSUME IInv, UNCHANGED <<use, left>>, NEW t \in Threads, WaitBlock(t)
    PROVE  IInv'
<1>0. /\ waitlist \in Seq(Threads) /\ NoDuplicates(waitlist)
      /\ t \notin ToSet(waitlist) /\ Prio \in [Threads -> Nat]
  BY SemConstants DEF WaitBlock, IInv, Typed, WaitersInv
<1>1. /\ waitlist' \in Seq(Threads)
      /\ ToSet(waitlist') = ToSet(waitlist) \cup {t}
      /\ NoDuplicates(waitlist')
  <2>1. waitlist' = AddPrioritized(waitlist, t, Prio)
    BY DEF WaitBlock
  <2>2. /\ AddPrioritized(waitlist, t, Prio) \in Seq(Threads)
        /\ ToSet(AddPrioritized(waitlist, t, Prio)) = ToSet(waitlist) \cup {t}
        /\ NoDuplicates(AddPrioritized(waitlist, t, Prio))
    BY <1>0, AddPrioritizedFacts
  <2> QED BY <2>1, <2>2, Zenon
<1>2. Typed'
  BY <1>1 DEF WaitBlock, Goto, IInv, Typed, Locs
<1>3. CountInv'
  <2>1. /\ IsFiniteSet(ToSet(waitlist))
        /\ Cardinality(ToSet(waitlist)) = Len(waitlist)
        /\ Cardinality(ToSet(waitlist')) = Len(waitlist')
    BY <1>0, <1>1, LenIsCardinality
  <2>2. Len(waitlist') = Len(waitlist) + 1
    BY <1>0, <1>1, <2>1, FS_AddElement
  <2>3. count \in Int /\ count <= 0 /\ count' = count - 1
    BY DEF WaitBlock, IInv, Typed
  <2>4. Len(waitlist) = -count
    BY <2>3 DEF IInv, CountInv
  <2>5. Len(waitlist') = -count' /\ count' < 0
    BY <2>2, <2>3, <2>4
  <2> QED BY <2>5 DEF CountInv
<1>4. OldInv'
  BY DEF WaitBlock, Goto, IInv, Typed, OldInv
<1>5. WaitersInv'
  BY <1>1 DEF WaitBlock, Goto, IInv, Typed, WaitersInv
<1>6. PostersInv'
  <2>1. Posters' = Posters
    BY DEF WaitBlock, Goto, IInv, Typed, Posters
  <2>2. Cardinality(Posters) \in Nat /\ Cardinality(Threads) \in Nat
    BY ThreadSets DEF Posters
  <2> QED BY <2>1, <2>2, SemConstants DEF WaitBlock, IInv, Typed, PostersInv
<1>7. SignalNotMissed'
  BY DEF WaitBlock, Goto, IInv, Typed, SignalNotMissed, SignalPending, Uninterruptible
<1> QED BY <1>2, <1>3, <1>4, <1>5, <1>6, <1>7 DEF IInv

(* nxsem_wait_irq() takes the thread off the list and raises the count.    *)
LEMMA WaitIrqInv ==
    ASSUME IInv, UNCHANGED <<use, left, csec, old, timed>>,
           NEW t \in Threads, pc[t] = "blocked",
           NEW e \in {"EINTR", "ECANCELED", "ETIMEDOUT"}, WaitIrq(t, e),
           waitdog' \in [Threads -> BOOLEAN],
           NEW s \in BOOLEAN, sigpend' = [sigpend EXCEPT ![t] = s]
    PROVE  IInv'
<1>0. /\ waitlist \in Seq(Threads) /\ NoDuplicates(waitlist)
      /\ t \in ToSet(waitlist)
  BY DEF IInv, Typed, WaitersInv
<1>1. /\ waitlist' \in Seq(Threads)
      /\ ToSet(waitlist') = ToSet(waitlist) \ {t}
      /\ NoDuplicates(waitlist')
  <2>1. waitlist' = DqRem(waitlist, t)
    BY DEF WaitIrq
  <2> QED BY <1>0, <2>1, DqRemFacts
<1>2. Typed'
  BY <1>1 DEF WaitIrq, Goto, IInv, Typed, Locs
<1>3. count < 0 /\ count' = count + 1 /\ count \in Int /\ CountInv'
  <2>1. /\ IsFiniteSet(ToSet(waitlist))
        /\ Cardinality(ToSet(waitlist)) = Len(waitlist)
        /\ Cardinality(ToSet(waitlist')) = Len(waitlist')
    BY <1>0, <1>1, LenIsCardinality
  <2>2. Len(waitlist') = Len(waitlist) - 1
    BY <1>0, <1>1, <2>1, FS_RemoveElement
  <2>3. Len(waitlist') \in Nat
    BY <1>1
  <2>4. count \in Int /\ count' = count + 1
    BY DEF WaitIrq, IInv, Typed
  <2>5. count < 0 /\ Len(waitlist) = -count
    BY <2>2, <2>3, <2>4 DEF IInv, CountInv
  <2> QED BY <2>2, <2>4, <2>5 DEF CountInv
<1>4. OldInv'
  BY DEF WaitIrq, Goto, IInv, Typed, OldInv
<1>5. WaitersInv'
  BY <1>1 DEF WaitIrq, Goto, IInv, Typed, WaitersInv
<1>6. PostersInv'
  <2>1. Posters' \in SUBSET Threads
    BY DEF Posters
  <2>2. /\ Cardinality(Posters') \in Nat /\ Cardinality(Threads) \in Nat
        /\ Cardinality(Posters') <= Cardinality(Threads)
    BY <2>1, ThreadSets
  <2> QED BY <1>3, <2>2, SemConstants DEF PostersInv
<1>7. SignalNotMissed'
  BY DEF WaitIrq, Goto, IInv, Typed, SignalNotMissed, Uninterruptible
<1> QED BY <1>2, <1>3, <1>4, <1>5, <1>6, <1>7 DEF IInv

(* The first n waiters become ready, with no error, and nobody else.       *)
LEMMA WakeFacts ==
    ASSUME IInv, NEW n \in 0 .. Len(waitlist), NEW m \in Threads,
           pc[m] # "blocked", NEW l \in Locs \ {"blocked"}, Wake(n, m, l)
    PROVE  \E W \in SUBSET Threads :
             /\ \A w \in W : pc[w] = "blocked" /\ pc'[w] = "woken"
             /\ \A u \in Threads \ W : pc'[u] = IF u = m THEN l ELSE pc[u]
             /\ pc' \in [Threads -> Locs]
             /\ IsFiniteSet(W) /\ Cardinality(W) = n
             /\ waitlist' \in Seq(Threads) /\ Len(waitlist') = Len(waitlist) - n
             /\ ToSet(waitlist') = ToSet(waitlist) \ W
             /\ NoDuplicates(waitlist')
             /\ waitdog' \in [Threads -> BOOLEAN]
<1>0. PICK W : W = FirstOf(waitlist, n)
  OBVIOUS
<1>1. /\ waitlist' \in Seq(Threads) /\ Len(waitlist') = Len(waitlist) - n
      /\ W \subseteq ToSet(waitlist)
      /\ ToSet(waitlist') = ToSet(waitlist) \ W
      /\ NoDuplicates(waitlist')
      /\ IsFiniteSet(W) /\ Cardinality(W) = n
  <2>1. waitlist \in Seq(Threads) /\ NoDuplicates(waitlist)
    BY DEF IInv, Typed, WaitersInv
  <2>2. waitlist' = DropFirst(waitlist, n)
    BY DEF Wake, DropFirst
  <2> QED BY <1>0, <2>1, <2>2, DropFacts
<1>2. /\ waitdog' = [u \in Threads |-> waitdog[u] /\ u \notin W]
      /\ pc' = [u \in Threads |-> IF u \in W THEN "woken"
                                  ELSE IF u = m THEN l ELSE pc[u]]
  BY <1>0, Zenon DEF Wake, FirstOf
<1>3. W \in SUBSET Threads /\ \A w \in W : pc[w] = "blocked"
  BY <1>1 DEF IInv, WaitersInv
<1>4. /\ \A w \in W : pc'[w] = "woken"
      /\ \A u \in Threads \ W : pc'[u] = IF u = m THEN l ELSE pc[u]
  BY <1>2, <1>3
<1>5. pc' \in [Threads -> Locs]
  BY <1>2 DEF IInv, Typed, Locs
<1>6. waitdog' \in [Threads -> BOOLEAN]
  <2>1. \A u \in Threads : (waitdog[u] /\ u \notin W) \in BOOLEAN
    BY Zenon
  <2> QED BY <1>2, <2>1, Zenon
<1> QED BY <1>1, <1>3, <1>4, <1>5, <1>6, Zenon

(* nxsem_post_slow() raises the count and wakes up the first waiter, if    *)
(* there is one.                                                           *)
LEMMA PostSlowCasInv ==
    ASSUME IInv, UNCHANGED <<use, left>>, NEW t \in Threads, PostSlowCas(t)
    PROVE  IInv'
<1>1. CASE count # old[t]
  <2>1. Typed'
    BY <1>1 DEF PostSlowCas, Expect, IInv, Typed
  <2>2. OldInv' /\ Posters' = Posters
    BY <1>1 DEF PostSlowCas, Expect, IInv, Typed, OldInv, Posters
  <2> QED BY <1>1, <2>1, <2>2, QuietInv DEF PostSlowCas
<1>2. CASE count = old[t]
  <2> DEFINE n == IF count < 0 /\ waitlist # <<>> THEN 1 ELSE 0
  <2>0. count \in Int /\ Len(waitlist) \in Nat /\ (waitlist = <<>> <=> Len(waitlist) = 0)
    BY DEF IInv, Typed
  <2>1. n \in 0 .. Len(waitlist) /\ n \in {0, 1} /\ (n = 1 <=> count < 0)
    BY <2>0 DEF IInv, CountInv
  <2>2. /\ pc[t] = "post_slow_cas" /\ Wake(n, t, "idle") /\ count' = count + 1
        /\ csec' = None /\ Expect(t, 0) /\ UNCHANGED <<timed, errcode, sigpend>>
    BY <1>2 DEF PostSlowCas
  <2> HIDE DEF n
  <2>3. pc[t] # "blocked" /\ "idle" \in Locs \ {"blocked"}
    BY <2>2 DEF Locs
  <2>4. PICK W \in SUBSET Threads :
             /\ \A w \in W : pc[w] = "blocked" /\ pc'[w] = "woken"
             /\ \A u \in Threads \ W : pc'[u] = IF u = t THEN "idle" ELSE pc[u]
             /\ pc' \in [Threads -> Locs]
             /\ IsFiniteSet(W) /\ Cardinality(W) = n
             /\ waitlist' \in Seq(Threads) /\ Len(waitlist') = Len(waitlist) - n
             /\ ToSet(waitlist') = ToSet(waitlist) \ W
             /\ NoDuplicates(waitlist')
             /\ waitdog' \in [Threads -> BOOLEAN]
    BY <2>1, <2>2, <2>3, WakeFacts
  <2>5. Typed'
    <3>1. old' \in [Threads -> Int] /\ csec' \in Threads \cup {None}
      BY <2>2 DEF Expect, IInv, Typed
    <3>2. count' \in Int
      BY <2>0, <2>2
    <3> QED BY <2>2, <2>4, <3>1, <3>2 DEF IInv, Typed
  <2>6. CountInv'
    BY <2>0, <2>1, <2>2, <2>4 DEF IInv, CountInv
  <2>7. OldInv'
    BY <2>2, <2>4 DEF Expect, IInv, Typed, OldInv
  <2>8. WaitersInv'
    <3>1. \A u \in Threads : pc'[u] = "blocked" <=> pc[u] = "blocked" /\ u \notin W
      BY <2>2, <2>4
    <3> QED BY <2>2, <2>4, <3>1 DEF IInv, WaitersInv
  <2>9. PostersInv'
    <3>1. t \in Posters /\ Posters' = Posters \ {t}
      BY <2>2, <2>4 DEF Posters
    <3> QED BY <2>2, <3>1, PostEnds
  <2>10. SignalNotMissed'
    <3>1. \A u \in Threads : pc'[u] = "blocked" => pc[u] = "blocked"
      BY <2>2, <2>4
    <3> QED BY <2>2, <3>1 DEF IInv, SignalNotMissed, Uninterruptible
  <2> QED BY <2>5, <2>6, <2>7, <2>8, <2>9, <2>10 DEF IInv
<1> QED BY <1>1, <1>2

(* nxsem_reset() begins, its loop ends, or it returns and leaves the count *)
(* alone.                                                                  *)
LEMMA ResetMoveInv ==
    ASSUME IInv, UNCHANGED use, NEW t \in Threads,
           \/ \E n \in ResetCounts : Reset(t, n)
           \/ ResetRead(t) \/ ResetBreak(t)
    PROVE  IInv'
<1>0. ResetCounts \subseteq 0 .. CountCap /\ 0 \in 0 .. CountCap
  BY SemConstants
<1>1. /\ UNCHANGED <<count, waitlist, timed, waitdog, errcode, sigpend>>
      /\ \E l \in {"idle", "reset", "reset_cas"} : pc' = [pc EXCEPT ![t] = l]
      /\ pc[t] \in {"idle", "reset", "reset_cas"}
  BY DEF Reset, ResetRead, ResetBreak, ResetReturn, Goto
<1>2. Typed'
  <2>1. CASE \E n \in ResetCounts : Reset(t, n)
    BY <1>0, <2>1 DEF Reset, Goto, IInv, Typed, Locs
  <2>2. CASE ResetRead(t)
    BY <2>2 DEF ResetRead, Goto, Expect, IInv, Typed, Locs
  <2>3. CASE ResetBreak(t)
    BY <1>0, <2>3 DEF ResetBreak, ResetReturn, Goto, Expect, IInv, Typed, Locs
  <2> QED BY <2>1, <2>2, <2>3
<1>3. \A u \in Threads \ {t} : old'[u] = old[u]
  BY DEF Reset, ResetRead, ResetBreak, ResetReturn, Expect, IInv, Typed
<1>4. OldInv'
  BY <1>1, <1>3 DEF IInv, Typed, OldInv
<1>5. \A u \in Threads : pc'[u] = "blocked" <=> pc[u] = "blocked"
  BY <1>1 DEF IInv, Typed
<1>6. Posters' \subseteq Posters
  BY <1>1 DEF IInv, Typed, Posters
<1> QED BY <1>1, <1>2, <1>4, <1>5, <1>6, QuietInv

(* The exchange at the end of nxsem_reset(): nobody waits.                 *)
LEMMA ResetCasInv ==
    ASSUME IInv, UNCHANGED use, NEW t \in Threads, ResetCas(t)
    PROVE  IInv'
<1>1. CASE count # old[t]
  <2>1. Typed'
    BY <1>1 DEF ResetCas, Expect, IInv, Typed
  <2>2. OldInv' /\ Posters' = Posters
    BY <1>1 DEF ResetCas, Expect, IInv, Typed, OldInv, Posters
  <2> QED BY <1>1, <2>1, <2>2, QuietInv DEF ResetCas
<1>2. CASE count = old[t]
  <2>1. /\ pc[t] = "reset_cas" /\ pc' = [pc EXCEPT ![t] = "idle"]
        /\ old' = [old EXCEPT ![t] = 0] /\ left' = [left EXCEPT ![t] = 0]
        /\ csec' = None /\ count' = left[t] /\ count >= 0
        /\ UNCHANGED <<waitlist, timed, waitdog, errcode, sigpend>>
    BY <1>2 DEF ResetCas, ResetReturn, Goto, Expect
  <2>2. /\ count \in Int /\ count' \in Nat /\ count' <= CountCap /\ CountCap \in Nat
        /\ 0 \in 0 .. CountCap
    BY <2>1, SemConstants DEF IInv, Typed
  <2>3. Typed'
    BY <2>1, <2>2 DEF IInv, Typed, Locs
  <2>4. CountInv'
    <3>1. ~(count < 0) /\ ~(count' < 0)
      BY <2>1, <2>2
    <3> QED BY <2>1, <3>1 DEF IInv, CountInv
  <2>5. OldInv'
    BY <2>1 DEF IInv, Typed, OldInv
  <2>6. WaitersInv'
    BY <2>1 DEF IInv, Typed, WaitersInv
  <2>7. PostersInv'
    <3>1. Posters' \in SUBSET Threads
      BY DEF Posters
    <3>2. /\ Cardinality(Posters') \in Nat /\ Cardinality(Threads) \in Nat
          /\ Cardinality(Posters') <= Cardinality(Threads)
      BY <3>1, ThreadSets
    <3> QED BY <2>2, <3>2 DEF PostersInv
  <2>8. SignalNotMissed'
    BY <2>1 DEF IInv, Typed, SignalNotMissed, Uninterruptible
  <2> QED BY <2>3, <2>4, <2>5, <2>6, <2>7, <2>8 DEF IInv
<1> QED BY <1>1, <1>2

(* A turn of the loop of nxsem_reset() finds a waiter.                     *)
LEMMA ResetPostFacts ==
    ASSUME IInv, NEW t \in Threads, ResetPost(t)
    PROVE  /\ 1 \in 0 .. Len(waitlist) /\ Wake(1, t, "reset")
           /\ pc[t] = "reset" /\ count < 0 /\ count' = count + 1 /\ count \in Int
           /\ UNCHANGED <<csec, old, timed, errcode, sigpend>>
           /\ left[t] > 0 /\ left' = [left EXCEPT ![t] = left[t] - 1]
<1>1. /\ count \in Int /\ count < 0 /\ Len(waitlist) \in Nat
      /\ (waitlist = <<>> <=> Len(waitlist) = 0)
  BY DEF ResetPost, IInv, Typed
<1>2. Len(waitlist) = -count
  BY <1>1 DEF IInv, CountInv
<1>3. waitlist # <<>> /\ 1 \in 0 .. Len(waitlist)
  BY <1>1, <1>2
<1>4. Wake(1, t, "reset")
  BY <1>3, Zenon DEF ResetPost
<1> QED BY <1>1, <1>3, <1>4 DEF ResetPost

LEMMA ResetPostInv ==
    ASSUME IInv, UNCHANGED use, NEW t \in Threads, ResetPost(t)
    PROVE  IInv'
<1>1. /\ 1 \in 0 .. Len(waitlist) /\ Wake(1, t, "reset")
      /\ pc[t] = "reset" /\ count < 0 /\ count' = count + 1 /\ count \in Int
      /\ UNCHANGED <<csec, old, timed, errcode, sigpend>>
      /\ left[t] > 0 /\ left' = [left EXCEPT ![t] = left[t] - 1]
  BY ResetPostFacts
<1>2. "reset" \in Locs \ {"blocked"} /\ pc[t] # "blocked"
  BY <1>1 DEF Locs
<1>3. PICK W \in SUBSET Threads :
             /\ \A w \in W : pc[w] = "blocked" /\ pc'[w] = "woken"
             /\ \A u \in Threads \ W : pc'[u] = IF u = t THEN "reset" ELSE pc[u]
             /\ pc' \in [Threads -> Locs]
             /\ IsFiniteSet(W) /\ Cardinality(W) = 1
             /\ waitlist' \in Seq(Threads) /\ Len(waitlist') = Len(waitlist) - 1
             /\ ToSet(waitlist') = ToSet(waitlist) \ W
             /\ NoDuplicates(waitlist')
             /\ waitdog' \in [Threads -> BOOLEAN]
  BY <1>1, <1>2, WakeFacts
<1>4. \A u \in Threads : /\ pc'[u] = "blocked" <=> pc[u] = "blocked" /\ u \notin W
                         /\ pc'[u] # pc[u] => pc'[u] = "woken"
  BY <1>1, <1>3
<1>5. CountCap \in Nat /\ left' \in [Threads -> 0 .. CountCap] /\ count' \in Int
  BY <1>1, SemConstants DEF IInv, Typed
<1>6. Typed'
  BY <1>1, <1>3, <1>5 DEF IInv, Typed
<1>7. CountInv'
  BY <1>1, <1>3 DEF IInv, CountInv
<1>8. OldInv'
  BY <1>1, <1>4 DEF IInv, OldInv
<1>9. WaitersInv'
  BY <1>1, <1>3, <1>4 DEF IInv, WaitersInv
<1>10. PostersInv'
  <2>1. Posters' \in SUBSET Threads
    BY DEF Posters
  <2>2. /\ Cardinality(Posters') \in Nat /\ Cardinality(Threads) \in Nat
        /\ Cardinality(Posters') <= Cardinality(Threads)
    BY <2>1, ThreadSets
  <2> QED BY <1>1, <1>5, <2>2 DEF PostersInv
<1>11. SignalNotMissed'
  BY <1>1, <1>4 DEF IInv, SignalNotMissed, Uninterruptible
<1> QED BY <1>6, <1>7, <1>8, <1>9, <1>10, <1>11 DEF IInv

(* The watchdog, a signal or a cancellation ends a wait, or comes when the *)
(* thread is not blocked.                                                  *)
LEMMA TimeoutInv ==
    ASSUME IInv, UNCHANGED <<use, left>>, NEW t \in Threads, Timeout(t)
    PROVE  IInv'
<1>1. waitdog' \in [Threads -> BOOLEAN]
  BY DEF Timeout, IInv, Typed
<1>2. CASE pc[t] = "blocked"
  <2>1. /\ WaitIrq(t, "ETIMEDOUT") /\ UNCHANGED <<use, left, csec, old, timed>>
        /\ sigpend[t] \in BOOLEAN /\ sigpend' = [sigpend EXCEPT ![t] = sigpend[t]]
    BY <1>2 DEF Timeout, IInv, Typed
  <2> QED BY <1>1, <1>2, <2>1, WaitIrqInv
<1>3. CASE pc[t] # "blocked"
  <2>1. Typed'
    BY <1>1, <1>3 DEF Timeout, IInv, Typed
  <2>2. OldInv' /\ Posters' = Posters
    BY <1>3 DEF Timeout, IInv, OldInv, Posters
  <2> QED BY <1>3, <2>1, <2>2, QuietInv DEF Timeout
<1> QED BY <1>2, <1>3

LEMMA SignalInv ==
    ASSUME StopSignal = FALSE, IInv, UNCHANGED <<use, left>>, NEW t \in Threads, Signal(t)
    PROVE  IInv'
<1>0. /\ Syscall \in BOOLEAN /\ Uninterruptible \in BOOLEAN
      /\ sigpend' = [sigpend EXCEPT ![t] = Syscall]
  <2>1. use \in Uses
    BY DEF IInv, Typed
  <2> QED BY <2>1, SemConstants DEF Syscall, Uninterruptible, Signal
<1>1. CASE pc[t] = "blocked" /\ ~(Syscall /\ Uninterruptible)
  <2>1. WaitIrq(t, "EINTR") /\ UNCHANGED <<use, left, csec, old, timed, waitdog>>
    BY <1>1 DEF Signal
  <2> QED BY <1>0, <1>1, <2>1, WaitIrqInv DEF IInv, Typed
<1>2. CASE pc[t] # "blocked" \/ (Syscall /\ Uninterruptible)
  <2>0. UNCHANGED <<count, waitlist, csec, pc, old, timed, waitdog, errcode, use, left>>
    BY <1>2 DEF Signal
  <2>1. sigpend' \in [Threads -> BOOLEAN]
    BY <1>0 DEF IInv, Typed
  <2>2. Typed'
    BY <2>0, <2>1 DEF IInv, Typed
  <2>3. CountInv' /\ OldInv' /\ WaitersInv' /\ PostersInv'
    BY <2>0 DEF IInv, CountInv, OldInv, WaitersInv, PostersInv, Posters
  <2>4. SignalNotMissed'
    BY <1>0, <1>2, <2>0 DEF IInv, Typed, SignalNotMissed, Uninterruptible
  <2> QED BY <2>2, <2>3, <2>4 DEF IInv
<1> QED BY <1>1, <1>2

LEMMA CancelInv ==
    ASSUME IInv, UNCHANGED <<use, left>>, NEW t \in Threads, Cancel(t)
    PROVE  IInv'
<1>1. /\ WaitIrq(t, "ECANCELED") /\ UNCHANGED <<use, left, csec, old, timed, waitdog>>
      /\ sigpend[t] \in BOOLEAN /\ sigpend' = [sigpend EXCEPT ![t] = sigpend[t]]
      /\ pc[t] = "blocked"
  BY DEF Cancel, IInv, Typed
<1> QED BY <1>1, WaitIrqInv DEF IInv, Typed

(* Every step keeps the invariant.                                         *)
LEMMA NextInv ==
    ASSUME StopSignal = FALSE, IInv, [Next]_vars
    PROVE  IInv'
<1>1. CASE UNCHANGED vars
  BY <1>1 DEF vars, IInv, Typed, CountInv, OldInv, WaitersInv, PostersInv, Posters,
              SignalNotMissed, Uninterruptible
<1>2. CASE Next
  <2>1. UNCHANGED use
    BY <1>2 DEF Next
  <2>2. PICK t \in Threads :
          \/ /\ UNCHANGED left
             /\ \/ Wait(t) \/ TryWait(t) \/ TickWait(t) \/ Post(t) \/ Consume(t)
                \/ Timeout(t) \/ Signal(t) \/ Cancel(t)
          \/ Step(t)
          \/ \E n \in ResetCounts : Reset(t, n)
    BY <1>2, Zenon DEF Next
  <2>3. CASE Step(t)
    <3>1. CASE ResetStep(t)
      BY <2>1, <3>1, ResetMoveInv, ResetPostInv, ResetCasInv, Zenon DEF ResetStep
    <3>2. CASE ~ResetStep(t)
      <4>1. UNCHANGED <<use, left>>
        BY <2>1, <2>3, <3>2, Zenon DEF Step
      <4> QED BY <2>3, <3>2, <4>1, MoveInv, ReturnInv, WaitBlockInv, PostCasInv,
                 PostSlowCasInv, Zenon DEF Step
    <3> QED BY <3>1, <3>2
  <2>4. CASE \E n \in ResetCounts : Reset(t, n)
    BY <2>1, <2>4, ResetMoveInv, Zenon
  <2>5. CASE ~Step(t) /\ ~ \E n \in ResetCounts : Reset(t, n)
    <3>1. UNCHANGED <<use, left>>
      BY <2>1, <2>2, <2>5, Zenon
    <3> QED BY <2>2, <2>5, <3>1, MoveInv, PostInv, TimeoutInv, SignalInv, CancelInv,
               Zenon
  <2> QED BY <2>3, <2>4, <2>5
<1> QED BY <1>1, <1>2

(* It holds initially.                                                     *)
LEMMA InitInv == Init => IInv
<1> SUFFICES ASSUME Init PROVE IInv
  OBVIOUS
<1>1. count \in Nat /\ count <= CountCap /\ CountCap \in Nat
  BY SemConstants DEF Init
<1>2. Typed
  BY <1>1 DEF Init, Typed, Locs
<1>3. CountInv /\ OldInv /\ SignalNotMissed
  BY <1>1 DEF Init, CountInv, OldInv, SignalNotMissed
<1>4. WaitersInv
  BY DEF Init, WaitersInv, ToSet, NoDuplicates
<1>5. PostersInv
  <2>1. Posters \in SUBSET Threads
    BY DEF Posters
  <2> QED BY <1>1, <2>1, ThreadSets DEF PostersInv
<1> QED BY <1>2, <1>3, <1>4, <1>5 DEF IInv

(* The inductive invariant holds in every reachable state.                 *)
THEOREM SemInductive ==
    ASSUME StopSignal = FALSE PROVE Spec => []IInv
<1>1. IInv /\ [Next]_vars => IInv'
  BY NextInv
<1> QED BY <1>1, InitInv, PTL DEF Spec

(* The types of the semaphore's state, and the bounds of its count: posts  *)
(* under way may pass CountCap by one each, and no more threads are        *)
(* counted as waiting than there are.                                      *)
THEOREM SemTypeCorrect ==
    ASSUME StopSignal = FALSE PROVE Spec => []TypeOK
BY SemInductive, InvTypeOK, PTL

(* The count and the wait list agree: nobody waits while a unit is there,  *)
(* and a negative count is the number of blocked threads.                  *)
THEOREM CountCorrect ==
    ASSUME StopSignal = FALSE PROVE Spec => []CountIsWaiters
<1>1. IInv => CountIsWaiters
  BY DEF IInv, CountInv, WaitersInv, CountIsWaiters
<1> QED BY <1>1, SemInductive, PTL

(* No thread sleeps in an interruptible wait with a signal pending.        *)
THEOREM SignalsSeen ==
    ASSUME StopSignal = FALSE PROVE Spec => []SignalNotMissed
<1>1. IInv => SignalNotMissed
  BY DEF IInv
<1> QED BY <1>1, SemInductive, PTL

-----------------------------------------------------------------------------
(* What a reset may rely on.                                               *)

Guarded == {"post_slow_cas", "reset", "reset_cas"}

(* These are inside the critical section.                                  *)
CsecInv == \A t \in Threads : pc[t] \in Guarded => csec = t

(* A reset that found threads still waiting has given all its units and    *)
(* nobody changes the count; one that found nobody waiting keeps it so.    *)
ResetInv ==
    \A t \in Threads : pc[t] = "reset_cas" =>
        IF old[t] < 0 THEN count = old[t] /\ left[t] = 0 ELSE count >= 0

GuardInv == CsecInv /\ ResetInv

(* A step of t as the threads in the critical section see it: only they    *)
(* change a negative count.                                                *)
OneMoves(t) ==
    /\ \A u \in Threads \ {t} : pc'[u] = pc[u] \/ pc'[u] = "woken"
    /\ \A u \in Threads \ {t} : old'[u] = old[u] /\ left'[u] = left[u]
    /\ csec' = csec \/ csec \in {None, t}
    /\ count' = count \/ (count >= 0 /\ count' >= 0) \/ csec \in {None, t}
    /\ pc'[t] \in Guarded => csec' = t

LEMMA GuardsKept ==
    ASSUME IInv, GuardInv, NEW t \in Threads, OneMoves(t),
           pc'[t] = "reset_cas" =>
             IF old'[t] < 0 THEN count' = old'[t] /\ left'[t] = 0 ELSE count' >= 0
    PROVE  GuardInv'
<1>0. None \notin Threads /\ count \in Int /\ old \in [Threads -> Int]
  BY SemConstants DEF IInv, Typed
<1>1. ASSUME NEW u \in Threads \ {t}, pc'[u] \in Guarded
      PROVE  /\ pc[u] = pc'[u] /\ csec = u /\ csec' = u
             /\ count' = count \/ (count >= 0 /\ count' >= 0)
  <2>1. pc[u] = pc'[u]
    BY <1>1 DEF OneMoves, Guarded
  <2>2. csec = u
    BY <1>1, <2>1 DEF GuardInv, CsecInv
  <2> QED BY <1>0, <2>1, <2>2 DEF OneMoves
<1>2. CsecInv'
  BY <1>1 DEF OneMoves, CsecInv
<1>3. ResetInv'
  <2> SUFFICES ASSUME NEW u \in Threads, pc'[u] = "reset_cas"
               PROVE  IF old'[u] < 0 THEN count' = old'[u] /\ left'[u] = 0
                      ELSE count' >= 0
    BY DEF ResetInv
  <2>1. CASE u = t
    BY <2>1
  <2>2. CASE u # t
    <3>1. /\ pc[u] = "reset_cas" /\ old'[u] = old[u] /\ left'[u] = left[u]
          /\ count' = count \/ (count >= 0 /\ count' >= 0)
      BY <1>1, <2>2 DEF OneMoves, Guarded
    <3>2. IF old[u] < 0 THEN count = old[u] /\ left[u] = 0 ELSE count >= 0
      BY <3>1 DEF GuardInv, ResetInv
    <3> QED BY <1>0, <3>1, <3>2
  <2> QED BY <2>1, <2>2
<1> QED BY <1>2, <1>3 DEF GuardInv

(* The steps outside nxsem_reset().                                        *)
LEMMA GuardMoves ==
    ASSUME IInv, GuardInv, UNCHANGED left, NEW t \in Threads,
           \/ Wait(t) \/ TryWait(t) \/ TickWait(t) \/ TickEnter(t) \/ Consume(t)
           \/ TryRead(t) \/ WaitRead(t) \/ PostRead(t) \/ PostSlow(t)
           \/ PostOverflow(t) \/ Post(t) \/ PostCas(t) \/ WaitBlock(t)
    PROVE  GuardInv'
<1> USE DEF Goto, Expect, EnterCsec
<1>0. /\ pc \in [Threads -> Locs] /\ old \in [Threads -> Int] /\ count \in Int
      /\ pc[t] = "post_cas" => old[t] >= 0
      /\ pc[t] = "post_slow_cas" => csec = t
  BY DEF IInv, Typed, OldInv, GuardInv, CsecInv, Guarded
<1>1. CASE Wait(t) \/ TryWait(t) \/ TickWait(t) \/ TickEnter(t) \/ Consume(t)
  <2>1. OneMoves(t) /\ pc'[t] # "reset_cas"
    BY <1>0, <1>1 DEF Wait, TryWait, TickWait, TickEnter, Consume, OneMoves, Guarded
  <2> QED BY <2>1, GuardsKept
<1>2. CASE TryRead(t) \/ WaitRead(t) \/ PostRead(t) \/ PostSlow(t)
  <2>1. OneMoves(t) /\ pc'[t] # "reset_cas"
    BY <1>0, <1>2 DEF TryRead, WaitRead, PostRead, PostSlow, OneMoves, Guarded
  <2> QED BY <2>1, GuardsKept
<1>3. CASE PostOverflow(t) \/ Post(t) \/ PostCas(t)
  <2>1. OneMoves(t) /\ pc'[t] # "reset_cas"
    BY <1>0, <1>3 DEF PostOverflow, Post, PostCas, OneMoves, Guarded
  <2> QED BY <2>1, GuardsKept
<1>4. CASE WaitBlock(t)
  <2>1. OneMoves(t) /\ pc'[t] # "reset_cas"
    BY <1>0, <1>4 DEF WaitBlock, OneMoves, Guarded
  <2> QED BY <2>1, GuardsKept
<1> QED BY <1>1, <1>2, <1>3, <1>4

LEMMA GuardReturns ==
    ASSUME IInv, GuardInv, UNCHANGED left, NEW t \in Threads,
           \/ TryCas(t) \/ TrySlow(t) \/ TryFail(t) \/ WaitCas(t)
           \/ WaitInterrupted(t) \/ WaitTake(t) \/ WaitResume(t)
    PROVE  GuardInv'
<1> USE DEF Return, LeaveCsec, Goto, Expect
<1>0. /\ pc \in [Threads -> Locs] /\ old \in [Threads -> Int] /\ count \in Int
      /\ pc[t] \in {"try_cas", "wait_cas"} => old[t] >= 1
  BY DEF IInv, Typed, OldInv
<1>1. CASE TryCas(t) \/ WaitCas(t)
  <2>1. OneMoves(t) /\ pc'[t] # "reset_cas"
    BY <1>0, <1>1 DEF TryCas, WaitCas, OneMoves, Guarded
  <2> QED BY <2>1, GuardsKept
<1>2. CASE TrySlow(t) \/ TryFail(t) \/ WaitTake(t)
  <2>1. OneMoves(t) /\ pc'[t] # "reset_cas"
    BY <1>0, <1>2 DEF TrySlow, TryFail, WaitTake, OneMoves, Guarded
  <2> QED BY <2>1, GuardsKept
<1>3. CASE WaitInterrupted(t) \/ WaitResume(t)
  <2>1. OneMoves(t) /\ pc'[t] # "reset_cas"
    BY <1>0, <1>3 DEF WaitInterrupted, WaitResume, OneMoves, Guarded
  <2> QED BY <2>1, GuardsKept
<1> QED BY <1>1, <1>2, <1>3

LEMMA GuardInterrupts ==
    ASSUME StopSignal = FALSE, IInv, GuardInv, UNCHANGED left, NEW t \in Threads,
           Timeout(t) \/ Signal(t) \/ Cancel(t)
    PROVE  GuardInv'
<1>0. pc \in [Threads -> Locs] /\ pc[t] \notin Guarded /\ csec = None
  BY SemConstants DEF Timeout, Signal, Cancel, IInv, Typed, GuardInv, CsecInv
<1>1. /\ pc' = pc \/ pc' = [pc EXCEPT ![t] = "woken"]
      /\ UNCHANGED <<old, csec>>
  BY DEF Timeout, Signal, Cancel, WaitIrq, Goto
<1>2. OneMoves(t) /\ pc'[t] \notin Guarded
  BY <1>0, <1>1 DEF OneMoves, Guarded
<1> QED BY <1>2, GuardsKept DEF Guarded

(* nxsem_post_slow() and the loop of nxsem_reset().                        *)
LEMMA GuardWakes ==
    ASSUME IInv, GuardInv, NEW t \in Threads,
           ResetPost(t) \/ (PostSlowCas(t) /\ UNCHANGED left)
    PROVE  GuardInv'
<1>0. /\ pc \in [Threads -> Locs] /\ old \in [Threads -> Int]
      /\ left \in [Threads -> 0 .. CountCap]
      /\ pc[t] \in {"reset", "post_slow_cas"} /\ csec = t
  BY DEF ResetPost, PostSlowCas, IInv, Typed, GuardInv, CsecInv, Guarded
<1>1. /\ \A u \in Threads \ {t} : pc'[u] = pc[u] \/ pc'[u] = "woken"
      /\ pc'[t] \in {"reset", "post_slow_cas"} => csec' = t
      /\ pc'[t] \in {"reset", "post_slow_cas", "idle", "woken"}
  <2>1. ASSUME NEW n, NEW l \in {"idle", "reset"}, Wake(n, t, l)
        PROVE  /\ \A u \in Threads \ {t} : pc'[u] = pc[u] \/ pc'[u] = "woken"
               /\ pc'[t] \in {l, "woken"}
    BY <2>1, Zenon DEF Wake
  <2>2. CASE ResetPost(t)
    <3>1. Wake(IF waitlist # <<>> THEN 1 ELSE 0, t, "reset") /\ csec' = csec
      BY <2>2 DEF ResetPost
    <3>2. PICK n : n = IF waitlist # <<>> THEN 1 ELSE 0
      OBVIOUS
    <3>3. Wake(n, t, "reset")
      BY <3>1, <3>2
    <3> QED BY <1>0, <2>1, <3>1, <3>3
  <2>3. CASE PostSlowCas(t) /\ count = old[t]
    <3>1. Wake(IF count < 0 /\ waitlist # <<>> THEN 1 ELSE 0, t, "idle")
      BY <2>3 DEF PostSlowCas
    <3>2. PICK n : n = IF count < 0 /\ waitlist # <<>> THEN 1 ELSE 0
      OBVIOUS
    <3>3. Wake(n, t, "idle")
      BY <3>1, <3>2
    <3> QED BY <2>1, <3>3
  <2>4. CASE PostSlowCas(t) /\ count # old[t]
    BY <1>0, <2>4 DEF PostSlowCas
  <2> QED BY <2>2, <2>3, <2>4
<1>2. \A u \in Threads \ {t} : old'[u] = old[u] /\ left'[u] = left[u]
  BY <1>0 DEF ResetPost, PostSlowCas, Expect
<1>3. OneMoves(t) /\ pc'[t] # "reset_cas"
  BY <1>0, <1>1, <1>2 DEF OneMoves, Guarded
<1> QED BY <1>3, GuardsKept

(* The other steps of nxsem_reset().                                       *)
LEMMA GuardReset ==
    ASSUME IInv, GuardInv, NEW t \in Threads,
           \/ \E n \in ResetCounts : Reset(t, n)
           \/ ResetRead(t) \/ ResetBreak(t) \/ ResetCas(t)
    PROVE  GuardInv'
<1> USE DEF ResetReturn, Goto, Expect
<1>0. /\ pc \in [Threads -> Locs] /\ old \in [Threads -> Int] /\ count \in Int
      /\ left \in [Threads -> 0 .. CountCap] /\ CountCap \in Nat
      /\ pc[t] \in Guarded => csec = t
  BY SemConstants DEF IInv, Typed, GuardInv, CsecInv
<1>1. CASE \E n \in ResetCounts : Reset(t, n)
  <2>1. OneMoves(t) /\ pc'[t] # "reset_cas"
    BY <1>0, <1>1 DEF Reset, OneMoves, Guarded
  <2> QED BY <2>1, GuardsKept
<1>2. CASE ResetRead(t)
  <2>1. OneMoves(t)
    BY <1>0, <1>2 DEF ResetRead, OneMoves, Guarded
  <2>2. IF old'[t] < 0 THEN count' = old'[t] /\ left'[t] = 0 ELSE count' >= 0
    BY <1>0, <1>2 DEF ResetRead
  <2> QED BY <2>1, <2>2, GuardsKept
<1>3. CASE ResetBreak(t)
  <2>1. OneMoves(t) /\ pc'[t] # "reset_cas"
    BY <1>0, <1>3 DEF ResetBreak, OneMoves, Guarded
  <2> QED BY <2>1, GuardsKept
<1>4. CASE ResetCas(t)
  <2>1. OneMoves(t)
    BY <1>0, <1>4 DEF ResetCas, OneMoves, Guarded
  <2>2. count >= 0
    BY <1>4 DEF ResetCas, GuardInv, ResetInv
  <2>3. pc'[t] = "reset_cas" =>
          IF old'[t] < 0 THEN count' = old'[t] /\ left'[t] = 0 ELSE count' >= 0
    BY <1>0, <1>4, <2>2 DEF ResetCas
  <2> QED BY <2>1, <2>3, GuardsKept
<1> QED BY <1>1, <1>2, <1>3, <1>4

LEMMA GuardNext ==
    ASSUME StopSignal = FALSE, IInv, GuardInv, [Next]_vars
    PROVE  GuardInv'
<1>1. CASE UNCHANGED vars
  BY <1>1 DEF vars, GuardInv, CsecInv, ResetInv
<1>2. CASE Next
  <2>1. PICK t \in Threads :
          \/ /\ UNCHANGED left
             /\ \/ Wait(t) \/ TryWait(t) \/ TickWait(t) \/ Post(t) \/ Consume(t)
                \/ Timeout(t) \/ Signal(t) \/ Cancel(t)
          \/ Step(t)
          \/ \E n \in ResetCounts : Reset(t, n)
    BY <1>2, Zenon DEF Next
  <2>2. CASE Step(t)
    BY <2>2, GuardMoves, GuardReturns, GuardWakes, GuardReset, Zenon DEF Step, ResetStep
  <2>3. CASE ~Step(t)
    BY <2>1, <2>3, GuardMoves, GuardInterrupts, GuardReset, Zenon
  <2> QED BY <2>2, <2>3
<1> QED BY <1>1, <1>2

(* The critical section protects what a reset relies on.                   *)
THEOREM ResetGuarded ==
    ASSUME StopSignal = FALSE PROVE Spec => []GuardInv
<1>1. Init => GuardInv
  BY DEF Init, GuardInv, CsecInv, ResetInv, Guarded
<1>2. IInv /\ GuardInv /\ [Next]_vars => GuardInv'
  BY GuardNext
<1> QED BY <1>1, <1>2, SemInductive, PTL DEF Spec

-----------------------------------------------------------------------------
(* The refinement of Semaphore.                                            *)

(* A step that moves at most the thread t, as seen by the semaphore.       *)
LEMMA AbsStep ==
    ASSUME NEW t \in Threads,
           \A u \in Threads \ {t} : pc'[u] = pc[u] /\ errcode'[u] = errcode[u],
           count \in Int, count' \in Int, left' = left,
           \/ /\ AbsState(t)' = AbsState(t)
              /\ count' = count \/ (count <= 0 /\ count' <= 0)
           \/ /\ AbsState(t) = "idle" /\ AbsState(t)' = "waiting" /\ count' = count
           \/ /\ AbsState(t) = "waiting" /\ AbsState(t)' = "has"
              /\ count > 0 /\ count' = count - 1
           \/ /\ AbsState(t) = "waiting" /\ AbsState(t)' = "idle" /\ count' = count
           \/ /\ AbsState(t) = "has" /\ AbsState(t)' = "idle" /\ count' = count
           \/ /\ AbsState(t) \in {"idle", "has"} /\ AbsState(t)' = "posting"
              /\ count' = count
           \/ /\ AbsState(t) = "posting" /\ AbsState(t)' = "idle"
              /\ count' = count \/ (count >= 0 /\ count' = count + 1)
    PROVE  [Abs!Next]_(Abs!semVars)
<1> DEFINE v == IF count > 0 THEN count ELSE 0
           st == [u \in Threads |-> AbsState(u)]
<1>1. \A u \in Threads \ {t} : AbsState(u)' = AbsState(u)
  BY DEF AbsState, InWait
<1>2. st' = [st EXCEPT ![t] = AbsState(t)'] /\ st[t] = AbsState(t)
  BY <1>1
<1>3. CASE /\ AbsState(t)' = AbsState(t)
           /\ count' = count \/ (count <= 0 /\ count' <= 0)
  <2>1. st' = st
    BY <1>1, <1>3
  <2>2. v' = v
    BY <1>3
  <2> QED BY <2>1, <2>2 DEF Abs!semVars
<1>4. CASE AbsState(t) = "idle" /\ AbsState(t)' = "waiting" /\ count' = count
  <2>1. Abs!Request(t)
    BY <1>2, <1>4 DEF Abs!Request, Abs!Become
  <2> QED BY <2>1 DEF Abs!Next
<1>5. CASE AbsState(t) = "waiting" /\ AbsState(t)' = "has" /\ count > 0
           /\ count' = count - 1
  <2>1. v > 0 /\ v' = v - 1
    BY <1>5
  <2>2. Abs!Acquire(t)
    BY <1>2, <1>5, <2>1 DEF Abs!Acquire, Abs!Become
  <2> QED BY <2>2 DEF Abs!Next
<1>6. CASE AbsState(t) = "waiting" /\ AbsState(t)' = "idle" /\ count' = count
  <2>1. Abs!Refuse(t)
    BY <1>2, <1>6 DEF Abs!Refuse, Abs!Become
  <2> QED BY <2>1 DEF Abs!Next
<1>7. CASE AbsState(t) = "has" /\ AbsState(t)' = "idle" /\ count' = count
  <2>1. Abs!GoOn(t)
    BY <1>2, <1>7 DEF Abs!GoOn, Abs!Become
  <2> QED BY <2>1 DEF Abs!Next
<1>8. CASE AbsState(t) \in {"idle", "has"} /\ AbsState(t)' = "posting"
           /\ count' = count
  <2>1. Abs!Post(t)
    BY <1>2, <1>8 DEF Abs!Post, Abs!Become
  <2> QED BY <2>1 DEF Abs!Next
<1>9. CASE AbsState(t) = "posting" /\ AbsState(t)' = "idle" /\ count' = count
  <2>1. Abs!Overflow(t)
    BY <1>2, <1>9 DEF Abs!Overflow, Abs!Become
  <2> QED BY <2>1 DEF Abs!Next
<1>10. CASE AbsState(t) = "posting" /\ AbsState(t)' = "idle" /\ count >= 0
            /\ count' = count + 1
  <2>1. v' = v + 1
    BY <1>10
  <2>2. Abs!Release(t)
    BY <1>2, <1>10, <2>1 DEF Abs!Release, Abs!Become
  <2> QED BY <2>2 DEF Abs!Next
<1> QED BY <1>3, <1>4, <1>5, <1>6, <1>7, <1>8, <1>9, <1>10

(* While a thread is blocked the count is negative.                        *)
LEMMA BlockedCount ==
    ASSUME IInv, NEW t \in Threads, pc[t] = "blocked" PROVE count < 0
<1>1. waitlist \in Seq(Threads) /\ ToSet(waitlist) # {}
  BY DEF IInv, Typed, WaitersInv
<1>2. Len(waitlist) # 0
  BY <1>1, ToSetEmpty
<1> QED BY <1>2 DEF IInv, Typed, CountInv

(* Steps of one thread: requests, attempts, and posts that wake nobody.    *)
LEMMA AbsMoves ==
    ASSUME IInv, UNCHANGED left, NEW t \in Threads,
           \/ Wait(t) \/ TryWait(t) \/ TickWait(t) \/ Post(t) \/ Consume(t)
           \/ TickEnter(t) \/ TryRead(t) \/ WaitRead(t) \/ WaitBlock(t)
           \/ PostRead(t) \/ PostSlow(t) \/ PostOverflow(t) \/ PostCas(t)
    PROVE  [Abs!Next]_(Abs!semVars)
<1>1. /\ pc \in [Threads -> Locs] /\ count \in Int
      /\ pc[t] = "post_cas" => old[t] >= 0
  BY DEF IInv, Typed, OldInv
<1>2. /\ \A u \in Threads \ {t} : pc'[u] = pc[u] /\ errcode'[u] = errcode[u]
      /\ count' \in Int
  <2>1. CASE WaitBlock(t)
    BY <1>1, <2>1 DEF WaitBlock, Goto, IInv, Typed
  <2>2. CASE ~WaitBlock(t)
    BY <1>1, <2>2 DEF Wait, TryWait, TickWait, Post, Consume, TickEnter, TryRead,
           WaitRead, PostRead, PostSlow, PostOverflow, PostCas, Goto
  <2> QED BY <2>1, <2>2
<1>3. CASE Wait(t) \/ TryWait(t) \/ TickWait(t)
  <2>1. pc[t] = "idle" /\ pc'[t] \in {"wait_read", "try_read", "tick_enter"}
        /\ count' = count
    BY <1>1, <1>3 DEF Wait, TryWait, TickWait, Goto
  <2>2. AbsState(t) = "idle" /\ AbsState(t)' = "waiting"
    BY <2>1 DEF AbsState, InWait
  <2> QED BY <1>1, <1>2, <2>1, <2>2, AbsStep
<1>4. CASE Post(t) \/ Consume(t)
  <2>1. /\ count' = count
        /\ \/ pc[t] \in {"idle", "got"} /\ pc'[t] = "post_read"
           \/ pc[t] = "got" /\ pc'[t] = "idle"
    BY <1>1, <1>4 DEF Post, Consume, Goto
  <2>2. \/ AbsState(t) \in {"idle", "has"} /\ AbsState(t)' = "posting"
        \/ AbsState(t) = "has" /\ AbsState(t)' = "idle"
    BY <2>1 DEF AbsState, InWait
  <2> QED BY <1>1, <1>2, <2>1, <2>2, AbsStep
<1>5. CASE TickEnter(t) \/ TryRead(t) \/ WaitRead(t) \/ WaitBlock(t)
  <2>1. /\ pc[t] \in {"tick_enter", "try_read", "wait_read", "wait_slow"}
        /\ pc'[t] \in {"try_read", "try_cas", "wait_cas", "wait_slow", "blocked"}
        /\ count' = count \/ (count <= 0 /\ count' <= 0)
    BY <1>1, <1>5 DEF TickEnter, TryRead, WaitRead, WaitBlock, Goto
  <2>2. AbsState(t) = "waiting" /\ AbsState(t)' = "waiting"
    BY <2>1 DEF AbsState, InWait
  <2> QED BY <1>1, <1>2, <2>1, <2>2, AbsStep
<1>6. CASE PostRead(t) \/ PostSlow(t) \/ PostOverflow(t) \/ PostCas(t)
  <2>1. /\ pc[t] \in {"post_read", "post_cas", "post_slow", "post_slow_cas"}
        /\ \/ /\ pc'[t] \in {"post_read", "post_cas", "post_slow", "post_slow_cas"}
              /\ count' = count
           \/ /\ pc'[t] = "idle"
              /\ count' = count \/ (count >= 0 /\ count' = count + 1)
    BY <1>1, <1>6 DEF PostRead, PostSlow, PostOverflow, PostCas, Goto
  <2>2. /\ AbsState(t) = "posting"
        /\ pc'[t] = "idle" => AbsState(t)' = "idle"
        /\ pc'[t] # "idle" => AbsState(t)' = "posting"
    BY <2>1 DEF AbsState, InWait
  <2> QED BY <1>1, <1>2, <2>1, <2>2, AbsStep
<1> QED BY <1>3, <1>4, <1>5, <1>6

(* Steps that end a wait: with a unit only if it was taken from the count, *)
(* or handed to the thread before.                                         *)
LEMMA AbsReturns ==
    ASSUME IInv, UNCHANGED left, NEW t \in Threads,
           \/ TryCas(t) \/ TrySlow(t) \/ TryFail(t) \/ WaitCas(t)
           \/ WaitInterrupted(t) \/ WaitTake(t) \/ WaitResume(t)
    PROVE  [Abs!Next]_(Abs!semVars)
<1>1. /\ pc \in [Threads -> Locs] /\ count \in Int
      /\ errcode \in [Threads -> {"OK", "EINTR", "ECANCELED", "ETIMEDOUT"}]
      /\ pc[t] \in {"try_cas", "wait_cas"} => old[t] >= 1
  BY DEF IInv, Typed, OldInv
<1>2. /\ \A u \in Threads \ {t} : pc'[u] = pc[u] /\ errcode'[u] = errcode[u]
      /\ count' \in Int
  BY <1>1 DEF TryCas, TrySlow, TryFail, WaitCas, WaitInterrupted, WaitTake,
         WaitResume, Return, Goto
<1>3. CASE TryCas(t) \/ TrySlow(t) \/ WaitCas(t) \/ WaitTake(t)
  <2>1. /\ pc[t] \in {"try_read", "try_cas", "wait_cas", "wait_slow"}
        /\ \/ pc'[t] = "got" /\ count > 0 /\ count' = count - 1
           \/ pc'[t] \in {"try_read", "wait_read"} /\ count' = count
    BY <1>1, <1>3 DEF TryCas, TrySlow, WaitCas, WaitTake, Return, Goto
  <2>2. /\ AbsState(t) = "waiting"
        /\ pc'[t] = "got" => AbsState(t)' = "has"
        /\ pc'[t] \in {"try_read", "wait_read"} => AbsState(t)' = "waiting"
    BY <2>1 DEF AbsState, InWait
  <2> QED BY <1>1, <1>2, <2>1, <2>2, AbsStep
<1>4. CASE TryFail(t) \/ WaitInterrupted(t)
  <2>1. /\ pc[t] \in {"try_read", "wait_slow"} /\ count' = count
        /\ pc'[t] \in {"idle", "wait_read"}
    BY <1>1, <1>4 DEF TryFail, WaitInterrupted, Return, Goto
  <2>2. AbsState(t) = "waiting" /\ AbsState(t)' \in {"waiting", "idle"}
    BY <2>1 DEF AbsState, InWait
  <2> QED BY <1>1, <1>2, <2>1, <2>2, AbsStep
<1>5. CASE WaitResume(t)
  <2>1. pc[t] = "woken" /\ count' = count
    BY <1>5 DEF WaitResume
  <2>2. CASE errcode[t] = "OK"
    <3>1. pc'[t] = "got"
      BY <1>1, <1>5, <2>2 DEF WaitResume, Return, Goto
    <3>2. AbsState(t) = "has" /\ AbsState(t)' = "has"
      BY <2>1, <2>2, <3>1 DEF AbsState, InWait
    <3> QED BY <1>1, <1>2, <2>1, <3>2, AbsStep
  <2>3. CASE errcode[t] # "OK"
    <3>1. pc'[t] \in {"idle", "tick_enter", "wait_read"}
      BY <1>1, <1>5, <2>3 DEF WaitResume, Return, Goto
    <3>2. AbsState(t) = "waiting" /\ AbsState(t)' \in {"waiting", "idle"}
      BY <2>1, <2>3, <3>1 DEF AbsState, InWait
    <3> QED BY <1>1, <1>2, <2>1, <3>2, AbsStep
  <2> QED BY <2>2, <2>3
<1> QED BY <1>3, <1>4, <1>5

(* A wait that a timeout, a signal or a cancellation ends stays a wait     *)
(* until the thread returns from it: no unit changes hands.                *)
LEMMA AbsInterrupts ==
    ASSUME StopSignal = FALSE, IInv, UNCHANGED left, NEW t \in Threads,
           Timeout(t) \/ Signal(t) \/ Cancel(t)
    PROVE  [Abs!Next]_(Abs!semVars)
<1>1. pc \in [Threads -> Locs] /\ count \in Int
      /\ errcode \in [Threads -> {"OK", "EINTR", "ECANCELED", "ETIMEDOUT"}]
  BY DEF IInv, Typed
<1>2. ASSUME NEW e \in {"EINTR", "ECANCELED", "ETIMEDOUT"}, WaitIrq(t, e),
             pc[t] = "blocked"
      PROVE  [Abs!Next]_(Abs!semVars)
  <2>1. count < 0
    BY <1>2, BlockedCount
  <2>2. /\ \A u \in Threads \ {t} : pc'[u] = pc[u] /\ errcode'[u] = errcode[u]
        /\ count' \in Int /\ count' <= 0
        /\ pc'[t] = "woken" /\ errcode'[t] # "OK"
    BY <1>1, <1>2, <2>1 DEF WaitIrq, Goto
  <2>3. AbsState(t) = "waiting" /\ AbsState(t)' = "waiting"
    BY <1>2, <2>2 DEF AbsState, InWait
  <2> QED BY <1>1, <2>1, <2>2, <2>3, AbsStep
<1>3. ASSUME UNCHANGED <<count, pc, errcode>> PROVE [Abs!Next]_(Abs!semVars)
  <2>1. AbsState(t)' = AbsState(t)
    BY <1>3 DEF AbsState, InWait
  <2> QED BY <1>1, <1>3, <2>1, AbsStep
<1>4. CASE Timeout(t)
  BY <1>2, <1>3, <1>4 DEF Timeout
<1>5. CASE Signal(t)
  BY <1>2, <1>3, <1>5 DEF Signal
<1>6. CASE Cancel(t)
  BY <1>2, <1>6 DEF Cancel
<1> QED BY <1>4, <1>5, <1>6

(* A wake-up hands a unit to each thread of a set W of waiters.            *)
LEMMA AbsWake ==
    ASSUME IInv, NEW n \in 0 .. Len(waitlist), NEW m \in Threads,
           pc[m] \in {"reset", "post_slow_cas"}, NEW l \in {"reset", "idle"},
           Wake(n, m, l), UNCHANGED errcode
    PROVE  \E W \in SUBSET Threads :
             /\ \A w \in W : AbsState(w) = "waiting" /\ AbsState(w)' = "has"
             /\ \A u \in Threads \ (W \cup {m}) : AbsState(u)' = AbsState(u)
             /\ m \notin W /\ pc'[m] = l
             /\ IsFiniteSet(W) /\ Cardinality(W) = n
<1>1. pc[m] # "blocked" /\ l \in Locs \ {"blocked"}
  BY DEF Locs
<1>2. PICK W \in SUBSET Threads :
             /\ \A w \in W : pc[w] = "blocked" /\ pc'[w] = "woken"
             /\ \A u \in Threads \ W : pc'[u] = IF u = m THEN l ELSE pc[u]
             /\ IsFiniteSet(W) /\ Cardinality(W) = n
  BY <1>1, WakeFacts
<1>3. \A w \in W : errcode'[w] = "OK"
  BY <1>2 DEF IInv, WaitersInv
<1>4. \A w \in W : AbsState(w) = "waiting" /\ AbsState(w)' = "has"
  BY <1>2, <1>3 DEF AbsState, InWait
<1>5. \A u \in Threads \ (W \cup {m}) : AbsState(u)' = AbsState(u)
  BY <1>2 DEF AbsState, InWait
<1>6. m \notin W /\ pc'[m] = l
  BY <1>1, <1>2
<1> QED BY <1>2, <1>4, <1>5, <1>6

(* nxsem_post_slow() adds a unit, or passes it to one waiter.              *)
LEMMA AbsPostSlow ==
    ASSUME IInv, UNCHANGED left, NEW t \in Threads, PostSlowCas(t)
    PROVE  [Abs!Next]_(Abs!semVars)
<1> DEFINE v == IF count > 0 THEN count ELSE 0
           st == [u \in Threads |-> AbsState(u)]
           n == IF count < 0 /\ waitlist # <<>> THEN 1 ELSE 0
<1>1. CASE count # old[t]
  <2>1. UNCHANGED <<count, pc, errcode>> /\ count \in Int
    BY <1>1 DEF PostSlowCas, IInv, Typed
  <2>2. AbsState(t)' = AbsState(t)
    BY <2>1 DEF AbsState, InWait
  <2> QED BY <2>1, <2>2, AbsStep
<1>2. CASE count = old[t]
  <2>0. /\ count \in Int /\ Len(waitlist) \in Nat
        /\ (waitlist = <<>> <=> Len(waitlist) = 0)
    BY DEF IInv, Typed
  <2>1. n \in 0 .. Len(waitlist) /\ n \in {0, 1} /\ (n = 1 <=> count < 0)
    BY <2>0 DEF IInv, CountInv
  <2>2. /\ pc[t] = "post_slow_cas" /\ Wake(n, t, "idle") /\ count' = count + 1
        /\ UNCHANGED errcode
    BY <1>2 DEF PostSlowCas
  <2> HIDE DEF n
  <2>3. PICK W \in SUBSET Threads :
             /\ \A w \in W : AbsState(w) = "waiting" /\ AbsState(w)' = "has"
             /\ \A u \in Threads \ (W \cup {t}) : AbsState(u)' = AbsState(u)
             /\ t \notin W /\ pc'[t] = "idle"
             /\ IsFiniteSet(W) /\ Cardinality(W) = n
    BY <2>1, <2>2, AbsWake
  <2>4. AbsState(t) = "posting" /\ AbsState(t)' = "idle"
    BY <2>2, <2>3 DEF AbsState, InWait
  <2>5. CASE count < 0
    <3>1. PICK w \in Threads : W = {w}
      BY <2>1, <2>3, <2>5, FS_Singleton
    <3>2. /\ st[t] = "posting" /\ st[w] = "waiting"
          /\ st' = [st EXCEPT ![t] = "idle", ![w] = "has"]
      BY <2>3, <2>4, <3>1
    <3>3. v = 0 /\ v' = v
      BY <2>0, <2>2, <2>5
    <3>4. Abs!Grant(t, w)
      BY <3>2, <3>3 DEF Abs!Grant
    <3> QED BY <3>4 DEF Abs!Next
  <2>6. CASE ~(count < 0)
    <3>1. W = {}
      BY <2>1, <2>3, <2>6, FS_EmptySet
    <3>2. st[t] = "posting" /\ st' = [st EXCEPT ![t] = "idle"]
      BY <2>3, <2>4, <3>1
    <3>3. v' = v + 1
      BY <2>0, <2>2, <2>6
    <3>4. Abs!Release(t)
      BY <3>2, <3>3 DEF Abs!Release, Abs!Become
    <3> QED BY <3>4 DEF Abs!Next
  <2> QED BY <2>5, <2>6
<1> QED BY <1>1, <1>2

(* A turn of the loop of nxsem_reset() passes a unit to one waiter.        *)
LEMMA AbsResetPost ==
    ASSUME IInv, NEW t \in Threads, ResetPost(t)
    PROVE  [Abs!Next]_(Abs!semVars)
<1> DEFINE v == IF count > 0 THEN count ELSE 0
           st == [u \in Threads |-> AbsState(u)]
<1>1. /\ 1 \in 0 .. Len(waitlist) /\ Wake(1, t, "reset")
      /\ pc[t] = "reset" /\ count < 0 /\ count' = count + 1 /\ count \in Int
      /\ UNCHANGED <<csec, old, timed, errcode, sigpend>>
      /\ left[t] > 0 /\ left' = [left EXCEPT ![t] = left[t] - 1]
  BY ResetPostFacts
<1>2. PICK W \in SUBSET Threads :
             /\ \A w \in W : AbsState(w) = "waiting" /\ AbsState(w)' = "has"
             /\ \A u \in Threads \ (W \cup {t}) : AbsState(u)' = AbsState(u)
             /\ t \notin W /\ pc'[t] = "reset"
             /\ IsFiniteSet(W) /\ Cardinality(W) = 1
  BY <1>1, AbsWake
<1>3. PICK w \in Threads : W = {w}
  BY <1>2, FS_Singleton
<1>4. AbsState(t) = "resetting" /\ AbsState(t)' = "resetting"
  BY <1>1, <1>2 DEF AbsState, InWait
<1>5. /\ st[t] = "resetting" /\ st[w] = "waiting"
      /\ st' = [st EXCEPT ![w] = "has"]
  BY <1>2, <1>3, <1>4
<1>6. v = 0 /\ v' = v
  BY <1>1
<1>7. Abs!ResetGrant(t, w)
  BY <1>1, <1>5, <1>6 DEF Abs!ResetGrant, Abs!Become
<1> QED BY <1>7 DEF Abs!Next

(* A reset begins with its units still to give, and ends with the value    *)
(* set to what remains of them: the critical section has kept the count of *)
(* a reset that found threads still waiting.                               *)
LEMMA AbsReset ==
    ASSUME IInv, GuardInv, NEW t \in Threads,
           \/ \E n \in ResetCounts : Reset(t, n)
           \/ ResetRead(t) \/ ResetBreak(t) \/ ResetCas(t)
    PROVE  [Abs!Next]_(Abs!semVars)
<1> DEFINE v == IF count > 0 THEN count ELSE 0
           st == [u \in Threads |-> AbsState(u)]
<1>0. /\ pc \in [Threads -> Locs] /\ count \in Int
      /\ left \in [Threads -> 0 .. CountCap] /\ CountCap \in Nat
      /\ UNCHANGED errcode
  BY SemConstants DEF IInv, Typed, Reset, ResetRead, ResetBreak, ResetCas
<1>1. \A u \in Threads \ {t} : pc'[u] = pc[u]
  BY <1>0 DEF Reset, ResetRead, ResetBreak, ResetCas, ResetReturn, Goto
<1>2. \A u \in Threads \ {t} : AbsState(u)' = AbsState(u)
  BY <1>0, <1>1 DEF AbsState, InWait
<1>3. st' = [st EXCEPT ![t] = AbsState(t)'] /\ st[t] = AbsState(t)
  BY <1>2
<1>4. ASSUME NEW n \in ResetCounts, Reset(t, n) PROVE [Abs!Next]_(Abs!semVars)
  <2>1. /\ pc[t] = "idle" /\ pc'[t] = "reset" /\ count' = count
        /\ left' = [left EXCEPT ![t] = n]
    BY <1>0, <1>4 DEF Reset, Goto
  <2>2. AbsState(t) = "idle" /\ AbsState(t)' = "resetting"
    BY <2>1 DEF AbsState, InWait
  <2>3. Abs!ResetBegin(t, n)
    BY <1>3, <2>1, <2>2 DEF Abs!ResetBegin, Abs!Become
  <2> QED BY <2>3 DEF Abs!Next
<1>5. ASSUME ResetRead(t) \/ (ResetCas(t) /\ count # old[t])
      PROVE  [Abs!Next]_(Abs!semVars)
  <2>1. /\ pc[t] \in {"reset", "reset_cas"} /\ pc'[t] = "reset_cas"
        /\ count' = count /\ left' = left
    BY <1>0, <1>5 DEF ResetRead, ResetCas, Goto
  <2>2. AbsState(t)' = AbsState(t)
    BY <2>1 DEF AbsState, InWait
  <2> QED BY <1>0, <1>1, <2>1, <2>2, AbsStep
<1>6. ASSUME ResetBreak(t) \/ (ResetCas(t) /\ count = old[t])
      PROVE  [Abs!Next]_(Abs!semVars)
  <2>1. /\ pc[t] = "reset_cas" /\ pc'[t] = "idle"
        /\ left' = [left EXCEPT ![t] = 0]
    BY <1>0, <1>6 DEF ResetBreak, ResetCas, ResetReturn, Goto
  <2>2. AbsState(t) = "resetting" /\ AbsState(t)' = "idle"
    BY <2>1 DEF AbsState, InWait
  <2>3. v' = left[t]
    <3>1. CASE ResetBreak(t)
      <4>1. count' = count /\ count < 0 /\ left[t] = 0
        BY <3>1 DEF ResetBreak, GuardInv, ResetInv
      <4> QED BY <1>0, <4>1
    <3>2. CASE ResetCas(t) /\ count = old[t]
      <4>1. count' = left[t] /\ left[t] \in Nat
        BY <1>0, <3>2 DEF ResetCas
      <4> QED BY <4>1
    <3> QED BY <1>6, <3>1, <3>2
  <2>4. Abs!ResetEnd(t)
    BY <1>3, <2>1, <2>2, <2>3 DEF Abs!ResetEnd, Abs!Become
  <2> QED BY <2>4 DEF Abs!Next
<1> QED BY <1>4, <1>5, <1>6

(* Every step of the code is a step of a counting semaphore, or none: no   *)
(* race of the lock-free paths with each other or with the slow ones, no   *)
(* timeout, signal or cancellation makes or loses a unit, every post gives *)
(* one, and a reset to n gives n.  A reset is several steps: what the last *)
(* of them replaces is lost, also a unit that was posted in between.       *)
THEOREM UnitsPreserved ==
    ASSUME StopSignal = FALSE PROVE Spec => UnitsConserved
<1>1. Init => Abs!Init
  <2> SUFFICES ASSUME Init PROVE Abs!Init
    OBVIOUS
  <2>1. count \in Nat
    BY SemConstants DEF Init
  <2>2. \A t \in Threads : AbsState(t) = "idle"
    BY DEF Init, AbsState, InWait
  <2> QED BY <2>1, <2>2 DEF Init, Abs!Init
<1>2. IInv /\ GuardInv /\ [Next]_vars => [Abs!Next]_(Abs!semVars)
  <2> SUFFICES ASSUME IInv, GuardInv, [Next]_vars PROVE [Abs!Next]_(Abs!semVars)
    OBVIOUS
  <2>1. CASE UNCHANGED vars
    BY <2>1 DEF vars, Abs!semVars, AbsState, InWait
  <2>2. CASE Next
    <3>1. PICK t \in Threads :
            \/ /\ UNCHANGED left
               /\ \/ Wait(t) \/ TryWait(t) \/ TickWait(t) \/ Post(t) \/ Consume(t)
                  \/ Timeout(t) \/ Signal(t) \/ Cancel(t)
            \/ Step(t)
            \/ \E n \in ResetCounts : Reset(t, n)
      BY <2>2, Zenon DEF Next
    <3>2. CASE Step(t)
      BY <3>2, AbsMoves, AbsReturns, AbsPostSlow, AbsResetPost, AbsReset, Zenon
         DEF Step, ResetStep
    <3>3. CASE ~Step(t)
      BY <3>1, <3>3, AbsMoves, AbsInterrupts, AbsReset, Zenon
    <3> QED BY <3>2, <3>3
  <2> QED BY <2>1, <2>2
<1> QED BY <1>1, <1>2, SemInductive, ResetGuarded, PTL
        DEF Spec, UnitsConserved, Abs!Spec
=============================================================================
