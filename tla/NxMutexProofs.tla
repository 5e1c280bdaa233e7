--------------------------- MODULE NxMutexProofs ----------------------------
(***************************************************************************)
(* The safety of the NuttX mutex for any number of threads and priorities, *)
(* with deferred cancellation.                                             *)
(***************************************************************************)
EXTENDS NxMutex, PrioListProofs

(* The thread is inside its critical section: between the atomic_or() of a *)
(* slow path and its end, or anywhere in nxsem_tickwait() while running.   *)
InOr(t) == pc[t] \in {"wait_or", "post_or"}

InTick(t) ==
    timed[t] /\ pc[t] \in {"try_read", "try_cas", "wait_read", "wait_cas",
                           "wait_slow"}

CsecInv ==
    /\ \A t \in Threads : csec = t <=> InOr(t) \/ InTick(t)
    /\ \A t \in Threads :
         timed[t] => InTick(t) \/ pc[t] \in {"wait_or", "blocked", "woken"}

(* What the word says of the waiters.  While a slow path is between its    *)
(* two accesses the bit is set in any case, and old keeps what it was.     *)
BitIfWaiters ==
    waitlist # <<>> => mholder.blocking /\ mholder.holder \in Threads

WaitersIfBit ==
    (\A t \in Threads : ~InOr(t)) /\ mholder.blocking => waitlist # <<>>

SlowPathWord ==
    \A t \in Threads : InOr(t) =>
        /\ mholder.blocking
        /\ mholder.holder = old[t].holder
        /\ old[t].blocking <=> waitlist # <<>>

(* A post's fast path expects the word without waiters.                    *)
FastPostWord ==
    \A t \in Threads : pc[t] = "post_cas" => old[t] = Word(t, FALSE)

WordInv == BitIfWaiters /\ WaitersIfBit /\ SlowPathWord /\ FastPostWord

(* The word names every owner, and whom it names owns the mutex, was       *)
(* handed it, or died with it.                                             *)
HolderInv ==
    /\ \A t \in Threads : Owns(t) \/ HandedTo(t) => mholder.holder = t
    /\ \A h \in Threads : mholder.holder = h =>
         Owns(h) \/ HandedTo(h) \/ pc[h] \in {"exiting", "dead"}

WaitersInv ==
    /\ ToSet(waitlist) = {t \in Threads : pc[t] = "blocked"}
    /\ NoDuplicates(waitlist)
    /\ \A t \in Threads : pc[t] = "blocked" => errcode[t] = "OK"

IInv ==
    /\ TypeOK
    /\ CsecInv
    /\ WordInv
    /\ HolderInv
    /\ WaitersInv
    /\ WatchdogScoped

(* The words the code stores are lock words.                               *)
LEMMA WordTypes ==
    /\ \A h \in Threads \cup {NoHolder, MReset}, b \in BOOLEAN :
         Word(h, b) \in Words
    /\ Free \in Words
    /\ \A w \in Words : [w EXCEPT !.blocking = TRUE] \in Words
    /\ \A w \in Words : [w EXCEPT !.blocking = FALSE] \in Words
BY DEF Word, Words, Free

(* The end of a lock operation keeps the types.                            *)
LEMMA ReturnTypes ==
    ASSUME TypeOK, NEW t \in Threads, NEW l \in Locs, Return(t, l)
    PROVE  /\ csec' \in Threads \cup {None}
           /\ pc' \in [Threads -> Locs]
           /\ old' \in [Threads -> Words]
           /\ timed' \in [Threads -> BOOLEAN]
           /\ waitdog' \in [Threads -> BOOLEAN]
<1>1. csec' \in Threads \cup {None}
  BY DEF TypeOK, Return
<1>2. pc' \in [Threads -> Locs]
  BY DEF TypeOK, Return, Goto
<1>3. old' \in [Threads -> Words]
  BY WordTypes DEF TypeOK, Return, Forget
<1>4. timed' \in [Threads -> BOOLEAN]
  BY DEF TypeOK, Return
<1>5. waitdog' \in [Threads -> BOOLEAN]
  <2>1. CASE timed[t] BY <2>1 DEF TypeOK, Return
  <2>2. CASE ~timed[t] BY <2>2 DEF TypeOK, Return
  <2> QED BY <2>1, <2>2
<1> QED BY <1>1, <1>2, <1>3, <1>4, <1>5

(* HandOver() makes the head of the wait list the holder.                  *)
LEMMA HandOverFacts ==
    ASSUME TypeOK, WaitersInv, waitlist # <<>>, NEW u \in Threads, NEW l,
           pc[u] # "blocked", HandOver(u, l)
    PROVE  \E s \in Threads :
             /\ pc[s] = "blocked" /\ errcode[s] = "OK" /\ s # u
             /\ waitlist' \in Seq(Threads)
             /\ ToSet(waitlist') = ToSet(waitlist) \ {s}
             /\ NoDuplicates(waitlist')
             /\ mholder' = Word(s, waitlist' # <<>>)
             /\ waitdog' = [waitdog EXCEPT ![s] = FALSE]
             /\ pc' = [pc EXCEPT ![u] = l, ![s] = "woken"]
<1>1. /\ Head(waitlist) \in ToSet(waitlist) /\ Head(waitlist) \in Threads
      /\ Tail(waitlist) \in Seq(Threads)
      /\ ToSet(Tail(waitlist)) = ToSet(waitlist) \ {Head(waitlist)}
      /\ NoDuplicates(Tail(waitlist))
  BY TailFacts DEF TypeOK, WaitersInv
<1>2. PICK s \in Threads : s = Head(waitlist)
  BY <1>1
<1>3. pc[s] = "blocked" /\ errcode[s] = "OK" /\ s # u
  BY <1>1, <1>2 DEF WaitersInv
<1>4. waitlist' = Tail(waitlist)
  BY DEF HandOver
<1>5. /\ mholder' = Word(s, waitlist' # <<>>)
      /\ waitdog' = [waitdog EXCEPT ![s] = FALSE]
      /\ pc' = [pc EXCEPT ![u] = l, ![s] = "woken"]
  BY <1>2, <1>4, Zenon DEF HandOver, BlockingBit
<1>6. /\ waitlist' \in Seq(Threads)
      /\ ToSet(waitlist') = ToSet(waitlist) \ {s}
      /\ NoDuplicates(waitlist')
  BY <1>1, <1>2, <1>4, Zenon
<1> QED BY <1>3, <1>5, <1>6

(* Steps that only move the thread on: entries, a read, the end.           *)
LEMMA MoveInv ==
    ASSUME IInv, NEW t \in Threads,
           Lock(t) \/ TryLock(t) \/ Unlock(t) \/ WaitRead(t) \/ ReleaseTcb(t)
    PROVE  IInv'
<1> USE DEF IInv
<1>1. TypeOK'
  BY DEF Lock, TryLock, Unlock, WaitRead, ReleaseTcb, Goto, TypeOK, Locs
<1>2. CsecInv'
  BY DEF Lock, TryLock, Unlock, WaitRead, ReleaseTcb, Goto, TypeOK, CsecInv,
         InOr, InTick
<1>3. WordInv'
  <2>1. BitIfWaiters'
    BY DEF Lock, TryLock, Unlock, WaitRead, ReleaseTcb, WordInv, BitIfWaiters
  <2>2. WaitersIfBit'
    BY DEF Lock, TryLock, Unlock, WaitRead, ReleaseTcb, Goto, TypeOK, WordInv,
           WaitersIfBit, InOr
  <2>3. SlowPathWord'
    BY DEF Lock, TryLock, Unlock, WaitRead, ReleaseTcb, Goto, TypeOK, WordInv,
           SlowPathWord, InOr
  <2>4. FastPostWord'
    BY DEF Lock, TryLock, Unlock, WaitRead, ReleaseTcb, Goto, TypeOK, WordInv,
           FastPostWord
  <2> QED BY <2>1, <2>2, <2>3, <2>4 DEF WordInv
<1>4. HolderInv'
  BY DEF Lock, TryLock, Unlock, WaitRead, ReleaseTcb, Goto, TypeOK, HolderInv,
         Owns, HandedTo
<1>5. WaitersInv'
  BY DEF Lock, TryLock, Unlock, WaitRead, ReleaseTcb, Goto, TypeOK, WaitersInv
<1>6. WatchdogScoped'
  BY DEF Lock, TryLock, Unlock, WaitRead, ReleaseTcb, Goto, TypeOK,
         WatchdogScoped
<1> QED BY <1>1, <1>2, <1>3, <1>4, <1>5, <1>6

(* nxsem_tickwait() takes the critical section.                            *)
LEMMA TickLockInv ==
    ASSUME IInv, NEW t \in Threads,
           TickLock(t)
    PROVE  IInv'
<1> USE DEF IInv
<1>1. TypeOK'
  BY DEF TickLock, Goto, TypeOK, Locs
<1>2. CsecInv'
  BY MutexConstants DEF TickLock, Goto, TypeOK, CsecInv, InOr, InTick
<1>3. WordInv'
  BY DEF TickLock, Goto, Word, WordInv, BitIfWaiters, WaitersIfBit,
         SlowPathWord, FastPostWord, InOr
<1>4. HolderInv'
  BY DEF TickLock, Goto, HolderInv, Owns, HandedTo
<1>5. WaitersInv'
  BY DEF TickLock, Goto, WaitersInv
<1>6. WatchdogScoped'
  BY DEF TickLock, Goto, WatchdogScoped
<1> QED BY <1>1, <1>2, <1>3, <1>4, <1>5, <1>6

(* The read of nxsem_trywait().                                            *)
LEMMA TryReadInv ==
    ASSUME IInv, NEW t \in Threads,
           TryRead(t)
    PROVE  IInv'
<1> USE DEF IInv
<1>1. TypeOK'
  BY DEF TryRead, Goto, TypeOK, Locs
<1>2. CsecInv'
  <2>1. CASE mholder = Free
    BY <2>1 DEF TryRead, Goto, TypeOK, CsecInv, InOr, InTick
  <2>2. CASE mholder # Free /\ timed[t]
    BY <2>2 DEF TryRead, Goto, TypeOK, CsecInv, InOr, InTick
  <2>3. CASE mholder # Free /\ ~timed[t]
    BY <2>3 DEF TryRead, Goto, TypeOK, CsecInv, InOr, InTick
  <2> QED BY <2>1, <2>2, <2>3
<1>3. WordInv'
  BY DEF TryRead, Goto, Word, TypeOK, WordInv, BitIfWaiters, WaitersIfBit,
         SlowPathWord, FastPostWord, InOr
<1>4. HolderInv'
  BY DEF TryRead, Goto, TypeOK, HolderInv, Owns, HandedTo
<1>5. WaitersInv'
  BY DEF TryRead, Goto, TypeOK, WaitersInv
<1>6. WatchdogScoped'
  BY DEF TryRead, Goto, TypeOK, WatchdogScoped
<1> QED BY <1>1, <1>2, <1>3, <1>4, <1>5, <1>6

(* The exchanges that take a free mutex.                                   *)
LEMMA FastLockInv ==
    ASSUME IInv, NEW t \in Threads,
           TryCas(t) \/ WaitCas(t)
    PROVE  IInv'
<1> USE DEF IInv
<1>1. TypeOK'
  <2>1. CASE mholder = Free
    <3>1. mholder' \in Words /\ Return(t, "locked") /\ "locked" \in Locs
      BY <2>1, WordTypes DEF TryCas, WaitCas, Locs
    <3> QED BY <3>1, ReturnTypes DEF TryCas, WaitCas, TypeOK
  <2>2. CASE mholder # Free
    BY <2>2 DEF TryCas, WaitCas, Goto, TypeOK, Locs
  <2> QED BY <2>1, <2>2
<1>2. CsecInv'
  <2>1. CASE mholder = Free
    <3>1. Return(t, "locked") /\ pc[t] \in {"try_cas", "wait_cas"}
      BY <2>1 DEF TryCas, WaitCas
    <3> QED BY <3>1, MutexConstants
            DEF Return, Goto, TypeOK, CsecInv, InOr, InTick
  <2>2. CASE mholder # Free
    BY <2>2 DEF TryCas, WaitCas, Goto, TypeOK, CsecInv, InOr, InTick
  <2> QED BY <2>1, <2>2
<1>3. WordInv'
  <2>1. BitIfWaiters'
    BY DEF TryCas, WaitCas, Free, Word, WordInv, BitIfWaiters
  <2>2. WaitersIfBit'
    BY DEF TryCas, WaitCas, Goto, Word, TypeOK, WordInv, WaitersIfBit, InOr
  <2>3. SlowPathWord'
    BY DEF TryCas, WaitCas, Return, Goto, Free, Word, TypeOK, WordInv,
           SlowPathWord, InOr
  <2>4. FastPostWord'
    BY DEF TryCas, WaitCas, Return, Goto, Forget, TypeOK, WordInv,
           FastPostWord
  <2> QED BY <2>1, <2>2, <2>3, <2>4 DEF WordInv
<1>4. HolderInv'
  BY MutexConstants DEF TryCas, WaitCas, Return, Goto, Free, Word, TypeOK,
         HolderInv, Owns, HandedTo
<1>5. WaitersInv'
  BY DEF TryCas, WaitCas, Return, Goto, TypeOK, WaitersInv
<1>6. WatchdogScoped'
  BY DEF TryCas, WaitCas, Return, Goto, TypeOK, WatchdogScoped
<1> QED BY <1>1, <1>2, <1>3, <1>4, <1>5, <1>6

(* The atomic_or() of nxsem_wait_slow().                                   *)
LEMMA WaitOrInv ==
    ASSUME IInv, NEW t \in Threads,
           WaitOr(t)
    PROVE  IInv'
<1> USE DEF IInv
<1>1. TypeOK'
  BY WordTypes DEF WaitOr, EnterCsec, Goto, TypeOK, Locs
<1>2. CsecInv'
  BY MutexConstants DEF WaitOr, EnterCsec, Goto, TypeOK, CsecInv, InOr, InTick
<1>3. WordInv'
  <2>1. BitIfWaiters'
    BY DEF WaitOr, WordInv, BitIfWaiters
  <2>2. WaitersIfBit'
    BY DEF WaitOr, Goto, TypeOK, WaitersIfBit, InOr
  <2>3. SlowPathWord'
    BY MutexConstants DEF WaitOr, EnterCsec, Goto, TypeOK, WordInv, CsecInv,
           SlowPathWord, BitIfWaiters, WaitersIfBit, InOr
  <2>4. FastPostWord'
    BY DEF WaitOr, Goto, TypeOK, WordInv, FastPostWord
  <2> QED BY <2>1, <2>2, <2>3, <2>4 DEF WordInv
<1>4. HolderInv'
  BY DEF WaitOr, Goto, HolderInv, Owns, HandedTo
<1>5. WaitersInv'
  BY DEF WaitOr, Goto, WaitersInv
<1>6. WatchdogScoped'
  BY DEF WaitOr, Goto, WatchdogScoped
<1> QED BY <1>1, <1>2, <1>3, <1>4, <1>5, <1>6

(* The atomic_or() of nxsem_post_slow().                                   *)
LEMMA PostOrInv ==
    ASSUME IInv, NEW t \in Threads,
           PostOr(t)
    PROVE  IInv'
<1> USE DEF IInv
<1>1. TypeOK'
  BY WordTypes DEF PostOr, EnterCsec, Goto, TypeOK, Locs
<1>2. CsecInv'
  BY MutexConstants DEF PostOr, EnterCsec, Goto, TypeOK, CsecInv, InOr, InTick
<1>3. WordInv'
  <2>1. BitIfWaiters'
    BY DEF PostOr, WordInv, BitIfWaiters
  <2>2. WaitersIfBit'
    BY DEF PostOr, Goto, TypeOK, WaitersIfBit, InOr
  <2>3. SlowPathWord'
    BY MutexConstants DEF PostOr, EnterCsec, Goto, TypeOK, WordInv, CsecInv,
           SlowPathWord, BitIfWaiters, WaitersIfBit, InOr
  <2>4. FastPostWord'
    BY DEF PostOr, Goto, FastPostWord, HolderInv, Owns
  <2> QED BY <2>1, <2>2, <2>3, <2>4 DEF WordInv
<1>4. HolderInv'
  BY DEF PostOr, Goto, HolderInv, Owns, HandedTo
<1>5. WaitersInv'
  BY DEF PostOr, Goto, WaitersInv
<1>6. WatchdogScoped'
  BY DEF PostOr, Goto, WatchdogScoped
<1> QED BY <1>1, <1>2, <1>3, <1>4, <1>5, <1>6

(* Taking a free, reset or orphaned mutex on the slow path.                *)
LEMMA WaitTakeInv ==
    ASSUME IInv, NEW t \in Threads,
           WaitTake(t)
    PROVE  IInv'
<1> USE DEF IInv
<1>1. TypeOK'
  BY WordTypes DEF WaitTake, BlockingBit, Return, Goto, Forget, TypeOK, Locs
<1>2. CsecInv'
  BY MutexConstants DEF WaitTake, Return, Goto, TypeOK, CsecInv, InOr, InTick
<1>3. WordInv'
  BY MutexConstants DEF WaitTake, HolderExists, Acquired, BlockingBit, Return,
         Goto, Word, TypeOK, Words, CsecInv, WordInv, BitIfWaiters,
         WaitersIfBit, SlowPathWord, FastPostWord, HolderInv, InOr, Owns
<1>4. HolderInv'
  BY MutexConstants DEF WaitTake, HolderExists, Acquired, Return, Goto, Word,
         TypeOK, WordInv, SlowPathWord, HolderInv, InOr, Owns, HandedTo
<1>5. WaitersInv'
  BY DEF WaitTake, Return, Goto, WaitersInv
<1>6. WatchdogScoped'
  BY DEF WaitTake, Return, Goto, TypeOK, WatchdogScoped
<1> QED BY <1>1, <1>2, <1>3, <1>4, <1>5, <1>6

(* Joining the wait list.                                                  *)
LEMMA WaitBlockInv ==
    ASSUME IInv, NEW t \in Threads,
           WaitBlock(t)
    PROVE  IInv'
<1> USE DEF IInv
<1>0. /\ waitlist' \in Seq(Threads) /\ waitlist' # <<>>
      /\ ToSet(waitlist') = ToSet(waitlist) \cup {t}
      /\ NoDuplicates(waitlist')
  <2>1. waitlist \in Seq(Threads) /\ prio \in [Threads -> Nat]
    BY MutexConstants DEF TypeOK
  <2>2. NoDuplicates(waitlist) /\ t \notin ToSet(waitlist)
    BY DEF WaitersInv, WaitBlock
  <2>3. /\ AddPrioritized(waitlist, t, prio) \in Seq(Threads)
        /\ AddPrioritized(waitlist, t, prio) # <<>>
        /\ ToSet(AddPrioritized(waitlist, t, prio)) = ToSet(waitlist) \cup {t}
        /\ NoDuplicates(AddPrioritized(waitlist, t, prio))
    BY <2>1, <2>2, AddPrioritizedFacts
  <2>4. waitlist' = AddPrioritized(waitlist, t, prio)
    BY DEF WaitBlock
  <2> QED BY <2>3, <2>4, Zenon
<1>1. TypeOK'
  BY <1>0, WordTypes DEF WaitBlock, Goto, Forget, TypeOK, Locs
<1>2. CsecInv'
  BY <1>0, MutexConstants DEF WaitBlock, Goto, TypeOK, CsecInv, InOr, InTick
<1>3. WordInv'
  <2>1. BitIfWaiters'
    BY <1>0 DEF WaitBlock, HolderExists, Acquired, TypeOK, Words, WordInv,
           BitIfWaiters, SlowPathWord, InOr
  <2>2. WaitersIfBit'
    BY <1>0 DEF WaitersIfBit
  <2>3. SlowPathWord'
    BY <1>0 DEF WaitBlock, Goto, TypeOK, CsecInv, SlowPathWord, InOr
  <2>4. FastPostWord'
    BY <1>0 DEF WaitBlock, Goto, Forget, TypeOK, WordInv, FastPostWord
  <2> QED BY <2>1, <2>2, <2>3, <2>4 DEF WordInv
<1>4. HolderInv'
  BY <1>0 DEF WaitBlock, Goto, HolderInv, Owns, HandedTo
<1>5. WaitersInv'
  BY <1>0 DEF WaitBlock, Goto, TypeOK, WaitersInv
<1>6. WatchdogScoped'
  BY <1>0 DEF WaitBlock, Goto, WatchdogScoped
<1> QED BY <1>1, <1>2, <1>3, <1>4, <1>5, <1>6

(* Returning from the wait.                                                *)
LEMMA WaitResumeInv ==
    ASSUME IInv, NEW t \in Threads,
           WaitResume(t)
    PROVE  IInv'
<1> USE DEF IInv
<1>1. TypeOK'
  BY WordTypes DEF WaitResume, BlockingBit, Return, Goto, Forget, TypeOK, Locs
<1>2. CsecInv'
  BY DEF WaitResume, Return, Goto, TypeOK, CsecInv, InOr, InTick
<1>3. WordInv'
  <2>1. BitIfWaiters'
    BY DEF WaitResume, BlockingBit, Word, WordInv, BitIfWaiters
  <2>2. WaitersIfBit'
    BY MutexConstants DEF WaitResume, BlockingBit, Word, WordInv, CsecInv,
           WaitersIfBit
  <2>3. SlowPathWord'
    BY MutexConstants DEF WaitResume, Return, Goto, CsecInv, SlowPathWord,
           InOr
  <2>4. FastPostWord'
    BY DEF WaitResume, Return, Goto, Forget, TypeOK, WordInv, FastPostWord
  <2> QED BY <2>1, <2>2, <2>3, <2>4 DEF WordInv
<1>4. HolderInv'
  BY DEF WaitResume, Return, Goto, Word, HolderInv, Owns, HandedTo
<1>5. WaitersInv'
  BY DEF WaitResume, Return, Goto, WaitersInv
<1>6. WatchdogScoped'
  BY DEF WaitResume, Return, Goto, WatchdogScoped
<1> QED BY <1>1, <1>2, <1>3, <1>4, <1>5, <1>6

(* The read of nxsem_post().                                               *)
LEMMA PostReadInv ==
    ASSUME IInv, NEW t \in Threads,
           PostRead(t)
    PROVE  IInv'
<1> USE DEF IInv
<1>1. TypeOK'
  BY DEF PostRead, Goto, TypeOK, Locs
<1>2. CsecInv'
  BY DEF PostRead, Goto, CsecInv, InOr, InTick
<1>3. WordInv'
  BY DEF PostRead, Goto, Word, TypeOK, Words, WordInv, BitIfWaiters,
         WaitersIfBit, SlowPathWord, FastPostWord, HolderInv, InOr, Owns
<1>4. HolderInv'
  BY DEF PostRead, Goto, HolderInv, Owns, HandedTo
<1>5. WaitersInv'
  BY DEF PostRead, Goto, WaitersInv
<1>6. WatchdogScoped'
  BY DEF PostRead, Goto, WatchdogScoped
<1> QED BY <1>1, <1>2, <1>3, <1>4, <1>5, <1>6

(* The exchange of nxsem_post().                                           *)
LEMMA PostCasInv ==
    ASSUME IInv, NEW t \in Threads,
           PostCas(t)
    PROVE  IInv'
<1> USE DEF IInv
<1>1. TypeOK'
  BY WordTypes DEF PostCas, Goto, Forget, TypeOK, Locs
<1>2. CsecInv'
  BY DEF PostCas, Goto, TypeOK, CsecInv, InOr, InTick
<1>3. WordInv'
  <2>1. CASE mholder = old[t]
    <3>1. mholder = Word(t, FALSE) /\ mholder' = Free /\ ~mholder.blocking
      BY <2>1 DEF PostCas, WordInv, FastPostWord, Word
    <3>2. waitlist = <<>> /\ \A u \in Threads : ~InOr(u)
      BY <3>1 DEF WordInv, BitIfWaiters, SlowPathWord
    <3> QED BY <2>1, <3>1, <3>2 DEF PostCas, Goto, Forget, Free, Word, TypeOK,
               Words, WordInv, BitIfWaiters, WaitersIfBit, SlowPathWord,
               FastPostWord, InOr
  <2>2. CASE mholder # old[t]
    BY <2>2 DEF PostCas, Goto, Forget, TypeOK, Words, WordInv, BitIfWaiters,
            WaitersIfBit, SlowPathWord, FastPostWord, InOr
  <2> QED BY <2>1, <2>2
<1>4. HolderInv'
  BY MutexConstants DEF PostCas, Goto, Forget, Free, Word, TypeOK, HolderInv,
         Owns, HandedTo
<1>5. WaitersInv'
  BY DEF PostCas, Goto, TypeOK, WaitersInv
<1>6. WatchdogScoped'
  BY DEF PostCas, Goto, TypeOK, WatchdogScoped
<1> QED BY <1>1, <1>2, <1>3, <1>4, <1>5, <1>6

(* nxsem_post_slow() when the last waiter has left.                        *)
LEMMA PostFreeInv ==
    ASSUME IInv, NEW t \in Threads,
           PostFree(t)
    PROVE  IInv'
<1> USE DEF IInv
<1>1. TypeOK'
  BY WordTypes DEF PostFree, Goto, Forget, TypeOK, Locs
<1>2. CsecInv'
  BY MutexConstants DEF PostFree, Goto, TypeOK, CsecInv, InOr, InTick
<1>3. WordInv'
  BY DEF PostFree, Goto, Word, TypeOK, CsecInv, WordInv, BitIfWaiters,
         WaitersIfBit, SlowPathWord, FastPostWord, HolderInv, InOr, Owns
<1>4. HolderInv'
  BY MutexConstants DEF PostFree, Goto, Word, TypeOK, HolderInv, Owns,
         HandedTo
<1>5. WaitersInv'
  BY DEF PostFree, Goto, WaitersInv
<1>6. WatchdogScoped'
  BY DEF PostFree, Goto, WatchdogScoped
<1> QED BY <1>1, <1>2, <1>3, <1>4, <1>5, <1>6

(* nxsem_post_slow() hands the mutex to the first waiter.                  *)
LEMMA PostBlockingInv ==
    ASSUME IInv, NEW t \in Threads, PostBlocking(t) PROVE IInv'
<1> USE DEF IInv
<1>1. waitlist # <<>> /\ mholder.holder = t /\ csec = t /\ pc[t] = "post_or"
  BY DEF PostBlocking, WordInv, SlowPathWord, HolderInv, CsecInv, InOr, Owns
<1>2. PICK s \in Threads :
        /\ pc[s] = "blocked" /\ errcode[s] = "OK" /\ s # t
        /\ waitlist' \in Seq(Threads)
        /\ ToSet(waitlist') = ToSet(waitlist) \ {s}
        /\ NoDuplicates(waitlist')
        /\ mholder' = Word(s, waitlist' # <<>>)
        /\ waitdog' = [waitdog EXCEPT ![s] = FALSE]
        /\ pc' = [pc EXCEPT ![t] = "idle", ![s] = "woken"]
  <2>1. HandOver(t, "idle") /\ pc[t] # "blocked"
    BY <1>1 DEF PostBlocking
  <2> QED BY <1>1, <2>1, HandOverFacts
<1>3. /\ csec' = None /\ old' = [old EXCEPT ![t] = Free]
      /\ timed' = timed /\ errcode' = errcode /\ prio' = prio
  BY DEF PostBlocking, Forget
<1>4. TypeOK'
  BY <1>2, <1>3, WordTypes DEF TypeOK, Locs
<1>5. CsecInv'
  BY <1>1, <1>2, <1>3, MutexConstants
     DEF PostBlocking, TypeOK, CsecInv, InOr, InTick
<1>6. WordInv'
  <2>1. \A u \in Threads : ~InOr(u)'
    BY <1>1, <1>2, <1>3, MutexConstants DEF TypeOK, CsecInv, InOr
  <2> QED BY <1>2, <1>3, <2>1
          DEF Word, TypeOK, WordInv, BitIfWaiters, WaitersIfBit, SlowPathWord,
              FastPostWord
<1>7. HolderInv'
  BY <1>1, <1>2, <1>3, MutexConstants
     DEF Word, TypeOK, HolderInv, Owns, HandedTo
<1>8. WaitersInv'
  BY <1>1, <1>2, <1>3 DEF TypeOK, WaitersInv
<1>9. WatchdogScoped'
  BY <1>1, <1>2, <1>3 DEF PostBlocking, TypeOK, WatchdogScoped
<1> QED BY <1>4, <1>5, <1>6, <1>7, <1>8, <1>9

(* The watchdog ends a wait; the last waiter to leave clears the bit.      *)
LEMMA TimeoutInv ==
    ASSUME IInv, NEW t \in Threads, Timeout(t) PROVE IInv'
<1> USE DEF IInv
<1>1. csec = None /\ \A u \in Threads : ~InOr(u) /\ ~InTick(u)
  BY MutexConstants DEF Timeout, CsecInv
<1>2. pc[t] = "blocked"
  BY <1>1 DEF Timeout, WatchdogScoped, InOr, InTick
<1>3. PICK list : list = DqRem(waitlist, t)
  OBVIOUS
<1>4. /\ list \in Seq(Threads)
      /\ ToSet(list) = ToSet(waitlist) \ {t}
      /\ NoDuplicates(list)
  <2>1. t \in ToSet(waitlist)
    BY <1>2 DEF WaitersInv
  <2> QED BY <1>3, <2>1, DqRemFacts DEF TypeOK, WaitersInv
<1>5. /\ waitlist' = list
      /\ mholder' = IF list = <<>> THEN [mholder EXCEPT !.blocking = FALSE]
                    ELSE mholder
      /\ waitdog' = [waitdog EXCEPT ![t] = FALSE]
      /\ errcode' = [errcode EXCEPT ![t] = "ETIMEDOUT"]
      /\ pc' = [pc EXCEPT ![t] = "woken"]
      /\ UNCHANGED <<csec, old, timed, prio>>
  BY <1>2, <1>3, Zenon DEF Timeout, Goto
<1>6. waitlist # <<>>
  <2>1. ToSet(waitlist) # {}
    BY <1>2 DEF WaitersInv
  <2> QED BY <2>1, ToSetEmpty DEF TypeOK
<1>7. TypeOK'
  <2>1. mholder' \in Words
    BY <1>5, WordTypes DEF TypeOK
  <2> QED BY <1>4, <1>5, <2>1 DEF TypeOK, Locs
<1>8. CsecInv'
  BY <1>1, <1>2, <1>5, MutexConstants DEF TypeOK, CsecInv, InOr, InTick
<1>9. WordInv'
  <2>1. /\ mholder'.holder = mholder.holder
        /\ mholder'.blocking = (list # <<>>)
    BY <1>5, <1>6 DEF TypeOK, Words, WordInv, BitIfWaiters
  <2>2. \A u \in Threads : ~InOr(u)'
    BY <1>1, <1>2, <1>5 DEF TypeOK, InOr
  <2>3. FastPostWord'
    BY <1>2, <1>5 DEF TypeOK, WordInv, FastPostWord, Word
  <2> QED BY <1>5, <1>6, <2>1, <2>2, <2>3
          DEF WordInv, BitIfWaiters, WaitersIfBit, SlowPathWord
<1>10. HolderInv'
  <2>1. mholder'.holder = mholder.holder
    BY <1>5 DEF TypeOK, Words
  <2> QED BY <1>2, <1>5, <2>1 DEF TypeOK, HolderInv, Owns, HandedTo
<1>11. WaitersInv'
  BY <1>2, <1>4, <1>5 DEF TypeOK, WaitersInv
<1>12. WatchdogScoped'
  BY <1>2, <1>5 DEF TypeOK, WatchdogScoped
<1> QED BY <1>7, <1>8, <1>9, <1>10, <1>11, <1>12

(* A change of priority moves a waiter within the list.                    *)
LEMMA SetPriorityInv ==
    ASSUME IInv, NEW t \in Threads, NEW p \in Prios, SetPriority(t, p)
    PROVE  IInv'
<1> USE DEF IInv
<1>1. prio' \in [Threads -> Prios] /\ prio' \in [Threads -> Nat]
  BY MutexConstants DEF SetPriority, TypeOK
<1>2. UNCHANGED <<mholder, csec, pc, old, timed, waitdog, errcode>>
  BY DEF SetPriority
<1>3. /\ waitlist' \in Seq(Threads)
      /\ ToSet(waitlist') = ToSet(waitlist)
      /\ NoDuplicates(waitlist')
  <2>1. CASE pc[t] = "blocked"
    <3>1. t \in ToSet(waitlist)
      BY <2>1 DEF WaitersInv
    <3>2. PICK pr \in [Threads -> Nat] : pr = prio'
      BY <1>1
    <3>3. /\ AddPrioritized(DqRem(waitlist, t), t, pr) \in Seq(Threads)
          /\ ToSet(AddPrioritized(DqRem(waitlist, t), t, pr)) = ToSet(waitlist)
          /\ NoDuplicates(AddPrioritized(DqRem(waitlist, t), t, pr))
      BY <3>1, RequeueFacts DEF TypeOK, WaitersInv
    <3>4. waitlist' = AddPrioritized(DqRem(waitlist, t), t, pr)
      BY <2>1, <3>2, Zenon DEF SetPriority
    <3> QED BY <3>3, <3>4, Zenon
  <2>2. CASE pc[t] # "blocked"
    BY <2>2 DEF SetPriority, TypeOK, WaitersInv
  <2> QED BY <2>1, <2>2
<1>4. waitlist' = <<>> <=> waitlist = <<>>
  BY <1>3, ToSetEmpty DEF TypeOK
<1>5. TypeOK'
  BY <1>1, <1>2, <1>3 DEF TypeOK
<1>6. CsecInv' /\ HolderInv' /\ WatchdogScoped'
  BY <1>2 DEF CsecInv, HolderInv, WatchdogScoped, InOr, InTick, Owns, HandedTo
<1>7. WordInv'
  BY <1>2, <1>4 DEF WordInv, BitIfWaiters, WaitersIfBit, SlowPathWord,
                    FastPostWord, InOr
<1>8. WaitersInv'
  BY <1>2, <1>3 DEF WaitersInv
<1> QED BY <1>5, <1>6, <1>7, <1>8

(* A thread exits: the mutex keeps its holder, or a robust one is handed   *)
(* on or reset.                                                            *)
LEMMA TerminateInv ==
    ASSUME IInv, AsyncCancel = FALSE, NEW t \in Threads, Terminate(t)
    PROVE  IInv'
<1> USE DEF IInv
<1>1. csec = None /\ \A u \in Threads : ~InOr(u) /\ ~InTick(u)
  BY MutexConstants DEF Terminate, CsecInv
<1>2. pc[t] \in {"idle", "locked"} /\ ~timed[t]
  BY <1>1 DEF Terminate, CsecInv
<1>3. /\ timed' = [timed EXCEPT ![t] = FALSE]
      /\ old' = [old EXCEPT ![t] = Free]
      /\ UNCHANGED <<csec, errcode, prio>>
  BY DEF Terminate, Forget
<1>4. CASE /\ pc' = [pc EXCEPT ![t] = "exiting"]
           /\ waitdog' = [waitdog EXCEPT ![t] = FALSE]
           /\ waitlist' = waitlist
           /\ \/ mholder' = mholder
              \/ /\ mholder' = Word(MReset, FALSE)
                 /\ mholder.holder = t /\ waitlist = <<>>
  <2>1. mholder' \in Words
    BY <1>4, WordTypes DEF TypeOK
  <2>2. TypeOK'
    BY <1>3, <1>4, <2>1, WordTypes DEF TypeOK, Locs
  <2>3. CsecInv'
    BY <1>1, <1>2, <1>3, <1>4, MutexConstants DEF TypeOK, CsecInv, InOr, InTick
  <2>4. WordInv'
    <3>1. \A u \in Threads : ~InOr(u)'
      BY <1>1, <1>4 DEF TypeOK, InOr
    <3>2. FastPostWord'
      BY <1>3, <1>4 DEF TypeOK, WordInv, FastPostWord
    <3>3. BitIfWaiters' /\ WaitersIfBit'
      BY <1>1, <1>4 DEF Word, WordInv, BitIfWaiters, WaitersIfBit
    <3> QED BY <3>1, <3>2, <3>3 DEF WordInv, SlowPathWord
  <2>5. HolderInv'
    BY <1>2, <1>3, <1>4, MutexConstants
       DEF Word, TypeOK, Words, HolderInv, Owns, HandedTo
  <2>6. WaitersInv'
    BY <1>2, <1>3, <1>4 DEF TypeOK, WaitersInv
  <2>7. WatchdogScoped'
    BY <1>2, <1>3, <1>4 DEF TypeOK, WatchdogScoped
  <2> QED BY <2>2, <2>3, <2>4, <2>5, <2>6, <2>7
<1>5. CASE waitlist # <<>> /\ mholder.holder = t /\ HandOver(t, "exiting")
  <2>1. PICK s \in Threads :
          /\ pc[s] = "blocked" /\ errcode[s] = "OK" /\ s # t
          /\ waitlist' \in Seq(Threads)
          /\ ToSet(waitlist') = ToSet(waitlist) \ {s}
          /\ NoDuplicates(waitlist')
          /\ mholder' = Word(s, waitlist' # <<>>)
          /\ waitdog' = [waitdog EXCEPT ![s] = FALSE]
          /\ pc' = [pc EXCEPT ![t] = "exiting", ![s] = "woken"]
    BY <1>2, <1>5, HandOverFacts
  <2>2. TypeOK'
    BY <1>3, <2>1, WordTypes DEF TypeOK, Locs
  <2>3. CsecInv'
    BY <1>1, <1>2, <1>3, <2>1, MutexConstants DEF TypeOK, CsecInv, InOr, InTick
  <2>4. WordInv'
    <3>1. \A u \in Threads : ~InOr(u)'
      BY <1>1, <2>1 DEF TypeOK, InOr
    <3> QED BY <1>3, <2>1, <3>1
            DEF Word, TypeOK, WordInv, BitIfWaiters, WaitersIfBit, SlowPathWord,
                FastPostWord
  <2>5. HolderInv'
    BY <1>2, <1>3, <1>5, <2>1 DEF Word, TypeOK, HolderInv, Owns, HandedTo
  <2>6. WaitersInv'
    BY <1>2, <1>3, <2>1 DEF TypeOK, WaitersInv
  <2>7. WatchdogScoped'
    BY <1>2, <1>3, <2>1 DEF TypeOK, WatchdogScoped
  <2> QED BY <2>2, <2>3, <2>4, <2>5, <2>6, <2>7
<1> QED BY <1>2, <1>4, <1>5 DEF Terminate, ResetOwned, Goto

(* Every step keeps the inductive invariant.                               *)
LEMMA NextInv ==
    ASSUME AsyncCancel = FALSE, IInv, [Next]_vars PROVE IInv'
<1>1. CASE UNCHANGED vars
  BY <1>1 DEF vars, IInv, TypeOK, CsecInv, WordInv, BitIfWaiters, WaitersIfBit,
              SlowPathWord, FastPostWord, HolderInv, WaitersInv, WatchdogScoped,
              InOr, InTick, Owns, HandedTo
<1>2. ASSUME NEW t \in Threads, Step(t) PROVE IInv'
  BY <1>2, MoveInv, TryReadInv, FastLockInv, WaitOrInv, WaitTakeInv,
     WaitBlockInv, WaitResumeInv, PostReadInv, PostCasInv, PostOrInv,
     PostFreeInv, PostBlockingInv, Zenon DEF Step
<1>3. ASSUME NEW t \in Threads, NEW p \in Prios, SetPriority(t, p) PROVE IInv'
  BY <1>3, SetPriorityInv
<1>4. ASSUME NEW t \in Threads,
             Lock(t) \/ TryLock(t) \/ TickLock(t) \/ Timeout(t) \/ Terminate(t)
               \/ ReleaseTcb(t)
      PROVE  IInv'
  BY <1>4, MoveInv, TickLockInv, TimeoutInv, TerminateInv, Zenon
<1> QED BY <1>1, <1>2, <1>3, <1>4, Zenon DEF Next

(* The initial states satisfy the inductive invariant.                     *)
LEMMA InitInv == Init => IInv
<1> SUFFICES ASSUME Init PROVE IInv
  OBVIOUS
<1>1. TypeOK
  BY WordTypes DEF Init, TypeOK, Locs
<1>2. CsecInv /\ HolderInv /\ WatchdogScoped
  BY MutexConstants
     DEF Init, Free, Word, CsecInv, HolderInv, WatchdogScoped, InOr, InTick,
         Owns, HandedTo
<1>3. WordInv
  BY DEF Init, Free, Word, WordInv, BitIfWaiters, WaitersIfBit, SlowPathWord,
         FastPostWord, InOr
<1>4. WaitersInv
  BY ToSetEmpty DEF Init, WaitersInv, NoDuplicates, ToSet
<1> QED BY <1>1, <1>2, <1>3, <1>4 DEF IInv

(* With deferred cancellation the inductive invariant always holds.        *)
THEOREM Inductive ==
    ASSUME AsyncCancel = FALSE PROVE Spec => []IInv
<1>1. Init => IInv
  BY InitInv
<1>2. IInv /\ [Next]_vars => IInv'
  BY NextInv
<1> QED BY <1>1, <1>2, PTL DEF Spec

(* nxmutex_lock() and nxmutex_unlock() exclude: at most one thread owns    *)
(* the mutex or has been handed it.                                        *)
THEOREM MutexExclusive ==
    ASSUME AsyncCancel = FALSE PROVE Spec => []MutualExclusion
<1>1. IInv => MutualExclusion
  BY DEF IInv, HolderInv, MutualExclusion
<1> QED BY <1>1, Inductive, PTL

(* The blocking bit and the wait list agree whenever nobody is inside the  *)
(* critical section, so no unlock takes the wrong path.                    *)
THEOREM BlockingBitCorrect ==
    ASSUME AsyncCancel = FALSE PROVE Spec => []BlockingBitExact
<1>1. IInv => BlockingBitExact
  BY MutexConstants
     DEF IInv, CsecInv, WordInv, BitIfWaiters, WaitersIfBit, BlockingBitExact
<1> QED BY <1>1, Inductive, PTL

(* No waiter is lost: it is in the list once, and a thread that will have  *)
(* to hand the mutex on is named in the word.                              *)
THEOREM WaitersAccounted ==
    ASSUME AsyncCancel = FALSE PROVE Spec => []NoLostWaiter
<1>1. IInv => NoLostWaiter
  BY DEF IInv, WordInv, BitIfWaiters, HolderInv, WaitersInv, NoLostWaiter
<1> QED BY <1>1, Inductive, PTL

(* No watchdog of a timed lock outlives the call.                          *)
THEOREM WatchdogsScoped ==
    ASSUME AsyncCancel = FALSE PROVE Spec => []WatchdogScoped
<1>1. IInv => WatchdogScoped
  BY DEF IInv
<1> QED BY <1>1, Inductive, PTL

-----------------------------------------------------------------------------
(* The order in which waiters are served.                                  *)

Sorted == IsPrioritized(waitlist, prio)

(* The types that the facts about prioritized lists ask for.               *)
LEMMA ListTypes ==
    ASSUME IInv PROVE waitlist \in Seq(Threads) /\ prio \in [Threads -> Nat]
BY MutexConstants DEF IInv, TypeOK

(* Every step keeps the wait list in order of priority.                    *)
LEMMA NextSorted ==
    ASSUME AsyncCancel = FALSE, IInv, Sorted, [Next]_vars PROVE Sorted'
<1> USE DEF IInv
<1>0. /\ waitlist \in Seq(Threads) /\ prio \in [Threads -> Nat]
      /\ NoDuplicates(waitlist)
      /\ \A t \in Threads : pc[t] = "blocked" <=> t \in ToSet(waitlist)
  BY ListTypes DEF WaitersInv
<1>1. CASE UNCHANGED <<waitlist, prio>>
  BY <1>1 DEF Sorted
<1>2. ASSUME NEW t \in Threads, WaitBlock(t) PROVE Sorted'
  <2>1. IsPrioritized(AddPrioritized(waitlist, t, prio), prio)
    BY <1>0, AddPrioritizedSorted DEF Sorted
  <2>2. waitlist' = AddPrioritized(waitlist, t, prio) /\ prio' = prio
    BY <1>2 DEF WaitBlock
  <2> QED BY <2>1, <2>2, Zenon DEF Sorted
<1>3. ASSUME waitlist # <<>>, waitlist' = Tail(waitlist), prio' = prio
      PROVE  Sorted'
  <2>1. IsPrioritized(Tail(waitlist), prio)
    BY <1>0, <1>3, HeadHighest DEF Sorted
  <2> QED BY <1>3, <2>1, Zenon DEF Sorted
<1>4. ASSUME NEW t \in Threads, Timeout(t), pc[t] = "blocked" PROVE Sorted'
  <2>1. IsPrioritized(DqRem(waitlist, t), prio)
    BY <1>0, <1>4, DqRemSorted DEF Sorted
  <2>2. waitlist' = DqRem(waitlist, t) /\ prio' = prio
    BY <1>4 DEF Timeout
  <2> QED BY <2>1, <2>2, Zenon DEF Sorted
<1>5. ASSUME NEW t \in Threads, NEW p \in Prios, SetPriority(t, p) PROVE Sorted'
  <2>1. PICK pr \in [Threads -> Nat] :
           pr = prio' /\ \A u \in Threads \ {t} : pr[u] = prio[u]
    BY <1>0, <1>5, MutexConstants DEF SetPriority
  <2>2. CASE pc[t] = "blocked"
    <3>1. PICK list \in Seq(Threads) :
             /\ list = DqRem(waitlist, t)
             /\ ToSet(list) = ToSet(waitlist) \ {t}
      BY <1>0, <2>2, DqRemFacts
    <3>2. IsPrioritized(list, prio)
      BY <1>0, <2>2, <3>1, DqRemSorted DEF Sorted
    <3>3. \A x \in ToSet(list) : pr[x] = prio[x]
      BY <1>0, <2>1, <3>1, ToSetIndex
    <3>4. IsPrioritized(list, pr)
      BY <3>2, <3>3, SamePriorities
    <3>5. IsPrioritized(AddPrioritized(list, t, pr), pr)
      BY <3>4, AddPrioritizedSorted
    <3>6. waitlist' = AddPrioritized(list, t, pr)
      BY <1>5, <2>1, <2>2, <3>1, Zenon DEF SetPriority
    <3> QED BY <2>1, <3>5, <3>6, Zenon DEF Sorted
  <2>3. CASE pc[t] # "blocked"
    <3>1. \A x \in ToSet(waitlist) : pr[x] = prio[x]
      BY <1>0, <2>1, <2>3, ToSetIndex
    <3>2. IsPrioritized(waitlist, pr)
      BY <1>0, <3>1, SamePriorities DEF Sorted
    <3>3. waitlist' = waitlist
      BY <1>5, <2>3 DEF SetPriority
    <3> QED BY <2>1, <3>2, <3>3, Zenon DEF Sorted
  <2> QED BY <2>2, <2>3
<1>6. ASSUME NEW t \in Threads, PostBlocking(t) PROVE Sorted'
  <2>1. CASE waitlist = <<>>
    BY <1>1, <1>6, <2>1 DEF PostBlocking
  <2>2. CASE waitlist # <<>>
    BY <1>3, <1>6, <2>2 DEF PostBlocking, HandOver
  <2> QED BY <2>1, <2>2
<1>7. ASSUME NEW t \in Threads, Terminate(t) PROVE Sorted'
  <2>1. pc[t] # "blocked" /\ prio' = prio
    BY <1>7 DEF Terminate
  <2>2. \/ waitlist' = waitlist
        \/ waitlist # <<>> /\ waitlist' = Tail(waitlist)
    BY <1>7, <2>1 DEF Terminate, ResetOwned, HandOver
  <2> QED BY <1>1, <1>3, <2>1, <2>2
<1>8. ASSUME NEW t \in Threads, Timeout(t), pc[t] # "blocked" PROVE Sorted'
  BY <1>1, <1>8 DEF Timeout
<1>9. ASSUME NEW t \in Threads,
             \/ Lock(t) \/ TryLock(t) \/ TickLock(t) \/ ReleaseTcb(t)
             \/ TryRead(t) \/ TryCas(t) \/ WaitRead(t) \/ WaitCas(t)
             \/ WaitOr(t) \/ WaitTake(t) \/ WaitResume(t) \/ Unlock(t)
             \/ PostRead(t) \/ PostCas(t) \/ PostOr(t) \/ PostFree(t)
      PROVE  Sorted'
  <2>1. UNCHANGED <<waitlist, prio>>
    BY <1>9, Zenon
       DEF Lock, TryLock, TickLock, ReleaseTcb, TryRead, TryCas, WaitRead,
           WaitCas, WaitOr, WaitTake, WaitResume, Unlock, PostRead, PostCas,
           PostOr, PostFree
  <2> QED BY <1>1, <2>1
<1>10. CASE UNCHANGED vars
  BY <1>1, <1>10 DEF vars
<1> QED BY <1>2, <1>4, <1>5, <1>6, <1>7, <1>8, <1>9, <1>10, Zenon DEF Next, Step

(* A step hands the mutex to nobody but the first waiter.                  *)
LEMMA HandedIsHead ==
    ASSUME AsyncCancel = FALSE, IInv, [Next]_vars, NEW t \in Threads,
           pc[t] = "blocked", HandedTo(t)'
    PROVE  waitlist # <<>> /\ t = Head(waitlist)
<1> USE DEF IInv
<1>0. /\ pc \in [Threads -> Locs]
      /\ errcode \in [Threads -> {"OK", "ETIMEDOUT"}]
      /\ pc'[t] = "woken" /\ errcode'[t] = "OK"
  BY DEF TypeOK, HandedTo
<1>1. ASSUME NEW u \in Threads, NEW l, l # "woken", HandOver(u, l)
      PROVE  t = Head(waitlist)
  BY <1>0, <1>1 DEF HandOver
<1>2. waitlist # <<>>
  <2>1. ToSet(waitlist) # {}
    BY DEF WaitersInv
  <2> QED BY <2>1, ToSetEmpty DEF TypeOK
<1>3. ASSUME NEW u \in Threads, PostBlocking(u) PROVE t = Head(waitlist)
  BY <1>1, <1>2, <1>3 DEF PostBlocking
<1>4. ASSUME NEW u \in Threads, Terminate(u) PROVE t = Head(waitlist)
  BY <1>0, <1>1, <1>2, <1>4 DEF Terminate, ResetOwned, Goto
<1>5. ASSUME NEW u \in Threads, Timeout(u) PROVE FALSE
  BY <1>0, <1>5 DEF Timeout, Goto
<1>6. ASSUME NEW u \in Threads,
             \/ Lock(u) \/ TryLock(u) \/ TickLock(u) \/ ReleaseTcb(u)
             \/ WaitRead(u) \/ WaitOr(u) \/ WaitBlock(u) \/ Unlock(u)
             \/ PostRead(u) \/ PostCas(u) \/ PostOr(u) \/ PostFree(u)
      PROVE  FALSE
  BY <1>0, <1>6
     DEF Lock, TryLock, TickLock, ReleaseTcb, WaitRead, WaitOr, WaitBlock,
         Unlock, PostRead, PostCas, PostOr, PostFree, Goto
<1>7. ASSUME NEW u \in Threads, TryRead(u) \/ TryCas(u) \/ WaitCas(u)
                                \/ WaitTake(u) \/ WaitResume(u)
      PROVE  FALSE
  BY <1>0, <1>7 DEF TryRead, TryCas, WaitCas, WaitTake, WaitResume, Return, Goto
<1>8. ASSUME NEW u \in Threads, NEW p \in Prios, SetPriority(u, p) PROVE FALSE
  BY <1>0, <1>8 DEF SetPriority
<1>9. CASE UNCHANGED vars
  BY <1>0, <1>9 DEF vars
<1> QED BY <1>2, <1>3, <1>4, <1>5, <1>6, <1>7, <1>8, <1>9, Zenon DEF Next, Step

(* Whoever is handed the mutex has the highest priority of those waiting,  *)
(* whatever priorities changed while they waited.                          *)
THEOREM HighestFirst ==
    ASSUME AsyncCancel = FALSE PROVE Spec => HandsToHighest
<1>1. Init => Sorted
  BY DEF Init, Sorted, IsPrioritized
<1>2. IInv /\ Sorted /\ [Next]_vars => Sorted'
  BY NextSorted
<1>3. IInv /\ Sorted /\ [Next]_vars =>
        [\A t \in Threads :
           pc[t] = "blocked" /\ HandedTo(t)' =>
              \A u \in ToSet(waitlist) : prio[u] <= prio[t]]_vars
  <2> SUFFICES ASSUME IInv, Sorted, [Next]_vars, NEW t \in Threads,
                      pc[t] = "blocked", HandedTo(t)'
               PROVE  \A u \in ToSet(waitlist) : prio[u] <= prio[t]
    OBVIOUS
  <2>1. waitlist # <<>> /\ t = Head(waitlist)
    BY HandedIsHead
  <2>2. waitlist \in Seq(Threads) /\ prio \in [Threads -> Nat]
    BY ListTypes
  <2> QED BY <2>1, <2>2, HeadHighest DEF Sorted
<1> QED BY <1>1, <1>2, <1>3, Inductive, PTL DEF Spec, HandsToHighest

(* A thread that comes to own the mutex while others wait was handed it,   *)
(* or took it in nxsem_wait_slow() from a holder whose TCB is gone: with   *)
(* waiters the word is never the one a fast path's exchange expects.       *)
LEMMA NoOvertaking ==
    ASSUME AsyncCancel = FALSE, IInv, [Next]_vars, NEW t \in Threads,
           ~Owns(t), Owns(t)', waitlist # <<>>
    PROVE  \/ HandedTo(t)
           \/ \E h \in Threads : mholder.holder = h /\ pc[h] = "dead"
<1> USE DEF IInv
<1>0. /\ pc \in [Threads -> Locs]
      /\ pc[t] \notin {"locked", "post_read", "post_cas", "post_slow", "post_or"}
      /\ pc'[t] \in {"locked", "post_read", "post_cas", "post_slow", "post_or"}
  BY DEF TypeOK, Owns
<1>1. mholder.blocking /\ mholder.holder \in Threads
  BY DEF WordInv, BitIfWaiters
<1>2. mholder # Free
  BY <1>1, MutexConstants DEF Free, Word
<1>3. ASSUME NEW u \in Threads, NEW l, l = "idle" \/ l = "exiting", HandOver(u, l)
      PROVE  FALSE
  BY <1>0, <1>3 DEF HandOver
<1>4. ASSUME NEW u \in Threads, PostBlocking(u) PROVE FALSE
  BY <1>3, <1>4 DEF PostBlocking
<1>5. ASSUME NEW u \in Threads, Terminate(u) PROVE FALSE
  BY <1>0, <1>3, <1>5 DEF Terminate, ResetOwned, Goto
<1>6. ASSUME NEW u \in Threads, Timeout(u) PROVE FALSE
  BY <1>0, <1>6 DEF Timeout, Goto
<1>7. ASSUME NEW u \in Threads,
             \/ Lock(u) \/ TryLock(u) \/ TickLock(u) \/ ReleaseTcb(u)
             \/ WaitRead(u) \/ WaitOr(u) \/ WaitBlock(u) \/ Unlock(u)
             \/ PostRead(u) \/ PostCas(u) \/ PostOr(u) \/ PostFree(u)
      PROVE  FALSE
  BY <1>0, <1>7
     DEF Lock, TryLock, TickLock, ReleaseTcb, WaitRead, WaitOr, WaitBlock,
         Unlock, PostRead, PostCas, PostOr, PostFree, Goto
<1>8. ASSUME NEW u \in Threads, TryRead(u) \/ TryCas(u) \/ WaitCas(u)
      PROVE  FALSE
  BY <1>0, <1>2, <1>8 DEF TryRead, TryCas, WaitCas, Goto
<1>9. ASSUME NEW u \in Threads, WaitTake(u)
      PROVE  \E h \in Threads : mholder.holder = h /\ pc[h] = "dead"
  <2>1. mholder.holder = old[u].holder /\ ~HolderExists(old[u])
    BY <1>9 DEF WaitTake, WordInv, SlowPathWord, InOr
  <2> QED BY <1>1, <2>1, MutexConstants DEF HolderExists, Acquired
<1>10. ASSUME NEW u \in Threads, WaitResume(u) PROVE HandedTo(t)
  BY <1>0, <1>10 DEF WaitResume, Return, Goto, HandedTo
<1>11. ASSUME NEW u \in Threads, NEW p \in Prios, SetPriority(u, p) PROVE FALSE
  BY <1>0, <1>11 DEF SetPriority
<1>12. CASE UNCHANGED vars
  BY <1>0, <1>12 DEF vars
<1> QED BY <1>4, <1>5, <1>6, <1>7, <1>8, <1>9, <1>10, <1>11, <1>12, Zenon
        DEF Next, Step

(* While threads wait nobody else comes to own the mutex, except by        *)
(* replacing a holder that died.                                           *)
THEOREM NobodyOvertakes ==
    ASSUME AsyncCancel = FALSE PROVE Spec => NoBarging
<1>1. IInv /\ [Next]_vars =>
        [\A t \in Threads :
           ~Owns(t) /\ Owns(t)' /\ waitlist # <<>> =>
              \/ HandedTo(t)
              \/ \E h \in Threads : mholder.holder = h /\ pc[h] = "dead"]_vars
  BY NoOvertaking
<1> QED BY <1>1, Inductive, PTL DEF Spec, NoBarging

-----------------------------------------------------------------------------
(* The code implements the mutex of module Mutex.                          *)

(* What the abstract mutex sees of a thread, before and after a step.      *)
LEMMA AbsStates ==
    ASSUME NEW t \in Threads
    PROVE  /\ pc[t] = "idle" => AbsState(t) = "idle"
           /\ pc[t] \in {"try_read", "try_cas", "wait_read", "wait_cas",
                         "wait_slow", "wait_or"} => AbsState(t) = "trying"
           /\ pc[t] = "blocked" => AbsState(t) = "waiting"
           /\ pc[t] = "woken" /\ errcode[t] # "OK" => AbsState(t) = "idle"
           /\ Owns(t) \/ HandedTo(t) => AbsState(t) = "has"
           /\ pc[t] = "exiting" => AbsState(t) = "dying"
           /\ pc[t] = "dead" => AbsState(t) = "gone"
BY DEF AbsState, Owns, HandedTo

LEMMA AbsStatesNext ==
    ASSUME NEW t \in Threads
    PROVE  /\ pc'[t] = "idle" => AbsState(t)' = "idle"
           /\ pc'[t] \in {"try_read", "try_cas", "wait_read", "wait_cas",
                          "wait_slow", "wait_or"} => AbsState(t)' = "trying"
           /\ pc'[t] = "blocked" => AbsState(t)' = "waiting"
           /\ pc'[t] = "woken" /\ errcode'[t] # "OK" => AbsState(t)' = "idle"
           /\ Owns(t)' \/ HandedTo(t)' => AbsState(t)' = "has"
           /\ pc'[t] = "exiting" => AbsState(t)' = "dying"
           /\ pc'[t] = "dead" => AbsState(t)' = "gone"
BY DEF AbsState, Owns, HandedTo

(* Nobody but a blocked thread is waiting, and only a thread whose TCB is  *)
(* released is gone.                                                       *)
LEMMA AbsExact ==
    ASSUME TypeOK, NEW t \in Threads
    PROVE  /\ AbsState(t) = "waiting" => pc[t] = "blocked"
           /\ AbsState(t) = "gone" => pc[t] = "dead"
BY DEF AbsState, Owns, HandedTo, TypeOK, Locs

(* What a step that changes at most one thread may do to it and the owner. *)
LEMMA AbsStep ==
    ASSUME NEW t \in Threads,
           \A u \in Threads \ {t} : AbsState(u)' = AbsState(u),
           \/ AbsState(t)' = AbsState(t) /\ AbsOwner' = AbsOwner
           \/ AbsState(t) = "idle" /\ AbsState(t)' = "trying" /\ AbsOwner' = AbsOwner
           \/ /\ AbsState(t) \in {"trying", "waiting"} /\ AbsState(t)' = "idle"
              /\ AbsOwner' = AbsOwner
           \/ /\ AbsState(t) = "trying" /\ AbsState(t)' = "waiting"
              /\ AbsOwner' = AbsOwner /\ AbsOwner \in Threads
              /\ AbsState(AbsOwner) # "gone"
           \/ /\ AbsState(t) = "trying" /\ AbsState(t)' = "has" /\ AbsOwner' = t
              /\ \/ AbsOwner = NoHolder /\ \A u \in Threads : AbsState(u) # "waiting"
                 \/ AbsOwner \in Threads /\ AbsState(AbsOwner) = "gone"
           \/ /\ AbsState(t) = "has" /\ AbsOwner = t /\ AbsOwner' = NoHolder
              /\ AbsState(t)' = "idle" \/ (Robust /\ AbsState(t)' = "dying")
              /\ \A u \in Threads : AbsState(u) # "waiting"
           \/ /\ AbsState(t) = "idle" \/ (~Robust /\ AbsState(t) = "has")
              /\ AbsState(t)' = "dying" /\ AbsOwner' = AbsOwner
           \/ AbsState(t) = "dying" /\ AbsState(t)' = "gone" /\ AbsOwner' = AbsOwner
    PROVE  [Abs!Next]_(Abs!mutexVars)
<1> DEFINE st == [u \in Threads |-> AbsState(u)]
<1>1. st' = [st EXCEPT ![t] = AbsState(t)'] /\ st[t] = AbsState(t)
  OBVIOUS
<1>2. \A u \in Threads : st[u] = AbsState(u)
  OBVIOUS
<1>3. CASE AbsState(t)' = AbsState(t) /\ AbsOwner' = AbsOwner
  <2>1. st' = st
    BY <1>3
  <2> QED BY <1>3, <2>1 DEF Abs!mutexVars
<1>4. CASE AbsState(t) = "idle" /\ AbsState(t)' = "trying" /\ AbsOwner' = AbsOwner
  <2>1. Abs!Request(t)
    BY <1>1, <1>4 DEF Abs!Request, Abs!Become
  <2> QED BY <2>1 DEF Abs!Next
<1>5. CASE /\ AbsState(t) \in {"trying", "waiting"} /\ AbsState(t)' = "idle"
           /\ AbsOwner' = AbsOwner
  <2>1. Abs!Refuse(t)
    BY <1>1, <1>5 DEF Abs!Refuse, Abs!Become
  <2> QED BY <2>1 DEF Abs!Next
<1>6. CASE /\ AbsState(t) = "trying" /\ AbsState(t)' = "waiting"
           /\ AbsOwner' = AbsOwner /\ AbsOwner \in Threads
           /\ AbsState(AbsOwner) # "gone"
  <2>1. AbsOwner # NoHolder /\ st[AbsOwner] # "gone"
    BY <1>2, <1>6, MutexConstants
  <2>2. Abs!Wait(t)
    BY <1>1, <1>6, <2>1 DEF Abs!Wait, Abs!Become
  <2> QED BY <2>2 DEF Abs!Next
<1>7. CASE /\ AbsState(t) = "trying" /\ AbsState(t)' = "has" /\ AbsOwner' = t
           /\ \/ AbsOwner = NoHolder /\ \A u \in Threads : AbsState(u) # "waiting"
              \/ AbsOwner \in Threads /\ AbsState(AbsOwner) = "gone"
  <2>1. IF AbsOwner = NoHolder THEN Abs!Waiters = {} ELSE st[AbsOwner] = "gone"
    BY <1>2, <1>7, MutexConstants DEF Abs!Waiters
  <2>2. Abs!Take(t)
    BY <1>1, <1>7, <2>1 DEF Abs!Take, Abs!Become
  <2> QED BY <2>2 DEF Abs!Next
<1>8. CASE /\ AbsState(t) = "has" /\ AbsOwner = t /\ AbsOwner' = NoHolder
           /\ AbsState(t)' = "idle" \/ (Robust /\ AbsState(t)' = "dying")
           /\ \A u \in Threads : AbsState(u) # "waiting"
  <2>1. Abs!Waiters = {}
    BY <1>8 DEF Abs!Waiters
  <2>2. Abs!Leave(t, AbsState(t)')
    BY <1>1, <1>8, <2>1 DEF Abs!Leave, Abs!Become
  <2> QED BY <1>8, <2>2 DEF Abs!Next, Abs!Release, Abs!Die
<1>9. CASE /\ AbsState(t) = "idle" \/ (~Robust /\ AbsState(t) = "has")
           /\ AbsState(t)' = "dying" /\ AbsOwner' = AbsOwner
  <2>1. Abs!Die(t)
    BY <1>1, <1>9 DEF Abs!Die, Abs!Become
  <2> QED BY <2>1 DEF Abs!Next
<1>10. CASE AbsState(t) = "dying" /\ AbsState(t)' = "gone" /\ AbsOwner' = AbsOwner
  <2>1. Abs!Bury(t)
    BY <1>1, <1>10 DEF Abs!Bury, Abs!Become
  <2> QED BY <2>1 DEF Abs!Next
<1> QED BY <1>3, <1>4, <1>5, <1>6, <1>7, <1>8, <1>9, <1>10

(* A thread whose location and result are left alone looks the same.       *)
LEMMA AbsSame ==
    ASSUME NEW t \in Threads, pc'[t] = pc[t], errcode'[t] = errcode[t]
    PROVE  AbsState(t)' = AbsState(t)
BY DEF AbsState, Owns, HandedTo

LEMMA AbsOthers ==
    ASSUME NEW t \in Threads, NEW l, pc \in [Threads -> Locs],
           pc' = [pc EXCEPT ![t] = l],
           \A u \in Threads \ {t} : errcode'[u] = errcode[u]
    PROVE  \A u \in Threads \ {t} : AbsState(u)' = AbsState(u)
<1> SUFFICES ASSUME NEW u \in Threads, u # t PROVE AbsState(u)' = AbsState(u)
  OBVIOUS
<1>1. pc'[u] = pc[u] /\ errcode'[u] = errcode[u]
  OBVIOUS
<1> QED BY <1>1, AbsSame

LEMMA AbsSameOwner ==
    ASSUME mholder'.holder = mholder.holder PROVE AbsOwner' = AbsOwner
BY DEF AbsOwner

(* Steps that leave the owner alone.                                       *)
LEMMA AbsMoves ==
    ASSUME TypeOK, NEW t \in Threads,
           \/ Lock(t) \/ TryLock(t) \/ TickLock(t) \/ Unlock(t)
           \/ TryRead(t) \/ WaitRead(t) \/ WaitOr(t)
           \/ PostRead(t) \/ PostOr(t) \/ ReleaseTcb(t)
    PROVE  [Abs!Next]_(Abs!mutexVars)
<1>1. pc \in [Threads -> Locs] /\ mholder \in Words
  BY DEF TypeOK
<1>2. mholder'.holder = mholder.holder
  BY <1>1 DEF Lock, TryLock, TickLock, Unlock, TryRead, WaitRead, WaitOr,
              PostRead, PostOr, ReleaseTcb, Words
<1>3. AbsOwner' = AbsOwner
  BY <1>2, AbsSameOwner
<1>4. errcode' = errcode
  BY DEF Lock, TryLock, TickLock, Unlock, TryRead, WaitRead, WaitOr,
         PostRead, PostOr, ReleaseTcb
<1>5. CASE Lock(t) \/ TryLock(t) \/ TickLock(t)
  <2>1. PICK l \in {"wait_read", "try_read"} :
          pc[t] = "idle" /\ pc' = [pc EXCEPT ![t] = l]
    BY <1>5 DEF Lock, TryLock, TickLock, Goto
  <2>2. \A u \in Threads \ {t} : AbsState(u)' = AbsState(u)
    BY <1>1, <1>4, <2>1, AbsOthers
  <2>3. AbsState(t) = "idle" /\ AbsState(t)' = "trying"
    BY <1>1, <2>1, AbsStates, AbsStatesNext
  <2> QED BY <1>3, <2>2, <2>3, AbsStep
<1>6. CASE TryRead(t) \/ WaitRead(t) \/ WaitOr(t)
  <2>1. PICK l \in {"try_cas", "wait_read", "idle", "wait_cas", "wait_slow", "wait_or"} :
          /\ pc[t] \in {"try_read", "wait_read", "wait_slow"}
          /\ pc' = [pc EXCEPT ![t] = l]
    BY <1>6 DEF TryRead, WaitRead, WaitOr, Goto
  <2>2. \A u \in Threads \ {t} : AbsState(u)' = AbsState(u)
    BY <1>1, <1>4, <2>1, AbsOthers
  <2>3. AbsState(t) = "trying" /\ AbsState(t)' \in {"trying", "idle"}
    BY <1>1, <2>1, AbsStates, AbsStatesNext
  <2> QED BY <1>3, <2>2, <2>3, AbsStep
<1>7. CASE Unlock(t) \/ PostRead(t) \/ PostOr(t)
  <2>1. PICK l \in {"post_read", "post_slow", "post_cas", "post_or"} :
          pc' = [pc EXCEPT ![t] = l]
    BY <1>7 DEF Unlock, PostRead, PostOr, Goto
  <2>2. \A u \in Threads \ {t} : AbsState(u)' = AbsState(u)
    BY <1>1, <1>4, <2>1, AbsOthers
  <2>3. Owns(t) /\ Owns(t)'
    BY <1>1, <1>7, <2>1 DEF Unlock, PostRead, PostOr, Owns
  <2>4. AbsState(t) = "has" /\ AbsState(t)' = "has"
    BY <2>3, AbsStates, AbsStatesNext
  <2> QED BY <1>3, <2>2, <2>4, AbsStep
<1>8. CASE ReleaseTcb(t)
  <2>1. pc[t] = "exiting" /\ pc' = [pc EXCEPT ![t] = "dead"]
    BY <1>8 DEF ReleaseTcb, Goto
  <2>2. \A u \in Threads \ {t} : AbsState(u)' = AbsState(u)
    BY <1>1, <1>4, <2>1, AbsOthers
  <2>3. AbsState(t) = "dying" /\ AbsState(t)' = "gone"
    BY <1>1, <2>1, AbsStates, AbsStatesNext
  <2> QED BY <1>3, <2>2, <2>3, AbsStep
<1> QED BY <1>5, <1>6, <1>7, <1>8

(* Without a wait list nobody is waiting.                                  *)
LEMMA AbsNobody ==
    ASSUME IInv, waitlist = <<>>
    PROVE  \A u \in Threads : AbsState(u) # "waiting"
<1>1. ToSet(waitlist) = {}
  BY ToSetEmpty DEF IInv, TypeOK
<1>2. \A u \in Threads : pc[u] # "blocked"
  BY <1>1 DEF IInv, WaitersInv
<1> QED BY <1>2, AbsExact DEF IInv

(* The steps that take the mutex: the exchange of a fast path and the      *)
(* store of a slow one, of a thread that finds it free or its owner gone.  *)
LEMMA AbsTakes ==
    ASSUME IInv, NEW t \in Threads, TryCas(t) \/ WaitCas(t) \/ WaitTake(t)
    PROVE  [Abs!Next]_(Abs!mutexVars)
<1> USE DEF IInv
<1>1. pc \in [Threads -> Locs] /\ mholder \in Words
  BY DEF TypeOK
<1>2. errcode' = errcode
  BY DEF TryCas, WaitCas, WaitTake
<1>3. PICK l \in Locs : pc' = [pc EXCEPT ![t] = l]
  BY DEF TryCas, WaitCas, WaitTake, Goto, Return, Locs
<1>4. \A u \in Threads \ {t} : AbsState(u)' = AbsState(u)
  BY <1>1, <1>2, <1>3, AbsOthers
<1>5. AbsState(t) = "trying"
  <2>1. pc[t] \in {"try_cas", "wait_cas", "wait_or"}
    BY DEF TryCas, WaitCas, WaitTake
  <2> QED BY <2>1, AbsStates
<1>6. CASE pc'[t] = "locked" /\ mholder'.holder = t
  <2>1. AbsState(t)' = "has"
    BY <1>6, AbsStatesNext DEF Owns
  <2>2. AbsOwner' = t
    BY <1>6, MutexConstants DEF AbsOwner
  <2>3. CASE mholder.holder \in {NoHolder, MReset}
    <3>1. AbsOwner = NoHolder
      BY <2>3, MutexConstants DEF AbsOwner
    <3>2. waitlist = <<>>
      BY <2>3, MutexConstants DEF WordInv, BitIfWaiters
    <3>3. \A u \in Threads : AbsState(u) # "waiting"
      BY <3>2, AbsNobody
    <3> QED BY <1>4, <1>5, <2>1, <2>2, <3>1, <3>3, AbsStep
  <2>4. CASE mholder.holder \notin {NoHolder, MReset}
    <3>1. mholder # Free
      BY <2>4 DEF Free, Word
    <3>2. WaitTake(t)
      BY <1>1, <1>6, <3>1 DEF TryCas, WaitCas, Goto
    <3>3. mholder.holder = old[t].holder /\ ~HolderExists(old[t])
      BY <3>2 DEF WaitTake, WordInv, SlowPathWord, InOr
    <3>4. mholder.holder \in Threads /\ pc[mholder.holder] = "dead"
      BY <1>1, <2>4, <3>3 DEF HolderExists, Acquired, Words
    <3>5. AbsOwner = mholder.holder
      BY <2>4 DEF AbsOwner
    <3>6. AbsState(AbsOwner) = "gone"
      BY <3>4, <3>5, AbsStates
    <3> QED BY <1>4, <1>5, <2>1, <2>2, <3>4, <3>5, <3>6, AbsStep
  <2> QED BY <2>3, <2>4
<1>7. CASE pc'[t] \in {"try_read", "wait_read"} /\ mholder' = mholder
  <2>1. AbsState(t)' = "trying"
    BY <1>7, AbsStatesNext
  <2>2. AbsOwner' = AbsOwner
    BY <1>7, AbsSameOwner
  <2> QED BY <1>4, <1>5, <2>1, <2>2, AbsStep
<1> QED BY <1>1, <1>6, <1>7 DEF TryCas, WaitCas, WaitTake, Goto, Return, Word

(* The owner's TCB exists when a thread joins the wait list.               *)
LEMMA AbsWaits ==
    ASSUME IInv, NEW t \in Threads, WaitBlock(t)
    PROVE  [Abs!Next]_(Abs!mutexVars)
<1> USE DEF IInv
<1>1. /\ pc \in [Threads -> Locs] /\ mholder \in Words
      /\ errcode \in [Threads -> {"OK", "ETIMEDOUT"}]
  BY DEF TypeOK
<1>2. /\ pc[t] = "wait_or" /\ pc' = [pc EXCEPT ![t] = "blocked"]
      /\ errcode' = [errcode EXCEPT ![t] = "OK"] /\ mholder' = mholder
      /\ HolderExists(old[t])
  BY DEF WaitBlock, Goto
<1>3. \A u \in Threads \ {t} : AbsState(u)' = AbsState(u)
  BY <1>1, <1>2, AbsOthers
<1>4. AbsState(t) = "trying" /\ AbsState(t)' = "waiting"
  BY <1>1, <1>2, AbsStates, AbsStatesNext
<1>5. AbsOwner' = AbsOwner
  BY <1>2, AbsSameOwner
<1>6. mholder.holder = old[t].holder
  BY <1>2 DEF WordInv, SlowPathWord, InOr
<1>7. /\ mholder.holder \in Threads /\ pc[mholder.holder] # "dead"
      /\ AbsOwner = mholder.holder
  BY <1>1, <1>2, <1>6 DEF HolderExists, Acquired, Words, AbsOwner
<1>8. AbsState(AbsOwner) # "gone"
  BY <1>7, AbsExact
<1> QED BY <1>3, <1>4, <1>5, <1>7, <1>8, AbsStep

(* The woken thread stores what the word says already, or returns the      *)
(* error its wait ended with.                                              *)
LEMMA AbsResumes ==
    ASSUME IInv, NEW t \in Threads, WaitResume(t)
    PROVE  [Abs!Next]_(Abs!mutexVars)
<1> USE DEF IInv
<1>1. pc \in [Threads -> Locs] /\ mholder \in Words
  BY DEF TypeOK
<1>2. /\ pc[t] = "woken" /\ errcode' = errcode
      /\ pc' = [pc EXCEPT ![t] = IF errcode[t] = "OK" THEN "locked" ELSE "idle"]
  BY DEF WaitResume, Return, Goto
<1>3. \A u \in Threads \ {t} : AbsState(u)' = AbsState(u)
  BY <1>1, <1>2, AbsOthers
<1>4. CASE errcode[t] = "OK"
  <2>1. HandedTo(t) /\ Owns(t)'
    BY <1>1, <1>2, <1>4 DEF HandedTo, Owns
  <2>2. AbsState(t) = "has" /\ AbsState(t)' = "has"
    BY <2>1, AbsStates, AbsStatesNext
  <2>3. mholder.holder = t /\ mholder'.holder = t
    BY <1>4, <2>1 DEF HolderInv, WaitResume, Word
  <2>4. AbsOwner' = AbsOwner
    BY <2>3, AbsSameOwner
  <2> QED BY <1>3, <2>2, <2>4, AbsStep
<1>5. CASE errcode[t] # "OK"
  <2>1. pc'[t] = "idle" /\ mholder' = mholder
    BY <1>1, <1>2, <1>5 DEF WaitResume
  <2>2. AbsState(t) = "idle" /\ AbsState(t)' = "idle"
    BY <1>2, <1>5, <2>1, AbsStates, AbsStatesNext
  <2>3. AbsOwner' = AbsOwner
    BY <2>1, AbsSameOwner
  <2> QED BY <1>3, <2>2, <2>3, AbsStep
<1> QED BY <1>4, <1>5

(* An owner gives the mutex to the first waiter.                           *)
LEMMA AbsHands ==
    ASSUME IInv, NEW t \in Threads, NEW l, Owns(t), waitlist # <<>>,
           HandOver(t, l), errcode' = errcode,
           l = "idle" \/ (Robust /\ l = "exiting")
    PROVE  [Abs!Next]_(Abs!mutexVars)
<1> DEFINE st == [u \in Threads |-> AbsState(u)]
<1> USE DEF IInv
<1>1. pc \in [Threads -> Locs]
  BY DEF TypeOK
<1>2. pc[t] # "blocked"
  BY DEF Owns
<1>3. PICK s \in Threads :
        /\ pc[s] = "blocked" /\ errcode[s] = "OK" /\ s # t
        /\ mholder' = Word(s, waitlist' # <<>>)
        /\ pc' = [pc EXCEPT ![t] = l, ![s] = "woken"]
  BY <1>2, HandOverFacts
<1>4. AbsOwner = t /\ AbsOwner' = s
  BY <1>3, MutexConstants DEF HolderInv, AbsOwner, Word
<1>5. pc'[s] = "woken" /\ errcode'[s] = "OK" /\ pc'[t] = l
  BY <1>1, <1>3
<1>6. /\ AbsState(t) = "has" /\ AbsState(s) = "waiting"
      /\ AbsState(s)' = "has"
  BY <1>3, <1>5, AbsStates, AbsStatesNext DEF HandedTo
<1>7. \A u \in Threads \ {s, t} : AbsState(u)' = AbsState(u)
  <2> SUFFICES ASSUME NEW u \in Threads, u # s, u # t
               PROVE  AbsState(u)' = AbsState(u)
    OBVIOUS
  <2>1. pc'[u] = pc[u] /\ errcode'[u] = errcode[u]
    BY <1>1, <1>3
  <2> QED BY <2>1, AbsSame
<1>8. st' = [st EXCEPT ![t] = AbsState(t)', ![s] = "has"]
  BY <1>3, <1>6, <1>7
<1>9. s \in Abs!Waiters /\ st[t] = "has"
  BY <1>6 DEF Abs!Waiters
<1>10. Abs!Leave(t, AbsState(t)')
  BY <1>4, <1>8, <1>9 DEF Abs!Leave
<1>11. AbsState(t)' = "idle" \/ (Robust /\ AbsState(t)' = "dying")
  BY <1>5, AbsStatesNext
<1> QED BY <1>10, <1>11 DEF Abs!Next, Abs!Release, Abs!Die

(* The steps that give the mutex up: the exchange of the fast path, and    *)
(* the slow path with or without waiters.                                  *)
LEMMA AbsReleases ==
    ASSUME IInv, NEW t \in Threads, PostCas(t) \/ PostFree(t) \/ PostBlocking(t)
    PROVE  [Abs!Next]_(Abs!mutexVars)
<1> USE DEF IInv
<1>1. pc \in [Threads -> Locs] /\ mholder \in Words
  BY DEF TypeOK
<1>2. errcode' = errcode
  BY DEF PostCas, PostFree, PostBlocking
<1>3. Owns(t) /\ mholder.holder = t
  BY DEF Owns, HolderInv, PostCas, PostFree, PostBlocking
<1>4. AbsState(t) = "has" /\ AbsOwner = t
  BY <1>3, AbsStates, MutexConstants DEF AbsOwner
<1>5. CASE /\ pc' = [pc EXCEPT ![t] = "idle"] /\ waitlist = <<>>
           /\ mholder'.holder = NoHolder
  <2>1. \A u \in Threads \ {t} : AbsState(u)' = AbsState(u)
    BY <1>1, <1>2, <1>5, AbsOthers
  <2>2. AbsState(t)' = "idle"
    BY <1>1, <1>5, AbsStatesNext
  <2>3. AbsOwner' = NoHolder
    BY <1>5, MutexConstants DEF AbsOwner
  <2>4. \A u \in Threads : AbsState(u) # "waiting"
    BY <1>5, AbsNobody
  <2> QED BY <1>4, <2>1, <2>2, <2>3, <2>4, AbsStep
<1>6. CASE PostCas(t)
  <2>1. CASE mholder = old[t]
    <3>1. mholder = Word(t, FALSE)
      BY <1>6, <2>1 DEF PostCas, WordInv, FastPostWord
    <3>2. waitlist = <<>>
      BY <3>1 DEF WordInv, BitIfWaiters, Word
    <3> QED BY <1>5, <1>6, <2>1, <3>2 DEF PostCas, Goto, Free, Word
  <2>2. CASE mholder # old[t]
    <3>1. pc' = [pc EXCEPT ![t] = "post_read"] /\ mholder' = mholder
      BY <1>6, <2>2 DEF PostCas, Goto
    <3>2. \A u \in Threads \ {t} : AbsState(u)' = AbsState(u)
      BY <1>1, <1>2, <3>1, AbsOthers
    <3>3. Owns(t)'
      BY <1>1, <3>1 DEF Owns
    <3>4. AbsState(t)' = "has"
      BY <3>3, AbsStatesNext
    <3>5. AbsOwner' = AbsOwner
      BY <3>1, AbsSameOwner
    <3> QED BY <1>4, <3>2, <3>4, <3>5, AbsStep
  <2> QED BY <2>1, <2>2
<1>7. CASE PostFree(t)
  <2>1. mholder.holder = old[t].holder /\ waitlist = <<>>
    BY <1>7 DEF PostFree, WordInv, SlowPathWord, InOr
  <2>2. old[t].holder # MReset
    BY <1>3, <2>1, MutexConstants
  <2> QED BY <1>5, <1>7, <2>1, <2>2 DEF PostFree, Goto, Word
<1>8. CASE PostBlocking(t)
  <2>1. waitlist # <<>>
    BY <1>8 DEF PostBlocking, WordInv, SlowPathWord, InOr
  <2>2. HandOver(t, "idle")
    BY <1>8, <2>1 DEF PostBlocking
  <2> QED BY <1>2, <1>3, <2>1, <2>2, AbsHands
<1> QED BY <1>6, <1>7, <1>8

(* A timeout takes a thread out of the wait and leaves the owner alone.    *)
LEMMA AbsTimesOut ==
    ASSUME IInv, NEW t \in Threads, Timeout(t)
    PROVE  [Abs!Next]_(Abs!mutexVars)
<1> USE DEF IInv
<1>1. /\ pc \in [Threads -> Locs] /\ mholder \in Words
      /\ errcode \in [Threads -> {"OK", "ETIMEDOUT"}]
  BY DEF TypeOK
<1>2. mholder'.holder = mholder.holder
  BY <1>1 DEF Timeout, Words
<1>3. AbsOwner' = AbsOwner
  BY <1>2, AbsSameOwner
<1>4. CASE pc[t] = "blocked"
  <2>1. /\ pc' = [pc EXCEPT ![t] = "woken"]
        /\ errcode' = [errcode EXCEPT ![t] = "ETIMEDOUT"]
    BY <1>4 DEF Timeout, Goto
  <2>2. \A u \in Threads \ {t} : AbsState(u)' = AbsState(u)
    BY <1>1, <2>1, AbsOthers
  <2>3. AbsState(t) = "waiting" /\ AbsState(t)' = "idle"
    BY <1>1, <1>4, <2>1, AbsStates, AbsStatesNext
  <2> QED BY <1>3, <2>2, <2>3, AbsStep
<1>5. CASE pc[t] # "blocked"
  <2>1. \A u \in Threads : pc'[u] = pc[u] /\ errcode'[u] = errcode[u]
    BY <1>5 DEF Timeout
  <2>2. \A u \in Threads : AbsState(u)' = AbsState(u)
    BY <2>1, AbsSame
  <2> QED BY <1>3, <2>2, AbsStep
<1> QED BY <1>4, <1>5

(* A thread dies with the mutex, without it, or releases it as it dies.    *)
LEMMA AbsDies ==
    ASSUME IInv, AsyncCancel = FALSE, NEW t \in Threads, Terminate(t)
    PROVE  [Abs!Next]_(Abs!mutexVars)
<1> USE DEF IInv
<1>1. pc \in [Threads -> Locs] /\ mholder \in Words
  BY DEF TypeOK
<1>2. errcode' = errcode /\ pc[t] \in {"idle", "locked"}
  BY DEF Terminate
<1>3. CASE /\ pc' = [pc EXCEPT ![t] = "exiting"] /\ mholder' = mholder
           /\ pc[t] = "idle" \/ ~Robust
  <2>1. \A u \in Threads \ {t} : AbsState(u)' = AbsState(u)
    BY <1>1, <1>2, <1>3, AbsOthers
  <2>2. /\ AbsState(t)' = "dying"
        /\ AbsState(t) = "idle" \/ (~Robust /\ AbsState(t) = "has")
    BY <1>1, <1>2, <1>3, AbsStates, AbsStatesNext DEF Owns
  <2>3. AbsOwner' = AbsOwner
    BY <1>3, AbsSameOwner
  <2> QED BY <2>1, <2>2, <2>3, AbsStep
<1>4. CASE pc[t] = "locked" /\ Robust
  <2>1. Owns(t) /\ mholder.holder = t
    BY <1>4 DEF Owns, HolderInv
  <2>2. ResetOwned(t)
    BY <1>4, <2>1 DEF Terminate
  <2>3. CASE waitlist = <<>>
    <3>1. pc' = [pc EXCEPT ![t] = "exiting"] /\ mholder'.holder = MReset
      BY <2>2, <2>3 DEF ResetOwned, Goto, Word
    <3>2. \A u \in Threads \ {t} : AbsState(u)' = AbsState(u)
      BY <1>1, <1>2, <3>1, AbsOthers
    <3>3. AbsState(t) = "has" /\ AbsState(t)' = "dying"
      BY <1>1, <2>1, <3>1, AbsStates, AbsStatesNext
    <3>4. AbsOwner = t /\ AbsOwner' = NoHolder
      BY <2>1, <3>1, MutexConstants DEF AbsOwner
    <3>5. \A u \in Threads : AbsState(u) # "waiting"
      BY <2>3, AbsNobody
    <3> QED BY <1>4, <3>2, <3>3, <3>4, <3>5, AbsStep
  <2>4. CASE waitlist # <<>>
    <3>1. HandOver(t, "exiting")
      BY <2>2, <2>4 DEF ResetOwned
    <3> QED BY <1>2, <1>4, <2>1, <2>4, <3>1, AbsHands
  <2> QED BY <2>3, <2>4
<1> QED BY <1>2, <1>3, <1>4 DEF Terminate, Goto

(* Every step of the code is a step of the abstract mutex or none.         *)
LEMMA AbsNext ==
    ASSUME AsyncCancel = FALSE, IInv, [Next]_vars
    PROVE  [Abs!Next]_(Abs!mutexVars)
<1> USE DEF IInv
<1>1. ASSUME \A u \in Threads : pc'[u] = pc[u] /\ errcode'[u] = errcode[u],
             mholder' = mholder
      PROVE  [Abs!Next]_(Abs!mutexVars)
  <2>1. \A u \in Threads : AbsState(u)' = AbsState(u)
    BY <1>1, AbsSame
  <2>2. AbsOwner' = AbsOwner
    BY <1>1, AbsSameOwner
  <2> QED BY <2>1, <2>2, Zenon DEF Abs!mutexVars
<1>2. CASE UNCHANGED vars
  BY <1>1, <1>2 DEF vars
<1>3. ASSUME NEW t \in Threads, NEW p \in Prios, SetPriority(t, p)
      PROVE  [Abs!Next]_(Abs!mutexVars)
  BY <1>1, <1>3 DEF SetPriority
<1> QED BY <1>2, <1>3, AbsMoves, AbsTakes, AbsWaits, AbsResumes, AbsReleases,
           AbsTimesOut, AbsDies, Zenon DEF Next, Step

(* nxmutex_lock(), nxmutex_trylock(), nxmutex_ticklock() and               *)
(* nxmutex_unlock(), with their lock-free paths, timeouts, handovers, and  *)
(* the exit of threads, implement the mutex of module Mutex, for any       *)
(* number of threads, robust or not.                                       *)
THEOREM MutexImplemented ==
    ASSUME AsyncCancel = FALSE PROVE Spec => ImplementsMutex
<1>1. Init => Abs!Init
  <2> SUFFICES ASSUME Init PROVE Abs!Init
    OBVIOUS
  <2>1. \A u \in Threads : AbsState(u) = "idle"
    BY AbsStates DEF Init
  <2>2. AbsOwner = NoHolder
    BY MutexConstants DEF Init, AbsOwner, Free, Word
  <2> QED BY <2>1, <2>2 DEF Abs!Init
<1>2. IInv /\ [Next]_vars => [Abs!Next]_(Abs!mutexVars)
  BY AbsNext
<1> QED BY <1>1, <1>2, Inductive, PTL DEF Spec, ImplementsMutex, Abs!Spec
=============================================================================
