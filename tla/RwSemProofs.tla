----------------------------- MODULE RwSemProofs ----------------------------
(***************************************************************************)
(* Proofs about the reader-writer semaphore, for any finite set of threads.*)
(***************************************************************************)
EXTENDS RwSem, PrioListProofs

-----------------------------------------------------------------------------
(* The inductive invariant.  NoLostWakeup needs the units: a thread that   *)
(* decided to wait before the lock became free, and has not called         *)
(* nxsem_wait() yet, will find one.                                        *)

Waiting == {t \in Threads : pc[t] # "idle"}

Before == {t \in Threads : pc[t] # "idle" /\ at[t] = "before"}

Owners == \A t \in Threads : holder = t <=> writes[t] > 0

Sound == writer > 0 => reader = 0

InCall == \A t \in Threads : at[t] # "before" => pc[t] # "idle"

Provided ==
    reader = 0 /\ writer = 0 => Asleep = {} /\ Cardinality(Before) <= units

IInv ==
    /\ TypeOK
    /\ reader = Total(reads) /\ writer = Total(writes)
    /\ waiter = Cardinality(Waiting)
    /\ Owners /\ Sound /\ InCall /\ Provided

Fields ==
    /\ reader \in Nat /\ writer \in Nat /\ holder \in Threads \cup {NoHolder}
    /\ reads \in [Threads -> Nat] /\ writes \in [Threads -> Nat]
    /\ reader = Total(reads) /\ writer = Total(writes)
    /\ Owners /\ Sound

Waiters ==
    /\ waiter \in Nat /\ units \in Nat
    /\ pc \in [Threads -> {"idle", "down_read", "down_write"}]
    /\ at \in [Threads -> {"before", "asleep", "woken"}]
    /\ waiter = Cardinality(Waiting)
    /\ InCall

LEMMA IInvParts == IInv <=> Fields /\ Waiters /\ Provided
BY DEF IInv, TypeOK, Fields, Waiters

LEMMA IInvNext == Fields' /\ Waiters' /\ Provided' => IInv'
BY DEF IInv, TypeOK, Fields, Waiters

(* A value that changes by d changes the total by d.                       *)
LEMMA TotalStep ==
    ASSUME NEW f \in [Threads -> Nat], NEW t \in Threads, NEW v \in Nat,
           NEW g, g = [f EXCEPT ![t] = v]
    PROVE  /\ g \in [Threads -> Nat]
           /\ Total(g) = Total(f) - f[t] + v
           /\ Total(f) \in Nat /\ f[t] <= Total(f) /\ f[t] \in Nat
<1>1. IsFiniteSet(Threads) /\ f \in [Threads -> Int] /\ v \in Int
  BY RwConstants
<1>2. Total(g) = Total(f) - f[t] + v
  BY <1>1, TotalChange
<1>3. Total(f) \in Nat /\ f[t] <= Total(f)
  BY <1>1, TotalNat
<1> QED BY <1>2, <1>3

LEMMA FieldTypes ==
    Fields => /\ reads \in [Threads -> Nat] /\ writes \in [Threads -> Nat]
              /\ reader = Total(reads) /\ writer = Total(writes)
BY DEF Fields

(* The write locks are all of one thread.                                  *)
LEMMA OneOwner ==
    ASSUME Fields
    PROVE  /\ \A t \in Threads : writes[t] > 0 => writer = writes[t] /\ reader = 0
           /\ \A t \in Threads : writer = 0 => writes[t] = 0 /\ holder # t
           /\ \A t \in Threads : reader = 0 => reads[t] = 0
<1>0. IsFiniteSet(Threads)
  BY RwConstants
<1>1. \A t \in Threads : /\ writes[t] \in Nat /\ writes[t] <= writer
                         /\ reads[t] \in Nat /\ reads[t] <= reader
  BY <1>0, TotalNat DEF Fields
<1>2. ASSUME NEW t \in Threads, writes[t] > 0
      PROVE  writer = writes[t] /\ reader = 0
  <2>1. PICK g : g = [writes EXCEPT ![t] = 0]
    OBVIOUS
  <2>2. g \in [Threads -> Nat] /\ \A u \in Threads : g[u] = 0
    BY <1>1, <1>2, <2>1 DEF Fields, Owners
  <2>3. Total(g) = 0
    BY <1>0, <2>2, TotalNat
  <2>4. Total(g) = writer - writes[t] + 0
    <3>1. writes \in [Threads -> Nat] /\ writer = Total(writes) /\ 0 \in Nat
      BY FieldTypes
    <3>2. Total(g) = Total(writes) - writes[t] + 0
      BY <2>1, <3>1, TotalStep, ZenonT(90)
    <3> QED BY <3>1, <3>2
  <2>5. writer \in Nat /\ writes[t] \in Nat
    BY <1>1 DEF Fields
  <2>6. writer = writes[t]
    BY <2>3, <2>4, <2>5
  <2> QED BY <1>2, <2>5, <2>6 DEF Fields, Sound
<1> QED BY <1>1, <1>2 DEF Fields, Owners

(* What a change of a thread's own count does to the sums.                 *)
LEMMA ReadsChange ==
    ASSUME Fields, NEW t \in Threads, NEW v \in Nat, reads' = [reads EXCEPT ![t] = v]
    PROVE  /\ reads' \in [Threads -> Nat]
           /\ Total(reads') = reader - reads[t] + v
           /\ reads[t] <= reader
<1>1. reads \in [Threads -> Nat] /\ reader = Total(reads)
  BY DEF Fields
<1>2. PICK g : g = [reads EXCEPT ![t] = v]
  OBVIOUS
<1>3. g \in [Threads -> Nat] /\ Total(g) = Total(reads) - reads[t] + v
      /\ reads[t] <= Total(reads)
  BY <1>1, <1>2, TotalStep, ZenonT(90)
<1> QED BY <1>1, <1>2, <1>3

LEMMA WritesChange ==
    ASSUME Fields, NEW t \in Threads, NEW v \in Nat, writes' = [writes EXCEPT ![t] = v]
    PROVE  /\ writes' \in [Threads -> Nat]
           /\ Total(writes') = writer - writes[t] + v
           /\ writes[t] <= writer
<1>1. writes \in [Threads -> Nat] /\ writer = Total(writes)
  BY DEF Fields
<1>2. PICK g : g = [writes EXCEPT ![t] = v]
  OBVIOUS
<1>3. g \in [Threads -> Nat] /\ Total(g) = Total(writes) - writes[t] + v
      /\ writes[t] <= Total(writes)
  BY <1>1, <1>2, TotalStep, ZenonT(90)
<1> QED BY <1>1, <1>2, <1>3

LEMMA ReadTaken ==
    ASSUME Fields, NEW t \in Threads, TakeRead(t), writer = 0
    PROVE  Fields' /\ reader' > 0
<1>1. PICK v \in Nat : v = reads[t] + 1 /\ reads' = [reads EXCEPT ![t] = v]
  <2>1. reads[t] + 1 \in Nat /\ reads' = [reads EXCEPT ![t] = reads[t] + 1]
    BY DEF Fields, TakeRead
  <2> QED BY <2>1
<1>2. reads' \in [Threads -> Nat] /\ Total(reads') = reader - reads[t] + v
  BY <1>1, ReadsChange
<1>3. reader' = Total(reads')
  BY <1>1, <1>2 DEF Fields, TakeRead
<1> QED BY <1>2, <1>3 DEF Fields, Owners, Sound, TakeRead

LEMMA WriteTaken ==
    ASSUME Fields, NEW t \in Threads, TakeWrite(t),
           (reader = 0 /\ writer = 0) \/ holder = t
    PROVE  Fields' /\ writer' > 0
<1>1. PICK v \in Nat : v = writes[t] + 1 /\ writes' = [writes EXCEPT ![t] = v]
  <2>1. writes[t] + 1 \in Nat /\ writes' = [writes EXCEPT ![t] = writes[t] + 1]
    BY DEF Fields, TakeWrite
  <2> QED BY <2>1
<1>2. writes' \in [Threads -> Nat] /\ Total(writes') = writer - writes[t] + v
  BY <1>1, WritesChange
<1>3. writer' = Total(writes')
  BY <1>1, <1>2 DEF Fields, TakeWrite
<1>4. reader = 0
  BY OneOwner DEF Fields, Owners
<1>5. \A u \in Threads \ {t} : writes[u] = 0
  BY OneOwner DEF Fields, Owners
<1>6. Owners'
  BY <1>1, <1>5 DEF Owners, TakeWrite, Fields
<1> QED BY <1>2, <1>3, <1>4, <1>6 DEF Fields, Sound, TakeWrite

LEMMA WriteDropped ==
    ASSUME Fields, NEW t \in Threads, writes[t] > 0, DropWrite(t)
    PROVE  Fields' /\ reader' = 0
<1>1. PICK v \in Nat : v = writes[t] - 1 /\ writes' = [writes EXCEPT ![t] = v]
  <2>1. writes[t] - 1 \in Nat /\ writes' = [writes EXCEPT ![t] = writes[t] - 1]
    BY DEF Fields, DropWrite
  <2> QED BY <2>1
<1>2. writes' \in [Threads -> Nat] /\ Total(writes') = writer - writes[t] + v
  BY <1>1, WritesChange
<1>3. writer' = Total(writes')
  BY <1>1, <1>2 DEF Fields, DropWrite
<1>4. reader = 0 /\ writer = writes[t] /\ holder = t
  BY OneOwner DEF Fields, Owners
<1>5. \A u \in Threads \ {t} : writes'[u] = 0 /\ holder' # u
  BY <1>1, <1>4, RwConstants DEF Fields, Owners, DropWrite
<1>6. holder' = t <=> writes'[t] > 0
  BY <1>1, <1>4, RwConstants DEF Fields, DropWrite
<1>7. holder' \in Threads \cup {NoHolder}
  BY <1>4 DEF DropWrite
<1>8. UNCHANGED <<reader, reads>> /\ writer' = writer - 1
  BY DEF DropWrite
<1>9. Owners'
  BY <1>2, <1>5, <1>6 DEF Owners
<1> QED BY <1>1, <1>2, <1>3, <1>4, <1>7, <1>8, <1>9 DEF Fields, Sound

LEMMA ReadDropped ==
    ASSUME Fields, NEW t \in Threads, reads[t] > 0,
           reader' = reader - 1, reads' = [reads EXCEPT ![t] = @ - 1],
           UNCHANGED <<writer, holder, writes>>
    PROVE  Fields' /\ writer' = 0
<1>1. PICK v \in Nat : v = reads[t] - 1 /\ reads' = [reads EXCEPT ![t] = v]
  <2>1. reads[t] - 1 \in Nat /\ reads' = [reads EXCEPT ![t] = reads[t] - 1]
    BY DEF Fields
  <2> QED BY <2>1
<1>2. /\ reads' \in [Threads -> Nat] /\ reads[t] <= reader
      /\ Total(reads') = reader - reads[t] + v
  BY <1>1, ReadsChange
<1>3. reader' = Total(reads') /\ reader' \in Nat
  BY <1>1, <1>2 DEF Fields
<1>4. writer = 0
  BY <1>1, <1>2 DEF Fields, Sound
<1> QED BY <1>2, <1>3, <1>4 DEF Fields, Owners, Sound

LEMMA Downgraded ==
    ASSUME Fields, NEW t \in Threads, DowngradeWrite(t)
    PROVE  Fields' /\ reader' > 0
<1>1. /\ writes[t] = 1 /\ 0 \in Nat
      /\ writes' = [writes EXCEPT ![t] = 0]
  BY DEF Fields, DowngradeWrite
<1>2. writes' \in [Threads -> Nat] /\ Total(writes') = writer - writes[t] + 0
  BY <1>1, WritesChange
<1>3. PICK v \in Nat : v = reads[t] + 1 /\ reads' = [reads EXCEPT ![t] = v]
  <2>1. reads[t] + 1 \in Nat /\ reads' = [reads EXCEPT ![t] = reads[t] + 1]
    BY DEF Fields, DowngradeWrite
  <2> QED BY <2>1
<1>4. reads' \in [Threads -> Nat] /\ Total(reads') = reader - reads[t] + v
  BY <1>3, ReadsChange
<1>5. writer = 1 /\ reader = 0
  BY <1>1, OneOwner
<1>6. writer' = Total(writes') /\ reader' = Total(reads')
  BY <1>1, <1>2, <1>3, <1>4, <1>5 DEF Fields, DowngradeWrite
<1>7. \A u \in Threads : writes'[u] = 0
  BY <1>1 DEF Fields, Owners
<1>8. Owners'
  BY <1>7, RwConstants DEF Owners, DowngradeWrite
<1> QED BY <1>2, <1>4, <1>5, <1>6, <1>8 DEF Fields, Sound, DowngradeWrite

-----------------------------------------------------------------------------
(* The waiting threads.                                                    *)

LEMMA WaitingFinite ==
    /\ IsFiniteSet(Waiting) /\ Cardinality(Waiting) \in Nat
    /\ IsFiniteSet(Asleep) /\ Cardinality(Asleep) \in Nat
    /\ IsFiniteSet(Before) /\ Cardinality(Before) \in Nat
    /\ Cardinality(Asleep) + Cardinality(Before) <= Cardinality(Waiting)
<1>1. /\ Waiting \in SUBSET Threads /\ Asleep \in SUBSET Waiting
      /\ Before \in SUBSET Waiting /\ Asleep \cap Before = {}
      /\ Asleep \cup Before \in SUBSET Waiting
  BY DEF Waiting, Asleep, Before
<1>2. IsFiniteSet(Waiting)
  BY <1>1, RwConstants, FS_Subset
<1>3. IsFiniteSet(Asleep) /\ IsFiniteSet(Before)
  BY <1>1, <1>2, FS_Subset
<1>4. Cardinality(Asleep \cup Before) =
        Cardinality(Asleep) + Cardinality(Before) - Cardinality(Asleep \cap Before)
  BY <1>3, FS_Union
<1>5. Cardinality(Asleep \cap Before) = 0
  BY <1>1, FS_EmptySet
<1>6. Cardinality(Asleep \cup Before) <= Cardinality(Waiting)
  BY <1>1, <1>2, FS_Subset
<1>7. /\ Cardinality(Waiting) \in Nat /\ Cardinality(Asleep) \in Nat
      /\ Cardinality(Before) \in Nat
  BY <1>2, <1>3, FS_CardinalityType
<1> QED BY <1>2, <1>3, <1>4, <1>5, <1>6, <1>7

(* up_wait() wakes up every thread asleep and leaves a unit for every one  *)
(* that is about to wait.                                                  *)
LEMMA AllWoken ==
    ASSUME Waiters, UpWait, UNCHANGED <<waiter, pc>>
    PROVE  Waiters' /\ Asleep' = {} /\ Cardinality(Before') <= units'
<1>1. PICK W \in SUBSET Asleep :
        /\ Cardinality(W) = Min({waiter, Cardinality(Asleep)})
        /\ at' = [t \in Threads |-> IF t \in W THEN "woken" ELSE at[t]]
        /\ units' = units + waiter - Cardinality(W)
  BY DEF UpWait, Posted
<1>2. Min({waiter, Cardinality(Asleep)}) = Cardinality(Asleep)
  <2>1. /\ Cardinality(Asleep) \in Nat /\ waiter \in Nat
        /\ Cardinality(Asleep) <= waiter
    BY WaitingFinite DEF Waiters
  <2>2. \A a, b \in Nat : a <= b => Min({b, a}) = a
    BY DEF Min
  <2> QED BY <2>1, <2>2
<1>3. W = Asleep
  BY <1>1, <1>2, WaitingFinite, FS_Subset
<1>4. Before' = Before /\ Asleep' = {} /\ Waiting' = Waiting /\ InCall'
  BY <1>1, <1>3 DEF Waiters, Before, Asleep, Waiting, InCall
<1>5. at' \in [Threads -> {"before", "asleep", "woken"}]
  BY <1>1 DEF Waiters
<1>6. units' \in Nat /\ Cardinality(Before) <= units'
  BY <1>1, <1>3, WaitingFinite DEF Waiters
<1> QED BY <1>4, <1>5, <1>6 DEF Waiters

(* A thread enters or leaves the waiting threads.                          *)
LEMMA WaitingChange ==
    ASSUME Waiters, NEW t \in Threads, NEW p \in {"idle", "down_read", "down_write"},
           pc' = [pc EXCEPT ![t] = p]
    PROVE  Cardinality(Waiting') =
             Cardinality(Waiting \ {t}) + (IF p = "idle" THEN 0 ELSE 1)
<1>1. IsFiniteSet(Waiting \ {t}) /\ Cardinality(Waiting \ {t}) \in Nat
  BY WaitingFinite, FS_RemoveElement, FS_CardinalityType
<1>2. CASE p = "idle"
  <2>1. Waiting' = Waiting \ {t}
    BY <1>2 DEF Waiting, Waiters
  <2> QED BY <1>1, <1>2, <2>1
<1>3. CASE p # "idle"
  <2>1. Waiting' = (Waiting \ {t}) \cup {t}
    BY <1>3 DEF Waiting, Waiters
  <2> QED BY <1>1, <1>3, <2>1, FS_AddElement
<1> QED BY <1>2, <1>3

-----------------------------------------------------------------------------
(* The actions.                                                            *)

(* A thread that looks at the lock gets it, or counts itself as a waiter   *)
(* of a lock that is held.                                                 *)
LEMMA Asked ==
    ASSUME Fields, NEW t \in Threads, NEW n, Read(t, n) \/ Write(t, n)
    PROVE  /\ Fields' /\ (reader' > 0 \/ writer' > 0)
           /\ \E p \in {"idle", "down_read", "down_write"} :
                /\ pc' = [pc EXCEPT ![t] = p]
                /\ waiter' = IF p = "idle" THEN n ELSE n + 1
<1>1. \E p \in {"idle", "down_read", "down_write"} :
           /\ pc' = [pc EXCEPT ![t] = p]
           /\ waiter' = IF p = "idle" THEN n ELSE n + 1
  <2>1. CASE waiter' = n /\ pc' = [pc EXCEPT ![t] = "idle"]
    BY <2>1
  <2>2. CASE waiter' = n + 1 /\ pc' = [pc EXCEPT ![t] = "down_read"]
    BY <2>2
  <2>3. CASE waiter' = n + 1 /\ pc' = [pc EXCEPT ![t] = "down_write"]
    BY <2>3
  <2> QED BY <2>1, <2>2, <2>3, Zenon DEF Read, Write
<1>2. \/ TakeRead(t) /\ writer = 0
      \/ TakeWrite(t) /\ ((reader = 0 /\ writer = 0) \/ holder = t)
      \/ UNCHANGED <<reader, writer, holder, reads, writes>> /\ (reader > 0 \/ writer > 0)
  BY DEF Read, Write, MayWrite, Fields
<1>3. Fields' /\ (reader' > 0 \/ writer' > 0)
  <2>1. CASE TakeRead(t) /\ writer = 0
    BY <2>1, ReadTaken
  <2>2. CASE TakeWrite(t) /\ ((reader = 0 /\ writer = 0) \/ holder = t)
    BY <2>2, WriteTaken
  <2>3. CASE UNCHANGED <<reader, writer, holder, reads, writes>> /\ (reader > 0 \/ writer > 0)
    BY <2>3 DEF Fields, Owners, Sound
  <2> QED BY <1>2, <2>1, <2>2, <2>3
<1> QED BY <1>1, <1>3

(* down_read() and down_write(), at the first look and at later ones.      *)
LEMMA Looked ==
    ASSUME IInv, NEW t \in Threads,
           DownRead(t) \/ DownWrite(t) \/ Recheck(t)
    PROVE  IInv'
<1>0. Fields /\ Waiters
  BY IInvParts
<1>1. PICK n : /\ Read(t, n) \/ Write(t, n)
               /\ n = Cardinality(Waiting \ {t}) /\ n \in Nat
  <2>1. CASE DownRead(t) \/ DownWrite(t)
    <3>1. Waiting \ {t} = Waiting
      BY <2>1 DEF Waiting, DownRead, DownWrite, MayAsk
    <3>2. Read(t, waiter) \/ Write(t, waiter)
      BY <2>1 DEF DownRead, DownWrite
    <3> QED BY <1>0, <3>1, <3>2 DEF Waiters
  <2>2. CASE Recheck(t)
    <3>1. t \in Waiting
      BY <1>0, <2>2 DEF Waiting, Waiters, InCall, Recheck
    <3>2. Cardinality(Waiting \ {t}) = waiter - 1
      BY <1>0, <3>1, WaitingFinite, FS_RemoveElement DEF Waiters
    <3>3. Cardinality(Waiting \ {t}) \in Nat
      BY WaitingFinite, FS_RemoveElement, FS_CardinalityType
    <3>4. Read(t, waiter - 1) \/ Write(t, waiter - 1)
      BY <2>2, Zenon DEF Recheck
    <3> QED BY <3>2, <3>3, <3>4
  <2> QED BY <2>1, <2>2
<1>2. PICK p \in {"idle", "down_read", "down_write"} :
        /\ pc' = [pc EXCEPT ![t] = p]
        /\ waiter' = IF p = "idle" THEN n ELSE n + 1
  BY <1>0, <1>1, Asked
<1>3. Fields' /\ (reader' > 0 \/ writer' > 0)
  BY <1>0, <1>1, Asked
<1>4. waiter' = Cardinality(Waiting') /\ waiter' \in Nat
  <2>1. Cardinality(Waiting') = Cardinality(Waiting \ {t}) + (IF p = "idle" THEN 0 ELSE 1)
    BY <1>0, <1>2, WaitingChange
  <2> QED BY <1>1, <1>2, <2>1
<1>5. /\ at' \in [Threads -> {"before", "asleep", "woken"}]
      /\ at'[t] = "before" /\ \A u \in Threads \ {t} : at'[u] = at[u]
      /\ units' = units
  BY <1>0 DEF DownRead, DownWrite, Recheck, Waiters, InCall, MayAsk
<1>6. InCall'
  BY <1>0, <1>2, <1>5 DEF InCall, Waiters
<1>7. Waiters'
  BY <1>0, <1>2, <1>4, <1>5, <1>6 DEF Waiters
<1>8. Provided'
  BY <1>3 DEF Provided, Fields
<1> QED BY <1>3, <1>7, <1>8, IInvNext

LEMMA Tried ==
    ASSUME IInv, NEW t \in Threads, DownReadTrylock(t) \/ DownWriteTrylock(t)
    PROVE  IInv'
<1>0. Fields /\ Waiters
  BY IInvParts
<1>1. \/ TakeRead(t) /\ writer = 0
      \/ TakeWrite(t) /\ ((reader = 0 /\ writer = 0) \/ holder = t)
  BY <1>0 DEF DownReadTrylock, DownWriteTrylock, Fields
<1>2. Fields' /\ (reader' > 0 \/ writer' > 0)
  BY <1>0, <1>1, ReadTaken, WriteTaken
<1>3. Waiters'
  BY <1>0 DEF Waiters, Waiting, InCall, DownReadTrylock, DownWriteTrylock
<1>4. Provided'
  BY <1>2 DEF Provided, Fields
<1> QED BY <1>2, <1>3, <1>4, IInvNext

LEMMA Waited ==
    ASSUME IInv, NEW t \in Threads, Wait(t) \/ WaitSignal(t)
    PROVE  IInv'
<1>0. Fields /\ Waiters /\ Provided
  BY IInvParts
<1>1. Fields' /\ UNCHANGED <<reader, writer, waiter, pc>>
  BY <1>0 DEF Wait, WaitSignal, Fields, Owners, Sound
<1>2. CASE Wait(t) /\ units > 0
  <2>1. /\ t \in Before /\ Before' = Before \ {t} /\ Asleep' = Asleep
        /\ Waiting' = Waiting /\ InCall'
    BY <1>0, <1>2 DEF Wait, Before, Asleep, Waiting, InCall, Waiters
  <2>2. Cardinality(Before') = Cardinality(Before) - 1
    BY <2>1, WaitingFinite, FS_RemoveElement
  <2>3. units' = units - 1 /\ units' \in Nat /\ units \in Nat
    BY <1>0, <1>2 DEF Wait, Waiters
  <2>4. Provided'
    BY <1>0, <1>1, <2>1, <2>2, <2>3, WaitingFinite DEF Provided
  <2>5. Waiters'
    BY <1>0, <1>1, <1>2, <2>1, <2>3 DEF Waiters, Wait
  <2> QED BY <1>1, <2>4, <2>5, IInvNext
<1>3. CASE Wait(t) /\ ~(units > 0)
  <2>1. t \in Before /\ Waiting' = Waiting /\ InCall' /\ units = 0
    BY <1>0, <1>3 DEF Wait, Before, Waiting, InCall, Waiters
  <2>2. Cardinality(Before) > 0
    BY <2>1, WaitingFinite, FS_EmptySet
  <2>3. ~(reader = 0 /\ writer = 0)
    BY <1>0, <2>1, <2>2, WaitingFinite DEF Provided
  <2>4. Provided'
    BY <1>1, <2>3 DEF Provided
  <2>5. Waiters'
    BY <1>0, <1>1, <1>3, <2>1 DEF Waiters, Wait
  <2> QED BY <1>1, <2>4, <2>5, IInvNext
<1>4. CASE WaitSignal(t)
  <2>1. t \in Asleep /\ Waiting' = Waiting /\ InCall' /\ units' = units
    BY <1>0, <1>4 DEF WaitSignal, Asleep, Waiting, InCall, Waiters
  <2>2. Provided'
    BY <1>0, <1>1, <2>1 DEF Provided
  <2>3. Waiters'
    BY <1>0, <1>1, <1>4, <2>1 DEF Waiters, WaitSignal
  <2> QED BY <1>1, <2>2, <2>3, IInvNext
<1> QED BY <1>2, <1>3, <1>4

LEMMA Released ==
    ASSUME IInv, NEW t \in Threads, Release(t)
    PROVE  IInv'
<1>0. Fields /\ Waiters
  BY IInvParts
<1>1. CASE writes[t] > 0 /\ DropWrite(t)
  <2>1. Fields' /\ reader' = 0
    BY <1>0, <1>1, WriteDropped
  <2>2. CASE UpWait /\ UNCHANGED <<waiter, pc>>
    BY <1>0, <2>1, <2>2, AllWoken, IInvNext DEF Provided
  <2>3. CASE ~(writer' <= 0) /\ UNCHANGED <<units, at, waiter, pc>>
    <3>1. Waiters'
      BY <1>0, <2>3 DEF Waiters, Waiting, InCall
    <3>2. Provided'
      BY <2>1, <2>3 DEF Provided, Fields
    <3> QED BY <2>1, <3>1, <3>2, IInvNext
  <2> QED BY <1>1, <2>2, <2>3 DEF DropWrite
<1>2. CASE /\ reads[t] > 0
           /\ reader' = reader - 1
           /\ reads' = [reads EXCEPT ![t] = @ - 1]
           /\ IF reader' <= 0 THEN UpWait ELSE UNCHANGED <<units, at>>
           /\ UNCHANGED <<writer, waiter, holder, pc, writes>>
  <2>1. Fields' /\ writer' = 0
    BY <1>0, <1>2, ReadDropped
  <2>2. CASE UpWait
    BY <1>0, <1>2, <2>1, <2>2, AllWoken, IInvNext DEF Provided
  <2>3. CASE ~(reader' <= 0) /\ UNCHANGED <<units, at>>
    <3>1. Waiters'
      BY <1>0, <1>2, <2>3 DEF Waiters, Waiting, InCall
    <3>2. Provided'
      BY <2>1, <2>3 DEF Provided, Fields
    <3> QED BY <2>1, <3>1, <3>2, IInvNext
  <2> QED BY <1>2, <2>2, <2>3
<1>3. CASE DowngradeWrite(t)
  <2>1. Fields' /\ reader' > 0
    BY <1>0, <1>3, Downgraded
  <2>2. Waiters'
    BY <1>0, <1>3, AllWoken DEF DowngradeWrite
  <2> QED BY <2>1, <2>2, IInvNext DEF Provided
<1> QED BY <1>1, <1>2, <1>3 DEF Release, UpRead, UpWrite

(* The invariant holds at every time, whatever the threads do.             *)
THEOREM RwInductive == Spec => []IInv
<1>1. Init => IInv
  <2> SUFFICES ASSUME Init PROVE IInv
    OBVIOUS
  <2>1. \A f : f = [t \in Threads |-> 0] => Total(f) = 0
    <3>1. ASSUME NEW f, f = [t \in Threads |-> 0] PROVE Total(f) = 0
      <4>1. f \in [Threads -> Nat] /\ \A t \in Threads : f[t] = 0
        BY <3>1
      <4> QED BY <4>1, RwConstants, TotalNat
    <3> QED BY <3>1
  <2>2. Waiting = {} /\ Asleep = {} /\ Before = {}
    BY DEF Init, Waiting, Asleep, Before
  <2>3. TypeOK /\ Owners /\ Sound /\ InCall
    BY RwConstants DEF Init, TypeOK, Owners, Sound, InCall
  <2>4. Provided /\ waiter = Cardinality(Waiting)
    BY <2>2, FS_EmptySet DEF Init, Provided
  <2> QED BY <2>1, <2>3, <2>4 DEF Init, IInv
<1>2. IInv /\ [Next]_vars => IInv'
  <2> SUFFICES ASSUME IInv, [Next]_vars PROVE IInv'
    OBVIOUS
  <2>1. CASE UNCHANGED vars
    BY <2>1 DEF vars, IInv, TypeOK, Owners, Sound, InCall, Provided, Waiting, Asleep, Before
  <2>2. CASE Next
    BY <2>2, Looked, Tried, Waited, Released DEF Next
  <2> QED BY <2>1, <2>2
<1> QED BY <1>1, <1>2, PTL DEF Spec

(* A thread that waited and looks again gets the lock only when no other   *)
(* thread holds it, whatever happened since it was woken up.               *)
THEOREM WritersExclude == Spec => []Exclusion
<1>1. IInv => Exclusion
  <2> SUFFICES ASSUME IInv, NEW t \in Threads, NEW u \in Threads, writes[t] > 0, u # t
               PROVE  writes[u] = 0 /\ reads[u] = 0
    BY DEF Exclusion
  <2>1. Fields
    BY IInvParts
  <2>2. reader = 0
    BY <2>1, OneOwner
  <2>3. reads[u] = 0
    BY <2>1, <2>2, OneOwner
  <2>4. writes[u] = 0
    BY <2>1 DEF Fields, Owners
  <2> QED BY <2>3, <2>4
<1> QED BY <1>1, RwInductive, PTL

(* The counts of the lock are the sums of what the threads hold.           *)
THEOREM FieldsCorrect == Spec => []FieldsAgree
<1>1. IInv => FieldsAgree
  BY DEF IInv, FieldsAgree, Total, Owners, Waiting
<1> QED BY <1>1, RwInductive, PTL

(* No thread sleeps on a free lock.                                        *)
THEOREM WakeupsKept == Spec => []NoLostWakeup
<1>1. IInv => NoLostWakeup
  BY DEF IInv, Provided, NoLostWakeup
<1> QED BY <1>1, RwInductive, PTL
=============================================================================
