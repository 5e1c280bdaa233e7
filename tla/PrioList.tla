------------------------------ MODULE PrioList ------------------------------
(***************************************************************************)
(* The prioritized TCB lists of the NuttX scheduler: the wait lists of     *)
(* semaphores, the ready-to-run list and the pending list.  A list is a    *)
(* sequence of threads in descending order of sched_priority; threads of   *)
(* equal priority stand in the order in which they were added.             *)
(*                                                                         *)
(* The doubly linked list of include/nuttx/queue.h is abstracted to the    *)
(* sequence of its nodes.                                                  *)
(***************************************************************************)
EXTENDS Integers, SequencesExt

(* Mutant of InsertPos: the walk stops before a thread of equal priority.  *)
InsertPos_BeforeEqual(list, prio, p) ==
    CHOOSE i \in 1 .. Len(list) + 1 :
        /\ \A j \in 1 .. i - 1 : p < prio[list[j]]
        /\ i <= Len(list) => prio[list[i]] <= p

(* The place nxsched_add_prioritized() finds: it walks past every thread   *)
(* whose priority is not below p and stops before the first lower one.     *)
InsertPos(list, prio, p) ==
    CHOOSE i \in 1 .. Len(list) + 1 :
        /\ \A j \in 1 .. i - 1 : p <= prio[list[j]]
        /\ i <= Len(list) => prio[list[i]] < p

(* nxsched_add_prioritized(tcb, list)                                      *)
AddPrioritized(list, t, prio) ==
    InsertAt(list, InsertPos(list, prio, prio[t]), t)

(* The index of a thread that is in the list.                              *)
IndexOf(list, t) == CHOOSE i \in 1 .. Len(list) : list[i] = t

(* dq_rem(tcb, list), for a tcb that is in the list.                       *)
DqRem(list, t) == RemoveAt(list, IndexOf(list, t))

(* Descending order of priority.                                           *)
IsPrioritized(list, prio) ==
    \A i, j \in 1 .. Len(list) : i < j => prio[list[j]] <= prio[list[i]]

(* No thread stands twice in the list.                                     *)
NoDuplicates(list) ==
    \A i, j \in 1 .. Len(list) : list[i] = list[j] => i = j
=============================================================================
