----------------------------- MODULE TwoWorkers -----------------------------
(***************************************************************************)
(* OrderChain for the thread count the source ships (structures.h:         *)
(* THREAD_COUNT 2), and the inductive invariant that shows it orders the   *)
(* updates.                                                                *)
(*                                                                         *)
(* A flag still carries the verdict of the previous lap until the worker   *)
(* of the update before it locks it ("unset next").  With two workers no   *)
(* one can look at the flag in that window: the only thread free to look   *)
(* is held up by the very update in the window.  With three workers it is  *)
(* not, and with three slots a worker one lap ahead locks a flag that is   *)
(* still to be read; hence the two assumptions.                            *)
(***************************************************************************)
EXTENDS OrderChain

ASSUME TwoWorkersAssumption ==
  /\ \A a, b, c \in Workers : a = b \/ a = c \/ b = c
  /\ HISTORY_SIZE >= 4

(* The worker of update n has not yet locked the flag of update n + 1.     *)
NextOrderStale == {"unset_next_order"}
NextSumStale == {"unset_next_order", "unset_next_sum"}
BeforeInsertCS == {"unset_next_order", "unset_next_sum", "wait_order"}

(* The ring holds exactly the updates issued and not yet taken, in order.  *)
RingInOrder ==
  \A j \in 1 .. Len(ring) : ring[j] = Taken + j - 1

(* The updates in the workers' hands are the last one or two taken, each   *)
(* in one worker's hands, and the older is never the only one.             *)
WindowOfTwo ==
  /\ \A w \in Workers : pc[w] # "dequeue" =>
       /\ local_data[w] >= 0
       /\ local_data[w] \in {Taken - 1, Taken - 2}
  /\ \A v, w \in Workers :
       v # w /\ pc[v] # "dequeue" => ~Holds(w, local_data[v])
  /\ \A w \in Workers : Holds(w, Taken - 2) =>
       \E v \in Workers : Holds(v, Taken - 1)

(* The newer of two updates has not passed a gate the older still holds.   *)
GatesHold ==
  \A v, w \in Workers : pc[w] # "dequeue" /\ Holds(v, local_data[w] - 1) =>
    /\ pc[v] \in NotInserted => pc[w] \in BeforeInsertCS
    /\ pc[w] \notin SumCS

(* The flag of an update in hand, or of the next one, is locked until that *)
(* update is done, once the worker of its predecessor has locked it.       *)
OrderLocked ==
  \A w \in Workers : pc[w] \in NotInserted =>
    \/ order[Own(w)]
    \/ \E v \in Workers : Holds(v, local_data[w] - 1) /\ pc[v] \in NextOrderStale
NextOrderLocked ==
  \/ order[OrderIndex(Taken)]
  \/ \E v \in Workers : Holds(v, Taken - 1) /\ pc[v] \in NextOrderStale
SumLocked ==
  \A w \in Workers : pc[w] # "dequeue" =>
    \/ order_sum[Own(w)]
    \/ \E v \in Workers : Holds(v, local_data[w] - 1) /\ pc[v] \in NextSumStale
NextSumLocked ==
  \/ order_sum[OrderIndex(Taken)]
  \/ \E v \in Workers : Holds(v, Taken - 1) /\ pc[v] \in NextSumStale

(* A flag is unlocked from the moment its update is done until the next    *)
(* update's worker has read it.                                            *)
OrderReleased ==
  \A w \in Workers : pc[w] \in BeforeInsertCS /\ IsInserted(local_data[w] - 1) =>
    ~order[OrderIndex(local_data[w] - 1)]
LastOrderReleased ==
  IsInserted(Taken - 1) => ~order[OrderIndex(Taken - 1)]
SumReleased ==
  \A w \in Workers :
    pc[w] \notin {"dequeue"} \cup SumCS /\ IsSummed(local_data[w] - 1) =>
      ~order_sum[OrderIndex(local_data[w] - 1)]
LastSumReleased ==
  IsSummed(Taken - 1) => ~order_sum[OrderIndex(Taken - 1)]

FlagsTruthful ==
  /\ OrderLocked /\ NextOrderLocked /\ SumLocked /\ NextSumLocked
  /\ OrderReleased /\ LastOrderReleased /\ SumReleased /\ LastSumReleased

IInv ==
  /\ TypeOK
  /\ RingInOrder
  /\ WindowOfTwo
  /\ GatesHold
  /\ FlagsTruthful
=============================================================================
