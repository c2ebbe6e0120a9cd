----------------------------- MODULE OrderChain -----------------------------
(***************************************************************************)
(* The concurrency control of the processor: one producer (the thread that *)
(* calls Update(), worker.h), a single-producer multiple-consumer ring     *)
(* buffer, and THREAD_COUNT worker threads (worker_start, worker.cc) that  *)
(* serialise their work on each update with the flags of Sync.             *)
(*                                                                         *)
(* This module has the control of every thread: each of its actions is one *)
(* access to the flags or one stretch of code between two such accesses.   *)
(* What the stretches do to the books and sums is in module Processor.     *)
(*                                                                         *)
(* Updates are numbered 0, 1, ... in the order of the calls; slot          *)
(* OrderIndex(n) of the circular arrays belongs to update n.               *)
(*                                                                         *)
(* The modelled interval is from the start barrier on (init.cc:140); the   *)
(* flag "running" is 1 throughout it.                                      *)
(***************************************************************************)
EXTENDS Sync, Sequences, FiniteSets

CONSTANTS
  Workers,      (* the worker threads, THREAD_COUNT of them                  *)
  BUFFER_SIZE,  (* slots of the ring buffer                                  *)
  Count         (* number of updates the driver feeds (main.cc: data_count)  *)

ASSUME ChainAssumption ==
  /\ Workers # {}
  /\ BUFFER_SIZE \in Nat \ {0, 1}
  /\ Count \in Nat

VARIABLES
  issued,      (* calls of Update() so far: the counter order_index          *)
  ring,        (* the updates in the ring buffer, oldest first               *)
  pc,          (* control point of each worker                               *)
  local_data   (* the update each worker dequeued last; -1 is NULL           *)

syncVars == <<order, order_sum>>
chainVars == <<issued, ring, pc, local_data, order, order_sum>>

(* Control points, in the order a worker passes them for one update.       *)
Stages == {"dequeue", "unset_next_order", "unset_next_sum", "wait_order",
           "unset_own_order", "insert", "set_order", "copy", "load",
           "wait_sum", "unset_own_sum", "sum", "set_sum"}

NotInserted == {"unset_next_order", "unset_next_sum", "wait_order",
                "unset_own_order", "insert", "set_order"}
InsertCS == {"unset_own_order", "insert", "set_order"}
SumCS == {"unset_own_sum", "sum", "set_sum"}

Goto(w, from, to) ==
  /\ pc[w] = from
  /\ pc' = [pc EXCEPT ![w] = to]

Own(w) == OrderIndex(local_data[w])

(* Mistake: the ring is used to its last slot.                             *)
RingFull_LastSlot == Len(ring) >= BUFFER_SIZE

(* A ck_ring of n slots holds n - 1 entries: full is "one slot left".      *)
RingFull == Len(ring) >= BUFFER_SIZE - 1
RingEmpty == ring = << >>
-----------------------------------------------------------------------------
Init ==
  /\ SyncInit
  /\ issued = 0
  /\ ring = << >>
  /\ pc = [w \in Workers |-> "dequeue"]
  /\ local_data = [w \in Workers |-> -1]

(***************************************************************************)
(* update_c_style: number the update and enqueue it.  The call spins while *)
(* the ring is full; the counter it increments before spinning is read by  *)
(* no other thread, so numbering and enqueueing are one step.              *)
(***************************************************************************)
Update ==
  /\ issued < Count
  /\ ~RingFull
  /\ ring' = Append(ring, issued)
  /\ issued' = issued + 1
  /\ UNCHANGED <<pc, local_data, syncVars>>

(* The loop around ck_ring_dequeue_spmc: at most one worker gets an entry. *)
Dequeue(w) ==
  /\ Goto(w, "dequeue", "unset_next_order")
  /\ ~RingEmpty
  /\ local_data' = [local_data EXCEPT ![w] = Head(ring)]
  /\ ring' = Tail(ring)
  /\ UNCHANGED <<issued, syncVars>>

UnsetNextOrder(w) ==
  /\ Goto(w, "unset_next_order", "unset_next_sum")
  /\ sync_unset_order(next_index(Own(w)))
  /\ UNCHANGED <<issued, ring, local_data, order_sum>>

(* Mistake: the order flag is locked twice, the sum flag not at all.       *)
UnsetNextSum_OrderTwice(w) ==
  /\ Goto(w, "unset_next_sum", "wait_order")
  /\ sync_unset_order(next_index(Own(w)))
  /\ UNCHANGED <<issued, ring, local_data, order_sum>>

UnsetNextSum(w) ==
  /\ Goto(w, "unset_next_sum", "wait_order")
  /\ sync_unset_order_sum(next_index(Own(w)))
  /\ UNCHANGED <<issued, ring, local_data, order>>

(* Mistake: no wait for the previous update.                               *)
WaitOrder_Skipped(w) ==
  /\ Goto(w, "wait_order", "unset_own_order")
  /\ UNCHANGED <<issued, ring, local_data, syncVars>>

WaitOrder(w) ==
  /\ Goto(w, "wait_order", "unset_own_order")
  /\ wait_until_set_order(prev_index(Own(w)))
  /\ UNCHANGED <<issued, ring, local_data, syncVars>>

UnsetOwnOrder(w) ==
  /\ Goto(w, "unset_own_order", "insert")
  /\ sync_unset_order(Own(w))
  /\ UNCHANGED <<issued, ring, local_data, order_sum>>

(* bids_insert / asks_insert: the book and the history slot of this side.  *)
Insert(w) ==
  /\ Goto(w, "insert", "set_order")
  /\ UNCHANGED <<issued, ring, local_data, syncVars>>

(* Mistake: the flag is not released.                                      *)
SetOrder_Forgotten(w) ==
  /\ Goto(w, "set_order", "copy")
  /\ UNCHANGED <<issued, ring, local_data, syncVars>>

SetOrder(w) ==
  /\ Goto(w, "set_order", "copy")
  /\ sync_set_order(Own(w))
  /\ UNCHANGED <<issued, ring, local_data, order_sum>>

(* insert_data: carry the other side's history over to this update's slot. *)
Copy(w) ==
  /\ Goto(w, "copy", "load")
  /\ UNCHANGED <<issued, ring, local_data, syncVars>>

(* worker_start: read back the prices; answer at once if one is missing.   *)
Load(w) ==
  /\ Goto(w, "load", "wait_sum")
  /\ UNCHANGED <<issued, ring, local_data, syncVars>>

(* Mistake: the wait is on the flag of the insertion.                      *)
WaitSum_OnOrder(w) ==
  /\ Goto(w, "wait_sum", "unset_own_sum")
  /\ wait_until_set_order(prev_index(Own(w)))
  /\ UNCHANGED <<issued, ring, local_data, syncVars>>

WaitSum(w) ==
  /\ Goto(w, "wait_sum", "unset_own_sum")
  /\ wait_until_set_order_sum(prev_index(Own(w)))
  /\ UNCHANGED <<issued, ring, local_data, syncVars>>

UnsetOwnSum(w) ==
  /\ Goto(w, "unset_own_sum", "sum")
  /\ sync_unset_order_sum(Own(w))
  /\ UNCHANGED <<issued, ring, local_data, order>>

(* compute_return_fp_i or history_shift: the sums of this update's slot.   *)
Sum(w) ==
  /\ Goto(w, "sum", "set_sum")
  /\ UNCHANGED <<issued, ring, local_data, syncVars>>

(* Mistake: the branch without a release, as after an early "continue".    *)
SetSum_Forgotten(w) ==
  /\ Goto(w, "set_sum", "dequeue")
  /\ UNCHANGED <<issued, ring, local_data, syncVars>>

SetSum(w) ==
  /\ Goto(w, "set_sum", "dequeue")
  /\ sync_set_order_sum(Own(w))
  /\ UNCHANGED <<issued, ring, local_data, order>>

Worker(w) ==
  \/ Dequeue(w) \/ UnsetNextOrder(w) \/ UnsetNextSum(w)
  \/ WaitOrder(w) \/ UnsetOwnOrder(w) \/ Insert(w) \/ SetOrder(w)
  \/ Copy(w) \/ Load(w)
  \/ WaitSum(w) \/ UnsetOwnSum(w) \/ Sum(w) \/ SetSum(w)

(* The driver is done and every worker spins on the empty ring: main is in *)
(* sleep(30), after which the process exits.                               *)
Drained ==
  /\ issued = Count
  /\ RingEmpty
  /\ \A w \in Workers : pc[w] = "dequeue"
  /\ UNCHANGED chainVars

Next ==
  \/ Update
  \/ \E w \in Workers : Worker(w)
  \/ Drained

(* Every thread is a running OS thread that never blocks: it spins.  So a  *)
(* thread whose next step stays possible eventually takes it.              *)
Fairness ==
  /\ WF_chainVars(Update)
  /\ \A w \in Workers : WF_chainVars(Worker(w))

Spec == Init /\ [][Next]_chainVars
FairSpec == Spec /\ Fairness
-----------------------------------------------------------------------------
(* Vocabulary of the properties.                                           *)
Taken == issued - Len(ring)

Holds(w, n) == pc[w] # "dequeue" /\ local_data[w] = n

IsInserted(n) ==
  /\ n < Taken
  /\ \A w \in Workers : Holds(w, n) => pc[w] \notin NotInserted

IsSummed(n) ==
  /\ n < Taken
  /\ \A w \in Workers : ~Holds(w, n)

TypeOK ==
  /\ SyncTypeOK
  /\ issued \in 0 .. Count
  /\ ring \in Seq(0 .. Count - 1)
  /\ Len(ring) <= BUFFER_SIZE - 1
  /\ pc \in [Workers -> Stages]
  /\ local_data \in [Workers -> -1 .. Count - 1]

(* "Wait until previous data is inserted" (table.h:19): a worker changes   *)
(* an order book only when every earlier update is already in its book.    *)
InsertionInOrder ==
  \A w \in Workers : pc[w] \in InsertCS =>
    \A n \in 0 .. local_data[w] - 1 : IsInserted(n)

(* "Wait until previous threads store their sums" (worker.cc:134): a       *)
(* worker touches the running sum only when every earlier sum is stored.   *)
SumInOrder ==
  \A w \in Workers : pc[w] \in SumCS =>
    \A n \in 0 .. local_data[w] - 1 : IsSummed(n)

(* No release is lost: while a worker spins, the flag it spins on is       *)
(* unlocked as soon as its predecessor is done.  It fails when the slot is *)
(* locked again for the update one lap later before the waiter saw it.     *)
NoLostRelease ==
  \A w \in Workers :
    /\ pc[w] = "wait_order" /\ IsInserted(local_data[w] - 1)
         => wait_until_set_order(prev_index(Own(w)))
    /\ pc[w] = "wait_sum" /\ IsSummed(local_data[w] - 1)
         => wait_until_set_order_sum(prev_index(Own(w)))

(* Every update the producer handed over is eventually worked off: no      *)
(* schedule of the spinning threads leaves it waiting forever.             *)
EveryUpdateSummed ==
  \A n \in 0 .. Count - 1 : issued > n ~> IsSummed(n)

(* The locks implement the two-stage pipeline.                             *)
PipelineOf == INSTANCE Pipeline WITH
  Depth <- BUFFER_SIZE - 1 + Cardinality(Workers),
  inserted <- {n \in 0 .. issued - 1 : IsInserted(n)},
  summed <- {n \in 0 .. issued - 1 : IsSummed(n)}

ImplementsPipeline == PipelineOf!Spec
=============================================================================
