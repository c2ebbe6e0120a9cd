-------------------------------- MODULE Sync --------------------------------
(***************************************************************************)
(* The two arrays of flags that order the worker threads (sync.h, the      *)
(* SPIN / FAS build selected in structures.h).                             *)
(*                                                                         *)
(* A flag is a fetch-and-store spinlock used as an event: TRUE is "locked" *)
(* (the update that owns the slot is not done), FALSE is "unlocked" (it is *)
(* done).  Nobody ever spins to take a lock: a waiter only reads the flag, *)
(* and locking is a trylock whose result is ignored, so "unset" is simply  *)
(* an atomic store of TRUE.                                                *)
(***************************************************************************)
EXTENDS Indices

VARIABLES
  order,      (* order[i]: the update of slot i has not finished inserting   *)
  order_sum   (* order_sum[i]: ... has not finished storing its sum          *)

(* Mistake: no flag is locked before the threads start.                    *)
SyncInit_Unlocked ==
  /\ order = [i \in Slots |-> FALSE]
  /\ order_sum = [i \in Slots |-> FALSE]

(* initialize_c_style locks every flag, then unlocks the last slot: it     *)
(* stands for the update before the first one.                             *)
SyncInit ==
  /\ order = [i \in Slots |-> i # HISTORY_SIZE - 1]
  /\ order_sum = [i \in Slots |-> i # HISTORY_SIZE - 1]

wait_until_set_order(index) == ~order[index]
wait_until_set_order_sum(index) == ~order_sum[index]

sync_set_order(index) == order' = [order EXCEPT ![index] = FALSE]
sync_unset_order(index) == order' = [order EXCEPT ![index] = TRUE]

sync_set_order_sum(index) == order_sum' = [order_sum EXCEPT ![index] = FALSE]
sync_unset_order_sum(index) == order_sum' = [order_sum EXCEPT ![index] = TRUE]

SyncTypeOK ==
  /\ order \in [Slots -> BOOLEAN]
  /\ order_sum \in [Slots -> BOOLEAN]
=============================================================================
