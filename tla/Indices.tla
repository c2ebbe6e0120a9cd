------------------------------- MODULE Indices -------------------------------
(***************************************************************************)
(* Index arithmetic of the circular histories (helpers.h, structures.h).   *)
(*                                                                         *)
(* Every array shared by the threads is circular.  Its indices are C       *)
(* unsigned ints: they wrap modulo UINT_RANGE before they are reduced      *)
(* modulo the size of the array, so stepping back from slot 0 lands on     *)
(* the last slot only because the array size divides UINT_RANGE.           *)
(***************************************************************************)
EXTENDS Integers

CONSTANTS
  HISTORY_SIZE,           (* slots of order, order_sum and sum_history       *)
  SPECIFIC_HISTORY_SIZE,  (* slots of each per-instrument history            *)
  UINT_RANGE              (* number of values of unsigned int, 2^32          *)

ASSUME SizesAssumption ==
  /\ HISTORY_SIZE \in Nat \ {0}
  /\ SPECIFIC_HISTORY_SIZE \in Nat \ {0}
  /\ UINT_RANGE \in Nat \ {0}
  /\ UINT_RANGE % HISTORY_SIZE = 0
  /\ UINT_RANGE % SPECIFIC_HISTORY_SIZE = 0

Slots == 0 .. HISTORY_SIZE - 1
SpecificSlots == 0 .. SPECIFIC_HISTORY_SIZE - 1

Unsigned(i) == i % UINT_RANGE

prev_index(index) == Unsigned(index - 1) % HISTORY_SIZE
next_index(index) == Unsigned(index + 1) % HISTORY_SIZE
prev_index_spec(index) == Unsigned(index - 1) % SPECIFIC_HISTORY_SIZE

(***************************************************************************)
(* What Update() stores for its n-th call (n = 0, 1, ...): the global      *)
(* counter is an unsigned int that starts at 0 and is incremented once per *)
(* call, so its value in that call is Unsigned(n).                         *)
(***************************************************************************)
OrderIndex(n) == Unsigned(n) % HISTORY_SIZE
=============================================================================
