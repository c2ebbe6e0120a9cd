------------------------------ MODULE Pipeline ------------------------------
(***************************************************************************)
(* What the threads of the processor promise together, without the locks:  *)
(* the updates flow, in the order Update() was called, through two stages. *)
(* An update is inserted into its order book only after all the earlier    *)
(* ones were, and its sum is stored only after all the earlier sums were.  *)
(* Depth bounds the backlog: the call of Update() that would be Depth      *)
(* updates ahead of the oldest unfinished one does not return.             *)
(***************************************************************************)
EXTENDS Integers

CONSTANTS Count, Depth

VARIABLES
  issued,    (* number of calls of Update() that returned                    *)
  inserted,  (* the updates (numbered from 0) whose insertion is visible     *)
  summed     (* the updates whose sum is visible                             *)

vars == <<issued, inserted, summed>>

Init ==
  /\ issued = 0
  /\ inserted = {}
  /\ summed = {}

Issue ==
  /\ issued < Count
  /\ issued < Depth \/ issued - Depth \in summed
  /\ issued' = issued + 1
  /\ UNCHANGED <<inserted, summed>>

Insert(n) ==
  /\ n \notin inserted
  /\ 0 .. n - 1 \subseteq inserted
  /\ inserted' = inserted \cup {n}
  /\ UNCHANGED <<issued, summed>>

Sum(n) ==
  /\ n \in inserted \ summed
  /\ 0 .. n - 1 \subseteq summed
  /\ summed' = summed \cup {n}
  /\ UNCHANGED <<issued, inserted>>

Next ==
  \/ Issue
  \/ \E n \in 0 .. issued - 1 : Insert(n) \/ Sum(n)

Spec == Init /\ [][Next]_vars
=============================================================================
