------------------------------ MODULE PriceTree ------------------------------
(***************************************************************************)
(* The abstract specification of the red-black tree: offers are entered    *)
(* and withdrawn, and its two ends can be read at any time.                *)
(***************************************************************************)
EXTENDS SearchTree

CONSTANTS Prices, Volumes

VARIABLES
  tree,    (* the volume of each price in the tree                           *)
  ends     (* the lowest and the highest price, or {} of an empty tree       *)

EndsOf(t) == IF DOMAIN t = {} THEN {} ELSE {rb_t_first(t), rb_t_last(t)}

Init == tree = EmptyTree /\ ends = {}

Enter(p, v) ==
  LET entered == rb_replace(tree, p, v) IN
  tree' = entered /\ ends' = EndsOf(entered)

(* Only an offer whose volume was entered as 0 is withdrawn.               *)
Withdraw(p) ==
  /\ p \in DOMAIN tree /\ tree[p] = 0
  /\ tree' = rb_delete(tree, p)
  /\ ends' = EndsOf(tree')

Next ==
  \E p \in Prices :
    \/ Withdraw(p)
    \/ \E v \in Volumes : Enter(p, v)

Spec == Init /\ [][Next]_<<tree, ends>>
=============================================================================
