----------------------------- MODULE SearchTree -----------------------------
(***************************************************************************)
(* What a search tree keyed by price (rb.c) is to its caller: a function   *)
(* from the prices in it to their volumes.                                 *)
(***************************************************************************)
EXTENDS Integers, FiniteSetsExt, Functions

rb_replace(tree, price, volume) ==
  [p \in DOMAIN tree \cup {price} |-> IF p = price THEN volume ELSE tree[p]]
rb_delete(tree, price) == Restrict(tree, DOMAIN tree \ {price})
rb_t_last(tree) == Max(DOMAIN tree)
rb_t_first(tree) == Min(DOMAIN tree)

EmptyTree == [p \in {} |-> 0]
=============================================================================
