------------------------------- MODULE Table -------------------------------
(***************************************************************************)
(* The order book of one instrument (table.h): for each side a red-black   *)
(* tree of prices, the best price with its volume, and a circular history  *)
(* with the best offer as it was after each update of the instrument.      *)
(*                                                                         *)
(* The tree is the function of SearchTree, which RbTree implements.        *)
(***************************************************************************)
EXTENDS Indices, SearchTree

CONSTANTS
  INT_MAX,               (* stands for "no ask"                              *)
  PriceSet, VolumeSet    (* what Update() may be called with                 *)

ASSUME OffersAssumption ==
  /\ INT_MAX \in Nat
  /\ PriceSet \subseteq 1 .. INT_MAX
  /\ VolumeSet \subseteq Nat

(* A tree holds the volume of every offer that stands, never a volume 0.   *)
Trees == UNION {[prices -> VolumeSet \ {0}] : prices \in SUBSET PriceSet}

(* The two sides of a book, with slots that show volumes of the given set. *)
BidBooks(volumes) ==
  [price_bid : 0 .. INT_MAX, vol_bid : VolumeSet \cup {0}, tree : Trees,
   history : [SpecificSlots -> [price_bid : 0 .. INT_MAX, vol_bid : volumes]]]
AskBooks(volumes) ==
  [price_ask : 0 .. INT_MAX, vol_ask : VolumeSet \cup {0}, tree : Trees,
   history : [SpecificSlots -> volumes]]

(* Mistake: an offer of volume 0 stays in the tree.                        *)
TreeAfter_KeepsEmpty(tree, volume, price) == rb_replace(tree, price, volume)

(* Volume 0 takes the price out of the book.                               *)
TreeAfter(tree, volume, price) ==
  LET replaced == rb_replace(tree, price, volume) IN
  IF volume = 0 THEN rb_delete(replaced, price) ELSE replaced

(* The best offers, as the book keeps them beside its trees.               *)
CachedBid(bids) == [price_bid |-> bids.price_bid, vol_bid |-> bids.vol_bid]
CachedAsk(asks) == [price_ask |-> asks.price_ask, vol_ask |-> asks.vol_ask]

NoBid == [price_bid |-> 0, vol_bid |-> 0]
NoAsk == [price_ask |-> INT_MAX, vol_ask |-> 0]
-----------------------------------------------------------------------------
(* The three outcomes of an insertion: the best offer was withdrawn, the   *)
(* new offer is the best, or the best offer stays what it was.             *)
BidWithdrawn(bids, volume, price) == volume = 0 /\ price = bids.price_bid
BidImproved(bids, volume, price) == volume # 0 /\ price >= bids.price_bid
BidKept(bids, volume, price) ==
  ~BidWithdrawn(bids, volume, price) /\ ~BidImproved(bids, volume, price)

HighestBid(tree) ==
  IF DOMAIN tree = {} THEN NoBid
  ELSE [price_bid |-> rb_t_last(tree), vol_bid |-> tree[rb_t_last(tree)]]

(* The code between taking and releasing the flag in bids_insert.  "last"  *)
(* is what it read from the previous slot, if the best offer was kept.     *)
bids_insert(bids, specific_index, volume, price, last) ==
  LET tree == TreeAfter(bids.tree, volume, price)
      best ==
        IF BidWithdrawn(bids, volume, price) THEN HighestBid(tree)
        ELSE IF BidImproved(bids, volume, price)
        THEN [price_bid |-> price, vol_bid |-> volume]
        ELSE [price_bid |-> bids.price_bid, vol_bid |-> bids.vol_bid]
      shown == IF BidKept(bids, volume, price) THEN last ELSE best
  IN [price_bid |-> best.price_bid, vol_bid |-> best.vol_bid, tree |-> tree,
      history |-> [bids.history EXCEPT ![specific_index] = shown]]

AskWithdrawn(asks, volume, price) == volume = 0 /\ price = asks.price_ask
(* Mistake: a new volume at the best price is not taken for the best.      *)
AskImproved_Strictly(asks, volume, price) == volume # 0 /\ price < asks.price_ask
AskImproved(asks, volume, price) == volume # 0 /\ price <= asks.price_ask

LowestAsk(tree) ==
  IF DOMAIN tree = {} THEN NoAsk
  ELSE [price_ask |-> rb_t_first(tree), vol_ask |-> tree[rb_t_first(tree)]]

(* asks_insert.  The slot it copies from is not the same expression in the *)
(* two branches: the last one reduces modulo the wrong array's size.       *)
asks_insert(asks, specific_index, volume, price) ==
  LET tree == TreeAfter(asks.tree, volume, price)
      best ==
        IF AskWithdrawn(asks, volume, price) THEN LowestAsk(tree)
        ELSE IF AskImproved(asks, volume, price)
        THEN [price_ask |-> price, vol_ask |-> volume]
        ELSE [price_ask |-> asks.price_ask, vol_ask |-> asks.vol_ask]
      shown ==
        IF AskWithdrawn(asks, volume, price) \/ AskImproved(asks, volume, price)
        THEN best.vol_ask
        ELSE IF volume = 0
        THEN asks.history[prev_index_spec(specific_index)]
        ELSE asks.history[prev_index(specific_index)]
  IN [price_ask |-> best.price_ask, vol_ask |-> best.vol_ask, tree |-> tree,
      history |-> [asks.history EXCEPT ![specific_index] = shown]]
-----------------------------------------------------------------------------
(* initialize_c_style: empty trees, nothing on offer.  It clears only the  *)
(* first HISTORY_SIZE slots of the instrument's histories; further ones    *)
(* hold what malloc left in the memory.                                    *)
Cleared(k) == k < HISTORY_SIZE

EmptyBids(left) ==
  [price_bid |-> 0, vol_bid |-> 0, tree |-> EmptyTree,
   history |-> [k \in SpecificSlots |->
     IF Cleared(k) THEN NoBid ELSE [price_bid |-> left, vol_bid |-> left]]]

EmptyAsks(left) ==
  [price_ask |-> INT_MAX, vol_ask |-> 0, tree |-> EmptyTree,
   history |-> [k \in SpecificSlots |-> IF Cleared(k) THEN 0 ELSE left]]
=============================================================================
