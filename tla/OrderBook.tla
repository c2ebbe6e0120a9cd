----------------------------- MODULE OrderBook -----------------------------
(***************************************************************************)
(* One instrument's book under a sequence of updates that do not overlap:  *)
(* insert_data (worker.cc) run to its end before the next one starts.      *)
(* Unlike Processor this has no bound on the number of updates.            *)
(***************************************************************************)
EXTENDS Table

ASSUME EqualSizesAssumption == HISTORY_SIZE = SPECIFIC_HISTORY_SIZE

VARIABLES
  bids, asks,      (* the two sides of the book                              *)
  specific_index   (* the slot of the next update                            *)

vars == <<bids, asks, specific_index>>

(* The sizes are equal, so every slot is cleared.                          *)
Init ==
  /\ bids = EmptyBids(0)
  /\ asks = EmptyAsks(0)
  /\ specific_index = 0

LastSlot == prev_index_spec(specific_index)

Advance == specific_index' = (specific_index + 1) % SPECIFIC_HISTORY_SIZE

(* Mistake: the other side's history is not carried over.                  *)
insert_bid_NoCopy(price, volume) ==
  /\ bids' = bids_insert(bids, specific_index, volume, price, bids.history[LastSlot])
  /\ UNCHANGED asks
  /\ Advance

insert_bid(price, volume) ==
  /\ bids' = bids_insert(bids, specific_index, volume, price, bids.history[LastSlot])
  /\ asks' = [asks EXCEPT !.history[specific_index] = asks.history[LastSlot]]
  /\ Advance

insert_ask(price, volume) ==
  /\ asks' = asks_insert(asks, specific_index, volume, price)
  /\ bids' = [bids EXCEPT !.history[specific_index] = bids.history[LastSlot]]
  /\ Advance

Next ==
  \E price \in PriceSet, volume \in VolumeSet :
    insert_bid(price, volume) \/ insert_ask(price, volume)

Spec == Init /\ [][Next]_vars
-----------------------------------------------------------------------------
TypeOK ==
  /\ specific_index \in SpecificSlots
  /\ bids \in BidBooks(VolumeSet \cup {0})
  /\ asks \in AskBooks(VolumeSet \cup {0})

(* The cached best offer is the best price in the tree, also right after   *)
(* the best price was withdrawn; without offers it is the initial one.     *)
BestIsCached ==
  /\ CachedBid(bids) = HighestBid(bids.tree)
  /\ CachedAsk(asks) = LowestAsk(asks.tree)

(* The inductive invariant: what a kept best offer is copied from, the     *)
(* slot of the instrument's last update, is the cached best offer.         *)
LastSlotShowsBest ==
  /\ bids.history[LastSlot] = CachedBid(bids)
  /\ asks.history[LastSlot] = asks.vol_ask

IInv ==
  /\ TypeOK
  /\ BestIsCached
  /\ LastSlotShowsBest

(* The history slots of the last update, on both sides, show a depth book  *)
(* after the same updates: no update of one side makes the other's history *)
(* lose or invent an offer.                                                *)
VolumesOf(tree) == [p \in PriceSet |-> IF p \in DOMAIN tree THEN tree[p] ELSE 0]

DepthOf == INSTANCE MarketDepth WITH
  bid <- VolumesOf(bids.tree),
  ask <- VolumesOf(asks.tree),
  shown <- [pricebid |-> bids.history[LastSlot].price_bid,
            volbid |-> bids.history[LastSlot].vol_bid,
            volask |-> asks.history[LastSlot]]

ImplementsDepth == DepthOf!Spec
=============================================================================
