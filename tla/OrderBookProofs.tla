-------------------------- MODULE OrderBookProofs --------------------------
(***************************************************************************)
(* Why the book of an instrument shows what a depth book shows, for every  *)
(* set of prices and volumes and every history size: the best offer is     *)
(* cached correctly, whatever is offered and withdrawn, and the slot of    *)
(* the last update holds it.                                               *)
(***************************************************************************)
EXTENDS OrderBook, TableProofs

(* An update of the bids keeps the invariant, and is an update of that     *)
(* side's tree alone.                                                      *)
LEMMA InsertBidKeeps ==
  ASSUME IInv, NEW price \in PriceSet, NEW volume \in VolumeSet, insert_bid(price, volume)
  PROVE  /\ IInv'
         /\ bids'.tree = TreeAfter(bids.tree, volume, price)
         /\ asks'.tree = asks.tree
<1> DEFINE k == specific_index
<1>1. /\ k \in SpecificSlots /\ bids \in BidBooks(VolumeSet \cup {0}) /\ asks \in AskBooks(VolumeSet \cup {0})
      /\ CachedBid(bids) = HighestBid(bids.tree) /\ bids.history[LastSlot] = CachedBid(bids)
  BY DEF IInv, TypeOK, BestIsCached, LastSlotShowsBest, CachedBid
<1>2. LastSlot \in SpecificSlots /\ specific_index' \in SpecificSlots /\ LastSlot' = k
  BY <1>1, LastSlotIsOwn DEF insert_bid, Advance, LastSlot
<1>3. /\ bids' \in BidBooks(VolumeSet \cup {0})
      /\ bids'.tree = TreeAfter(bids.tree, volume, price)
      /\ CachedBid(bids') = HighestBid(bids'.tree)
      /\ bids'.history[k] = CachedBid(bids')
  <2>1. bids.history[LastSlot] \in [price_bid : 0 .. INT_MAX, vol_bid : VolumeSet \cup {0}]
    BY <1>1, <1>2 DEF BidBooks
  <2>2. QED
    BY <1>1, <2>1, BidsInsert DEF insert_bid
<1>4. /\ asks' \in AskBooks(VolumeSet \cup {0})
      /\ asks'.tree = asks.tree
      /\ asks'.price_ask = asks.price_ask /\ asks'.vol_ask = asks.vol_ask
      /\ asks'.history[k] = asks.history[LastSlot]
  BY <1>1, <1>2 DEF insert_bid, AskBooks
<1>5. TypeOK'
  BY <1>2, <1>3, <1>4 DEF TypeOK
<1>6. BestIsCached'
  BY <1>3, <1>4 DEF BestIsCached, CachedBid, CachedAsk, IInv
<1>7. LastSlotShowsBest'
  BY <1>2, <1>3, <1>4 DEF LastSlotShowsBest, CachedBid, IInv
<1>8. QED
  BY <1>3, <1>4, <1>5, <1>6, <1>7 DEF IInv

(* The same for an update of the asks.                                     *)
LEMMA InsertAskKeeps ==
  ASSUME IInv, NEW price \in PriceSet, NEW volume \in VolumeSet, insert_ask(price, volume)
  PROVE  /\ IInv'
         /\ asks'.tree = TreeAfter(asks.tree, volume, price)
         /\ bids'.tree = bids.tree
<1> DEFINE k == specific_index
<1>1. /\ k \in SpecificSlots /\ bids \in BidBooks(VolumeSet \cup {0}) /\ asks \in AskBooks(VolumeSet \cup {0})
      /\ CachedAsk(asks) = LowestAsk(asks.tree) /\ asks.history[LastSlot] = asks.vol_ask
  BY DEF IInv, TypeOK, BestIsCached, LastSlotShowsBest, CachedAsk
<1>2. LastSlot \in SpecificSlots /\ specific_index' \in SpecificSlots /\ LastSlot' = k
  BY <1>1, LastSlotIsOwn DEF insert_ask, Advance, LastSlot
<1>3. /\ asks' \in AskBooks(VolumeSet \cup {0})
      /\ asks'.tree = TreeAfter(asks.tree, volume, price)
      /\ CachedAsk(asks') = LowestAsk(asks'.tree)
      /\ asks'.history[k] = asks'.vol_ask
  BY <1>1, AsksInsert, EqualSizesAssumption, SizesAssumption DEF insert_ask, LastSlot
<1>4. /\ bids' \in BidBooks(VolumeSet \cup {0})
      /\ bids'.tree = bids.tree
      /\ bids'.price_bid = bids.price_bid /\ bids'.vol_bid = bids.vol_bid
      /\ bids'.history[k] = bids.history[LastSlot]
  BY <1>1, <1>2 DEF insert_ask, BidBooks
<1>5. TypeOK'
  BY <1>2, <1>3, <1>4 DEF TypeOK
<1>6. BestIsCached'
  BY <1>3, <1>4 DEF BestIsCached, CachedBid, CachedAsk, IInv
<1>7. LastSlotShowsBest'
  BY <1>2, <1>3, <1>4 DEF LastSlotShowsBest, CachedBid, IInv
<1>8. QED
  BY <1>3, <1>4, <1>5, <1>6, <1>7 DEF IInv

(* initialize_c_style leaves an empty book, and shows that it is empty.    *)
LEMMA InitEstablishes ==
  ASSUME Init
  PROVE  IInv /\ bids.tree = EmptyTree /\ asks.tree = EmptyTree
<1>1. /\ INT_MAX \in Nat /\ 0 \in SpecificSlots
      /\ \A k \in SpecificSlots : Cleared(k)
  BY SizesAssumption, OffersAssumption, EqualSizesAssumption DEF SpecificSlots, Cleared
<1>2. EmptyTree \in Trees /\ DOMAIN EmptyTree = {}
  <2>1. EmptyTree \in [{} -> VolumeSet \ {0}] /\ {} \in SUBSET PriceSet
    BY DEF EmptyTree
  <2>2. QED
    BY <2>1, TreeShape DEF EmptyTree
<1>3. bids = [price_bid |-> 0, vol_bid |-> 0, tree |-> EmptyTree,
              history |-> [k \in SpecificSlots |-> NoBid]]
  BY <1>1 DEF Init, EmptyBids
<1>4. asks = [price_ask |-> INT_MAX, vol_ask |-> 0, tree |-> EmptyTree,
              history |-> [k \in SpecificSlots |-> 0]]
  BY <1>1 DEF Init, EmptyAsks
<1>5. specific_index \in SpecificSlots /\ LastSlot \in SpecificSlots
  BY <1>1, LastSlotIsOwn DEF Init, LastSlot
<1>6. TypeOK
  BY <1>1, <1>2, <1>3, <1>4, <1>5 DEF TypeOK, BidBooks, AskBooks, NoBid
<1>7. BestIsCached
  BY <1>2, <1>3, <1>4 DEF BestIsCached, CachedBid, CachedAsk, HighestBid, LowestAsk, NoBid, NoAsk
<1>8. LastSlotShowsBest
  BY <1>3, <1>4, <1>5 DEF LastSlotShowsBest, CachedBid, NoBid
<1>9. QED
  BY <1>3, <1>4, <1>6, <1>7, <1>8 DEF IInv

(* The invariant is inductive.                                             *)
LEMMA StepKeeps ==
  ASSUME IInv, [Next]_vars
  PROVE  IInv'
<1>1. ASSUME NEW price \in PriceSet, NEW volume \in VolumeSet,
             insert_bid(price, volume) \/ insert_ask(price, volume)
      PROVE  IInv'
  BY <1>1, InsertBidKeeps, InsertAskKeeps
<1>2. CASE UNCHANGED vars
  BY <1>2 DEF vars, IInv, TypeOK, BestIsCached, LastSlotShowsBest, CachedBid, CachedAsk, LastSlot
<1>3. QED
  BY <1>1, <1>2 DEF Next
-----------------------------------------------------------------------------
(* The cached best offers and the last slot show what the trees hold, in   *)
(* every reachable state (table.h).                                        *)
THEOREM BookIsTruthful == Spec => []IInv
<1>1. Init => IInv
  BY InitEstablishes
<1>2. IInv /\ [Next]_vars => IInv'
  BY StepKeeps
<1>3. QED
  BY <1>1, <1>2, PTL DEF Spec

(* The types of the book.                                                  *)
THEOREM TypeCorrect == Spec => []TypeOK
<1>1. IInv => TypeOK
  BY DEF IInv
<1>2. QED
  BY <1>1, BookIsTruthful, PTL

(* price_bid, vol_bid, price_ask and vol_ask are the best offers of the    *)
(* trees, also right after the best offer was withdrawn (table.h:41).      *)
THEOREM CacheIsBest == Spec => []BestIsCached
<1>1. IInv => BestIsCached
  BY DEF IInv
<1>2. QED
  BY <1>1, BookIsTruthful, PTL
-----------------------------------------------------------------------------
(* The refinement: what the last slot shows is the best of the volumes     *)
(* last offered, which the depth book keeps without tree or cache.         *)
LEMMA VolumesOfTree ==
  ASSUME NEW tree \in Trees
  PROVE  DepthOf!Offered(VolumesOf(tree)) = DOMAIN tree
<1>1. /\ DOMAIN tree \subseteq PriceSet
      /\ \A p \in DOMAIN tree : tree[p] # 0
  BY TreeShape
<1>2. QED
  BY <1>1 DEF VolumesOf, DepthOf!Offered

LEMMA ShownIsBest ==
  ASSUME NEW bidTree \in Trees, NEW askTree \in Trees
  PROVE  DepthOf!Best(VolumesOf(bidTree), VolumesOf(askTree)) =
           [pricebid |-> HighestBid(bidTree).price_bid,
            volbid |-> HighestBid(bidTree).vol_bid,
            volask |-> LowestAsk(askTree).vol_ask]
<1> DEFINE b == DOMAIN bidTree
           a == DOMAIN askTree
<1>1. /\ DepthOf!Offered(VolumesOf(bidTree)) = b
      /\ DepthOf!Offered(VolumesOf(askTree)) = a
  BY VolumesOfTree
<1>2. /\ b \in SUBSET (0 .. INT_MAX) /\ b \subseteq PriceSet
      /\ a \in SUBSET Nat /\ a \subseteq PriceSet
      /\ INT_MAX \in Nat
  BY TreeShape, OffersAssumption
<1>3. b # {} => Max(b) \in b
  BY <1>2, GreatestIsMax
<1>4. a # {} => Min(a) \in a
  BY <1>2, LeastIsMin
<1>5. DepthOf!Max(b) = Max(b) /\ DepthOf!Min(a) = Min(a)
  BY DEF DepthOf!Max, DepthOf!Min, Max, Min
<1>6. DepthOf!Best(VolumesOf(bidTree), VolumesOf(askTree)) =
        [pricebid |-> IF b = {} THEN 0 ELSE Max(b),
         volbid |-> IF b = {} THEN 0 ELSE VolumesOf(bidTree)[Max(b)],
         volask |-> IF a = {} THEN 0 ELSE VolumesOf(askTree)[Min(a)]]
  BY <1>1, <1>5 DEF DepthOf!Best
<1>7. /\ b # {} => VolumesOf(bidTree)[Max(b)] = bidTree[Max(b)]
      /\ a # {} => VolumesOf(askTree)[Min(a)] = askTree[Min(a)]
  BY <1>2, <1>3, <1>4 DEF VolumesOf
<1>8. /\ HighestBid(bidTree).price_bid = IF b = {} THEN 0 ELSE Max(b)
      /\ HighestBid(bidTree).vol_bid = IF b = {} THEN 0 ELSE bidTree[Max(b)]
      /\ LowestAsk(askTree).vol_ask = IF a = {} THEN 0 ELSE askTree[Min(a)]
  BY DEF HighestBid, LowestAsk, rb_t_last, rb_t_first, NoBid, NoAsk
<1> HIDE DEF a, b
<1>9. QED
  BY <1>6, <1>7, <1>8

(* An update of the tree is a change of the volume at one price.           *)
LEMMA VolumesFollow ==
  ASSUME NEW tree \in Trees, NEW price \in PriceSet, NEW volume \in VolumeSet
  PROVE  VolumesOf(TreeAfter(tree, volume, price)) =
           [VolumesOf(tree) EXCEPT ![price] = volume]
<1> DEFINE after == TreeAfter(tree, volume, price)
<1>1. Updated(tree, after, volume, price)
  BY TreeAfterUpdated
<1> HIDE DEF after
<1>2. ASSUME NEW p \in PriceSet
      PROVE  (IF p \in DOMAIN after THEN after[p] ELSE 0) =
               IF p = price THEN volume
               ELSE IF p \in DOMAIN tree THEN tree[p] ELSE 0
  BY <1>1 DEF Updated
<1>3. QED
  BY <1>2 DEF VolumesOf, after

(* What the last slot shows, in the states of the invariant.               *)
Shown == [pricebid |-> bids.history[LastSlot].price_bid,
          volbid |-> bids.history[LastSlot].vol_bid,
          volask |-> asks.history[LastSlot]]

ShowsDepth == Shown = DepthOf!Best(VolumesOf(bids.tree), VolumesOf(asks.tree))

LEMMA LastSlotIsDepth == IInv => ShowsDepth
<1> SUFFICES ASSUME IInv
             PROVE  ShowsDepth
  OBVIOUS
<1>1. bids.tree \in Trees /\ asks.tree \in Trees
  BY DEF IInv, TypeOK, BidBooks, AskBooks
<1>2. /\ bids.history[LastSlot].price_bid = HighestBid(bids.tree).price_bid
      /\ bids.history[LastSlot].vol_bid = HighestBid(bids.tree).vol_bid
      /\ asks.history[LastSlot] = LowestAsk(asks.tree).vol_ask
  <2>1. bids.history[LastSlot] = HighestBid(bids.tree)
    BY DEF IInv, BestIsCached, LastSlotShowsBest
  <2>2. asks.history[LastSlot] = CachedAsk(asks).vol_ask /\ CachedAsk(asks) = LowestAsk(asks.tree)
    BY DEF IInv, BestIsCached, LastSlotShowsBest, CachedAsk
  <2>3. QED
    BY <2>1, <2>2
<1>3. QED
  BY <1>1, <1>2, ShownIsBest DEF Shown, ShowsDepth

(* The book of one instrument implements the depth book: no update of one  *)
(* side makes the other side's history lose or invent an offer (worker.cc  *)
(* insert_data, table.h).                                                  *)
THEOREM BookImplementsDepth == Spec => ImplementsDepth
<1>1. Init => DepthOf!Init
  <2> SUFFICES ASSUME Init
               PROVE  DepthOf!Init
    OBVIOUS
  <2>1. IInv /\ bids.tree = EmptyTree /\ asks.tree = EmptyTree
    BY InitEstablishes
  <2>2. VolumesOf(EmptyTree) = DepthOf!Nothing
    BY DEF VolumesOf, EmptyTree, DepthOf!Nothing
  <2>3. QED
    BY <2>1, <2>2, LastSlotIsDepth DEF DepthOf!Init, ShowsDepth, Shown
<1>2. IInv' => ShowsDepth'
  BY LastSlotIsDepth, PTL
<1>3. IInv /\ IInv' /\ [Next]_vars => [DepthOf!Next]_(DepthOf!vars)
  <2> SUFFICES ASSUME IInv, IInv', [Next]_vars
               PROVE  [DepthOf!Next]_(DepthOf!vars)
    OBVIOUS
  <2>1. bids.tree \in Trees /\ asks.tree \in Trees
    BY DEF IInv, TypeOK, BidBooks, AskBooks
  <2>2. Shown' = DepthOf!Best(VolumesOf(bids.tree)', VolumesOf(asks.tree)')
    BY <1>2 DEF ShowsDepth
  <2>3. ASSUME NEW price \in PriceSet, NEW volume \in VolumeSet, insert_bid(price, volume)
        PROVE  DepthOf!Bid(price, volume)
    BY <2>1, <2>2, <2>3, InsertBidKeeps, VolumesFollow DEF DepthOf!Bid, Shown
  <2>4. ASSUME NEW price \in PriceSet, NEW volume \in VolumeSet, insert_ask(price, volume)
        PROVE  DepthOf!Ask(price, volume)
    BY <2>1, <2>2, <2>4, InsertAskKeeps, VolumesFollow DEF DepthOf!Ask, Shown
  <2>5. CASE UNCHANGED vars
    BY <2>5 DEF vars, DepthOf!vars, VolumesOf, LastSlot
  <2>6. QED
    BY <2>3, <2>4, <2>5 DEF Next, DepthOf!Next
<1>4. QED
  BY <1>1, <1>3, BookIsTruthful, PTL DEF Spec, ImplementsDepth, DepthOf!Spec
=============================================================================
