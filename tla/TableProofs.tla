----------------------------- MODULE TableProofs -----------------------------
(***************************************************************************)
(* What bids_insert and asks_insert (table.h) do to one side of a book,    *)
(* for every set of prices and volumes and every size of the histories:    *)
(* the best offer stays the tree's best, whatever is offered or withdrawn. *)
(***************************************************************************)
EXTENDS Table, NumberProofs

(* What a tree is to its caller: a function on some of the prices.         *)
LEMMA TreeShape ==
  /\ \A tree \in Trees :
       /\ tree = [p \in DOMAIN tree |-> tree[p]]
       /\ DOMAIN tree \subseteq PriceSet
       /\ \A p \in DOMAIN tree : tree[p] \in VolumeSet \ {0}
  /\ \A prices \in SUBSET PriceSet : [prices -> VolumeSet \ {0}] \subseteq Trees
<1>1. ASSUME NEW tree \in Trees
      PROVE  /\ tree = [p \in DOMAIN tree |-> tree[p]]
             /\ DOMAIN tree \subseteq PriceSet
             /\ \A p \in DOMAIN tree : tree[p] \in VolumeSet \ {0}
  <2>1. PICK prices \in SUBSET PriceSet : tree \in [prices -> VolumeSet \ {0}]
    BY DEF Trees
  <2>2. QED
    BY <2>1
<1>2. QED
  BY <1>1, Zenon DEF Trees

(* An update changes the tree at its own price only: volume 0 takes the    *)
(* price out, any other volume is what is offered there afterwards.        *)
Updated(tree, after, volume, price) ==
  /\ after \in Trees
  /\ DOMAIN after =
       IF volume = 0 THEN DOMAIN tree \ {price} ELSE DOMAIN tree \cup {price}
  /\ \A p \in DOMAIN after : after[p] = IF p = price THEN volume ELSE tree[p]

LEMMA TreeAfterUpdated ==
  ASSUME NEW tree \in Trees, NEW price \in PriceSet, NEW volume \in VolumeSet
  PROVE  Updated(tree, TreeAfter(tree, volume, price), volume, price)
<1> DEFINE replaced == rb_replace(tree, price, volume)
           after == TreeAfter(tree, volume, price)
           prices == IF volume = 0 THEN DOMAIN tree \ {price} ELSE DOMAIN tree \cup {price}
<1>1. prices \in SUBSET PriceSet
  BY TreeShape
<1>2. after = [p \in prices |-> IF p = price THEN volume ELSE tree[p]]
  BY DEF TreeAfter, rb_replace, rb_delete, Restrict
<1>3. after \in [prices -> VolumeSet \ {0}]
  BY <1>2, TreeShape
<1>4. after \in Trees
  BY <1>1, <1>3, TreeShape
<1>5. QED
  BY <1>2, <1>4 DEF Updated

(* The best bid of a tree is its highest price with the volume there, and  *)
(* nothing else is; the initial best bid is that of the empty tree.        *)
IsHighest(tree, price, volume) ==
  \/ DOMAIN tree = {} /\ price = 0 /\ volume = 0
  \/ /\ price \in DOMAIN tree /\ volume = tree[price]
     /\ \A p \in DOMAIN tree : p <= price

LEMMA HighestBidIsHighest ==
  ASSUME NEW tree \in Trees, NEW price, NEW volume
  PROVE  [price_bid |-> price, vol_bid |-> volume] = HighestBid(tree)
           <=> IsHighest(tree, price, volume)
<1>1. CASE DOMAIN tree = {}
  BY <1>1 DEF HighestBid, NoBid, IsHighest
<1>2. CASE DOMAIN tree # {}
  <2>1. DOMAIN tree \in SUBSET (0 .. INT_MAX) /\ INT_MAX \in Nat
    BY TreeShape, OffersAssumption
  <2> DEFINE best == Max(DOMAIN tree)
  <2>2. best \in DOMAIN tree /\ \A p \in DOMAIN tree : best >= p
    BY <1>2, <2>1, GreatestIsMax
  <2>3. HighestBid(tree) = [price_bid |-> best, vol_bid |-> tree[best]]
    BY <1>2 DEF HighestBid, rb_t_last
  <2> HIDE DEF best
  <2>4. IsHighest(tree, price, volume) <=> price = best /\ volume = tree[best]
    BY <1>2, <2>1, <2>2 DEF IsHighest
  <2>5. QED
    BY <2>3, <2>4
<1>3. QED
  BY <1>1, <1>2

(* The same for the best ask, the lowest price.                            *)
IsLowest(tree, price, volume) ==
  \/ DOMAIN tree = {} /\ price = INT_MAX /\ volume = 0
  \/ /\ price \in DOMAIN tree /\ volume = tree[price]
     /\ \A p \in DOMAIN tree : price <= p

LEMMA LowestAskIsLowest ==
  ASSUME NEW tree \in Trees, NEW price, NEW volume
  PROVE  [price_ask |-> price, vol_ask |-> volume] = LowestAsk(tree)
           <=> IsLowest(tree, price, volume)
<1>1. CASE DOMAIN tree = {}
  BY <1>1 DEF LowestAsk, NoAsk, IsLowest
<1>2. CASE DOMAIN tree # {}
  <2>1. DOMAIN tree \in SUBSET Nat
    BY TreeShape, OffersAssumption
  <2> DEFINE best == Min(DOMAIN tree)
  <2>2. best \in DOMAIN tree /\ \A p \in DOMAIN tree : best <= p
    BY <1>2, <2>1, LeastIsMin
  <2>3. LowestAsk(tree) = [price_ask |-> best, vol_ask |-> tree[best]]
    BY <1>2 DEF LowestAsk, rb_t_first
  <2> HIDE DEF best
  <2>4. IsLowest(tree, price, volume) <=> price = best /\ volume = tree[best]
    BY <1>2, <2>1, <2>2 DEF IsLowest
  <2>5. QED
    BY <2>3, <2>4
<1>3. QED
  BY <1>1, <1>2
-----------------------------------------------------------------------------
(* The insertion keeps the best bid cached: after a withdrawal it is read  *)
(* from the tree, a bid at or above it becomes it, and any other bid       *)
(* leaves both the best price and its volume alone.                        *)
LEMMA BestBidFollows ==
  ASSUME NEW tree \in Trees, NEW after, NEW best \in 0 .. INT_MAX, NEW vol \in Nat,
         NEW price \in PriceSet, NEW volume \in VolumeSet,
         Updated(tree, after, volume, price), IsHighest(tree, best, vol)
  PROVE  /\ volume # 0 /\ price >= best => IsHighest(after, price, volume)
         /\ (volume = 0 /\ price # best) \/ (volume # 0 /\ price < best)
              => IsHighest(after, best, vol)
<1>1. /\ price \in Int /\ price > 0 /\ best \in Int
      /\ DOMAIN tree \subseteq Int
  BY TreeShape, OffersAssumption
<1>2. ASSUME volume # 0, price >= best
      PROVE  IsHighest(after, price, volume)
  BY <1>1, <1>2 DEF Updated, IsHighest
<1>3. ASSUME volume = 0, price # best
      PROVE  IsHighest(after, best, vol)
  BY <1>1, <1>3 DEF Updated, IsHighest
<1>4. ASSUME volume # 0, price < best
      PROVE  IsHighest(after, best, vol)
  BY <1>1, <1>4 DEF Updated, IsHighest
<1>5. QED
  BY <1>2, <1>3, <1>4

(* The same for the best ask.                                              *)
LEMMA BestAskFollows ==
  ASSUME NEW tree \in Trees, NEW after, NEW best \in 0 .. INT_MAX, NEW vol \in Nat,
         NEW price \in PriceSet, NEW volume \in VolumeSet,
         Updated(tree, after, volume, price), IsLowest(tree, best, vol)
  PROVE  /\ volume # 0 /\ price <= best => IsLowest(after, price, volume)
         /\ (volume = 0 /\ price # best) \/ (volume # 0 /\ price > best)
              => IsLowest(after, best, vol)
<1>1. /\ price \in Int /\ price <= INT_MAX /\ best \in Int /\ INT_MAX \in Int
      /\ DOMAIN tree \subseteq Int
  BY TreeShape, OffersAssumption
<1>2. ASSUME volume # 0, price <= best
      PROVE  IsLowest(after, price, volume)
  BY <1>1, <1>2 DEF Updated, IsLowest
<1>3. ASSUME volume = 0, price # best
      PROVE  IsLowest(after, best, vol)
  BY <1>1, <1>3 DEF Updated, IsLowest
<1>4. ASSUME volume # 0, price > best
      PROVE  IsLowest(after, best, vol)
  BY <1>1, <1>4 DEF Updated, IsLowest
<1>5. QED
  BY <1>2, <1>3, <1>4
-----------------------------------------------------------------------------
(* The slot of the next update is one past the slot of the last, around    *)
(* the end of the history: after an update the last slot is its own.       *)
LEMMA LastSlotIsOwn ==
  ASSUME NEW k \in SpecificSlots
  PROVE  /\ prev_index_spec(k) \in SpecificSlots
         /\ (k + 1) % SPECIFIC_HISTORY_SIZE \in SpecificSlots
         /\ prev_index_spec((k + 1) % SPECIFIC_HISTORY_SIZE) = k
<1> DEFINE S == SPECIFIC_HISTORY_SIZE
           e == -1
           n == k + 1
           next == n % S
<1>1. S \in Nat \ {0} /\ k \in 0 .. S - 1 /\ k \in Int /\ e \in Int /\ n \in Int
  BY SizesAssumption DEF SpecificSlots
<1>2. \A m \in Int : prev_index_spec(m) = (m + e) % S
  <2> SUFFICES ASSUME NEW m \in Int
               PROVE  prev_index_spec(m) = (m + e) % S
    OBVIOUS
  <2>1. m - 1 \in Int /\ m - 1 = m + e
    OBVIOUS
  <2>2. prev_index_spec(m) = (m - 1) % S
    BY <2>1, SizesAssumption, WrapInvisible DEF prev_index_spec, Unsigned
  <2>3. QED
    BY <2>1, <2>2
<1>3. n + e = k
  BY <1>1
<1> HIDE DEF S, e, n
<1>4. prev_index_spec(k) \in 0 .. S - 1 /\ next \in 0 .. S - 1
  BY <1>1, <1>2, DivMod
<1>5. prev_index_spec(next) = (next + e) % S
  BY <1>1, <1>2, <1>4
<1>6. (next + e) % S = (n + e) % S
  BY <1>1, ModShift
<1>7. k % S = k
  BY <1>1, SMT
<1>8. QED
  BY <1>3, <1>4, <1>5, <1>6, <1>7 DEF S, SpecificSlots, n

(* Where the two expressions for the previous slot point (table.h:148 and  *)
(* 158): inside the history, and to the same slot when the sizes are equal.*)
LEMMA PreviousSlots ==
  ASSUME NEW k \in SpecificSlots, HISTORY_SIZE <= SPECIFIC_HISTORY_SIZE
  PROVE  /\ prev_index_spec(k) \in SpecificSlots
         /\ prev_index(k) \in SpecificSlots
         /\ HISTORY_SIZE = SPECIFIC_HISTORY_SIZE => prev_index(k) = prev_index_spec(k)
<1>1. k - 1 \in Int /\ Unsigned(k - 1) \in Int
  BY SizesAssumption, DivMod DEF Unsigned, SpecificSlots
<1>2. /\ prev_index(k) \in 0 .. HISTORY_SIZE - 1
      /\ prev_index_spec(k) \in 0 .. SPECIFIC_HISTORY_SIZE - 1
  BY <1>1, SizesAssumption, DivMod DEF prev_index, prev_index_spec
<1>3. QED
  BY <1>2, SizesAssumption DEF SpecificSlots, prev_index, prev_index_spec
-----------------------------------------------------------------------------
(* bids_insert on a book whose best bid is cached: the tree is updated,    *)
(* the best bid is cached again, and the update's slot shows it when a     *)
(* kept best is copied from a slot that did.                               *)
LEMMA BidsInsert ==
  ASSUME NEW volumes, VolumeSet \cup {0} \subseteq volumes,
         NEW book \in BidBooks(volumes), CachedBid(book) = HighestBid(book.tree),
         NEW k \in SpecificSlots, NEW price \in PriceSet, NEW volume \in VolumeSet,
         NEW last,
         BidKept(book, volume, price) => last \in [price_bid : 0 .. INT_MAX, vol_bid : volumes],
         NEW after, after = bids_insert(book, k, volume, price, last)
  PROVE  /\ after \in BidBooks(volumes)
         /\ after.tree = TreeAfter(book.tree, volume, price)
         /\ CachedBid(after) = HighestBid(after.tree)
         /\ last = CachedBid(book) => after.history[k] = CachedBid(after)
<1> DEFINE tree == TreeAfter(book.tree, volume, price)
           best == IF BidWithdrawn(book, volume, price) THEN HighestBid(tree)
                   ELSE IF BidImproved(book, volume, price)
                   THEN [price_bid |-> price, vol_bid |-> volume]
                   ELSE CachedBid(book)
           shown == IF BidKept(book, volume, price) THEN last ELSE best
<1>1. /\ book.price_bid \in 0 .. INT_MAX /\ book.vol_bid \in VolumeSet \cup {0}
      /\ book.tree \in Trees
      /\ book.history \in [SpecificSlots -> [price_bid : 0 .. INT_MAX, vol_bid : volumes]]
  BY DEF BidBooks
<1> HIDE DEF shown
<1>2. IsHighest(book.tree, book.price_bid, book.vol_bid)
  BY <1>1, HighestBidIsHighest DEF CachedBid
<1>3. Updated(book.tree, tree, volume, price) /\ tree \in Trees
  <2>1. Updated(book.tree, tree, volume, price)
    BY <1>1, TreeAfterUpdated
  <2>2. QED
    BY <2>1 DEF Updated
<1>4. /\ price \in Int /\ price \in 0 .. INT_MAX /\ volume \in Nat /\ book.price_bid \in Int
      /\ book.vol_bid \in Nat /\ INT_MAX \in Nat
  <2>1. VolumeSet \cup {0} \subseteq Nat /\ INT_MAX \in Nat /\ PriceSet \subseteq 1 .. INT_MAX
    BY OffersAssumption
  <2>2. price \in 1 .. INT_MAX /\ volume \in Nat /\ book.vol_bid \in Nat
    BY <1>1, <2>1
  <2>3. QED
    BY <1>1, <2>1, <2>2
<1> HIDE DEF tree
<1>5. best = HighestBid(tree)
  <2>1. CASE BidWithdrawn(book, volume, price)
    BY <2>1
  <2>2. CASE BidImproved(book, volume, price)
    <3>1. IsHighest(tree, price, volume)
      BY <1>1, <1>2, <1>3, <1>4, <2>2, BestBidFollows DEF BidImproved
    <3>2. best = [price_bid |-> price, vol_bid |-> volume]
      BY <2>2 DEF BidWithdrawn, BidImproved
    <3>3. QED
      BY <1>3, <3>1, <3>2, HighestBidIsHighest
  <2>3. CASE BidKept(book, volume, price)
    <3>1. (volume = 0 /\ price # book.price_bid) \/ (volume # 0 /\ price < book.price_bid)
      BY <1>4, <2>3 DEF BidKept, BidWithdrawn, BidImproved
    <3>2. IsHighest(tree, book.price_bid, book.vol_bid)
      BY <1>1, <1>2, <1>3, <1>4, <3>1, BestBidFollows
    <3>3. best = CachedBid(book)
      BY <2>3 DEF BidKept
    <3>4. QED
      BY <1>3, <3>2, <3>3, HighestBidIsHighest DEF CachedBid
  <2>4. QED
    BY <2>1, <2>2, <2>3 DEF BidKept
<1>6. after = [price_bid |-> best.price_bid, vol_bid |-> best.vol_bid, tree |-> tree,
               history |-> [book.history EXCEPT ![k] = shown]]
  BY DEF bids_insert, CachedBid, tree, shown
<1>7. best \in [price_bid : 0 .. INT_MAX, vol_bid : VolumeSet \cup {0}]
  <2>1. HighestBid(tree) \in [price_bid : 0 .. INT_MAX, vol_bid : VolumeSet \cup {0}]
    <3>1. CASE DOMAIN tree = {}
      BY <1>4, <3>1 DEF HighestBid, NoBid
    <3>2. CASE DOMAIN tree # {}
      <4>1. /\ DOMAIN tree \in SUBSET (0 .. INT_MAX)
            /\ \A p \in DOMAIN tree : tree[p] \in VolumeSet
        BY <1>3, <1>4, TreeShape, OffersAssumption
      <4>2. Max(DOMAIN tree) \in DOMAIN tree
        BY <1>4, <3>2, <4>1, GreatestIsMax
      <4>3. QED
        BY <3>2, <4>1, <4>2 DEF HighestBid, rb_t_last
    <3>3. QED
      BY <3>1, <3>2
  <2>2. QED
    BY <1>5, <2>1
<1>8. shown \in [price_bid : 0 .. INT_MAX, vol_bid : volumes]
  BY <1>7 DEF shown
<1>9. last = CachedBid(book) => shown = best
  BY DEF BidKept, shown
<1> HIDE DEF best
<1>10. best = [price_bid |-> best.price_bid, vol_bid |-> best.vol_bid]
  BY <1>7
<1>11. after.tree = tree /\ CachedBid(after) = best /\ after.history[k] = shown
  BY <1>1, <1>6, <1>10 DEF CachedBid
<1>12. after \in BidBooks(volumes)
  BY <1>1, <1>3, <1>6, <1>7, <1>8 DEF BidBooks
<1>13. QED
  BY <1>5, <1>9, <1>11, <1>12 DEF tree

(* asks_insert: the same.  The two expressions for the slot a kept best    *)
(* ask is copied from (table.h) name one slot when the sizes are equal.    *)
LEMMA AsksInsert ==
  ASSUME NEW volumes, VolumeSet \cup {0} \subseteq volumes,
         NEW book \in AskBooks(volumes), CachedAsk(book) = LowestAsk(book.tree),
         NEW k \in SpecificSlots, NEW price \in PriceSet, NEW volume \in VolumeSet,
         HISTORY_SIZE <= SPECIFIC_HISTORY_SIZE,
         NEW after, after = asks_insert(book, k, volume, price)
  PROVE  /\ after \in AskBooks(volumes)
         /\ after.tree = TreeAfter(book.tree, volume, price)
         /\ CachedAsk(after) = LowestAsk(after.tree)
         /\ HISTORY_SIZE = SPECIFIC_HISTORY_SIZE =>
              (book.history[prev_index_spec(k)] = book.vol_ask =>
                 after.history[k] = after.vol_ask)
<1> DEFINE tree == TreeAfter(book.tree, volume, price)
           best == IF AskWithdrawn(book, volume, price) THEN LowestAsk(tree)
                   ELSE IF AskImproved(book, volume, price)
                   THEN [price_ask |-> price, vol_ask |-> volume]
                   ELSE CachedAsk(book)
           shown == IF AskWithdrawn(book, volume, price) \/ AskImproved(book, volume, price)
                    THEN best.vol_ask
                    ELSE IF volume = 0 THEN book.history[prev_index_spec(k)]
                    ELSE book.history[prev_index(k)]
<1>1. /\ book.price_ask \in 0 .. INT_MAX /\ book.vol_ask \in VolumeSet \cup {0}
      /\ book.tree \in Trees
      /\ book.history \in [SpecificSlots -> volumes]
  BY DEF AskBooks
<1> HIDE DEF shown
<1>2. IsLowest(book.tree, book.price_ask, book.vol_ask)
  BY <1>1, LowestAskIsLowest DEF CachedAsk
<1>3. Updated(book.tree, tree, volume, price) /\ tree \in Trees
  <2>1. Updated(book.tree, tree, volume, price)
    BY <1>1, TreeAfterUpdated
  <2>2. QED
    BY <2>1 DEF Updated
<1>4. /\ price \in Int /\ price \in 0 .. INT_MAX /\ volume \in Nat /\ book.price_ask \in Int
      /\ book.vol_ask \in Nat /\ INT_MAX \in Nat
  <2>1. VolumeSet \cup {0} \subseteq Nat /\ INT_MAX \in Nat /\ PriceSet \subseteq 1 .. INT_MAX
    BY OffersAssumption
  <2>2. price \in 1 .. INT_MAX /\ volume \in Nat /\ book.vol_ask \in Nat
    BY <1>1, <2>1
  <2>3. QED
    BY <1>1, <2>1, <2>2
<1> HIDE DEF tree
<1>5. best = LowestAsk(tree)
  <2>1. CASE AskWithdrawn(book, volume, price)
    BY <2>1
  <2>2. CASE AskImproved(book, volume, price)
    <3>1. IsLowest(tree, price, volume)
      BY <1>1, <1>2, <1>3, <1>4, <2>2, BestAskFollows DEF AskImproved
    <3>2. best = [price_ask |-> price, vol_ask |-> volume]
      BY <2>2 DEF AskWithdrawn, AskImproved
    <3>3. QED
      BY <1>3, <3>1, <3>2, LowestAskIsLowest
  <2>3. CASE ~AskWithdrawn(book, volume, price) /\ ~AskImproved(book, volume, price)
    <3>1. (volume = 0 /\ price # book.price_ask) \/ (volume # 0 /\ price > book.price_ask)
      BY <1>4, <2>3 DEF AskWithdrawn, AskImproved
    <3>2. IsLowest(tree, book.price_ask, book.vol_ask)
      BY <1>1, <1>2, <1>3, <1>4, <3>1, BestAskFollows
    <3>3. best = CachedAsk(book)
      BY <2>3
    <3>4. QED
      BY <1>3, <3>2, <3>3, LowestAskIsLowest DEF CachedAsk
  <2>4. QED
    BY <2>1, <2>2, <2>3
<1>6. after = [price_ask |-> best.price_ask, vol_ask |-> best.vol_ask, tree |-> tree,
               history |-> [book.history EXCEPT ![k] = shown]]
  BY DEF asks_insert, CachedAsk, tree, shown
<1>7. best \in [price_ask : 0 .. INT_MAX, vol_ask : VolumeSet \cup {0}]
  <2>1. LowestAsk(tree) \in [price_ask : 0 .. INT_MAX, vol_ask : VolumeSet \cup {0}]
    <3>1. CASE DOMAIN tree = {}
      BY <1>4, <3>1 DEF LowestAsk, NoAsk
    <3>2. CASE DOMAIN tree # {}
      <4>1. /\ DOMAIN tree \in SUBSET Nat /\ DOMAIN tree \subseteq 0 .. INT_MAX
            /\ \A p \in DOMAIN tree : tree[p] \in VolumeSet
        BY <1>3, <1>4, TreeShape, OffersAssumption
      <4>2. Min(DOMAIN tree) \in DOMAIN tree
        BY <3>2, <4>1, LeastIsMin
      <4>3. QED
        BY <3>2, <4>1, <4>2 DEF LowestAsk, rb_t_first
    <3>3. QED
      BY <3>1, <3>2
  <2>2. QED
    BY <1>5, <2>1
<1>8. /\ prev_index_spec(k) \in SpecificSlots
      /\ prev_index(k) \in SpecificSlots
      /\ HISTORY_SIZE = SPECIFIC_HISTORY_SIZE => prev_index(k) = prev_index_spec(k)
  BY PreviousSlots
<1>9. shown \in volumes
  BY <1>1, <1>7, <1>8 DEF shown
<1>10. HISTORY_SIZE = SPECIFIC_HISTORY_SIZE =>
         (book.history[prev_index_spec(k)] = book.vol_ask => shown = best.vol_ask)
  <2>1. CASE AskWithdrawn(book, volume, price) \/ AskImproved(book, volume, price)
    BY <2>1 DEF shown
  <2>2. CASE ~AskWithdrawn(book, volume, price) /\ ~AskImproved(book, volume, price)
    <3>1. best.vol_ask = book.vol_ask
      BY <2>2 DEF CachedAsk
    <3>2. QED
      BY <1>8, <2>2, <3>1 DEF shown
  <2>3. QED
    BY <2>1, <2>2
<1> HIDE DEF best
<1>11. best = [price_ask |-> best.price_ask, vol_ask |-> best.vol_ask]
  BY <1>7
<1>12. /\ after.tree = tree /\ CachedAsk(after) = best /\ after.history[k] = shown
       /\ after.vol_ask = best.vol_ask
  BY <1>1, <1>6, <1>11 DEF CachedAsk
<1>13. after \in AskBooks(volumes)
  BY <1>1, <1>3, <1>6, <1>7, <1>9 DEF AskBooks
<1>14. QED
  BY <1>5, <1>10, <1>12, <1>13 DEF tree
=============================================================================
