-------------------------- MODULE ProcessorProofs --------------------------
(***************************************************************************)
(* The processor with its data: its threads are the chain of flags         *)
(* whatever is in the books, so the order of the insertions and of the     *)
(* sums is that of the calls; its types; and that every update has one     *)
(* result, for every set of instruments, prices and volumes, every size of *)
(* the histories and of the ring, and every number of updates.             *)
(***************************************************************************)
EXTENDS Processor, OrderChainProofs, TableProofs

(* Every step of the processor is one of the chain or leaves it alone, and *)
(* the two that leave it alone are the halves of pairs.                    *)
LEMMA StepOfChain ==
  ASSUME [ProcNext]_vars
  PROVE  [Next]_chainVars
<1>1. ASSUME NEW w \in Workers, ProcWorker(w)
      PROVE  Worker(w) \/ UNCHANGED chainVars
  BY <1>1, Zenon DEF ProcWorker, Synchronise, ReadKeptPrice, InsertBid, InsertAsk,
         CopyAsk, CopyBidPrice, CopyBidVolume, ProcLoad, compute_return_fp_i,
         history_shift, Worker
<1>2. CASE ProcUpdate
  BY <1>2 DEF ProcUpdate, Next
<1>3. CASE ProcDrained
  BY <1>3 DEF ProcDrained, Next
<1>4. CASE UNCHANGED vars
  BY <1>4 DEF vars, chainVars
<1>5. QED
  BY <1>1, <1>2, <1>3, <1>4, Zenon DEF ProcNext, Next

(* The threads of the processor are the chain of flags (worker.cc,         *)
(* worker.h): what they do to books and sums does not steer them.          *)
THEOREM ProcImplementsChain == ProcSpec => Spec
<1>1. ProcInit => Init
  BY DEF ProcInit
<1>2. [ProcNext]_vars => [Next]_chainVars
  BY StepOfChain
<1>3. QED
  BY <1>1, <1>2, PTL DEF ProcSpec, Spec

(* So, with two workers, its flags are truthful, and the insertions into   *)
(* the books and the changes of the running sum come in the order of the   *)
(* calls of Update().                                                      *)
THEOREM ProcFlagsAreTruthful == ProcSpec => []IInv
  BY ProcImplementsChain, FlagsAreTruthful, PTL

THEOREM ProcInOrder == ProcSpec => [](InsertionInOrder /\ SumInOrder /\ NoLostRelease)
  BY ProcImplementsChain, InsertionOrder, SumOrder, ReleaseIsSeen, PTL

(* And what is visible of it from outside is the two-stage pipeline.       *)
THEOREM ProcImplementsPipeline == ProcSpec => ImplementsPipeline
  BY ProcImplementsChain, ChainImplementsPipeline, PTL
-----------------------------------------------------------------------------
(* The updates in hand: any number of workers.                             *)
LEMMA TakenFacts ==
  ASSUME TypeOK
  PROVE  /\ Taken \in Int /\ Taken <= issued
         /\ issued \in Nat /\ issued <= Count
         /\ Len(ring) \in Nat
         /\ \A w \in Workers : local_data[w] \in Int
<1>1. ring \in Seq(0 .. Count - 1) /\ issued \in 0 .. Count /\ Count \in Nat
      /\ local_data \in [Workers -> -1 .. Count - 1]
  BY ChainAssumption DEF TypeOK
<1>2. Len(ring) \in Nat /\ Taken = issued - Len(ring)
  BY <1>1 DEF Taken
<1>3. QED
  BY <1>1, <1>2

LEMMA HandsKept ==
  ASSUME TypeOK, HandsAreDistinct, [Next]_chainVars
  PROVE  HandsAreDistinct'
<1>1. CASE Update
  <2>1. /\ pc' = pc /\ local_data' = local_data /\ issued' = issued + 1
        /\ ring' = Append(ring, issued)
    BY <1>1 DEF Update
  <2>2. /\ Len(ring') = Len(ring) + 1
        /\ ring'[Len(ring) + 1] = issued
        /\ \A j \in 1 .. Len(ring) : ring'[j] = ring[j]
    BY <2>1, ChainAssumption DEF TypeOK
  <2>3. Taken' = Taken
    BY <2>1, <2>2, TakenFacts DEF Taken
  <2>4. ASSUME NEW j \in 1 .. Len(ring')
        PROVE  ring'[j] = Taken' + j - 1
    <3>1. CASE j = Len(ring) + 1
      BY <2>1, <2>2, <2>3, <3>1, TakenFacts DEF Taken
    <3>2. CASE j \in 1 .. Len(ring)
      BY <2>2, <2>3, <3>2 DEF HandsAreDistinct
    <3>3. QED
      BY <2>2, <3>1, <3>2, TakenFacts
  <2>5. QED
    BY <2>1, <2>3, <2>4 DEF HandsAreDistinct, Holds
<1>2. ASSUME NEW w \in Workers, Dequeue(w)
      PROVE  HandsAreDistinct'
  <2>1. /\ ring \in Seq(Int) /\ ring # << >> /\ ring' = Tail(ring)
        /\ local_data'[w] = ring[1] /\ issued' = issued
        /\ pc[w] = "dequeue"
        /\ \A v \in Workers : v # w => pc'[v] = pc[v] /\ local_data'[v] = local_data[v]
    BY <1>2, ChainAssumption DEF Dequeue, Goto, RingEmpty, TypeOK
  <2>2. /\ Len(ring) >= 1 /\ Len(ring') = Len(ring) - 1
        /\ \A j \in 1 .. Len(ring') : ring'[j] = ring[j + 1]
    BY <2>1
  <2>3. Taken' = Taken + 1 /\ local_data'[w] = Taken
    BY <2>1, <2>2, TakenFacts DEF Taken, HandsAreDistinct
  <2>4. \A j \in 1 .. Len(ring') : ring'[j] = Taken' + j - 1
    BY <2>2, <2>3, TakenFacts DEF HandsAreDistinct
  <2>5. 0 <= Taken
    <3> DEFINE S == 0 .. Count - 1
    <3>1. ring \in Seq(S)
      BY DEF TypeOK
    <3> HIDE DEF S
    <3>2. ring[1] \in S
      BY <2>2, <3>1, TakenFacts
    <3>3. QED
      BY <2>1, <2>2, <2>3, <3>2, ChainAssumption DEF S
  <2>6. \A v \in Workers : pc'[v] # "dequeue" => local_data'[v] \in 0 .. Taken' - 1
    BY <2>1, <2>3, <2>5, TakenFacts DEF HandsAreDistinct
  <2>7. ASSUME NEW u \in Workers, NEW v \in Workers, u # v, pc'[u] # "dequeue"
        PROVE  ~Holds(v, local_data[u])'
    BY <2>1, <2>3, <2>7, TakenFacts DEF HandsAreDistinct, Holds
  <2>8. QED
    BY <2>4, <2>6, <2>7 DEF HandsAreDistinct
<1>3. ASSUME NEW w \in Workers, Worker(w), ~Dequeue(w)
      PROVE  HandsAreDistinct'
  <2>1. /\ issued' = issued /\ ring' = ring /\ local_data' = local_data
        /\ pc[w] # "dequeue"
        /\ \A v \in Workers : v # w => pc'[v] = pc[v]
    BY <1>3 DEF TypeOK, Worker, UnsetNextOrder, UnsetNextSum, WaitOrder, UnsetOwnOrder, Insert,
           SetOrder, Copy, Load, WaitSum, UnsetOwnSum, Sum, SetSum, Goto
  <2>2. Taken' = Taken
    BY <2>1 DEF Taken
  <2>3. QED
    BY <2>1, <2>2 DEF HandsAreDistinct, Holds
<1>4. CASE UNCHANGED chainVars
  BY <1>4 DEF chainVars, HandsAreDistinct, Holds, Taken
<1>5. QED
  BY <1>1, <1>2, <1>3, <1>4 DEF Next, Drained
-----------------------------------------------------------------------------
(* Types.  What the record of an update in hand is made of.                *)
LEMMA DataFacts ==
  ASSUME ProcTypeOK, HandsAreDistinct, NEW w \in Workers, pc[w] # "dequeue"
  PROVE  /\ Data(w).input.instrument \in Instruments
         /\ Data(w).input.side \in {"bid", "ask"}
         /\ Data(w).input.price \in PriceSet
         /\ Data(w).input.volume \in VolumeSet
         /\ Data(w).specific_index \in SpecificSlots
<1>1. local_data[w] + 1 \in 1 .. Len(data)
  BY TakenFacts DEF ProcTypeOK, HandsAreDistinct
<1>2. Data(w) \in [input : Inputs, specific_index : SpecificSlots]
  <2> DEFINE R == [input : Inputs, specific_index : SpecificSlots]
  <2>1. data \in Seq(R)
    BY DEF ProcTypeOK
  <2> HIDE DEF R
  <2>2. data[local_data[w] + 1] \in R
    BY <1>1, <2>1
  <2>3. QED
    BY <2>2 DEF Data, R
<1>3. Data(w).input \in [instrument : Instruments, side : {"bid", "ask"},
                         price : PriceSet, volume : VolumeSet]
  BY <1>2, InputsAssumption
<1>4. QED
  BY <1>2, <1>3

LEMMA VolumeFacts ==
  /\ VolumeSet \cup {0} \subseteq Volumes /\ 0 \in Volumes
  /\ Leftovers \subseteq Volumes
  /\ Volumes \subseteq Nat
  /\ INT_MAX \in Nat /\ 0 \in 0 .. INT_MAX /\ Leftovers \subseteq 0 .. INT_MAX
<1>1. VolumeSet \subseteq Nat /\ INT_MAX \in Nat /\ Leftovers \subseteq 0 .. INT_MAX
  BY OffersAssumption, InputsAssumption
<1>2. QED
  BY <1>1 DEF Volumes

(* The books: their types, and the cached best offers.                     *)
BooksOK ==
  /\ bids \in [Instruments -> BidBooks(Volumes)]
  /\ asks \in [Instruments -> AskBooks(Volumes)]
  /\ BestIsCached

(* Writing one slot of a history leaves tree and best offer alone.         *)
LEMMA SlotWritten ==
  ASSUME BooksOK, NEW i \in Instruments, NEW k \in SpecificSlots,
         \/ /\ UNCHANGED asks
            /\ \E shown \in [price_bid : 0 .. INT_MAX, vol_bid : Volumes] :
                 bids' = [bids EXCEPT ![i].history[k] = shown]
         \/ /\ UNCHANGED bids
            /\ \E shown \in Volumes : asks' = [asks EXCEPT ![i].history[k] = shown]
  PROVE  /\ BooksOK'
         /\ \A j \in Instruments : /\ bids'[j].tree = bids[j].tree
                                   /\ asks'[j].tree = asks[j].tree
                                   /\ CachedBid(bids'[j]) = CachedBid(bids[j])
                                   /\ CachedAsk(asks'[j]) = CachedAsk(asks[j])
<1> DEFINE BidSide == /\ bids' \in [Instruments -> BidBooks(Volumes)]
                      /\ \A j \in Instruments : /\ bids'[j].tree = bids[j].tree
                                                /\ CachedBid(bids'[j]) = CachedBid(bids[j])
           AskSide == /\ asks' \in [Instruments -> AskBooks(Volumes)]
                      /\ \A j \in Instruments : /\ asks'[j].tree = asks[j].tree
                                                /\ CachedAsk(asks'[j]) = CachedAsk(asks[j])
<1>1. ASSUME NEW shown \in [price_bid : 0 .. INT_MAX, vol_bid : Volumes],
             bids' = [bids EXCEPT ![i].history[k] = shown]
      PROVE  BidSide
  <2> DEFINE book == [bids[i] EXCEPT !.history[k] = shown]
  <2>1. /\ bids \in [Instruments -> BidBooks(Volumes)] /\ bids[i] \in BidBooks(Volumes)
        /\ bids' = [bids EXCEPT ![i] = book]
    BY <1>1 DEF BooksOK
  <2>2. book \in BidBooks(Volumes) /\ book.tree = bids[i].tree
        /\ CachedBid(book) = CachedBid(bids[i])
    BY <2>1 DEF BidBooks, CachedBid
  <2> HIDE DEF book
  <2>3. QED
    BY <2>1, <2>2
<1>2. ASSUME NEW shown \in Volumes, asks' = [asks EXCEPT ![i].history[k] = shown]
      PROVE  AskSide
  <2> DEFINE book == [asks[i] EXCEPT !.history[k] = shown]
  <2>1. /\ asks \in [Instruments -> AskBooks(Volumes)] /\ asks[i] \in AskBooks(Volumes)
        /\ asks' = [asks EXCEPT ![i] = book]
    BY <1>2 DEF BooksOK
  <2>2. book \in AskBooks(Volumes) /\ book.tree = asks[i].tree
        /\ CachedAsk(book) = CachedAsk(asks[i])
    BY <2>1 DEF AskBooks, CachedAsk
  <2> HIDE DEF book
  <2>3. QED
    BY <2>1, <2>2
<1>3. BidSide /\ AskSide
  <2>1. UNCHANGED bids => BidSide
    BY DEF BooksOK
  <2>2. UNCHANGED asks => AskSide
    BY DEF BooksOK
  <2>3. QED
    BY <1>1, <1>2, <2>1, <2>2
<1>4. QED
  BY <1>3 DEF BooksOK, BestIsCached

(* An insertion into one side of one book.                                 *)
LEMMA BidInserted ==
  ASSUME ProcTypeOK, HandsAreDistinct, BooksOK, NEW w \in Workers, InsertBid(w)
  PROVE  /\ BooksOK'
         /\ asks' = asks
         /\ \A j \in Instruments :
              bids'[j].tree =
                IF j = Data(w).input.instrument
                THEN TreeAfter(bids[j].tree, Data(w).input.volume, Data(w).input.price)
                ELSE bids[j].tree
<1> DEFINE d == Data(w).input
           i == d.instrument
           k == Data(w).specific_index
           book == bids[i]
           last == [price_bid |-> half[w], vol_bid |-> book.history[prev_index_spec(k)].vol_bid]
           after == bids_insert(book, k, d.volume, d.price, last)
<1>1. /\ pc[w] = "insert" /\ asks' = asks
      /\ BidKept(book, d.volume, d.price) => half[w] # NoHalf
      /\ bids' = [bids EXCEPT ![i] = after]
  BY DEF InsertBid, Insert, Goto
<1>2. /\ i \in Instruments /\ d.price \in PriceSet /\ d.volume \in VolumeSet
      /\ k \in SpecificSlots
  BY <1>1, DataFacts
<1>3. /\ book \in BidBooks(Volumes) /\ CachedBid(book) = HighestBid(book.tree)
      /\ bids \in [Instruments -> BidBooks(Volumes)]
  BY <1>2 DEF BooksOK, BestIsCached
<1>4. BidKept(book, d.volume, d.price) => last \in [price_bid : 0 .. INT_MAX, vol_bid : Volumes]
  <2>1. prev_index_spec(k) \in SpecificSlots
    BY <1>2, LastSlotIsOwn
  <2>2. book.history[prev_index_spec(k)].vol_bid \in Volumes
    BY <1>3, <2>1 DEF BidBooks
  <2>3. half[w] \in {NoHalf} \cup 0 .. INT_MAX
    BY DEF ProcTypeOK
  <2>4. QED
    BY <1>1, <2>2, <2>3
<1> HIDE DEF last, d, k
<1>5. /\ after \in BidBooks(Volumes)
      /\ after.tree = TreeAfter(book.tree, d.volume, d.price)
      /\ CachedBid(after) = HighestBid(after.tree)
  BY <1>2, <1>3, <1>4, BidsInsert, VolumeFacts
<1> HIDE DEF after
<1>6. /\ bids' \in [Instruments -> BidBooks(Volumes)]
      /\ bids'[i] = after /\ \A j \in Instruments : j # i => bids'[j] = bids[j]
  BY <1>1, <1>2, <1>3, <1>5
<1>7. BooksOK'
  BY <1>1, <1>5, <1>6 DEF BooksOK, BestIsCached
<1>8. QED
  BY <1>1, <1>5, <1>6, <1>7 DEF d

LEMMA AskInserted ==
  ASSUME ProcTypeOK, HandsAreDistinct, BooksOK, NEW w \in Workers, InsertAsk(w)
  PROVE  /\ BooksOK'
         /\ bids' = bids
         /\ \A j \in Instruments :
              asks'[j].tree =
                IF j = Data(w).input.instrument
                THEN TreeAfter(asks[j].tree, Data(w).input.volume, Data(w).input.price)
                ELSE asks[j].tree
<1> DEFINE d == Data(w).input
           i == d.instrument
           k == Data(w).specific_index
           book == asks[i]
           after == asks_insert(book, k, d.volume, d.price)
<1>1. pc[w] = "insert" /\ bids' = bids
  BY DEF InsertAsk, Insert, Goto
<1>2. /\ i \in Instruments /\ d.price \in PriceSet /\ d.volume \in VolumeSet
      /\ k \in SpecificSlots
  BY <1>1, DataFacts
<1>3. /\ book \in AskBooks(Volumes) /\ CachedAsk(book) = LowestAsk(book.tree)
      /\ asks \in [Instruments -> AskBooks(Volumes)]
  BY <1>2 DEF BooksOK, BestIsCached
<1>4. asks' = [asks EXCEPT ![i] = after]
  BY <1>2, <1>3 DEF InsertAsk
<1> HIDE DEF d, k
<1>5. /\ after \in AskBooks(Volumes)
      /\ after.tree = TreeAfter(book.tree, d.volume, d.price)
      /\ CachedAsk(after) = LowestAsk(after.tree)
  BY <1>2, <1>3, AsksInsert, VolumeFacts, HistoriesAssumption
<1> HIDE DEF after
<1>6. /\ asks' \in [Instruments -> AskBooks(Volumes)]
      /\ asks'[i] = after /\ \A j \in Instruments : j # i => asks'[j] = asks[j]
  BY <1>2, <1>3, <1>4, <1>5
<1>7. BooksOK'
  BY <1>1, <1>5, <1>6 DEF BooksOK, BestIsCached
<1>8. QED
  BY <1>1, <1>5, <1>6, <1>7 DEF d

(* The copies into the update's slots are writes of one slot.              *)
Copies(w) == CopyAsk(w) \/ CopyBidPrice(w) \/ CopyBidVolume(w)

LEMMA SlotCopied ==
  ASSUME ProcTypeOK, HandsAreDistinct, BooksOK, NEW w \in Workers, Copies(w)
  PROVE  /\ BooksOK'
         /\ \A j \in Instruments : /\ bids'[j].tree = bids[j].tree
                                   /\ asks'[j].tree = asks[j].tree
<1> DEFINE d == Data(w).input
           i == d.instrument
           k == Data(w).specific_index
           prev == prev_index_spec(k)
<1>1. pc[w] = "copy"
  BY DEF Copies, CopyAsk, CopyBidPrice, CopyBidVolume, Copy, Goto
<1>2. i \in Instruments /\ k \in SpecificSlots /\ prev \in SpecificSlots
  BY <1>1, DataFacts, LastSlotIsOwn
<1>3. bids[i] \in BidBooks(Volumes) /\ asks[i] \in AskBooks(Volumes)
  BY <1>2 DEF BooksOK
<1>4. /\ bids[i].history[k] \in [price_bid : 0 .. INT_MAX, vol_bid : Volumes]
      /\ bids[i].history[prev] \in [price_bid : 0 .. INT_MAX, vol_bid : Volumes]
      /\ asks[i].history[prev] \in Volumes
  BY <1>2, <1>3 DEF BidBooks, AskBooks
<1> HIDE DEF d, k, prev
<1>5. CASE CopyAsk(w)
  <2>1. UNCHANGED bids
    BY <1>5 DEF CopyAsk
  <2>2. asks' = [asks EXCEPT ![i].history[k] = asks[i].history[prev]]
    BY <1>5 DEF CopyAsk, d, k, prev
  <2>3. QED
    BY <1>2, <1>4, <2>1, <2>2, SlotWritten
<1>6. CASE CopyBidPrice(w)
  <2> DEFINE shown == [bids[i].history[k] EXCEPT !.price_bid = bids[i].history[prev].price_bid]
  <2>1. UNCHANGED asks
    BY <1>6 DEF CopyBidPrice
  <2>2. bids' = [bids EXCEPT ![i].history[k] = shown]
    BY <1>6 DEF CopyBidPrice, d, k, prev
  <2>3. shown \in [price_bid : 0 .. INT_MAX, vol_bid : Volumes]
    BY <1>4
  <2>4. QED
    BY <1>2, <2>1, <2>2, <2>3, SlotWritten
<1>7. CASE CopyBidVolume(w)
  <2> DEFINE shown == [bids[i].history[k] EXCEPT !.vol_bid = bids[i].history[prev].vol_bid]
  <2>1. UNCHANGED asks
    BY <1>7 DEF CopyBidVolume
  <2>2. bids' = [bids EXCEPT ![i].history[k] = shown]
    BY <1>7 DEF CopyBidVolume, d, k, prev
  <2>3. shown \in [price_bid : 0 .. INT_MAX, vol_bid : Volumes]
    BY <1>4
  <2>4. QED
    BY <1>2, <2>1, <2>2, <2>3, SlotWritten
<1>8. QED
  BY <1>5, <1>6, <1>7 DEF Copies

LEMMA BooksKept ==
  ASSUME ProcTypeOK, HandsAreDistinct, BooksOK, [ProcNext]_vars
  PROVE  BooksOK'
<1>1. ASSUME NEW w \in Workers, ProcWorker(w)
      PROVE  BooksOK'
  <2>1. CASE InsertBid(w) \/ InsertAsk(w) \/ Copies(w)
    BY <2>1, BidInserted, AskInserted, SlotCopied
  <2>2. CASE UNCHANGED <<bids, asks>>
    BY <2>2 DEF BooksOK, BestIsCached
  <2>3. QED
    BY <1>1, <2>1, <2>2, Zenon DEF ProcWorker, Copies, Synchronise, ReadKeptPrice, ProcLoad,
       compute_return_fp_i, history_shift, bookVars
<1>2. CASE UNCHANGED <<bids, asks>>
  BY <1>2 DEF BooksOK, BestIsCached
<1>3. QED
  BY <1>1, <1>2 DEF ProcNext, ProcUpdate, ProcDrained, vars, bookVars

(* The records of the calls.                                               *)
DataOK ==
  /\ data \in Seq([input : Inputs, specific_index : SpecificSlots])
  /\ Len(data) = issued
  /\ order_indices_bid \in [Instruments -> 0 .. UINT_RANGE - 1]

LEMMA DataKept ==
  ASSUME ProcTypeOK, [ProcNext]_vars
  PROVE  DataOK'
<1>1. CASE ProcUpdate
  <2>1. PICK input \in Inputs :
          /\ data' = Append(data, [input |-> input, specific_index |->
                 order_indices_bid[input.instrument] % SPECIFIC_HISTORY_SIZE])
          /\ order_indices_bid' = [order_indices_bid EXCEPT ![input.instrument] = Unsigned(@ + 1)]
    BY <1>1 DEF ProcUpdate
  <2> DEFINE n == order_indices_bid[input.instrument]
             R == [input : Inputs, specific_index : SpecificSlots]
             r == [input |-> input, specific_index |-> n % SPECIFIC_HISTORY_SIZE]
  <2>2. input.instrument \in Instruments /\ n \in Int
    BY SizesAssumption, InputsAssumption DEF ProcTypeOK
  <2>3. /\ n % SPECIFIC_HISTORY_SIZE \in SpecificSlots
        /\ Unsigned(n + 1) \in 0 .. UINT_RANGE - 1
    <3> HIDE DEF n
    <3>1. n + 1 \in Int
      BY <2>2
    <3>2. (n % SPECIFIC_HISTORY_SIZE) \in 0 .. SPECIFIC_HISTORY_SIZE - 1
      BY <2>2, SizesAssumption, DivMod
    <3>3. ((n + 1) % UINT_RANGE) \in 0 .. UINT_RANGE - 1
      BY <3>1, SizesAssumption, DivMod
    <3>4. QED
      BY <3>2, <3>3 DEF SpecificSlots, Unsigned
  <2>4. order_indices_bid' \in [Instruments -> 0 .. UINT_RANGE - 1]
    BY <2>1, <2>2, <2>3 DEF ProcTypeOK
  <2>5. r \in R
    BY <2>3
  <2>6. data \in Seq(R) /\ data' = Append(data, r)
    BY <2>1 DEF ProcTypeOK
  <2> HIDE DEF r, R
  <2>7. data' \in Seq(R) /\ Len(data') = Len(data) + 1
    BY <2>5, <2>6
  <2>8. issued' = issued + 1 /\ Len(data) = issued
    BY <1>1 DEF ProcUpdate, Update, ProcTypeOK
  <2>9. QED
    BY <2>4, <2>7, <2>8 DEF DataOK, R
<1>2. ASSUME NEW w \in Workers, ProcWorker(w)
      PROVE  UNCHANGED <<data, order_indices_bid, issued>>
  BY <1>2 DEF ProcWorker, Synchronise, ReadKeptPrice, InsertBid, InsertAsk,
     CopyAsk, CopyBidPrice, CopyBidVolume, ProcLoad, compute_return_fp_i, history_shift,
     Dequeue, UnsetNextOrder, UnsetNextSum, WaitOrder, UnsetOwnOrder, Insert, SetOrder,
     Copy, Load, WaitSum, UnsetOwnSum, Sum, SetSum, chainVars
<1>3. CASE UNCHANGED <<data, order_indices_bid, issued>>
  BY <1>3 DEF DataOK, ProcTypeOK
<1>4. QED
  BY <1>1, <1>2, <1>3 DEF ProcNext, ProcDrained, vars

(* The value of an instrument is a positive number.                        *)
LEMMA ValueIsPositive ==
  ASSUME NEW p \in [pricebid : 0 .. INT_MAX, volbid : Volumes, volask : Volumes],
         ~NotEnoughData(p)
  PROVE  /\ compute_fp_i(Equity(p.volbid, p.volask), p.pricebid) \in Nat
         /\ compute_fp_i(Equity(p.volbid, p.volask), p.pricebid) > 0
<1> DEFINE fg == FG(Equity(p.volbid, p.volask))
           price == p.pricebid
<1>1. fg \in Nat /\ Unit \in Nat \ {0}
  BY ReturnsAssumption DEF NotEnoughData
<1>2. price \in Nat /\ price > 0
  BY VolumeFacts DEF NotEnoughData
<1>3. compute_fp_i(Equity(p.volbid, p.volask), p.pricebid) = price * Unit + fg
  BY DEF compute_fp_i
<1> HIDE DEF fg, price
<1>4. price * Unit \in Nat /\ price * Unit > 0
  BY <1>1, <1>2
<1>5. QED
  BY <1>1, <1>3, <1>4

(* The running sum and the instruments' values.                            *)
SumsOK ==
  /\ fp_i_history \in [Instruments -> [SpecificSlots -> Nat]]
  /\ sum_history \in [Slots -> Int]

LEMMA FormerValues ==
  ASSUME ProcTypeOK, HandsAreDistinct, NEW w \in Workers, pc[w] = "sum"
  PROVE  LET i == Data(w).input.instrument
             k == Data(w).specific_index IN
         /\ sum_history[prev_index(Own(w))] \in Int
         /\ fp_i_history[i][prev_index_spec(k)] \in Nat
         /\ [fp_i_history EXCEPT ![i][k] = 0][i][prev_index_spec(k)] \in Nat
<1> DEFINE i == Data(w).input.instrument
           k == Data(w).specific_index
<1>1. i \in Instruments /\ k \in SpecificSlots /\ prev_index_spec(k) \in SpecificSlots
  BY DataFacts, LastSlotIsOwn
<1>2. prev_index(Own(w)) \in Slots
  <2>1. local_data[w] \in Int /\ local_data[w] - 1 \in Int
    BY TakenFacts DEF ProcTypeOK
  <2>2. QED
    BY <2>1, PrevIndexIsPrev, OrderIndexInSlots DEF Own
<1> HIDE DEF i, k
<1>3. /\ sum_history[prev_index(Own(w))] \in Int
      /\ fp_i_history[i][prev_index_spec(k)] \in Nat
      /\ [fp_i_history EXCEPT ![i][k] = 0][i][prev_index_spec(k)] \in Nat
  BY <1>1, <1>2 DEF ProcTypeOK
<1>4. QED
  BY <1>3 DEF i, k

LEMMA SumsKept ==
  ASSUME ProcTypeOK, HandsAreDistinct, [ProcNext]_vars
  PROVE  SumsOK'
<1>1. ASSUME NEW w \in Workers, NEW value \in Nat, NEW sum \in Int, pc[w] = "sum",
             fp_i_history' = [fp_i_history EXCEPT
               ![Data(w).input.instrument][Data(w).specific_index] = value],
             sum_history' = [sum_history EXCEPT ![Own(w)] = sum]
      PROVE  SumsOK'
  <2>1. Data(w).input.instrument \in Instruments /\ Data(w).specific_index \in SpecificSlots
    BY <1>1, DataFacts
  <2>2. QED
    BY <1>1, <2>1 DEF ProcTypeOK, SumsOK
<1>3. ASSUME NEW w \in Workers, compute_return_fp_i(w)
      PROVE  SumsOK'
  <2> DEFINE p == prices[w]
             fp_i == compute_fp_i(Equity(p.volbid, p.volask), p.pricebid)
  <2>1. pc[w] = "sum"
    BY <1>3 DEF compute_return_fp_i, Sum, Goto
  <2>2. fp_i \in Nat
    BY <1>3, ValueIsPositive DEF ProcTypeOK, compute_return_fp_i
  <2> HIDE DEF fp_i
  <2>3. /\ fp_i_history' = [fp_i_history EXCEPT
              ![Data(w).input.instrument][Data(w).specific_index] = fp_i]
        /\ sum_history' = [sum_history EXCEPT ![Own(w)] = sum_history[prev_index(Own(w))]
              - fp_i_history[Data(w).input.instrument][prev_index_spec(Data(w).specific_index)]
              + fp_i]
    BY <1>3 DEF compute_return_fp_i, fp_i
  <2> DEFINE last == sum_history[prev_index(Own(w))]
             former == fp_i_history[Data(w).input.instrument]
                         [prev_index_spec(Data(w).specific_index)]
  <2>4. last \in Int /\ former \in Nat
    BY <2>1, FormerValues
  <2> HIDE DEF last, former
  <2>5. last - former + fp_i \in Int
    BY <2>2, <2>4
  <2>6. sum_history' = [sum_history EXCEPT ![Own(w)] = last - former + fp_i]
    BY <2>3 DEF last, former
  <2>7. QED
    BY <1>1, <2>1, <2>2, <2>3, <2>5, <2>6
<1>4. ASSUME NEW w \in Workers, history_shift(w)
      PROVE  SumsOK'
  <2>1. pc[w] = "sum"
    BY <1>4 DEF history_shift, Sum, Goto
  <2> DEFINE last == sum_history[prev_index(Own(w))]
             former == [fp_i_history EXCEPT
                          ![Data(w).input.instrument][Data(w).specific_index] = 0]
                            [Data(w).input.instrument][prev_index_spec(Data(w).specific_index)]
  <2>2. last \in Int /\ former \in Nat
    BY <2>1, FormerValues
  <2>3. /\ fp_i_history' = [fp_i_history EXCEPT
              ![Data(w).input.instrument][Data(w).specific_index] = 0]
        /\ sum_history' = [sum_history EXCEPT ![Own(w)] = last - former]
    BY <1>4 DEF history_shift
  <2> HIDE DEF last, former
  <2>4. last - former \in Int
    BY <2>2
  <2>5. QED
    BY <1>1, <2>1, <2>3, <2>4
<1>5. CASE UNCHANGED <<fp_i_history, sum_history>>
  BY <1>5 DEF SumsOK, ProcTypeOK
<1>6. QED
  BY <1>3, <1>4, <1>5, Zenon DEF ProcNext, ProcUpdate, ProcDrained, vars, sumVars, ProcWorker,
     Synchronise, ReadKeptPrice, InsertBid, InsertAsk, CopyAsk, CopyBidPrice, CopyBidVolume, ProcLoad

(* What the workers hold: the half of a pair, and the prices read back.    *)
LocalsOK ==
  /\ half \in [Workers -> {NoHalf} \cup 0 .. INT_MAX]
  /\ prices \in [Workers -> [pricebid : 0 .. INT_MAX, volbid : Volumes, volask : Volumes]]

LEMMA LocalsKept ==
  ASSUME ProcTypeOK, HandsAreDistinct, [ProcNext]_vars
  PROVE  LocalsOK'
<1>1. ASSUME NEW w \in Workers, NEW value \in {NoHalf} \cup 0 .. INT_MAX,
             half' = [half EXCEPT ![w] = value], prices' = prices
      PROVE  LocalsOK'
  BY <1>1 DEF LocalsOK, ProcTypeOK
<1>2. ASSUME NEW w \in Workers, pc[w] # "dequeue"
      PROVE  LET i == Data(w).input.instrument
                 k == Data(w).specific_index IN
             /\ bids[i].history[k] \in [price_bid : 0 .. INT_MAX, vol_bid : Volumes]
             /\ asks[i].history[k] \in Volumes
             /\ bids[i].history[prev_index_spec(k)].price_bid \in 0 .. INT_MAX
  <2> DEFINE i == Data(w).input.instrument
             k == Data(w).specific_index
  <2>1. i \in Instruments /\ k \in SpecificSlots /\ prev_index_spec(k) \in SpecificSlots
    BY <1>2, DataFacts, LastSlotIsOwn
  <2>2. bids[i] \in BidBooks(Volumes) /\ asks[i] \in AskBooks(Volumes)
    BY <2>1 DEF ProcTypeOK
  <2> HIDE DEF i, k
  <2>3. QED
    BY <2>1, <2>2 DEF BidBooks, AskBooks, i, k
<1>3. ASSUME NEW w \in Workers,
             InsertBid(w) \/ CopyBidVolume(w) \/ ReadKeptPrice(w) \/ CopyBidPrice(w)
      PROVE  LocalsOK'
  <2>1. CASE InsertBid(w) \/ CopyBidVolume(w)
    BY <1>1, <2>1 DEF InsertBid, CopyBidVolume
  <2>2. CASE ReadKeptPrice(w) \/ CopyBidPrice(w)
    <3>1. pc[w] # "dequeue"
      BY <2>2 DEF ReadKeptPrice, CopyBidPrice
    <3>2. PICK value \in 0 .. INT_MAX : half' = [half EXCEPT ![w] = value]
      BY <1>2, <2>2, <3>1 DEF ReadKeptPrice, CopyBidPrice
    <3>3. prices' = prices
      BY <2>2 DEF ReadKeptPrice, CopyBidPrice
    <3>4. QED
      BY <1>1, <3>2, <3>3
  <2>3. QED
    BY <1>3, <2>1, <2>2
<1>4. ASSUME NEW w \in Workers, ProcLoad(w)
      PROVE  LocalsOK'
  <2>1. pc[w] # "dequeue" /\ half' = half
    BY <1>4 DEF ProcLoad, Load, Goto
  <2>2. PICK read \in [pricebid : 0 .. INT_MAX, volbid : Volumes, volask : Volumes] :
          prices' = [prices EXCEPT ![w] = read]
    BY <1>2, <1>4, <2>1 DEF ProcLoad
  <2>3. QED
    BY <2>1, <2>2 DEF LocalsOK, ProcTypeOK
<1>5. CASE UNCHANGED <<half, prices>>
  BY <1>5 DEF LocalsOK, ProcTypeOK
<1>6. QED
  BY <1>3, <1>4, <1>5, Zenon DEF ProcNext, ProcUpdate, ProcDrained, vars, ProcWorker,
     Synchronise, InsertAsk, CopyAsk, compute_return_fp_i, history_shift
-----------------------------------------------------------------------------
(* Results.  A step of a worker reports the result of its own update, or   *)
(* nothing.                                                                *)
ResultType == [update : 0 .. Count - 1, res : [fp : Nat, sum : Int]]

Reports(w, res) ==
  /\ res \in [fp : Nat, sum : Int]
  /\ results' = Append(results, [update |-> local_data[w], res |-> res])

LEMMA ReportKept ==
  ASSUME ProcTypeOK, HandsAreDistinct, NEW w \in Workers, pc[w] # "dequeue",
         NEW res, Reports(w, res)
  PROVE  /\ results' \in Seq(ResultType)
         /\ Len(results') = Len(results) + 1 /\ Len(results) \in Nat
         /\ results'[Len(results) + 1] = [update |-> local_data[w], res |-> res]
         /\ \A m \in 1 .. Len(results) : results'[m] = results[m]
<1> DEFINE r == [update |-> local_data[w], res |-> res]
<1>1. local_data[w] \in 0 .. Count - 1
  BY TakenFacts, ChainAssumption DEF ProcTypeOK, HandsAreDistinct
<1>2. r \in ResultType /\ results \in Seq(ResultType) /\ results' = Append(results, r)
  BY <1>1 DEF Reports, ResultType, ProcTypeOK
<1> HIDE DEF r
<1>3. /\ results' \in Seq(ResultType)
      /\ Len(results') = Len(results) + 1 /\ Len(results) \in Nat
      /\ results'[Len(results) + 1] = r
      /\ \A m \in 1 .. Len(results) : results'[m] = results[m]
  BY <1>2
<1>4. QED
  BY <1>3 DEF r

(* A step of worker w within its update, or its last one.                  *)
OwnStep(w, to) ==
  /\ pc[w] # "dequeue" /\ pc'[w] = to
  /\ \A v \in Workers : v # w => pc'[v] = pc[v] /\ prices'[v] = prices[v]
  /\ local_data' = local_data /\ Taken' = Taken

(* One that reports nothing.                                               *)
LEMMA OwnedFrame ==
  ASSUME ProcTypeOK, HandsAreDistinct, ResultsAreOwned,
         NEW w \in Workers, NEW to, OwnStep(w, to), results' = results,
         to # "dequeue" => (Answered(w)' <=> Answered(w)),
         to = "dequeue" => Answered(w),
         to \in BeforeSum => pc[w] \in BeforeSum \/ ~Answered(w)
  PROVE  ResultsAreOwned'
<1>1. /\ Taken \in Int /\ \A v \in Workers : local_data[v] \in Int
      /\ \A n \in Int : ResultsOf(n)' = ResultsOf(n)
  BY TakenFacts DEF ProcTypeOK, ResultsOf
<1>2. /\ pc[w] # "dequeue" /\ pc'[w] = to /\ local_data' = local_data /\ Taken' = Taken
      /\ \A v \in Workers : v # w => pc'[v] = pc[v] /\ prices'[v] = prices[v]
  BY DEF OwnStep
<1>3. /\ \A m \in DOMAIN results' : results'[m].update \in 0 .. Taken' - 1
      /\ \A m, k \in DOMAIN results' : results'[m].update = results'[k].update => m = k
  BY <1>2 DEF ResultsAreOwned
<1>4. ASSUME NEW v \in Workers, pc'[v] # "dequeue"
      PROVE  Answered(v)' <=> ResultsOf(local_data[v]) # {}
  BY <1>2, <1>4 DEF ResultsAreOwned, Answered
<1>5. ASSUME NEW n \in 0 .. Taken - 1, IsSummed(n)'
      PROVE  ResultsOf(n) # {}
  <2>1. CASE Holds(w, n)
    BY <1>2, <1>5, <2>1 DEF IsSummed, Holds, ResultsAreOwned
  <2>2. CASE ~Holds(w, n)
    BY <1>2, <1>5, <2>2 DEF IsSummed, Holds, ResultsAreOwned
  <2>3. QED
    BY <2>1, <2>2
<1>6. ASSUME NEW v \in Workers, pc'[v] \in BeforeSum, NEW m \in ResultsOf(local_data[v])
      PROVE  results[m].res = ZeroReturn
  BY <1>2, <1>6 DEF ResultsAreOwned
<1>7. QED
  BY <1>1, <1>2, <1>3, <1>4, <1>5, <1>6 DEF ResultsAreOwned

(* One that reports the result of an update not yet answered.              *)
LEMMA OwnedReport ==
  ASSUME ProcTypeOK, HandsAreDistinct, ResultsAreOwned,
         NEW w \in Workers, NEW to, OwnStep(w, to), to # "dequeue",
         NEW res, Reports(w, res), ~Answered(w), Answered(w)',
         to \in BeforeSum => res = ZeroReturn
  PROVE  ResultsAreOwned'
<1> DEFINE last == Len(results) + 1
<1>1. /\ Taken \in Int /\ \A v \in Workers : local_data[v] \in Int
      /\ DOMAIN results = 1 .. Len(results) /\ Len(results) \in Nat
      /\ last \in Int /\ last \notin DOMAIN results
  BY TakenFacts DEF ProcTypeOK
<1>2. /\ pc[w] # "dequeue" /\ pc'[w] = to /\ local_data' = local_data /\ Taken' = Taken
      /\ \A v \in Workers : v # w => pc'[v] = pc[v] /\ prices'[v] = prices[v]
  BY DEF OwnStep
<1>3. /\ DOMAIN results' = DOMAIN results \cup {last}
      /\ results'[last] = [update |-> local_data[w], res |-> res]
      /\ \A m \in DOMAIN results : results'[m] = results[m]
  <2>1. /\ results' \in Seq(ResultType)
        /\ Len(results') = last
        /\ results'[last] = [update |-> local_data[w], res |-> res]
        /\ \A m \in 1 .. Len(results) : results'[m] = results[m]
    BY <1>1, <1>2, ReportKept
  <2>2. DOMAIN results' = 1 .. last
    BY <2>1
  <2>3. QED
    BY <1>1, <2>1, <2>2
<1> HIDE DEF last
<1>4. /\ ResultsOf(local_data[w]) = {} /\ local_data[w] \in 0 .. Taken - 1
      /\ \A m \in DOMAIN results : results[m].update # local_data[w]
  BY <1>2 DEF ResultsAreOwned, ResultsOf, HandsAreDistinct
<1>5. \A n \in Int : ResultsOf(n)' =
        IF n = local_data[w] THEN {last} ELSE ResultsOf(n)
  BY <1>1, <1>3, <1>4 DEF ResultsOf
<1>6. /\ \A m \in DOMAIN results' : results'[m].update \in 0 .. Taken' - 1
      /\ \A m, k \in DOMAIN results' : results'[m].update = results'[k].update => m = k
  BY <1>2, <1>3, <1>4 DEF ResultsAreOwned
<1>7. ASSUME NEW v \in Workers, v # w, pc[v] # "dequeue"
      PROVE  local_data[v] # local_data[w]
  BY <1>2, <1>7 DEF HandsAreDistinct, Holds
<1>8. ASSUME NEW v \in Workers, pc'[v] # "dequeue"
      PROVE  Answered(v)' <=> ResultsOf(local_data[v])' # {}
  <2>1. CASE v = w
    BY <1>1, <1>2, <1>5, <2>1
  <2>2. CASE v # w
    BY <1>1, <1>2, <1>5, <1>7, <1>8, <2>2 DEF ResultsAreOwned, Answered
  <2>3. QED
    BY <2>1, <2>2
<1>9. ASSUME NEW n \in 0 .. Taken - 1, IsSummed(n)'
      PROVE  ResultsOf(n)' # {}
  BY <1>1, <1>2, <1>5, <1>9 DEF IsSummed, Holds, ResultsAreOwned
<1>10. ASSUME NEW v \in Workers, pc'[v] \in BeforeSum, NEW m \in ResultsOf(local_data[v])'
      PROVE  results'[m].res = ZeroReturn
  <2>1. CASE v = w
    BY <1>1, <1>2, <1>3, <1>5, <1>10, <2>1
  <2>2. CASE v # w
    <3>1. pc[v] \in BeforeSum /\ m \in ResultsOf(local_data[v])
      BY <1>1, <1>2, <1>5, <1>7, <1>10, <2>2 DEF BeforeSum
    <3>2. QED
      BY <1>3, <3>1 DEF ResultsAreOwned, ResultsOf
  <2>3. QED
    BY <2>1, <2>2
<1>11. QED
  BY <1>1, <1>2, <1>6, <1>8, <1>9, <1>10 DEF ResultsAreOwned

(* The steps that report: an update without a price is answered when it is *)
(* read back, the others when their sum is stored.                         *)
LEMMA LoadReports ==
  ASSUME ProcTypeOK, HandsAreDistinct, NEW w \in Workers, ProcLoad(w)
  PROVE  /\ OwnStep(w, "wait_sum") /\ pc[w] = "load"
         /\ Answered(w)' <=> NotEnoughData(prices[w])'
         /\ \/ NotEnoughData(prices[w])' /\ Reports(w, ZeroReturn)
            \/ ~NotEnoughData(prices[w])' /\ results' = results
<1>1. /\ pc[w] = "load" /\ pc' = [pc EXCEPT ![w] = "wait_sum"]
      /\ UNCHANGED <<issued, ring, local_data>>
  BY DEF ProcLoad, Load, Goto
<1>2. PICK read : /\ prices' = [prices EXCEPT ![w] = read]
                  /\ IF NotEnoughData(read) THEN Report(w, ZeroReturn) ELSE results' = results
  BY DEF ProcLoad
<1>3. pc'[w] = "wait_sum" /\ prices'[w] = read
      /\ \A v \in Workers : v # w => pc'[v] = pc[v] /\ prices'[v] = prices[v]
  BY <1>1, <1>2 DEF ProcTypeOK, TypeOK
<1>4. OwnStep(w, "wait_sum")
  BY <1>1, <1>3 DEF OwnStep, Taken
<1>5. ZeroReturn \in [fp : Nat, sum : Int]
  BY ReturnsAssumption DEF ZeroReturn
<1>6. NotEnoughData(prices[w])' <=> NotEnoughData(read)
  BY <1>3 DEF NotEnoughData
<1>7. QED
  BY <1>1, <1>2, <1>3, <1>4, <1>5, <1>6 DEF Report, Reports, Answered, BeforeSum

LEMMA SumReports ==
  ASSUME ProcTypeOK, HandsAreDistinct, NEW w \in Workers, compute_return_fp_i(w)
  PROVE  /\ OwnStep(w, "set_sum") /\ pc[w] = "sum" /\ ~NotEnoughData(prices[w])
         /\ \E res : Reports(w, res)
<1> DEFINE i == Data(w).input.instrument
           k == Data(w).specific_index
           p == prices[w]
           fp_i == compute_fp_i(Equity(p.volbid, p.volask), p.pricebid)
           last == sum_history[prev_index(Own(w))]
           former == fp_i_history[i][prev_index_spec(k)]
           sum == last - former + fp_i
<1>1. /\ pc[w] = "sum" /\ pc' = [pc EXCEPT ![w] = "set_sum"]
      /\ UNCHANGED <<issued, ring, local_data, prices>>
      /\ ~NotEnoughData(prices[w])
  BY DEF compute_return_fp_i, Sum, Goto
<1>2. OwnStep(w, "set_sum")
  BY <1>1 DEF OwnStep, Taken, ProcTypeOK, TypeOK
<1>3. Report(w, Return(fp_i, sum))
  BY DEF compute_return_fp_i
<1>4. fp_i \in Nat
  BY <1>1, ValueIsPositive DEF ProcTypeOK
<1>5. last \in Int /\ former \in Nat
  BY <1>1, FormerValues
<1> HIDE DEF fp_i, last, former
<1>6. sum \in Int
  BY <1>4, <1>5
<1> HIDE DEF sum
<1>7. Return(fp_i, sum) \in [fp : Nat, sum : Int]
  BY <1>4, <1>6, ReturnsAssumption DEF Return
<1>8. QED
  BY <1>1, <1>2, <1>3, <1>7 DEF Report, Reports

LEMMA OwnedKept ==
  ASSUME ProcTypeOK, HandsAreDistinct, ResultsAreOwned, [ProcNext]_vars
  PROVE  ResultsAreOwned'
<1>1. ASSUME UNCHANGED <<pc, local_data, prices, results>>, Taken' = Taken
      PROVE  ResultsAreOwned'
  BY <1>1 DEF ResultsAreOwned, Answered, ResultsOf, IsSummed, Holds
<1>2. CASE ProcUpdate
  <2>1. /\ UNCHANGED <<pc, local_data, prices, results>>
        /\ issued' = issued + 1 /\ ring' = Append(ring, issued)
    BY <1>2 DEF ProcUpdate, Update
  <2>2. Len(ring') = Len(ring) + 1
    BY <2>1 DEF ProcTypeOK, TypeOK
  <2>3. Taken' = Taken
    BY <2>1, <2>2, TakenFacts DEF Taken, ProcTypeOK
  <2>4. QED
    BY <1>1, <2>1, <2>3
<1>3. ASSUME NEW w \in Workers, Dequeue(w), UNCHANGED <<prices, results>>
      PROVE  ResultsAreOwned'
  <2>1. /\ pc[w] = "dequeue" /\ pc'[w] = "unset_next_order"
        /\ \A v \in Workers : v # w => pc'[v] = pc[v] /\ local_data'[v] = local_data[v]
        /\ issued' = issued
        /\ ring \in Seq(Int) /\ ring # << >> /\ ring' = Tail(ring) /\ local_data'[w] = ring[1]
    BY <1>3, ChainAssumption DEF Dequeue, Goto, RingEmpty, ProcTypeOK, TypeOK
  <2>2. Len(ring) >= 1 /\ Len(ring') = Len(ring) - 1
    BY <2>1
  <2> /\ Taken \in Int /\ Taken <= issued /\ issued \in Nat /\ Len(ring) \in Nat
    BY TakenFacts DEF ProcTypeOK
  <2>3. Taken' = Taken + 1 /\ local_data'[w] = Taken /\ Taken \in Int
    <3>1. Taken' = Taken + 1
      BY <2>1, <2>2 DEF Taken
    <3>2. ring[1] = Taken
      BY <2>2 DEF HandsAreDistinct
    <3>3. QED
      BY <2>1, <3>1, <3>2
  <2>4. ResultsOf(Taken) = {} /\ \A n \in Int : ResultsOf(n)' = ResultsOf(n)
    BY <1>3, <2>3 DEF ResultsAreOwned, ResultsOf
  <2>5. ASSUME NEW v \in Workers, pc'[v] # "dequeue"
        PROVE  Answered(v)' <=> ResultsOf(local_data[v])' # {}
    <3>1. CASE v = w
      BY <1>3, <2>1, <2>3, <2>4, <3>1 DEF Answered, BeforeSum, ResultsOf
    <3>2. CASE v # w
      BY <1>3, <2>1, <2>5, <3>2 DEF Answered, ResultsAreOwned, ResultsOf
    <3>3. QED
      BY <3>1, <3>2
  <2>6. ASSUME NEW n \in 0 .. Taken' - 1, IsSummed(n)'
        PROVE  ResultsOf(n)' # {}
    <3>1. n # Taken
      BY <2>1, <2>3, <2>6 DEF IsSummed, Holds
    <3>2. n \in 0 .. Taken - 1 /\ n \in Int
      BY <2>3, <3>1
    <3>3. IsSummed(n)
      <4>1. n < Taken
        BY <2>3, <3>2
      <4>2. \A v \in Workers : ~Holds(v, n)
        BY <2>1, <2>6 DEF IsSummed, Holds
      <4>3. QED
        BY <4>1, <4>2 DEF IsSummed
    <3>4. QED
      BY <2>4, <3>2, <3>3 DEF ResultsAreOwned
  <2>7. ASSUME NEW v \in Workers, pc'[v] \in BeforeSum, NEW m \in ResultsOf(local_data[v])'
        PROVE  results'[m].res = ZeroReturn
    BY <1>3, <2>1, <2>7 DEF BeforeSum, ResultsAreOwned, ResultsOf
  <2>8. /\ \A m \in DOMAIN results' : results'[m].update \in 0 .. Taken' - 1
        /\ \A m, k \in DOMAIN results' : results'[m].update = results'[k].update => m = k
    BY <1>3, <2>3 DEF ResultsAreOwned
  <2>9. QED
    BY <2>5, <2>6, <2>7, <2>8 DEF ResultsAreOwned
<1>4. ASSUME NEW w \in Workers, Synchronise(w), ~Dequeue(w)
      PROVE  ResultsAreOwned'
  <2>1. PICK to : /\ pc' = [pc EXCEPT ![w] = to] /\ pc[w] # "dequeue"
                  /\ UNCHANGED <<issued, ring, local_data, prices, results>>
                  /\ to = "dequeue" => pc[w] = "set_sum"
                  /\ to # "dequeue" => /\ to # "set_sum" /\ pc[w] # "set_sum"
                                       /\ to \in BeforeSum <=> pc[w] \in BeforeSum
    BY <1>4 DEF Synchronise, UnsetNextOrder, UnsetNextSum, WaitOrder, UnsetOwnOrder,
       SetOrder, WaitSum, UnsetOwnSum, SetSum, Goto, BeforeSum
  <2>2. OwnStep(w, to)
    BY <2>1 DEF OwnStep, Taken, ProcTypeOK, TypeOK
  <2>3. /\ to # "dequeue" => (Answered(w)' <=> Answered(w))
        /\ to = "dequeue" => Answered(w)
        /\ to \in BeforeSum => pc[w] \in BeforeSum
    BY <2>1, <2>2 DEF Answered, OwnStep, BeforeSum
  <2>4. QED
    BY <2>1, <2>2, <2>3, OwnedFrame
<1>5. ASSUME NEW w \in Workers,
             InsertBid(w) \/ InsertAsk(w) \/ CopyAsk(w) \/ CopyBidVolume(w) \/ history_shift(w)
      PROVE  ResultsAreOwned'
  <2>1. PICK to \in Stages \ {"dequeue"} :
          /\ pc' = [pc EXCEPT ![w] = to]
          /\ UNCHANGED <<issued, ring, local_data, prices, results>>
          /\ \/ pc[w] = "insert" /\ to = "set_order"
             \/ pc[w] = "copy" /\ to = "load"
             \/ pc[w] = "sum" /\ to = "set_sum" /\ NotEnoughData(prices[w])
    BY <1>5 DEF InsertBid, InsertAsk, CopyAsk, CopyBidVolume, history_shift, Insert, Copy, Sum,
       Goto, Stages
  <2>2. OwnStep(w, to) /\ to # "dequeue"
    BY <2>1 DEF OwnStep, Taken, ProcTypeOK, TypeOK
  <2>3. /\ Answered(w)' <=> Answered(w)
        /\ to \notin BeforeSum
    BY <2>1, <2>2 DEF Answered, OwnStep, BeforeSum
  <2>4. QED
    BY <2>1, <2>2, <2>3, OwnedFrame
<1>6. ASSUME NEW w \in Workers, ReadKeptPrice(w) \/ CopyBidPrice(w)
      PROVE  ResultsAreOwned'
  BY <1>1, <1>6 DEF ReadKeptPrice, CopyBidPrice, chainVars, Taken
<1>7. ASSUME NEW w \in Workers, ProcLoad(w)
      PROVE  ResultsAreOwned'
  <2>1. /\ OwnStep(w, "wait_sum") /\ pc[w] = "load"
        /\ Answered(w)' <=> NotEnoughData(prices[w])'
        /\ \/ NotEnoughData(prices[w])' /\ Reports(w, ZeroReturn)
           \/ ~NotEnoughData(prices[w])' /\ results' = results
    BY <1>7, LoadReports
  <2>2. ~Answered(w)
    BY <2>1 DEF Answered, BeforeSum
  <2>3. QED
    BY <2>1, <2>2, OwnedFrame, OwnedReport
<1>8. ASSUME NEW w \in Workers, compute_return_fp_i(w)
      PROVE  ResultsAreOwned'
  <2>1. PICK res : /\ OwnStep(w, "set_sum") /\ pc[w] = "sum" /\ ~NotEnoughData(prices[w])
                   /\ Reports(w, res)
    BY <1>8, SumReports
  <2>2. ~Answered(w) /\ Answered(w)' /\ "set_sum" \notin BeforeSum
    BY <2>1 DEF Answered, BeforeSum, OwnStep
  <2>3. QED
    BY <2>1, <2>2, OwnedReport
<1>9. CASE UNCHANGED vars
  BY <1>1, <1>9 DEF vars, Taken
<1>10. ASSUME NEW w \in Workers, ProcWorker(w)
       PROVE  ResultsAreOwned'
  <2>1. CASE Synchronise(w)
    BY <1>3, <1>4, <2>1 DEF Synchronise
  <2>2. QED
    BY <1>5, <1>6, <1>7, <1>8, <1>10, <2>1, Zenon DEF ProcWorker
<1>11. QED
  BY <1>2, <1>9, <1>10 DEF ProcNext, ProcDrained
-----------------------------------------------------------------------------
(* The invariant of the data.                                              *)
LEMMA EmptyBooks ==
  ASSUME NEW left \in Leftovers
  PROVE  /\ EmptyBids(left) \in BidBooks(Volumes) /\ EmptyAsks(left) \in AskBooks(Volumes)
         /\ CachedBid(EmptyBids(left)) = HighestBid(EmptyBids(left).tree)
         /\ CachedAsk(EmptyAsks(left)) = LowestAsk(EmptyAsks(left).tree)
<1>1. EmptyTree \in Trees /\ DOMAIN EmptyTree = {}
  <2>1. EmptyTree \in [{} -> VolumeSet \ {0}] /\ {} \in SUBSET PriceSet
    BY DEF EmptyTree
  <2>2. QED
    BY <2>1 DEF Trees, EmptyTree
<1>2. /\ 0 \in 0 .. INT_MAX /\ INT_MAX \in 0 .. INT_MAX
      /\ left \in 0 .. INT_MAX /\ left \in Volumes /\ 0 \in Volumes
  BY VolumeFacts
<1>3. [k \in SpecificSlots |-> IF Cleared(k) THEN NoBid
                               ELSE [price_bid |-> left, vol_bid |-> left]]
        \in [SpecificSlots -> [price_bid : 0 .. INT_MAX, vol_bid : Volumes]]
  BY <1>2 DEF NoBid
<1>4. [k \in SpecificSlots |-> IF Cleared(k) THEN 0 ELSE left] \in [SpecificSlots -> Volumes]
  BY <1>2
<1>5. EmptyBids(left) \in BidBooks(Volumes) /\ EmptyAsks(left) \in AskBooks(Volumes)
  BY <1>1, <1>2, <1>3, <1>4 DEF EmptyBids, EmptyAsks, BidBooks, AskBooks
<1>6. QED
  BY <1>1, <1>5 DEF EmptyBids, EmptyAsks, CachedBid, CachedAsk, HighestBid, LowestAsk, NoBid, NoAsk

LEMMA ProcInitEstablishes ==
  ASSUME ProcInit
  PROVE  ProcIInv
<1>1. /\ issued = 0 /\ ring = << >> /\ data = << >> /\ results = << >>
      /\ Taken = 0 /\ Len(ring) = 0 /\ Len(data) = 0
      /\ \A w \in Workers : pc[w] = "dequeue"
  <2>1. /\ issued = 0 /\ ring = << >> /\ data = << >> /\ results = << >>
        /\ pc = [w \in Workers |-> "dequeue"]
    BY DEF ProcInit, Init
  <2>2. Len(ring) = 0 /\ Len(data) = 0
    BY <2>1
  <2>3. issued = 0 /\ \A w \in Workers : pc[w] = "dequeue"
    BY <2>1
  <2>4. Taken = 0
    BY <2>2, <2>3 DEF Taken
  <2>5. QED
    BY <2>1, <2>2, <2>3, <2>4
<1>2. TypeOK
  BY SizesAssumption, ChainAssumption
  DEF ProcInit, Init, SyncInit, TypeOK, SyncTypeOK, Slots, Stages
<1>3. PICK left \in Leftovers :
        /\ bids = [i \in Instruments |-> EmptyBids(left)]
        /\ asks = [i \in Instruments |-> EmptyAsks(left)]
        /\ fp_i_history = [i \in Instruments |->
             [k \in SpecificSlots |-> IF Cleared(k) THEN 0 ELSE left]]
  BY DEF ProcInit
<1>4. /\ bids \in [Instruments -> BidBooks(Volumes)]
      /\ asks \in [Instruments -> AskBooks(Volumes)]
      /\ BestIsCached
  BY <1>3, EmptyBooks DEF BestIsCached
<1>5. fp_i_history \in [Instruments -> [SpecificSlots -> Nat]]
  <2>1. left \in Nat
    BY VolumeFacts
  <2>2. QED
    BY <1>3, <2>1
<1>6. /\ order_indices_bid \in [Instruments -> 0 .. UINT_RANGE - 1]
      /\ sum_history \in [Slots -> Int]
  BY SizesAssumption DEF ProcInit
<1>7. /\ half \in [Workers -> {NoHalf} \cup 0 .. INT_MAX]
      /\ prices \in [Workers -> [pricebid : 0 .. INT_MAX, volbid : Volumes, volask : Volumes]]
  BY VolumeFacts DEF ProcInit, NoPrices
<1>8. /\ data \in Seq([input : Inputs, specific_index : SpecificSlots])
      /\ results \in Seq([update : 0 .. Count - 1, res : [fp : Nat, sum : Int]])
  BY <1>1
<1>9. ProcTypeOK
  BY <1>1, <1>2, <1>4, <1>5, <1>6, <1>7, <1>8 DEF ProcTypeOK
<1>10. HandsAreDistinct /\ ResultsAreOwned
  BY <1>1 DEF HandsAreDistinct, ResultsAreOwned, BeforeSum
<1>11. QED
  BY <1>4, <1>9, <1>10 DEF ProcIInv

(* The calls of Result() so far are a sequence of results.                 *)
LEMMA ResultsTyped ==
  ASSUME ProcTypeOK, HandsAreDistinct, [ProcNext]_vars
  PROVE  results' \in Seq([update : 0 .. Count - 1, res : [fp : Nat, sum : Int]])
<1>1. CASE results' = results
  BY <1>1 DEF ProcTypeOK
<1>2. ASSUME NEW w \in Workers, ProcLoad(w) \/ compute_return_fp_i(w)
      PROVE  results' \in Seq(ResultType) \/ results' = results
  BY <1>2, LoadReports, SumReports, ReportKept DEF OwnStep
<1>3. QED
  BY <1>1, <1>2, Zenon DEF ProcNext, ProcUpdate, ProcDrained, vars, ProcWorker, Synchronise,
     ReadKeptPrice, InsertBid, InsertAsk, CopyAsk, CopyBidPrice, CopyBidVolume, history_shift,
     ResultType

LEMMA ProcStepKeeps ==
  ASSUME ProcIInv, [ProcNext]_vars
  PROVE  ProcIInv'
<1>1. ProcTypeOK /\ HandsAreDistinct /\ BestIsCached /\ ResultsAreOwned /\ TypeOK /\ BooksOK
  BY DEF ProcIInv, ProcTypeOK, BooksOK
<1>2. [Next]_chainVars
  BY StepOfChain
<1>3. TypeOK' /\ HandsAreDistinct'
  BY <1>1, <1>2, TypeOKInductive, HandsKept
<1>4. BooksOK' /\ DataOK' /\ SumsOK' /\ LocalsOK'
  BY <1>1, BooksKept, DataKept, SumsKept, LocalsKept
<1>5. ProcTypeOK'
  BY <1>1, <1>3, <1>4, ResultsTyped DEF BooksOK, DataOK, SumsOK, LocalsOK, ProcTypeOK
<1>6. ResultsAreOwned'
  BY <1>1, OwnedKept
<1>7. QED
  BY <1>3, <1>4, <1>5, <1>6 DEF ProcIInv, BooksOK

(* Whatever the schedule and however many workers: the types, the cached   *)
(* best offers, and who has answered what (worker.cc, table.h).            *)
THEOREM ProcInvariant == ProcSpec => []ProcIInv
<1>1. ProcInit => ProcIInv
  BY ProcInitEstablishes
<1>2. ProcIInv /\ [ProcNext]_vars => ProcIInv'
  BY ProcStepKeeps
<1>3. QED
  BY <1>1, <1>2, PTL DEF ProcSpec

(* The state of the processor has the types that the code's arrays, books  *)
(* and records give it.                                                    *)
THEOREM ProcTypeCorrect == ProcSpec => []ProcTypeOK
<1>1. ProcIInv => ProcTypeOK
  BY DEF ProcIInv
<1>2. QED
  BY <1>1, ProcInvariant, PTL
-----------------------------------------------------------------------------
LEMMA WorkersFinite == IsFiniteSet(Workers)
<1>1. PICK a \in Workers : TRUE
  BY ChainAssumption
<1>2. CASE Workers = {a}
  BY <1>2, FS_Singleton
<1>3. CASE Workers # {a}
  <2>1. PICK b \in Workers : b # a
    BY <1>1, <1>3
  <2>2. Workers = {a} \cup {b}
    BY <2>1, TwoWorkersAssumption
  <2>3. QED
    BY <2>2, FS_Singleton, FS_AddElement
<1>4. QED
  BY <1>2, <1>3

(* Results, with two workers.  The updates in hand are the last two taken, *)
(* so one that has no result yet is among them.                            *)
LEMMA StoredIsAnswered ==
  ASSUME ProcIInv, IInv, NEW n \in 0 .. issued - 1, n < SumsStored
  PROVE  ResultsOf(n) # {}
<1> DEFINE U == {w \in Workers : pc[w] \notin {"dequeue", "set_sum"}}
<1>1. /\ Taken \in Int /\ \A w \in Workers : local_data[w] \in Int
      /\ \A w \in Workers : pc[w] # "dequeue" => local_data[w] \in {Taken - 1, Taken - 2}
      /\ n \in Int /\ n >= 0
  BY Near DEF IInv, WindowOfTwo
<1>2. IsFiniteSet(Workers)
  BY WorkersFinite
<1>3. IsFiniteSet(U) /\ Cardinality(U) \in Nat
  BY <1>2, FS_Subset, FS_CardinalityType
<1>4. n < Taken - Cardinality(U)
  BY DEF SumsStored
<1>5. CASE IsSummed(n)
  BY <1>1, <1>3, <1>4, <1>5 DEF ProcIInv, ResultsAreOwned
<1>6. CASE ~IsSummed(n)
  <2>1. PICK w \in Workers : Holds(w, n)
    BY <1>1, <1>3, <1>4, <1>6 DEF IsSummed
  <2>2. pc[w] # "dequeue" /\ local_data[w] = n
    BY <2>1 DEF Holds
  <2>3. CASE pc[w] = "set_sum"
    BY <2>2, <2>3 DEF ProcIInv, ResultsAreOwned, Answered
  <2>4. CASE pc[w] # "set_sum"
    <3>1. w \in U
      BY <2>2, <2>4
    <3>2. Cardinality(U) >= 1
      <4>1. {w} \subseteq U /\ Cardinality({w}) = 1
        BY <3>1, FS_Singleton
      <4>2. QED
        BY <1>3, <4>1, FS_Subset
    <3>3. n = Taken - 2 /\ Cardinality(U) < 2
      <4> HIDE DEF U
      <4>1. QED
        BY <1>1, <1>3, <1>4, <2>2, <3>2
    <3>4. PICK v \in Workers : Holds(v, Taken - 1)
      BY <2>1, <3>3 DEF IInv, WindowOfTwo
    <3>5. v # w /\ pc[v] # "dequeue" /\ local_data[v] = n + 1
      BY <1>1, <2>2, <3>3, <3>4 DEF Holds
    <3>6. v \notin U
      <4>1. SUFFICES ASSUME v \in U PROVE FALSE
        OBVIOUS
      <4>2. {w} \cup {v} \subseteq U /\ Cardinality({w} \cup {v}) = 2
        <5>1. IsFiniteSet({w}) /\ Cardinality({w}) = 1
          BY FS_Singleton
        <5>2. Cardinality({w} \cup {v}) = 1 + 1
          BY <3>5, <5>1, FS_AddElement
        <5>3. QED
          BY <3>1, <4>1, <5>2
      <4>3. Cardinality(U) >= 2
        BY <1>3, <4>2, FS_Subset
      <4>4. QED
        BY <1>3, <3>3, <4>3
    <3>7. pc[v] = "set_sum"
      BY <3>5, <3>6
    <3>8. Holds(w, local_data[v] - 1)
      BY <1>1, <2>2, <3>5 DEF Holds
    <3>9. QED
      BY <3>5, <3>7, <3>8 DEF IInv, GatesHold, SumCS
  <2>5. QED
    BY <2>3, <2>4
<1>7. QED
  BY <1>5, <1>6

(* Result() is called at most once for every update, and not later than    *)
(* the step that stores the update's sum (worker.cc:231-244): what a       *)
(* result is reported for is never reported again.                         *)
THEOREM OneResult == ProcSpec => []OneResultPerUpdate
<1>1. ProcIInv /\ IInv => OneResultPerUpdate
  <2> SUFFICES ASSUME ProcIInv, IInv, NEW n \in 0 .. issued - 1
               PROVE  /\ Cardinality(ResultsOf(n)) <= 1
                      /\ n < SumsStored => ResultsOf(n) # {}
    BY DEF OneResultPerUpdate
  <2>1. Cardinality(ResultsOf(n)) <= 1
    <3>1. CASE ResultsOf(n) = {}
      BY <3>1, FS_EmptySet
    <3>2. CASE ResultsOf(n) # {}
      <4>1. PICK m \in ResultsOf(n) : TRUE
        BY <3>2
      <4>2. ResultsOf(n) = {m}
        BY <4>1 DEF ProcIInv, ResultsAreOwned, ResultsOf
      <4>3. Cardinality({m}) = 1
        BY FS_Singleton
      <4>4. QED
        BY <4>2, <4>3
    <3>3. QED
      BY <3>1, <3>2
  <2>2. QED
    BY <2>1, StoredIsAnswered
<1>2. QED
  BY <1>1, ProcInvariant, ProcFlagsAreTruthful, PTL
-----------------------------------------------------------------------------
(* A result that is called before one of an earlier update is 0.0, and the *)
(* update it overtakes is the one before, in another worker's hands.       *)
OvertakenByOne ==
  \A m, k \in DOMAIN results :
    m < k /\ results[k].update < results[m].update =>
      /\ results[m].res = ZeroReturn
      /\ results[m].update = results[k].update + 1
      /\ \E v, w \in Workers : v # w

LEMMA ReportOvertakesByOne ==
  ASSUME ProcIInv, IInv, OvertakenByOne,
         NEW w \in Workers, pc[w] # "dequeue", NEW res, Reports(w, res)
  PROVE  OvertakenByOne'
<1>1. /\ results' \in Seq(ResultType)
      /\ Len(results') = Len(results) + 1 /\ Len(results) \in Nat
      /\ results'[Len(results) + 1] = [update |-> local_data[w], res |-> res]
      /\ \A m \in 1 .. Len(results) : results'[m] = results[m]
  BY ReportKept DEF ProcIInv
<1> DEFINE last == Len(results) + 1
<1>2. /\ DOMAIN results = 1 .. Len(results) /\ DOMAIN results' = 1 .. last
  BY <1>1 DEF ProcIInv, ProcTypeOK
<1>3. /\ Taken \in Int /\ \A v \in Workers : local_data[v] \in Int
      /\ local_data[w] \in {Taken - 1, Taken - 2}
  BY Near
<1>4. ASSUME NEW m \in 1 .. Len(results), local_data[w] < results[m].update
      PROVE  /\ results[m].res = ZeroReturn
             /\ results[m].update = local_data[w] + 1
             /\ \E u, v \in Workers : u # v
  <2>1. results[m].update \in Int /\ results[m].update <= Taken - 1
    BY <1>2, <1>3 DEF ProcIInv, ResultsAreOwned
  <2>2. local_data[w] = Taken - 2 /\ results[m].update = Taken - 1
    BY <1>3, <1>4, <2>1
  <2>3. PICK v \in Workers : Holds(v, Taken - 1)
    BY <2>2 DEF IInv, WindowOfTwo, Holds
  <2>4. v # w /\ pc[v] # "dequeue" /\ local_data[v] = Taken - 1
    BY <1>3, <2>2, <2>3 DEF Holds
  <2>5. m \in ResultsOf(local_data[v])
    BY <1>2, <2>2, <2>4 DEF ResultsOf
  <2>6. Answered(v)
    BY <2>4, <2>5 DEF ProcIInv, ResultsAreOwned
  <2>7. pc[v] # "set_sum"
    <3>1. Holds(w, local_data[v] - 1)
      BY <1>3, <2>2, <2>4 DEF Holds
    <3>2. QED
      BY <2>4, <3>1 DEF IInv, GatesHold, SumCS
  <2>8. results[m].res = ZeroReturn
    BY <2>5, <2>6, <2>7 DEF ProcIInv, ResultsAreOwned, Answered
  <2>9. QED
    BY <1>3, <2>2, <2>4, <2>8
<1> SUFFICES ASSUME NEW m \in 1 .. last, NEW k \in 1 .. last, m < k,
                    results'[k].update < results'[m].update
             PROVE  /\ results'[m].res = ZeroReturn
                    /\ results'[m].update = results'[k].update + 1
                    /\ \E u, v \in Workers : u # v
  BY <1>2 DEF OvertakenByOne
<1>5. m \in 1 .. Len(results)
  BY <1>1
<1>6. CASE k = last
  BY <1>1, <1>4, <1>5, <1>6
<1>7. CASE k \in 1 .. Len(results)
  BY <1>1, <1>2, <1>5, <1>7 DEF OvertakenByOne
<1>8. QED
  BY <1>1, <1>6, <1>7

LEMMA OvertakesKept ==
  ASSUME ProcIInv, IInv, OvertakenByOne, [ProcNext]_vars
  PROVE  OvertakenByOne'
<1>1. CASE results' = results
  BY <1>1 DEF OvertakenByOne
<1>2. ASSUME NEW w \in Workers, ProcLoad(w) \/ compute_return_fp_i(w)
      PROVE  \/ pc[w] # "dequeue" /\ \E res : Reports(w, res)
             \/ results' = results
  BY <1>2, LoadReports, SumReports DEF ProcIInv
<1>3. ASSUME NEW w \in Workers, ProcLoad(w) \/ compute_return_fp_i(w)
      PROVE  OvertakenByOne'
  BY <1>1, <1>2, <1>3, ReportOvertakesByOne
<1>4. QED
  BY <1>1, <1>3, Zenon DEF ProcNext, ProcUpdate, ProcDrained, vars, ProcWorker, Synchronise,
     ReadKeptPrice, InsertBid, InsertAsk, CopyAsk, CopyBidPrice, CopyBidVolume, history_shift

(* Results come out of order only where worker.cc:235 reports 0.0 before   *)
(* the wait for the sums, and overtake no more updates than other workers  *)
(* can hold.                                                               *)
THEOREM ZeroOvertakes == ProcSpec => []OnlyZeroOvertakes
<1>1. ProcInit => OvertakenByOne
  <2>1. ProcInit => results = << >>
    BY DEF ProcInit
  <2>2. QED
    BY <2>1 DEF OvertakenByOne
<1>2. ProcIInv /\ IInv /\ OvertakenByOne /\ [ProcNext]_vars => OvertakenByOne'
  BY OvertakesKept
<1>3. ProcIInv /\ OvertakenByOne => OnlyZeroOvertakes
  <2> SUFFICES ASSUME ProcIInv, OvertakenByOne, NEW m \in DOMAIN results
               PROVE  LET late == {k \in m + 1 .. Len(results) :
                                     results[k].update < results[m].update}
                      IN /\ late # {} => results[m].res = ZeroReturn
                         /\ Cardinality(late) < Cardinality(Workers)
    BY DEF OnlyZeroOvertakes
  <2> DEFINE late == {k \in m + 1 .. Len(results) : results[k].update < results[m].update}
  <2>1. DOMAIN results = 1 .. Len(results) /\ Len(results) \in Nat
    BY DEF ProcIInv, ProcTypeOK
  <2>2. \A n \in 1 .. Len(results) : results[n].update \in Int
    <3>1. Taken \in Int
      BY TakenFacts DEF ProcIInv, ProcTypeOK
    <3>2. QED
      BY <2>1, <3>1 DEF ProcIInv, ResultsAreOwned
  <2>3. \A k \in late : /\ k \in DOMAIN results
                        /\ results[m].res = ZeroReturn
                        /\ results[m].update = results[k].update + 1
                        /\ \E v, w \in Workers : v # w
    BY <2>1 DEF OvertakenByOne
  <2>4. CASE late = {}
    <3>1. Cardinality(late) = 0 /\ Cardinality(Workers) \in {1, 2}
      BY <2>4, FS_EmptySet, WorkerCount
    <3>2. QED
      BY <2>4, <3>1
  <2>5. CASE late # {}
    <3>1. PICK k \in late : TRUE
      BY <2>5
    <3>2. \A j \in late : results[j].update = results[k].update
      BY <2>1, <2>2, <2>3, <3>1
    <3>3. \A j \in late : j = k
      BY <2>3, <3>1, <3>2 DEF ProcIInv, ResultsAreOwned
    <3>4. late = {k}
      BY <3>1, <3>3
    <3> HIDE DEF late
    <3>5. Cardinality(late) = 1
      BY <3>4, FS_Singleton
    <3>6. Cardinality(Workers) = 2
      BY <2>3, <3>1, WorkerCount
    <3>7. QED
      BY <2>3, <3>1, <3>5, <3>6 DEF late
  <2>6. QED
    BY <2>4, <2>5
<1>4. QED
  BY <1>1, <1>2, <1>3, ProcInvariant, ProcFlagsAreTruthful, PTL DEF ProcSpec
-----------------------------------------------------------------------------
(* The books.  What the first n calls make of a book, call by call.        *)
LEMMA VolumeStep ==
  ASSUME NEW n \in Nat, NEW i, NEW side, NEW p
  PROVE  Ideal!Volume(n + 1, i, side, p) =
           IF Calls[n + 1].instrument = i /\ Calls[n + 1].side = side /\ Calls[n + 1].price = p
           THEN Calls[n + 1].volume
           ELSE Ideal!Volume(n, i, side, p)
<1> DEFINE Before == Ideal!CallsAt(n, i, side, p)
           After == Ideal!CallsAt(n + 1, i, side, p)
           Match == /\ Calls[n + 1].instrument = i
                    /\ Calls[n + 1].side = side
                    /\ Calls[n + 1].price = p
<1>1. 1 .. n + 1 = (1 .. n) \cup {n + 1}
  OBVIOUS
<1>2. After = IF Match THEN Before \cup {n + 1} ELSE Before
  BY <1>1 DEF Ideal!CallsAt
<1>3. \A m \in Before : m \in Int /\ m <= n
  BY DEF Ideal!CallsAt
<1>4. CASE Match
  <2>1. After = Before \cup {n + 1}
    BY <1>2, <1>4
  <2> HIDE DEF After, Before
  <2>2. \A m \in After : m \in Int /\ n + 1 >= m
    BY <1>3, <2>1
  <2>3. n + 1 \in After
    BY <2>1
  <2>4. Ideal!Max(After) = n + 1
    BY <2>2, <2>3 DEF Ideal!Max
  <2>5. Ideal!Volume(n + 1, i, side, p) =
          IF After = {} THEN 0 ELSE Calls[Ideal!Max(After)].volume
    BY DEF Ideal!Volume, After
  <2>6. QED
    BY <1>4, <2>3, <2>4, <2>5
<1>5. CASE ~Match
  <2>1. After = Before
    BY <1>2, <1>5
  <2>2. Ideal!Volume(n + 1, i, side, p) = Ideal!Volume(n, i, side, p)
    BY <2>1 DEF Ideal!Volume
  <2>3. QED
    BY <1>5, <2>2
<1>6. QED
  BY <1>4, <1>5

LEMMA OfferedHaveVolumes ==
  ASSUME NEW n \in Nat, NEW i, NEW side, NEW p
  PROVE  p \in Ideal!Offered(n, i, side) <=> Ideal!Volume(n, i, side, p) # 0
<1>1. Ideal!Volume(n, i, side, p) # 0 => \E m \in 1 .. n : Calls[m].price = p
  BY DEF Ideal!Volume, Ideal!CallsAt
<1>2. QED
  BY <1>1 DEF Ideal!Offered

(* The next call changes the book of its instrument and side as its        *)
(* insertion into the tree does.                                           *)
LEMMA BookStep ==
  ASSUME NEW n \in Nat, NEW i, NEW side
  PROVE  Ideal!Book(n + 1, i, side) =
           IF Calls[n + 1].instrument = i /\ Calls[n + 1].side = side
           THEN TreeAfter(Ideal!Book(n, i, side), Calls[n + 1].volume, Calls[n + 1].price)
           ELSE Ideal!Book(n, i, side)
<1> DEFINE c == Calls[n + 1]
           V(p) == Ideal!Volume(n, i, side, p)
           W(p) == Ideal!Volume(n + 1, i, side, p)
           Before == Ideal!Offered(n, i, side)
           After == Ideal!Offered(n + 1, i, side)
<1>1. /\ \A p : p \in Before <=> V(p) # 0
      /\ \A p : p \in After <=> W(p) # 0
      /\ \A p : W(p) = IF c.instrument = i /\ c.side = side /\ c.price = p
                       THEN c.volume ELSE V(p)
  <2>1. \A p : p \in Before <=> V(p) # 0
    BY OfferedHaveVolumes
  <2>2. \A p : p \in After <=> W(p) # 0
    <3>1. n + 1 \in Nat
      OBVIOUS
    <3>2. QED
      BY <3>1, OfferedHaveVolumes
  <2>3. \A p : W(p) = IF c.instrument = i /\ c.side = side /\ c.price = p
                      THEN c.volume ELSE V(p)
    BY VolumeStep
  <2>4. QED
    BY <2>1, <2>2, <2>3
<1>2. /\ Ideal!Book(n, i, side) = [p \in Before |-> V(p)]
      /\ Ideal!Book(n + 1, i, side) = [p \in After |-> W(p)]
  BY DEF Ideal!Book
<1> HIDE DEF V, W, Before, After, c
<1>3. CASE c.instrument = i /\ c.side = side
  <2> DEFINE tree == [p \in Before |-> V(p)]
             replaced == [p \in Before \cup {c.price} |-> IF p = c.price THEN c.volume ELSE V(p)]
  <2>1. rb_replace(tree, c.price, c.volume) = replaced
    BY DEF rb_replace
  <2>2. CASE c.volume = 0
    <3>1. After = Before \ {c.price} /\ \A p \in After : W(p) = V(p)
      BY <1>1, <1>3, <2>2
    <3>2. TreeAfter(tree, c.volume, c.price) = [p \in Before \ {c.price} |-> replaced[p]]
      <4>1. TreeAfter(tree, c.volume, c.price) = rb_delete(replaced, c.price)
        BY <2>1, <2>2 DEF TreeAfter
      <4>2. (DOMAIN replaced) \ {c.price} = Before \ {c.price}
        OBVIOUS
      <4>3. QED
        BY <4>1, <4>2 DEF rb_delete, Restrict
    <3>3. \A p \in Before \ {c.price} : replaced[p] = V(p)
      OBVIOUS
    <3>4. [p \in After |-> W(p)] = [p \in Before \ {c.price} |-> replaced[p]]
      BY <3>1, <3>3
    <3>5. QED
      BY <1>2, <1>3, <3>2, <3>4 DEF c
  <2>3. CASE c.volume # 0
    <3>1. After = Before \cup {c.price}
          /\ \A p \in After : W(p) = IF p = c.price THEN c.volume ELSE V(p)
      BY <1>1, <1>3, <2>3
    <3>2. TreeAfter(tree, c.volume, c.price) = replaced
      BY <2>1, <2>3 DEF TreeAfter
    <3>3. [p \in After |-> W(p)] = replaced
      BY <3>1
    <3>4. QED
      BY <1>2, <1>3, <3>2, <3>3 DEF c
  <2>4. QED
    BY <2>2, <2>3
<1>4. CASE ~(c.instrument = i /\ c.side = side)
  <2>1. After = Before /\ \A p \in After : W(p) = V(p)
    BY <1>1, <1>4
  <2>2. [p \in After |-> W(p)] = [p \in Before |-> V(p)]
    BY <2>1
  <2>3. QED
    BY <1>2, <1>4, <2>2 DEF c
<1>5. QED
  BY <1>3, <1>4

(* A further call leaves the books of the earlier ones alone.              *)
LEMMA BookOfEarlierCalls ==
  ASSUME NEW n \in Nat, \A m \in 1 .. n : Calls'[m] = Calls[m],
         NEW i, NEW side
  PROVE  /\ Ideal!Book(n, i, side)' = Ideal!Book(n, i, side)
         /\ Ideal!Offered(n, i, side)' = Ideal!Offered(n, i, side)
         /\ \A p : Ideal!Volume(n, i, side, p)' = Ideal!Volume(n, i, side, p)
<1>1. \A p : Ideal!CallsAt(n, i, side, p)' = Ideal!CallsAt(n, i, side, p)
  BY DEF Ideal!CallsAt
<1>2. ASSUME NEW p, Ideal!CallsAt(n, i, side, p) # {}
      PROVE  Ideal!Max(Ideal!CallsAt(n, i, side, p)) \in 1 .. n
  <2> DEFINE S == Ideal!CallsAt(n, i, side, p)
  <2>1. S \in SUBSET (0 .. n) /\ S \in SUBSET (1 .. n) /\ S # {}
    BY <1>2 DEF Ideal!CallsAt
  <2>2. Ideal!Max(S) = Max(S)
    BY DEF Ideal!Max, Max
  <2> HIDE DEF S
  <2>3. Max(S) \in S
    BY <2>1, GreatestIsMax
  <2>4. QED
    BY <2>1, <2>2, <2>3 DEF S
<1>3. \A p : Ideal!Volume(n, i, side, p)' = Ideal!Volume(n, i, side, p)
  BY <1>1, <1>2 DEF Ideal!Volume
<1>4. {Calls'[m].price : m \in 1 .. n} = {Calls[m].price : m \in 1 .. n}
  OBVIOUS
<1>5. Ideal!Offered(n, i, side)' = Ideal!Offered(n, i, side)
  BY <1>3, <1>4 DEF Ideal!Offered
<1>6. QED
  BY <1>3, <1>5 DEF Ideal!Book

(* The updates in hand that are not in their books yet.                    *)
Unplaced == {w \in Workers : pc[w] \in NotInserted \ {"set_order"}}

LEMMA UnplacedCount ==
  ASSUME TypeOK
  PROVE  /\ IsFiniteSet(Unplaced) /\ Cardinality(Unplaced) \in Nat
         /\ BooksChanged = Taken - Cardinality(Unplaced)
         /\ BooksChanged \in Int /\ BooksChanged <= issued /\ issued \in Int
<1>1. Unplaced \subseteq Workers
  BY DEF Unplaced
<1>2. IsFiniteSet(Unplaced) /\ Cardinality(Unplaced) \in Nat
  BY <1>1, WorkersFinite, FS_Subset, FS_CardinalityType
<1>3. BooksChanged = Taken - Cardinality(Unplaced)
  BY DEF BooksChanged, Unplaced
<1>4. QED
  BY <1>2, <1>3, TakenFacts

LEMMA PlacedUnlessInserted ==
  ASSUME TypeOK, [Next]_chainVars, \A w \in Workers : ~Insert(w)
  PROVE  BooksChanged' = BooksChanged
<1>1. ASSUME Taken' = Taken, Unplaced' = Unplaced
      PROVE  BooksChanged' = BooksChanged
  BY <1>1 DEF BooksChanged, Unplaced
<1>2. CASE Update
  <2>1. pc' = pc /\ issued' = issued + 1 /\ ring' = Append(ring, issued)
    BY <1>2 DEF Update
  <2>2. Len(ring') = Len(ring) + 1
    BY <2>1 DEF TypeOK
  <2>3. Taken' = Taken
    BY <2>1, <2>2, TakenFacts DEF Taken
  <2>4. QED
    BY <1>1, <2>1, <2>3 DEF Unplaced
<1>3. ASSUME NEW w \in Workers, Dequeue(w)
      PROVE  BooksChanged' = BooksChanged
  <2>1. /\ pc[w] = "dequeue" /\ pc'[w] = "unset_next_order"
        /\ \A v \in Workers : v # w => pc'[v] = pc[v]
        /\ issued' = issued
        /\ ring \in Seq(Int) /\ ring # << >> /\ ring' = Tail(ring)
    BY <1>3, ChainAssumption DEF Dequeue, Goto, RingEmpty, TypeOK
  <2>2. Len(ring') = Len(ring) - 1
    BY <2>1
  <2>3. Taken' = Taken + 1
    BY <2>1, <2>2, TakenFacts DEF Taken
  <2>4. Unplaced' = Unplaced \cup {w} /\ w \notin Unplaced
    BY <2>1 DEF Unplaced, NotInserted
  <2>5. Cardinality(Unplaced') = Cardinality(Unplaced) + 1
    BY <2>4, UnplacedCount, FS_AddElement
  <2>6. BooksChanged' = Taken' - Cardinality(Unplaced')
    BY DEF BooksChanged, Unplaced
  <2>7. QED
    BY <2>3, <2>5, <2>6, UnplacedCount, TakenFacts
<1>4. ASSUME NEW w \in Workers, Worker(w), ~Dequeue(w)
      PROVE  BooksChanged' = BooksChanged
  <2>1. PICK to : /\ pc' = [pc EXCEPT ![w] = to]
                  /\ UNCHANGED <<issued, ring>>
                  /\ pc[w] \in NotInserted \ {"set_order"} <=> to \in NotInserted \ {"set_order"}
    BY <1>4 DEF Worker, UnsetNextOrder, UnsetNextSum, WaitOrder, UnsetOwnOrder, SetOrder, Copy,
       Load, WaitSum, UnsetOwnSum, Sum, SetSum, Goto, NotInserted
  <2>2. Unplaced' = Unplaced /\ Taken' = Taken
    BY <2>1 DEF Unplaced, Taken, TypeOK
  <2>3. QED
    BY <1>1, <2>2
<1>5. CASE UNCHANGED chainVars
  BY <1>1, <1>5 DEF chainVars, Unplaced, Taken
<1>6. QED
  BY <1>2, <1>3, <1>4, <1>5 DEF Next, Drained

(* An insertion is that of the oldest update not in its book yet.          *)
LEMMA PlacedByInsert ==
  ASSUME IInv, NEW w \in Workers, Insert(w)
  PROVE  local_data[w] = BooksChanged /\ BooksChanged' = BooksChanged + 1
<1>1. /\ pc[w] = "insert" /\ pc'[w] = "set_order"
      /\ \A v \in Workers : v # w => pc'[v] = pc[v]
      /\ UNCHANGED <<issued, ring>>
  BY DEF Insert, Goto, IInv, TypeOK
<1>2. /\ Taken \in Int /\ \A v \in Workers : local_data[v] \in Int
      /\ \A v \in Workers : pc[v] # "dequeue" => local_data[v] \in {Taken - 1, Taken - 2}
      /\ w \in Unplaced /\ \A v \in Unplaced : v \in Workers /\ pc[v] \in NotInserted
      /\ TypeOK
  BY <1>1, Near DEF Unplaced, NotInserted, IInv
<1>3. ASSUME local_data[w] = Taken - 1
      PROVE  local_data[w] = BooksChanged
  <2>1. ASSUME NEW v \in Unplaced, v # w
        PROVE  FALSE
    <3>1. local_data[v] = Taken - 2
      BY <1>1, <1>2, <1>3, <2>1 DEF IInv, WindowOfTwo, Holds, NotInserted
    <3>2. Holds(v, local_data[w] - 1)
      BY <1>2, <1>3, <3>1 DEF Holds, NotInserted
    <3>3. QED
      BY <1>1, <1>2, <3>2 DEF IInv, GatesHold, BeforeInsertCS
  <2>2. Unplaced = {w}
    BY <1>2, <2>1
  <2>3. Cardinality({w}) = 1
    BY FS_Singleton
  <2>4. QED
    BY <1>2, <1>3, <2>2, <2>3, UnplacedCount
<1>4. ASSUME local_data[w] = Taken - 2
      PROVE  local_data[w] = BooksChanged
  <2>1. PICK v \in Workers : Holds(v, Taken - 1)
    BY <1>1, <1>4 DEF IInv, WindowOfTwo, Holds
  <2>2. v # w /\ pc[v] # "dequeue" /\ local_data[v] = Taken - 1
    BY <1>2, <1>4, <2>1 DEF Holds
  <2>3. Holds(w, local_data[v] - 1)
    BY <1>1, <1>2, <1>4, <2>2 DEF Holds
  <2>4. pc[v] \in BeforeInsertCS
    BY <1>1, <2>2, <2>3 DEF IInv, GatesHold, NotInserted
  <2>5. Unplaced = {w} \cup {v}
    BY <1>2, <2>2, <2>4, TwoWorkersAssumption DEF Unplaced, BeforeInsertCS, NotInserted
  <2>6. IsFiniteSet({w}) /\ Cardinality({w}) = 1
    BY FS_Singleton
  <2>7. Cardinality({w} \cup {v}) = 1 + 1
    BY <2>2, <2>6, FS_AddElement
  <2>8. QED
    BY <1>2, <1>4, <2>5, <2>7, UnplacedCount
<1>5. BooksChanged' = BooksChanged + 1
  <2>1. Unplaced' = Unplaced \ {w} /\ Taken' = Taken
    BY <1>1, <1>2 DEF Unplaced, Taken, NotInserted
  <2>2. Cardinality(Unplaced') = Cardinality(Unplaced) - 1
    BY <1>2, <2>1, UnplacedCount, FS_RemoveElement
  <2>3. BooksChanged' = Taken' - Cardinality(Unplaced')
    BY DEF BooksChanged, Unplaced
  <2>4. QED
    BY <1>2, <2>1, <2>2, <2>3, UnplacedCount
<1>6. local_data[w] = BooksChanged
  BY <1>1, <1>2, <1>3, <1>4
<1>7. QED
  BY <1>5, <1>6

(* The trees are what the first n calls make of them.                      *)
BooksAfter(n) ==
  \A i \in Instruments :
    /\ bids[i].tree = Ideal!Book(n, i, "bid")
    /\ asks[i].tree = Ideal!Book(n, i, "ask")

BooksFollow == BooksChanged \in Nat /\ BooksAfter(BooksChanged)

(* Steps that leave the trees alone.                                       *)
LEMMA BooksFrame ==
  ASSUME TypeOK, BooksFollow, BooksChanged' = BooksChanged,
         \A m \in 1 .. issued : Calls'[m] = Calls[m],
         \A j \in Instruments : /\ bids'[j].tree = bids[j].tree
                                /\ asks'[j].tree = asks[j].tree
  PROVE  BooksFollow'
<1>1. PICK n \in Nat : n = BooksChanged
  BY DEF BooksFollow
<1>2. n <= issued /\ issued \in Int
  BY <1>1, UnplacedCount
<1>3. \A m \in 1 .. n : Calls'[m] = Calls[m]
  BY <1>2
<1>4. \A i, side : Ideal!Book(n, i, side)' = Ideal!Book(n, i, side)
  BY <1>3, BookOfEarlierCalls
<1>5. BooksAfter(n)
  BY <1>1 DEF BooksFollow
<1>6. BooksAfter(n)'
  BY <1>4, <1>5 DEF BooksAfter
<1>7. QED
  BY <1>1, <1>6 DEF BooksFollow

LEMMA InsertionFollows ==
  ASSUME ProcIInv, IInv, BooksFollow, NEW w \in Workers, InsertBid(w) \/ InsertAsk(w)
  PROVE  BooksFollow'
<1>1. Insert(w) /\ data' = data /\ pc[w] = "insert" /\ issued' = issued
  BY DEF InsertBid, InsertAsk, Insert, Goto
<1>2. PICK n \in Nat : n = BooksChanged
  BY DEF BooksFollow
<1>3. local_data[w] = n /\ BooksChanged' = n + 1
  BY <1>1, <1>2, PlacedByInsert
<1>4. Data(w) = data[n + 1] /\ n + 1 \in 1 .. Len(data)
  <2>1. n \in 0 .. Taken - 1
    BY <1>1, <1>3 DEF ProcIInv, HandsAreDistinct
  <2>2. n + 1 \in 1 .. Len(data)
    BY <2>1, TakenFacts DEF ProcIInv, ProcTypeOK
  <2>3. QED
    BY <1>3, <2>2 DEF Data
<1>5. Calls[n + 1] = Data(w).input
  BY <1>4 DEF Calls
<1>6. /\ \A m : Calls'[m] = Calls[m]
      /\ n + 1 \in Nat
  BY <1>1 DEF Calls
<1>7. \A i, side : Ideal!Book(n + 1, i, side)' = Ideal!Book(n + 1, i, side)
  BY <1>6, BookOfEarlierCalls
<1>8. \A i, side :
        Ideal!Book(n + 1, i, side) =
          IF Data(w).input.instrument = i /\ Data(w).input.side = side
          THEN TreeAfter(Ideal!Book(n, i, side), Data(w).input.volume, Data(w).input.price)
          ELSE Ideal!Book(n, i, side)
  BY <1>5, BookStep
<1>9. BooksAfter(n)
  BY <1>2 DEF BooksFollow
<1>10. ProcTypeOK /\ HandsAreDistinct /\ BooksOK
  BY DEF ProcIInv, ProcTypeOK, BooksOK
<1>11. CASE InsertBid(w)
  <2>1. Data(w).input.side = "bid"
    BY <1>11 DEF InsertBid
  <2>2. /\ asks' = asks
        /\ \A j \in Instruments :
             bids'[j].tree =
               IF j = Data(w).input.instrument
               THEN TreeAfter(bids[j].tree, Data(w).input.volume, Data(w).input.price)
               ELSE bids[j].tree
    BY <1>10, <1>11, BidInserted
  <2>3. BooksAfter(n + 1)'
    BY <1>7, <1>8, <1>9, <2>1, <2>2 DEF BooksAfter
  <2>4. QED
    BY <1>3, <1>6, <2>3 DEF BooksFollow
<1>12. CASE InsertAsk(w)
  <2>1. Data(w).input.side = "ask"
    BY <1>12 DEF InsertAsk
  <2>2. /\ bids' = bids
        /\ \A j \in Instruments :
             asks'[j].tree =
               IF j = Data(w).input.instrument
               THEN TreeAfter(asks[j].tree, Data(w).input.volume, Data(w).input.price)
               ELSE asks[j].tree
    BY <1>10, <1>12, AskInserted
  <2>3. BooksAfter(n + 1)'
    BY <1>7, <1>8, <1>9, <2>1, <2>2 DEF BooksAfter
  <2>4. QED
    BY <1>3, <1>6, <2>3 DEF BooksFollow
<1>13. QED
  BY <1>11, <1>12

LEMMA BooksFollowKept ==
  ASSUME ProcIInv, IInv, BooksFollow, [ProcNext]_vars
  PROVE  BooksFollow'
<1>1. TypeOK /\ ProcTypeOK /\ HandsAreDistinct /\ BooksOK
  BY DEF ProcIInv, ProcTypeOK, BooksOK
<1>2. CASE \E w \in Workers : InsertBid(w) \/ InsertAsk(w)
  BY <1>2, InsertionFollows
<1>3. CASE ~\E w \in Workers : InsertBid(w) \/ InsertAsk(w)
  <2>1. ASSUME NEW v \in Workers, ProcWorker(v), ~InsertBid(v), ~InsertAsk(v)
        PROVE  pc' = pc \/ \E to : pc[v] # "insert" /\ pc' = [pc EXCEPT ![v] = to]
    BY <2>1 DEF ProcWorker, Synchronise, ReadKeptPrice, CopyAsk, CopyBidPrice, CopyBidVolume,
       ProcLoad, compute_return_fp_i, history_shift, Dequeue, UnsetNextOrder, UnsetNextSum,
       WaitOrder, UnsetOwnOrder, SetOrder, Copy, Load, WaitSum, UnsetOwnSum, Sum, SetSum,
       chainVars, Goto
  <2>2. \A w \in Workers : ~Insert(w)
    <3> SUFFICES ASSUME NEW w \in Workers, Insert(w)
                 PROVE  FALSE
      OBVIOUS
    <3>1. pc[w] = "insert" /\ pc'[w] = "set_order"
      BY <1>1 DEF Insert, Goto, TypeOK
    <3>2. PICK v \in Workers : ProcWorker(v)
      BY <3>1 DEF ProcNext, ProcUpdate, Update, ProcDrained, vars
    <3>3. PICK to : pc[v] # "insert" /\ pc' = [pc EXCEPT ![v] = to]
      BY <1>3, <2>1, <3>1, <3>2
    <3>4. QED
      BY <1>1, <3>1, <3>3 DEF TypeOK
  <2>3. BooksChanged' = BooksChanged
    BY <1>1, <2>2, StepOfChain, PlacedUnlessInserted
  <2>4. \A m \in 1 .. issued : Calls'[m] = Calls[m]
    <3> DEFINE R == [input : Inputs, specific_index : SpecificSlots]
    <3>1. data \in Seq(R) /\ issued = Len(data)
      BY <1>1 DEF ProcTypeOK
    <3>2. data' = data \/ \E r : data' = Append(data, r)
      BY DEF ProcNext, ProcUpdate, ProcDrained, vars, ProcWorker, Synchronise, ReadKeptPrice,
         InsertBid, InsertAsk, CopyAsk, CopyBidPrice, CopyBidVolume, ProcLoad,
         compute_return_fp_i, history_shift
    <3>3. data' \in Seq(R)
      BY <1>1, DataKept DEF DataOK
    <3> HIDE DEF R
    <3>4. /\ Len(data) <= Len(data') /\ Len(data) \in Nat /\ Len(data') \in Nat
          /\ \A m \in 1 .. Len(data) : data'[m] = data[m]
      BY <3>1, <3>2, <3>3
    <3>5. QED
      BY <3>1, <3>4 DEF Calls
  <2>5. \A j \in Instruments : /\ bids'[j].tree = bids[j].tree
                               /\ asks'[j].tree = asks[j].tree
    <3>1. CASE \E w \in Workers : Copies(w)
      BY <1>1, <3>1, SlotCopied
    <3>2. CASE ~\E w \in Workers : Copies(w)
      <4>1. UNCHANGED <<bids, asks>>
        BY <1>3, <3>2, Zenon DEF ProcNext, ProcUpdate, ProcDrained, vars, ProcWorker, Synchronise,
           ReadKeptPrice, Copies, ProcLoad, compute_return_fp_i, history_shift, bookVars
      <4>2. QED
        BY <4>1
    <3>3. QED
      BY <3>1, <3>2
  <2>6. QED
    BY <1>1, <2>3, <2>4, <2>5, BooksFrame
<1>4. QED
  BY <1>2, <1>3

LEMMA BooksFollowInit ==
  ASSUME ProcInit
  PROVE  BooksFollow
<1>1. Taken = 0 /\ Unplaced = {} /\ TypeOK
  <2>1. issued = 0 /\ ring = << >> /\ \A w \in Workers : pc[w] = "dequeue"
    BY DEF ProcInit, Init
  <2>2. Len(ring) = 0
    BY <2>1
  <2>3. Taken = 0
    <3>1. issued = 0
      BY <2>1
    <3>2. QED
      BY <2>2, <3>1 DEF Taken
  <2>4. QED
    BY <2>1, <2>3, ProcInitEstablishes DEF Unplaced, NotInserted, ProcIInv, ProcTypeOK
<1>2. BooksChanged = 0
  BY <1>1, FS_EmptySet, UnplacedCount
<1>3. \A i, side : Ideal!Book(0, i, side) = EmptyTree
  <2>1. \A m : m \notin 1 .. 0
    OBVIOUS
  <2>2. QED
    BY <2>1 DEF Ideal!Book, Ideal!Offered, EmptyTree
<1>4. \A i \in Instruments : bids[i].tree = EmptyTree /\ asks[i].tree = EmptyTree
  BY DEF ProcInit, EmptyBids, EmptyAsks
<1>5. QED
  BY <1>2, <1>3, <1>4 DEF BooksFollow, BooksAfter

LEMMA BooksFollowInvariant == ProcSpec => []BooksFollow
<1>1. ProcInit => BooksFollow
  BY BooksFollowInit
<1>2. ProcIInv /\ IInv /\ BooksFollow /\ [ProcNext]_vars => BooksFollow'
  BY BooksFollowKept
<1>3. QED
  BY <1>1, <1>2, ProcInvariant, ProcFlagsAreTruthful, PTL DEF ProcSpec

(* With the trees the calls' doing, the best offers cached beside them are *)
(* the sequential ones.                                                    *)
LEMMA BooksInOrder ==
  ASSUME ProcIInv, BooksFollow
  PROVE  BooksSequential
<1> SUFFICES ASSUME NEW i \in Instruments
             PROVE  /\ bids[i].tree = Ideal!Book(BooksChanged, i, "bid")
                    /\ asks[i].tree = Ideal!Book(BooksChanged, i, "ask")
                    /\ [pricebid |-> bids[i].price_bid, volbid |-> bids[i].vol_bid,
                        volask |-> asks[i].vol_ask] = Ideal!Prices(BooksChanged, i)
  BY DEF BooksSequential
<1> DEFINE n == BooksChanged
           Bids == Ideal!Offered(n, i, "bid")
           Asks == Ideal!Offered(n, i, "ask")
           bid == bids[i].tree
           ask == asks[i].tree
<1>1. bid = Ideal!Book(n, i, "bid") /\ ask = Ideal!Book(n, i, "ask")
  BY DEF BooksFollow, BooksAfter
<1>2. /\ DOMAIN bid = Bids /\ \A p \in Bids : bid[p] = Ideal!Volume(n, i, "bid", p)
      /\ DOMAIN ask = Asks /\ \A p \in Asks : ask[p] = Ideal!Volume(n, i, "ask", p)
  BY <1>1 DEF Ideal!Book
<1>3. bid \in Trees /\ ask \in Trees
  BY DEF ProcIInv, ProcTypeOK, BidBooks, AskBooks
<1>4. CachedBid(bids[i]) = HighestBid(bid) /\ CachedAsk(asks[i]) = LowestAsk(ask)
  BY DEF ProcIInv, BestIsCached
<1>5. /\ bids[i].price_bid = HighestBid(bid).price_bid
      /\ bids[i].vol_bid = HighestBid(bid).vol_bid
      /\ asks[i].vol_ask = LowestAsk(ask).vol_ask
  BY <1>4 DEF CachedBid, CachedAsk
<1>6. /\ Bids # {} => Max(Bids) \in Bids
      /\ Asks # {} => Min(Asks) \in Asks
  <2>1. /\ Bids \subseteq 0 .. INT_MAX /\ Asks \subseteq Nat /\ INT_MAX \in Nat
    BY <1>2, <1>3, TreeShape, OffersAssumption
  <2> HIDE DEF Bids, Asks
  <2>2. QED
    BY <2>1, GreatestIsMax, LeastIsMin
<1>7. Ideal!Max(Bids) = Max(Bids) /\ Ideal!Min(Asks) = Min(Asks)
  BY DEF Ideal!Max, Ideal!Min, Max, Min
<1>8. Ideal!Prices(n, i) =
        [pricebid |-> IF Bids = {} THEN 0 ELSE Max(Bids),
         volbid |-> IF Bids = {} THEN 0 ELSE Ideal!Volume(n, i, "bid", Max(Bids)),
         volask |-> IF Asks = {} THEN 0 ELSE Ideal!Volume(n, i, "ask", Min(Asks))]
  BY <1>7 DEF Ideal!Prices
<1> HIDE DEF Bids, Asks, bid, ask, n
<1>9. /\ HighestBid(bid) = IF Bids = {} THEN NoBid
                           ELSE [price_bid |-> Max(Bids),
                                 vol_bid |-> Ideal!Volume(n, i, "bid", Max(Bids))]
      /\ LowestAsk(ask) = IF Asks = {} THEN NoAsk
                          ELSE [price_ask |-> Min(Asks),
                                vol_ask |-> Ideal!Volume(n, i, "ask", Min(Asks))]
  BY <1>2, <1>6 DEF HighestBid, LowestAsk, rb_t_last, rb_t_first
<1>10. [pricebid |-> bids[i].price_bid, volbid |-> bids[i].vol_bid,
        volask |-> asks[i].vol_ask] = Ideal!Prices(n, i)
  BY <1>5, <1>8, <1>9 DEF NoBid, NoAsk
<1>11. QED
  BY <1>1, <1>10 DEF n, bid, ask

(* With two workers the books are the calls' doing alone: each tree holds  *)
(* the volumes given last by the calls inserted so far, which are the      *)
(* first ones, and the cached best offers are the trees' (table.h:60-211). *)
THEOREM BooksAreSequential == ProcSpec => []BooksSequential
<1>1. ProcIInv /\ BooksFollow => BooksSequential
  BY BooksInOrder
<1>2. QED
  BY <1>1, ProcInvariant, BooksFollowInvariant, PTL
=============================================================================
