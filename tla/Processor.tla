----------------------------- MODULE Processor -----------------------------
(***************************************************************************)
(* The whole processor from Update() to Result(): the threads and flags of *)
(* OrderChain, and what each stretch of code between two flag accesses     *)
(* does to the books, the histories and the sums.                          *)
(*                                                                         *)
(* Every action is an action of OrderChain together with its effect on the *)
(* data, except the two that read or write half of a pair before the other *)
(* half, which are not steps of the chain.                                 *)
(***************************************************************************)
EXTENDS OrderChain, Table, Returns

CONSTANTS
  Instruments,
  Inputs,     (* what Update() may be called with                            *)
  Leftovers   (* what fresh memory from malloc may hold                      *)

ASSUME InputsAssumption ==
  /\ Leftovers \subseteq 0 .. INT_MAX /\ Leftovers # {}
  /\ Inputs \subseteq [instrument : Instruments, side : {"bid", "ask"},
                       price : PriceSet, volume : VolumeSet]

(* asks_insert reduces an index of the instrument's history modulo the     *)
(* size of the flags' history; with fewer slots it would read past the end.*)
ASSUME HistoriesAssumption == HISTORY_SIZE <= SPECIFIC_HISTORY_SIZE

(* What the slots of the instruments' histories can show as a volume.      *)
Volumes == VolumeSet \cup {0} \cup Leftovers

(* f + g of worker.cc is not negative on the equities between 0 and 1.     *)
ASSUME ReturnsAssumption ==
  /\ Unit \in Nat \ {0}
  /\ \A volbid, volask \in Volumes \ {0} : FG(Equity(volbid, volask)) \in Nat

VARIABLES
  data,               (* the records of the calls so far: rsj_data_in_t      *)
  order_indices_bid,  (* per instrument, the counter of its updates          *)
  bids, asks,         (* per instrument, the two sides of its book           *)
  fp_i_history,       (* per instrument, its value after each of its updates *)
  sum_history,        (* the sum of all the values after each update         *)
  half,               (* price a worker copied before the volume, or NoHalf  *)
  prices,             (* per worker, the prices it read back                 *)
  results             (* the calls of Result() so far, in order              *)

bookVars == <<bids, asks>>
sumVars == <<fp_i_history, sum_history>>
vars == <<issued, ring, pc, local_data, order, order_sum, data,
          order_indices_bid, bids, asks, fp_i_history, sum_history,
          half, prices, results>>

NoHalf == -1
NoPrices == [pricebid |-> 0, volbid |-> 0, volask |-> 0]

Data(w) == data[local_data[w] + 1]

Report(w, res) == results' = Append(results, [update |-> local_data[w], res |-> res])
-----------------------------------------------------------------------------
ProcInit ==
  /\ Init
  /\ data = << >>
  /\ order_indices_bid = [i \in Instruments |-> 0]
  /\ \E left \in Leftovers :
       /\ bids = [i \in Instruments |-> EmptyBids(left)]
       /\ asks = [i \in Instruments |-> EmptyAsks(left)]
       /\ fp_i_history = [i \in Instruments |->
            [k \in SpecificSlots |-> IF Cleared(k) THEN 0 ELSE left]]
  /\ sum_history = [k \in Slots |-> 0]
  /\ half = [w \in Workers |-> NoHalf]
  /\ prices = [w \in Workers |-> NoPrices]
  /\ results = << >>

ProcUpdate ==
  /\ Update
  /\ \E input \in Inputs :
       LET i == input.instrument
           specific_index == order_indices_bid[i] % SPECIFIC_HISTORY_SIZE
       IN /\ data' = Append(data,
                            [input |-> input, specific_index |-> specific_index])
          /\ order_indices_bid' =
               [order_indices_bid EXCEPT ![i] = Unsigned(@ + 1)]
  /\ UNCHANGED <<bookVars, sumVars, half, prices, results>>

(* Steps that only touch the ring and the flags.                           *)
Synchronise(w) ==
  /\ \/ Dequeue(w) \/ UnsetNextOrder(w) \/ UnsetNextSum(w)
     \/ WaitOrder(w) \/ UnsetOwnOrder(w) \/ SetOrder(w)
     \/ WaitSum(w) \/ UnsetOwnSum(w) \/ SetSum(w)
  /\ UNCHANGED <<data, order_indices_bid, bookVars, sumVars, half, prices, results>>

(* bids_insert when the best bid is kept: the two assignments from the     *)
(* previous slot read its price first and its volume second.               *)
ReadKeptPrice(w) ==
  LET d == Data(w).input
      book == bids[d.instrument]
      prev == book.history[prev_index_spec(Data(w).specific_index)]
  IN /\ pc[w] = "insert" /\ half[w] = NoHalf
     /\ d.side = "bid" /\ BidKept(book, d.volume, d.price)
     /\ half' = [half EXCEPT ![w] = prev.price_bid]
     /\ UNCHANGED <<chainVars, data, order_indices_bid, bookVars, sumVars, prices, results>>

(* Mistake: the price is used before it was read.                          *)
InsertBid_Unread(w) ==
  LET d == Data(w).input
      book == bids[d.instrument]
      prev == book.history[prev_index_spec(Data(w).specific_index)]
  IN /\ Insert(w)
     /\ d.side = "bid"
     /\ bids' = [bids EXCEPT ![d.instrument] =
                   bids_insert(book, Data(w).specific_index, d.volume, d.price,
                     [price_bid |-> half[w], vol_bid |-> prev.vol_bid])]
     /\ half' = [half EXCEPT ![w] = NoHalf]
     /\ UNCHANGED <<data, order_indices_bid, asks, sumVars, prices, results>>

InsertBid(w) ==
  LET d == Data(w).input
      book == bids[d.instrument]
      prev == book.history[prev_index_spec(Data(w).specific_index)]
  IN /\ Insert(w)
     /\ d.side = "bid"
     /\ BidKept(book, d.volume, d.price) => half[w] # NoHalf
     /\ bids' = [bids EXCEPT ![d.instrument] =
                   bids_insert(book, Data(w).specific_index, d.volume, d.price,
                     [price_bid |-> half[w], vol_bid |-> prev.vol_bid])]
     /\ half' = [half EXCEPT ![w] = NoHalf]
     /\ UNCHANGED <<data, order_indices_bid, asks, sumVars, prices, results>>

InsertAsk(w) ==
  LET d == Data(w).input IN
  /\ Insert(w)
  /\ d.side = "ask"
  /\ asks' = [asks EXCEPT ![d.instrument] =
                asks_insert(@, Data(w).specific_index, d.volume, d.price)]
  /\ UNCHANGED <<data, order_indices_bid, bids, sumVars, half, prices, results>>

(* Mistake: nothing is carried over.                                       *)
CopyAsk_Skipped(w) ==
  /\ Copy(w)
  /\ Data(w).input.side = "bid"
  /\ UNCHANGED <<data, order_indices_bid, bookVars, sumVars, half, prices, results>>

(* insert_data after bids_insert returned: the flag is already released.   *)
CopyAsk(w) ==
  LET d == Data(w).input
      k == Data(w).specific_index
  IN /\ Copy(w)
     /\ d.side = "bid"
     /\ asks' = [asks EXCEPT ![d.instrument].history[k] =
                   asks[d.instrument].history[prev_index_spec(k)]]
     /\ UNCHANGED <<data, order_indices_bid, bids, sumVars, half, prices, results>>

(* insert_data after asks_insert returned: first the price, ...            *)
CopyBidPrice(w) ==
  LET d == Data(w).input
      k == Data(w).specific_index
      price == bids[d.instrument].history[prev_index_spec(k)].price_bid
  IN /\ pc[w] = "copy" /\ half[w] = NoHalf
     /\ d.side = "ask"
     /\ bids' = [bids EXCEPT ![d.instrument].history[k].price_bid = price]
     /\ half' = [half EXCEPT ![w] = price]
     /\ UNCHANGED <<chainVars, data, order_indices_bid, asks, sumVars, prices, results>>

(* ... then the volume.                                                    *)
CopyBidVolume(w) ==
  LET d == Data(w).input
      k == Data(w).specific_index
      volume == bids[d.instrument].history[prev_index_spec(k)].vol_bid
  IN /\ Copy(w)
     /\ d.side = "ask" /\ half[w] # NoHalf
     /\ bids' = [bids EXCEPT ![d.instrument].history[k].vol_bid = volume]
     /\ half' = [half EXCEPT ![w] = NoHalf]
     /\ UNCHANGED <<data, order_indices_bid, asks, sumVars, prices, results>>

(* Mistake: no result when a price is missing.                             *)
ProcLoad_Silent(w) ==
  LET i == Data(w).input.instrument
      k == Data(w).specific_index
  IN /\ Load(w)
     /\ prices' = [prices EXCEPT ![w] =
          [pricebid |-> bids[i].history[k].price_bid,
           volbid |-> bids[i].history[k].vol_bid,
           volask |-> asks[i].history[k]]]
     /\ UNCHANGED <<data, order_indices_bid, bookVars, sumVars, half, results>>

(* worker_start reads the update's own slots back, and when a price is     *)
(* missing it reports 0.0 before it waits for its turn to change the sums. *)
ProcLoad(w) ==
  LET i == Data(w).input.instrument
      k == Data(w).specific_index
      read == [pricebid |-> bids[i].history[k].price_bid,
               volbid |-> bids[i].history[k].vol_bid,
               volask |-> asks[i].history[k]]
  IN /\ Load(w)
     /\ prices' = [prices EXCEPT ![w] = read]
     /\ IF NotEnoughData(read) THEN Report(w, ZeroReturn) ELSE UNCHANGED results
     /\ UNCHANGED <<data, order_indices_bid, bookVars, sumVars, half>>

(* Mistake: the instrument's last value stays in the sum.                  *)
compute_return_fp_i_NoDeduction(w) ==
  LET i == Data(w).input.instrument
      n == Own(w)
      p == prices[w]
      fp_i == compute_fp_i(Equity(p.volbid, p.volask), p.pricebid)
      sum == sum_history[prev_index(n)] + fp_i
  IN /\ Sum(w)
     /\ ~NotEnoughData(p)
     /\ Report(w, Return(fp_i, sum))
     /\ sum_history' = [sum_history EXCEPT ![n] = sum]
     /\ fp_i_history' = [fp_i_history EXCEPT ![i][Data(w).specific_index] = fp_i]
     /\ UNCHANGED <<data, order_indices_bid, bookVars, half, prices>>

compute_return_fp_i(w) ==
  LET i == Data(w).input.instrument
      k == Data(w).specific_index
      n == Own(w)
      p == prices[w]
      fp_i == compute_fp_i(Equity(p.volbid, p.volask), p.pricebid)
      sum == sum_history[prev_index(n)] - fp_i_history[i][prev_index_spec(k)] + fp_i
  IN /\ Sum(w)
     /\ ~NotEnoughData(p)
     /\ Report(w, Return(fp_i, sum))
     /\ sum_history' = [sum_history EXCEPT ![n] = sum]
     /\ fp_i_history' = [fp_i_history EXCEPT ![i][k] = fp_i]
     /\ UNCHANGED <<data, order_indices_bid, bookVars, half, prices>>

(* Mistake: "sum history unchanged" taken by the word (worker.cc:238).     *)
history_shift_NoDeduction(w) ==
  LET n == Own(w) IN
  /\ Sum(w)
  /\ NotEnoughData(prices[w])
  /\ fp_i_history' = [fp_i_history EXCEPT
       ![Data(w).input.instrument][Data(w).specific_index] = 0]
  /\ sum_history' = [sum_history EXCEPT ![n] = sum_history[prev_index(n)]]
  /\ UNCHANGED <<data, order_indices_bid, bookVars, half, prices, results>>

(* Mistake: the instrument's value is carried over instead of cleared.     *)
history_shift_Carries(w) ==
  LET i == Data(w).input.instrument
      k == Data(w).specific_index
      n == Own(w)
      last == fp_i_history[i][prev_index_spec(k)]
  IN /\ Sum(w)
     /\ NotEnoughData(prices[w])
     /\ fp_i_history' = [fp_i_history EXCEPT ![i][k] = last]
     /\ sum_history' = [sum_history EXCEPT ![n] = sum_history[prev_index(n)] - last]
     /\ UNCHANGED <<data, order_indices_bid, bookVars, half, prices, results>>

history_shift(w) ==
  LET i == Data(w).input.instrument
      k == Data(w).specific_index
      n == Own(w)
      shifted == [fp_i_history EXCEPT ![i][k] = 0]
  IN /\ Sum(w)
     /\ NotEnoughData(prices[w])
     /\ fp_i_history' = shifted
     /\ sum_history' = [sum_history EXCEPT ![n] =
          sum_history[prev_index(n)] - shifted[i][prev_index_spec(k)]]
     /\ UNCHANGED <<data, order_indices_bid, bookVars, half, prices, results>>

ProcWorker(w) ==
  \/ Synchronise(w)
  \/ ReadKeptPrice(w) \/ InsertBid(w) \/ InsertAsk(w)
  \/ CopyAsk(w) \/ CopyBidPrice(w) \/ CopyBidVolume(w)
  \/ ProcLoad(w)
  \/ compute_return_fp_i(w) \/ history_shift(w)

ProcDrained ==
  /\ Drained
  /\ UNCHANGED vars

ProcNext ==
  \/ ProcUpdate
  \/ \E w \in Workers : ProcWorker(w)
  \/ ProcDrained

ProcSpec == ProcInit /\ [][ProcNext]_vars

(* As in OrderChain: every thread keeps running.                           *)
FairProcSpec ==
  /\ ProcSpec
  /\ WF_vars(ProcUpdate)
  /\ \A w \in Workers : WF_vars(ProcWorker(w))
-----------------------------------------------------------------------------
(* The calls of Update() and the results in the order of those calls, for  *)
(* the comparison with Sequential.                                         *)
Calls == [m \in 1 .. Len(data) |-> data[m].input]
Answers == [m \in 1 .. Len(results) |-> results[m].res]
Ideal == INSTANCE Sequential WITH calls <- Calls, answers <- Answers

(* The updates whose insertion into the books has taken place.             *)
BooksChanged ==
  Taken
    - Cardinality({w \in Workers : pc[w] \in NotInserted \ {"set_order"}})

(* The updates whose sum has been stored.                                  *)
SumsStored ==
  Taken
    - Cardinality({w \in Workers : pc[w] \notin {"dequeue", "set_sum"}})

ResultsOf(n) == {m \in DOMAIN results : results[m].update = n}

(* The value that the result of the m-th call was a share of.              *)
ValueOf(m) ==
  LET r == CHOOSE r \in ResultsOf(m - 1) : TRUE IN results[r].res.fp

(* Two successive calls for one instrument, among the first n.             *)
BackToBack(n) ==
  \E m \in 1 .. n - 1 : Calls[m].instrument = Calls[m + 1].instrument

ProcTypeOK ==
  /\ TypeOK
  /\ data \in Seq([input : Inputs, specific_index : SpecificSlots])
  /\ Len(data) = issued
  /\ order_indices_bid \in [Instruments -> 0 .. UINT_RANGE - 1]
  /\ bids \in [Instruments -> BidBooks(Volumes)]
  /\ asks \in [Instruments -> AskBooks(Volumes)]
  /\ fp_i_history \in [Instruments -> [SpecificSlots -> Nat]]
  /\ sum_history \in [Slots -> Int]
  /\ half \in [Workers -> {NoHalf} \cup 0 .. INT_MAX]
  /\ prices \in [Workers -> [pricebid : 0 .. INT_MAX, volbid : Volumes, volask : Volumes]]
  /\ results \in Seq([update : 0 .. Count - 1, res : [fp : Nat, sum : Int]])

(* The invariant that the proofs of types and results need, for any number *)
(* of workers.  The updates in the workers' hands are different ones, all  *)
(* taken from the ring; the ring has the ones after.                       *)
HandsAreDistinct ==
  /\ \A j \in 1 .. Len(ring) : ring[j] = Taken + j - 1
  /\ \A w \in Workers : pc[w] # "dequeue" => local_data[w] \in 0 .. Taken - 1
  /\ \A v, w \in Workers :
       v # w /\ pc[v] # "dequeue" => ~Holds(w, local_data[v])

(* The cached best offers are the trees' best ones.                        *)
BestIsCached ==
  \A i \in Instruments :
    /\ CachedBid(bids[i]) = HighestBid(bids[i].tree)
    /\ CachedAsk(asks[i]) = LowestAsk(asks[i].tree)

(* A worker has answered its update: at once, for want of a price, or with *)
(* the sum.  No update has two results, and one that is done has one.      *)
BeforeSum == {"wait_sum", "unset_own_sum", "sum"}

Answered(w) ==
  \/ pc[w] = "set_sum"
  \/ pc[w] \in BeforeSum /\ NotEnoughData(prices[w])

ResultsAreOwned ==
  /\ \A m \in DOMAIN results : results[m].update \in 0 .. Taken - 1
  /\ \A m, k \in DOMAIN results : results[m].update = results[k].update => m = k
  /\ \A w \in Workers : pc[w] # "dequeue" =>
       (Answered(w) <=> ResultsOf(local_data[w]) # {})
  /\ \A n \in 0 .. Taken - 1 : IsSummed(n) => ResultsOf(n) # {}
  /\ \A w \in Workers : pc[w] \in BeforeSum =>
       \A m \in ResultsOf(local_data[w]) : results[m].res = ZeroReturn

ProcIInv ==
  /\ ProcTypeOK
  /\ HandsAreDistinct
  /\ BestIsCached
  /\ ResultsAreOwned

(* The books are what the calls make of them, in the order of the calls,   *)
(* whichever workers did the insertions: each tree holds the volumes given *)
(* last, and the cached best offer is the tree's.                          *)
BooksSequential ==
  \A i \in Instruments :
    /\ bids[i].tree = Ideal!Book(BooksChanged, i, "bid")
    /\ asks[i].tree = Ideal!Book(BooksChanged, i, "ask")
    /\ [pricebid |-> bids[i].price_bid, volbid |-> bids[i].vol_bid,
        volask |-> asks[i].vol_ask] = Ideal!Prices(BooksChanged, i)

(* "Nothing changed - we need to use the last value" (table.h:86): what a  *)
(* worker reads back from its slots is the best offers of the instrument   *)
(* right after its update.                                                 *)
UsesLastValue ==
  \A w \in Workers : pc[w] = "wait_sum" =>
    prices[w] =
      Ideal!Prices(local_data[w] + 1, Data(w).input.instrument)

(* The denominators add up: the sum a result was divided by is the total,  *)
(* over the instruments, of the value used for the latest result of each.  *)
(* (It holds whatever prices the workers read.)                            *)
SumIsLedger ==
  LET n == SumsStored IN
  n > 0 =>
    sum_history[OrderIndex(n - 1)]
      = SumFunction([m \in Ideal!LastCalls(n) |-> ValueOf(m)])

(* "Sum history unchanged" (worker.cc:238): an update answered with 0.0    *)
(* for want of prices stores the sum it found.                             *)
SumUnchangedWithoutData ==
  \A w \in Workers : pc[w] = "set_sum" /\ NotEnoughData(prices[w]) =>
    sum_history[Own(w)] = sum_history[prev_index(Own(w))]

(* A share is more than 0 and at most 1: the sum that the histories of all *)
(* updates leave behind never falls below the value just added, so the     *)
(* division is never by 0 and the branch for infinity (worker.cc:152) is   *)
(* never taken, as long as values are positive and additions exact.        *)
ShareInRange ==
  \A w \in Workers : pc[w] = "set_sum" /\ ~NotEnoughData(prices[w]) =>
    LET fp_i == fp_i_history[Data(w).input.instrument][Data(w).specific_index] IN
    0 < fp_i /\ fp_i <= sum_history[Own(w)]

(* Result() is called at most once per update, and no later than the step  *)
(* that stores the update's sum.                                           *)
OneResultPerUpdate ==
  \A n \in 0 .. issued - 1 :
    /\ Cardinality(ResultsOf(n)) <= 1
    /\ n < SumsStored => ResultsOf(n) # {}

(* Results may be reported out of order, but only results 0.0, and only by *)
(* overtaking the updates in the other workers' hands.                     *)
OnlyZeroOvertakes ==
  \A m \in DOMAIN results :
    LET late == {k \in m + 1 .. Len(results) :
                   results[k].update < results[m].update}
    IN /\ late # {} => results[m].res = ZeroReturn
       /\ Cardinality(late) < Cardinality(Workers)

(* With no two successive calls for one instrument, every result is that   *)
(* of the sequential processor.                                            *)
ResultsSequential ==
  \A m \in DOMAIN results :
    LET n == results[m].update + 1 IN
    BackToBack(n) \/ results[m].res = Ideal!Answer(n)

(* A single worker is the sequential processor, whatever the calls.        *)
ImplementsSequential == Ideal!Spec

(* Every call of Update() is eventually answered.                          *)
EveryUpdateAnswered ==
  \A n \in 0 .. Count - 1 : issued > n ~> ResultsOf(n) # {}
=============================================================================
