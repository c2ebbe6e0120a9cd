----------------------------- MODULE Histories -----------------------------
(***************************************************************************)
(* What the slots of the circular histories hold while the processor runs: *)
(* the inductive invariants behind the sums and the results of Processor.  *)
(*                                                                         *)
(* An instrument's slots are given to its calls in turn, so the slot       *)
(* before that of a call is the slot of the instrument's previous call.    *)
(* The code relies on that call being done with it, and nothing waits for  *)
(* that: it is only so when the previous call of the instrument is not the *)
(* previous call of all.                                                   *)
(***************************************************************************)
EXTENDS Processor

(* The shipped sizes (structures.h).  With other ones asks_insert copies   *)
(* from the wrong slot, and slots are used that nobody cleared.            *)
EqualSizes == HISTORY_SIZE = SPECIFIC_HISTORY_SIZE

CallsOf(n, i) == {m \in 1 .. n : data[m].input.instrument = i}

(* The slot of the instrument's first call after n calls, and the one      *)
(* before it.                                                              *)
NextSlot(n, i) ==
  IF CallsOf(n, i) = {} THEN 0
  ELSE (data[Max(CallsOf(n, i))].specific_index + 1) % SPECIFIC_HISTORY_SIZE
LastSlot(n, i) == prev_index_spec(NextSlot(n, i))

SlotsInTurn ==
  /\ \A m \in 1 .. issued :
       data[m].specific_index = NextSlot(m - 1, data[m].input.instrument)
  /\ \A i \in Instruments :
       order_indices_bid[i] % SPECIFIC_HISTORY_SIZE = NextSlot(issued, i)
-----------------------------------------------------------------------------
(* The last value stored for an instrument is that of its last result, and *)
(* the last sum stored is the total of those.                              *)
LastValues ==
  \A i \in Instruments :
    fp_i_history[i][LastSlot(SumsStored, i)] =
      IF CallsOf(SumsStored, i) = {} THEN 0
      ELSE ValueOf(Max(CallsOf(SumsStored, i)))

LastSum ==
  sum_history[prev_index(OrderIndex(SumsStored))] =
    SumFunction([m \in Ideal!LastCalls(SumsStored) |-> ValueOf(m)])

(* What is stored when a result was computed is more than 0.               *)
StoredIsPositive ==
  \A w \in Workers : pc[w] = "set_sum" /\ ~NotEnoughData(prices[w]) =>
    fp_i_history[Data(w).input.instrument][Data(w).specific_index] > 0

LedgerIInv == SlotsInTurn /\ LastValues /\ LastSum /\ StoredIsPositive
-----------------------------------------------------------------------------
(* Another worker may be at work on the instrument's previous call.        *)
Disturbed(n) == BackToBack(n) /\ \E v, w \in Workers : v # w

(* The prices that a worker reads back from slot k.                        *)
Shown(i, k) ==
  [pricebid |-> bids[i].history[k].price_bid,
   volbid |-> bids[i].history[k].vol_bid,
   volask |-> asks[i].history[k]]

InsertDone == {"set_order", "copy"}
BeforeLoad == NotInserted \cup {"copy"}

(* An instrument at rest shows its best offers in the slot used last.      *)
LastSlotsShow ==
  \A i \in Instruments :
    \/ Disturbed(Taken)
    \/ \E w \in Workers : pc[w] \in BeforeLoad /\ Data(w).input.instrument = i
    \/ Shown(i, LastSlot(Taken, i)) = Ideal!Prices(Taken, i)

(* What a worker at a stage of its work has in its own slot, in the one    *)
(* before and in hand, by the prices before and after its update.          *)
SlotShows(stage, side, price, read, before, own, last, best) ==
  /\ stage \in BeforeLoad => before = last
  /\ stage \in InsertDone =>
       IF side = "ask" THEN own.volask = best.volask
       ELSE own.pricebid = best.pricebid /\ own.volbid = best.volbid
  /\ stage = "insert" /\ price # NoHalf => price = before.pricebid
  /\ stage = "copy" /\ price # NoHalf => own.pricebid = best.pricebid
  /\ stage = "load" => own = best
  /\ stage \in BeforeSum \cup {"set_sum"} => read = best

OwnSlotShows(w) ==
  LET n == local_data[w]
      i == Data(w).input.instrument
      k == Data(w).specific_index
  IN SlotShows(pc[w], Data(w).input.side, half[w], prices[w],
               Shown(i, prev_index_spec(k)), Shown(i, k),
               Ideal!Prices(n, i), Ideal!Prices(n + 1, i))

(* Half of a pair is only held between the two steps that move the pair.   *)
HalvesInside ==
  \A w \in Workers : half[w] # NoHalf =>
    \/ pc[w] = "insert" /\ Data(w).input.side = "bid"
    \/ pc[w] = "copy" /\ Data(w).input.side = "ask"

OwnSlotsShow ==
  \A w \in Workers : pc[w] # "dequeue" =>
    Disturbed(local_data[w] + 1) \/ OwnSlotShows(w)

(* An answer is the sequential one, and so is the value it is a share of.  *)
AnswersSequential ==
  \A m \in DOMAIN results :
    LET n == results[m].update + 1 IN
    \/ Disturbed(n)
    \/ results[m].res = Ideal!Answer(n) /\ results[m].res.fp = Ideal!Value(n)

HistoriesIInv ==
  /\ LedgerIInv
  /\ HalvesInside /\ LastSlotsShow /\ OwnSlotsShow
  /\ AnswersSequential
=============================================================================
