----------------------------- MODULE Sequential -----------------------------
(***************************************************************************)
(* What the processor is for, without threads, books or histories: the     *)
(* results are a function of the calls of Update() alone.                  *)
(*                                                                         *)
(* After n calls an instrument's book holds, on each side, the volume last *)
(* given for each price.  Its best bid is the highest price with a volume, *)
(* its best ask the lowest.  The instrument's value fp_i is computed from  *)
(* them when it was last updated, and the answer to a call is the value of *)
(* its instrument as a share of the sum over all the instruments.          *)
(***************************************************************************)
EXTENDS Returns, Sequences, FiniteSetsExt, Functions

CONSTANTS
  Instruments,
  Inputs,      (* what Update() may be called with                           *)
  Count        (* number of calls                                            *)

VARIABLES
  calls,       (* the calls of Update() so far                               *)
  answers      (* the results reported so far, in order                      *)

(* The calls of instrument i on one side at price p, among the first n.    *)
CallsAt(n, i, side, p) ==
  {m \in 1 .. n : /\ calls[m].instrument = i
                  /\ calls[m].side = side
                  /\ calls[m].price = p}

Volume(n, i, side, p) ==
  IF CallsAt(n, i, side, p) = {} THEN 0
  ELSE calls[Max(CallsAt(n, i, side, p))].volume

Offered(n, i, side) ==
  {p \in {calls[m].price : m \in 1 .. n} : Volume(n, i, side, p) # 0}

Book(n, i, side) == [p \in Offered(n, i, side) |-> Volume(n, i, side, p)]

Prices(n, i) ==
  LET bids == Offered(n, i, "bid")
      asks == Offered(n, i, "ask")
  IN [pricebid |-> IF bids = {} THEN 0 ELSE Max(bids),
      volbid |-> IF bids = {} THEN 0 ELSE Volume(n, i, "bid", Max(bids)),
      volask |-> IF asks = {} THEN 0 ELSE Volume(n, i, "ask", Min(asks))]

(* The value of the instrument of call n, as of that call.                 *)
Value(n) ==
  LET prices == Prices(n, calls[n].instrument) IN
  IF NotEnoughData(prices) THEN 0
  ELSE compute_fp_i(Equity(prices.volbid, prices.volask), prices.pricebid)

(* The last call of each instrument that has been called.                  *)
LastCalls(n) ==
  {m \in 1 .. n :
     \A k \in m + 1 .. n : calls[k].instrument # calls[m].instrument}

Total(n) == SumFunction([m \in LastCalls(n) |-> Value(m)])

Answer(n) ==
  IF NotEnoughData(Prices(n, calls[n].instrument)) THEN ZeroReturn
  ELSE Return(Value(n), Total(n))
-----------------------------------------------------------------------------
Init == calls = << >> /\ answers = << >>

Call ==
  /\ Len(calls) < Count
  /\ \E input \in Inputs : calls' = Append(calls, input)
  /\ UNCHANGED answers

Reply ==
  /\ Len(answers) < Len(calls)
  /\ answers' = Append(answers, Answer(Len(answers) + 1))
  /\ UNCHANGED calls

Next == Call \/ Reply
Spec == Init /\ [][Next]_<<calls, answers>>
=============================================================================
