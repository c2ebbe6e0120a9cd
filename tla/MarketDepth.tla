---------------------------- MODULE MarketDepth ----------------------------
(***************************************************************************)
(* What the book of one instrument is for: it remembers the volume last    *)
(* offered at each price and shows the best offer of each side.  No tree,  *)
(* no cached best offer, no circular history.                              *)
(***************************************************************************)
EXTENDS Integers, FiniteSetsExt

CONSTANTS
  PriceSet, VolumeSet,   (* what may be offered                              *)
  INT_MAX                (* shown as the ask price when there is no ask      *)

VARIABLES
  bid, ask,  (* the volume offered at each price, on each side               *)
  shown      (* the best bid, its volume and the volume of the best ask      *)

vars == <<bid, ask, shown>>

Offered(side) == {p \in PriceSet : side[p] # 0}

Best(bids, asks) ==
  LET b == Offered(bids)
      a == Offered(asks)
  IN [pricebid |-> IF b = {} THEN 0 ELSE Max(b),
      volbid |-> IF b = {} THEN 0 ELSE bids[Max(b)],
      volask |-> IF a = {} THEN 0 ELSE asks[Min(a)]]

Nothing == [p \in PriceSet |-> 0]

Init ==
  /\ bid = Nothing
  /\ ask = Nothing
  /\ shown = Best(Nothing, Nothing)

Bid(p, v) ==
  /\ bid' = [bid EXCEPT ![p] = v]
  /\ ask' = ask
  /\ shown' = Best(bid', ask)

Ask(p, v) ==
  /\ ask' = [ask EXCEPT ![p] = v]
  /\ bid' = bid
  /\ shown' = Best(bid, ask')

Next == \E p \in PriceSet, v \in VolumeSet : Bid(p, v) \/ Ask(p, v)

Spec == Init /\ [][Next]_vars
=============================================================================
