------------------------------ MODULE Returns ------------------------------
(***************************************************************************)
(* The number reported for an update: the share of the instrument's own    *)
(* value fp_i in the sum of all the instruments' values (worker.cc).       *)
(*                                                                         *)
(* The doubles of the code are exact here: integers in units of 1 / Unit.  *)
(* Rounding is not modelled, and the two smooth functions of the equity    *)
(* that compute_fp_i adds to the price are the parameter FG.               *)
(***************************************************************************)
EXTENDS Integers

CONSTANTS
  Unit,   (* how many units of the fixed-point numbers make 1.0              *)
  FG(_)   (* f + g of an equity, in these units                              *)

(* The equity is a ratio; it is kept as <<numerator, denominator>>.        *)
Equity(volbid, volask) == <<volbid, volbid + volask>>
compute_fp_i(equity, pricebid) == pricebid * Unit + FG(equity)

NotEnoughData(prices) ==
  prices.volask = 0 \/ prices.volbid = 0 \/ prices.pricebid = 0

(* What Result() is called with: 0.0, or fp_i / sum, which is 1.0 when the *)
(* division by a zero sum gives infinity.                                  *)
ZeroReturn == [fp |-> 0, sum |-> Unit]
Return(fp_i, sum) ==
  IF sum = 0 THEN [fp |-> Unit, sum |-> Unit] ELSE [fp |-> fp_i, sum |-> sum]
=============================================================================
