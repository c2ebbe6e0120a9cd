---------------------------- MODULE MCProcessor ----------------------------
(* Small instances of Processor.                                           *)
EXTENDS Histories, TLC

CONSTANTS a, b  (* two instruments                                          *)

(* An f + g that tells all the small equities apart.                       *)
MCFG(equity) == 10 * equity[1] + equity[2]

Input(i, side, p, v) == [instrument |-> i, side |-> side, price |-> p, volume |-> v]

(* One instrument: offers that improve, change, keep and withdraw the best.*)
InputsOfOne ==
  {Input(a, "bid", 1, 1), Input(a, "bid", 2, 2), Input(a, "bid", 2, 0),
   Input(a, "bid", 1, 0), Input(a, "ask", 2, 1), Input(a, "ask", 1, 2),
   Input(a, "ask", 1, 0)}

(* Both sides of a fill, and its bid empties again; b gets a value.        *)
InputsOfTwo ==
  {Input(a, "bid", 2, 2), Input(a, "bid", 2, 0), Input(a, "ask", 3, 1),
   Input(b, "bid", 1, 1), Input(b, "ask", 2, 1)}

(* The best bid of a improves, is kept and is withdrawn.                   *)
InputsOfTurns ==
  {Input(a, "bid", 1, 1), Input(a, "bid", 2, 1), Input(a, "bid", 2, 0),
   Input(a, "ask", 3, 1), Input(b, "bid", 1, 1), Input(b, "ask", 2, 1)}

(* Offers that are kept, once both sides have a best one.                  *)
InputsOfRace ==
  {Input(a, "bid", 2, 1), Input(a, "bid", 1, 1), Input(a, "ask", 2, 1),
   Input(a, "ask", 3, 1)}

(* Asks only: the best one changes, then a worse one keeps it.             *)
InputsOfAsks == {Input(a, "ask", 1, 1), Input(a, "ask", 1, 2), Input(a, "ask", 2, 1)}

InputsOfFlow == {Input(a, "bid", 1, 1), Input(a, "ask", 1, 1)}

(* The two instruments take turns.                                         *)
Turns == ~BackToBack(issued)

(* The workers run the same code on the same data.                         *)
WorkerSymmetry == Permutations(Workers)
=============================================================================
