---------------------------- MODULE MCLotActions -----------------------------
EXTENDS LotActions

(* A source of trade date td and event date date.                           *)
Src(kind, td, date, qty, price) ==
    [kind |-> kind, td |-> td, date |-> date, sort |-> date, qty |-> qty, price |-> price, org |-> ""]

(* Two lots cut by a sell and a split, one of which rounds to nothing.      *)
TwoLots == <<Src("BUY", 1, 1, 3, 8), Src("BUY", 2, 2, 1, 4), Src("SELL", 3, 3, 2, 8)>>
Grown == <<Src("BUY", 1, 1, 1, 8), Src("SPLIT", 2, 2, 2, 0), Src("BONUS", 2, 2, 1, 0), Src("SELL", 6, 6, 1, 8)>>
SoldOut == <<Src("BUY", 1, 1, 1, 8), Src("SELL", 3, 3, 1, 8)>>

(* A buy traded before the record date and settled after it.                *)
Around == <<Src("BUY", 1, 1, 2, 8), Src("BUY", 4, 6, 2, 4)>>

(* A demerger of the security two lots of which had different trade dates.  *)
Demerged ==
    <<Src("BUY", 1, 1, 2, 8), Src("BUY", 2, 2, 2, 4),
      [Src("DEMERGER", 1, 3, 2, 4) EXCEPT !.sort = 1], [Src("DEMERGER", 2, 3, 2, 2) EXCEPT !.sort = 2]>>

MCScenarios == {<<>>, TwoLots, Grown, SoldOut, Around}
MCDemerged == {Demerged}

(* What SuccessIsNoLie of LotActionsProofs assumes of the scenarios.        *)
ASSUME EnginesAgree == LotsAgree
=============================================================================
