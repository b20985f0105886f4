-------------------------- MODULE MCAccountHoldings --------------------------
EXTENDS AccountHoldings

Row(p, kind, date, sort, qty, price) ==
    [pair |-> p, kind |-> kind, date |-> date, sort |-> sort, qty |-> qty, price |-> price, org |-> ""]

MCAcctOf == <<1, 1, 2>>
MCIsinOf == <<"i", "j", "i">>

(* Empty tables, or two old lots and a sell that ends the first.            *)
MCHistories ==
    { <<>>,
      <<Row(1, "BUY", 1, 1, 2, 8), Row(1, "BUY", 2, 2, 2, 4), Row(1, "SELL", 3, 4, 3, 8), Row(2, "BUY", 3, 3, 1, 4)>> }

(* Buys of both accounts; a buy and a sell across lots; a short sell beside *)
(* a row that neither buys nor sells.                                       *)
MCBatches ==
    { <<Row(1, "BUY", 4, 4, 1, 4), Row(1, "BUY", 4, 4, 2, 8), Row(3, "BUY", 4, 4, 1, 8)>>,
      <<Row(1, "BUY", 6, 6, 2, 4), Row(1, "SELL", 7, 9, 3, 8), Row(2, "SELL", 7, 9, 1, 4)>>,
      <<Row(1, "MISC", 6, 6, 1, 0), Row(3, "SELL", 7, 9, 2, 4)>> }

(* A split with a bonus on its day; a demerger of two lots; the merger of j *)
(* into i, two lots.                                                        *)
MCDeeds ==
    { <<Row(1, "BONUS", 5, 5, 1, 0), Row(1, "SPLIT", 5, 5, 2, 0), Row(3, "SPLIT", 5, 5, 2, 0)>>,
      <<Row(1, "DEMERGER", 5, 1, 1, 2), Row(1, "DEMERGER", 5, 3, 2, 1)>>,
      <<[Row(1, "MERGER", 8, 1, 1, 4) EXCEPT !.org = "j"], [Row(1, "MERGER", 8, 2, 1, 2) EXCEPT !.org = "j"]>> }
==============================================================================
