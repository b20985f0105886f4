--------------------------- MODULE MCHoldingsTable ---------------------------
EXTENDS HoldingsTable

Txn(p, kind, date, sort, qty, price) ==
    [pair |-> p, kind |-> kind, date |-> date, sort |-> sort, qty |-> qty, price |-> price, org |-> ""]

MCAcctOf == <<"a", "a", "b">>
MCIsinOf == <<"i", "j", "i">>

(* Empty tables, or one old lot.                                             *)
MCHistories ==
    { <<>>, <<Txn(1, "BUY", 1, 1, 2, 8)>> }

(* Buys of both accounts; a sell across lots after a buy; a back-dated buy  *)
(* beside a row that neither buys nor sells.                                *)
MCBatches ==
    { <<Txn(1, "BUY", 3, 3, 2, 8), Txn(2, "BUY", 3, 3, 1, 4), Txn(3, "BUY", 3, 3, 1, 8)>>,
      <<Txn(1, "BUY", 5, 5, 2, 4), Txn(1, "SELL", 6, 8, 3, 8), Txn(3, "SELL", 6, 8, 1, 4)>>,
      <<Txn(1, "BUY", 2, 2, 1, 16), Txn(1, "MISC", 5, 5, 1, 0)>> }

(* A split of ISIN i, a bonus, a demerger that leaves two lots and the      *)
(* merger of j into i.                                                      *)
MCDeeds ==
    { <<Txn(1, "SPLIT", 4, 4, 2, 0), Txn(3, "SPLIT", 4, 4, 2, 0)>>,
      <<Txn(1, "BONUS", 4, 4, 1, 0)>>,
      <<Txn(1, "DEMERGER", 5, 1, 1, 2), Txn(1, "DEMERGER", 5, 3, 2, 1)>>,
      <<[Txn(1, "MERGER", 7, 1, 1, 4) EXCEPT !.org = "j"]>> }
==============================================================================
