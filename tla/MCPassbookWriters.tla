-------------------------- MODULE MCPassbookWriters --------------------------
EXTENDS PassbookWriters

Trade(i, a, d, n, r) == [import |-> i, acct |-> a, date |-> d, amt |-> n, rank |-> r]

(* Account 1 has a row before and one after the record date; the upload     *)
(* adds one.                                                                *)
MCTrades == {Trade(0, 1, 1, 5, 1), Trade(0, 1, 3, -2, 2), Trade(1, 1, 4, 1, 3)}

Posted(t, seq, bal) ==
    [kind |-> "txn", of |-> t.rank, date |-> t.date, amt |-> t.amt, seq |-> seq, bal |-> bal, by |-> 0, epoch |-> 0]
MCOpening == <<{Posted(Trade(0, 1, 1, 5, 1), 1, 5), Posted(Trade(0, 1, 3, -2, 2), 2, 3)}, {}>>

MCRecordDate == <<2>>

(* Held by both; it agrees with the file for account 1 only.                *)
MCAmount == <<<<4, 6>>>>
MCFile == <<<<4, 0>>>>

(* What follows two jobs at one passbook is not searched (bound): the       *)
(* properties leave that passbook out.                                      *)
Apart == \A a \in Accounts : "together" \notin mishap[a]
==============================================================================
