--------------------------- MODULE MCCashAppend ---------------------------
(* Small instances of CashAppend for TLC.                                   *)
EXTENDS CashAppend

Txn(a, i, amt, opening, rank) ==
    [acct |-> a, import |-> i, amt |-> amt, opening |-> opening, rank |-> rank]

(* Two uploads: account 1 is opened by a CS+ that is not its first event,   *)
(* and the second upload is dated before the first.                         *)
TwoUploads == {Txn(1, 1, 7, FALSE, 2), Txn(1, 1, 5, TRUE, 3), Txn(2, 1, 4, TRUE, 4),
               Txn(1, 2, -2, FALSE, 1)}

(* Uploads that overlap are followed through one fault or handoff and two   *)
(* ticks, and no further than the first row two jobs can write twice: every *)
(* property leaves out what comes after it.                                 *)
Within ==
    /\ crossed = {}
    /\ overlap => now <= 2 /\ faults + Handoffs <= 1
===========================================================================
