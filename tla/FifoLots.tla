------------------------------ MODULE FifoLots ------------------------------
(***************************************************************************)
(* The two ways the system computes a holding of one (account, ISIN) pair. *)
(*                                                                         *)
(* Engine is runFifoEngine (RebuildHoldingtable): all transactions and     *)
(* corporate actions in event order, giving the Holdings rows and the lots *)
(* still open.  Reconstruct is reconstructBuyQueueFromHoldings             *)
(* (CalculateHoldingWorkers): the open lots, read back from Holdings rows. *)
(*                                                                         *)
(* A source is a row of Transaction, Bonus, Split, Demerger_Record or      *)
(* Merger: its kind, its event date, the column its table is fetched by    *)
(* (SETDATE of a transaction, TRANDATE of a merger lot), quantity, price   *)
(* (ratio of a split in qty) and, of a merger, OldISIN in org.  Quantities *)
(* are whole and prices divide by the ratios: rounding is left out, and so *)
(* are rows with quantity 0 and the STATUS and P_L columns.                *)
(***************************************************************************)
EXTENDS Integers, FiniteSets, SequencesExt

TxnKinds == {"BUY", "SELL", "MISC"}
Kinds == TxnKinds \union {"SPLIT", "BONUS", "DEMERGER", "MERGER"}
Replacing == {"SPLIT", "DEMERGER", "MERGER"}

Total(queue) == FoldLeft(LAMBDA n, lot : n + lot.qty, 0, queue)
CostOf(queue) == FoldLeft(LAMBDA n, lot : n + lot.qty * lot.price, 0, queue)

Least(m, n) == IF m < n THEN m ELSE n

(* f(x), with x worked out once however often f names it: TLC expands the   *)
(* accumulator of a fold at every use when it evaluates ENABLED.            *)
Strict(f(_), x) == CHOOSE y \in {f(v) : v \in {x}} : TRUE

(* A sell of n takes from the oldest lots; a lot that is empty leaves.  The *)
(* first lots, up to n together, are sold whole, the next one in part.      *)
Consume(queue, n) ==
    LET UpTo(d) == Total(SubSeq(queue, 1, d))
        whole == Cardinality({d \in DOMAIN queue : UpTo(d) <= n})
    IN [k \in 1 .. Len(queue) - whole |->
          IF k = 1 THEN [queue[whole + 1] EXCEPT !.qty = UpTo(whole + 1) - n] ELSE queue[whole + k]]

(* What a transaction does to the lots; a sell is capped at the holding.    *)
Trade(queue, s) ==
    IF s.kind = "SELL" THEN Consume(queue, Least(s.qty, Total(queue)))
    ELSE Append(queue, [qty |-> s.qty, price |-> s.price])

(* A Holdings row: TYPE, the date corporate-action rows are grouped by      *)
(* (CA_DATE, else TRANSACTION_DATE), QUANTITY, PRICE, HOLDING and           *)
(* HOLDING_VALUE; src tells which source it was written for.                *)
HoldingsRow(i, s, qty, price, holding, value) ==
    [src |-> i, type |-> s.kind, date |-> s.date,
     qty |-> qty, price |-> price, holding |-> holding, value |-> value]

----------------------------------------------------------------------------
(* runFifoEngine.                                                           *)

Priority == [BUY |-> 0, SELL |-> 0, MISC |-> 0, SPLIT |-> 1, BONUS |-> 2,
             DEMERGER |-> 3, MERGER |-> 4]

(* Event order of sources i and j: date, then priority of the table, then   *)
(* the order in which the table was fetched (the sort is stable).           *)
EventBefore(src, i, j) ==
    LET a == <<src[i].date, Priority[src[i].kind], src[i].sort, i>>
        b == <<src[j].date, Priority[src[j].kind], src[j].sort, j>>
    IN \E c \in 1 .. 4 : a[c] < b[c] /\ \A d \in 1 .. c - 1 : a[d] = b[d]

(* Every lot is replaced by a split of ratio m: running totals restart at   *)
(* 0.  The code puts a new row before the first later trade date; there is  *)
(* none, because events come by date and no lot of a merger or demerger was *)
(* traded after its record date, so the rows go to the end.                 *)
SplitLots(acc, i, s) ==
    LET m == s.qty
        New(lot) == [qty |-> lot.qty * m, price |-> lot.price \div m]
        lots == [k \in DOMAIN acc.queue |-> New(acc.queue[k])]
        upTo(k) == SubSeq(lots, 1, k)
    IN [acc EXCEPT
          !.queue = lots,
          !.rows = @ \o [k \in DOMAIN lots |->
                          HoldingsRow(i, s, lots[k].qty, lots[k].price,
                                      Total(upTo(k)), CostOf(upTo(k)))]]

(* A row of a demerger or merger: the first of its event closes all lots.   *)
ReplaceLots(acc, i, s) ==
    LET key == <<s.kind, s.date, s.org>>
        kept == IF acc.lastKey[s.kind] = key THEN acc.queue ELSE <<>>
        lots == Append(kept, [qty |-> s.qty, price |-> s.price])
    IN [acc EXCEPT !.queue = lots,
                   !.lastKey[s.kind] = key,
                   !.rows = Append(@, HoldingsRow(i, s, s.qty, s.price,
                                                  Total(lots), CostOf(lots)))]

(* One event; a transaction that neither buys nor sells changes nothing.    *)
ApplyEvent(acc, i, s) ==
    CASE s.kind = "MISC" -> acc
      [] s.kind = "SPLIT" -> SplitLots(acc, i, s)
      [] s.kind \in {"DEMERGER", "MERGER"} -> ReplaceLots(acc, i, s)
      [] OTHER -> LET lots == Trade(acc.queue, s)
                  IN [acc EXCEPT !.queue = lots,
                                 !.rows = Append(@, HoldingsRow(i, s, s.qty, s.price,
                                                                Total(lots), CostOf(lots)))]

(* The elements of S, a set of indices up to n, in the given order.         *)
Ordered(S, n, Before(_, _)) ==
    SortSeq(SelectSeq([i \in 1 .. n |-> i], LAMBDA i : i \in S), Before)

(* The engine on the sources whose indices are in S, the latest event last. *)
Engine(src, S) ==
    LET Latest(T) == CHOOSE i \in T : \A j \in T \ {i} : EventBefore(src, j, i)
        run[T \in SUBSET S] ==
            IF T = {} THEN [queue |-> <<>>, rows |-> <<>>, lastKey |-> [k \in Replacing |-> <<>>]]
            ELSE LET i == Latest(T)
                 IN Strict(LAMBDA v : ApplyEvent(v, i, src[i]), run[T \ {i}])
    IN run[S]

----------------------------------------------------------------------------
(* reconstructBuyQueueFromHoldings.                                         *)

(* Mutant of ReplayRow: the group is the date of the lot, not of the event, *)
(* so every row of a demerger or merger closes all lots.                    *)
ReplayRowPerLot(acc, r) ==
    LET key == <<r.type, r.date>>
    IN IF r.type \in Replacing
       THEN [queue |-> <<[qty |-> r.qty, price |-> r.price]>>, lastKey |-> key]
       ELSE [queue |-> IF r.type = "MISC" THEN acc.queue
                       ELSE Trade(acc.queue, [kind |-> r.type, qty |-> r.qty, price |-> r.price]),
             lastKey |-> <<>>]

ReplayRow(acc, r) ==
    LET key == <<r.type, r.date>>
        kept == IF acc.lastKey = key THEN acc.queue ELSE <<>>
    IN IF r.type \in Replacing
       THEN [queue |-> Append(kept, [qty |-> r.qty, price |-> r.price]), lastKey |-> key]
       ELSE [queue |-> IF r.type = "MISC" THEN acc.queue
                       ELSE Trade(acc.queue, [kind |-> r.type, qty |-> r.qty, price |-> r.price]),
             lastKey |-> <<>>]

Reconstruct(rows) ==
    FoldLeft(LAMBDA acc, r : Strict(LAMBDA v : ReplayRow(v, r), acc), [queue |-> <<>>, lastKey |-> <<>>], rows).queue
============================================================================
