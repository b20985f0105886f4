------------------------------ MODULE FifoViews ------------------------------
(***************************************************************************)
(* The copies of the FIFO engine.                                          *)
(*                                                                         *)
(* The holding of a pair is worked out by a dozen copies of one algorithm  *)
(* in the repository, each with its own sources and its own rules for      *)
(* corporate actions.  A view says which: the tables it is given (reads),  *)
(* whether a demerger or merger row is an event of its record date or of   *)
(* the trade date of its lot (dated), whether each demerger row closes the *)
(* lots or only the first of its event (demerger), whether a split writes  *)
(* a row per lot (split), and whether the row of a lot that is sold out    *)
(* becomes inactive (flags).  Run is the algorithm on a view.              *)
(*                                                                         *)
(* Unlike FifoLots, which keeps what the rebuild and the worker need, lots *)
(* have numbers, rows a STATUS, holdings is a counter of its own, and a    *)
(* sell knows the cost of what it took.                                    *)
(***************************************************************************)
EXTENDS FifoLots

Shares == TxnKinds \union {"SPLIT", "BONUS"}

(* Mutant of PerAccountTrades: the row of a lot sold out stays active.      *)
PerAccountTradesUnflagged == [flags |-> FALSE]

(* CalculateHoldingPerAccount.                                              *)
PerAccountEvents == [reads |-> Kinds, dated |-> "record"]
PerAccountTrades == [flags |-> TRUE]
PerAccountActions == [split |-> "rows", demerger |-> "event"]

(* HoldingUpdateManually.                                                   *)
ManualEvents == [reads |-> Kinds, dated |-> "record"]
ManualTrades == [flags |-> FALSE]
ManualActions == [split |-> "rows", demerger |-> "event"]

(* CalculateHoldingsPerAccount, which passes transactions alone.            *)
ReplayEvents == [reads |-> TxnKinds, dated |-> "lot"]
ReplayTrades == [flags |-> FALSE]
ReplayActions == [split |-> "rows", demerger |-> "row"]

(* util/analytics/transactionHistory/fifo.js and util/export/fifo.js.       *)
AnalyticsEvents == [reads |-> Kinds, dated |-> "lot"]
AnalyticsTrades == [flags |-> FALSE]
AnalyticsActions == [split |-> "rows", demerger |-> "row"]
ExportEvents == [reads |-> Kinds, dated |-> "lot"]
ExportTrades == [flags |-> FALSE]
ExportActions == [split |-> "rows", demerger |-> "row"]

(* UpdateDividendData: it knows all kinds and is given three.               *)
DividendEvents == [reads |-> Shares, dated |-> "lot"]
DividendTrades == [flags |-> FALSE]
DividendActions == [split |-> "rows", demerger |-> "row"]

(* UpdateBonusTable and ExportDividendAccounts know three kinds.            *)
BonusEvents == [reads |-> Shares, dated |-> "record"]
BonusTrades == [flags |-> FALSE]
BonusActions == [split |-> "rows", demerger |-> "row"]
PaidEvents == [reads |-> Shares, dated |-> "record"]
PaidTrades == [flags |-> FALSE]
PaidActions == [split |-> "rows", demerger |-> "row"]

(* runFifoForLots (MegerFn) and runLotFifo (the merger preview): the open   *)
(* lots are the result, a split changes them in place.                      *)
MergerEvents == [reads |-> Kinds, dated |-> "lot"]
MergerLots == [flags |-> FALSE, split |-> "lots", demerger |-> "row"]
PreviewEvents == [reads |-> Kinds, dated |-> "lot"]
PreviewLots == [flags |-> FALSE, split |-> "lots", demerger |-> "row"]

Views ==
    [perAccount |-> PerAccountEvents @@ PerAccountTrades @@ PerAccountActions,
     manual |-> ManualEvents @@ ManualTrades @@ ManualActions,
     replay |-> ReplayEvents @@ ReplayTrades @@ ReplayActions,
     analytics |-> AnalyticsEvents @@ AnalyticsTrades @@ AnalyticsActions,
     export |-> ExportEvents @@ ExportTrades @@ ExportActions,
     dividend |-> DividendEvents @@ DividendTrades @@ DividendActions,
     bonus |-> BonusEvents @@ BonusTrades @@ BonusActions,
     paid |-> PaidEvents @@ PaidTrades @@ PaidActions,
     merger |-> MergerEvents @@ MergerLots,
     preview |-> PreviewEvents @@ PreviewLots]

----------------------------------------------------------------------------
(* The algorithm.                                                           *)

EventDate(v, s) ==
    IF v.dated = "lot" /\ s.kind \in {"DEMERGER", "MERGER"} THEN s.sort ELSE s.date

(* Mutant of Earlier: bonus shares before the split of the same day.        *)
EarlierBonusFirst(v, src, i, j) ==
    LET Rank(k) == CASE k = "SPLIT" -> 2 [] k = "BONUS" -> 1 [] OTHER -> Priority[k]
        a == <<EventDate(v, src[i]), Rank(src[i].kind), src[i].sort, i>>
        b == <<EventDate(v, src[j]), Rank(src[j].kind), src[j].sort, j>>
    IN \E c \in 1 .. 4 : a[c] < b[c] /\ \A d \in 1 .. c - 1 : a[d] = b[d]

(* The sort of the events: date, then EVENT_TYPE_PRIORITY, then the order   *)
(* in which the table was fetched.                                          *)
Earlier(v, src, i, j) ==
    LET a == <<EventDate(v, src[i]), Priority[src[i].kind], src[i].sort, i>>
        b == <<EventDate(v, src[j]), Priority[src[j].kind], src[j].sort, j>>
    IN \E c \in 1 .. 4 : a[c] < b[c] /\ \A d \in 1 .. c - 1 : a[d] = b[d]

EventsOf(v, src, S) ==
    Ordered({i \in S : src[i].kind \in v.reads}, Len(src), LAMBDA i, j : Earlier(v, src, i, j))

Cost(queue) == FoldLeft(LAMBDA n, lot : n + lot.qty * lot.price, 0, queue)

(* A row of the output: lot is 0 in a sell, taken the FIFO cost of a sell.  *)
OutputRow(acc, i, s, lot, taken) ==
    [src |-> i, type |-> s.kind, lot |-> lot, qty |-> s.qty, price |-> s.price,
     holding |-> acc.holdings, value |-> Cost(acc.queue), taken |-> taken, active |-> lot # 0]

Deactivate(rows, lots) ==
    [n \in DOMAIN rows |-> IF rows[n].lot \in lots THEN [rows[n] EXCEPT !.active = FALSE] ELSE rows[n]]

LotIds(queue) == {queue[n].id : n \in DOMAIN queue}

(* A buy, bonus, demerger or merger row puts one lot at the end.            *)
AddLot(acc, i, s) ==
    LET id == acc.lots + 1
        next == [acc EXCEPT !.lots = id,
                            !.queue = Append(@, [id |-> id, qty |-> s.qty, price |-> s.price]),
                            !.holdings = @ + s.qty]
    IN [next EXCEPT !.rows = Append(@, OutputRow(next, i, s, id, 0))]

(* A sell takes from the oldest lots; one that is empty leaves.             *)
SellLots(v, acc, i, s) ==
    LET sell == Least(s.qty, acc.holdings)
        rest == Consume(acc.queue, sell)
        gone == LotIds(acc.queue) \ LotIds(rest)
        next == [acc EXCEPT !.queue = rest,
                            !.holdings = @ - sell,
                            !.rows = IF v.flags THEN Deactivate(@, gone) ELSE @]
    IN [next EXCEPT !.rows = Append(@, OutputRow(next, i, s, 0, Cost(acc.queue) - Cost(rest)))]

(* Every open lot is replaced by one of ratio times its size, its row       *)
(* closed and a row of the split written.                                   *)
SplitRows(acc, i, s) ==
    LET closed == [acc EXCEPT !.queue = <<>>, !.holdings = 0,
                              !.rows = Deactivate(@, LotIds(acc.queue))]
        Replace(a, lot) == AddLot(a, i, [s EXCEPT !.qty = lot.qty * s.qty, !.price = lot.price \div s.qty])
    IN FoldLeft(LAMBDA a, lot : Strict(LAMBDA b : Replace(b, lot), a), closed, acc.queue)

(* The lots themselves grow.                                                *)
SplitInPlace(acc, s) ==
    LET Grown(lot) == [lot EXCEPT !.qty = @ * s.qty, !.price = @ \div s.qty]
        queue == [n \in DOMAIN acc.queue |-> Grown(acc.queue[n])]
    IN [acc EXCEPT !.queue = queue, !.holdings = Total(queue)]

CloseLots(acc) ==
    [acc EXCEPT !.queue = <<>>, !.holdings = 0, !.rows = Deactivate(@, LotIds(acc.queue))]

(* A demerger or merger row: the lots before its event are closed.          *)
ReplaceStep(v, acc, i, s) ==
    LET key == <<EventDate(v, s), s.org>>
        again == acc.lastKey[s.kind] = key /\ (s.kind = "MERGER" \/ v.demerger = "event")
        opened == IF again THEN acc ELSE CloseLots(acc)
    IN AddLot([opened EXCEPT !.lastKey[s.kind] = key], i, s)

EventStep(v, acc, i, s) ==
    CASE s.kind = "MISC" -> acc
      [] s.kind = "SELL" -> SellLots(v, acc, i, s)
      [] s.kind = "SPLIT" -> IF v.split = "rows" THEN SplitRows(acc, i, s) ELSE SplitInPlace(acc, s)
      [] s.kind \in {"DEMERGER", "MERGER"} -> ReplaceStep(v, acc, i, s)
      [] OTHER -> AddLot(acc, i, s)

Run(v, src, S) ==
    FoldLeft(LAMBDA acc, i : Strict(LAMBDA a : EventStep(v, a, i, src[i]), acc),
             [queue |-> <<>>, holdings |-> 0, rows |-> <<>>, lots |-> 0,
              lastKey |-> [k \in {"DEMERGER", "MERGER"} |-> <<>>]],
             EventsOf(v, src, S))

----------------------------------------------------------------------------
(* Two engines that count quantities only.                                  *)

(* transactionHistory/FifoQty.js: events in order, negatives cut at the end.*)
QtyInOrder(src, S) ==
    LET Step(n, s) == CASE s.kind \in {"BUY", "BONUS"} -> n + s.qty
                        [] s.kind = "SELL" -> n - s.qty
                        [] s.kind = "SPLIT" -> n * s.qty
                        [] OTHER -> n
        n == FoldLeft(LAMBDA m, i : Step(m, src[i]), 0, EventsOf(Views.bonus, src, S))
    IN IF n < 0 THEN 0 ELSE n

(* ExportDifferentialReport/fifo.js: transactions, bonuses and splits one   *)
(* table after the other.                                                   *)
QtyByTable(src, S) ==
    LET Of(k) == Ordered({i \in S : src[i].kind = k}, Len(src), <)
        Qty(k) == FoldLeft(LAMBDA n, i : n + src[i].qty, 0, Of(k))
        n == FoldLeft(LAMBDA m, i : m * src[i].qty, Qty("BUY") - Qty("SELL") + Qty("BONUS"), Of("SPLIT"))
    IN IF n < 0 THEN 0 ELSE n

----------------------------------------------------------------------------
(* Reading the Holdings table (util/analytics/holdingsFromTable.js).        *)

(* What AS_ON_DATE leaves of the sources: demerger and merger rows go by    *)
(* the trade date of their lot.                                             *)
SourcesUpTo(src, S, d) ==
    {i \in S : (IF src[i].kind \in {"DEMERGER", "MERGER"} THEN src[i].sort ELSE src[i].date) <= d}

(* Mutant of RowDate: demerger and merger rows by their record date.        *)
RowDateOfEvent(src, r) == src[r.src].date

(* holdingsEffectiveDate of a Holdings row.                                 *)
RowDate(src, r) ==
    IF r.type \in {"DEMERGER", "MERGER"} THEN src[r.src].sort ELSE src[r.src].date

(* fetchHoldingsRowsPaged and rollupLastSnapshotByIsin of one ISIN: HOLDING *)
(* of the last row not after d.                                             *)
HoldingAsOn(src, rows, d) ==
    LET shown == SelectSeq(rows, LAMBDA r : RowDate(src, r) <= d)
    IN IF shown = <<>> THEN 0 ELSE Last(shown).holding
==============================================================================
