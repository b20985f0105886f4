----------------------------- MODULE LotActions ------------------------------
(***************************************************************************)
(* Applying a merger or a demerger to every account that holds a security. *)
(*                                                                         *)
(* MergerController and DemergerController submit a job to a pool that     *)
(* runs it again when it fails.  MegerFn replays the transactions of the   *)
(* old ISIN account by account, gathers a row per surviving lot, writes    *)
(* all of them by one bulk write it waits for, submits the rebuilds of     *)
(* Holdings and marks the accounts.  DemergerFn reads the lots back from   *)
(* the Holdings rows, writes an account's rows one by one, marks it, and   *)
(* submits the rebuilds at the end.                                        *)
(*                                                                         *)
(* What an account has of the old ISIN is one of Scenarios, a sequence of  *)
(* sources as in FifoLots with td, the TRANDATE of a transaction.          *)
(***************************************************************************)
EXTENDS FifoViews, FiniteSets

CONSTANTS
    NumAccounts,
    Scenarios,
    RecordDate,
    Ratio1,
    Ratio2,
    Pct,            \* Allocation_To_New_Pct
    MaxJobs,        \* applications
    MaxTries,       \* runs of a job by the pool
    MaxFaults       \* statements that fail, waits given up, kills

Accounts == 1 .. NumAccounts
Jobs == 1 .. MaxJobs

ASSUME LotActionsAssumption ==
    /\ {NumAccounts, RecordDate, Ratio1, Ratio2, MaxJobs, MaxTries} \subseteq Nat \ {0}
    /\ Pct \in 0 .. 100 /\ MaxFaults \in Nat
    /\ \A src \in Scenarios : \A i \in DOMAIN src : src[i].kind \in Kinds

VARIABLES
    act,        \* "merger" or "demerger"
    book,       \* the scenario of each account
    jobsRow,    \* Jobs.status
    status,     \* JobStatusPerAccount
    header,     \* the Merger_Record or Demerger row is there
    table,      \* rows of Merger or Demerger_Record
    rebuilt,    \* accounts submitted for a rebuild since their last row
    job,
    bulk,       \* the bulk writes
    faults,
    accident    \* history: what befell an account

vars == <<act, book, jobsRow, status, header, table, rebuilt, job, bulk, faults, accident>>
fixed == <<act, book>>

----------------------------------------------------------------------------
(* Lots of the old ISIN on the record date.                                 *)

Indices(src, Shown(_)) == {i \in DOMAIN src : Shown(src[i])}

Dated(s) == (IF s.kind \in {"DEMERGER", "MERGER"} THEN s.sort ELSE s.date) <= RecordDate

(* fetchTransactionsForIsinAsOnDate of MegerFn: either date will do.        *)
AppliedSources(src) ==
    Indices(src, LAMBDA s : IF s.kind \in TxnKinds THEN {s.td, s.sort} \cap 1 .. RecordDate # {} ELSE Dated(s))

QtyPrice(queue) == [n \in DOMAIN queue |-> [qty |-> queue[n].qty, price |-> queue[n].price]]

MergerLotsOf == [src \in Scenarios |-> QtyPrice(Run(Views.merger, src, AppliedSources(src)).queue)]

(* One Holdings row of computeSurvivingLotsFromHoldingRows.  The rows of an *)
(* event are told by TRANSACTION_DATE, that of the lot in a demerger or     *)
(* merger row.                                                              *)
SurvivingStep(src, acc, r) ==
    LET key == <<EventDate([dated |-> "lot"], src[r.src]), r.type>>
        lot == [qty |-> r.qty, price |-> IF r.type = "BONUS" THEN 0 ELSE r.price]
    IN CASE r.type = "SELL" -> [acc EXCEPT !.queue = Consume(@, r.qty)]
         [] r.type \in {"BUY", "BONUS"} -> [acc EXCEPT !.queue = Append(@, lot)]
         [] r.type \in Replacing ->
               [queue |-> IF acc.lastKey = key THEN Append(acc.queue, lot) ELSE <<lot>>, lastKey |-> key]
         [] OTHER -> acc

(* The rows RebuildHoldingtable wrote with SETTLEMENT_DATE up to the record *)
(* date, in the order they were created.                                    *)
DemergerLotsOf ==
    [src \in Scenarios |->
        LET rows == SelectSeq(Engine(src, DOMAIN src).rows,
                              LAMBDA r : (IF r.type \in {"SELL", "DEMERGER", "MERGER"} THEN src[r.src].sort
                                          ELSE src[r.src].date) <= RecordDate)
        IN FoldLeft(LAMBDA acc, r : Strict(LAMBDA v : SurvivingStep(src, v, r), acc),
                    [queue |-> <<>>, lastKey |-> <<>>], rows).queue]

LotsOf(a) == IF act = "merger" THEN MergerLotsOf[book[a]] ELSE DemergerLotsOf[book[a]]

NewQty(lot) == (lot.qty * Ratio1) \div Ratio2
NewCost(lot) == (lot.qty * lot.price * Pct) \div 100

TableRow(n, side, qty, cost) == [lot |-> n, side |-> side, qty |-> qty, cost |-> cost]

(* mergerInsertRows: a lot that rounds to nothing is skipped.               *)
MergerRows(lots) ==
    {TableRow(n, "new", NewQty(lots[n]), lots[n].qty * lots[n].price) :
        n \in {m \in 1 .. Len(lots) : NewQty(lots[m]) > 0}}

(* buildLotLevelDemergerForAccount: the cost is shared out; the new side of *)
(* a lot that rounds to nothing is skipped.                                 *)
DemergerRows(lots) ==
    {TableRow(n, "old", lots[n].qty, lots[n].qty * lots[n].price - NewCost(lots[n])) : n \in 1 .. Len(lots)}
    \union {TableRow(n, "new", NewQty(lots[n]), NewCost(lots[n])) :
               n \in {m \in 1 .. Len(lots) : NewQty(lots[m]) > 0}}

RowsFor(lots) == IF act = "merger" THEN MergerRows(lots) ELSE DemergerRows(lots)

(* The row written next: lot by lot, the old side first.                    *)
FirstRow(S) ==
    CHOOSE m \in S : \A n \in S :
       m.row.lot < n.row.lot \/ (m.row.lot = n.row.lot /\ (m.row.side = "old" \/ n = m))

----------------------------------------------------------------------------
(* A job: tries, accts still to walk, rows gathered (merger) or still to    *)
(* write (demerger), accounts with rows, trackingFailures.                  *)
NewJob(pc, tries) ==
    [pc |-> pc, tries |-> tries, accts |-> {}, rows |-> {}, affected |-> {}, failures |-> 0]

Init ==
    /\ act \in {"merger", "demerger"}
    /\ book \in [Accounts -> Scenarios]
    /\ jobsRow = "none"
    /\ status = [a \in Accounts |-> "none"]
    /\ header = FALSE
    /\ table = {}
    /\ rebuilt = {}
    /\ job = [k \in Jobs |-> NewJob("absent", 0)]
    /\ bulk = {}
    /\ faults = 0
    /\ accident = [a \in Accounts |-> {}]

AtWork(k) == job[k].pc \notin {"absent", "queued", "done", "failed"}
First(S) == CHOOSE a \in S : \A b \in S : a <= b
Here(k) == First(job[k].accts)
Fault == faults < MaxFaults /\ faults' = faults + 1
Befalls(S, what) == accident' = [a \in Accounts |-> accident[a] \union (IF a \in S THEN {what} ELSE {})]

(* Accounts with rows that are written or on their way, of which the status *)
(* does not tell.                                                           *)
Untold == {a \in Accounts : status[a] # "SUCCESS" /\
              a \in {r.acct : r \in table} \union UNION {b.accts : b \in bulk}}

(* Accounts whose rows an ending run leaves without a rebuild.              *)
Unrebuilt == {r.acct : r \in table} \ rebuilt

(* applyMerger, applyDemerger: a RUNNING row that is not stale is an        *)
(* answer; any other is deleted.  Two requests may both find none.          *)
Apply(k) ==
    /\ job[k].pc = "absent" /\ \A j \in Jobs : j < k => job[j].pc # "absent"
    /\ jobsRow = "RUNNING" => \A j \in Jobs : ~AtWork(j)
    /\ jobsRow' = "none"
    /\ job' = [job EXCEPT ![k] = NewJob("queued", 0)]
    /\ UNCHANGED <<fixed, status, header, table, rebuilt, bulk, faults, accident>>

(* getMergerApplyStatus, getDemergerApplyStatus: ERROR over a stale row.    *)
PollStatus ==
    /\ jobsRow = "RUNNING" /\ \A k \in Jobs : ~AtWork(k)
    /\ jobsRow' = "ERROR"
    /\ UNCHANGED <<fixed, status, header, table, rebuilt, job, bulk, faults, accident>>

Walkers == {a \in Accounts : book[a] # <<>>}

(* RUNNING, by INSERT or UPDATE; the accounts that have the old ISIN.  A    *)
(* run beside another one is an accident.                                   *)
Start(k) ==
    /\ job[k].pc = "queued"
    /\ IF Walkers = {} /\ act = "merger"
       THEN jobsRow' = "COMPLETED" /\ job' = [job EXCEPT ![k].pc = "done"]
       ELSE /\ jobsRow' = "RUNNING"
            /\ job' = [job EXCEPT ![k].accts = Walkers,
                                  ![k].pc = IF act = "merger" THEN "walk" ELSE "header"]
    /\ Befalls(IF \E j \in Jobs : AtWork(j) THEN Accounts ELSE {}, "together")
    /\ UNCHANGED <<fixed, status, header, table, rebuilt, bulk, faults>>

(* Closes with failure: the pool runs the job again.                        *)
Ended(k) == IF job[k].tries + 1 < MaxTries THEN NewJob("queued", job[k].tries + 1)
            ELSE [job[k] EXCEPT !.pc = "failed"]

Fail(k) ==
    /\ jobsRow' = "FAILED"
    /\ job' = [job EXCEPT ![k] = Ended(k)]
    /\ accident' = [a \in Accounts |-> accident[a] \union (IF a \in Untold THEN {"cut"} ELSE {})
                                                   \union (IF a \in Unrebuilt THEN {"unbuilt"} ELSE {})]

(* A statement outside the per-account handlers throws.                     *)
Throws(k) ==
    /\ job[k].pc \in {"header", "bulk", "queue"} \union (IF act = "merger" THEN {"walk"} ELSE {})
    /\ Fault /\ Fail(k)
    /\ UNCHANGED <<fixed, status, header, table, rebuilt, bulk>>

Killed(k) ==
    /\ AtWork(k)
    /\ Fault
    /\ job' = [job EXCEPT ![k] = Ended(k)]
    /\ accident' = [a \in Accounts |-> accident[a] \union (IF a \in Untold THEN {"cut"} ELSE {})
                                                   \union (IF a \in Unrebuilt THEN {"unbuilt"} ELSE {})]
    /\ UNCHANGED <<fixed, jobsRow, status, header, table, rebuilt, bulk>>

(* ensureMergerRecordHeader, ensureDemergerHeader: inserted once.           *)
Header(k) ==
    /\ job[k].pc = "header"
    /\ header' = TRUE
    /\ job' = [job EXCEPT ![k].pc = IF act = "merger" THEN "bulk"
                                    ELSE IF job[k].accts = {} THEN "queue" ELSE "walk"]
    /\ UNCHANGED <<fixed, jobsRow, status, table, rebuilt, bulk, faults, accident>>

----------------------------------------------------------------------------
(* The walk over the accounts.                                              *)

(* r with its first account behind it.                                      *)
Passed(r) ==
    LET rest == r.accts \ {First(r.accts)}
    IN [r EXCEPT !.accts = rest,
                 !.pc = IF rest # {} THEN "walk"
                        ELSE IF act = "demerger" THEN "queue"
                        ELSE IF r.rows = {} THEN "finish" ELSE "header"]

Tell(a, st) == status' = [status EXCEPT ![a] = st]

(* Mutant of SkipAccount: an account that is RUNNING is skipped as well.    *)
SkipAccountBegun(k) ==
    /\ job[k].pc = "walk" /\ status[Here(k)] \in {"SUCCESS", "RUNNING"}
    /\ job' = [job EXCEPT ![k] = Passed(job[k])]
    /\ UNCHANGED <<fixed, jobsRow, status, header, table, rebuilt, bulk, faults, accident>>

SkipAccount(k) ==
    /\ job[k].pc = "walk" /\ status[Here(k)] = "SUCCESS"
    /\ job' = [job EXCEPT ![k] = Passed(job[k])]
    /\ UNCHANGED <<fixed, jobsRow, status, header, table, rebuilt, bulk, faults, accident>>

(* RUNNING, then the lots: an account without rows to write is a SUCCESS,   *)
(* the rows of a merger are gathered, those of a demerger written next.     *)
Work(k) ==
    LET a == Here(k)
        rows == RowsFor(LotsOf(a))
        mine == {[acct |-> a, row |-> r] : r \in rows}
    IN IF rows = {}
       THEN Tell(a, "SUCCESS") /\ job' = [job EXCEPT ![k] = Passed(job[k])]
       ELSE /\ Tell(a, "RUNNING")
            /\ job' = [job EXCEPT ![k] =
                         IF act = "merger"
                         THEN Passed([job[k] EXCEPT !.rows = @ \union mine, !.affected = @ \union {a}])
                         ELSE [job[k] EXCEPT !.rows = mine, !.pc = "insert"]]

(* Mutant of BeginAccount: what was done is done again.                     *)
BeginAccountAgain(k) ==
    /\ job[k].pc = "walk"
    /\ Work(k)
    /\ UNCHANGED <<fixed, jobsRow, header, table, rebuilt, bulk, faults, accident>>

BeginAccount(k) ==
    /\ job[k].pc = "walk" /\ status[Here(k)] # "SUCCESS"
    /\ Work(k)
    /\ UNCHANGED <<fixed, jobsRow, header, table, rebuilt, bulk, faults, accident>>

(* The read of the status fails, which says the account is not done.        *)
StatusUnread(k) ==
    /\ job[k].pc = "walk" /\ status[Here(k)] = "SUCCESS"
    /\ Fault
    /\ Work(k)
    /\ Befalls({Here(k)}, "unread")
    /\ UNCHANGED <<fixed, jobsRow, header, table, rebuilt, bulk>>

(* An account without rows to write whose SUCCESS fails, which is not       *)
(* missed.                                                                  *)
EmptyUntold(k) ==
    /\ job[k].pc = "walk" /\ status[Here(k)] # "SUCCESS"
    /\ RowsFor(LotsOf(Here(k))) = {}
    /\ Fault
    /\ Tell(Here(k), "RUNNING")
    /\ job' = [job EXCEPT ![k] = Passed(job[k])]
    /\ Befalls({Here(k)}, "untold")
    /\ UNCHANGED <<fixed, jobsRow, header, table, rebuilt, bulk>>

(* The account is FAILED, and the next one is on.                           *)
GivesUp(k) ==
    /\ Fault
    /\ Tell(Here(k), "FAILED")
    /\ LET next == [job[k] EXCEPT !.rows = IF act = "merger" THEN @ ELSE {}, !.failures = 1]
       IN job' = [job EXCEPT ![k] = Passed(next)]

(* The engine (merger) or a statement of the account (demerger) throws.     *)
AccountFails(k) ==
    /\ \/ job[k].pc = "walk" /\ status[Here(k)] # "SUCCESS"
       \/ job[k].pc = "insert"
    /\ GivesUp(k)
    /\ Befalls(IF \E r \in table : r.acct = Here(k) THEN {Here(k)} ELSE {}, "cut")
    /\ UNCHANGED <<fixed, jobsRow, header, table, rebuilt, bulk>>

Attempt(k) == <<k, job[k].tries>>

Write(S, k) == {[acct |-> m.acct, row |-> m.row, by |-> Attempt(k)] : m \in S}

(* Mutant of InsertRow: the account is marked before its last row.          *)
InsertRowEarly(k) ==
    /\ job[k].pc = "insert"
    /\ LET a == Here(k)
           m == FirstRow(job[k].rows)
           rest == job[k].rows \ {m}
           next == [job[k] EXCEPT !.rows = rest, !.affected = @ \union {a}]
       IN /\ table' = table \union Write({m}, k)
          /\ rebuilt' = rebuilt \ {a}
          /\ Tell(a, "SUCCESS")
          /\ job' = [job EXCEPT ![k] = IF rest = {} THEN Passed(next) ELSE next]
    /\ UNCHANGED <<fixed, jobsRow, header, bulk, faults, accident>>

(* INSERT INTO Demerger_Record; after the last row the account is marked,   *)
(* which may fail and is not missed.                                        *)
InsertRow(k) ==
    /\ job[k].pc = "insert"
    /\ LET a == Here(k)
           m == FirstRow(job[k].rows)
           rest == job[k].rows \ {m}
           next == [job[k] EXCEPT !.rows = rest, !.affected = @ \union {a}]
       IN /\ table' = table \union Write({m}, k)
          /\ rebuilt' = rebuilt \ {a}
          /\ IF rest # {}
             THEN job' = [job EXCEPT ![k] = next] /\ UNCHANGED <<status, faults, accident>>
             ELSE /\ job' = [job EXCEPT ![k] = Passed(next)]
                  /\ \/ Tell(a, "SUCCESS") /\ UNCHANGED <<faults, accident>>
                     \/ Fault /\ Befalls({a}, "untold") /\ UNCHANGED status
    /\ UNCHANGED <<fixed, jobsRow, header, bulk>>

(* An INSERT that is applied and throws all the same: the row stays, and    *)
(* affectedAccountsSet does not get the account.                            *)
InsertThrows(k) ==
    /\ job[k].pc = "insert"
    /\ table' = table \union Write({FirstRow(job[k].rows)}, k)
    /\ rebuilt' = rebuilt \ {Here(k)}
    /\ GivesUp(k)
    /\ Befalls({Here(k)}, "cut")
    /\ UNCHANGED <<fixed, jobsRow, header, bulk>>

----------------------------------------------------------------------------
(* The bulk write of a merger.                                              *)

CreateBulk(k) ==
    /\ job[k].pc = "bulk"
    /\ bulk' = bulk \union {[by |-> Attempt(k), st |-> "running", accts |-> job[k].affected, rows |-> job[k].rows]}
    /\ job' = [job EXCEPT ![k].pc = "poll"]
    /\ UNCHANGED <<fixed, jobsRow, status, header, table, rebuilt, faults, accident>>

(* It ends, whoever still waits: all rows are inserted, or none.            *)
BulkEnds(b) ==
    /\ b.st = "running"
    /\ \/ /\ bulk' = (bulk \ {b}) \union {[b EXCEPT !.st = "completed"]}
          /\ table' = table \union {[acct |-> m.acct, row |-> m.row, by |-> b.by] : m \in b.rows}
          /\ rebuilt' = rebuilt \ b.accts
          /\ UNCHANGED faults
       \/ /\ Fault
          /\ bulk' = (bulk \ {b}) \union {[b EXCEPT !.st = "failed", !.accts = {}]}
          /\ UNCHANGED <<table, rebuilt>>
    /\ UNCHANGED <<fixed, jobsRow, status, header, job, accident>>

(* pollBulkWriteJob: COMPLETED goes on, FAILED throws.  So does a wait of   *)
(* ten minutes, a getStatus or a createJob whose answer is lost, though the *)
(* write goes on.                                                           *)
Poll(k) ==
    /\ job[k].pc = "poll"
    /\ \E b \in bulk :
          /\ b.by = Attempt(k)
          /\ \/ /\ b.st = "completed"
                /\ job' = [job EXCEPT ![k].pc = "queue"]
                /\ UNCHANGED <<jobsRow, faults, accident>>
             \/ b.st = "failed" /\ Fail(k) /\ UNCHANGED faults
             \/ b.st = "running" /\ Fault /\ Fail(k)
    /\ UNCHANGED <<fixed, status, header, table, rebuilt, bulk>>

----------------------------------------------------------------------------
(* Rebuilds and the end.                                                    *)

(* queueRebuildHoldingsJobs of the accounts this run has written.           *)
QueueRebuilds(k) ==
    /\ job[k].pc = "queue"
    /\ rebuilt' = rebuilt \union job[k].affected
    /\ job' = [job EXCEPT ![k].pc = IF act = "merger" THEN "mark" ELSE "finish"]
    /\ UNCHANGED <<fixed, jobsRow, status, header, table, bulk, faults, accident>>

(* The accounts of a merger, one after the other; a failure is not missed.  *)
MarkAccount(k) ==
    /\ job[k].pc = "mark"
    /\ LET a == First(job[k].affected)
           rest == job[k].affected \ {a}
       IN /\ job' = [job EXCEPT ![k].affected = rest, ![k].pc = IF rest = {} THEN "finish" ELSE "mark"]
          /\ \/ Tell(a, "SUCCESS") /\ UNCHANGED <<faults, accident>>
             \/ Fault /\ Befalls({a}, "untold") /\ UNCHANGED status
    /\ UNCHANGED <<fixed, jobsRow, header, table, rebuilt, bulk>>

(* FAILED if an account failed; either way the pool does not run it again.  *)
Finish(k) ==
    /\ job[k].pc = "finish"
    /\ jobsRow' = IF job[k].failures > 0 THEN "FAILED" ELSE "COMPLETED"
    /\ job' = [job EXCEPT ![k].pc = "done"]
    /\ UNCHANGED <<fixed, status, header, table, rebuilt, bulk, faults, accident>>

JobStep(k) ==
    \/ Start(k) \/ Header(k) \/ Throws(k) \/ Killed(k)
    \/ SkipAccount(k) \/ BeginAccount(k) \/ StatusUnread(k) \/ EmptyUntold(k) \/ AccountFails(k)
    \/ InsertRow(k) \/ InsertThrows(k)
    \/ CreateBulk(k) \/ Poll(k) \/ QueueRebuilds(k) \/ MarkAccount(k) \/ Finish(k)

Next ==
    \/ \E k \in Jobs : Apply(k) \/ JobStep(k)
    \/ PollStatus
    \/ \E b \in bulk : BulkEnds(b)

Spec == Init /\ [][Next]_vars

----------------------------------------------------------------------------
(* Properties.                                                              *)

(* The lots Holdings shows open on the record date.                         *)
OpenLots == [src \in Scenarios |-> Engine(src, Indices(src, LAMBDA s : s.date <= RecordDate)).queue]

(* A scenario in which the two dates of a source fall on either side of the *)
(* record date or tell the rows of one event apart.                         *)
TwoDates(src) ==
    \E i \in DOMAIN src :
       \/ src[i].kind \in {"DEMERGER", "MERGER"}
       \/ src[i].kind \in TxnKinds /\ (src[i].td <= RecordDate) # (src[i].date <= RecordDate)

(* An account marked SUCCESS has a row for every lot that was open on the   *)
(* record date and is not rounded away, with its share of the cost.         *)
SuccessIsApplied ==
    \A a \in Accounts : status[a] = "SUCCESS" /\ ~TwoDates(book[a]) =>
       {r.row : r \in {s \in table : s.acct = a}} = RowsFor(OpenLots[book[a]])

(* The engines of the two appliers come to the rows of the lots that were   *)
(* open.                                                                    *)
LotsAgree ==
    \A src \in {s \in Scenarios : ~TwoDates(s)} :
       /\ MergerRows(MergerLotsOf[src]) = MergerRows(OpenLots[src])
       /\ DemergerRows(DemergerLotsOf[src]) = DemergerRows(OpenLots[src])

(* However often it is requested and run again, nothing is written twice,   *)
(* unless a run was cut between the rows of an account and its SUCCESS,     *)
(* SUCCESS was not written or not read, or two runs went side by side.      *)
AppliedOnce ==
    \A r, s \in table : r.acct = s.acct /\ r.row = s.row => r = s \/ accident[r.acct] # {}

(* COMPLETED, with no job under way, means that every account is SUCCESS    *)
(* and is submitted for a rebuild after its last row, unless one of those   *)
(* accidents or a run cut before its rebuilds left it behind.               *)
CompletedIsRebuilt ==
    jobsRow = "COMPLETED" /\ (\A k \in Jobs : ~AtWork(k)) =>
       \A a \in Walkers : accident[a] = {} =>
          /\ status[a] = "SUCCESS"
          /\ a \in {r.acct : r \in table} => a \in rebuilt

(* DemergerController: "subsequent rows of the SAME event are added         *)
(* additively (one per resulting lot)", so that every open lot has its row. *)
DemergerSeesAllLots ==
    \A a \in Accounts : act = "demerger" /\ status[a] = "SUCCESS" =>
       Cardinality({r \in table : r.acct = a /\ r.row.side = "old"}) = Len(OpenLots[book[a]])
=============================================================================
