---------------------------- MODULE HoldingsTable ----------------------------
(***************************************************************************)
(* The Holdings table and the two jobs that write it.                      *)
(*                                                                         *)
(* CalculateHoldingWorkers, one job per import here, appends the rows of   *)
(* the transactions created since the import started, pair by pair, and    *)
(* records SUCCESS or FAILED per account.  RebuildHoldingtable, one job    *)
(* per corporate action, reads every source of an account and for each     *)
(* pair deletes its rows and inserts the rows of the FIFO engine.  Every   *)
(* ZCQL statement is a step; most failed reads are only logged.            *)
(***************************************************************************)
EXTENDS FifoLots

CONSTANTS
    NumPairs,       \* (account, ISIN) pairs, in the order the jobs walk them
    AcctOf,         \* the account of each pair
    IsinOf,         \* its ISIN
    Histories,      \* sources the tables may start with, rebuilt
    Batches,        \* uploads: sequences of transactions
    Deeds,          \* corporate actions: sequences of the rows they insert
    MaxJobs,        \* uploads and corporate actions together
    SlackRows,      \* rows the 15 s before importStartedAtMs may hold
    DeleteCap,      \* rows one DELETE removes at most
    MaxTries,       \* pool retries of one job
    MaxFaults       \* statements that fail, kills, jobs begun beside an open one

Pairs == 1 .. NumPairs
Jobs == 1 .. MaxJobs
Accounts == {AcctOf[p] : p \in Pairs}

Source == [pair : Pairs, kind : Kinds, date : Nat, sort : Nat, qty : Nat \ {0},
           price : Nat, org : STRING]

ASSUME WorldAssumption ==
    /\ NumPairs \in Nat \ {0}
    /\ DOMAIN AcctOf = Pairs /\ DOMAIN IsinOf = Pairs
    /\ Histories \subseteq Seq(Source)
    /\ \A b \in Batches : b # <<>> /\ b \in Seq(Source) /\ \A k \in DOMAIN b : b[k].kind \in TxnKinds
    /\ \A d \in Deeds : d # <<>> /\ d \in Seq(Source) /\ \A k \in DOMAIN d : d[k].kind \notin TxnKinds
ASSUME TableBoundsAssumption ==
    {MaxJobs, SlackRows, DeleteCap, MaxTries, MaxFaults} \subseteq Nat

VARIABLES
    sources,    \* Transaction and corporate action rows in the order created
    holdings,   \* Holdings rows of each pair in CREATEDTIME, ROWID order
    job,        \* the jobs
    status,     \* JobStatusPerAccount of each job
    faults,
    mishap,     \* history: what went wrong for a pair since its last rebuild
    covered     \* history: how many sources the last rebuild of a pair knew

vars == <<sources, holdings, job, status, faults, mishap, covered>>

(* Parameters: floor (rows created after it are new), first and last (the  *)
(* rows it was started for).  Memory: left (pairs to do), acct (account    *)
(* begun), new (its new transactions), todo (those still to insert), rows   *)
(* (what a rebuild still has to insert), cheap (which path), queue, hold,   *)
(* value, errs (of the account; of the job in a rebuild), known (sources    *)
(* read), partial (a read failed), upto (how many sources there were),      *)
(* wrote (pairs this run inserted into).                                    *)
NewJob(type, floor, first, last) ==
    [type |-> type, pc |-> "queued", tries |-> 0, floor |-> floor, first |-> first, last |-> last,
     left |-> {}, acct |-> AcctOf[1], new |-> {}, todo |-> {}, rows |-> <<>>, cheap |-> FALSE,
     queue |-> <<>>, hold |-> 0, value |-> 0, errs |-> 0, known |-> {}, upto |-> 0,
     partial |-> FALSE, wrote |-> {}]

Fresh(k) == NewJob(job[k].type, job[k].floor, job[k].first, job[k].last)

SourcesOf(p) == {i \in DOMAIN sources : sources[i].pair = p}

Init ==
    /\ sources \in Histories
    /\ holdings = [p \in Pairs |-> Engine(sources, SourcesOf(p)).rows]
    /\ job = [k \in Jobs |-> [NewJob("worker", 0, 1, 0) EXCEPT !.pc = "absent"]]
    /\ status = [k \in Jobs |-> [a \in Accounts |-> "none"]]
    /\ faults = 0
    /\ mishap = [p \in Pairs |-> {}]
    /\ covered = [p \in Pairs |-> Len(sources)]

Dormant == {"absent", "importing"}
Closed == {"done", "failed"}
Open(k) == job[k].pc \notin Dormant \union Closed
NextJob(k) == job[k].pc = "absent" /\ \A j \in Jobs : j < k => job[j].pc # "absent"

(* The pair a job is at: the first of its account, once it has begun one.    *)
AtHand(k) ==
    IF job[k].pc \in {"account", "txns"} THEN job[k].left
    ELSE {p \in job[k].left : AcctOf[p] = job[k].acct}
Here(k) == CHOOSE p \in AtHand(k) : \A q \in AtHand(k) : p <= q

Become(k, rec) == job' = [job EXCEPT ![k] = rec]
Blame(S, what) == mishap' = [p \in Pairs |-> IF p \in S THEN mishap[p] \union {what} ELSE mishap[p]]

(* The pairs job k was given.                                               *)
Manifest(k) == {sources[i].pair : i \in job[k].first .. job[k].last}

(* The new transactions of pair p for a worker: fetchNewTxnsForPair.        *)
NewTxns(k, p) == {i \in SourcesOf(p) : i > job[k].floor /\ sources[i].kind \in TxnKinds}

(* The order in which tables are paged, SETDATE (or the like), ROWID; the   *)
(* order of the queue path, effective date, ROWID.                          *)
BySetDate(i, j) ==
    sources[i].sort < sources[j].sort \/ (sources[i].sort = sources[j].sort /\ i < j)

ByDate(i, j) ==
    sources[i].date < sources[j].date \/ (sources[i].date = sources[j].date /\ i < j)

(* What a fetch of these rows may bring: all, or, when a page fails, those  *)
(* of the pages before it.  The failure is only logged.                     *)
Pages(all) == {all} \union {{j \in all : BySetDate(j, i)} : i \in all}

----------------------------------------------------------------------------
(* Uploads and corporate actions.                                           *)

(* importStartedAtMs is taken when the upload is received; the floor lies   *)
(* 15 s before it, maybe under rows another job has just brought.           *)
StartImport(k) ==
    /\ NextJob(k)
    /\ \E floor \in (Len(sources) - SlackRows) .. Len(sources) :
          /\ floor < Len(sources) =>
                \E j \in Jobs : job[j].pc \notin Dormant /\ floor >= job[j].first - 1
          /\ Become(k, [NewJob("worker", floor, 1, 0) EXCEPT !.pc = "importing"])
    /\ UNCHANGED <<sources, holdings, status, faults, mishap, covered>>

SomeOpen == \E j \in Jobs : Open(j)

Fault == faults < MaxFaults /\ faults' = faults + 1

(* Nothing keeps a job from starting beside an open one; the bound on       *)
(* faults counts it.                                                        *)
Beside == IF SomeOpen THEN Fault ELSE UNCHANGED faults

(* The bulk write lands and the window starts the worker on its pairs.      *)
ImportLands(k) ==
    /\ job[k].pc = "importing"
    /\ \E b \in Batches :
          /\ sources' = sources \o b
          /\ Become(k, NewJob("worker", job[k].floor, Len(sources) + 1, Len(sources) + Len(b)))
    /\ Beside
    /\ Blame({p \in Pairs : SomeOpen \/ NewTxns(k, p) # {}}, "overlap")
    /\ UNCHANGED <<holdings, status, covered>>

(* A corporate action inserts its rows and queues the rebuild of its pairs. *)
Declare(k) ==
    /\ NextJob(k)
    /\ \E d \in Deeds :
          /\ sources' = sources \o d
          /\ Become(k, NewJob("rebuild", 0, Len(sources) + 1, Len(sources) + Len(d)))
    /\ Beside
    /\ Blame({p \in Pairs : SomeOpen}, "overlap")
    /\ UNCHANGED <<holdings, status, covered>>

----------------------------------------------------------------------------
(* CalculateHoldingWorkers.                                                 *)

StartWorker(k) ==
    /\ job[k].type = "worker" /\ job[k].pc = "queued"
    /\ Become(k, [Fresh(k) EXCEPT !.pc = "account", !.tries = job[k].tries, !.left = Manifest(k)])
    /\ UNCHANGED <<sources, holdings, status, faults, mishap, covered>>

(* resolveScopedPairs: a manifest that cannot be read is an empty slice,    *)
(* and the job closes with success.                                         *)
ManifestUnreadable(k) ==
    /\ job[k].type = "worker" /\ job[k].pc = "queued"
    /\ Fault
    /\ Become(k, [job[k] EXCEPT !.pc = "done"])
    /\ Blame(Manifest(k), "lost")
    /\ UNCHANGED <<sources, holdings, status, covered>>

(* getPerAccountJobStatus: an account with SUCCESS of an earlier run is     *)
(* passed over.                                                             *)
SkipAccount(k) ==
    /\ job[k].type = "worker" /\ job[k].pc = "account" /\ job[k].left # {}
    /\ LET a == AcctOf[Here(k)]
       IN /\ status[k][a] = "SUCCESS"
          /\ Become(k, [job[k] EXCEPT !.left = {p \in @ : AcctOf[p] # a}])
    /\ UNCHANGED <<sources, holdings, status, faults, mishap, covered>>

(* Mutant of BeginAccount: SUCCESS of an earlier run is not looked at.      *)
BeginAccountAlways(k) ==
    /\ job[k].type = "worker" /\ job[k].pc = "account" /\ job[k].left # {}
    /\ LET a == AcctOf[Here(k)]
       IN /\ status' = [status EXCEPT ![k][a] = "RUNNING"]
          /\ Become(k, [job[k] EXCEPT !.pc = "read", !.acct = a, !.errs = 0])
    /\ UNCHANGED <<sources, holdings, faults, mishap, covered>>

(* Any other account is begun, and so is one whose status cannot be read,   *)
(* SUCCESS or not.  An upsertAccountRowRunning that fails is only logged.   *)
BeginAccount(k) ==
    /\ job[k].type = "worker" /\ job[k].pc = "account" /\ job[k].left # {}
    /\ LET a == AcctOf[Here(k)]
       IN /\ Become(k, [job[k] EXCEPT !.pc = "read", !.acct = a, !.errs = 0])
          /\ Blame({p \in Manifest(k) : AcctOf[p] = a /\ status[k][a] = "SUCCESS"}, "unread")
          /\ \/ status' = [status EXCEPT ![k][a] = "RUNNING"] /\ UNCHANGED faults
             \/ Fault /\ UNCHANGED status
    /\ UNCHANGED <<sources, holdings, covered>>

(* The record of a worker that is finished with its pair.                   *)
PairDone(k, rec) ==
    LET rest == rec.left \ {Here(k)}
    IN [rec EXCEPT !.left = rest, !.new = {}, !.todo = {}, !.queue = <<>>,
                   !.hold = 0, !.value = 0,
                   !.pc = IF \E p \in rest : AcctOf[p] = rec.acct THEN "read" ELSE "mark"]

ReadNew(k) ==
    /\ job[k].type = "worker" /\ job[k].pc = "read"
    /\ \E new \in Pages(NewTxns(k, Here(k))) :
          LET sells == \E i \in new : sources[i].kind = "SELL"
          IN /\ IF new = {} THEN Become(k, PairDone(k, job[k]))
                ELSE Become(k, [job[k] EXCEPT !.new = new, !.cheap = ~sells,
                                              !.pc = IF sells THEN "rows" ELSE "tail"])
             /\ IF new = NewTxns(k, Here(k)) THEN UNCHANGED <<faults, mishap>>
                ELSE Fault /\ Blame({Here(k)}, "blind")
    /\ UNCHANGED <<sources, holdings, status, covered>>

(* fetchLastHoldingsRowForPair; a failed read is an empty history.          *)
ReadTail(k) ==
    /\ job[k].type = "worker" /\ job[k].pc = "tail"
    /\ LET rows == holdings[Here(k)]
           From(hold, value) == [job[k] EXCEPT !.pc = "insert", !.todo = job[k].new,
                                               !.hold = hold, !.value = value]
       IN \/ /\ IF rows = <<>> THEN Become(k, From(0, 0))
                ELSE Become(k, From(Last(rows).holding, Last(rows).value))
             /\ UNCHANGED <<faults, mishap>>
          \/ /\ Fault
             /\ Become(k, From(0, 0))
             /\ Blame({Here(k)}, "blind")
    /\ UNCHANGED <<sources, holdings, status, covered>>

(* fetchAllHoldingsRowsForPair, of which a page may fail as well, and       *)
(* reconstructBuyQueueFromHoldings.  The transactions that neither buy nor  *)
(* sell are passed over in this path.                                       *)
ReadRows(k) ==
    /\ job[k].type = "worker" /\ job[k].pc = "rows"
    /\ LET todo == {i \in job[k].new : sources[i].kind # "MISC"}
           Seeded(queue) == [job[k] EXCEPT !.pc = "insert", !.cheap = FALSE, !.queue = queue, !.todo = todo]
           With(queue) == IF todo = {} THEN PairDone(k, job[k]) ELSE Seeded(queue)
       IN \E n \in 0 .. Len(holdings[Here(k)]) :
             /\ Become(k, With(Reconstruct(SubSeq(holdings[Here(k)], 1, n))))
             /\ IF n = Len(holdings[Here(k)]) THEN UNCHANGED <<faults, mishap>>
                ELSE Fault /\ Blame({Here(k)}, "blind")
    /\ UNCHANGED <<sources, holdings, status, covered>>

(* The next transaction to append, in the order of the path.                *)
NextTxn(k) ==
    LET Before(i, j) == IF job[k].cheap THEN BySetDate(i, j) ELSE ByDate(i, j)
    IN CHOOSE i \in job[k].todo : \A j \in job[k].todo \ {i} : Before(i, j)

(* Mutant of Appended: the running cost takes the price, not the amount.    *)
AppendedAtPrice(k) ==
    LET s == sources[NextTxn(k)]
        queue == IF job[k].cheap THEN job[k].queue ELSE Trade(job[k].queue, s)
    IN [queue |-> queue,
        hold |-> IF job[k].cheap THEN job[k].hold + s.qty ELSE Total(queue),
        value |-> IF job[k].cheap THEN job[k].value + s.price ELSE CostOf(queue)]

(* The lots, HOLDING and HOLDING_VALUE after the next transaction: the      *)
(* cheap path adds whatever it is given, the queue path trades.             *)
Appended(k) ==
    LET s == sources[NextTxn(k)]
        queue == IF job[k].cheap THEN job[k].queue ELSE Trade(job[k].queue, s)
    IN [queue |-> queue,
        hold |-> IF job[k].cheap THEN job[k].hold + s.qty ELSE Total(queue),
        value |-> IF job[k].cheap THEN job[k].value + s.qty * s.price ELSE CostOf(queue)]

NextRow(k) ==
    LET i == NextTxn(k)
    IN HoldingsRow(i, sources[i], sources[i].qty, sources[i].price, Appended(k).hold, Appended(k).value)

Insert(p, row) == holdings' = [holdings EXCEPT ![p] = Append(@, row)]

(* One round of appendBuyRowsCheap or appendTxnsWithQueueReconstruct.       *)
AppendRow(k) ==
    /\ job[k].type = "worker" /\ job[k].pc = "insert"
    /\ Insert(Here(k), NextRow(k))
    /\ LET rec == [job[k] EXCEPT !.todo = @ \ {NextTxn(k)}, !.wrote = @ \union {Here(k)},
                                 !.queue = Appended(k).queue, !.hold = Appended(k).hold,
                                 !.value = Appended(k).value]
       IN Become(k, IF rec.todo = {} THEN PairDone(k, rec) ELSE rec)
    /\ UNCHANGED <<sources, status, faults, mishap, covered>>

(* Mutant of AppendFails: the failed INSERT is logged, not counted.         *)
AppendFailsUncounted(k) ==
    /\ job[k].type = "worker" /\ job[k].pc = "insert"
    /\ Fault
    /\ Blame({Here(k)}, "torn")
    /\ Become(k, IF job[k].cheap THEN [job[k] EXCEPT !.pc = "rows"] ELSE PairDone(k, job[k]))
    /\ UNCHANGED <<sources, holdings, status, covered>>

(* The INSERT throws, applied or not.  The cheap path falls back to the     *)
(* queue path over all new transactions; the queue path counts an error.    *)
AppendFails(k) ==
    /\ job[k].type = "worker" /\ job[k].pc = "insert"
    /\ Fault
    /\ \E applied \in BOOLEAN :
          /\ IF applied THEN Insert(Here(k), NextRow(k)) ELSE UNCHANGED holdings
          /\ LET clean == job[k].cheap /\ ~applied /\ job[k].todo = job[k].new
             IN Blame(IF clean THEN {} ELSE {Here(k)}, "torn")
    /\ Become(k, IF job[k].cheap THEN [job[k] EXCEPT !.pc = "rows"]
                 ELSE [PairDone(k, job[k]) EXCEPT !.errs = @ + 1])
    /\ UNCHANGED <<sources, status, covered>>

(* markAccountSuccess or markAccountFailed.  An UPDATE that fails is only   *)
(* logged; without the row it should have found it changes nothing.         *)
MarkAccount(k) ==
    /\ job[k].type = "worker" /\ job[k].pc = "mark"
    /\ LET a == job[k].acct
           mark == IF job[k].errs > 0 THEN "FAILED" ELSE "SUCCESS"
       IN \/ /\ status' = [status EXCEPT ![k][a] = IF @ = "none" THEN @ ELSE mark]
             /\ UNCHANGED faults
          \/ /\ Fault
             /\ UNCHANGED status
    /\ Become(k, [job[k] EXCEPT !.pc = "account"])
    /\ UNCHANGED <<sources, holdings, mishap, covered>>

(* Whatever the accounts' errors, the job closes with success.              *)
FinishWorker(k) ==
    /\ job[k].type = "worker" /\ job[k].pc = "account" /\ job[k].left = {}
    /\ Become(k, [Fresh(k) EXCEPT !.pc = "done", !.tries = job[k].tries])
    /\ UNCHANGED <<sources, holdings, status, faults, mishap, covered>>

----------------------------------------------------------------------------
(* RebuildHoldingtable.                                                     *)

StartRebuild(k) ==
    /\ job[k].type = "rebuild" /\ job[k].pc = "queued"
    /\ Become(k, [Fresh(k) EXCEPT !.pc = "txns", !.tries = job[k].tries, !.left = Manifest(k)])
    /\ UNCHANGED <<sources, holdings, status, faults, mishap, covered>>

(* Rows of the tables in T, for the account the rebuild is at.              *)
Rows(k, T) == {i \in DOMAIN sources : AcctOf[sources[i].pair] = AcctOf[Here(k)] /\ sources[i].kind \in T}

(* fetchAccountTransactions; a page that fails ends the fetch as if there   *)
(* were no more.                                                            *)
ReadTransactions(k) ==
    /\ job[k].type = "rebuild" /\ job[k].pc = "txns"
    /\ \E S \in Pages(Rows(k, TxnKinds)) :
          /\ Become(k, [job[k] EXCEPT !.pc = "actions", !.acct = AcctOf[Here(k)], !.known = S,
                                      !.upto = Len(sources), !.partial = (S # Rows(k, TxnKinds))])
          /\ IF S = Rows(k, TxnKinds) THEN UNCHANGED faults ELSE Fault
    /\ UNCHANGED <<sources, holdings, status, mishap, covered>>

(* The record of a rebuild that still has these pairs to do.                *)
GoOn(rec, left) ==
    [rec EXCEPT !.left = left, !.rows = <<>>,
                !.pc = IF left = {} THEN "end"
                       ELSE IF \E p \in left : AcctOf[p] = rec.acct THEN "delete" ELSE "txns"]

Rebuilt(k) == GoOn(job[k], job[k].left \ {Here(k)})

(* The ISINs the account's mergers in S name as OldISIN.                    *)
MergedAway(S, p) ==
    \E i \in S : /\ sources[i].kind = "MERGER"
                 /\ AcctOf[sources[i].pair] = AcctOf[p]
                 /\ sources[i].org = IsinOf[p]

(* fetchAccountBonuses, -Demergers, -Mergers and fetchSplitsForIsins, each  *)
(* of which may fail on its own; pairs merged away are dropped.             *)
ReadActions(k) ==
    /\ job[k].type = "rebuild" /\ job[k].pc = "actions"
    /\ \E S \in SUBSET Rows(k, Kinds \ TxnKinds) :
          LET Of(kind) == S \intersect Rows(k, {kind})
              short == {kind \in Kinds \ TxnKinds : Of(kind) # Rows(k, {kind})}
              cost == Cardinality(short)
          IN /\ \A kind \in short : Of(kind) \in Pages(Rows(k, {kind}))
             /\ faults + cost <= MaxFaults /\ faults' = faults + cost
             /\ Become(k, GoOn([job[k] EXCEPT !.known = @ \union S, !.partial = (@ \/ short # {})],
                               {p \in job[k].left : ~MergedAway(S, p)}))
    /\ UNCHANGED <<sources, holdings, status, mishap, covered>>

KnownOf(k, p) == {i \in job[k].known : sources[i].pair = p}

Disturbed(k) == \E j \in Jobs \ {k} : Open(j)

(* deleteHoldingsForPair: one DELETE, of at most DeleteCap rows.  What went *)
(* wrong with the pair before is wiped out with its rows.                   *)
DeletePair(k) ==
    /\ job[k].type = "rebuild" /\ job[k].pc = "delete"
    /\ LET p == Here(k)
           rows == Engine(sources, KnownOf(k, p)).rows
           kept == SubSeq(holdings[p], DeleteCap + 1, Len(holdings[p]))
           still == (IF job[k].partial THEN {"blind"} ELSE {})
                      \union (IF Disturbed(k) \/ job[k].upto < Len(sources) THEN {"overlap"} ELSE {})
                      \union (IF kept # <<>> THEN {"capped"} ELSE {})
                      \union (IF rows # <<>> THEN {"unrebuilt"} ELSE {})
       IN /\ holdings' = [holdings EXCEPT ![p] = kept]
          /\ mishap' = [mishap EXCEPT ![p] = still]
          /\ covered' = [covered EXCEPT ![p] = job[k].upto]
          /\ Become(k, IF rows = <<>> THEN Rebuilt(k)
                       ELSE [job[k] EXCEPT !.rows = rows, !.pc = "insert"])
    /\ UNCHANGED <<sources, status, faults>>

InsertRebuilt(k) ==
    /\ job[k].type = "rebuild" /\ job[k].pc = "insert"
    /\ Insert(Here(k), Head(job[k].rows))
    /\ LET rest == Tail(job[k].rows)
       IN IF rest = <<>>
          THEN /\ Become(k, Rebuilt(k))
               /\ mishap' = [mishap EXCEPT ![Here(k)] = @ \ {"unrebuilt"}]
          ELSE /\ Become(k, [job[k] EXCEPT !.rows = rest])
               /\ UNCHANGED mishap
    /\ UNCHANGED <<sources, status, faults, covered>>

(* Mutant of RebuildPairFails: the failed statement is logged, not counted. *)
RebuildPairFailsUncounted(k) ==
    /\ job[k].type = "rebuild" /\ job[k].pc \in {"delete", "insert"}
    /\ Fault
    /\ Become(k, Rebuilt(k))
    /\ UNCHANGED <<sources, holdings, status, mishap, covered>>

(* A DELETE or INSERT throws: counted, and the next pair follows.           *)
RebuildPairFails(k) ==
    /\ job[k].type = "rebuild" /\ job[k].pc \in {"delete", "insert"}
    /\ Fault
    /\ Become(k, [Rebuilt(k) EXCEPT !.errs = @ + 1])
    /\ UNCHANGED <<sources, holdings, status, mishap, covered>>

FinishRebuild(k) ==
    /\ job[k].type = "rebuild" /\ job[k].pc = "end" /\ job[k].errs = 0
    /\ Become(k, [Fresh(k) EXCEPT !.pc = "done", !.tries = job[k].tries])
    /\ UNCHANGED <<sources, holdings, status, faults, mishap, covered>>

----------------------------------------------------------------------------
(* The pool.                                                                *)

(* The job runs again with the same parameters, or stays failed.  A worker  *)
(* that wrote for an account without SUCCESS will write for it again.       *)
PoolRetry(k) ==
    LET again == job[k].tries < MaxTries
        unmarked == {p \in Manifest(k) : status[k][AcctOf[p]] # "SUCCESS"}
    IN /\ Become(k, [Fresh(k) EXCEPT !.pc = IF again THEN "queued" ELSE "failed",
                                     !.tries = IF again THEN job[k].tries + 1 ELSE job[k].tries])
       /\ mishap' = [p \in Pairs |->
                       mishap[p] \union (IF job[k].type = "worker" /\ p \in unmarked \intersect job[k].wrote
                                         THEN {"torn"} ELSE {})
                                 \union (IF ~again /\ p \in unmarked THEN {"lost"} ELSE {})]

(* closeWithFailure of a rebuild with errors.                               *)
RebuildFails(k) ==
    /\ job[k].type = "rebuild" /\ job[k].pc = "end" /\ job[k].errs > 0
    /\ PoolRetry(k)
    /\ UNCHANGED <<sources, holdings, status, faults, covered>>

(* The function is killed or throws outside its handlers.                   *)
Killed(k) ==
    /\ Open(k) /\ job[k].pc # "queued"
    /\ Fault
    /\ PoolRetry(k)
    /\ UNCHANGED <<sources, holdings, status, covered>>

----------------------------------------------------------------------------
WorkerStep(k) ==
    \/ StartWorker(k)
    \/ SkipAccount(k)
    \/ BeginAccount(k)
    \/ ReadNew(k)
    \/ ReadTail(k)
    \/ ReadRows(k)
    \/ AppendRow(k)
    \/ MarkAccount(k)
    \/ FinishWorker(k)

RebuildStep(k) ==
    \/ StartRebuild(k)
    \/ ReadTransactions(k)
    \/ ReadActions(k)
    \/ DeletePair(k)
    \/ InsertRebuilt(k)
    \/ FinishRebuild(k)
    \/ RebuildFails(k)

Next ==
    \E k \in Jobs :
       \/ StartImport(k)
       \/ ImportLands(k)
       \/ Declare(k)
       \/ WorkerStep(k)
       \/ RebuildStep(k)
       \/ ManifestUnreadable(k)
       \/ AppendFails(k)
       \/ RebuildPairFails(k)
       \/ Killed(k)

Spec == Init /\ [][Next]_vars

----------------------------------------------------------------------------
(* Properties.                                                              *)

(* The state has its type.                                                  *)
TypeOK ==
    /\ sources \in Seq(Source)
    /\ \A p \in Pairs : \A n \in DOMAIN holdings[p] :
          LET r == holdings[p][n]
          IN /\ sources[r.src].pair = p
             /\ r.type = sources[r.src].kind
             /\ {r.qty, r.holding, r.value} \subseteq Nat
    /\ \A k \in Jobs :
          /\ job[k].pc \in {"queued", "account", "read", "tail", "rows", "insert", "mark",
                            "txns", "actions", "delete", "end"} \union Dormant \union Closed
          /\ job[k].tries \in 0 .. MaxTries
          /\ job[k].left \subseteq Pairs
    /\ status \in [Jobs -> [Accounts -> {"none", "RUNNING", "SUCCESS", "FAILED"}]]
    /\ faults \in 0 .. MaxFaults

(* No two splits of a pair on one date, no two mergers of different         *)
(* securities with one record date.                                         *)
DistinctEvents(p) ==
    \A i, j \in SourcesOf(p) :
       /\ i # j /\ sources[i].kind = "SPLIT" /\ sources[j].kind = "SPLIT"
            => sources[i].date # sources[j].date
       /\ sources[i].kind = "MERGER" /\ sources[j].kind = "MERGER" /\ sources[i].date = sources[j].date
            => sources[i].org = sources[j].org

(* Reading the engine's rows back gives the engine's open lots, so a worker *)
(* that starts from a rebuilt table sells from the right lots.  (It is a    *)
(* matter of the sources only; the states with no open job have them all.)  *)
ReconstructAgrees ==
    ~SomeOpen => \A p \in Pairs : DistinctEvents(p) =>
       LET e == Engine(sources, SourcesOf(p)) IN Reconstruct(e.rows) = e.queue

(* Every transaction of p the last rebuild did not know came after the      *)
(* sources before it, also in event order.                                  *)
InOrder(p) ==
    \A j \in SourcesOf(p) : j > covered[p] =>
       /\ sources[j].kind \in {"BUY", "SELL"}
       /\ \A i \in SourcesOf(p) : i < j => EventBefore(sources, i, j)

(* When all jobs have closed, a pair nothing went wrong for since its last  *)
(* rebuild, with its later transactions in event order, has exactly the     *)
(* rows a rebuild would write: the cheap path, the queue path and the       *)
(* engine agree on every HOLDING and HOLDING_VALUE, and a rebuild heals     *)
(* whatever crashes and failed inserts left behind.                         *)
HoldingsExact ==
    ~SomeOpen => \A p \in Pairs :
       mishap[p] = {} /\ InOrder(p) /\ DistinctEvents(p) /\ ~MergedAway(DOMAIN sources, p)
          => holdings[p] = Engine(sources, SourcesOf(p)).rows

(* No transaction is appended twice to a pair whose workers never ran side  *)
(* by side, were never cut between a row of an account and its SUCCESS,     *)
(* never met a failed INSERT and never failed to read a SUCCESS (each of    *)
(* these does append twice), at any moment and however often the job ran.   *)
AppendedOnce ==
    \A p \in Pairs : mishap[p] \intersect {"overlap", "torn", "capped", "unread"} = {} =>
       \A m, n \in DOMAIN holdings[p] :
          LET a == holdings[p][m]
              b == holdings[p][n]
          IN m # n /\ a.src = b.src => a.type = "SPLIT"

(* SUCCESS of an account is earned: each buy and sell the job was started   *)
(* for has its row, also after failed inserts and retries.                  *)
SuccessIsWhole ==
    \A k \in Jobs, p \in Pairs :
       /\ job[k].type = "worker"
       /\ status[k][AcctOf[p]] = "SUCCESS"
       /\ mishap[p] \intersect {"blind", "overlap", "unrebuilt"} = {}
       => \A i \in job[k].first .. job[k].last :
             sources[i].pair = p /\ sources[i].kind # "MISC"
                => \E n \in DOMAIN holdings[p] : holdings[p][n].src = i

(* A rebuild never closes with success over a pair it deleted and did not   *)
(* write again, unless the pair was merged away meanwhile.                  *)
RebuildIsWhole ==
    ~SomeOpen => \A p \in Pairs : "unrebuilt" \in mishap[p] /\ ~MergedAway(DOMAIN sources, p)
       => \E k \in Jobs : /\ job[k].type = "rebuild" /\ job[k].pc = "failed"
                         /\ p \in Manifest(k)
=============================================================================
