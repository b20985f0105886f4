--------------------------- MODULE AccountHoldings ---------------------------
(***************************************************************************)
(* The Holdings jobs that walk accounts instead of a manifest.             *)
(*                                                                         *)
(* CalculateHoldingPerAccount (full) and HoldingUpdateManually (manual)    *)
(* delete and insert the rows of every ISIN of an account, full with a     *)
(* Jobs row and a JobStatusPerAccount row per account, manual with no      *)
(* trace.  CalculateHoldingsPerAccount (append) adds the rows of an import,*)
(* from the last Holdings row when it only bought, else by replaying the   *)
(* transactions and adding the rows beyond those the table has.            *)
(* full and append are run with a jobName, full unscoped.  A pair's        *)
(* DELETE takes all its rows.  The jobs run one after the other: what jobs *)
(* do to each other in the table is the subject of HoldingsTable.          *)
(***************************************************************************)
EXTENDS FifoViews, FiniteSets

CONSTANTS
    NumPairs,       \* (account, ISIN) pairs, in the order the jobs walk them
    AcctOf,         \* the account of each pair
    IsinOf,         \* its ISIN
    NumAccounts,    \* accounts are 1 .. NumAccounts
    Histories,      \* sources the tables may start with
    Batches,        \* uploads: sequences of transactions
    Deeds,          \* corporate actions: sequences of the rows they insert
    SlackRows,      \* rows the 15 s before importStartedAtMs may hold
    MaxJobs,
    MaxTries,       \* pool retries of one job
    MaxFaults       \* statements that fail and kills

Pairs == 1 .. NumPairs
Jobs == 1 .. MaxJobs
Accounts == 1 .. NumAccounts

Source == [pair : Pairs, kind : Kinds, date : Nat, sort : Nat, qty : Nat \ {0},
           price : Nat, org : STRING]

ASSUME AccountsAssumption ==
    /\ {NumPairs, NumAccounts, SlackRows, MaxJobs, MaxTries, MaxFaults} \subseteq Nat
    /\ AcctOf \in [Pairs -> Accounts] /\ DOMAIN IsinOf = Pairs
    /\ Histories \union Batches \union Deeds \subseteq Seq(Source)

VARIABLES
    sources,    \* Transaction and corporate action rows in the order created
    holdings,   \* Holdings rows of each pair in CREATEDTIME, ROWID order
    job,        \* the jobs
    jobsRow,    \* Jobs.status of each job that has a name
    marks,      \* JobStatusPerAccount of each job
    faults,
    mishap,     \* history: what went wrong for a pair since its last rebuild
    covered     \* history: how many sources the last rebuild of a pair knew

vars == <<sources, holdings, job, jobsRow, marks, faults, mishap, covered>>

(* Memory of a job: accts (accounts to do), left (pairs of the account to  *)
(* do), todo (rows to insert), errs (of the job), before (errs when the    *)
(* account began), known (sources read), partial (a read failed), first to *)
(* last (an import), floor (rows created from it on are new), upto (sources *)
(* there were), torn (pairs it deleted and has not written whole), unseen   *)
(* (those whose rows or mark it once could not read or set).                *)
NewJob(type) ==
    [type |-> type, pc |-> "queued", tries |-> 0, accts |-> <<>>, left |-> <<>>, todo |-> <<>>,
     errs |-> 0, before |-> 0, known |-> {}, partial |-> FALSE, first |-> 1, last |-> 0, floor |-> 1, upto |-> 0,
     torn |-> {}, unseen |-> {}]

SourcesOf(p) == {i \in DOMAIN sources : sources[i].pair = p}
RebuildRows(p, S) == Run(Views.perAccount, sources, {i \in S : sources[i].pair = p}).rows

Init ==
    /\ sources \in Histories
    /\ holdings = [p \in Pairs |-> RebuildRows(p, DOMAIN sources)]
    /\ job = [k \in Jobs |-> [NewJob("full") EXCEPT !.pc = "absent"]]
    /\ jobsRow = [k \in Jobs |-> "none"]
    /\ marks = [k \in Jobs |-> [a \in Accounts |-> "none"]]
    /\ faults = 0
    /\ mishap = [p \in Pairs |-> {}]
    /\ covered = [p \in Pairs |-> Len(sources)]

Open(k) == job[k].pc \notin {"absent", "done", "failed"}
SomeOpen == \E j \in Jobs : Open(j)
NextJob(k) == job[k].pc = "absent" /\ \A j \in Jobs : j < k => job[j].pc # "absent"

Become(k, rec) == job' = [job EXCEPT ![k] = rec]
Blame(S, what) == mishap' = [p \in Pairs |-> IF p \in S THEN mishap[p] \union {what} ELSE mishap[p]]

Fault == faults < MaxFaults /\ faults' = faults + 1

Tracked(k) == job[k].type # "manual"
Rebuilds(k) == job[k].type \in {"full", "manual"}

PairsOf(S) == Ordered(S, NumPairs, <)

----------------------------------------------------------------------------
(* What starts the jobs.                                                    *)

(* An upload lands and the append job of its pairs is submitted.  The floor *)
(* of its CREATEDTIME lies 15 s before it began, maybe under rows of the    *)
(* upload before.                                                           *)
Upload(k) ==
    /\ NextJob(k) /\ ~SomeOpen
    /\ \E b \in Batches, slack \in 0 .. SlackRows :
          LET first == Len(sources) + 1
              floor == first - slack
          IN /\ slack > 0 => \E j \in Jobs : /\ job[j].pc # "absent" /\ job[j].type = "append"
                                           /\ job[j].first <= floor
             /\ sources' = sources \o b
             /\ Become(k, [NewJob("append") EXCEPT !.first = first, !.last = Len(sources) + Len(b),
                                                   !.floor = floor])
    /\ UNCHANGED <<holdings, jobsRow, marks, faults, mishap, covered>>

(* A corporate action inserts its rows; somebody starts a rebuild for them. *)
Declare(k) ==
    /\ NextJob(k) /\ ~SomeOpen
    /\ \E d \in Deeds, type \in {"full", "manual"} :
          /\ sources' = sources \o d
          /\ Become(k, NewJob(type))
    /\ UNCHANGED <<holdings, jobsRow, marks, faults, mishap, covered>>

----------------------------------------------------------------------------
(* The walk over accounts, the same in the three jobs.                      *)

AccountsOf(k) ==
    LET rows == IF job[k].type = "append" THEN job[k].first .. job[k].last
                ELSE {i \in DOMAIN sources : sources[i].kind \in TxnKinds}
    IN Ordered({AcctOf[sources[i].pair] : i \in rows}, NumAccounts, <)

(* The entry; ensureJobsRowRunning inserts or updates the Jobs row.         *)
Start(k) ==
    /\ job[k].pc = "queued"
    /\ Become(k, [job[k] EXCEPT !.pc = "account", !.accts = AccountsOf(k)])
    /\ jobsRow' = IF Tracked(k) THEN [jobsRow EXCEPT ![k] = "RUNNING"] ELSE jobsRow
    /\ UNCHANGED <<sources, holdings, marks, faults, mishap, covered>>

Here(k) == Head(job[k].accts)
Pair(k) == Head(job[k].left)

Blind(k, rec) == [rec EXCEPT !.unseen = @ \union {p \in Pairs : AcctOf[p] = Here(k)}]

(* Mutant of SkipAccount: an account that was begun counts as done.         *)
SkipAccountBegun(k) ==
    /\ job[k].pc = "account" /\ job[k].accts # <<>>
    /\ Tracked(k) /\ marks[k][Here(k)] # "none"
    /\ Become(k, [job[k] EXCEPT !.accts = Tail(@)])
    /\ UNCHANGED <<sources, holdings, jobsRow, marks, faults, mishap, covered>>

(* getPerAccountJobStatus: an account with SUCCESS is skipped.              *)
SkipAccount(k) ==
    /\ job[k].pc = "account" /\ job[k].accts # <<>>
    /\ Tracked(k) /\ marks[k][Here(k)] = "SUCCESS"
    /\ Become(k, [job[k] EXCEPT !.accts = Tail(@)])
    /\ UNCHANGED <<sources, holdings, jobsRow, marks, faults, mishap, covered>>

(* Any other is marked RUNNING and begun; so is one with SUCCESS when the   *)
(* read of its status fails.  An upsert that fails is only logged.  manual  *)
(* does neither.                                                            *)
BeginAccount(k) ==
    /\ job[k].pc = "account" /\ job[k].accts # <<>>
    /\ LET again == Tracked(k) /\ marks[k][Here(k)] = "SUCCESS"
           Begun == [job[k] EXCEPT !.pc = IF Rebuilds(k) THEN "txns" ELSE "pairs", !.before = job[k].errs]
       IN /\ again => faults < MaxFaults
          /\ Blame({p \in Pairs : again /\ job[k].type = "append" /\ AcctOf[p] = Here(k)}, "unread")
          /\ \/ /\ marks' = IF Tracked(k) THEN [marks EXCEPT ![k][Here(k)] = "RUNNING"] ELSE marks
                /\ faults' = IF again THEN faults + 1 ELSE faults
                /\ Become(k, Begun)
             \/ /\ Tracked(k) /\ ~again
                /\ Fault
                /\ Become(k, Begun) /\ UNCHANGED marks
             \/ /\ again /\ faults + 2 <= MaxFaults /\ faults' = faults + 2
                /\ Become(k, Blind(k, Begun)) /\ UNCHANGED marks
    /\ UNCHANGED <<sources, holdings, jobsRow, covered>>

(* The record of a job with these pairs of its account still to do.         *)
GoOn(k, rec, left) ==
    [rec EXCEPT !.left = left, !.todo = <<>>,
                !.pc = IF left = <<>> THEN "mark" ELSE IF Rebuilds(k) THEN "delete" ELSE "new"]

NextPair(k, rec) == GoOn(k, rec, Tail(rec.left))

(* FAILED when the account added errors; an UPDATE that fails is only       *)
(* logged, and one without the row to update changes nothing.               *)
MarkAccount(k) ==
    /\ job[k].pc = "mark"
    /\ \/ /\ LET mark == IF job[k].errs > job[k].before THEN "FAILED" ELSE "SUCCESS"
             IN marks' = IF Tracked(k) /\ marks[k][Here(k)] # "none"
                         THEN [marks EXCEPT ![k][Here(k)] = mark] ELSE marks
          /\ UNCHANGED faults
       \/ Tracked(k) /\ Fault /\ UNCHANGED marks
    /\ Become(k, [job[k] EXCEPT !.pc = "account", !.accts = Tail(@)])
    /\ UNCHANGED <<sources, holdings, jobsRow, mishap, covered>>

(* finalizeJobsRow, and closeWithSuccess whatever was counted: the pool     *)
(* does not run a job with errors again.                                    *)
Finish(k) ==
    /\ job[k].pc = "account" /\ job[k].accts = <<>>
    /\ jobsRow' = IF Tracked(k)
                  THEN [jobsRow EXCEPT ![k] = IF job[k].errs > 0 THEN "FAILED" ELSE "COMPLETED"]
                  ELSE jobsRow
    /\ Become(k, [job[k] EXCEPT !.pc = "done"])
    /\ UNCHANGED <<sources, holdings, marks, faults, mishap, covered>>

----------------------------------------------------------------------------
(* rebuildHoldingsForAccount of full and manual.                            *)

(* Tables are paged by SETDATE or the like, then ROWID.  A fetch brings all *)
(* rows or, when a page fails, those of the pages before it; the failure is *)
(* only logged.                                                             *)
BySort(i, j) == \/ sources[i].sort < sources[j].sort
                \/ sources[i].sort = sources[j].sort /\ i < j
Pages(all) == {all} \union {{j \in all : BySort(j, i)} : i \in all}

RowsHere(k, T) == {i \in DOMAIN sources : AcctOf[sources[i].pair] = Here(k) /\ sources[i].kind \in T}

(* fetchAccountTransactions.                                                *)
ReadTransactions(k) ==
    /\ Rebuilds(k) /\ job[k].pc = "txns"
    /\ LET all == RowsHere(k, TxnKinds)
           Read(S) == [job[k] EXCEPT !.pc = "actions", !.known = S, !.upto = Len(sources), !.partial = (S # all)]
       IN \E S \in Pages(all) :
             IF S = all THEN Become(k, Read(S)) /\ UNCHANGED faults
             ELSE Become(k, Blind(k, Read(S))) /\ Fault
    /\ UNCHANGED <<sources, holdings, jobsRow, marks, mishap, covered>>

(* The ISINs the account's mergers in S name as OldISIN.                    *)
MergedAway(S, p) ==
    \E i \in S : /\ sources[i].kind = "MERGER"
                 /\ AcctOf[sources[i].pair] = AcctOf[p]
                 /\ sources[i].org = IsinOf[p]

(* fetchAccountBonuses, -Demergers, -Mergers, fetchSplitsForIsins, each of  *)
(* which may fail on its own.  The pairs are those the rows name, less the  *)
(* merged away; a split alone makes no pair.                                *)
ReadActions(k) ==
    /\ Rebuilds(k) /\ job[k].pc = "actions"
    /\ LET kinds == Kinds \ TxnKinds
           Of(S, kind) == {i \in S : sources[i].kind = kind}
           Short(S) == {kind \in kinds : Of(S, kind) # RowsHere(k, {kind})}
           Named(S) == {sources[i].pair : i \in {n \in S : sources[n].kind # "SPLIT"}}
           Read(S) == LET known == job[k].known \union S
                      IN GoOn(k, [job[k] EXCEPT !.known = known, !.partial = (@ \/ Short(S) # {})],
                              PairsOf({p \in Named(known) : ~MergedAway(S, p)}))
       IN \E S \in SUBSET RowsHere(k, kinds) :
             /\ \A kind \in Short(S) : Of(S, kind) \in Pages(RowsHere(k, {kind}))
             /\ faults + Cardinality(Short(S)) <= MaxFaults
             /\ faults' = faults + Cardinality(Short(S))
             /\ Become(k, IF Short(S) = {} THEN Read(S) ELSE Blind(k, Read(S)))
    /\ UNCHANGED <<sources, holdings, jobsRow, marks, mishap, covered>>

(* deleteHoldingsForPair; the rows to insert are runFifoEngine's.           *)
DeletePair(k) ==
    /\ Rebuilds(k) /\ job[k].pc = "delete"
    /\ LET p == Pair(k)
           rows == RebuildRows(p, job[k].known)
           still == (IF job[k].partial THEN {"blind"} ELSE {})
                      \union (IF rows # <<>> THEN {"unrebuilt"} ELSE {})
       IN /\ holdings' = [holdings EXCEPT ![p] = <<>>]
          /\ mishap' = [mishap EXCEPT ![p] = still]
          /\ covered' = [covered EXCEPT ![p] = job[k].upto]
          /\ Become(k, IF rows = <<>> THEN [NextPair(k, job[k]) EXCEPT !.torn = @ \ {p}]
                       ELSE [job[k] EXCEPT !.todo = rows, !.pc = "insert", !.torn = @ \union {p}])
    /\ UNCHANGED <<sources, jobsRow, marks, faults>>

Insert(p, row) == holdings' = [holdings EXCEPT ![p] = Append(@, row)]

InsertRow(k) ==
    /\ job[k].pc = "insert" /\ job[k].todo # <<>>
    /\ Insert(Pair(k), Head(job[k].todo))
    /\ LET rest == Tail(job[k].todo)
           p == Pair(k)
       IN IF rest = <<>>
          THEN /\ Become(k, [NextPair(k, job[k]) EXCEPT !.torn = @ \ {p}])
               /\ mishap' = IF Rebuilds(k) THEN [mishap EXCEPT ![p] = @ \ {"unrebuilt"}] ELSE mishap
          ELSE Become(k, [job[k] EXCEPT !.todo = rest]) /\ UNCHANGED mishap
    /\ UNCHANGED <<sources, jobsRow, marks, faults, covered>>

(* A DELETE, an INSERT or the count before it throws: counted, and the next *)
(* pair follows.                                                            *)
PairFails(k) ==
    /\ job[k].pc \in {"delete", "replay", "insert"}
    /\ Fault
    /\ Become(k, [NextPair(k, job[k]) EXCEPT !.errs = @ + 1])
    /\ Blame({Pair(k)}, IF Rebuilds(k) THEN "failed" ELSE "torn")
    /\ UNCHANGED <<sources, holdings, jobsRow, marks, covered>>

----------------------------------------------------------------------------
(* processPairTxnUpload of append.                                          *)

PairsOfImport(k) ==
    PairsOf({p \in {sources[i].pair : i \in job[k].first .. job[k].last} : AcctOf[p] = Here(k)})

ListPairs(k) ==
    /\ job[k].pc = "pairs"
    /\ Become(k, GoOn(k, job[k], PairsOfImport(k)))
    /\ UNCHANGED <<sources, holdings, jobsRow, marks, faults, mishap, covered>>

(* fetchNewTxnsForPair asks for the rows created from the floor on.         *)
NewTxns(k) == {i \in SourcesOf(Pair(k)) : i >= job[k].floor /\ sources[i].kind \in TxnKinds}

(* appendBuyRowsCheap from the HOLDING and HOLDING_VALUE of the last row:   *)
(* the rows it will insert; whatever is not a sell is added as a buy.       *)
CheapRows(new, hold, value) ==
    LET Add(acc, i) ==
            LET s == sources[i]
                n == acc.hold + s.qty
                c == acc.value + s.qty * s.price
            IN [hold |-> n, value |-> c,
                rows |-> Append(acc.rows,
                           [src |-> i, type |-> s.kind, lot |-> -1, qty |-> s.qty, price |-> s.price,
                            holding |-> n, value |-> c, taken |-> 0, active |-> TRUE])]
    IN FoldLeft(Add, [hold |-> hold, value |-> value, rows |-> <<>>],
                Ordered(new, Len(sources), BySort)).rows

(* A page of the new rows, and the last row, may fail to be read.  Rows of  *)
(* the import before that come up again are appended again.                 *)
ReadNew(k) ==
    /\ job[k].pc = "new"
    /\ \E new \in Pages(NewTxns(k)), read \in BOOLEAN :
          LET sells == \E i \in new : sources[i].kind = "SELL"
              cheap == new # {} /\ ~sells
              rows == holdings[Pair(k)]
              missed == new # NewTxns(k)
              Cheap(hold, value) ==
                  Become(k, [job[k] EXCEPT !.pc = "cheap", !.todo = CheapRows(new, hold, value)])
          IN /\ ~read => cheap /\ rows # <<>> /\ ~missed
             /\ CASE new = {} -> Become(k, NextPair(k, job[k]))
                  [] sells -> Become(k, [job[k] EXCEPT !.pc = "replay"])
                  [] OTHER -> IF rows = <<>> \/ ~read THEN Cheap(0, 0)
                              ELSE Cheap(Last(rows).holding, Last(rows).value)
             /\ IF missed \/ ~read THEN Fault ELSE UNCHANGED faults
             /\ mishap' = [mishap EXCEPT ![Pair(k)] =
                              @ \union (IF missed \/ ~read THEN {"blind"} ELSE {})
                                \union (IF cheap /\ \E i \in new : i < job[k].first THEN {"slack"} ELSE {})]
    /\ UNCHANGED <<sources, holdings, jobsRow, marks, covered>>

InsertCheap(k) ==
    /\ job[k].pc = "cheap"
    /\ Insert(Pair(k), Head(job[k].todo))
    /\ LET rest == Tail(job[k].todo)
       IN Become(k, IF rest = <<>> THEN NextPair(k, job[k]) ELSE [job[k] EXCEPT !.todo = rest])
    /\ Blame({Pair(k)}, "cheap")
    /\ UNCHANGED <<sources, jobsRow, marks, faults, covered>>

(* The INSERT throws, applied or not: fall back to the replay.              *)
CheapFails(k) ==
    /\ job[k].pc = "cheap"
    /\ Fault
    /\ \E applied \in BOOLEAN :
          IF applied THEN Insert(Pair(k), Head(job[k].todo)) ELSE UNCHANGED holdings
    /\ Become(k, [job[k] EXCEPT !.pc = "replay"])
    /\ Blame({Pair(k)}, "cheap")
    /\ UNCHANGED <<sources, jobsRow, marks, covered>>

(* Mutant of Replay: the rows the table has are not counted.                *)
ReplayAll(k) ==
    /\ job[k].pc = "replay"
    /\ LET p == Pair(k)
           rows == Run(Views.replay, sources, SourcesOf(p)).rows
       IN /\ Become(k, IF rows = <<>> THEN NextPair(k, job[k]) ELSE [job[k] EXCEPT !.pc = "insert", !.todo = rows])
          /\ UNCHANGED <<mishap, faults>>
    /\ UNCHANGED <<sources, holdings, jobsRow, marks, covered>>

(* fetchPairTransactions, of which a page may fail, runFifoEngine on them   *)
(* alone and countHoldingsRowsForPair: the rows beyond those the table has  *)
(* are to be inserted; if it has as many or more, the pair is passed over.  *)
Replay(k) ==
    /\ job[k].pc = "replay"
    /\ LET p == Pair(k)
           has == Len(holdings[p])
           trades == {i \in SourcesOf(p) : sources[i].kind \in TxnKinds}
       IN \E S \in Pages(trades) :
             LET rows == Run(Views.replay, sources, S).rows
                 tail == SubSeq(rows, has + 1, Len(rows))
             IN /\ Become(k, IF tail = <<>> THEN NextPair(k, job[k])
                             ELSE [job[k] EXCEPT !.pc = "insert", !.todo = tail])
                /\ IF S = trades THEN UNCHANGED faults ELSE Fault
                /\ mishap' = [mishap EXCEPT ![p] =
                                 @ \union (IF S # trades THEN {"blind"} ELSE {})
                                   \union (IF SourcesOf(p) # trades THEN {"actions"} ELSE {})]
    /\ UNCHANGED <<sources, holdings, jobsRow, marks, covered>>

----------------------------------------------------------------------------
(* The function is killed: the pool runs it again, with the same jobName,   *)
(* or leaves it failed.                                                     *)
Killed(k) ==
    /\ Open(k) /\ job[k].pc # "queued"
    /\ Fault
    /\ LET again == job[k].tries < MaxTries
       IN Become(k, [NewJob(job[k].type) EXCEPT
                       !.pc = IF again THEN "queued" ELSE "failed",
                       !.tries = IF again THEN job[k].tries + 1 ELSE job[k].tries,
                       !.first = job[k].first, !.last = job[k].last, !.floor = job[k].floor,
                       !.torn = job[k].torn, !.unseen = job[k].unseen])
    /\ mishap' = [p \in Pairs |->
                    mishap[p] \union (IF /\ job[k].type = "append" /\ "cheap" \in mishap[p]
                                         /\ marks[k][AcctOf[p]] # "SUCCESS"
                                      THEN {"torn"} ELSE {})
                              \union (IF job[k].tries >= MaxTries THEN {"lost"} ELSE {})]
    /\ UNCHANGED <<sources, holdings, jobsRow, marks, covered>>

JobStep(k) ==
    \/ Start(k)
    \/ SkipAccount(k)
    \/ BeginAccount(k)
    \/ ReadTransactions(k)
    \/ ReadActions(k)
    \/ DeletePair(k)
    \/ InsertRow(k)
    \/ PairFails(k)
    \/ ListPairs(k)
    \/ ReadNew(k)
    \/ InsertCheap(k)
    \/ CheapFails(k)
    \/ Replay(k)
    \/ MarkAccount(k)
    \/ Finish(k)
    \/ Killed(k)

Next ==
    \E k \in Jobs :
       \/ Upload(k)
       \/ Declare(k)
       \/ JobStep(k)

Spec == Init /\ [][Next]_vars

----------------------------------------------------------------------------
(* Properties.                                                              *)

(* The state has its type.                                                  *)
TypeOK ==
    /\ sources \in Seq(Source)
    /\ \A p \in Pairs : \A n \in DOMAIN holdings[p] : sources[holdings[p][n].src].pair = p
    /\ \A k \in Jobs :
          /\ job[k].pc \in {"absent", "queued", "account", "txns", "actions", "delete", "insert", "pairs",
                            "new", "cheap", "replay", "mark", "done", "failed"}
          /\ job[k].tries \in 0 .. MaxTries
          /\ job[k].torn \subseteq Pairs
    /\ jobsRow \in [Jobs -> {"none", "RUNNING", "COMPLETED", "FAILED"}]
    /\ marks \in [Jobs -> [Accounts -> {"none", "RUNNING", "SUCCESS", "FAILED"}]]
    /\ faults \in 0 .. MaxFaults

(* A job that says COMPLETED, and an account that says SUCCESS, has no pair *)
(* the job deleted and did not write whole, whatever failed or was killed   *)
(* in any of its runs: a retry takes up every account it was cut in.  But   *)
(* for a read that failed, which passes for an account without those rows,  *)
(* and a mark that could be neither read nor set.                           *)
CompletedIsWhole ==
    \A k \in Jobs : \A p \in job[k].torn :
       jobsRow[k] = "COMPLETED" \/ marks[k][AcctOf[p]] = "SUCCESS" => p \in job[k].unseen

(* No two splits of a pair on one date, no two mergers of different         *)
(* securities with one record date.                                         *)
DistinctEvents(p) ==
    \A i, j \in SourcesOf(p) :
       /\ i # j /\ sources[i].kind = "SPLIT" /\ sources[j].kind = "SPLIT"
            => sources[i].date # sources[j].date
       /\ sources[i].kind = "MERGER" /\ sources[j].kind = "MERGER" /\ sources[i].date = sources[j].date
            => sources[i].org = sources[j].org

(* Every source of p the last rebuild did not know is a trade and came      *)
(* after the sources before it, also in event order.                        *)
InOrder(p) ==
    \A j \in SourcesOf(p) : j > covered[p] =>
       /\ sources[j].kind \in {"BUY", "SELL"}
       /\ \A i \in SourcesOf(p) : i < j => EventBefore(sources, i, j)

(* The columns the jobs agree on.                                           *)
Ledger(rows) ==
    [n \in DOMAIN rows |-> <<rows[n].src, rows[n].type, rows[n].qty, rows[n].price, rows[n].holding, rows[n].value>>]

(* What may spoil a pair: a read that failed, a run of append cut or failed *)
(* among its rows, a rebuild failed or not done, a job given up, corporate  *)
(* actions the replay does not read, an account with SUCCESS whose status   *)
(* could not be read, rows of the import before within the 15 s.            *)
Upset == {"blind", "torn", "failed", "lost", "unrebuilt", "actions", "unread", "slack"}

(* When all jobs have closed, a pair nothing went wrong for since its last  *)
(* rebuild, with its later trades in event order, has the rows              *)
(* RebuildHoldingtable would write: the last-row path, the replay and the   *)
(* two rebuilds agree with the other engine on every running total, and an  *)
(* import is appended once, although its job was run again, or an INSERT    *)
(* that threw had taken effect.                                             *)
RowsExact ==
    ~SomeOpen => \A p \in Pairs :
       mishap[p] \intersect Upset = {} /\ InOrder(p) /\ ~MergedAway(DOMAIN sources, p)
          => Ledger(holdings[p]) = Ledger(Engine(sources, SourcesOf(p)).rows)

(* The properties below speak of the sources alone, and these are the same  *)
(* whatever fails: they are looked at where nothing did.                    *)
AllSources == ~SomeOpen /\ faults = 0

(* In every copy of the engine the counter of holdings is what the open     *)
(* lots add up to, so a sell that is capped at it can be taken from them.   *)
LotsBackHoldings(p) ==
    \A v \in DOMAIN Views :
       LET e == Run(Views[v], sources, SourcesOf(p)) IN e.holdings = Total(e.queue)

(* What CalculateHoldingPerAccount writes as STATUS tells the open lots.    *)
ActiveRowsAreOpenLots(p) ==
    LET e == Run(Views.perAccount, sources, SourcesOf(p))
    IN {e.rows[n].lot : n \in {m \in DOMAIN e.rows : e.rows[m].active}} = LotIds(e.queue)

(* Cost is neither made nor lost: what the buys cost is what the sells took *)
(* plus what the open lots cost, across splits.                             *)
CostIsConserved(p) ==
    (\A i \in SourcesOf(p) : sources[i].kind \in Shares) =>
       LET e == Run(Views.analytics, sources, SourcesOf(p))
           Of(Value(_)) == FoldLeft(LAMBDA n, r : n + Value(r), 0, e.rows)
           Bought(r) == IF r.type = "BUY" THEN r.qty * r.price ELSE 0
           Taken(r) == r.taken
       IN Of(Bought) = Of(Taken) + Cost(e.queue)

(* The lots, the counter of holdings, the STATUS column and the cost, kept  *)
(* apart by the engines, tell the same story of every pair.                 *)
LotsAccounted ==
    AllSources => \A p \in Pairs :
       LotsBackHoldings(p) /\ ActiveRowsAreOpenLots(p) /\ CostIsConserved(p)

(* Without mergers and demergers every copy of the engine has the holding   *)
(* of RebuildHoldingtable's; so has the date-ordered count of quantities    *)
(* while nothing is sold short, and the table-by-table count when, besides, *)
(* nothing is split.                                                        *)
CopiesAgree ==
    AllSources => \A p \in Pairs : (\A i \in SourcesOf(p) : sources[i].kind \in Shares) =>
       LET S == SourcesOf(p)
           n == Total(Engine(sources, S).queue)
           short == \E i \in S : /\ sources[i].kind = "SELL"
                                 /\ LET before == {j \in S : EventBefore(sources, j, i)}
                                    IN Total(Engine(sources, before).queue) < sources[i].qty
       IN /\ \A v \in DOMAIN Views \ {"replay"} : Run(Views[v], sources, S).holdings = n
          /\ ~short => QtyInOrder(sources, S) = n
          /\ ~short /\ (\A i \in S : sources[i].kind # "SPLIT") => QtyByTable(sources, S) = n

(* The Holdings table read as on a date shows what a rebuild with that date *)
(* as AS_ON_DATE would end with.                                            *)
AsOnViewAgrees ==
    AllSources => \A p \in Pairs, d \in {sources[i].date : i \in DOMAIN sources} :
       DistinctEvents(p) =>
          LET S == SourcesOf(p)
          IN HoldingAsOn(sources, Engine(sources, S).rows, d)
                = Run(Views.perAccount, sources, SourcesUpTo(sources, S, d)).holdings
==============================================================================
