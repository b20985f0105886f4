# PMS-race2cloud: specifications

TLA+ models of the back end of PMS-race2cloud, a portfolio accounting system on
Zoho Catalyst: an AppSail (Express) server, serverless functions run by job
pools, a relational Data Store queried with ZCQL, and Stratus object storage.

There are no transactions and no locks in this system. Every ZCQL statement
commits on its own, every function may be killed at its time limit (about 15
minutes) or fail at any `await`, the pool runs a failed job again with the same
parameters (`number_of_retries: 5`), and any number of jobs run at once on the
same tables. What the code does about it - status rows, keyset cursors,
checkpoint objects, baton passing, delete-before-insert - is what is specified
here.

## 1. Inventory

### The upload of transactions

| Part | State it keeps | Operations | Depends on |
|---|---|---|---|
| `TempTransactionUpload.js` (AppSail) | the `Jobs` row of the upload; CSV and manifest objects on Stratus; a background poll in memory | upload request, poll, `/bulk-callback`, `completeTxnUploadPipeline`, `failTxnUploadPipeline` | Data Store bulk write, job pool |
| `UpdatesSecurity_ClientMasters` | `Security_List`, `clientIds`, names in `Transaction` | scoped sync of the masters after an upload | reads the CSV and the imported rows |
| `CalculateHoldingMaster` | dispatch object on Stratus (`nextChunk`, `inFlight`, `failedChunks`, ...) | sliding window of at most 10 slaves, baton pass to itself | `CalculateHoldingWorkers` jobs |
| `CalculateHoldingWorkers` | `Holdings`, `JobStatusPerAccount` | per (account, ISIN): append the new rows, or recompute | `Transaction`, corporate action tables |
| `Cal_CB_Append_TxnUpload` | `Cash_Balance_Per_Transaction` | per account: delete this import's rows, append events, cursor and baton | `Transaction` |

An upload answers at once. The poll and the callback both try to complete it;
completion marks the row and queues the three jobs, which then run concurrently
with each other and with those of the next upload.

### Corporate actions

| Part | State | Operations |
|---|---|---|
| `SplitController` | `Split` | check, insert, queue rebuilds |
| `BonusController`, `UpdateBonusTable` | `Bonus`, `Bonus_Record`, `Jobs`, `JobStatusPerAccount` | per account bonus rows, mark SUCCESS, queue rebuilds |
| `DividendUploader`, `UpdateDividendData` | `Dividend`, `Dividend_Record`, passbook rows | master row, account rows, insertion into the passbook with a shift of later `Sequence` numbers |
| `MergerController`, `MegerFn` | `Merger`, `Merger_Record` | preview, bulk write of merger rows, rebuilds |
| `DemergerController`, `DemergerFn` | `Demerger`, `Demerger_Record` | surviving lots, demerger rows, rebuilds |
| `RebuildHoldingtable` | `Holdings` | replay of all sources, one DELETE per pair, row by row INSERT |
| `updateIsin.js`, `UpdateISIN`, `UpdateISINWorker` | ISIN columns of 16 tables, `Jobs` | drain table by table, baton at 12 minutes |

### Cash, masters, exports, user interface

| Part | State | Operations |
|---|---|---|
| `CalculateHoldingPerAccount`, `HoldingUpdateManually` | `Holdings`, `Jobs`, `JobStatusPerAccount` | delete and insert every pair of every account, with or without a trace of how far it came |
| `CalculateHoldingsPerAccount` | `Holdings` | append an import from the last row, or by replaying the transactions |
| `Cal_CB_Per_TNX` | `Cash_Balance_Per_Transaction` | delete a passbook, insert it again chunk by chunk |
| FIFO engines (copies in functions and `util/`), `holdingsFromTable.js` | none | replay of transactions and actions; reading `Holdings` as on a date |
| `ExportAllCustomerHoldingData`, `ExportCorpActionReport` | manifest, checkpoint, pending rows and parts on Stratus, `Jobs` | runs, parts, baton, completion |
| other exports | none that outlives a run | read tables, write one file |
| `CashCalculation` | `Cash_Ledger` | extends a ledger per client from its last row |
| `UpdatesSecurity_ClientMasters`, `UpdateSecurity_ClientMaster`, `EnrichTransactionSecurity` | master data, names in `Transaction` | stubs and blank fields |

The React front end polls the status rows.

### What is hard, and what must hold

* **At-least-once everything.** Pool retries, baton passes whose predecessor is
  retried, poll plus callback: the same work starts twice. Work must be counted
  once (`WindowClosesAtMark`, `OneSlavePerChunk`, `PassbookExact`, `PostedOnce`,
  `AppendedOnce`, `BonusOnce`, `DividendOnce`, `AppliedOnce`).
* **Read, await, write.** The `Jobs` check, the passbook tail and the dispatch
  object are read, and used after other jobs ran (`CompletedIsFollowedUp`,
  `CompletedMeansDone`, `PostedOnce`, `SharesFresh`, `PassbookAdds`).
* **Crash between two effects.** A submit and the save that records it, a status
  row and the jobs it stands for (`EveryChunkAccounted`, `ProgressNeverLost`,
  `NobodyLeftBehind`, `CompletedIsRebuilt`, `OfferedIsWhole`).
* **Partial failure.** One slave, one account, one submit fails and the rest goes
  on; the report must not say otherwise (`CompletedMeansDone`, `PassbookExact`,
  `SuccessIsWhole`, `RebuildIsWhole`, `CompletedMeansBonus`, `CompletedIsWhole`,
  `CompletedMeansPaid`, `SuccessIsApplied`, `SuccessIsDrained`).
* **Many algorithms, one table.** Workers append to rows a rebuild wrote and read
  lots back from them, and a dozen copies of the FIFO engine, each edited on its
  own, decide who gets how much; all must mean the same (`ReconstructAgrees`,
  `HoldingsExact`, `RowsExact`, `CopiesAgree`, `LotsAccounted`, `AsOnViewAgrees`).
* **Ending.** Polls, windows, cursors and batons must come to an end
  (`BatonReachesTheEnd`, `RunningEnds`, `WalkEnds`).

The full list, each at its line, is `hazards` in `PROJECT.json`.

## 2. The plan

Modules, in the order of how much of the system depends on them.

| Step | Modules | Runs | State |
|---|---|---|---|
| 1 | `HoldingMaster`, with `ChunkDispatch` as its abstract specification | `master_overlap`, `master_chain` | checked and proved |
| 2 | `UploadPipeline` | `upload_race` | checked and proved |
| 3 | `CashAppend` | `cash_uploads` | checked and proved |
| 4 | `FifoLots` (pure), `HoldingsTable` (extends it: workers and rebuild on one table) | `holdings_rows` | checked and proved |
| 5 | `BonusSplit`: the bonus job, its request and status, the split request, the queued rebuilds | `bonus_split` | checked and proved |
| 6 | `FifoViews` (pure, extends `FifoLots`), `AccountHoldings` (extends it: the jobs that walk accounts) | `account_walks` | checked |
| 7 | `PassbookWriters`: dividend, full rebuild and append on one passbook | `passbook_writers` | checked and proved |
| 8 | `LotActions` (extends `FifoViews`): merger and demerger | `lot_actions`, `lot_again` | checked and proved |
| 9 | `IsinRename`, `ReportExport`: the walks that drain and the exports that resume | `isin_rename`, `report_export` | checked, `IsinRename` proved |
| 10 | proofs that are left: `AccountHoldings`, `ReportExport` | | open |

Compositions: `HoldingMaster` refines `ChunkDispatch`; `HoldingsTable` runs
workers and rebuilds on the tables that `FifoLots` explains; `AccountHoldings`
and `LotActions` build on `FifoViews` and compare it with `FifoLots`;
`PassbookWriters` puts the append of `CashAppend`, cut down to its statements,
beside the other two writers of a passbook; `UploadPipeline` queues what
`HoldingMaster` and `CashAppend` start from.

## 3. Modules and the code

**`HoldingMaster`** (`functions/CalculateHoldingMaster/index.js`). `stored` is
`transactions-meta/holdings-dispatch-{ms}.json`, `mem[m]` the copy a run works
on, `pc[m]` the await it stands at. `Load`/`InitSave` are the resume or fresh
start, `Refresh` is `refreshInFlight` (any subset of the ended slaves may have
answered), `Settle`/`OutOfTime`/`StartFill` the head of the loop, `SubmitChunk`
one `submitOneChunk`, `SaveRound` the single save after a batch,
`ConcurrencyLimit` the early stop, `Retrigger`/`ClosePassed` the baton,
`CloseCompleted`/`CloseFailed` the end, `Abort` a throw, kill or timeout at any
await. `PoolRetry` starts the run again with empty memory. Slaves are pool jobs:
they end in success or failure and may be retried. `ChunkDispatch` says what
all of this is for: items are given, finished after being given, and completion
is reported once, after all are finished.

**`UploadPipeline`** (`TempTransactionUpload.js`). `req` is the request handler,
`job` the status in `Jobs`, `bulk` the bulk write service, `pc[t]` caller `t`
(0 is the poll, the others are callbacks) in `completeTxnUploadPipeline`. The
read of the row (`Check`), the UPDATE (`Mark`) and each submit are separate
steps. A `createJob` that throws (`CreateBulkFails`) may have been accepted, so
that a callback may come; the two catch blocks behind it each write FAILED
(`FailRequest`), with callbacks in between. `Crash` is a restart of the AppSail
process.

**`CashAppend`** (`Cal_CB_Append_TxnUpload/index.js`). `book[a]` holds the rows
of an account, `run[r]` a job with its cursor, page and the account it is in.
`created` is the CREATEDTIME of `Transaction` rows, `Slack` the 15 s the floor
is moved back. `CountRows` and `DeleteRound` are the loop that empties an
import's rows, a DELETE taking at most `DeleteCap` of them. A failed INSERT may
have been applied (`InsertThrows`). `overlap` and `crossed` are history: whether
an upload started before the jobs and rows of the ones before it were out of its
floor's reach, and the accounts into which a job wrote while another was behind
its COUNT there. A page is a set of accounts, of which `Here` is the lowest; the
events of an account still to be posted are a set, of which `NextEvent` is the
first by date and rank.

**`FifoLots`**. `Engine` is `runFifoEngine` of the rebuild as a recursive
function on the sets of events, the latest one last; `Consume` says at once
which lots the loop of a sell takes and what is left of the next; `Reconstruct`
is `reconstructBuyQueueFromHoldings` of the workers. Neither has state; both are
used by the next module.

**`HoldingsTable`** (`CalculateHoldingWorkers/index.js`,
`RebuildHoldingtable/holdingsRebuildFromSources.js` and its `index.js`).
`sources` is every row of `Transaction`, `Bonus`, `Split`, `Demerger_Record` and
`Merger` in the order created (an index is its CREATEDTIME), `holdings[p]` the
rows of a pair, `job[k]` a worker or a rebuild, `status[k]` its
`JobStatusPerAccount`. A worker: `StartWorker`, `SkipAccount` (SUCCESS of an
earlier run) or `BeginAccount` (anything else, a status that could not be read
included), `ReadNew`, then `ReadTail` and `AppendRow` (cheap path) or `ReadRows`
and `AppendRow` (queue path), `MarkAccount`, `FinishWorker`. `AppendFails` is an
INSERT that throws, applied or not, with the fall back to the queue path. A
rebuild: `StartRebuild`, `ReadTransactions`, `ReadActions`, `DeletePair`,
`InsertRebuilt`, `FinishRebuild` or `RebuildFails`. The pairs that are left and
the transactions still to insert are sets, of which `Here` and `NextTxn` are the
first in the order of the loop. A fetch by pages that fails keeps the pages
before (`Pages`), and the tables of a rebuild fail one by one. `mishap` and
`covered` are history: no action reads them. `mishap[p]` names what has gone
wrong for a pair since its last rebuild - `overlap` (two jobs side by side, or
an import floor under another's rows), `torn` (an INSERT failed or a run was cut
between a row and SUCCESS), `blind` (a failed read taken for an empty answer),
`unread` (an account with SUCCESS that is begun again because its status could
not be read), `capped` (rows left by a DELETE at its limit), `lost` (given up),
`unrebuilt` (deleted, not yet written) - and every property that needs a
condition states it with these names, so the conditions say exactly when the
code does append twice or lose rows.

**`BonusSplit`** (`UpdateBonusTable/index.js`, `BonusController.js`,
`SplitController.js`). One security, a bonus of one ex-date and splits dated on
or before it. `splits` and `record` count the rows of `Split` and
`Bonus_Record`, `bonus[a]` lists the Bonus rows of an account, each as the
number of splits it was sized with (`known` of the run that wrote it), `behind`
holds the accounts changed since a rebuild was last queued for them, `jobs` is
the `Jobs` row of the bonus, `status` the `JobStatusPerAccount` rows by job
name. A request of kind bonus goes `RequestBonus`, `ClearJob`, `SubmitBonus`; of
kind split `RequestSplit`, `InsertSplit` (or `InsertFails`, the row perhaps
there), `QueueSplitRebuilds`, `ReadRecords`, `SubmitRecompute`. A job goes
`Start`, `ReadSources`, per account `BeginAccount`, `CheckRow`, `WriteRow` or
`WriteFails`, `Mark`, then `ReadRecord`, `InsertRecord`, `QueueRebuilds`,
`Finish`. `QueueFails`, `FinishFailed`, `Throws` and `Killed` end an attempt;
`PoolRetry` starts the next. `Holders` are the accounts a bonus gives a share
when it is sized before the split, `SplitHolders` after it: a reverse split
takes the share from some, another split gives it to some, and whoever gets none
is marked SUCCESS unseen. The reads of one job that are only used together are
one step, and the rebuilds of a job are queued in one step, not in batches of
400. `mishap` is history: `beside` (a job submitted while one is open; the
`Jobs` row appears only when a job starts), `blind` (a failed look for a row
taken for "no row"), `raced` (a split inserted while a bonus job is open), `cut`
(an attempt ended between a SUCCESS mark, or the Split row, and the queueing),
`lost` (a job given up), `unrecorded` and `unqueued` (Bonus_Record or a
recomputation that failed and was only logged).

**`FifoViews`**. The repository has ten copies of the FIFO engine besides the
worker's and the rebuild's, and two that only count. A *view* records where they
differ: the tables they are given, the date a demerger or merger row counts from,
whether one row or the first row of an event closes the lots, whether a split
writes rows, and whether sold-out rows turn inactive. `Run` is the algorithm on a
view, as a fold; `QtyInOrder` and `QtyByTable` are the two that count.
`HoldingAsOn` is `holdingsFromTable.js`, `SourcesUpTo` the `AS_ON_DATE` of a rebuild.
Each copy was read on its own: three operators a view stand for its fetches, its
trades and its corporate actions.

**`AccountHoldings`** (`CalculateHoldingPerAccount`,
`CalculateHoldingsPerAccount`, `HoldingUpdateManually`). One job at a time; what
jobs do to each other in the table is the subject of `HoldingsTable`. `full` and
`manual` go `Start`, `BeginAccount`, `ReadTransactions`, `ReadActions`, per pair
`DeletePair` and `InsertRow` or `PairFails`, `MarkAccount`, `Finish`; `append`
goes `ListPairs`, `ReadNew`, `InsertCheap` with its fall back `CheapFails`, or
`Replay` and `InsertRow`. `SkipAccount`, `BeginAccount` and `Pages` are as in
`HoldingsTable`, and an import's floor may show `SlackRows` rows of the one
before it. `jobsRow` and `marks` are the two status tables; `manual` writes
neither. `mishap` and `covered` are history as in `HoldingsTable`, with `slack`
(rows of the import before appended again) and `actions` (the replay does not
read them); `job[k].unseen` are the pairs whose rows or mark the job once could
not read or set.

**`PassbookWriters`** (`UpdateDividendData`, `DividendUploader`,
`Cal_CB_Per_TNX`, and the append). `book[a]` is a passbook, each row with its
`seq`, `bal`, the job that wrote it and the upload epoch of its CREATEDTIME;
`Opening` is what it starts with. The rows a job has still to move (`moves`) or
to take back (`undo`), its trades (`todo`) and its accounts (`accts`) are sets,
with the order of the code in the choice of the next member (`Here`,
`NextTrade`). A dividend looks for its master row (`DivMaster`), inserts it
(`InsertMaster`) and reads the accounts (`ReadAccounts`); a read that throws
leaves the master row and nobody paid (`MasterFails`). Its insertion is
`Collect` (the later rows), `MoveRow` (one UPDATE each), `InsertDividend`, and
on a failure `CashFails`, or `MoveFails` (an UPDATE that threw and took effect),
and `UndoRow`. A rebuild goes `RebuildDelete`, `ReadChunk`, `InsertEvent`; an
append `AppendDelete`, `FetchEvents`, `ReadTail`, `InsertEvent`. `Preview`,
`CheckMaster`, `Submit` and `PollStatus` are the page. History: `mishap[a]` what
may have upset a passbook since its last rebuild (`together`: two jobs in it at
once; `partial`: a job cut short or an account that failed; `moved`: a move that
was not taken back; `ghost`: an INSERT that threw and took effect; `swept`: rows
removed by an append's DELETE), `accident` the same for a dividend (`twice`: two
jobs saw no master row; `missed`: a job ended, or a statement of an account
failed, behind the master row), `payer` and `credited` what was to be paid and
was.

**`LotActions`** (`MegerFn`, `MergerController`, `DemergerFn`,
`DemergerController`). `act` says which of the two is applied, `book[a]` what an
account has of the old ISIN. `Apply` is the request; the pool runs a failed job
again (`Ended`). Both walk accounts: `SkipAccount` (SUCCESS already),
`BeginAccount` (a SUCCESS at once where there is no row to write),
`StatusUnread`, `EmptyUntold` (the mark of an account without rows fails),
`AccountFails`. A merger gathers rows and writes them by `CreateBulk`, waits
(`Poll`) for a bulk write that ends by itself (`BulkEnds`, which may go on after
the wait was given up), then `QueueRebuilds`, `MarkAccount`. A demerger reads
its lots from the `Holdings` rows (`DemergerLotsOf` is
`computeSurvivingLotsFromHoldingRows`) and goes `InsertRow` by row
(`InsertThrows` leaves a row it does not know of), marks, and rebuilds at the
end. A `createJob` that is accepted and throws is a wait that is given up at
once.

**`IsinRename`** (`updateIsin.js`, `UpdateISIN`, `UpdateISINWorker`). `val` is
every cell the two walks may write, `Plan` the targets and columns of a request.
A worker `Select`s a batch of rows that are still to change, `Update`s them, and
goes on until none is left; `SkipColumn` is the error that ends a column,
`PassBaton` the handoff with the index of the target (a successor starts at the
head of that target), `Ended` the pool's retry. `SubmitRebuild`, `Collect`,
`QueueRebuild` and `Finalize` are the rebuild phase. `Collect` reads one page by
LIMIT and OFFSET; another request's `Update`, or a rebuild that deletes rows and
inserts them behind (`RowsMove`), may move unread rows into pages that were
read, which `slipped` records.

**`ReportExport`** (`ExportAllCustomerHoldingData`, `ExportCorpActionReport`,
and the controllers that submit them). `kind` says which of the two. `manifest`,
`checkpoint`, `pending` are the three objects, `uploads` the multipart uploads,
each a sequence of parts. A run goes `Begin` or `Resume`, per entry `Entry`, and
when the buffer is large `UploadPart`, `DropPending`, `SaveCheckpoint`; then
`TimeLeft`, or `OutOfTime`, `SaveBaton`, `SubmitSelf`; at the end `Complete`,
`Clean`, `Mark`. `Export` finds no row and clears nothing, `ExportAgain` clears
what was left, any of the deletes may fail. The deletes of a run itself
(`DropPending`, `OutOfTime` with an empty buffer, `Clean`) may fail and say
nothing. A row of the file is the entry it is of, 0 the header.

## 4. Runs

All `pass` runs finish in under three minutes on two workers. Deadlock is not
checked: in every model the work ends when all jobs are closed.

**`master_overlap`** (2 chunks, window 2, 2 masters from the start, 3 slaves, a
slave retry). Two masters on one object is what a double dispatch leads to.
`EveryChunkAccounted`: below `nextChunk` every chunk is in flight, recorded as
failed or done, in the object and in every memory. `CompletedMeansDone`:
completion only after a success for each chunk. `ImplementsDispatch`: the
refinement. Two chunks and two masters suffice for one master to overwrite
what the other saved; the proofs of section 7 hold for any number.

**`master_chain`** (1 start, a handoff, a retry of each run, 4 slaves). The
window and one-slave-per-chunk hold as long as no run is retried (`Undisturbed`);
`ProgressNeverLost` also through the retries of a single run (`Alone`). Both
conditions are needed: a retried run loses the ids of the slaves it submitted
(section 5), and one that had submitted its successor saves an older copy.
`BatonReachesTheEnd`: the chain ends, or the model is out of slave ids (the pool
has no such bound).

**`upload_race`** (2 callbacks, a restart, two failing calls). Nothing is queued
before the rows are there; COMPLETED is followed by each submit; the check lets
nobody through after something was queued (`WindowClosesAtMark`); with the poll
alone a final status is final (a callback can be overwritten by the poll's
timeout, hence `OnlyPoll`); RUNNING ends. Two callbacks and the poll give three
racing callers; each loop is a single step, so more callers add no new order of
reads and writes of one row.

**`cash_uploads`** (2 uploads, 2 accounts, 4 transactions, 3 jobs, a handoff,
two faults, a retry of every run, one row per DELETE). The second upload starts
whenever it likes; its transaction has an earlier date, and the opening row is
not the first. `PassbookExact`: where it started beyond the slack of all that
the first wrote (`~overlap`), success of one chain of runs (`OneChain`) means
exact passbooks. `PostedOnce`: where it did not, no transaction is posted twice
all the same, but where two jobs were in one account together. `WalkEnds`: every
walk ends. `Within` cuts the search: with `overlap` it goes through one fault or
handoff and two ticks, and no further than the first row two jobs can write
twice; so `WalkEnds` is complete for uploads that do not overlap. The conditions
are needed, see section 5.

**`holdings_rows`** (3 pairs of 2 accounts, 2 ISINs, 2 jobs, one fault). The
histories are an empty table and an old lot; uploads bring buys of both accounts,
a sell across lots after a buy, or a back-dated buy beside a row of another type;
actions are a split, a bonus, a two-lot demerger and a merger. A fault is a
failed statement, a kill, or a job begun beside an open one. Two jobs give
append after append, append after rebuild, rebuild after append, and each pair
interleaved. `HoldingsExact`: with nothing gone wrong, the cheap path, the queue
path and the engine give the same rows, and a rebuild heals what was there
before. `AppendedOnce`, `SuccessIsWhole`, `RebuildIsWhole`: retries, status rows
and closing; a status that cannot be read takes a second fault to show, and is
covered by the proof. `ReconstructAgrees`: lots read back are the engine's lots, for
distinct events (two mergers of different securities on one record date wipe
each other's lots in the engine, which is listed as a hazard).

**`bonus_split`** (3 accounts: one gets a share in any case, one loses it by the
split, one gets it by the split; 2 requests, 2 jobs, 2 faults, a retry of each
job). Two requests give bonus after bonus, bonus and split in either order and
overlapping, and a split with the recomputation it submits; two faults give a
kill and a failed statement in one history. `BonusOnce` and
`CompletedMeansBonus`: retries, skipped accounts and failed marks neither double
nor drop a bonus. `NobodyLeftBehind` and `SharesFresh` hold but for the named
accidents, and each name in their conditions is needed: without it TLC finds a
history in which the code leaves an account without a rebuild or a bonus sized
on the holding before the split. Whom the split leaves without a share
`SharesFresh` leaves out (section 5). Accounts are independent of each other but
for the order of the walk, so three show a skipped, a cut and a later one.

**`account_walks`** (3 pairs of 2 accounts, 2 jobs, a retry of each, 2 faults). The
histories and imports hold two lots and a sell that ends the first, buys of both
accounts, a sell across lots, a short sell beside a row that neither buys nor
sells; the actions a split with a bonus on its day, a demerger of two lots and a
merger. Two jobs give append after append, rebuild after append and the reverse.
`CompletedIsWhole`: no torn pair behind COMPLETED or SUCCESS, but for a read that
failed and a mark that could be neither read nor set. `RowsExact`: appends and
rebuilds write, total for total, what the engine of `RebuildHoldingtable` writes.
`LotsAccounted`: in every copy the counter of holdings, the open lots, STATUS and
the cost are consistent. `CopiesAgree`: the copies have the same holding where
they read the same sources; mergers and demergers are excluded because several
copies are not given them. `AsOnViewAgrees`: `Holdings` cut at a date shows what a
rebuild as on that date ends with.

**`passbook_writers`** (2 accounts, one dividend requested twice, an upload, a
rebuild of account 1, 3 jobs of which 2 at work, 2 failures or repetitions). One
row before and one after the record date make the dividend land in the middle,
the upload adds a row behind, so each writer moves or removes rows of the other.
`Apart` stops the search behind two jobs in one passbook, which the properties
leave out in any case. `PassbookAdds`: numbers without gap or tie, balances
continuing, everything there once. `DividendOnce`, `CompletedMeansPaid`: the
request, the master row and the status.

**`lot_actions`** (2 accounts, 2 applications, each run twice, 2 faults; five
books). The books have a sell across lots, a lot that rounds to nothing, a split
with a bonus on its day, a holding sold out, a buy whose trade and settlement
dates lie around the record date, and no holding. `SuccessIsApplied`: an account
marked SUCCESS has exactly the rows of the lots `Holdings` shows open.
`AppliedOnce` and `CompletedIsRebuilt`: requests, retries, a wait that was given
up, marks and rebuilds. `TwoDates` leaves out the books in which the code goes
by two dates, and with them every book with a demerger or merger (`lot_again` is
about those); two accounts give one done before a cut and one after it.

**`lot_again`** (violation, one account, no fault). See section 5.

**`isin_rename`** (2 walks, 2 workers at a time, 2 runs of each by the pool, 2
faults, batches and pages of one row). Requests are renames that chain or
compete and a sync of a security's code; a table has two ISIN columns.
`SuccessIsDrained`: after handoffs, retries beside their own successor and
another request at work, SUCCESS leaves nothing to change, and, unless rows
`slipped` between two pages, a rebuild was submitted for the account of every
row it was the last to rename. A batch of one makes every row a point at which a
worker may be cut; the number of tables only lengthens the walk.

**`report_export`** (lists of up to 3 entries, any of which may have no rows, parts
of 2 rows, 2 runs at a time, 2 requests, 2 faults). Three entries and a header
with parts of two give a first, a middle and a last part and a rest; the second
request meets every state a first one can leave behind. `OfferedIsWhole`: the file
offered has the header and every row once, however it was cut and whatever delete of
its rows failed unseen, but for one history of two such deletes (`stale`, section 5).

## 5. Where the code and its words differ

`lot_again` shows one: `computeSurvivingLotsFromHoldingRows`
(demergerApplyCore.js:218) takes rows of one demerger or merger to have one
`TRANSACTION_DATE` ("The first row of a new event wipes the prior queue;
subsequent rows of the SAME event are added additively",
DemergerController.js:157), but `RebuildHoldingtable` writes the trade date of the
lot there (holdingsRebuildFromSources.js:611). A second demerger therefore sees
only the last group of lots.

Others are conditions of the properties above; TLC finds a history for each when
the condition is dropped.

* *Window*: README.md:356 says at most 10 slaves are in flight. The state is
  saved once per batch (CalculateHoldingMaster/index.js:447); a run that dies after submitting
  loses the ids, and its retry submits the same chunks beside the slaves nobody
  tracks (`Undisturbed`).
* *Idempotent completion*: TempTransactionUpload.js:126 says callback and poll are
  safe together. The row is read and marked in two statements, and two callers
  can pass between them and queue the three jobs twice; `WindowClosesAtMark` says
  when the window closes, `master_overlap` what the second master does.
* *Own rows only*: Cal_CB_Append_TxnUpload/index.js:299-301 says the floor isolates
  "exactly this import's rows". It has no ceiling and no import id. When uploads
  overlap, the job of the second deletes rows that the job of the first inserted after
  the second's floor, and posts again only the transactions newer than that floor;
  those that are older, and whose rows it deleted, are lost (`overlap`). No transaction
  comes twice (`PostedOnce`), unless the two jobs meet in an account (`crossed`). A
  dividend's rows match the floor as well (`PassbookAdds`).
* *Cursor*: index.js:449 says the cursor moves only after an account is fully
  processed. It moves past a failed one, and a handoff afterwards closes with
  success and forgets the failure (`OneChain`).
* *Upload*: TempTransactionUpload.js:914-917 writes FAILED when `createJob` throws. If
  the service had taken the job, the rows come in behind a row that says FAILED, and
  the callback, which finds it no longer RUNNING, queues nothing.
* *Retries of the workers*: CalculateHoldingWorkers/index.js:295-298 and
  CalculateHoldingsPerAccount/index.js:189-192 take a status that cannot be read for
  none, so a retry appends an account marked SUCCESS once more (`unread`).
* *Bonus*: UpdateBonusTable/index.js:195-199 says that a recomputation OVERWRITES a
  row sized before the split. When the split leaves no share (index.js:363-373) the
  account is marked SUCCESS before its row is looked at, and the row keeps its size
  (`SplitHolders` in `SharesFresh`).
* *Dividend*: a job that fails between the INSERT of the master row and the first
  account leaves the row (UpdateDividendData/index.js:623-729); the next job finds it
  (611-620) and reports COMPLETED with nobody paid (`missed`).
* *Preview of a merger*: mergerEngine.js:203 says "preview === apply at the lot
  level". `MegerFn` keeps a transaction if either of its dates is on or before the record date
  (index.js:308-334), the preview by its effective date alone (mergerEngine.js:72-77).
* *Rename*: rows are paged by OFFSET (UpdateISINWorker/index.js:223-241), so accounts
  are missed when rows move between two pages (`slipped`). A failed statement ends a column for good, and the job is still marked
  SUCCESS (UpdateISINWorker/index.js:450). When a worker is out of retries the
  row stays RUNNING.
* *Export*: a row older than an hour counts as stale although its chain of runs
  may be alive; a new request then shares the checkpoint with it (`tainted`). The
  holdings export of an empty list is COMPLETED without a file. Pending rows and
  checkpoint are two objects: a run killed between them can only double rows if
  somebody resumes from it, which takes a request whose deletes failed.
* *Export again*: ExportAllCustomerHoldingData/index.js:20 says that a run killed
  between saves does not duplicate rows. An empty rest is saved by a delete whose
  failure is swallowed (checkpoint.js:74-82, 122-126): when the delete after a part
  and the one at the handoff both fail, the successor takes the rows again (`stale`).
* *Merger*: when the wait for the bulk write is given up the write goes on, and
  the retry writes the accounts that were not marked a second time (`accident`).

## 6. Fairness

`HoldingMaster`: the pool starts queued jobs, a run moves on at each await
(weak fairness per step), a slave ends (functions have a time limit), and
`getJob` and `submitJob` succeed infinitely often although each call may fail
(strong fairness). No fairness on crashes, time-outs or slave retries.
`UploadPipeline`: handlers that were started run on, and the poll wakes every 30
seconds until its limit; none on the bulk service and the callbacks.
`CashAppend`: queued jobs start and started ones run on. The other modules state
no liveness and assume no fairness: what they promise is about what a status row
or a table says, whenever it says so.

## 7. Proofs

`HoldingMasterProofs` proves for every number of chunks, window size, master
runs, slaves and retries, from the assumptions that these are natural numbers
(the window at least 1) and that `NoState` is not a dispatch state:

* `TypeCorrect`, `NothingLost`, `CompletionIsSound`: `TypeOK`,
  `EveryChunkAccounted` and `CompletedMeansDone` are invariants;
* `Implements`: every behaviour is one of `ChunkDispatch`.

The inductive invariant `IInv` adds to the type: every state object, stored or
in memory, covers the chunks below its `nextChunk`; what it has in flight are
jobs that were submitted for such chunks (`Tracked`), so an entry that ends is
either a success or becomes a recorded failure; a job has a chunk once it was
submitted; a settled run has nothing in flight and everything assigned; a
completed run had no failure. A chunk that succeeded stays so, which makes
`Covers` stable under what other masters and slaves do. One lemma per step,
`StepIInv` puts them together. For the refinement, `StepAbstract` maps
`SubmitChunk` to `Give` (or a stutter when the chunk was given before),
`SlaveSucceeds` to `Finish`, `CloseCompleted` to `Report`.

For a master that is submitted once (`Starts <= 1`; what a second one does is the
subject of `master_overlap`, and these three properties are false then):

* `NoChunkTwice`, `WindowHolds`, `ProgressStays`: `OneSlavePerChunk`,
  `WindowOnTheWay` and `ProgressNeverLost`.

`SInv` adds to `IInv` that one run has the dispatch in hand (`OneHand`), that its
memory is never behind the stored object (`Ahead`) and that, until a run is
retried, it knows every slave that was submitted (`Knows`): the object is written
once per batch, so what is stored is not enough to tell which chunks were given.
A run between the submit of its successor and its own end has left the window
alone, which is why a handoff does not break any of them.

`UploadPipelineProofs` proves for every number of callbacks, restarts and
failing calls: `TypeCorrect` (no caller queues a job twice), `DispatchIsSafe`
(`DispatchOnlyAfterImport`), `CompletedIsNoLie` (`CompletedIsFollowedUp`),
`WindowCloses` (`WindowClosesAtMark`), `FinalStatusStays`
(`FinalStatusIsFinal`). `IInv` says that whoever is past the check got there
because the bulk write had ended (`Imported`), that a job is queued only behind
the UPDATE of the row (`Marked`), that nobody knows of the bulk job before it
was created (`Quiet`), and that the row is open while the poll is the only
caller and has not ended it (`OpenWhilePolled`). That the poll and several
callbacks share one row matters to `Marked` only, but for the poll's timer,
which is not there before `createJob` has answered (`Unpolled`): a caller that
read the row before the mark is in the window, one that reads it later is turned
away.

`CashAppendProofs` proves two theorems for any transactions, accounts, uploads,
page size, DELETE cap, slack, retries, handoffs and faults.

`RowsPostedOnce` (`PostedOnce`) is about uploads in any order. A job between its
COUNT and its last INSERT in an account nobody else wrote into meanwhile finds the
rows since its floor gone; the events it reads are those since the same floor, so
their rows were among them, and what it has still to insert is not there (`OInv`).
A row is never older than its transaction (`Young`), which is why a floor takes the
rows of all that it shows.

`PassbookStaysExact` (`PassbookExact`) is about uploads of which none overlaps
another (`overlap`, section 5). The invariant has three parts.

* `Timely`: uploads begin in order, the rows of an upload are not older than its
  beginning, and all that an upload wrote is older than the floor of the next. So
  the floor of a run isolates the rows of its own upload although it has no
  ceiling. The page of a run holds the next accounts after its cursor.
* `Relay`: of each upload one run began at the first account, and as long as one
  has handed over another has not. With success reported and every run of the
  upload once at most (`OneChain`) there is then exactly one run that handed over
  to nobody, and it is the one that succeeded (`ChainSettles`, a count of runs).
* `Exactness`: the rows of earlier uploads add up to their transactions; the run
  in hand has done every account behind its cursor exactly; and the account it is
  in is as far as the statement it is at - deleted, partly deleted, or posted up
  to the event before `NextEvent` (`Kept`, `There`, `Inserting`).

`LotActionsProofs` proves for every number of accounts, applications, retries and
faults and for every set of books: `WrittenOnce` (`AppliedOnce`),
`CompletedLeavesNobodyBehind` (`CompletedIsRebuilt`), `SuccessIsNoLie`
(`SuccessIsApplied`) where the lots the job computes are those `Holdings` has open
(`LotsAgree`). The hypothesis is about constants, the folds of `FifoViews` over one
book; TLC evaluates it for the books of the run (`EnginesAgree` of `MCLotActions`).
The invariant is a part that holds always - what a job has gathered, what its bulk
write has, that SUCCESS has all its rows - and a part per account that nothing
befell (`Clean`): one job works, all rows of the account are of one attempt, and
that attempt is the one at work, unless the account is a SUCCESS. The bulk write
makes the second part necessary: rows may be under way for a job that gave up.

`IsinRenameProofs` proves `SuccessMeansDrained` (`SuccessIsDrained`) for every set
of tables, targets, requests, workers, retries and faults. A job is not trusted:
the invariant says of each job at work, be it a retry beside its own successor,
that the columns before where it stands are drained (`DrainedBehind`) unless
another request crossed it or an error skipped a column, and of the rebuild phase
that every row still due has its account in the list at hand or lies beyond the pages
read, unless rows slipped (`DueAtHand`). A
write by a request leaves the drained columns of others drained, or crosses them.

`PassbookWritersProofs` proves for every set of trades, accounts, dividends,
amounts, uploads, requests, jobs, retries and faults, and every passbook to start
with, `DividendPaidOnce` (`DividendOnce`) and `CompletedIsPaid`
(`CompletedMeansPaid`). The invariant follows a dividend through its job: before
the master row nobody has anything of it and one job at most is about to insert it
(`Once`); after it one job pays, and the accounts ahead of that job have neither
record nor row, but for the account it is at (`Ahead`); and everybody who was to be
paid has his record and the money, or the paying job will come past him (`Due`).
`Credited` says why a row that was written may be gone: a rebuild deletes it, an
append sweeps it away, which is a mishap because no append wrote it
(`DividendRows`). The steps of a job reduce to four kinds - a job that pays
nobody (`Aside`), one that pays and stays at its account or goes to the next
(`PaysOn`), the look at the master row (`Takes`) and its INSERT (`Opens`) - so that
the obligations are proved once per kind. The status in `Jobs` plays no part: what
`CompletedMeansPaid` says of a COMPLETED dividend holds whenever no job is at work.

`PassbooksAddUp` (`PassbookAdds`) is about the three writers together. Its
invariant `BInv` says of every passbook without a mishap (`Fine`) where its rows
come from (`Content`), that it is in order when nobody writes it (`Settled`), and
how far the one job has come that does (`Busy`):

* A passbook in order is a `Chain`, the numbers 1 to n with the balances following
  from each other, and it has the trades of every upload that is `Claimed`: posted
  by an append that has the account behind it. `Complete` speaks of appends that
  have ended; an append that is retried must not lose what it claims meanwhile.
* In a dividend's job the passbook is not a chain. It is what it was when the job
  began, O, with the rows of `undo` moved up by one (`Shifted`), and `moves` are the
  later rows of O that are left (`Shifting`). So a move, a move taken back, and the
  end of either are the same statement about O, and only the INSERT needs an
  argument about numbers (`CreditChain`).
* An append's DELETE goes by CREATEDTIME and would leave a gap if something older
  lay above what it removes. A chain therefore also says that what an append or a
  rebuild wrote lies above all that is older, so the DELETE takes the top off
  (`CutTop`); that nothing claimed is among it, because a row written by an append
  is of that append's own upload or of one nobody has claimed (`Sourced`). A
  dividend's row in the way is the mishap `swept`.
* A rebuild starts from nothing and ends every mishap; after each chunk the
  passbook has every trade claimed up to that date and none later (`BusyRebuild`).

`Good` says what a step of any job has to show for `BInv` to hold after it
(`GoodStep`), so the other passbooks and the other jobs are argued about once.

`HoldingsTableProofs` proves for every set of pairs, accounts, histories, uploads,
corporate actions, jobs, retries and faults, from the assumptions that the sources
are sources, that uploads bring transactions and corporate actions bring none, and
that the bounds are natural numbers:

* `AppendedOnceHolds`: `AppendedOnce`; `SuccessIsWholeHolds`: `SuccessIsWhole`;
  `RebuildIsWholeHolds`: `RebuildIsWhole`; all from `TableStaysSound`, that `HInv`
  is an invariant.

`HInv` says of each pair and each job (`Good`), as far as what befell the pair
leaves room for it:

* a worker alone with a pair has nothing of it to append but what its import
  brought, and when it has read that, it is all there is (`Solo`). So what it has
  still to append is not in the table (`Unwritten`): not before it has begun with
  the pair, not among `todo` while it is at it, and once it has written and is cut
  before SUCCESS, the pair is `torn`. This is `AppendedOnce`;
* of the account a worker is in, the pairs behind it have every buy and sell, and
  the pair in hand has those that are no longer in `todo` (`Brought`), which
  `MarkAccount` turns into what SUCCESS says (`Earned`); an error keeps it from
  that. A rebuild that deletes the rows brings them all again, unless a read
  failed, because what it knows is all there was (`Knows`, `Rewriting`). This is
  `SuccessIsWhole`;
* a pair that was deleted and is not written again is ahead of a rebuild, or one
  that has counted an error, is queued again or has failed (`Owes`), unless it was
  merged away meanwhile, in which case the retry passes it by. This is
  `RebuildIsWhole`.

It rests on `EngineWrites`: on any set of events the engine writes a row for each
buy and sell, rows of nothing else, and none twice but the lots of a split. The
engine is a recursive function on finite sets; that it exists and that each of its
values has this form are shown with a smallest set for which it would fail, since
the induction theorems cannot be used. `CalmStep` and `TableStep` argue once about
the other pairs and jobs, for the steps that leave the table alone and for those
that write one pair.

`BonusSplitProofs` proves for every number of accounts, holders, requests, jobs,
retries and faults, from the assumptions that these are natural numbers (at least
one account) and that those who get a share before and after a split are accounts:

* `BonusTypeCorrect`: `TypeOK` is an invariant, which needs that a run in the
  account loop has an account at hand (`AtHand`) and a request that submits
  recomputations has one left to submit (`Asking`);
* `CompletionGivesAll`: `CompletedMeansBonus`. A run counts an error before it
  leaves somebody who is always due a share (`Always`) without a row (`Counted`, `Given`), so a run without errors has
  a row behind it for each of them no longer in its list (`Reached`); an account
  it skips was marked by a run that had the same promise (`SuccessMeansRow`). This
  holds however many jobs overlap, because Bonus rows are never deleted;
* `GivenOnce`: `BonusOnce`. As long as no two jobs are open together (`OneOpen`),
  nobody writes between a job's look for a row and its INSERT (`Unwritten`).

`QuietStep` covers all steps that leave the Bonus rows alone, `WriteIInv` the
two that do not. The second half is about what is owed:

* `NobodyIsForgotten`: `NobodyLeftBehind`; `SharesStayFresh`: `SharesFresh`.

`Dues` says who owes it. An account behind its last rebuild is in the list of a
run that will come past it, or has affected it and has still to queue
(`RebuildOwed`); a bonus that was given is recorded or its run has that to do
(`RecordOwed`), without which a split would not find it; and a row sized on fewer
splits than there are is found by a request on its way or is ahead of a
recomputation (`ResizeOwed`). What keeps these is one statement about every step
of a run (`GoodStep`), so that the obligations are proved once and not per step.

Only model-checked:

* the liveness properties `BatonReachesTheEnd`, `WalkEnds` and `RunningEnds`, since
  fairness is out of the prover's reach;
* `ReconstructAgrees`, `LotsAccounted`, `CopiesAgree` and `AsOnViewAgrees`, and
  with them `HoldingsExact` and `RowsExact`, which rest on them: they compare the
  lots, totals and costs that the folds of `FifoLots` and `FifoViews` compute from
  one list, and need an induction over these folds, which the prover cannot
  instantiate. What is proved of the rows is which transactions they are of;
* `CompletedIsWhole` of `AccountHoldings` and `OfferedIsWhole` of `ReportExport`
  (section 2, step 10).

## 8. Not modelled

Listed with reasons under `components`: the three functions that fill master data
(nothing that is modelled reads what they write), `CashCalculation` with its own
ledger, single-pass exports, controllers that only read, wiring and the user
interface.

In what is modelled, left out are: the CSV checks and rewriting of an upload (one
accept or reject), dates and formats (a date is a rank), rounding but for the
shares of a merger or demerger, rows with quantity 0, `P_L`, scoped and dry runs,
previews that only read, and the wording of logs and answers. `importStartedAtMs`
of the workers is an index into the rows created, at most `SlackRows` before the
upload's own. The dividend pays constants: which holding it counts is a view of
`FifoViews`. `RebuildHoldingtable` jobs appear in `BonusSplit`, `LotActions` and
`IsinRename` as having been queued; what they do is in `HoldingsTable`.
