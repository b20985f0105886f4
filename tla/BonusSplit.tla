------------------------------ MODULE BonusSplit ------------------------------
(***************************************************************************)
(* A bonus and a split of one security, the split dated on or before the   *)
(* ex-date: BonusController, SplitController and the job UpdateBonusTable. *)
(*                                                                         *)
(* A bonus request looks at the Jobs row of the bonus and submits the job, *)
(* which walks the accounts, sizes a Bonus row for each holder, and at the *)
(* end writes Bonus_Record and queues the rebuilds of their holdings.  A   *)
(* split request inserts the Split row, queues rebuilds, and for a bonus   *)
(* it finds in Bonus_Record submits the job again to resize its rows.      *)
(***************************************************************************)
EXTENDS Integers, FiniteSets, SequencesExt

CONSTANTS
    NumAccounts,    \* accounts with transactions in the security, in walk order
    Holders,        \* those the bonus gives at least one share, sized before the split
    SplitHolders,   \* the same, sized after it
    MaxRequests,    \* requests of users
    MaxRuns,        \* UpdateBonusTable jobs the pool can be given
    MaxRetries,     \* pool retries of one job
    MaxFaults       \* failing statements and submits, kills, early time-outs

Accounts == 1 .. NumAccounts
Requests == 1 .. MaxRequests
Runs == 1 .. MaxRuns

ASSUME HoldersAssumption ==
    NumAccounts \in Nat \ {0} /\ Holders \subseteq Accounts /\ SplitHolders \subseteq Accounts
ASSUME BonusBoundsAssumption == {MaxRequests, MaxRuns, MaxRetries, MaxFaults} \subseteq Nat

(* Whom a bonus gives a share by the splits it is sized with: for everybody *)
(* else bonusShares is 0.  A split may take the share from an account, or   *)
(* give it one.                                                             *)
Eligible(known) == IF known = 0 THEN Holders ELSE SplitHolders
Always == Holders \intersect SplitHolders
Swayed == (Holders \union SplitHolders) \ Always

(* jobName: BON_{isin}_{exDate} is the same for every request; a recompute  *)
(* gets a name of its own, which stands as its run number.                  *)
Apply == 0
JobNames == {Apply} \union Runs

VARIABLES
    splits,     \* rows of Split
    bonus,      \* Bonus rows of each account: the splits each was sized with
    record,     \* rows of Bonus_Record
    behind,     \* accounts changed after the last rebuild queued for them
    jobs,       \* Jobs row of the bonus: [id, status]; id tells rows apart
    status,     \* JobStatusPerAccount by jobName
    req,        \* the requests
    run,        \* the UpdateBonusTable jobs
    faults,
    mishap      \* history: what happened that the code does not make good

tables == <<splits, bonus, record, behind>>
vars == <<splits, bonus, record, behind, jobs, status, req, run, faults, mishap>>

NoRow == [id |-> <<0, 0>>, status |-> "none"]
Underway == {"PENDING"}

(* name, recompute are parameters.  Memory: left (accounts to do), known    *)
(* (splits read), ok (the account at hand did not throw), affected          *)
(* (accountsRebuild), errs (errorCount).                                    *)
NewRun(name) ==
    [pc |-> "queued", name |-> name, tries |-> 0, left |-> <<>>, known |-> 0,
     ok |-> TRUE, affected |-> {}, errs |-> 0]

NoRun == [NewRun(Apply) EXCEPT !.pc = "absent"]
Recompute(r) == run[r].name # Apply

NoRequest == [pc |-> "idle", seen |-> NoRow, todo |-> 0]

Init ==
    /\ splits = 0
    /\ bonus = [a \in Accounts |-> <<>>]
    /\ record = 0
    /\ behind = {}
    /\ jobs = NoRow
    /\ status = [n \in JobNames |-> [a \in Accounts |-> "none"]]
    /\ req = [c \in Requests |-> NoRequest]
    /\ run = [r \in Runs |-> NoRun]
    /\ faults = 0
    /\ mishap = {}

Fault == faults < MaxFaults /\ faults' = faults + 1

Closed == {"done", "failed"}
Open(r) == run[r].pc \notin {"absent"} \union Closed
Running(c) == req[c].pc \notin {"idle", "answered"}
Quiet == (\A r \in Runs : ~Open(r)) /\ (\A c \in Requests : ~Running(c))

NextRequest(c) == req[c].pc = "idle" /\ \A d \in Requests : d < c => req[d].pc # "idle"
NextRun(r) == run[r].pc = "absent" /\ \A k \in Runs : k < r => run[k].pc # "absent"
Answer(c) == req' = [req EXCEPT ![c] = [NoRequest EXCEPT !.pc = "answered"]]
Goto(c, rec) == req' = [req EXCEPT ![c] = rec]

----------------------------------------------------------------------------
(* applyStockBonus.                                                         *)

(* More than 60 minutes since the Jobs row was created.  While a job of     *)
(* that name is still open this takes retries or a long queue, and counts   *)
(* as a fault.                                                              *)
Stale == IF \E r \in Runs : Open(r) /\ ~Recompute(r) THEN Fault ELSE UNCHANGED faults

(* The request reads the Jobs row: a bonus underway is not started again.   *)
RequestBonus(c) ==
    /\ NextRequest(c)
    /\ \/ /\ jobs.status \in Underway
          /\ Answer(c)
          /\ UNCHANGED faults
       \/ /\ jobs.status \in Underway
          /\ Stale
          /\ Goto(c, [NoRequest EXCEPT !.pc = "clear", !.seen = jobs])
       \/ /\ jobs.status \notin Underway
          /\ Goto(c, [NoRequest EXCEPT !.pc = IF jobs = NoRow THEN "submit" ELSE "clear", !.seen = jobs])
          /\ UNCHANGED faults
    /\ UNCHANGED <<tables, jobs, status, run, mishap>>

(* DELETE by ROWID; an error is only logged.                                *)
ClearJob(c) ==
    /\ req[c].pc = "clear"
    /\ \/ jobs' = (IF jobs.id = req[c].seen.id THEN NoRow ELSE jobs) /\ UNCHANGED faults
       \/ Fault /\ UNCHANGED jobs
    /\ Goto(c, [req[c] EXCEPT !.pc = "submit"])
    /\ UNCHANGED <<tables, status, run, mishap>>

(* submitJob; nothing in Jobs tells of the job before it starts.            *)
SubmitBonus(c, r) ==
    /\ req[c].pc = "submit"
    /\ NextRun(r)
    /\ run' = [run EXCEPT ![r] = NewRun(Apply)]
    /\ mishap' = mishap \union (IF \E k \in Runs : Open(k) THEN {"beside"} ELSE {})
    /\ Answer(c)
    /\ UNCHANGED <<tables, jobs, status, faults>>

(* A statement or submit of a request throws: 500.  Rebuilds not queued     *)
(* after the Split row went in are not queued later either.                 *)
RequestFails(c) ==
    /\ req[c].pc \in {"submit", "queue"}
    /\ Fault
    /\ mishap' = mishap \union (IF req[c].pc = "queue" THEN {"cut", "unqueued"} ELSE {})
    /\ Answer(c)
    /\ UNCHANGED <<tables, jobs, status, run>>

(* getBonusApplyStatus marks a row that has been underway for an hour.      *)
PollStatus ==
    /\ jobs.status \in Underway
    /\ Stale
    /\ jobs' = [jobs EXCEPT !.status = "ERROR"]
    /\ UNCHANGED <<tables, status, req, run, mishap>>

----------------------------------------------------------------------------
(* addStockSplit.                                                           *)

RequestSplit(c) ==
    /\ NextRequest(c)
    /\ IF splits > 0 THEN Answer(c) ELSE Goto(c, [NoRequest EXCEPT !.pc = "insert"])
    /\ UNCHANGED <<tables, jobs, status, run, faults, mishap>>

InsertSplit(c) ==
    /\ req[c].pc = "insert"
    /\ splits' = splits + 1
    /\ behind' = Accounts
    /\ mishap' = mishap \union (IF \E r \in Runs : Open(r) THEN {"raced"} ELSE {})
    /\ Goto(c, [req[c] EXCEPT !.pc = "queue"])
    /\ UNCHANGED <<bonus, record, jobs, status, run, faults>>

(* The INSERT throws, applied or not: 500.  If it was applied, the next     *)
(* request for the split is answered as already applied.                    *)
InsertFails(c) ==
    /\ req[c].pc = "insert"
    /\ Fault
    /\ \/ /\ splits' = splits + 1
          /\ behind' = Accounts
          /\ mishap' = mishap \union {"cut", "unqueued"}
                             \union (IF \E r \in Runs : Open(r) THEN {"raced"} ELSE {})
       \/ UNCHANGED <<splits, behind, mishap>>
    /\ Answer(c)
    /\ UNCHANGED <<bonus, record, jobs, status, run>>

QueueSplitRebuilds(c) ==
    /\ req[c].pc = "queue"
    /\ behind' = {}
    /\ Goto(c, [req[c] EXCEPT !.pc = "records"])
    /\ UNCHANGED <<splits, bonus, record, jobs, status, run, faults, mishap>>

(* The bonuses on or after the split's date; a failed read is only logged.  *)
ReadRecords(c) ==
    /\ req[c].pc = "records"
    /\ \/ /\ IF record = 0 THEN Answer(c) ELSE Goto(c, [req[c] EXCEPT !.pc = "recompute", !.todo = record])
          /\ UNCHANGED <<faults, mishap>>
       \/ /\ Fault
          /\ Answer(c)
          /\ mishap' = mishap \union {"unqueued"}
    /\ UNCHANGED <<tables, jobs, status, run>>

(* Mutant of SubmitRecompute: the job gets the name of the bonus itself.    *)
SubmitRecomputeAsApply(c, r) ==
    /\ req[c].pc = "recompute"
    /\ NextRun(r)
    /\ run' = [run EXCEPT ![r] = NewRun(Apply)]
    /\ mishap' = mishap \union (IF \E k \in Runs : Open(k) THEN {"beside"} ELSE {})
    /\ IF req[c].todo = 1 THEN Answer(c) ELSE Goto(c, [req[c] EXCEPT !.todo = @ - 1])
    /\ UNCHANGED <<tables, jobs, status, faults>>

SubmitRecompute(c, r) ==
    /\ req[c].pc = "recompute"
    /\ NextRun(r)
    /\ run' = [run EXCEPT ![r] = NewRun(r)]
    /\ mishap' = mishap \union (IF \E k \in Runs : Open(k) THEN {"beside"} ELSE {})
    /\ IF req[c].todo = 1 THEN Answer(c) ELSE Goto(c, [req[c] EXCEPT !.todo = @ - 1])
    /\ UNCHANGED <<tables, jobs, status, faults>>

(* The error is logged and the split is answered as applied.                *)
RecomputeNotSubmitted(c) ==
    /\ req[c].pc = "recompute"
    /\ Fault
    /\ mishap' = mishap \union {"unqueued"}
    /\ Answer(c)
    /\ UNCHANGED <<tables, jobs, status, run>>

----------------------------------------------------------------------------
(* UpdateBonusTable.                                                        *)

Become(r, rec) == run' = [run EXCEPT ![r] = rec]
Here(r) == Head(run[r].left)

(* INSERT INTO Jobs, else UPDATE.  The row of a recompute is its own and    *)
(* nobody reads it.                                                         *)
SetJob(r, st) ==
    jobs' = IF Recompute(r) THEN jobs
            ELSE IF jobs = NoRow
                 THEN (IF st = "PENDING" THEN [id |-> <<r, run[r].tries + 1>>, status |-> st] ELSE NoRow)
                 ELSE [jobs EXCEPT !.status = st]

Start(r) ==
    /\ run[r].pc = "queued"
    /\ SetJob(r, "PENDING")
    /\ Become(r, [run[r] EXCEPT !.pc = "read"])
    /\ UNCHANGED <<tables, status, req, faults, mishap>>

(* The accounts and, in one pass, everything a bonus is sized with.         *)
ReadSources(r) ==
    /\ run[r].pc = "read"
    /\ Become(r, [run[r] EXCEPT !.pc = "account", !.known = splits, !.left = [a \in Accounts |-> a]])
    /\ UNCHANGED <<tables, jobs, status, req, faults, mishap>>

NextAccount(rec) ==
    [rec EXCEPT !.left = Tail(@), !.pc = IF Tail(rec.left) = <<>> THEN "record" ELSE "account",
                !.ok = TRUE]

(* getPerAccountJobStatus, where a failed read is no SUCCESS, and           *)
(* upsertAccountRowRunning.  An account without a share is marked SUCCESS   *)
(* as it is: a row it has from before the split stays.                      *)
BeginAccount(r) ==
    LET a == Here(r)
        Redo == /\ status' = [status EXCEPT ![run[r].name][a] = "RUNNING"]
                /\ Become(r, [run[r] EXCEPT !.pc = IF a \in Eligible(run[r].known) THEN "check" ELSE "mark"])
    IN /\ run[r].pc = "account"
       /\ \/ /\ IF status[run[r].name][a] = "SUCCESS"
                THEN Become(r, NextAccount(run[r])) /\ UNCHANGED status
                ELSE Redo
             /\ UNCHANGED faults
          \/ Fault /\ Redo
       /\ UNCHANGED <<tables, jobs, req, mishap>>

Affect(rec, a) == [rec EXCEPT !.affected = @ \union {a}]

(* Mutant of CheckRow: a row that is there needs no rebuild.                *)
CheckRowNoRebuild(r) ==
    LET there == bonus[Here(r)] # <<>>
    IN /\ run[r].pc = "check"
       /\ Become(r, [run[r] EXCEPT !.pc = IF there /\ ~Recompute(r) THEN "mark"
                                          ELSE IF there THEN "update" ELSE "write"])
       /\ UNCHANGED <<tables, jobs, status, req, faults, mishap>>

(* Mutant of CheckRow: the row is not looked for.                           *)
CheckRowNever(r) ==
    /\ run[r].pc = "check"
    /\ Become(r, [run[r] EXCEPT !.pc = "write"])
    /\ UNCHANGED <<tables, jobs, status, req, faults, mishap>>

(* bonusRowExists; a failed check is taken for "no row".                    *)
CheckRow(r) ==
    LET a == Here(r)
        there == bonus[a] # <<>>
    IN /\ run[r].pc = "check"
       /\ \/ /\ Become(r, IF there /\ ~Recompute(r) THEN Affect([run[r] EXCEPT !.pc = "mark"], a)
                          ELSE [run[r] EXCEPT !.pc = IF there THEN "update" ELSE "write"])
             /\ UNCHANGED <<faults, mishap>>
          \/ /\ Fault
             /\ Become(r, [run[r] EXCEPT !.pc = "write"])
             /\ mishap' = mishap \union {"blind"}
       /\ UNCHANGED <<tables, jobs, status, req>>

Sized(r) == IF run[r].pc = "update" THEN [n \in DOMAIN bonus[Here(r)] |-> run[r].known]
            ELSE Append(bonus[Here(r)], run[r].known)

(* The Bonus row of the account is inserted, or its share overwritten.      *)
WriteRow(r) ==
    /\ run[r].pc \in {"write", "update"}
    /\ bonus' = [bonus EXCEPT ![Here(r)] = Sized(r)]
    /\ behind' = behind \union {Here(r)}
    /\ Become(r, Affect([run[r] EXCEPT !.pc = "mark"], Here(r)))
    /\ UNCHANGED <<splits, record, jobs, status, req, faults, mishap>>

(* Mutant of WriteFails: the error is logged, not counted.                  *)
WriteFailsUncounted(r) ==
    /\ run[r].pc \in {"write", "update"}
    /\ Fault
    /\ Become(r, [run[r] EXCEPT !.pc = "mark", !.ok = FALSE])
    /\ UNCHANGED <<tables, jobs, status, req, mishap>>

(* The statement throws, applied or not: the account is an error.           *)
WriteFails(r) ==
    /\ run[r].pc \in {"write", "update"}
    /\ Fault
    /\ \/ /\ bonus' = [bonus EXCEPT ![Here(r)] = Sized(r)]
          /\ behind' = behind \union {Here(r)}
       \/ UNCHANGED <<bonus, behind>>
    /\ Become(r, [run[r] EXCEPT !.pc = "mark", !.ok = FALSE, !.errs = @ + 1])
    /\ UNCHANGED <<splits, record, jobs, status, req, mishap>>

(* markAccountSuccess or markAccountFailed; a failed UPDATE is only logged. *)
Mark(r) ==
    /\ run[r].pc = "mark"
    /\ \/ /\ status' = [status EXCEPT ![run[r].name][Here(r)] = IF run[r].ok THEN "SUCCESS" ELSE "FAILED"]
          /\ UNCHANGED faults
       \/ Fault /\ UNCHANGED status
    /\ Become(r, NextAccount(run[r]))
    /\ UNCHANGED <<tables, jobs, req, mishap>>

(* ensureBonusRecord, when the run wrote or found a row: SELECT, INSERT.    *)
ReadRecord(r) ==
    /\ run[r].pc = "record"
    /\ Become(r, [run[r] EXCEPT !.pc = IF run[r].affected = {} \/ record > 0 THEN "queue" ELSE "newrecord"])
    /\ UNCHANGED <<tables, jobs, status, req, faults, mishap>>

InsertRecord(r) ==
    /\ run[r].pc = "newrecord"
    /\ record' = record + 1
    /\ Become(r, [run[r] EXCEPT !.pc = "queue"])
    /\ UNCHANGED <<splits, bonus, behind, jobs, status, req, faults, mishap>>

(* Either statement fails: logged, and the job goes on.                     *)
RecordFails(r) ==
    /\ run[r].pc \in {"record", "newrecord"} /\ run[r].affected # {}
    /\ Fault
    /\ mishap' = mishap \union {"unrecorded"}
    /\ Become(r, [run[r] EXCEPT !.pc = "queue"])
    /\ UNCHANGED <<tables, jobs, status, req>>

(* queueRebuildHoldingsJobs: the rebuilds read what was written before.     *)
QueueRebuilds(r) ==
    /\ run[r].pc = "queue"
    /\ behind' = behind \ run[r].affected
    /\ Become(r, [run[r] EXCEPT !.pc = "end"])
    /\ UNCHANGED <<splits, bonus, record, jobs, status, req, faults, mishap>>

Finish(r) ==
    /\ run[r].pc = "end" /\ run[r].errs = 0
    /\ SetJob(r, "COMPLETED")
    /\ Become(r, [NewRun(run[r].name) EXCEPT !.pc = "done", !.tries = run[r].tries])
    /\ UNCHANGED <<tables, status, req, faults, mishap>>

(* Mutant of PoolRetry: the retries are compared off by one.                *)
PoolRetryOnceMore(r) ==
    /\ Become(r, IF run[r].tries <= MaxRetries
                 THEN [NewRun(run[r].name) EXCEPT !.tries = run[r].tries + 1]
                 ELSE [NewRun(run[r].name) EXCEPT !.tries = run[r].tries, !.pc = "failed"])
    /\ UNCHANGED mishap

(* The job runs again with the same parameters, or stays failed.  Accounts  *)
(* it marked SUCCESS are skipped then, so nobody queues their rebuild.      *)
PoolRetry(r) ==
    LET again == run[r].tries < MaxRetries
        forgotten == {a \in run[r].affected : status[run[r].name][a] = "SUCCESS"}
    IN /\ Become(r, [NewRun(run[r].name) EXCEPT
                       !.pc = IF again THEN "queued" ELSE "failed",
                       !.tries = IF again THEN run[r].tries + 1 ELSE run[r].tries])
       /\ mishap' = mishap \union (IF run[r].pc # "end" /\ forgotten # {} THEN {"cut"} ELSE {})
                           \union (IF again THEN {} ELSE {"lost"})

(* The rebuilds could not be queued: FAILED, closeWithFailure.              *)
QueueFails(r) ==
    /\ run[r].pc = "queue" /\ run[r].affected # {}
    /\ Fault
    /\ SetJob(r, "FAILED")
    /\ PoolRetry(r)
    /\ UNCHANGED <<tables, status, req>>

(* errorCount > 0.                                                          *)
FinishFailed(r) ==
    /\ run[r].pc = "end" /\ run[r].errs > 0
    /\ SetJob(r, "FAILED")
    /\ PoolRetry(r)
    /\ UNCHANGED <<tables, status, req, faults>>

(* A statement outside the account loop throws.                             *)
Throws(r) ==
    /\ run[r].pc \in {"queued", "read", "end"}
    /\ Fault
    /\ SetJob(r, "FAILED")
    /\ PoolRetry(r)
    /\ UNCHANGED <<tables, status, req>>

(* The function is killed at an await: nobody touches the Jobs row.         *)
Killed(r) ==
    /\ Open(r) /\ run[r].pc # "queued"
    /\ Fault
    /\ PoolRetry(r)
    /\ UNCHANGED <<tables, jobs, status, req>>

----------------------------------------------------------------------------
RequestStep(c) ==
    \/ RequestBonus(c)
    \/ ClearJob(c)
    \/ \E r \in Runs : SubmitBonus(c, r)
    \/ RequestSplit(c)
    \/ InsertSplit(c)
    \/ InsertFails(c)
    \/ QueueSplitRebuilds(c)
    \/ ReadRecords(c)
    \/ \E r \in Runs : SubmitRecompute(c, r)
    \/ RecomputeNotSubmitted(c)
    \/ RequestFails(c)

RunStep(r) ==
    \/ Start(r)
    \/ ReadSources(r)
    \/ BeginAccount(r)
    \/ CheckRow(r)
    \/ WriteRow(r)
    \/ WriteFails(r)
    \/ Mark(r)
    \/ ReadRecord(r)
    \/ InsertRecord(r)
    \/ RecordFails(r)
    \/ QueueRebuilds(r)
    \/ QueueFails(r)
    \/ Finish(r)
    \/ FinishFailed(r)
    \/ Throws(r)
    \/ Killed(r)

Next ==
    \/ \E c \in Requests : RequestStep(c)
    \/ PollStatus
    \/ \E r \in Runs : RunStep(r)

Spec == Init /\ [][Next]_vars

----------------------------------------------------------------------------
(* Properties.                                                              *)

Status == {"none", "PENDING", "COMPLETED", "FAILED", "ERROR"}
JobRow == [id : Nat \X Nat, status : Status]
Request == [pc : {"idle", "clear", "submit", "insert", "queue", "records", "recompute", "answered"},
            seen : JobRow, todo : Nat]
Run == [pc : {"absent", "queued", "read", "account", "check", "write", "update", "mark",
              "record", "newrecord", "queue", "end"} \union Closed,
        name : JobNames, tries : 0 .. MaxRetries, left : Seq(Accounts), known : Nat,
        ok : BOOLEAN, affected : SUBSET Accounts, errs : Nat]
Mishaps == {"beside", "blind", "raced", "cut", "lost", "unrecorded", "unqueued"}

(* The state has its type.                                                  *)
TypeOK ==
    /\ splits \in Nat
    /\ bonus \in [Accounts -> Seq(Nat)]
    /\ record \in Nat
    /\ behind \subseteq Accounts
    /\ jobs \in JobRow
    /\ status \in [JobNames -> [Accounts -> {"none", "RUNNING", "SUCCESS", "FAILED"}]]
    /\ req \in [Requests -> Request]
    /\ run \in [Runs -> Run]
    /\ faults \in 0 .. MaxFaults
    /\ mishap \subseteq Mishaps

Free(S) == mishap \intersect S = {}

(* A holder gets the bonus once, however often the request is repeated and  *)
(* the job is killed and run again: only two jobs side by side, or a failed *)
(* look for the row, can write it twice.                                    *)
BonusOnce ==
    Free({"beside", "blind"}) => \A a \in Accounts : Len(bonus[a]) <= 1

(* COMPLETED in the Jobs row of the bonus means that every account with a   *)
(* share of it before and after the split has it, whatever failed, was      *)
(* killed, overlapped or was skipped before.                                *)
CompletedMeansBonus ==
    jobs.status = "COMPLETED" => \A a \in Always : bonus[a] # <<>>

(* When all is quiet, every account whose bonus or split changed has a      *)
(* rebuild queued after the change, unless a job or request was cut between *)
(* its SUCCESS marks (or the Split row) and the queueing, or was given up, or   *)
(* two jobs ran side by side (one marks what the other, killed, wrote).  An *)
(* account whose share the split takes or gives may be passed over by the   *)
(* retry of a job that the split came in on.                                *)
NobodyLeftBehind ==
    Quiet /\ Free({"cut", "lost", "beside"}) => behind \subseteq (IF Free({"raced"}) THEN {} ELSE Swayed)

(* When all is quiet, no Bonus row is sized on the holding before a split:  *)
(* a split finds the bonuses applied before it and has them resized, unless *)
(* it came while a bonus job was open, or Bonus_Record or a submit failed.  *)
(* The row of an account that the split leaves without a share is not       *)
(* looked at again, and keeps its size.                                     *)
SharesFresh ==
    Quiet /\ Free({"raced", "cut", "lost", "unrecorded", "unqueued", "blind"})
        => \A a \in SplitHolders : \A n \in DOMAIN bonus[a] : bonus[a][n] = splits
=============================================================================
