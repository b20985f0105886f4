----------------------------- MODULE CashAppend -----------------------------
(***************************************************************************)
(* functions/Cal_CB_Append_TxnUpload/index.js: after an import, append its *)
(* cash transactions to the passbooks (Cash_Balance_Per_Transaction).      *)
(*                                                                         *)
(* A job walks the accounts the import touched in code order (its cursor), *)
(* and for each deletes the cash rows created since the import started,    *)
(* reads the import's transactions, and inserts one row per transaction    *)
(* with the next Sequence and a running Cash_Balance.  Every ZCQL          *)
(* statement is a step of its own: there are no transactions, and other    *)
(* jobs run between any two of them.                                       *)
(***************************************************************************)
EXTENDS Integers, FiniteSets

CONSTANTS
    NumAccounts,    \* accounts are 1..NumAccounts in WS_Account_code order
    Txns,           \* cash transactions [acct, import, amt, opening, rank];
                    \* rank is the place sortCashEvents gives it
    NumImports,     \* uploads
    Slack,          \* the 15 s createdTimeFloorFromMs subtracts
    MaxTime,        \* bound of the clock
    MaxRuns,        \* jobs the pool can be given
    MaxRetries,     \* pool retries of one job
    MaxHandoffs,    \* runs that run out of time
    MaxFaults,      \* statements that fail inside an account, and runs that
                    \* throw outside of one or are killed
    PageSize,       \* ACCOUNT_PAGE_SIZE
    DeleteCap       \* rows one DELETE removes at most

Accounts == 1 .. NumAccounts
Imports == 1 .. NumImports
Runs == 1 .. MaxRuns

ASSUME TxnsAssumption ==
    /\ IsFiniteSet(Txns)
    /\ Txns \subseteq [acct: Accounts, import: Imports, amt: Int, opening: BOOLEAN, rank: Nat]
    /\ \A t, u \in Txns : t.rank = u.rank => t = u
ASSUME CashBoundsAssumption ==
    /\ {NumAccounts, NumImports, Slack, MaxTime, MaxRetries, MaxHandoffs, MaxFaults, MaxRuns} \subseteq Nat
    /\ {PageSize, DeleteCap} \subseteq Nat \ {0}

VARIABLES
    now,        \* CREATEDTIME of what is written next
    startedAt,  \* importStartedAtMs of each upload, 0 before it
    created,    \* CREATEDTIME of each Transaction row, 0 when it is not there
    book,       \* Cash_Balance_Per_Transaction: the rows of each account
    run,        \* the Cal_CB_Append_TxnUpload jobs
    faults,
    overlap,    \* history: an upload started before the rows of the ones
                \* before it were posted and older than its floor
    crossed     \* history: accounts a row was inserted into while another
                \* job was between its COUNT and its last INSERT there

vars == <<now, startedAt, created, book, run, faults, overlap, crossed>>

Row == [txn: Txns, seq: Nat, bal: Int, at: Nat]

(* params: imp, from.  Memory: cursor, page (accounts still to do, lowest  *)
(* first), full (the page had PageSize accounts), todo (events still to     *)
(* insert, in order of rank), bal, seq, opened (usedOpeningCsPlus), failed  *)
(* (counters.errors > 0).                                                   *)
NewRun(i, c) ==
    [pc |-> "queued", imp |-> i, from |-> c, cursor |-> c, page |-> {}, full |-> FALSE,
     todo |-> {}, bal |-> 0, seq |-> 0, opened |-> FALSE, failed |-> FALSE, tries |-> 0]

NoRun == [NewRun(1, 0) EXCEPT !.pc = "absent"]

Init ==
    /\ now = 1
    /\ startedAt = [i \in Imports |-> 0]
    /\ created = [t \in Txns |-> 0]
    /\ book = [a \in Accounts |-> {}]
    /\ run = [r \in Runs |-> NoRun]
    /\ faults = 0
    /\ overlap = FALSE
    /\ crossed = {}

Closed == {"absent", "done", "passed", "failed"}
Active(r) == run[r].pc \notin Closed
NextRun(r) == run[r].pc = "absent" /\ \A k \in Runs : k < r => run[k].pc # "absent"

Floor(i) == startedAt[i] - Slack
Since(i) == {t \in Txns : created[t] # 0 /\ created[t] >= Floor(i)}

----------------------------------------------------------------------------
(* The world around the job: time, uploads and the bulk write.              *)

Tick ==
    /\ now < MaxTime
    /\ now' = now + 1
    /\ UNCHANGED <<startedAt, created, book, run, faults, overlap, crossed>>

(* Nothing the earlier uploads write is at or after a floor taken now: no   *)
(* job runs, their transactions are in, and every row is older.             *)
Apart(i) ==
    /\ \A r \in Runs : ~Active(r)
    /\ \A t \in Txns : t.import < i => created[t] # 0 /\ created[t] + Slack < now
    /\ \A a \in Accounts : \A w \in book[a] : w.at + Slack < now

(* uploadTempTransaction takes importStartedAtMs; it looks at no job that   *)
(* an earlier upload may have running.                                      *)
StartImport(i) ==
    /\ startedAt[i] = 0
    /\ \A k \in Imports : k < i => startedAt[k] # 0
    /\ startedAt' = [startedAt EXCEPT ![i] = now]
    /\ overlap' = (overlap \/ ~Apart(i))
    /\ UNCHANGED <<now, created, book, run, faults, crossed>>

(* The bulk write inserts the Transaction rows and the pipeline queues the  *)
(* cash job with lastAccount = "".                                          *)
ImportLands(i, r) ==
    /\ startedAt[i] # 0
    /\ \A t \in Txns : t.import = i => created[t] = 0
    /\ \E t \in Txns : t.import = i
    /\ NextRun(r)
    /\ created' = [t \in Txns |-> IF t.import = i THEN now ELSE created[t]]
    /\ run' = [run EXCEPT ![r] = NewRun(i, 0)]
    /\ UNCHANGED <<now, startedAt, book, faults, overlap, crossed>>

----------------------------------------------------------------------------
(* The job.                                                                 *)

Become(r, rec) == run' = [run EXCEPT ![r] = rec]

Start(r) ==
    /\ run[r].pc = "queued"
    /\ Become(r, [NewRun(run[r].imp, run[r].from) EXCEPT !.pc = "page", !.tries = run[r].tries])
    /\ UNCHANGED <<now, startedAt, created, book, faults, overlap, crossed>>

(* fetchNextAccountsPage: the next accounts after the cursor.               *)
NextPage(i, c) ==
    LET accts == {a \in Accounts : a > c /\ \E t \in Since(i) : t.acct = a}
    IN {a \in accts : Cardinality({b \in accts : b < a}) < PageSize}

(* The account a job is at, and the event it inserts next.                  *)
Here(r) == CHOOSE a \in run[r].page : \A b \in run[r].page : a <= b
NextEvent(r) == CHOOSE t \in run[r].todo : \A u \in run[r].todo : t.rank <= u.rank

FetchPage(r) ==
    /\ run[r].pc = "page"
    /\ LET page == NextPage(run[r].imp, run[r].cursor)
       IN Become(r, [run[r] EXCEPT !.page = page,
                                   !.full = (Cardinality(page) >= PageSize),
                                   !.pc = IF page = {} THEN "end" ELSE "delete"])
    /\ UNCHANGED <<now, startedAt, created, book, faults, overlap, crossed>>

(* Mutant of SinceRows: the DELETE takes the upload's start without slack.  *)
RowsSinceStart(r) == {w \in book[Here(r)] : w.at >= startedAt[run[r].imp]}

SinceRows(r) == {w \in book[Here(r)] : w.at >= Floor(run[r].imp)}

(* Mutant of CountRows: a retry appends to what the crashed run wrote.      *)
CountSkipped(r) ==
    /\ run[r].pc = "delete"
    /\ Become(r, [run[r] EXCEPT !.pc = "fetch"])
    /\ UNCHANGED <<now, startedAt, created, book, faults, overlap, crossed>>

(* deleteThisImportCashRowsForAccount: COUNT the rows created since the     *)
(* floor, whichever upload wrote them ...                                   *)
CountRows(r) ==
    /\ run[r].pc = "delete"
    /\ Become(r, [run[r] EXCEPT !.pc = IF SinceRows(r) = {} THEN "fetch" ELSE "remove"])
    /\ UNCHANGED <<now, startedAt, created, book, faults, overlap, crossed>>

(* ... and while there are any, a capped DELETE and the COUNT again.  That  *)
(* more than DELETE_LOOP_MAX_ROUNDS of them throw is one of the errors of   *)
(* AccountFails.                                                            *)
DeleteRound(r) ==
    /\ run[r].pc = "remove"
    /\ \E gone \in SUBSET SinceRows(r) :
          /\ Cardinality(gone) <= DeleteCap
          /\ gone = {} => SinceRows(r) = {}
          /\ book' = [book EXCEPT ![Here(r)] = @ \ gone]
    /\ Become(r, [run[r] EXCEPT !.pc = "delete"])
    /\ UNCHANGED <<now, startedAt, created, faults, overlap, crossed>>

(* fetchNewTransactionEventsSinceImport and sortCashEvents.                 *)
FetchEvents(r) ==
    /\ run[r].pc = "fetch"
    /\ LET mine == {t \in Since(run[r].imp) : t.acct = Here(r)}
       IN Become(r, [run[r] EXCEPT
                       !.todo = mine,
                       !.pc = IF mine = {} THEN "next" ELSE "tail"])
    /\ UNCHANGED <<now, startedAt, created, book, faults, overlap, crossed>>

(* getPassbookTail: a row with the highest Sequence, if there is one.       *)
ReadTail(r) ==
    /\ run[r].pc = "tail"
    /\ LET rows == book[Here(r)]
       IN IF rows = {}
          THEN Become(r, [run[r] EXCEPT !.bal = 0, !.seq = 0, !.opened = FALSE, !.pc = "insert"])
          ELSE \E w \in rows :
                  /\ \A v \in rows : v.seq <= w.seq
                  /\ Become(r, [run[r] EXCEPT !.bal = w.bal, !.seq = w.seq,
                                              !.opened = (w.seq > 0), !.pc = "insert"])
    /\ UNCHANGED <<now, startedAt, created, book, faults, overlap, crossed>>

(* The running balance: the first CS+ of an empty passbook opens it.        *)
NewBalance(bal, opened, t) == IF ~opened /\ t.opening THEN t.amt ELSE bal + t.amt

(* The row of the next event, written after those read or written before.   *)
NextRow(r) ==
    LET t == NextEvent(r)
    IN [txn |-> t, seq |-> run[r].seq + 1,
        bal |-> NewBalance(run[r].bal, run[r].opened, t), at |-> now]

(* Another job is at the account, behind its COUNT.                         *)
Beside(r, k) == k # r /\ run[k].pc \in {"fetch", "tail", "insert"} /\ Here(k) = Here(r)

WriteRow(r) ==
    /\ book' = [book EXCEPT ![Here(r)] = @ \union {NextRow(r)}]
    /\ crossed' = crossed \union (IF \E k \in Runs : Beside(r, k) THEN {Here(r)} ELSE {})

(* One round of insertPassbookEvents.                                       *)
InsertEvent(r) ==
    /\ run[r].pc = "insert"
    /\ WriteRow(r)
    /\ LET t == NextEvent(r)
           rest == run[r].todo \ {t}
       IN Become(r, [run[r] EXCEPT !.bal = NextRow(r).bal, !.seq = @ + 1,
                                   !.opened = @ \/ t.opening, !.todo = rest,
                                   !.pc = IF rest = {} THEN "next" ELSE "insert"])
    /\ UNCHANGED <<now, startedAt, created, faults, overlap>>

(* A statement of the account throws: counted, and the walk goes on.        *)
GiveUp(r) ==
    /\ faults < MaxFaults
    /\ faults' = faults + 1
    /\ Become(r, [run[r] EXCEPT !.failed = TRUE, !.todo = {}, !.pc = "next"])

AccountFails(r) ==
    /\ run[r].pc \in {"delete", "remove", "fetch", "tail", "insert"}
    /\ GiveUp(r)
    /\ UNCHANGED <<now, startedAt, created, book, overlap, crossed>>

(* The INSERT is applied, but its answer is an error.                       *)
InsertThrows(r) ==
    /\ run[r].pc = "insert"
    /\ WriteRow(r)
    /\ GiveUp(r)
    /\ UNCHANGED <<now, startedAt, created, overlap>>

Handoffs == Cardinality({k \in Runs : run[k].from > 0 \/ run[k].pc = "handoff"})

(* Mutant of Advance: the cursor only moves when the run hands over, so a   *)
(* full page is fetched again and again.                                    *)
AdvanceOnHandoff(r) ==
    /\ run[r].pc = "next"
    /\ LET a == Here(r)
           rest == run[r].page \ {a}
       IN \E outOfTime \in BOOLEAN :
            /\ outOfTime => Handoffs < MaxHandoffs
            /\ Become(r, [run[r] EXCEPT
                 !.cursor = IF outOfTime THEN a ELSE @, !.page = rest,
                 !.pc = CASE outOfTime -> "handoff"
                          [] ~outOfTime /\ rest # {} -> "delete"
                          [] OTHER -> IF run[r].full THEN "page" ELSE "end"])
    /\ UNCHANGED <<now, startedAt, created, book, faults, overlap, crossed>>

(* The cursor moves past the account; then the time budget is looked at.    *)
Advance(r) ==
    /\ run[r].pc = "next"
    /\ LET a == Here(r)
           rest == run[r].page \ {a}
       IN \E outOfTime \in BOOLEAN :
            /\ outOfTime => Handoffs < MaxHandoffs
            /\ Become(r, [run[r] EXCEPT
                 !.cursor = a, !.page = rest,
                 !.pc = CASE outOfTime -> "handoff"
                          [] ~outOfTime /\ rest # {} -> "delete"
                          [] OTHER -> IF run[r].full THEN "page" ELSE "end"])
    /\ UNCHANGED <<now, startedAt, created, book, faults, overlap, crossed>>

(* retriggerSelf, then closeWithSuccess.                                    *)
Retrigger(r, k) ==
    /\ run[r].pc = "handoff"
    /\ NextRun(k)
    /\ run' = [run EXCEPT ![k] = NewRun(run[r].imp, run[r].cursor), ![r].pc = "passing"]
    /\ UNCHANGED <<now, startedAt, created, book, faults, overlap, crossed>>

ClosePassed(r) ==
    /\ run[r].pc = "passing"
    /\ Become(r, [run[r] EXCEPT !.pc = "passed"])
    /\ UNCHANGED <<now, startedAt, created, book, faults, overlap, crossed>>

CloseDone(r) ==
    /\ run[r].pc = "end"
    /\ ~run[r].failed
    /\ Become(r, [run[r] EXCEPT !.pc = "done"])
    /\ UNCHANGED <<now, startedAt, created, book, faults, overlap, crossed>>

(* closeWithFailure, a throw or a killed function: the pool runs the job    *)
(* again with the same parameters while it has retries left.                *)
PoolRetry(r) ==
    /\ Become(r, [NewRun(run[r].imp, run[r].from) EXCEPT
                    !.pc = IF run[r].tries < MaxRetries THEN "queued" ELSE "failed",
                    !.tries = IF run[r].tries < MaxRetries THEN run[r].tries + 1 ELSE run[r].tries])
    /\ UNCHANGED <<now, startedAt, created, book, overlap, crossed>>

CloseFailed(r) ==
    /\ run[r].pc = "end"
    /\ run[r].failed
    /\ PoolRetry(r)
    /\ UNCHANGED faults

Abort(r) ==
    /\ run[r].pc \notin Closed \union {"queued"}
    /\ faults < MaxFaults
    /\ faults' = faults + 1
    /\ PoolRetry(r)

----------------------------------------------------------------------------
RunStep(r) ==
    \/ Start(r)
    \/ FetchPage(r)
    \/ CountRows(r)
    \/ DeleteRound(r)
    \/ FetchEvents(r)
    \/ ReadTail(r)
    \/ InsertEvent(r)
    \/ AccountFails(r)
    \/ InsertThrows(r)
    \/ Advance(r)
    \/ \E k \in Runs : Retrigger(r, k)
    \/ ClosePassed(r)
    \/ CloseDone(r)
    \/ CloseFailed(r)
    \/ Abort(r)

Next ==
    \/ Tick
    \/ \E i \in Imports : StartImport(i)
    \/ \E i \in Imports, r \in Runs : ImportLands(i, r)
    \/ \E r \in Runs : RunStep(r)

Spec == Init /\ [][Next]_vars

(* A queued job is started, a started one takes its next step; nothing is   *)
(* assumed of the uploads, of failing statements or of crashes.             *)
FairSpec ==
    /\ Spec
    /\ \A r \in Runs :
          WF_vars(\/ Start(r) \/ FetchPage(r) \/ CountRows(r) \/ DeleteRound(r) \/ FetchEvents(r)
                  \/ ReadTail(r) \/ InsertEvent(r) \/ Advance(r)
                  \/ (\E k \in Runs : Retrigger(r, k))
                  \/ ClosePassed(r) \/ CloseDone(r) \/ CloseFailed(r))

----------------------------------------------------------------------------
(* Properties.                                                              *)

(* The state has its type.                                                  *)
TypeOK ==
    /\ now \in 1 .. MaxTime
    /\ startedAt \in [Imports -> 0 .. MaxTime]
    /\ created \in [Txns -> 0 .. MaxTime]
    /\ \A a \in Accounts : book[a] \subseteq Row
    /\ \A r \in Runs :
          /\ run[r].pc \in {"queued", "page", "delete", "remove", "fetch", "tail", "insert", "next",
                            "handoff", "passing", "end"} \union Closed
          /\ run[r].imp \in Imports
          /\ {run[r].from, run[r].cursor} \subseteq Accounts \union {0}
          /\ run[r].page \subseteq Accounts
          /\ run[r].todo \subseteq Txns
          /\ run[r].tries \in 0 .. MaxRetries
    /\ faults \in 0 .. MaxFaults

(* Every job of upload i reported success.                                  *)
Reported(i) ==
    /\ \E r \in Runs : run[r].pc = "done" /\ run[r].imp = i
    /\ \A r \in Runs : run[r].imp = i => run[r].pc \in {"absent", "done", "passed"}

(* The walk of upload i was one chain: no account failed before a handoff   *)
(* and no run was retried after it had handed over.                         *)
OneChain(i) ==
    LET mine == {r \in Runs : run[r].imp = i /\ run[r].pc # "absent"}
    IN /\ \A r \in mine : run[r].pc = "passed" => ~run[r].failed
       /\ Cardinality({r \in mine : run[r].pc = "passed"})
            = Cardinality({r \in mine : run[r].from > 0})

Owed(a) == {t \in Txns : t.acct = a /\ created[t] # 0}
Earlier(t, u) == t.import < u.import \/ (t.import = u.import /\ t.rank < u.rank)

(* The passbook the transactions of an account add up to: one row each, by  *)
(* upload and then by date, numbered from 1, each balance continuing the    *)
(* one before it.                                                           *)
Exact(a) ==
    LET prior(t) == {u \in Owed(a) : Earlier(u, t)}
        Pred(w) == {v \in book[a] : v.seq = w.seq - 1}
    IN /\ {w.txn : w \in book[a]} = Owed(a)
       /\ Cardinality(book[a]) = Cardinality(Owed(a))
       /\ \A w \in book[a] :
             /\ w.seq = Cardinality(prior(w.txn)) + 1
             /\ LET opened == \E u \in prior(w.txn) : u.opening \/ u.import < w.txn.import
                    before == IF w.seq = 1 THEN 0 ELSE (CHOOSE v \in Pred(w) : TRUE).bal
                IN w.bal = NewBalance(before, opened, w.txn)

(* When no upload started into the rows of an earlier one and every job of  *)
(* every upload reports success after one chain of runs, the passbooks are  *)
(* exact: nothing missing, nothing twice, no gap in Sequence, no broken     *)
(* balance, whatever crashed, failed or was retried.                        *)
PassbookExact ==
    ~overlap /\ (\A i \in Imports : startedAt[i] # 0 => Reported(i) /\ OneChain(i))
        => \A a \in Accounts : Exact(a)

(* However the uploads overlap, a transaction has at most one passbook row: *)
(* a job posts again what an earlier one posted only after it deleted it.   *)
(* Only two jobs at one account at once can write a row twice.              *)
PostedOnce ==
    \A a \in Accounts \ crossed : \A v, w \in book[a] : v.txn = w.txn => v = w

(* A walk ends: every job that was queued is closed in the end.             *)
WalkEnds == \A r \in Runs : run[r].pc = "queued" ~> ~Active(r)
============================================================================
