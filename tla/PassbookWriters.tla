--------------------------- MODULE PassbookWriters ---------------------------
(***************************************************************************)
(* The three writers of a cash passbook (Cash_Balance_Per_Transaction).    *)
(*                                                                         *)
(* UpdateDividendData (div) credits a dividend at its place by date: it    *)
(* moves every later row one Sequence on and adds the amount to its        *)
(* balance, one UPDATE each, then inserts, and moves the rows back if that *)
(* fails.  Cal_CB_Per_TNX (rebuild) deletes a passbook and inserts it      *)
(* again from the transactions.  Cal_CB_Append_TxnUpload (append) deletes  *)
(* what was created since its upload began and appends the upload's rows   *)
(* after the highest Sequence; its paging and baton are in CashAppend.     *)
(*                                                                         *)
(* DividendUploader shows a reconciliation, checks, and submits the job.   *)
(* The CS+ row that opens a passbook is the subject of CashAppend.         *)
(***************************************************************************)
EXTENDS Integers, FiniteSets

CONSTANTS
    NumAccounts,    \* accounts are 1 .. NumAccounts
    Trades,         \* cash transactions [import, acct, date, amt, rank]
    NumImports,     \* uploads; import 0 is what the passbooks start with
    Opening,        \* those passbooks: the rows of each account
    NumDividends,
    RecordDate,     \* of each dividend
    Amount,         \* what each dividend pays each account, 0: it holds nothing
    File,           \* what the custodian says of it, 0: not in the file
    NumRequests,
    MaxJobs,
    RebuildOf,      \* the accounts a rebuild is asked for, of accountCodesJson
    MaxOpen,        \* jobs at work side by side
    MaxTries,       \* pool retries of an append
    MaxSpent,       \* statements that fail, kills, rebuilds and repeated requests
    ChunkDays,      \* length of a chunk of the rebuild
    LastDay

Accounts == 1 .. NumAccounts
Dividends == 1 .. NumDividends
Requests == 1 .. NumRequests
Jobs == 1 .. MaxJobs

ASSUME PassbookAssumption ==
    /\ {NumAccounts, NumImports, NumDividends, NumRequests, MaxJobs, MaxTries, MaxSpent} \subseteq Nat
    /\ {ChunkDays, LastDay, MaxOpen} \subseteq Nat \ {0}
    /\ IsFiniteSet(Trades)
    /\ RebuildOf \in (SUBSET Accounts) \ {{}}
    /\ Trades \subseteq [import : 0 .. NumImports, acct : Accounts, date : 1 .. LastDay, amt : Int, rank : Nat]
    /\ \A t, u \in Trades : t.rank = u.rank => t = u
    /\ RecordDate \in [Dividends -> 1 .. LastDay]
    /\ {Amount, File} \subseteq [Dividends -> [Accounts -> Nat]]

(* Sequence numbers without gap or tie; every balance is the one before     *)
(* plus the row's amount.                                                   *)
AddsUp(rows) ==
    /\ {w.seq : w \in rows} = 1 .. Cardinality(rows)
    /\ \A v, w \in rows : w.seq = v.seq + 1 => w.bal = v.bal + w.amt
    /\ \A w \in rows : w.seq = 1 => w.bal = w.amt

(* The passbooks to start with have the trades of import 0, each once.      *)
ASSUME OpeningAssumption ==
    \A a \in Accounts :
       LET trades == {t \in Trades : t.import = 0 /\ t.acct = a}
       IN /\ IsFiniteSet(Opening[a]) /\ AddsUp(Opening[a])
          /\ \A t \in trades : \E w \in Opening[a] : w.of = t.rank
          /\ \A w \in Opening[a] : \E t \in trades :
                /\ w = [kind |-> "txn", of |-> t.rank, date |-> t.date, amt |-> t.amt,
                        seq |-> w.seq, bal |-> w.bal, by |-> 0, epoch |-> 0]
                /\ w.seq \in Nat /\ w.bal \in Int
          /\ \A v, w \in Opening[a] : v.of = w.of \/ v.seq = w.seq => v = w

VARIABLES
    begun,      \* uploads that have taken their importStartedAtMs
    landed,     \* uploads whose rows are in Transaction
    book,       \* the passbook rows of each account
    master,     \* dividends with a Dividend row
    records,    \* Dividend_Record rows
    jobsRow,    \* Jobs.status of each dividend's jobName
    req,        \* requests of DividendUploader
    job,        \* the jobs
    spent,
    mishap,     \* history: what may have upset a passbook since its rebuild
    accident,   \* history: what went wrong with a dividend
    payer,      \* history: accounts the job that wrote the master row had to pay
    credited    \* history: <<dividend, account>> with a cash row, till a rebuild

vars == <<begun, landed, book, master, records, jobsRow, req, job, spent, mishap, accident, payer, credited>>
divVars == <<master, records, jobsRow, accident, payer>>

(* A passbook row: of is the rank of a trade or the dividend, by the job    *)
(* that inserted it, epoch how many uploads had begun (its CREATEDTIME).    *)
Row(kind, of, date, amt, seq, bal, by) ==
    [kind |-> kind, of |-> of, date |-> date, amt |-> amt, seq |-> seq, bal |-> bal, by |-> by, epoch |-> begun]

(* Memory of a job.  div: filter, undo (rows moved); rebuild: chunk.  seq   *)
(* and bal are the last row's; moves the rows to move; todo trades.         *)
NewJob(type, of, filter) ==
    [type |-> type, of |-> of, filter |-> filter, pc |-> "queued", tries |-> 0, accts |-> {},
     seq |-> 0, bal |-> 0, moves |-> {}, undo |-> {}, todo |-> {}, chunk |-> 0, errs |-> 0]

Init ==
    /\ begun = 0
    /\ landed = 0
    /\ book = [a \in Accounts |-> Opening[a]]
    /\ master = {}
    /\ records = {}
    /\ jobsRow = [d \in Dividends |-> "none"]
    /\ req = [q \in Requests |-> [pc |-> "idle", div |-> 1, filter |-> {}]]
    /\ job = [k \in Jobs |-> [NewJob("div", 0, {}) EXCEPT !.pc = "absent"]]
    /\ spent = 0
    /\ mishap = [a \in Accounts |-> {}]
    /\ accident = [d \in Dividends |-> {}]
    /\ payer = [d \in Dividends |-> {}]
    /\ credited = {}

Open(k) == job[k].pc \notin {"absent", "done", "failed"}
AtWork(k) == Open(k) /\ job[k].pc # "queued"
NextJob(k) == job[k].pc = "absent" /\ \A j \in Jobs : j < k => job[j].pc # "absent"
Spend == spent < MaxSpent /\ spent' = spent + 1

(* The account a job is at: they are walked in order.                       *)
Lowest(S) == CHOOSE a \in S : \A b \in S : a <= b
Here(k) == Lowest(job[k].accts)

(* Job record r is between its first look at a passbook and its last write. *)
Writing(r, a) ==
    /\ r.accts # {} /\ Lowest(r.accts) = a
    /\ r.pc \in {"prior", "move", "credit", "undo", "delete", "chunk", "fetch", "tail", "insert"}

(* Job k becomes rec; what upsets says of passbooks is noted, and whether   *)
(* two jobs are now writing one.                                            *)
Become(k, rec, upset) ==
    LET next == [job EXCEPT ![k] = rec]
        Together(a) == Cardinality({j \in Jobs : Writing(next[j], a)}) > 1
    IN /\ job' = next
       /\ mishap' = [a \in Accounts |-> upset[a] \union (IF Together(a) THEN {"together"} ELSE {})]

Upset(a, what) == [mishap EXCEPT ![a] = @ \union {what}]
Go(k, rec) == Become(k, rec, mishap)
NextAccount(rec) ==
    LET rest == rec.accts \ {Lowest(rec.accts)}
    IN [rec EXCEPT !.accts = rest, !.moves = {}, !.undo = {}, !.todo = {}, !.seq = 0, !.bal = 0, !.chunk = 0,
                   !.pc = IF rest = {} THEN "end" ELSE IF rec.type = "div" THEN "record" ELSE "delete"]

----------------------------------------------------------------------------
(* DividendUploader.                                                        *)

Received(d, a) == Cardinality({r \in records : r.div = d /\ r.acct = a}) * Amount[d][a]

(* computeStatus of a row of the reconciliation.                            *)
Status(d, a) ==
    CASE File[d][a] = 0 /\ Amount[d][a] # 0 -> "missing_in_file"
      [] File[d][a] # 0 /\ Amount[d][a] = 0 -> "missing_in_system"
      [] Received(d, a) > 0 /\ File[d][a] # 0 ->
            IF Received(d, a) > File[d][a] THEN "overpaid"
            ELSE IF Received(d, a) < File[d][a] THEN "partial" ELSE "already_paid"
      [] File[d][a] # Amount[d][a] -> "mismatch"
      [] OTHER -> "ready"

(* The preview, and what the page will ask to apply: matched only, all      *)
(* reconciled, or no allow-list.                                            *)
Preview(q) ==
    /\ req[q].pc = "idle"
    /\ \A p \in Requests : p < q => req[p].pc # "idle"
    /\ IF q = 1 THEN UNCHANGED spent ELSE Spend
    /\ \E d \in Dividends :
          LET Shown(S) == {a \in Accounts : Amount[d][a] + File[d][a] > 0 /\ Status(d, a) \in S}
          IN \E filter \in {Shown({"ready"}),
                            Shown({"ready", "mismatch", "partial", "overpaid", "missing_in_file"}),
                            Accounts} \ {{}} :
                req' = [req EXCEPT ![q] = [pc |-> "shown", div |-> d, filter |-> filter]]
    /\ UNCHANGED <<begun, landed, book, divVars, job, mishap, credited>>

Answer(q, pc) == req' = [req EXCEPT ![q].pc = pc]

(* applyStockDividendMaster: no second master row for ISIN and RecordDate.  *)
CheckMaster(q) ==
    /\ req[q].pc = "shown"
    /\ Answer(q, IF req[q].div \in master THEN "rejected" ELSE "checked")
    /\ UNCHANGED <<begun, landed, book, divVars, job, spent, mishap, credited>>

(* PENDING for more than an hour, four times what a function may run.       *)
Stale(d) == \A k \in Jobs : AtWork(k) => ~(job[k].type = "div" /\ job[k].of = d)

(* A PENDING row that is not stale ends the request; another is deleted,    *)
(* and the job submitted, without a job_config: the pool does not retry it. *)
Submit(q, k) ==
    /\ req[q].pc = "checked" /\ NextJob(k)
    /\ LET d == req[q].div
       IN \/ /\ jobsRow[d] = "PENDING"
             /\ Answer(q, "underway") /\ UNCHANGED <<jobsRow, job, mishap>>
          \/ /\ jobsRow[d] = "PENDING" => Stale(d)
             /\ Answer(q, "submitted") /\ jobsRow' = [jobsRow EXCEPT ![d] = "none"]
             /\ Go(k, NewJob("div", d, req[q].filter))
    /\ UNCHANGED <<begun, landed, book, master, records, accident, payer, spent, credited>>

(* getDividendApplyStatus writes ERROR over a stale PENDING row.            *)
PollStatus(d) ==
    /\ jobsRow[d] = "PENDING" /\ Stale(d)
    /\ jobsRow' = [jobsRow EXCEPT ![d] = "ERROR"]
    /\ UNCHANGED <<begun, landed, book, master, records, accident, payer, req, job, spent, mishap, credited>>

----------------------------------------------------------------------------
(* UpdateDividendData.                                                      *)

Div(k) == job[k].type = "div"
SetJob(k, st) == jobsRow' = [jobsRow EXCEPT ![job[k].of] = st]
MayStart(k) == job[k].pc = "queued" /\ Cardinality({j \in Jobs : AtWork(j)}) < MaxOpen

(* INSERT INTO Jobs PENDING; with a row of that name it may throw, which    *)
(* marks the row FAILED.                                                    *)
DivStart(k) ==
    /\ Div(k) /\ MayStart(k)
    /\ \/ SetJob(k, "PENDING") /\ Go(k, [job[k] EXCEPT !.pc = "master"])
       \/ jobsRow[job[k].of] # "none" /\ SetJob(k, "FAILED") /\ Go(k, [job[k] EXCEPT !.pc = "failed"])
    /\ UNCHANGED <<begun, landed, book, master, records, req, spent, accident, payer, credited>>

(* Mutant of DivMaster: the master row is not looked for.                   *)
DivMasterUnseen(k) ==
    /\ Div(k) /\ job[k].pc = "master"
    /\ Go(k, [job[k] EXCEPT !.pc = "apply"])
    /\ UNCHANGED <<begun, landed, book, master, records, jobsRow, req, spent, accident, payer, credited>>

(* A dividend that has a master row is COMPLETED, nobody is paid.  Two jobs *)
(* may both look before either has inserted it.                             *)
DivMaster(k) ==
    /\ Div(k) /\ job[k].pc = "master"
    /\ LET d == job[k].of
           both == \E j \in Jobs \ {k} : Div(j) /\ job[j].of = d /\ job[j].pc = "apply"
       IN IF d \in master
          THEN SetJob(k, "COMPLETED") /\ Go(k, [job[k] EXCEPT !.pc = "done"]) /\ UNCHANGED accident
          ELSE /\ Go(k, [job[k] EXCEPT !.pc = "apply"])
               /\ accident' = IF both THEN [accident EXCEPT ![d] = @ \union {"twice"}] ELSE accident
               /\ UNCHANGED jobsRow
    /\ UNCHANGED <<begun, landed, book, master, records, req, spent, payer, credited>>

Paid(k) == {a \in job[k].filter : Amount[job[k].of][a] > 0}

Miss(k) == accident' = [accident EXCEPT ![job[k].of] = @ \union {"missed"}]

MasterRow(k) ==
    LET d == job[k].of
    IN /\ master' = master \union {d}
       /\ payer' = [payer EXCEPT ![d] = IF d \in master THEN @ ELSE Paid(k)]

InsertMaster(k) ==
    /\ Div(k) /\ job[k].pc = "apply"
    /\ MasterRow(k)
    /\ Go(k, [job[k] EXCEPT !.accts = Paid(k),
                            !.pc = IF Paid(k) = {} THEN "end" ELSE "read"])
    /\ UNCHANGED <<begun, landed, book, records, jobsRow, req, spent, accident, credited>>

(* Then the accounts, their rows and, in memory, the FIFO holdings: who is  *)
(* filtered out or holds nothing is passed over.  Whom this leaves the      *)
(* constants say, so nobody to pay shows at the INSERT already.             *)
ReadAccounts(k) ==
    /\ job[k].pc = "read"
    /\ Go(k, [job[k] EXCEPT !.pc = "record"])
    /\ UNCHANGED <<begun, landed, book, divVars, req, spent, credited>>

(* One of these reads throws, or the INSERT after it took effect: FAILED,   *)
(* with the master row there and nobody paid.                               *)
MasterFails(k) ==
    /\ Div(k) /\ job[k].pc \in {"apply", "read"}
    /\ Spend /\ Miss(k)
    /\ MasterRow(k)
    /\ SetJob(k, "FAILED")
    /\ Go(k, [job[k] EXCEPT !.pc = "failed", !.accts = {}])
    /\ UNCHANGED <<begun, landed, book, records, req, credited>>

InsertRecord(k) ==
    /\ job[k].pc = "record"
    /\ records' = records \union {[div |-> job[k].of, acct |-> Here(k), by |-> k]}
    /\ Go(k, [job[k] EXCEPT !.pc = "dup"])
    /\ UNCHANGED <<begun, landed, book, master, jobsRow, req, spent, accident, payer, credited>>

(* The INSERT throws, perhaps after it took effect: insertErrors, and the   *)
(* next account.                                                            *)
RecordFails(k) ==
    /\ job[k].pc = "record"
    /\ Spend /\ Miss(k)
    /\ \/ UNCHANGED records
       \/ records' = records \union {[div |-> job[k].of, acct |-> Here(k), by |-> k]}
    /\ Go(k, NextAccount(job[k]))
    /\ UNCHANGED <<begun, landed, book, master, jobsRow, req, payer, credited>>

(* Mutant of CheckCash: the record is looked for, which is there by now.    *)
CheckCashByRecord(k) ==
    /\ job[k].pc = "dup"
    /\ IF \E r \in records : r.div = job[k].of /\ r.acct = Here(k)
       THEN Go(k, NextAccount(job[k]))
       ELSE Go(k, [job[k] EXCEPT !.pc = "prior"])
    /\ UNCHANGED <<begun, landed, book, divVars, req, spent, credited>>

(* An account that has the cash row is left alone.                          *)
CheckCash(k) ==
    /\ job[k].pc = "dup"
    /\ IF \E w \in book[Here(k)] : w.kind = "div" /\ w.of = job[k].of
       THEN Go(k, NextAccount(job[k]))
       ELSE Go(k, [job[k] EXCEPT !.pc = "prior"])
    /\ UNCHANGED <<begun, landed, book, divVars, req, spent, credited>>

(* priorRows, the highest Sequence among rows not later than the record     *)
(* date, and rowsToShift, every row after it.  Between the two SELECTs      *)
(* only another writer of the passbook can act.                             *)
Shift(k, prior, gap) ==
    LET later == {w \in book[Here(k)] : w.seq > prior.seq + gap}
    IN Go(k, [job[k] EXCEPT !.seq = prior.seq, !.bal = prior.bal,
                            !.moves = later,
                            !.pc = IF later = {} THEN "credit" ELSE "move"])

Priors(k) ==
    LET before == {w \in book[Here(k)] : w.date <= RecordDate[job[k].of]}
    IN IF before = {} THEN {[seq |-> 0, bal |-> 0]} ELSE {w \in before : \A v \in before : v.seq <= w.seq}

(* Mutant of Collect: the row after the dividend is not moved.              *)
CollectMissesOne(k) ==
    /\ job[k].pc = "prior"
    /\ \E prior \in Priors(k) : Shift(k, prior, 1)
    /\ UNCHANGED <<begun, landed, book, divVars, req, spent, credited>>

Collect(k) ==
    /\ job[k].pc = "prior"
    /\ \E prior \in Priors(k) : Shift(k, prior, 0)
    /\ UNCHANGED <<begun, landed, book, divVars, req, spent, credited>>

SameRow(v, w) == v.kind = w.kind /\ v.of = w.of /\ v.by = w.by

(* UPDATE of Sequence and Cash_Balance by ROWID; a row that is gone is not  *)
(* missed.                                                                  *)
Put(a, w, seq, bal) ==
    book' = [book EXCEPT ![a] = {IF SameRow(v, w) THEN [v EXCEPT !.seq = seq, !.bal = bal] ELSE v : v \in @}]

(* From the last one down.                                                  *)
MoveRow(k) ==
    /\ job[k].pc = "move"
    /\ \E w \in job[k].moves :
          LET rest == job[k].moves \ {w}
          IN /\ \A v \in rest : v.seq <= w.seq
             /\ Put(Here(k), w, w.seq + 1, w.bal + Amount[job[k].of][Here(k)])
             /\ Go(k, [job[k] EXCEPT !.moves = rest, !.undo = @ \union {w},
                                     !.pc = IF rest = {} THEN "credit" ELSE "move"])
    /\ UNCHANGED <<begun, landed, divVars, req, spent, credited>>

Credit(k) ==
    LET d == job[k].of
        a == Here(k)
    IN book' = [book EXCEPT ![a] = @ \union
                   {Row("div", d, RecordDate[d], Amount[d][a], job[k].seq + 1, job[k].bal + Amount[d][a], k)}]

InsertDividend(k) ==
    /\ job[k].pc = "credit"
    /\ Credit(k)
    /\ credited' = credited \union {<<job[k].of, Here(k)>>}
    /\ Go(k, NextAccount(job[k]))
    /\ UNCHANGED <<begun, landed, divVars, req, spent>>

(* A statement of the cash part throws, an INSERT perhaps after it took     *)
(* effect: the rows moved so far are moved back, cashErrors.                *)
CashFails(k) ==
    /\ Div(k) /\ job[k].pc \in {"dup", "prior", "move", "credit"}
    /\ Spend /\ Miss(k)
    /\ \E applied \in BOOLEAN :
          /\ applied => job[k].pc = "credit"
          /\ IF applied THEN Credit(k) ELSE UNCHANGED book
          /\ Become(k, IF job[k].undo = {} THEN NextAccount(job[k]) ELSE [job[k] EXCEPT !.pc = "undo"],
                    IF applied THEN Upset(Here(k), "ghost") ELSE mishap)
    /\ UNCHANGED <<begun, landed, master, records, jobsRow, req, payer, credited>>

(* The UPDATE of the next row to move throws after it took effect: that row *)
(* is not in shiftedSoFar.                                                  *)
MoveFails(k) ==
    /\ job[k].pc = "move"
    /\ Spend /\ Miss(k)
    /\ \E w \in job[k].moves :
          /\ \A v \in job[k].moves \ {w} : v.seq <= w.seq
          /\ Put(Here(k), w, w.seq + 1, w.bal + Amount[job[k].of][Here(k)])
    /\ Become(k, IF job[k].undo = {} THEN NextAccount(job[k]) ELSE [job[k] EXCEPT !.pc = "undo"],
              Upset(Here(k), "moved"))
    /\ UNCHANGED <<begun, landed, master, records, jobsRow, req, payer, credited>>

(* Lowest Sequence first; a row whose UPDATE fails stays moved.             *)
UndoRow(k) ==
    /\ job[k].pc = "undo"
    /\ \E w \in job[k].undo :
          LET rest == job[k].undo \ {w}
              next == IF rest = {} THEN NextAccount(job[k]) ELSE [job[k] EXCEPT !.undo = rest]
          IN /\ \A v \in rest : w.seq <= v.seq
             /\ \/ Put(Here(k), w, w.seq, w.bal) /\ Go(k, next) /\ UNCHANGED spent
                \/ Spend /\ UNCHANGED book /\ Become(k, next, Upset(Here(k), "moved"))
    /\ UNCHANGED <<begun, landed, divVars, req, credited>>

(* COMPLETED whatever was counted.                                          *)
DivFinish(k) ==
    /\ Div(k) /\ job[k].pc = "end"
    /\ SetJob(k, "COMPLETED")
    /\ Go(k, [job[k] EXCEPT !.pc = "done"])
    /\ UNCHANGED <<begun, landed, book, master, records, req, spent, accident, payer, credited>>

(* Another statement throws: FAILED.                                        *)
DivFails(k) ==
    /\ Div(k) /\ job[k].pc \in {"master", "apply", "end"}
    /\ Spend
    /\ SetJob(k, "FAILED")
    /\ Go(k, [job[k] EXCEPT !.pc = "failed"])
    /\ UNCHANGED <<begun, landed, book, master, records, req, accident, payer, credited>>

(* The function is killed; its row stays PENDING.                           *)
DivKilled(k) ==
    /\ Div(k) /\ AtWork(k)
    /\ Spend /\ Miss(k)
    /\ Become(k, [job[k] EXCEPT !.pc = "failed", !.accts = {}],
              IF job[k].undo # {} THEN Upset(Here(k), "moved") ELSE mishap)
    /\ UNCHANGED <<begun, landed, book, master, records, jobsRow, req, payer, credited>>

----------------------------------------------------------------------------
(* Cal_CB_Per_TNX; nothing in the repository submits it.                    *)

Rebuild(k) ==
    /\ NextJob(k)
    /\ Spend
    /\ Go(k, NewJob("rebuild", 0, RebuildOf))
    /\ UNCHANGED <<begun, landed, book, divVars, req, credited>>

WalkStart(k) ==
    /\ ~Div(k) /\ MayStart(k)
    /\ Go(k, [job[k] EXCEPT !.accts = job[k].filter,
                            !.pc = IF job[k].filter = {} THEN "end" ELSE "delete"])
    /\ UNCHANGED <<begun, landed, book, divVars, req, spent, credited>>

(* DELETE until COUNT is 0.  What was wrong with the passbook is gone with  *)
(* its rows.                                                                *)
RebuildDelete(k) ==
    /\ job[k].type = "rebuild" /\ job[k].pc = "delete"
    /\ book' = [book EXCEPT ![Here(k)] = {}]
    /\ credited' = {c \in credited : c[2] # Here(k)}
    /\ Become(k, [job[k] EXCEPT !.pc = "chunk", !.chunk = 1], [mishap EXCEPT ![Here(k)] = {}])
    /\ UNCHANGED <<begun, landed, divVars, req, spent>>

(* fetchChunkEvents and sortCashEvents of one period.                       *)
ReadChunk(k) ==
    /\ job[k].pc = "chunk"
    /\ LET from == (job[k].chunk - 1) * ChunkDays
           mine == {t \in Trades : t.import <= landed /\ t.acct = Here(k)
                                   /\ t.date > from /\ t.date <= from + ChunkDays}
           next == [job[k] EXCEPT !.chunk = @ + 1]
       IN Go(k, IF from >= LastDay THEN NextAccount(job[k])
                ELSE IF mine = {} THEN next
                ELSE [next EXCEPT !.todo = mine, !.pc = "insert"])
    /\ UNCHANGED <<begun, landed, book, divVars, req, spent, credited>>

----------------------------------------------------------------------------
(* Uploads and Cal_CB_Append_TxnUpload.                                     *)

StartImport ==
    /\ begun < NumImports /\ landed = begun
    /\ begun' = begun + 1
    /\ UNCHANGED <<landed, book, divVars, req, job, spent, mishap, credited>>

ImportLands(k) ==
    /\ landed < begun /\ NextJob(k)
    /\ landed' = begun
    /\ Go(k, NewJob("append", begun, {t.acct : t \in {u \in Trades : u.import = begun}}))
    /\ UNCHANGED <<begun, book, divVars, req, spent, credited>>

(* deleteThisImportCashRowsForAccount: rows created since the upload began, *)
(* whoever wrote them.                                                      *)
AppendDelete(k) ==
    /\ job[k].type = "append" /\ job[k].pc = "delete"
    /\ LET a == Here(k)
           since == {w \in book[a] : w.epoch >= job[k].of}
           others == {w \in since : w.by # k}
       IN /\ book' = [book EXCEPT ![a] = @ \ since]
          /\ credited' = credited \ {<<w.of, a>> : w \in {v \in since : v.kind = "div"}}
          /\ Become(k, [job[k] EXCEPT !.pc = "fetch"],
                    IF others # {} THEN Upset(a, "swept") ELSE mishap)
    /\ UNCHANGED <<begun, landed, divVars, req, spent>>

FetchEvents(k) ==
    /\ job[k].pc = "fetch"
    /\ LET mine == {t \in Trades : t.import \in job[k].of .. landed /\ t.acct = Here(k)}
       IN Go(k, IF mine = {} THEN NextAccount(job[k]) ELSE [job[k] EXCEPT !.todo = mine, !.pc = "tail"])
    /\ UNCHANGED <<begun, landed, book, divVars, req, spent, credited>>

ReadTail(k) ==
    /\ job[k].pc = "tail"
    /\ LET rows == book[Here(k)]
       IN IF rows = {}
          THEN Go(k, [job[k] EXCEPT !.pc = "insert"])
          ELSE \E w \in rows :
                  /\ \A v \in rows : v.seq <= w.seq
                  /\ Go(k, [job[k] EXCEPT !.seq = w.seq, !.bal = w.bal, !.pc = "insert"])
    /\ UNCHANGED <<begun, landed, book, divVars, req, spent, credited>>

(* sortCashEvents.                                                          *)
Earlier(t, u) == t.date < u.date \/ (t.date = u.date /\ t.rank < u.rank)
NextTrade(k) == CHOOSE t \in job[k].todo : \A u \in job[k].todo \ {t} : Earlier(t, u)

(* One round of insertPassbookEvents, of rebuild and of append.             *)
InsertEvent(k) ==
    /\ job[k].pc = "insert"
    /\ LET t == NextTrade(k)
           rest == job[k].todo \ {t}
           next == [job[k] EXCEPT !.seq = @ + 1, !.bal = @ + t.amt, !.todo = rest]
       IN /\ book' = [book EXCEPT ![Here(k)] = @ \union
                        {Row("txn", t.rank, t.date, t.amt, next.seq, next.bal, k)}]
          /\ Go(k, IF rest # {} THEN next
                   ELSE IF job[k].type = "rebuild" THEN [next EXCEPT !.pc = "chunk"]
                   ELSE NextAccount(next))
    /\ UNCHANGED <<begun, landed, divVars, req, spent, credited>>

(* A statement of the account throws: counted, the next account follows.    *)
AccountFails(k) ==
    /\ ~Div(k) /\ job[k].pc \in {"delete", "chunk", "fetch", "tail", "insert"}
    /\ Spend
    /\ Become(k, NextAccount([job[k] EXCEPT !.errs = 1]), Upset(Here(k), "partial"))
    /\ UNCHANGED <<begun, landed, book, divVars, req, credited>>

(* closeWithFailure after errors, or the function is killed: the pool runs  *)
(* an append again.                                                         *)
Again(k) == job[k].type = "append" /\ job[k].tries < MaxTries

WalkEnds(k) ==
    /\ ~Div(k) /\ job[k].pc = "end"
    /\ Go(k, IF job[k].errs = 0 THEN [job[k] EXCEPT !.pc = "done"]
             ELSE IF Again(k) THEN [NewJob("append", job[k].of, job[k].filter) EXCEPT !.tries = job[k].tries + 1]
             ELSE [job[k] EXCEPT !.pc = "failed"])
    /\ UNCHANGED <<begun, landed, book, divVars, req, spent, credited>>

WalkKilled(k) ==
    /\ ~Div(k) /\ AtWork(k)
    /\ Spend
    /\ Become(k, IF Again(k) THEN [NewJob("append", job[k].of, job[k].filter) EXCEPT !.tries = job[k].tries + 1]
                 ELSE [job[k] EXCEPT !.pc = "failed", !.accts = {}],
              [a \in Accounts |-> mishap[a] \union (IF Writing(job[k], a) THEN {"partial"} ELSE {})])
    /\ UNCHANGED <<begun, landed, book, divVars, req, credited>>

----------------------------------------------------------------------------
JobStep(k) ==
    \/ DivStart(k) \/ DivMaster(k) \/ InsertMaster(k) \/ ReadAccounts(k) \/ MasterFails(k)
    \/ InsertRecord(k) \/ RecordFails(k)
    \/ CheckCash(k) \/ Collect(k) \/ MoveRow(k) \/ InsertDividend(k)
    \/ CashFails(k) \/ MoveFails(k) \/ UndoRow(k)
    \/ DivFinish(k) \/ DivFails(k) \/ DivKilled(k)
    \/ WalkStart(k) \/ RebuildDelete(k) \/ ReadChunk(k)
    \/ AppendDelete(k) \/ FetchEvents(k) \/ ReadTail(k) \/ InsertEvent(k)
    \/ AccountFails(k) \/ WalkEnds(k) \/ WalkKilled(k)

Next ==
    \/ \E q \in Requests : Preview(q) \/ CheckMaster(q)
    \/ \E q \in Requests, k \in Jobs : Submit(q, k)
    \/ \E d \in Dividends : PollStatus(d)
    \/ \E k \in Jobs : Rebuild(k) \/ ImportLands(k) \/ JobStep(k)
    \/ StartImport

Spec == Init /\ [][Next]_vars

----------------------------------------------------------------------------
(* Properties.                                                              *)

(* No job is writing the passbook of a.                                     *)
Quiet(a) == \A k \in Jobs : ~Writing(job[k], a)

(* The trades of every upload whose append has ended well, none twice, and  *)
(* the dividends credited since the last rebuild, once each.                *)
Complete(a) ==
    LET txns == {w \in book[a] : w.kind = "txn"}
        divs == {w \in book[a] : w.kind = "div"}
        posted(i) == i = 0 \/ \E k \in Jobs : job[k].type = "append" /\ job[k].of = i /\ job[k].pc = "done"
    IN /\ \A t \in Trades : t.acct = a /\ posted(t.import) => \E w \in txns : w.of = t.rank
       /\ \A v, w \in txns : v.of = w.of => v = w
       /\ {w.of : w \in divs} = {c[1] : c \in {e \in credited : e[2] = a}}

(* A passbook that nobody is writing adds up and is complete, whatever the  *)
(* dividend jobs, appends and rebuilds that wrote it failed at, but for     *)
(* named mishaps: two jobs writing it together, a job cut short in it, a    *)
(* move that was not taken back, an INSERT that threw and took effect, and  *)
(* rows swept away by the append's DELETE because they were written while   *)
(* the upload was under way.  A rebuild ends every mishap.                  *)
PassbookAdds ==
    \A a \in Accounts : Quiet(a) /\ mishap[a] = {} => AddsUp(book[a]) /\ Complete(a)

(* No account has two records or two cash rows of a dividend, however often *)
(* it is requested and applied, unless two jobs both saw no master row.     *)
DividendOnce ==
    \A d \in Dividends : "twice" \notin accident[d] =>
       /\ \A r, s \in records : r.div = d /\ s.div = d /\ r.acct = s.acct => r = s
       /\ \A a \in Accounts : \A v, w \in book[a] :
             v.kind = "div" /\ w.kind = "div" /\ v.of = d /\ w.of = d => v = w

(* COMPLETED, with no job of the dividend open, means that everybody it was *)
(* applied for has the record and had the money, unless a job of it was     *)
(* killed or failed with the master row there, or a statement of an account *)
(* failed.  A job that fails before it has the master row is no exception.  *)
CompletedMeansPaid ==
    \A d \in Dividends :
       /\ jobsRow[d] = "COMPLETED" /\ accident[d] = {}
       /\ \A k \in Jobs : AtWork(k) => ~(Div(k) /\ job[k].of = d)
       => \A a \in payer[d] :
             /\ \E r \in records : r.div = d /\ r.acct = a
             /\ \/ <<d, a>> \in credited \/ mishap[a] # {}
                \/ a \in RebuildOf /\ \E k \in Jobs : job[k].type = "rebuild"
==============================================================================
