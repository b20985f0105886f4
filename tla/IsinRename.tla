----------------------------- MODULE IsinRename ------------------------------
(***************************************************************************)
(* Renaming an ISIN, or writing a security's code and name, in every table *)
(* that has it.                                                            *)
(*                                                                         *)
(* postUpdateIsin and postApplyNewISIN submit UpdateISIN, which opens the  *)
(* Jobs row and submits UpdateISINWorker.  The worker walks its targets    *)
(* and drains one column after the other: it selects a batch of rows that  *)
(* are still to change and updates them, until none is left.  When its     *)
(* time runs out it submits a successor with the index of the target; the  *)
(* pool runs a worker that fails again from its own index.  A rename that  *)
(* is through submits the rebuild phase, which queues the rebuilds of the  *)
(* accounts that hold the new ISIN and reports SUCCESS.                    *)
(***************************************************************************)
EXTENDS Integers, Sequences, FiniteSets

CONSTANTS
    RowsOf,         \* the rows of each table
    First,          \* the values of the cells, <<row, column>>, at the start
    IsinTargets,    \* ISIN_TARGETS: [table, cols]
    ApplyTargets,   \* APPLY_TARGETS: [table, isinCol, col], a column of a table each
    Requests,       \* requests of each walk: [kind, old, new] or [kind, isin, val]
    Holder,         \* the account of a row of Holdings
    Batch,          \* BATCH
    Page,           \* ACCOUNT_SCAN_PAGE
    MaxWalks,       \* requests
    MaxJobs,        \* workers at one time
    MaxTries,       \* runs of a worker by the pool
    MaxFaults       \* statements and submits that fail, kills

Walks == 1 .. MaxWalks
Jobs == 1 .. MaxJobs

ASSUME IsinRenameAssumption ==
    /\ {Batch, Page, MaxWalks, MaxJobs, MaxTries} \subseteq Nat \ {0}
    /\ MaxFaults \in Nat
    /\ {"Security_List", "Holdings"} \subseteq DOMAIN RowsOf
    /\ \A t \in DOMAIN RowsOf : RowsOf[t] \subseteq Nat /\ IsFiniteSet(RowsOf[t])
    /\ \A t, u \in DOMAIN RowsOf : t # u => RowsOf[t] \cap RowsOf[u] = {}
    /\ \A r \in RowsOf["Holdings"] : <<r, "ISIN">> \in DOMAIN First
    /\ IsinTargets # <<>> /\ ApplyTargets # <<>>
    /\ IsinTargets \in Seq([table : DOMAIN RowsOf, cols : Seq(STRING)])
    /\ \A i \in DOMAIN IsinTargets : IsinTargets[i].cols # <<>>
    /\ ApplyTargets \in Seq([table : DOMAIN RowsOf, isinCol : STRING, col : STRING])
    /\ \A rqs \in Requests : \A w \in Walks : rqs[w].kind = "rename" => rqs[w].old # rqs[w].new

VARIABLES
    val,        \* the cells
    request,    \* what was asked for
    status,     \* Jobs.status of each request
    job,
    due,        \* history: rows of Holdings a request renamed last and nothing rebuilt since
    faults,
    accident,   \* history: what befell a request
    slipped     \* history: requests whose list of accounts was read by pages that do not join

vars == <<val, request, status, job, due, faults, accident, slipped>>

----------------------------------------------------------------------------
(* What a request has to do: targets, and the columns of each.              *)

ColumnJob(table, key, match, col, to) ==
    [table |-> table, key |-> key, match |-> match, col |-> col, to |-> to]

Plan(rq) ==
    IF rq.kind = "rename"
    THEN [i \in DOMAIN IsinTargets |->
            LET t == IsinTargets[i]
            IN [c \in DOMAIN t.cols |-> ColumnJob(t.table, t.cols[c], rq.old, t.cols[c], rq.new)]]
    ELSE [i \in DOMAIN ApplyTargets |->
            LET t == ApplyTargets[i]
            IN <<ColumnJob(t.table, t.isinCol, rq.isin, t.col, rq.val)>>]

(* fetchOldRowIds, fetchStaleRowIds: the rows a column still has to change. *)
Stale(cj, v) ==
    {r \in RowsOf[cj.table] : v[<<r, cj.key>>] = cj.match /\ v[<<r, cj.col>>] # cj.to}

(* The rows of Holdings with an ISIN, and how many of them are before one.  *)
With(isin, v) == {r \in RowsOf["Holdings"] : v[<<r, "ISIN">>] = isin}
Before(r, isin, v) == Cardinality({q \in With(isin, v) : q < r})

Columns(w) == UNION {{Plan(request[w])[i][c] : c \in DOMAIN Plan(request[w])[i]} : i \in DOMAIN Plan(request[w])}

Requested(w) == status[w] # "none"
AllStale(w, v) == UNION {{<<r, cj>> : r \in Stale(cj, v)} : cj \in Columns(w)}

----------------------------------------------------------------------------
(* A worker: the request, the phase, the index it was given, where it is,   *)
(* the batch it selected, or the accounts to submit and the offset of the   *)
(* page to read for them next.                                              *)
NewJob(pc, w, from, tries) ==
    [pc |-> pc, walk |-> w, from |-> from, at |-> from, col |-> 1, ids |-> {}, offset |-> 0,
     tries |-> tries]

NoJob == NewJob("none", 1, 1, 0)

Init ==
    /\ val = First
    /\ request \in Requests
    /\ status = [w \in Walks |-> "none"]
    /\ job = [k \in Jobs |-> NoJob]
    /\ due = [w \in Walks |-> {}]
    /\ faults = 0
    /\ accident = [w \in Walks |-> {}]
    /\ slipped = {}

Fault == faults < MaxFaults /\ faults' = faults + 1
Free(k) == job[k] = NoJob /\ \A j \in Jobs : j < k => job[j] # NoJob
AtWork(k) == job[k].pc \notin {"none", "queued", "wait"}
Mine(k) == job[k].walk
Befalls(w, what) == accident' = [accident EXCEPT ![w] = @ \union {what}]

(* Its column, if the walk is not through.                                  *)
Here(k) == Plan(request[Mine(k)])[job[k].at][job[k].col]

(* job r behind its column: the next one of the target, the next target,    *)
(* or the end.                                                              *)
Passed(r) ==
    LET plan == Plan(request[r.walk])
    IN IF r.col < Len(plan[r.at]) THEN [r EXCEPT !.pc = "select", !.col = @ + 1, !.ids = {}]
       ELSE IF r.at < Len(plan) THEN [r EXCEPT !.pc = "select", !.at = @ + 1, !.col = 1, !.ids = {}]
       ELSE [r EXCEPT !.pc = IF request[r.walk].kind = "rename" THEN "through" ELSE "finalize", !.ids = {}]

(* postUpdateIsin, postApplyNewISIN: the ISIN must be in Security_List; and *)
(* UpdateISIN: RUNNING, and the first worker.  UpdateISIN is not retried: a *)
(* submit that fails leaves the row RUNNING.                                *)
Request(w) ==
    /\ ~Requested(w) /\ \A u \in Walks : u < w => Requested(u)
    /\ LET isin == IF request[w].kind = "rename" THEN request[w].old ELSE request[w].isin
       IN \E r \in RowsOf["Security_List"] : val[<<r, "ISIN">>] = isin
    /\ status' = [status EXCEPT ![w] = "RUNNING"]
    /\ \/ \E k \in Jobs : Free(k) /\ job' = [job EXCEPT ![k] = NewJob("queued", w, 1, 0)] /\ UNCHANGED faults
       \/ Fault /\ UNCHANGED job
    /\ UNCHANGED <<val, request, due, accident, slipped>>

Start(k) ==
    /\ job[k].pc \in {"queued", "wait"}
    /\ job' = [job EXCEPT ![k].pc = IF @ = "queued" THEN "select" ELSE "collect"]
    /\ UNCHANGED <<val, request, status, due, faults, accident, slipped>>

(* A worker that fails or is killed is run again as it was submitted.       *)
Ended(k) ==
    LET r == job[k]
        phase == IF r.pc \in {"collect", "rebuild"} \/ r.from = 0 THEN "wait" ELSE "queued"
    IN IF r.tries + 1 < MaxTries THEN NewJob(phase, r.walk, r.from, r.tries + 1)
       ELSE NoJob

(* A kill, or a submit or a SELECT of the rebuild phase that throws.        *)
Dies(k) ==
    /\ AtWork(k)
    /\ Fault
    /\ job' = [job EXCEPT ![k] = Ended(k)]
    /\ UNCHANGED <<val, request, status, due, accident, slipped>>

----------------------------------------------------------------------------
(* Draining a column.                                                       *)

(* SELECT ROWID ... LIMIT BATCH, in the order of the rows.                  *)
Select(k) ==
    /\ job[k].pc = "select"
    /\ LET rows == Stale(Here(k), val)
       IN IF rows = {}
          THEN job' = [job EXCEPT ![k] = Passed(@)]
          ELSE job' = [job EXCEPT ![k].ids = {r \in rows : Cardinality({q \in rows : q < r}) < Batch},
                                  ![k].pc = "update"]
    /\ UNCHANGED <<val, request, status, due, faults, accident, slipped>>

(* UPDATE ... WHERE ROWID IN: whatever the rows hold by now.  It crosses a  *)
(* request for which it makes a row stale, and another one if its own rows  *)
(* were changed since they were selected.  A row of Holdings that it takes  *)
(* out of the pages of another request moves what follows into pages read.  *)
Update(k) ==
    /\ job[k].pc = "update"
    /\ LET cj == Here(k)
           next == [x \in DOMAIN val |-> IF x[1] \in job[k].ids /\ x[2] = cj.col THEN cj.to ELSE val[x]]
           changed == {r \in job[k].ids : val[<<r, cj.col>>] # cj.to}
       IN /\ val' = next
          /\ due' = [w \in Walks |->
                       IF cj.table # "Holdings" \/ cj.col # "ISIN" THEN due[w]
                       ELSE IF w = Mine(k) THEN due[w] \union changed ELSE due[w] \ changed]
          /\ accident' = [w \in Walks |->
                accident[w] \union IF \/ Requested(w) /\ ~(AllStale(w, next) \subseteq AllStale(w, val))
                                      \/ w = Mine(k) /\ ~(changed \subseteq Stale(cj, val))
                                   THEN {"crossed"} ELSE {}]
          /\ slipped' = slipped \union {w \in Walks : \E j \in Jobs :
                /\ job[j].pc = "collect" /\ Mine(j) = w /\ job[j].offset > 0
                /\ ~(With(request[w].new, val) \subseteq With(request[w].new, next))}
    /\ job' = [job EXCEPT ![k].pc = "select", ![k].ids = {}]
    /\ UNCHANGED <<request, status, faults>>

(* A SELECT or UPDATE that throws ends the column, not the walk.            *)
SkipColumn(k) ==
    /\ job[k].pc \in {"select", "update"}
    /\ Fault
    /\ job' = [job EXCEPT ![k] = Passed(@)]
    /\ Befalls(Mine(k), "skipped")
    /\ UNCHANGED <<val, request, status, due, slipped>>

(* Mutant of PassBaton: the successor begins with the next target.          *)
PassBatonOn(k) ==
    /\ job[k].pc = "select"
    /\ \E n \in Jobs :
          /\ Free(n)
          /\ LET on == IF job[k].at < Len(Plan(request[Mine(k)])) THEN job[k].at + 1 ELSE job[k].at
             IN job' = [job EXCEPT ![k].pc = "close", ![n] = NewJob("queued", Mine(k), on, 0)]
    /\ UNCHANGED <<val, request, status, due, faults, accident, slipped>>

(* submitContinuation, submitApplyContinuation: out of time between two     *)
(* batches.  The successor begins with the first column of the target.      *)
PassBaton(k) ==
    /\ job[k].pc = "select"
    /\ \E n \in Jobs :
          /\ Free(n)
          /\ job' = [job EXCEPT ![k].pc = "close", ![n] = NewJob("queued", Mine(k), job[k].at, 0)]
    /\ UNCHANGED <<val, request, status, due, faults, accident, slipped>>

Close(k) ==
    /\ job[k].pc = "close"
    /\ job' = [job EXCEPT ![k] = NoJob]
    /\ UNCHANGED <<val, request, status, due, faults, accident, slipped>>

----------------------------------------------------------------------------
(* The rebuild phase and the end.                                           *)

(* submitRebuildPhase.                                                      *)
SubmitRebuild(k) ==
    /\ job[k].pc = "through"
    /\ \E n \in Jobs :
          /\ Free(n)
          /\ job' = [job EXCEPT ![k].pc = "close", ![n] = NewJob("wait", Mine(k), 0, 0)]
    /\ UNCHANGED <<val, request, status, due, faults, accident, slipped>>

(* collectAccountsForIsin: a page, LIMIT ACCOUNT_SCAN_PAGE OFFSET offset;   *)
(* another one is read if this one is full.                                 *)
Collect(k) ==
    /\ job[k].pc = "collect"
    /\ LET isin == request[Mine(k)].new
           from == job[k].offset
           page == {r \in With(isin, val) : Before(r, isin, val) \in from .. from + Page - 1}
           full == \E r \in With(isin, val) : Before(r, isin, val) >= from + Page - 1
           accts == job[k].ids \union {Holder[r] : r \in page}
       IN job' = [job EXCEPT ![k].ids = accts,
                             ![k].offset = IF full THEN @ + Page ELSE 0,
                             ![k].pc = IF full THEN "collect" ELSE IF accts = {} THEN "finalize" ELSE "rebuild"]
    /\ UNCHANGED <<val, request, status, due, faults, accident, slipped>>

(* RebuildHoldingtable deletes the rows of an account and inserts them      *)
(* again, behind all others.  If they were in the pages a worker has read,  *)
(* its next page passes over as many rows that it has not read.             *)
RowsMove(k) ==
    /\ job[k].pc = "collect" /\ job[k].offset > 0
    /\ job[k].offset < Cardinality(RowsOf["Holdings"])
    /\ job' = [job EXCEPT ![k].offset = @ + 1]
    /\ slipped' = slipped \union {Mine(k)}
    /\ UNCHANGED <<val, request, status, due, faults, accident>>

(* A job of RebuildHoldingtable, for one account here.                      *)
QueueRebuild(k) ==
    /\ job[k].pc = "rebuild"
    /\ \E a \in job[k].ids :
          LET rest == job[k].ids \ {a}
          IN /\ job' = [job EXCEPT ![k].ids = rest, ![k].pc = IF rest = {} THEN "finalize" ELSE "rebuild"]
             /\ due' = [w \in Walks |->
                          IF request[w].kind = "rename" /\ request[w].new = request[Mine(k)].new
                          THEN {r \in due[w] : Holder[r] # a} ELSE due[w]]
    /\ UNCHANGED <<val, request, status, faults, accident, slipped>>

(* finalizeJobsRow: SUCCESS; a failure is not missed.                       *)
Finalize(k) ==
    /\ job[k].pc = "finalize"
    /\ \/ status' = [status EXCEPT ![Mine(k)] = "SUCCESS"] /\ UNCHANGED faults
       \/ Fault /\ UNCHANGED status
    /\ job' = [job EXCEPT ![k].pc = "close"]
    /\ UNCHANGED <<val, request, due, accident, slipped>>

Worker(k) ==
    \/ Start(k) \/ Dies(k) \/ Select(k) \/ Update(k) \/ SkipColumn(k) \/ PassBaton(k) \/ Close(k)
    \/ SubmitRebuild(k) \/ Collect(k) \/ RowsMove(k) \/ QueueRebuild(k) \/ Finalize(k)

Next ==
    \/ \E w \in Walks : Request(w)
    \/ \E k \in Jobs : Worker(k)

Spec == Init /\ [][Next]_vars

----------------------------------------------------------------------------
(* Properties.                                                              *)

(* UpdateISINWorker: the row is marked SUCCESS "when fully drained".  With  *)
(* successors, retries beside their own successors and other requests at    *)
(* work, SUCCESS means that no column has anything left to change, and that *)
(* the account of every row of Holdings this request was the last to rename *)
(* is submitted for a rebuild afterwards, unless a statement failed, which  *)
(* skips the rest of a column, or another request wrote what this one       *)
(* replaces.  The accounts are read by LIMIT and OFFSET: where rows left    *)
(* the pages read while the next one was due, accounts may be missed.       *)
SuccessIsDrained ==
    \A w \in Walks : status[w] = "SUCCESS" /\ accident[w] = {} =>
       /\ AllStale(w, val) = {}
       /\ request[w].kind = "rename" /\ w \notin slipped => due[w] = {}
=============================================================================
