--------------------------- MODULE UploadPipeline ---------------------------
(***************************************************************************)
(* appsail-nodejs/controller/uploader/TempTransactionUpload.js: one upload *)
(* of a broker CSV.  The request stores the file and starts a Data Store   *)
(* bulk write; afterwards a background poll in the AppSail process and the *)
(* HTTP callbacks of the bulk job may each learn its outcome, and each     *)
(* runs completeTxnUploadPipeline: read the Jobs row, mark it COMPLETED,   *)
(* queue the three downstream jobs with a pause before each.               *)
(***************************************************************************)
EXTENDS Naturals

CONSTANTS
    MaxCallbacks,   \* POSTs of /bulk-callback the bulk service may make
    MaxCrashes,     \* restarts of the AppSail process
    MaxErrors       \* failing ZCQL statements and submitJob calls

ASSUME BoundsAssumption ==
    MaxCallbacks \in Nat /\ MaxCrashes \in Nat /\ MaxErrors \in Nat

Poll == 0
Callers == 0 .. MaxCallbacks    \* the poll and the callback handlers

VARIABLES
    hasPairs,   \* the CSV names at least one (account, ISIN) pair
    req,        \* where uploadTempTransaction is
    job,        \* status in the Jobs row of the upload ("none" without a row)
    bulk,       \* the bulk write job
    pc,         \* where each caller is
    seen,       \* the Jobs status a caller read
    sent,       \* how often each downstream job was queued
    crashes,
    errors

vars == <<hasPairs, req, job, bulk, pc, seen, sent, crashes, errors>>

USCM == "UpdatesSecurity_ClientMasters"
CHM == "CalculateHoldingMaster"
CCB == "Cal_CB_Append_TxnUpload"
Downstream == {USCM, CHM, CCB}
Wanted == IF hasPairs THEN Downstream ELSE {USCM}

Terminal == {"COMPLETED", "FAILED"}
InRequest == {"received", "stored", "row"}
Thrown == {"thrown", "failing"}     \* its two catch blocks
(* Stages of completeTxnUploadPipeline, in order.                           *)
Stages == {"mark", "uscm", "chm", "ccb"}
Active == {"poll", "check", "fail"} \union Stages

Init ==
    /\ hasPairs \in BOOLEAN
    /\ req = "received"
    /\ job = "none"
    /\ bulk = "none"
    /\ pc = [t \in Callers |-> "idle"]
    /\ seen = [t \in Callers |-> "none"]
    /\ sent = [k \in Downstream |-> 0]
    /\ crashes = 0
    /\ errors = 0

Goto(t, stage) == pc' = [pc EXCEPT ![t] = stage]

(* A ZCQL statement or a submitJob call that fails; most are only logged.   *)
Error == errors < MaxErrors /\ errors' = errors + 1

(* Jobs row writes: a failing UPDATE is only logged.                        *)
SetJob(status) ==
    \/ /\ job' = IF job = "none" THEN "none" ELSE status
       /\ UNCHANGED errors
    \/ Error /\ UNCHANGED job

----------------------------------------------------------------------------
(* The request.                                                             *)

(* Missing file, header, date or parse error: 400 before anything is stored.*)
Reject ==
    /\ req = "received"
    /\ req' = "rejected"
    /\ UNCHANGED <<hasPairs, job, bulk, pc, seen, sent, crashes, errors>>

(* The CSVs and, when there are pairs, the two manifests go to Stratus.     *)
StoreObjects ==
    /\ req = "received"
    /\ \/ req' = "stored" /\ UNCHANGED errors
       \/ req' = "rejected" /\ Error
    /\ UNCHANGED <<hasPairs, job, bulk, pc, seen, sent, crashes>>

(* ensureJobsRow: INSERT, else UPDATE; when both fail there is no row and   *)
(* the upload goes on.                                                      *)
EnsureRow ==
    /\ req = "stored"
    /\ req' = "row"
    /\ \/ job' = "RUNNING" /\ UNCHANGED errors
       \/ Error /\ UNCHANGED job
    /\ UNCHANGED <<hasPairs, bulk, pc, seen, sent, crashes>>

(* createJob answers: start the background poll, answer 200.                *)
CreateBulk ==
    /\ req = "row"
    /\ bulk' = "in_progress"
    /\ req' = "answered"
    /\ Goto(Poll, "poll")
    /\ UNCHANGED <<hasPairs, job, seen, sent, crashes, errors>>

(* createJob throws, whether or not the service took the job.               *)
CreateBulkFails ==
    /\ req = "row"
    /\ Error
    /\ bulk' \in {"none", "in_progress"}
    /\ req' = "thrown"
    /\ UNCHANGED <<hasPairs, job, pc, seen, sent, crashes>>

(* Both catch blocks write FAILED, whatever the row says by now; then 500.  *)
FailRequest ==
    /\ req \in Thrown
    /\ SetJob("FAILED")
    /\ req' = IF req = "thrown" THEN "failing" ELSE "rejected"
    /\ UNCHANGED <<hasPairs, bulk, pc, seen, sent, crashes>>

----------------------------------------------------------------------------
(* The bulk write service and its callbacks.                                *)

BulkEnds ==
    /\ bulk = "in_progress"
    /\ bulk' \in {"completed", "failed"}
    /\ UNCHANGED <<hasPairs, req, job, pc, seen, sent, crashes, errors>>

(* Mutant of Callback: every status but FAILED counts as success.           *)
CallbackNotFailed(t) ==
    /\ t # Poll
    /\ pc[t] = "idle"
    /\ bulk # "none"
    /\ Goto(t, IF bulk = "failed" THEN "fail" ELSE "check")
    /\ UNCHANGED <<hasPairs, req, job, bulk, seen, sent, crashes, errors>>

(* handleBulkCallback: answer 200, then act on the posted status; anything  *)
(* but success or failure is ignored.                                       *)
Callback(t) ==
    /\ t # Poll
    /\ pc[t] = "idle"
    /\ bulk # "none"
    /\ Goto(t, CASE bulk = "completed" -> "check"
                 [] bulk = "failed" -> "fail"
                 [] OTHER -> "done")
    /\ UNCHANGED <<hasPairs, req, job, bulk, seen, sent, crashes, errors>>

(* pollBulkWriteAndComplete: one getStatus that finds the job ended.        *)
PollSees ==
    /\ pc[Poll] = "poll"
    /\ bulk \in {"completed", "failed"}
    /\ Goto(Poll, IF bulk = "completed" THEN "check" ELSE "fail")
    /\ UNCHANGED <<hasPairs, req, job, bulk, seen, sent, crashes, errors>>

(* POLL_MAX_WAIT_MS is over, because the job is slow or getStatus fails.    *)
PollTimesOut ==
    /\ pc[Poll] = "poll"
    /\ Goto(Poll, "fail")
    /\ UNCHANGED <<hasPairs, req, job, bulk, seen, sent, crashes, errors>>

(* Mutant of Fail: the reason is logged and the row is left RUNNING.        *)
FailOnlyLogs(t) ==
    /\ pc[t] = "fail"
    /\ Goto(t, "done")
    /\ UNCHANGED <<hasPairs, req, job, bulk, seen, sent, crashes, errors>>

(* failTxnUploadPipeline.                                                   *)
Fail(t) ==
    /\ pc[t] = "fail"
    /\ SetJob("FAILED")
    /\ Goto(t, "done")
    /\ UNCHANGED <<hasPairs, req, bulk, seen, sent, crashes>>

----------------------------------------------------------------------------
(* completeTxnUploadPipeline.                                               *)

(* Mutant of Check: the status is read but not looked at.                   *)
CheckIgnored(t) ==
    /\ pc[t] = "check"
    /\ seen' = [seen EXCEPT ![t] = job]
    /\ Goto(t, "mark")
    /\ UNCHANGED <<hasPairs, req, job, bulk, sent, crashes, errors>>

(* getPipelineJobStatus (an error reads like a missing row), then the       *)
(* idempotency test.                                                        *)
Check(t) ==
    /\ pc[t] = "check"
    /\ \/ seen' = [seen EXCEPT ![t] = job] /\ UNCHANGED errors
       \/ seen' = [seen EXCEPT ![t] = "none"] /\ Error
    /\ Goto(t, IF seen'[t] \in {"none", "RUNNING"} THEN "mark" ELSE "done")
    /\ UNCHANGED <<hasPairs, req, job, bulk, sent, crashes>>

Mark(t) ==
    /\ pc[t] = "mark"
    /\ SetJob("COMPLETED")
    /\ Goto(t, "uscm")
    /\ UNCHANGED <<hasPairs, req, bulk, seen, sent, crashes>>

(* submitJob: a failure is only logged.                                     *)
Submit(k) ==
    \/ sent' = [sent EXCEPT ![k] = @ + 1] /\ UNCHANGED errors
    \/ Error /\ UNCHANGED sent

(* Mutant of SubmitMasters: the callback's hasPairs string is not "true".   *)
SubmitMastersAndStop(t) ==
    /\ pc[t] = "uscm"
    /\ Submit(USCM)
    /\ Goto(t, "done")
    /\ UNCHANGED <<hasPairs, req, job, bulk, seen, crashes>>

SubmitMasters(t) ==
    /\ pc[t] = "uscm"
    /\ Submit(USCM)
    /\ Goto(t, IF hasPairs THEN "chm" ELSE "done")
    /\ UNCHANGED <<hasPairs, req, job, bulk, seen, crashes>>

SubmitHoldings(t) ==
    /\ pc[t] = "chm"
    /\ Submit(CHM)
    /\ Goto(t, "ccb")
    /\ UNCHANGED <<hasPairs, req, job, bulk, seen, crashes>>

(* Mutant of SubmitCash: the poll loop does not return after completing.    *)
SubmitCashPollAgain(t) ==
    /\ pc[t] = "ccb"
    /\ Submit(CCB)
    /\ Goto(t, "poll")
    /\ UNCHANGED <<hasPairs, req, job, bulk, seen, crashes>>

SubmitCash(t) ==
    /\ pc[t] = "ccb"
    /\ Submit(CCB)
    /\ Goto(t, "done")
    /\ UNCHANGED <<hasPairs, req, job, bulk, seen, crashes>>

(* The AppSail process restarts: the request, the poll and the running      *)
(* callback handlers are gone.                                              *)
Crash ==
    /\ crashes < MaxCrashes
    /\ crashes' = crashes + 1
    /\ req' = IF req \in InRequest \union Thrown THEN "lost" ELSE req
    /\ pc' = [t \in Callers |-> IF pc[t] \in Active THEN "lost" ELSE pc[t]]
    /\ UNCHANGED <<hasPairs, job, bulk, seen, sent, errors>>

----------------------------------------------------------------------------
CallerStep(t) ==
    \/ Callback(t)
    \/ Fail(t)
    \/ Check(t)
    \/ Mark(t)
    \/ SubmitMasters(t)
    \/ SubmitHoldings(t)
    \/ SubmitCash(t)

Next ==
    \/ Reject
    \/ StoreObjects
    \/ EnsureRow
    \/ CreateBulk
    \/ CreateBulkFails
    \/ FailRequest
    \/ BulkEnds
    \/ PollSees
    \/ PollTimesOut
    \/ \E t \in Callers : CallerStep(t)
    \/ Crash

Spec == Init /\ [][Next]_vars

(* A step of a handler that was started runs to its next await; the poll    *)
(* looks again every 30 seconds until 45 minutes are over.  No fairness on  *)
(* the bulk service, on its callbacks, on errors or on crashes.             *)
FairSpec ==
    /\ Spec
    /\ WF_vars(StoreObjects \/ Reject)
    /\ WF_vars(EnsureRow)
    /\ WF_vars(CreateBulk \/ CreateBulkFails)
    /\ WF_vars(FailRequest)
    /\ WF_vars(PollSees \/ PollTimesOut)
    /\ \A t \in Callers :
          WF_vars(Fail(t) \/ Check(t) \/ Mark(t)
                  \/ SubmitMasters(t) \/ SubmitHoldings(t) \/ SubmitCash(t))

----------------------------------------------------------------------------
(* Properties.                                                              *)

(* The state of an upload has its type.                                     *)
TypeOK ==
    /\ hasPairs \in BOOLEAN
    /\ req \in InRequest \union Thrown \union {"answered", "rejected", "lost"}
    /\ job \in {"none", "RUNNING"} \union Terminal
    /\ bulk \in {"none", "in_progress", "completed", "failed"}
    /\ pc \in [Callers -> {"idle", "done", "lost"} \union Active]
    /\ seen \in [Callers -> {"none", "RUNNING"} \union Terminal]
    /\ sent \in [Downstream -> 0 .. MaxCallbacks + 1]
    /\ crashes \in 0 .. MaxCrashes
    /\ errors \in 0 .. MaxErrors

(* Downstream jobs are only queued for transactions that are in the table:  *)
(* never while the bulk write runs, after it failed, or after a timeout.    *)
DispatchOnlyAfterImport ==
    \A k \in Downstream : sent[k] > 0 => bulk = "completed"

Before(k) == {"mark", "uscm"} \union (IF k = USCM THEN {} ELSE {"chm"})
                              \union (IF k = CCB THEN {"ccb"} ELSE {})

(* A row that says COMPLETED is never a lie: unless a call failed or the    *)
(* server restarted, every job of the upload was queued or some caller is   *)
(* on its way to queue it.                                                  *)
CompletedIsFollowedUp ==
    job = "COMPLETED" /\ crashes = 0 /\ errors = 0 =>
        \A k \in Wanted : sent[k] > 0 \/ \E t \in Callers : pc[t] \in Before(k)

(* The window of the race closes when a caller marks the row: as long as no *)
(* statement fails, whoever passes the check does so before anything was    *)
(* queued, so callers that come one after another queue each job once.      *)
WindowClosesAtMark ==
    [][\A t \in Callers :
          (pc[t] = "check" /\ pc'[t] = "mark" /\ errors' = 0)
              => \A k \in Downstream : sent[k] = 0]_vars

(* With the poll as the only caller, a final status is final: a completed   *)
(* upload never turns FAILED and a failed one never COMPLETED.              *)
OnlyPoll == \A t \in Callers \ {Poll} : pc[t] = "idle"
FinalStatusIsFinal == [][(OnlyPoll /\ job \in Terminal) => (job' = job)]_job

(* An upload whose bulk job was created does not stay RUNNING: the poll     *)
(* ends it (unless the server restarts or a status update fails).           *)
RunningEnds == job = "RUNNING" ~> (job \in Terminal \/ crashes > 0 \/ errors > 0)
============================================================================
