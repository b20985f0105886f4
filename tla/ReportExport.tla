---------------------------- MODULE ReportExport -----------------------------
(***************************************************************************)
(* The exports that survive the time limit of a job: the holdings of all   *)
(* clients and the impact of corporate actions.                            *)
(*                                                                         *)
(* A request clears what an earlier export left and submits a job.  The    *)
(* job takes a list of entries once, appends the rows of one entry after   *)
(* the other to a buffer, uploads the buffer as a part when it is large    *)
(* enough and saves a checkpoint: the cursor, the upload, the next part.   *)
(* When its time runs out it saves the rest of the buffer and the          *)
(* checkpoint and submits itself again.  The last run completes the        *)
(* upload, removes its objects and marks the Jobs row.                     *)
(***************************************************************************)
EXTENDS Integers, Sequences, SequencesExt

CONSTANTS
    NumEntries,     \* clients, groups or events
    PartSize,       \* rows, the header included, for which a part is uploaded
    MaxJobs,        \* runs of the export at one time
    MaxRequests,
    MaxFaults,      \* statements and calls that fail, kills
    NoCheckpoint

Entries == 1 .. NumEntries
Jobs == 1 .. MaxJobs
Header == 0

ASSUME ReportExportAssumption ==
    /\ {NumEntries, PartSize, MaxJobs, MaxRequests} \subseteq Nat \ {0}
    /\ MaxFaults \in Nat

VARIABLES
    kind,       \* "holdings" or "impact"
    list,       \* the entries there are, in the order of the list
    given,      \* those that have rows; an entry that throws gives none
    row,        \* Jobs.status
    aged,       \* the row is older than an hour
    file,       \* the rows of the finished file, <<>> if there is none
    manifest,   \* the list is saved
    checkpoint,
    pending,    \* the saved rest of the buffer
    uploads,    \* the parts of each multipart upload
    job,
    requests,
    faults,
    tainted,    \* history: a request did not start from a clean slate
    stale       \* history: a handoff with nothing to save left saved rows behind

store == <<manifest, checkpoint, pending>>
fixed == <<kind, list, given>>
vars == <<fixed, row, aged, file, store, uploads, job, requests, faults, tainted, stale>>

----------------------------------------------------------------------------
(* A job: where it is, its checkpoint, its buffer.                          *)
NoJob == [pc |-> "none", cp |-> NoCheckpoint, buf |-> <<>>]

Init ==
    /\ kind \in {"holdings", "impact"}
    /\ list \in {SetToSortSeq(1 .. n, <) : n \in 0 .. NumEntries}
    /\ given \in SUBSET ToSet(list)
    /\ row = "none" /\ aged = FALSE
    /\ file = <<>>
    /\ manifest = FALSE /\ checkpoint = NoCheckpoint /\ pending = <<>>
    /\ uploads = <<>>
    /\ job = [k \in Jobs |-> NoJob]
    /\ requests = 0
    /\ faults = 0
    /\ tainted = FALSE /\ stale = FALSE

Fault == faults < MaxFaults /\ faults' = faults + 1
Alive(k) == job[k] # NoJob
AtWork(k) == Alive(k) /\ job[k].pc # "queued"
Free(k) == job[k] = NoJob /\ \A j \in Jobs : j < k => job[j] # NoJob
Goes(k, pc) == job' = [job EXCEPT ![k].pc = pc]
Ends(k) == job' = [job EXCEPT ![k] = NoJob]
SetRow(st) == row' = IF row = "none" THEN "none" ELSE st

(* UPDATE keeps CREATEDTIME: a row grows an hour old while an export runs.  *)
(* Only of a RUNNING row does anybody ask.                                  *)
Ages ==
    /\ row = "RUNNING" /\ ~aged
    /\ aged' = TRUE
    /\ UNCHANGED <<fixed, row, file, store, uploads, job, requests, faults, tainted, stale>>

(* getExportAllJobStatus, getCaImpactStatus.                                *)
PollStatus ==
    /\ row = "RUNNING" /\ aged
    /\ row' = "ERROR"
    /\ UNCHANGED <<fixed, aged, file, store, uploads, job, requests, faults, tainted, stale>>

Submits(k) == Free(k) /\ job' = [job EXCEPT ![k].pc = "queued"]

(* exportAllData, startCaImpactReport without a row: nothing is cleared.    *)
Export(k) ==
    /\ requests < MaxRequests
    /\ row = "none"
    /\ requests' = requests + 1
    /\ tainted' = (tainted \/ checkpoint # NoCheckpoint \/ \E j \in Jobs : Alive(j))
    /\ Submits(k)
    /\ UNCHANGED <<fixed, row, aged, file, store, uploads, faults, stale>>

(* The row is COMPLETED, NO_DATA, FAILED, ERROR or old: row, file and       *)
(* objects are deleted first.  A delete that fails is not missed.           *)
ExportAgain(k) ==
    /\ requests < MaxRequests
    /\ row # "none" /\ (row = "RUNNING" => aged)
    /\ requests' = requests + 1
    /\ \/ /\ row' = "none" /\ aged' = FALSE /\ file' = <<>>
          /\ manifest' = FALSE /\ checkpoint' = NoCheckpoint /\ pending' = <<>>
          /\ tainted' = \E j \in Jobs : Alive(j)
          /\ stale' = FALSE
          /\ UNCHANGED faults
       \/ /\ Fault
          /\ tainted' = TRUE
          /\ UNCHANGED stale
          /\ \/ file' = <<>> /\ manifest' = FALSE /\ checkpoint' = NoCheckpoint /\ pending' = <<>>
                /\ UNCHANGED <<row, aged>>
             \/ row' = "none" /\ aged' = FALSE /\ file' = <<>> /\ manifest' = FALSE /\ pending' = <<>>
                /\ UNCHANGED checkpoint
    /\ Submits(k)
    /\ UNCHANGED <<fixed, uploads>>

----------------------------------------------------------------------------
(* A run.                                                                   *)

(* Without a checkpoint: RUNNING, the list, a new upload, the header.  An   *)
(* empty list ends the holdings export as COMPLETED and the other as        *)
(* NO_DATA, both without a file.  The INSERT of the row may fail unseen.    *)
Begin(k) ==
    /\ job[k].pc = "queued" /\ checkpoint = NoCheckpoint
    /\ LET status == IF list # <<>> THEN "RUNNING" ELSE IF kind = "holdings" THEN "COMPLETED" ELSE "NO_DATA"
       IN \/ row' = status /\ aged' = (aged /\ row # "none") /\ UNCHANGED faults
          \/ Fault /\ SetRow(IF status = "RUNNING" THEN row ELSE status) /\ UNCHANGED aged
    /\ IF list = <<>>
       THEN Ends(k) /\ UNCHANGED <<manifest, uploads>>
       ELSE /\ manifest' = TRUE
            /\ uploads' = Append(uploads, <<>>)
            /\ job' = [job EXCEPT ![k] =
                 [pc |-> "entry", buf |-> <<Header>>,
                  cp |-> [cursor |-> 0, upload |-> Len(uploads) + 1, part |-> 1]]]
    /\ UNCHANGED <<fixed, file, checkpoint, pending, requests, tainted, stale>>

(* With one: the list must be there, and the saved buffer goes on.          *)
Resume(k) ==
    /\ job[k].pc = "queued" /\ checkpoint # NoCheckpoint
    /\ IF manifest
       THEN /\ row' = "RUNNING" /\ aged' = (aged /\ row # "none")
            /\ job' = [job EXCEPT ![k] = [cp |-> checkpoint, buf |-> pending,
                         pc |-> IF checkpoint.cursor < Len(list) THEN "entry" ELSE "complete"]]
       ELSE row' = "FAILED" /\ aged' = (aged /\ row # "none") /\ Ends(k)
    /\ UNCHANGED <<fixed, file, store, uploads, requests, faults, tainted, stale>>

IsLast(k) == job[k].cp.cursor >= Len(list)

(* The rows of an entry; a part is due when there are enough, and at the    *)
(* end.                                                                     *)
Entry(k) ==
    /\ job[k].pc = "entry"
    /\ LET e == list[job[k].cp.cursor + 1]
           buf == IF e \in given THEN Append(job[k].buf, e) ELSE job[k].buf
           due == Len(buf) >= PartSize \/ job[k].cp.cursor + 1 >= Len(list)
       IN job' = [job EXCEPT ![k].cp.cursor = @ + 1, ![k].buf = buf, ![k].pc = IF due THEN "part" ELSE "clock"]
    /\ UNCHANGED <<fixed, row, aged, file, store, uploads, requests, faults, tainted, stale>>

Put(parts, n, rows) == IF n <= Len(parts) THEN [parts EXCEPT ![n] = rows] ELSE Append(parts, rows)

(* uploadPart; a part number that is there is replaced.                     *)
UploadPart(k) ==
    /\ job[k].pc = "part"
    /\ IF job[k].buf = <<>>
       THEN Goes(k, "drop") /\ UNCHANGED uploads
       ELSE /\ uploads' = [uploads EXCEPT ![job[k].cp.upload] = Put(@, job[k].cp.part, job[k].buf)]
            /\ job' = [job EXCEPT ![k].cp.part = @ + 1, ![k].buf = <<>>, ![k].pc = "drop"]
    /\ UNCHANGED <<fixed, row, aged, file, store, requests, faults, tainted, stale>>

(* Every delete of the three objects goes through deleteStratusObjectSafe,  *)
(* which only logs that it failed: the object stays and the run goes on.    *)
(* savePendingBuffer("") is such a delete.                                  *)
Kept(object) == Fault /\ object' = object

DropPending(k) ==
    /\ job[k].pc = "drop"
    /\ \/ pending' = <<>> /\ UNCHANGED faults
       \/ Kept(pending)
    /\ Goes(k, "save")
    /\ UNCHANGED <<fixed, row, aged, file, manifest, checkpoint, uploads, requests, tainted, stale>>

SaveCheckpoint(k) ==
    /\ job[k].pc = "save"
    /\ checkpoint' = job[k].cp
    /\ Goes(k, IF IsLast(k) THEN "complete" ELSE "clock")
    /\ UNCHANGED <<fixed, row, aged, file, manifest, pending, uploads, requests, faults, tainted, stale>>

(* Mutant of OutOfTime: the buffer is not saved.                            *)
OutOfTimeBare(k) ==
    /\ job[k].pc = "clock"
    /\ Goes(k, "saveBaton")
    /\ UNCHANGED <<fixed, row, aged, file, store, uploads, requests, faults, tainted, stale>>

(* The clock between two entries.                                           *)
TimeLeft(k) ==
    /\ job[k].pc = "clock"
    /\ Goes(k, "entry")
    /\ UNCHANGED <<fixed, row, aged, file, store, uploads, requests, faults, tainted, stale>>

(* An empty rest is saved by deleting the object: if that fails, rows that  *)
(* an earlier handoff saved and a part has since taken are there for the    *)
(* successor.                                                               *)
OutOfTime(k) ==
    /\ job[k].pc = "clock"
    /\ \/ pending' = job[k].buf /\ UNCHANGED <<faults, stale>>
       \/ job[k].buf = <<>> /\ Kept(pending) /\ stale' = (stale \/ pending # <<>>)
    /\ Goes(k, "saveBaton")
    /\ UNCHANGED <<fixed, row, aged, file, manifest, checkpoint, uploads, requests, tainted>>

SaveBaton(k) ==
    /\ job[k].pc = "saveBaton"
    /\ checkpoint' = job[k].cp
    /\ Goes(k, "submit")
    /\ UNCHANGED <<fixed, row, aged, file, manifest, pending, uploads, requests, faults, tainted, stale>>

(* The successor; this run closes.  The call may throw over a job it        *)
(* submitted.                                                               *)
SubmitSelf(k) ==
    /\ job[k].pc = "submit"
    /\ \E n \in Jobs : Free(n) /\ job' = [job EXCEPT ![k] = NoJob, ![n].pc = "queued"]
    /\ \/ UNCHANGED <<row, faults>>
       \/ Fault /\ SetRow("FAILED")
    /\ UNCHANGED <<fixed, aged, file, store, uploads, requests, tainted, stale>>

(* completeMultipartUpload: the parts in their order.                       *)
Complete(k) ==
    /\ job[k].pc = "complete"
    /\ file' = FlattenSeq(uploads[job[k].cp.upload])
    /\ Goes(k, "clean")
    /\ UNCHANGED <<fixed, row, aged, store, uploads, requests, faults, tainted, stale>>

(* deleteExportArtifacts; then COMPLETED, which may fail unseen.            *)
Clean(k) ==
    /\ job[k].pc = "clean"
    /\ \/ manifest' = FALSE /\ checkpoint' = NoCheckpoint /\ pending' = <<>> /\ UNCHANGED faults
       \/ /\ Fault
          /\ manifest' \in {FALSE, manifest}
          /\ checkpoint' \in {NoCheckpoint, checkpoint}
          /\ pending' \in {<<>>, pending}
    /\ Goes(k, "mark")
    /\ UNCHANGED <<fixed, row, aged, file, uploads, requests, tainted, stale>>

Mark(k) ==
    /\ job[k].pc = "mark"
    /\ \/ SetRow("COMPLETED") /\ UNCHANGED faults
       \/ Fault /\ UNCHANGED row
    /\ Ends(k)
    /\ UNCHANGED <<fixed, aged, file, store, uploads, requests, tainted, stale>>

(* A call throws: FAILED.  There is no retry.  The deletes and the mark at  *)
(* the end do not throw.                                                    *)
Throws(k) ==
    /\ AtWork(k) /\ job[k].pc \notin {"drop", "clean", "mark"}
    /\ Fault
    /\ SetRow("FAILED")
    /\ Ends(k)
    /\ UNCHANGED <<fixed, aged, file, store, uploads, requests, tainted, stale>>

Killed(k) ==
    /\ AtWork(k)
    /\ Fault
    /\ Ends(k)
    /\ UNCHANGED <<fixed, row, aged, file, store, uploads, requests, tainted, stale>>

Run(k) ==
    \/ Begin(k) \/ Resume(k) \/ Entry(k) \/ UploadPart(k) \/ DropPending(k) \/ SaveCheckpoint(k)
    \/ TimeLeft(k) \/ OutOfTime(k) \/ SaveBaton(k) \/ SubmitSelf(k)
    \/ Complete(k) \/ Clean(k) \/ Mark(k) \/ Throws(k) \/ Killed(k)

Next ==
    \/ Ages \/ PollStatus
    \/ \E k \in Jobs : Export(k) \/ ExportAgain(k) \/ Run(k)

Spec == Init /\ [][Next]_vars

----------------------------------------------------------------------------
(* Properties.                                                              *)

(* The header, and the rows of every entry once, in the order of the list.  *)
Whole == <<Header>> \o SelectSeq(list, LAMBDA e : e \in given)

(* ExportAllCustomerHoldingData: the handoffs neither duplicate nor lose    *)
(* rows.  However an export was cut into runs and parts, whatever deletes   *)
(* of its saved rows failed unseen, and whatever runs that failed or were   *)
(* killed before it left behind, a file that is offered for download is     *)
(* whole, if its request found no other run alive and all its deletes went  *)
(* through; but the holdings export is COMPLETED without a file when there  *)
(* is nothing to list.  The exception is stale: two deletes failed in a     *)
(* run that was handed rows, the one after its part and the one at its own  *)
(* handoff, which had no rows left to write over them, and the successor    *)
(* takes the old rows for the rest of the buffer.                           *)
OfferedIsWhole ==
    row = "COMPLETED" /\ ~tainted /\ ~stale =>
       file = IF list = <<>> /\ kind = "holdings" THEN <<>> ELSE Whole
=============================================================================
