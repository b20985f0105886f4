------------------------- MODULE UploadPipelineProofs -------------------------
(* What an upload promises, for every number of callbacks, restarts and     *)
(* failing calls: it queues jobs for rows that are there only, follows a    *)
(* COMPLETED row up, lets nobody pass the check once something is queued,   *)
(* and never changes a final status while the poll is the only caller.      *)
EXTENDS UploadPipeline, FiniteSetTheorems, TLAPS

USE BoundsAssumption DEF Callers, Poll

Stage == {"idle", "done", "lost"} \union Active
Status == {"none", "RUNNING"} \union Terminal

(* TypeOK with a weaker bound on sent.                                      *)
Typed ==
    /\ hasPairs \in BOOLEAN
    /\ req \in InRequest \union Thrown \union {"answered", "rejected", "lost"}
    /\ job \in Status
    /\ bulk \in {"none", "in_progress", "completed", "failed"}
    /\ pc \in [Callers -> Stage]
    /\ seen \in [Callers -> Status]
    /\ sent \in [Downstream -> Nat]
    /\ crashes \in 0 .. MaxCrashes
    /\ errors \in 0 .. MaxErrors

(* Until the bulk job is created nobody has heard of it.                    *)
Quiet ==
    req \in InRequest =>
        /\ bulk = "none"
        /\ \A t \in Callers : pc[t] = "idle"
        /\ job \notin Terminal
        /\ req # "row" => job = "none"

(* Callers in the pipeline have seen the rows arrive, and so has whoever    *)
(* queued a job.                                                            *)
Imported ==
    /\ \A t \in Callers : pc[t] \in {"check"} \union Stages => bulk = "completed"
    /\ DispatchOnlyAfterImport

(* Without errors there is a Jobs row once there is a bulk job, and it is   *)
(* final once a caller has passed the mark.                                 *)
Marked ==
    errors = 0 =>
        /\ req = "row" \/ bulk # "none" => job # "none"
        /\ \A t \in Callers : pc[t] \in {"uscm", "chm", "ccb"} => job \in Terminal
        /\ \A k \in Downstream : sent[k] > 0 => job \in Terminal

(* With the poll alone, the status is open while the poll is at work.       *)
OpenWhilePolled ==
    OnlyPoll /\ pc[Poll] \in {"poll", "fail", "check", "mark"} => job \notin Terminal

(* Nobody polls for a request whose createJob threw, so that only a         *)
(* callback may complete its upload.                                        *)
Unpolled ==
    req \in Thrown => pc[Poll] = "idle" /\ (OnlyPoll => job # "COMPLETED")

IInv == Typed /\ Unpolled /\ Quiet /\ Imported /\ CompletedIsFollowedUp /\ Marked /\ OpenWhilePolled

LEMMA InitIInv == Init => IInv
<1> SUFFICES ASSUME Init PROVE IInv
    OBVIOUS
<1> USE DEF Init, Terminal
<1>1. Typed
    <2>1. pc \in [Callers -> Stage] /\ seen \in [Callers -> Status] /\ sent \in [Downstream -> Nat]
        BY DEF Stage, Status
    <2>2. crashes \in 0 .. MaxCrashes /\ errors \in 0 .. MaxErrors
        OBVIOUS
    <2>3. QED
        BY <2>1, <2>2 DEF Typed, Status, InRequest
<1>2. Quiet
    BY DEF Quiet, InRequest
<1>3. Marked
    <2>1. \A t \in Callers : pc[t] = "idle"
        OBVIOUS
    <2>2. \A k \in Downstream : sent[k] = 0
        OBVIOUS
    <2>3. QED
        BY <2>1, <2>2 DEF Marked
<1>4. Imported
    BY DEF Imported, DispatchOnlyAfterImport, Stages
<1>5. CompletedIsFollowedUp
    BY DEF CompletedIsFollowedUp
<1>6. OpenWhilePolled
    BY DEF OpenWhilePolled
<1>7. Unpolled
    BY DEF Unpolled, Thrown
<1>8. QED
    BY <1>1, <1>2, <1>3, <1>4, <1>5, <1>6, <1>7 DEF IInv

LEMMA RequestIInv ==
    ASSUME IInv, Reject \/ StoreObjects \/ EnsureRow \/ CreateBulk \/ CreateBulkFails \/ FailRequest
    PROVE  IInv'
<1> USE DEF InRequest, Terminal, Status, Error, SetJob, Thrown
<1>1. Typed'
    BY DEF IInv, Typed, Reject, StoreObjects, EnsureRow, CreateBulk, CreateBulkFails, FailRequest, Goto,
           Stage, Active
<1>2. Quiet'
    BY DEF IInv, Typed, Quiet, Reject, StoreObjects, EnsureRow, CreateBulk, CreateBulkFails, FailRequest
<1>3. Imported'
    BY DEF IInv, Typed, Quiet, Imported, DispatchOnlyAfterImport, Stages,
           Reject, StoreObjects, EnsureRow, CreateBulk, CreateBulkFails, FailRequest, Goto
<1>4. CompletedIsFollowedUp'
    BY DEF IInv, Typed, Quiet, CompletedIsFollowedUp, Wanted,
           Reject, StoreObjects, EnsureRow, CreateBulk, CreateBulkFails, FailRequest
<1>5. Marked'
    BY DEF IInv, Typed, Quiet, Imported, DispatchOnlyAfterImport, Marked,
           Reject, StoreObjects, EnsureRow, CreateBulk, CreateBulkFails, FailRequest, Goto
<1>6. OpenWhilePolled'
    BY DEF IInv, Typed, Quiet, Unpolled, OpenWhilePolled, OnlyPoll,
           Reject, StoreObjects, EnsureRow, CreateBulk, CreateBulkFails, FailRequest, Goto
<1>7. Unpolled'
    BY DEF IInv, Typed, Unpolled, Quiet, OnlyPoll, Reject, StoreObjects, EnsureRow, CreateBulk,
           CreateBulkFails, FailRequest
<1>8. QED
    BY <1>1, <1>2, <1>3, <1>4, <1>5, <1>6, <1>7 DEF IInv

(* The bulk job, the poll and the callbacks until they enter the pipeline.  *)
LEMMA HearIInv ==
    ASSUME IInv, NEW t \in Callers,
           BulkEnds \/ PollSees \/ PollTimesOut \/ Callback(t)
    PROVE  IInv'
<1> USE DEF BulkEnds, PollSees, PollTimesOut, Callback, Goto
<1>1. Typed'
    BY DEF IInv, Typed, Stage, Active
<1>2. Quiet'
    BY DEF IInv, Typed, Quiet, InRequest
<1>3. Imported'
    BY DEF IInv, Typed, Imported, DispatchOnlyAfterImport, Stages
<1>4. CompletedIsFollowedUp'
    <2> SUFFICES ASSUME job' = "COMPLETED", crashes' = 0, errors' = 0, NEW k \in Wanted
                 PROVE  sent'[k] > 0 \/ \E u \in Callers : pc'[u] \in Before(k)
        BY DEF CompletedIsFollowedUp, Wanted
    <2>1. sent[k] > 0 \/ \E u \in Callers : pc[u] \in Before(k)
        BY DEF IInv, CompletedIsFollowedUp
    <2>2. CASE sent[k] > 0
        BY <2>2
    <2>3. ASSUME NEW u \in Callers, pc[u] \in Before(k)
          PROVE  pc'[u] \in Before(k)
        BY <2>3 DEF IInv, Typed, Before
    <2>4. QED
        BY <2>1, <2>2, <2>3
<1>5. Marked'
    BY DEF IInv, Typed, Marked
<1>6. OpenWhilePolled'
    BY DEF IInv, Typed, Quiet, InRequest, OpenWhilePolled, OnlyPoll
<1>7. Unpolled'
    BY DEF IInv, Typed, Unpolled, OnlyPoll
<1>8. QED
    BY <1>1, <1>2, <1>3, <1>4, <1>5, <1>6, <1>7 DEF IInv

(* The end of the pipeline: a failure, or the check and the mark.           *)
LEMMA StatusIInv ==
    ASSUME IInv, NEW t \in Callers, Fail(t) \/ Check(t) \/ Mark(t)
    PROVE  IInv'
<1> USE DEF Fail, Check, Mark, Goto, SetJob, Error
<1>1. Typed'
    BY DEF IInv, Typed, Stage, Active, Stages, Status, Terminal
<1>2. Quiet'
    BY DEF IInv, Typed, Quiet, InRequest
<1>3. Imported'
    BY DEF IInv, Typed, Imported, DispatchOnlyAfterImport, Stages
<1>4. CompletedIsFollowedUp'
    <2> SUFFICES ASSUME job' = "COMPLETED", crashes' = 0, errors' = 0, NEW k \in Wanted
                 PROVE  sent'[k] > 0 \/ \E u \in Callers : pc'[u] \in Before(k)
        BY DEF CompletedIsFollowedUp, Wanted
    <2>1. CASE Mark(t)
        BY <2>1 DEF IInv, Typed, Before
    <2>2. CASE Fail(t) \/ Check(t)
        <3>1. job = "COMPLETED" /\ errors = 0 /\ k \in Wanted
            BY <2>2 DEF IInv, Typed, Wanted
        <3>2. sent[k] > 0 \/ \E u \in Callers : pc[u] \in Before(k)
            BY <3>1, <2>2 DEF IInv, CompletedIsFollowedUp
        <3>3. ASSUME NEW u \in Callers, pc[u] \in Before(k)
              PROVE  pc'[u] \in Before(k)
            BY <2>2, <3>3 DEF IInv, Typed, Before
        <3>4. QED
            BY <2>2, <3>2, <3>3
    <2>3. QED
        BY <2>1, <2>2
<1>5. Marked'
    BY DEF IInv, Typed, Imported, Stages, Marked, Terminal
<1>6. OpenWhilePolled'
    BY DEF IInv, Typed, Quiet, InRequest, OpenWhilePolled, OnlyPoll, Terminal
<1>7. Unpolled'
    BY DEF IInv, Typed, Unpolled, OnlyPoll, Stages
<1>8. QED
    BY <1>1, <1>2, <1>3, <1>4, <1>5, <1>6, <1>7 DEF IInv

(* The three downstream jobs.                                               *)
LEMMA SubmitIInv ==
    ASSUME IInv, NEW t \in Callers, SubmitMasters(t) \/ SubmitHoldings(t) \/ SubmitCash(t)
    PROVE  IInv'
<1> USE DEF SubmitMasters, SubmitHoldings, SubmitCash, Goto, Submit, Error
<1>1. Typed'
    <2>1. pc' \in [Callers -> Stage]
        BY DEF IInv, Typed, Stage, Active, Stages
    <2>2. sent' \in [Downstream -> Nat]
        BY DEF IInv, Typed
    <2>3. errors' \in 0 .. MaxErrors
        BY DEF IInv, Typed
    <2>4. QED
        BY <2>1, <2>2, <2>3 DEF IInv, Typed
<1>2. Quiet'
    BY DEF IInv, Typed, Quiet, InRequest
<1>3. Imported'
    BY DEF IInv, Typed, Imported, DispatchOnlyAfterImport, Stages
<1>4. CompletedIsFollowedUp'
    <2> SUFFICES ASSUME job' = "COMPLETED", crashes' = 0, errors' = 0, NEW k \in Wanted
                 PROVE  sent'[k] > 0 \/ \E u \in Callers : pc'[u] \in Before(k)
        BY DEF CompletedIsFollowedUp, Wanted
    <2>1. sent[k] > 0 \/ \E u \in Callers : pc[u] \in Before(k)
        BY DEF IInv, Typed, CompletedIsFollowedUp
    <2>2. CASE sent[k] > 0
        BY <2>2 DEF IInv, Typed, Downstream, Wanted
    <2>3. ASSUME NEW u \in Callers, pc[u] \in Before(k), sent'[k] = 0
          PROVE  pc'[u] \in Before(k)
        BY <2>3 DEF IInv, Typed, Before, Downstream, Wanted
    <2>4. QED
        BY <2>1, <2>2, <2>3 DEF IInv, Typed, Downstream, Wanted
<1>5. Marked'
    BY DEF IInv, Typed, Imported, Stages, Marked
<1>6. OpenWhilePolled'
    BY DEF IInv, Typed, Quiet, InRequest, OpenWhilePolled, OnlyPoll
<1>7. Unpolled'
    BY DEF IInv, Typed, Unpolled, OnlyPoll
<1>8. QED
    BY <1>1, <1>2, <1>3, <1>4, <1>5, <1>6, <1>7 DEF IInv

(* A restart only takes callers out of the pipeline.                        *)
LEMMA CrashIInv == IInv /\ Crash => IInv'
<1> SUFFICES ASSUME IInv, Crash PROVE IInv'
    OBVIOUS
<1> USE DEF Crash
<1>1. Typed'
    BY DEF IInv, Typed, Stage, InRequest, Thrown
<1>2. Quiet'
    BY DEF IInv, Typed, Quiet, InRequest
<1>3. Imported'
    BY DEF IInv, Typed, Imported, DispatchOnlyAfterImport, Stages
<1>4. CompletedIsFollowedUp'
    BY DEF IInv, Typed, CompletedIsFollowedUp
<1>5. Marked'
    BY DEF IInv, Typed, Marked, InRequest
<1>6. OpenWhilePolled'
    BY DEF IInv, Typed, OpenWhilePolled, OnlyPoll, Active, Stages
<1>7. Unpolled'
    BY DEF IInv, Typed, Unpolled, OnlyPoll, InRequest, Thrown, Active
<1>8. QED
    BY <1>1, <1>2, <1>3, <1>4, <1>5, <1>6, <1>7 DEF IInv

LEMMA StutterIInv == IInv /\ UNCHANGED vars => IInv'
BY DEF vars, IInv, Typed, Unpolled, Quiet, Imported, DispatchOnlyAfterImport, CompletedIsFollowedUp, Wanted,
       Marked, OpenWhilePolled, OnlyPoll

LEMMA Inductive == Spec => []IInv
<1>1. IInv /\ [Next]_vars => IInv'
    <2> SUFFICES ASSUME IInv, [Next]_vars PROVE IInv'
        OBVIOUS
    <2>1. CASE Reject \/ StoreObjects \/ EnsureRow \/ CreateBulk \/ CreateBulkFails \/ FailRequest
        BY <2>1, RequestIInv
    <2>2. CASE BulkEnds \/ PollSees \/ PollTimesOut
        BY <2>2, HearIInv
    <2>3. ASSUME NEW t \in Callers, CallerStep(t) PROVE IInv'
        BY <2>3, HearIInv, StatusIInv, SubmitIInv DEF CallerStep
    <2>4. CASE Crash
        BY <2>4, CrashIInv
    <2>5. CASE UNCHANGED vars
        BY <2>5, StutterIInv
    <2>6. QED
        BY <2>1, <2>2, <2>3, <2>4, <2>5 DEF Next
<1>2. QED
    BY InitIInv, <1>1, PTL DEF Spec

(* Nothing is queued for rows that are not in the table.                    *)
THEOREM DispatchIsSafe == Spec => []DispatchOnlyAfterImport
<1>1. IInv => DispatchOnlyAfterImport
    BY DEF IInv, Imported
<1>2. QED
    BY Inductive, <1>1, PTL

(* A COMPLETED row is followed up.                                          *)
THEOREM CompletedIsNoLie == Spec => []CompletedIsFollowedUp
<1>1. IInv => CompletedIsFollowedUp
    BY DEF IInv
<1>2. QED
    BY Inductive, <1>1, PTL

(* Whoever passes the check does so before anything was queued.             *)
THEOREM WindowCloses == Spec => WindowClosesAtMark
<1>1. IInv /\ [Next]_vars => [\A t \in Callers :
          (pc[t] = "check" /\ pc'[t] = "mark" /\ errors' = 0)
              => \A k \in Downstream : sent[k] = 0]_vars
    <2> SUFFICES ASSUME IInv, Next, NEW t \in Callers,
                        pc[t] = "check", pc'[t] = "mark", errors' = 0,
                        NEW k \in Downstream
                 PROVE  sent[k] = 0
        OBVIOUS
    <2>1. Check(t)
        BY DEF Next, CallerStep, Reject, StoreObjects, EnsureRow, CreateBulk, CreateBulkFails, FailRequest,
               BulkEnds, PollSees, PollTimesOut, Callback, Fail, Check, Mark, SubmitMasters,
               SubmitHoldings, SubmitCash, Crash, Goto, IInv, Typed, Stage
    <2>2. errors = 0 /\ seen'[t] = job /\ job \in {"none", "RUNNING"}
        BY <2>1 DEF Check, Goto, Error, IInv, Typed
    <2>3. QED
        BY <2>2 DEF IInv, Typed, Marked, Terminal
<1>2. QED
    BY Inductive, <1>1, PTL DEF Spec, WindowClosesAtMark

(* With the poll alone, a final status stays.                               *)
THEOREM FinalStatusStays == Spec => FinalStatusIsFinal
<1>1. IInv /\ [Next]_vars => [(OnlyPoll /\ job \in Terminal) => (job' = job)]_job
    <2> SUFFICES ASSUME IInv, [Next]_vars, OnlyPoll, job \in Terminal PROVE job' = job
        OBVIOUS
    <2>1. ASSUME NEW t \in Callers, Fail(t) \/ Mark(t) PROVE job' = job
        BY <2>1 DEF Fail, Mark, OnlyPoll, IInv, OpenWhilePolled
    <2>4. CASE FailRequest
        BY <2>4 DEF FailRequest, SetJob, Thrown, IInv, Unpolled, Terminal
    <2>2. CASE EnsureRow \/ CreateBulkFails
        BY <2>2 DEF IInv, Quiet, InRequest, EnsureRow, CreateBulkFails
    <2>3. QED
        BY <2>1, <2>2, <2>4 DEF Next, CallerStep, vars, Reject, StoreObjects, CreateBulk,
               BulkEnds, PollSees, PollTimesOut, Callback, Check, SubmitMasters,
               SubmitHoldings, SubmitCash, Crash
<1>2. QED
    BY Inductive, <1>1, PTL DEF Spec, FinalStatusIsFinal

----------------------------------------------------------------------------
(* The bound on sent: every caller queues a job at most once.               *)

(* Callers that are past the queueing of k, or never get there.             *)
Past(k) ==
    {t \in Callers : pc[t] \in {"done", "lost"} \union (IF k = CCB THEN {} ELSE {"ccb"})
                                               \union (IF k = USCM THEN {"chm"} ELSE {})}

Counted == \A k \in Downstream : sent[k] <= Cardinality(Past(k))

LEMMA FewCallers ==
    ASSUME NEW S, S \subseteq Callers
    PROVE  IsFiniteSet(S) /\ Cardinality(S) \in Nat /\ Cardinality(S) <= MaxCallbacks + 1
<1>1. IsFiniteSet(Callers) /\ Cardinality(Callers) = MaxCallbacks + 1
    BY FS_Interval
<1>2. QED
    BY <1>1, FS_Subset, FS_CardinalityType

(* No step takes a caller back before a job it has passed.                  *)
LEMMA PastGrows ==
    ASSUME IInv, Next, NEW k \in Downstream
    PROVE  Past(k) \subseteq Past(k)'
<1>1. \A t \in Callers : pc'[t] = pc[t] \/ t \notin Past(k) \/ t \in Past(k)'
    <2>1. CASE Reject \/ StoreObjects \/ EnsureRow \/ CreateBulk \/ CreateBulkFails \/ FailRequest
        BY <2>1 DEF Reject, StoreObjects, EnsureRow, CreateBulk, CreateBulkFails, FailRequest, Thrown, Goto,
                    IInv, Typed, Quiet, InRequest, Past
    <2>2. CASE BulkEnds \/ PollSees \/ PollTimesOut
        BY <2>2 DEF BulkEnds, PollSees, PollTimesOut, Goto, IInv, Typed, Past
    <2>3. ASSUME NEW t \in Callers, Callback(t) \/ Fail(t) \/ Check(t) \/ Mark(t)
          PROVE  <1>1!:
        BY <2>3 DEF Callback, Fail, Check, Mark, Goto, IInv, Typed, Past
    <2>4. ASSUME NEW t \in Callers, SubmitMasters(t) \/ SubmitHoldings(t) \/ SubmitCash(t)
          PROVE  <1>1!:
        BY <2>4 DEF SubmitMasters, SubmitHoldings, SubmitCash, Goto, IInv, Typed, Past,
                    Downstream, USCM, CHM, CCB
    <2>5. CASE Crash
        BY <2>5 DEF Crash, Past
    <2>6. QED
        BY <2>1, <2>2, <2>3, <2>4, <2>5 DEF Next, CallerStep
<1>2. QED
    BY <1>1 DEF Past

(* Whoever queues a job has passed it.                                      *)
LEMMA SentOnce ==
    ASSUME IInv, Next, NEW k \in Downstream
    PROVE  \/ sent'[k] = sent[k]
           \/ sent'[k] = sent[k] + 1 /\ \E t \in Callers : t \notin Past(k) /\ t \in Past(k)'
<1>1. ASSUME NEW t \in Callers, SubmitMasters(t)
      PROVE  sent'[k] = sent[k] \/ (k = USCM /\ sent'[k] = sent[k] + 1 /\ t \notin Past(k) /\ t \in Past(k)')
    BY <1>1 DEF SubmitMasters, Submit, Goto, IInv, Typed, Past, USCM, CHM, CCB, Downstream
<1>2. ASSUME NEW t \in Callers, SubmitHoldings(t)
      PROVE  sent'[k] = sent[k] \/ (k = CHM /\ sent'[k] = sent[k] + 1 /\ t \notin Past(k) /\ t \in Past(k)')
    BY <1>2 DEF SubmitHoldings, Submit, Goto, IInv, Typed, Past, USCM, CHM, CCB, Downstream
<1>3. ASSUME NEW t \in Callers, SubmitCash(t)
      PROVE  sent'[k] = sent[k] \/ (k = CCB /\ sent'[k] = sent[k] + 1 /\ t \notin Past(k) /\ t \in Past(k)')
    BY <1>3 DEF SubmitCash, Submit, Goto, IInv, Typed, Past, USCM, CHM, CCB, Downstream
<1>4. QED
    BY <1>1, <1>2, <1>3 DEF Next, CallerStep, Reject, StoreObjects, EnsureRow, CreateBulk,
           CreateBulkFails, FailRequest, BulkEnds, PollSees, PollTimesOut, Callback, Fail, Check, Mark, Crash

LEMMA StepCounted == IInv /\ Counted /\ [Next]_vars => Counted'
<1> SUFFICES ASSUME IInv, Counted, [Next]_vars, NEW k \in Downstream
             PROVE  sent'[k] <= Cardinality(Past(k)')
    BY DEF Counted
<1>1. sent[k] \in Nat /\ sent[k] <= Cardinality(Past(k))
    BY DEF IInv, Typed, Counted
<1>2. /\ IsFiniteSet(Past(k)) /\ Cardinality(Past(k)) \in Nat
      /\ IsFiniteSet(Past(k)') /\ Cardinality(Past(k)') \in Nat
    BY FewCallers DEF Past
<1>3. CASE UNCHANGED vars
    BY <1>1, <1>3 DEF vars, Past
<1>4. CASE Next
    <2>1. Past(k) \subseteq Past(k)'
        BY <1>4, PastGrows
    <2>2. Cardinality(Past(k)) <= Cardinality(Past(k)')
        BY <1>2, <2>1, FS_Subset
    <2>3. CASE sent'[k] = sent[k]
        BY <2>2, <2>3, <1>1, <1>2
    <2>4. CASE sent'[k] = sent[k] + 1 /\ \E t \in Callers : t \notin Past(k) /\ t \in Past(k)'
        <3>1. Past(k) # Past(k)'
            BY <2>4
        <3>2. Cardinality(Past(k)) < Cardinality(Past(k)')
            BY <1>2, <2>1, <3>1, FS_Subset
        <3>3. QED
            BY <3>2, <2>4, <1>1, <1>2
    <2>5. QED
        BY <1>4, <2>3, <2>4, SentOnce
<1>5. QED
    BY <1>3, <1>4

(* The type invariant.                                                      *)
THEOREM TypeCorrect == Spec => []TypeOK
<1>1. Init => Counted
    <2> SUFFICES ASSUME Init, NEW k \in Downstream PROVE sent[k] <= Cardinality(Past(k))
        BY DEF Counted
    <2>1. Cardinality(Past(k)) \in Nat
        BY FewCallers DEF Past
    <2>2. sent[k] = 0
        BY DEF Init
    <2>3. QED
        BY <2>1, <2>2
<1>2. IInv /\ Counted => TypeOK
    <2> SUFFICES ASSUME IInv, Counted PROVE TypeOK
        OBVIOUS
    <2>1. sent \in [Downstream -> 0 .. MaxCallbacks + 1]
        <3>1. \A k \in Downstream : sent[k] \in 0 .. MaxCallbacks + 1
            <4> TAKE k \in Downstream
            <4>1. sent[k] \in Nat /\ sent[k] <= Cardinality(Past(k))
                BY DEF IInv, Typed, Counted
            <4>2. Cardinality(Past(k)) \in Nat /\ Cardinality(Past(k)) <= MaxCallbacks + 1
                BY FewCallers DEF Past
            <4>3. QED
                BY <4>1, <4>2
        <3>2. QED
            BY <3>1 DEF IInv, Typed
    <2>2. QED
        BY <2>1 DEF IInv, Typed, TypeOK, Stage, Status
<1>3. QED
    BY Inductive, StepCounted, <1>1, <1>2, PTL DEF Spec
===============================================================================
