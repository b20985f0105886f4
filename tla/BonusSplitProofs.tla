--------------------------- MODULE BonusSplitProofs ---------------------------
(* Type correctness of the bonus and split jobs, that COMPLETED means all   *)
(* with a share in any case have it, that nobody gets it twice, and what a  *)
(* bonus or a split leaves owed - rebuilds, the resizing of rows - is paid  *)
(* when all is quiet, for every number of accounts, requests, jobs, retries *)
(* and faults.                                                              *)
EXTENDS BonusSplit, SequenceTheorems, TLAPS

USE HoldersAssumption, BonusBoundsAssumption DEF Accounts, Requests, Runs

----------------------------------------------------------------------------
(* The type.                                                                *)

(* In the account loop a run has an account at hand.                        *)
Walk == {"account", "check", "write", "update", "mark"}
AtHand(rec) == rec.pc \in Walk => rec.left # <<>>

(* A request that submits recomputations has one to submit.                 *)
Asking(rec) == rec.pc = "recompute" => rec.todo > 0

StrongType ==
    /\ TypeOK
    /\ \A r \in Runs : AtHand(run[r])
    /\ \A c \in Requests : Asking(req[c])

LEMMA NewRunType ==
    ASSUME NEW name \in JobNames
    PROVE  NewRun(name) \in Run
<1>1. <<>> \in Seq(Accounts)
    OBVIOUS
<1>2. 0 \in 0 .. MaxRetries
    OBVIOUS
<1>3. QED
    BY <1>1, <1>2 DEF NewRun, Run

LEMMA NoneType ==
    /\ NoRun \in Run
    /\ NoRow \in JobRow
    /\ NoRequest \in Request
<1>1. NewRun(Apply) \in Run
    BY NewRunType DEF JobNames
<1>2. NoRun \in Run
    BY <1>1 DEF NoRun, Run
<1>3. NoRow \in JobRow
    BY DEF NoRow, JobRow, Status
<1>4. NoRequest \in Request
    BY <1>3 DEF NoRequest, Request
<1>5. QED
    BY <1>2, <1>3, <1>4

LEMMA AccountsInOrder == [a \in Accounts |-> a] \in Seq(Accounts) /\ [a \in Accounts |-> a] # <<>>
<1>1. [a \in 1 .. NumAccounts |-> a] \in [1 .. NumAccounts -> Accounts]
    OBVIOUS
<1>2. [a \in Accounts |-> a] \in Seq(Accounts)
    BY <1>1, SeqDef
<1>3. Len([a \in Accounts |-> a]) = NumAccounts
    BY <1>2
<1>4. QED
    BY <1>2, <1>3

LEMMA InitType == Init => TypeOK
<1> SUFFICES ASSUME Init PROVE TypeOK
    OBVIOUS
<1>1. bonus \in [Accounts -> Seq(Nat)] /\ behind \subseteq Accounts /\ mishap \subseteq Mishaps
    BY DEF Init
<1>2. jobs \in JobRow /\ req \in [Requests -> Request] /\ run \in [Runs -> Run]
    BY NoneType DEF Init
<1>3. QED
    BY <1>1, <1>2 DEF Init, TypeOK

(* A step of a request only replaces its own record.                        *)
LEMMA GotoType ==
    ASSUME TypeOK, NEW c \in Requests, NEW rec \in Request, Goto(c, rec)
    PROVE  req' \in [Requests -> Request]
BY DEF TypeOK, Goto

LEMMA AnswerType ==
    ASSUME TypeOK, NEW c \in Requests, Answer(c)
    PROVE  req' \in [Requests -> Request]
BY NoneType DEF TypeOK, Answer, Request

LEMMA BecomeType ==
    ASSUME TypeOK, NEW r \in Runs, NEW rec \in Run, Become(r, rec)
    PROVE  run' \in [Runs -> Run]
BY DEF TypeOK, Become

LEMMA FaultType ==
    ASSUME TypeOK, Fault \/ UNCHANGED faults
    PROVE  faults' \in 0 .. MaxFaults
BY DEF TypeOK, Fault

LEMMA RequestBonusType ==
    ASSUME TypeOK, NEW c \in Requests, RequestBonus(c)
    PROVE  TypeOK'
<1>1. req' \in [Requests -> Request]
    <2>1. CASE Answer(c)
        BY <2>1, AnswerType
    <2>2. ASSUME NEW pc \in {"clear", "submit"}, Goto(c, [NoRequest EXCEPT !.pc = pc, !.seen = jobs])
          PROVE  req' \in [Requests -> Request]
        <3>1. [NoRequest EXCEPT !.pc = pc, !.seen = jobs] \in Request
            BY NoneType DEF TypeOK, Request
        <3>2. QED
            BY <2>2, <3>1, GotoType
    <2>3. QED
        BY <2>1, <2>2 DEF RequestBonus
<1>2. faults' \in 0 .. MaxFaults
    BY FaultType DEF RequestBonus, Stale
<1>3. QED
    BY <1>1, <1>2 DEF TypeOK, RequestBonus, tables
LEMMA InitStrongType == Init => StrongType
BY InitType DEF StrongType, Init, AtHand, Walk, NoRun, NewRun, Asking, NoRequest

(* What the other actions of requests and the status poll leave typed.      *)
LEMMA RequestStepType ==
    ASSUME TypeOK, NEW c \in Requests,
           ClearJob(c) \/ RequestFails(c) \/ RequestSplit(c) \/ InsertSplit(c) \/ InsertFails(c)
             \/ QueueSplitRebuilds(c) \/ ReadRecords(c) \/ RecomputeNotSubmitted(c)
    PROVE  TypeOK'
<1>0. req[c] \in Request
    BY DEF TypeOK
<1>1. CASE ClearJob(c)
    <2>1. [req[c] EXCEPT !.pc = "submit"] \in Request
        BY <1>0 DEF Request
    <2>2. req' \in [Requests -> Request] /\ faults' \in 0 .. MaxFaults
        BY <1>1, <2>1, GotoType, FaultType DEF ClearJob
    <2>3. jobs' \in JobRow
        BY <1>1, NoneType DEF ClearJob, TypeOK
    <2>4. QED
        BY <1>1, <2>2, <2>3 DEF ClearJob, TypeOK, tables
<1>2. CASE RequestFails(c)
    <2>1. req' \in [Requests -> Request] /\ faults' \in 0 .. MaxFaults
        BY <1>2, AnswerType, FaultType DEF RequestFails
    <2>2. mishap' \subseteq Mishaps
        BY <1>2 DEF RequestFails, TypeOK, Mishaps
    <2>3. QED
        BY <1>2, <2>1, <2>2 DEF RequestFails, TypeOK, tables
<1>3. CASE RequestSplit(c)
    <2>1. [NoRequest EXCEPT !.pc = "insert"] \in Request
        BY NoneType DEF Request
    <2>2. req' \in [Requests -> Request]
        BY <1>3, <2>1, GotoType, AnswerType DEF RequestSplit
    <2>3. QED
        BY <1>3, <2>2 DEF RequestSplit, TypeOK, tables
<1>4. CASE InsertSplit(c)
    <2>1. [req[c] EXCEPT !.pc = "queue"] \in Request
        BY <1>0 DEF Request
    <2>2. req' \in [Requests -> Request]
        BY <1>4, <2>1, GotoType DEF InsertSplit
    <2>3. splits' \in Nat /\ behind' \subseteq Accounts /\ mishap' \subseteq Mishaps
        BY <1>4 DEF InsertSplit, TypeOK, Mishaps
    <2>4. QED
        BY <1>4, <2>2, <2>3 DEF InsertSplit, TypeOK
<1>5. CASE QueueSplitRebuilds(c)
    <2>1. [req[c] EXCEPT !.pc = "records"] \in Request
        BY <1>0 DEF Request
    <2>2. req' \in [Requests -> Request]
        BY <1>5, <2>1, GotoType DEF QueueSplitRebuilds
    <2>3. QED
        BY <1>5, <2>2 DEF QueueSplitRebuilds, TypeOK
<1>6. CASE ReadRecords(c)
    <2>1. [req[c] EXCEPT !.pc = "recompute", !.todo = record] \in Request
        BY <1>0 DEF Request, TypeOK
    <2>2. req' \in [Requests -> Request] /\ faults' \in 0 .. MaxFaults
        BY <1>6, <2>1, GotoType, AnswerType, FaultType DEF ReadRecords
    <2>3. mishap' \subseteq Mishaps
        BY <1>6 DEF ReadRecords, TypeOK, Mishaps
    <2>4. QED
        BY <1>6, <2>2, <2>3 DEF ReadRecords, TypeOK, tables
<1>7. CASE RecomputeNotSubmitted(c)
    <2>1. req' \in [Requests -> Request] /\ faults' \in 0 .. MaxFaults
        BY <1>7, AnswerType, FaultType DEF RecomputeNotSubmitted
    <2>2. mishap' \subseteq Mishaps
        BY <1>7 DEF RecomputeNotSubmitted, TypeOK, Mishaps
    <2>3. QED
        BY <1>7, <2>1, <2>2 DEF RecomputeNotSubmitted, TypeOK, tables
<1>8. CASE InsertFails(c)
    <2>1. req' \in [Requests -> Request] /\ faults' \in 0 .. MaxFaults
        BY <1>8, AnswerType, FaultType DEF InsertFails
    <2>2. splits' \in Nat /\ behind' \subseteq Accounts
        <3>1. splits \in Nat /\ behind \subseteq Accounts
            BY DEF TypeOK
        <3>2. CASE splits' = splits + 1 /\ behind' = Accounts
            BY <3>1, <3>2
        <3>3. CASE UNCHANGED <<splits, behind, mishap>>
            BY <3>1, <3>3
        <3>4. QED
            BY <1>8, <3>2, <3>3 DEF InsertFails
    <2>4. mishap' \subseteq mishap \union {"cut", "unqueued", "raced"}
        BY <1>8 DEF InsertFails
    <2>5. mishap' \subseteq Mishaps
        BY <2>4 DEF TypeOK, Mishaps
    <2>3. QED
        BY <1>8, <2>1, <2>2, <2>5 DEF InsertFails, TypeOK
<1>9. QED
    BY <1>1, <1>2, <1>3, <1>4, <1>5, <1>6, <1>7, <1>8

LEMMA SubmitType ==
    ASSUME StrongType, NEW c \in Requests, NEW r \in Runs,
           SubmitBonus(c, r) \/ SubmitRecompute(c, r)
    PROVE  TypeOK'
<1>0. TypeOK
    BY DEF StrongType
<1>1. CASE SubmitBonus(c, r)
    <2>1. run' \in [Runs -> Run]
        BY <1>0, <1>1, NewRunType DEF SubmitBonus, TypeOK, JobNames
    <2>2. req' \in [Requests -> Request]
        BY <1>0, <1>1, AnswerType DEF SubmitBonus
    <2>3. mishap' \subseteq Mishaps
        BY <1>0, <1>1 DEF SubmitBonus, TypeOK, Mishaps
    <2>4. QED
        BY <1>0, <1>1, <2>1, <2>2, <2>3 DEF SubmitBonus, TypeOK, tables
<1>2. CASE SubmitRecompute(c, r)
    <2>1. run' \in [Runs -> Run]
        BY <1>0, <1>2, NewRunType DEF SubmitRecompute, TypeOK, JobNames
    <2>2. req[c] \in Request
        BY <1>0 DEF TypeOK
    <2>3. req' \in [Requests -> Request]
        <3>1. CASE Answer(c)
            BY <1>0, <3>1, AnswerType
        <3>2. CASE Goto(c, [req[c] EXCEPT !.todo = @ - 1])
            <4>1. req[c].todo > 0
                BY <1>2 DEF StrongType, Asking, SubmitRecompute
            <4>2. [req[c] EXCEPT !.todo = @ - 1] \in Request
                BY <2>2, <4>1 DEF Request
            <4>3. QED
                BY <1>0, <3>2, <4>2, GotoType
        <3>3. QED
            BY <1>2, <3>1, <3>2 DEF SubmitRecompute
    <2>4. mishap' \subseteq Mishaps
        BY <1>0, <1>2 DEF SubmitRecompute, TypeOK, Mishaps
    <2>5. QED
        BY <1>0, <1>2, <2>1, <2>3, <2>4 DEF SubmitRecompute, TypeOK, tables
<1>3. QED
    BY <1>1, <1>2

LEMMA PollType == ASSUME TypeOK, PollStatus PROVE TypeOK'
<1>1. jobs' \in JobRow
    BY DEF PollStatus, TypeOK, JobRow, Status
<1>2. faults' \in 0 .. MaxFaults
    BY FaultType DEF PollStatus, Stale
<1>3. QED
    BY <1>1, <1>2 DEF PollStatus, TypeOK, tables
(* The account at hand, and the one after it.                               *)
LEMMA HereType ==
    ASSUME StrongType, NEW r \in Runs, run[r].pc \in Walk
    PROVE  /\ run[r].left \in Seq(Accounts) /\ run[r].left # <<>>
           /\ Here(r) \in Accounts
           /\ Tail(run[r].left) \in Seq(Accounts)
<1>1. run[r] \in Run /\ AtHand(run[r])
    BY DEF StrongType, TypeOK
<1>2. run[r].left \in Seq(Accounts) /\ run[r].left # <<>>
    BY <1>1 DEF Run, AtHand
<1>3. QED
    BY <1>2, HeadTailProperties DEF Here

LEMMA NextAccountType ==
    ASSUME StrongType, NEW r \in Runs, run[r].pc \in Walk
    PROVE  NextAccount(run[r]) \in Run
<1>1. run[r] \in Run
    BY DEF StrongType, TypeOK
<1>2. QED
    BY <1>1, HereType DEF NextAccount, Run

LEMMA SizedType ==
    ASSUME StrongType, NEW r \in Runs, run[r].pc \in {"write", "update"}
    PROVE  Sized(r) \in Seq(Nat)
<1>1. Here(r) \in Accounts
    BY HereType DEF Walk
<1>2. bonus[Here(r)] \in Seq(Nat) /\ run[r].known \in Nat
    BY <1>1 DEF StrongType, TypeOK, Run
<1>3. CASE run[r].pc = "update"
    <2>1. DOMAIN bonus[Here(r)] = 1 .. Len(bonus[Here(r)]) /\ Len(bonus[Here(r)]) \in Nat
        BY <1>2
    <2>2. [n \in DOMAIN bonus[Here(r)] |-> run[r].known] \in [1 .. Len(bonus[Here(r)]) -> Nat]
        BY <1>2, <2>1
    <2>3. QED
        BY <1>3, <2>1, <2>2, SeqDef DEF Sized
<1>4. CASE run[r].pc = "write"
    <2>1. Sized(r) = Append(bonus[Here(r)], run[r].known)
        BY <1>4 DEF Sized
    <2>2. QED
        BY <1>2, <2>1, AppendProperties
<1>5. QED
    BY <1>3, <1>4

LEMMA SetJobType ==
    ASSUME StrongType, NEW r \in Runs, NEW st \in Status, SetJob(r, st)
    PROVE  jobs' \in JobRow
<1>0. jobs \in JobRow /\ run[r] \in Run
    BY DEF StrongType, TypeOK
<1>1. jobs \in JobRow /\ run[r].tries \in Nat /\ r \in Nat
    BY <1>0 DEF Run
<1>2. [id |-> <<r, run[r].tries + 1>>, status |-> st] \in JobRow
    BY <1>1 DEF JobRow
<1>3. [jobs EXCEPT !.status = st] \in JobRow
    BY <1>1 DEF JobRow
<1>4. QED
    BY <1>1, <1>2, <1>3, NoneType DEF SetJob

LEMMA StatusType ==
    ASSUME TypeOK, NEW n \in JobNames, NEW a,
           NEW st \in {"RUNNING", "SUCCESS", "FAILED"},
           status' = [status EXCEPT ![n][a] = st]
    PROVE  status' \in [JobNames -> [Accounts -> {"none", "RUNNING", "SUCCESS", "FAILED"}]]
<1>1. status[n] \in [Accounts -> {"none", "RUNNING", "SUCCESS", "FAILED"}]
    BY DEF TypeOK
<1>2. [status[n] EXCEPT ![a] = st] \in [Accounts -> {"none", "RUNNING", "SUCCESS", "FAILED"}]
    BY <1>1
<1>3. status' = [status EXCEPT ![n] = [status[n] EXCEPT ![a] = st]]
    OBVIOUS
<1>4. QED
    BY <1>2, <1>3 DEF TypeOK

LEMMA AccountStepType ==
    ASSUME StrongType, NEW r \in Runs,
           BeginAccount(r) \/ CheckRow(r) \/ WriteRow(r) \/ WriteFails(r) \/ Mark(r)
    PROVE  TypeOK'
<1>0. TypeOK /\ run[r] \in Run /\ run[r].name \in JobNames
    BY DEF StrongType, TypeOK, Run
<1>1. CASE BeginAccount(r)
    <2>1. run[r].pc \in Walk
        BY <1>1 DEF BeginAccount, Walk
    <2>2. \A pc \in {"check", "mark"} : [run[r] EXCEPT !.pc = pc] \in Run
        BY <1>0 DEF Run
    <2>3. run' \in [Runs -> Run]
        BY <1>0, <1>1, <2>1, <2>2, NextAccountType, BecomeType DEF BeginAccount
    <2>4. status' \in [JobNames -> [Accounts -> {"none", "RUNNING", "SUCCESS", "FAILED"}]]
        <3>1. CASE UNCHANGED status
            BY <1>0, <3>1 DEF TypeOK
        <3>2. CASE status' = [status EXCEPT ![run[r].name][Here(r)] = "RUNNING"]
            BY <1>0, <3>2, StatusType
        <3>3. QED
            BY <1>1, <3>1, <3>2 DEF BeginAccount
    <2>5. faults' \in 0 .. MaxFaults
        BY <1>0, <1>1, FaultType DEF BeginAccount
    <2>6. QED
        BY <1>0, <1>1, <2>3, <2>4, <2>5 DEF BeginAccount, TypeOK, tables
<1>2. CASE CheckRow(r)
    <2>1. Here(r) \in Accounts
        BY <1>2, HereType DEF CheckRow, Walk
    <2>2. \A pc \in {"update", "write", "mark"} : [run[r] EXCEPT !.pc = pc] \in Run
        BY <1>0 DEF Run
    <2>3. Affect([run[r] EXCEPT !.pc = "mark"], Here(r)) \in Run
        BY <1>0, <2>1 DEF Run, Affect
    <2>4. run' \in [Runs -> Run]
        BY <1>0, <1>2, <2>2, <2>3, BecomeType DEF CheckRow
    <2>5. faults' \in 0 .. MaxFaults /\ mishap' \subseteq Mishaps
        BY <1>0, <1>2, FaultType DEF CheckRow, TypeOK, Mishaps
    <2>6. QED
        BY <1>0, <1>2, <2>4, <2>5 DEF CheckRow, TypeOK, tables
<1>3. CASE WriteRow(r) \/ WriteFails(r)
    <2>1. Here(r) \in Accounts /\ Sized(r) \in Seq(Nat)
        BY <1>3, HereType, SizedType DEF WriteRow, WriteFails, Walk
    <2>2. Affect([run[r] EXCEPT !.pc = "mark"], Here(r)) \in Run
        BY <1>0, <2>1 DEF Run, Affect
    <2>3. run[r].errs + 1 \in Nat
        BY <1>0 DEF Run
    <2>4. \A e \in Nat : [run[r] EXCEPT !.pc = "mark", !.ok = FALSE, !.errs = e] \in Run
        BY <1>0 DEF Run
    <2>5. run' \in [Runs -> Run]
        BY <1>0, <1>3, <2>2, <2>3, <2>4, BecomeType DEF WriteRow, WriteFails
    <2>6. bonus' \in [Accounts -> Seq(Nat)] /\ behind' \subseteq Accounts
        BY <1>0, <1>3, <2>1 DEF WriteRow, WriteFails, TypeOK
    <2>7. faults' \in 0 .. MaxFaults
        BY <1>0, <1>3, FaultType DEF WriteRow, WriteFails
    <2>8. QED
        BY <1>0, <1>3, <2>5, <2>6, <2>7 DEF WriteRow, WriteFails, TypeOK
<1>4. CASE Mark(r)
    <2>1. run' \in [Runs -> Run]
        BY <1>0, <1>4, NextAccountType, BecomeType DEF Mark, Walk
    <2>2. status' \in [JobNames -> [Accounts -> {"none", "RUNNING", "SUCCESS", "FAILED"}]]
        <3>1. CASE UNCHANGED status
            BY <1>0, <3>1 DEF TypeOK
        <3>2. ASSUME NEW st \in {"SUCCESS", "FAILED"},
                     status' = [status EXCEPT ![run[r].name][Here(r)] = st]
              PROVE  status' \in [JobNames -> [Accounts -> {"none", "RUNNING", "SUCCESS", "FAILED"}]]
            BY <1>0, <3>2, StatusType
        <3>3. QED
            BY <1>4, <3>1, <3>2 DEF Mark
    <2>3. faults' \in 0 .. MaxFaults
        BY <1>0, <1>4, FaultType DEF Mark
    <2>4. QED
        BY <1>0, <1>4, <2>1, <2>2, <2>3 DEF Mark, TypeOK, tables
<1>5. QED
    BY <1>1, <1>2, <1>3, <1>4
LEMMA PoolRetryType ==
    ASSUME TypeOK, NEW r \in Runs, PoolRetry(r)
    PROVE  run' \in [Runs -> Run] /\ mishap' \subseteq Mishaps
<1>1. run[r].name \in JobNames /\ run[r].tries \in 0 .. MaxRetries
    BY DEF TypeOK, Run
<1>2. ASSUME NEW pc \in {"queued", "failed"}, NEW n \in 0 .. MaxRetries
      PROVE  [NewRun(run[r].name) EXCEPT !.pc = pc, !.tries = n] \in Run
    <2>1. NewRun(run[r].name) \in Run
        BY <1>1, NewRunType
    <2>2. QED
        BY <2>1 DEF Run, Closed
<1>3. run[r].tries < MaxRetries => run[r].tries + 1 \in 0 .. MaxRetries
    BY <1>1
<1>4. run' \in [Runs -> Run]
    <2>1. CASE run[r].tries < MaxRetries
        <3>1. Become(r, [NewRun(run[r].name) EXCEPT !.pc = "queued", !.tries = run[r].tries + 1])
            BY <2>1 DEF PoolRetry
        <3>2. QED
            BY <1>2, <1>3, <2>1, <3>1, BecomeType
    <2>2. CASE ~(run[r].tries < MaxRetries)
        <3>1. Become(r, [NewRun(run[r].name) EXCEPT !.pc = "failed", !.tries = run[r].tries])
            BY <2>2 DEF PoolRetry
        <3>2. QED
            BY <1>1, <1>2, <3>1, BecomeType
    <2>3. QED
        BY <2>1, <2>2
<1>5. mishap' \subseteq Mishaps
    BY DEF PoolRetry, TypeOK, Mishaps
<1>6. QED
    BY <1>4, <1>5

(* Before and after the account loop.                                       *)
LEMMA JobStepType ==
    ASSUME StrongType, NEW r \in Runs,
           Start(r) \/ ReadSources(r) \/ ReadRecord(r) \/ InsertRecord(r) \/ RecordFails(r)
             \/ QueueRebuilds(r) \/ Finish(r)
    PROVE  TypeOK'
<1>0. TypeOK /\ run[r] \in Run /\ run[r].name \in JobNames
    BY DEF StrongType, TypeOK, Run
<1>1. \A pc \in {"read", "newrecord", "queue", "end"} : [run[r] EXCEPT !.pc = pc] \in Run
    BY <1>0 DEF Run
<1>2. CASE Start(r)
    BY <1>0, <1>1, <1>2, BecomeType, SetJobType DEF Start, TypeOK, tables, Status
<1>3. CASE ReadSources(r)
    <2>1. splits \in Nat
        BY <1>0 DEF TypeOK
    <2>2. [run[r] EXCEPT !.pc = "account", !.known = splits, !.left = [a \in Accounts |-> a]] \in Run
        BY <1>0, <2>1, AccountsInOrder DEF Run
    <2>3. QED
        BY <1>0, <1>3, <2>2, BecomeType DEF ReadSources, TypeOK, tables
<1>4. CASE ReadRecord(r) \/ RecordFails(r)
    <2>1. run' \in [Runs -> Run]
        BY <1>0, <1>1, <1>4, BecomeType DEF ReadRecord, RecordFails
    <2>2. faults' \in 0 .. MaxFaults /\ mishap' \subseteq Mishaps
        BY <1>0, <1>4, FaultType DEF ReadRecord, RecordFails, TypeOK, Mishaps
    <2>3. QED
        BY <1>0, <1>4, <2>1, <2>2 DEF ReadRecord, RecordFails, TypeOK, tables
<1>5. CASE InsertRecord(r) \/ QueueRebuilds(r)
    <2>1. run' \in [Runs -> Run]
        BY <1>0, <1>1, <1>5, BecomeType DEF InsertRecord, QueueRebuilds
    <2>2. record' \in Nat /\ behind' \subseteq Accounts
        BY <1>0, <1>5 DEF InsertRecord, QueueRebuilds, TypeOK
    <2>3. QED
        BY <1>0, <1>5, <2>1, <2>2 DEF InsertRecord, QueueRebuilds, TypeOK
<1>6. CASE Finish(r)
    <2>1. run[r].tries \in 0 .. MaxRetries
        BY <1>0 DEF Run
    <2>2. [NewRun(run[r].name) EXCEPT !.pc = "done", !.tries = run[r].tries] \in Run
        BY <1>0, <2>1, NewRunType DEF Run, Closed
    <2>3. run' \in [Runs -> Run]
        BY <1>0, <1>6, <2>2, BecomeType DEF Finish
    <2>4. jobs' \in JobRow
        BY <1>6, SetJobType DEF Finish, Status
    <2>5. QED
        BY <1>0, <1>6, <2>3, <2>4 DEF Finish, TypeOK, tables
<1>7. QED
    BY <1>2, <1>3, <1>4, <1>5, <1>6

LEMMA AttemptEndsType ==
    ASSUME StrongType, NEW r \in Runs,
           QueueFails(r) \/ FinishFailed(r) \/ Throws(r) \/ Killed(r)
    PROVE  TypeOK'
<1>1. TypeOK
    BY DEF StrongType
<1>2. run' \in [Runs -> Run] /\ mishap' \subseteq Mishaps
    BY <1>1, PoolRetryType DEF QueueFails, FinishFailed, Throws, Killed
<1>3. faults' \in 0 .. MaxFaults
    BY <1>1, FaultType DEF QueueFails, FinishFailed, Throws, Killed
<1>4. jobs' \in JobRow
    <2>1. CASE Killed(r)
        BY <1>1, <2>1 DEF Killed, TypeOK
    <2>2. CASE SetJob(r, "FAILED")
        BY <2>2, SetJobType DEF Status
    <2>3. QED
        BY <2>1, <2>2 DEF QueueFails, FinishFailed, Throws
<1>5. QED
    BY <1>1, <1>2, <1>3, <1>4 DEF QueueFails, FinishFailed, Throws, Killed, TypeOK, tables

LEMMA StepType == StrongType /\ [Next]_vars => TypeOK'
<1> SUFFICES ASSUME StrongType, [Next]_vars PROVE TypeOK'
    OBVIOUS
<1>1. TypeOK
    BY DEF StrongType
<1>2. ASSUME NEW c \in Requests, RequestStep(c) PROVE TypeOK'
    BY <1>1, <1>2, RequestBonusType, RequestStepType, SubmitType DEF RequestStep
<1>3. ASSUME NEW r \in Runs, RunStep(r) PROVE TypeOK'
    BY <1>3, AccountStepType, JobStepType, AttemptEndsType DEF RunStep
<1>4. CASE PollStatus
    BY <1>1, <1>4, PollType
<1>5. CASE UNCHANGED vars
    BY <1>1, <1>5 DEF vars, tables, TypeOK
<1>6. QED
    BY <1>2, <1>3, <1>4, <1>5 DEF Next
----------------------------------------------------------------------------
(* Nobody is passed over, nobody is given twice.                            *)

Rest == {"record", "newrecord", "queue", "end"}

(* Whoever has a share before and after the split is given one by any run.  *)
LEMMA AlwaysGiven == Always \subseteq Accounts /\ \A k : Always \subseteq Eligible(k)
BY DEF Always, Eligible

HolderAtHand(rec) ==
    rec.pc \in {"check", "write", "update"} => Head(rec.left) \in Eligible(rec.known)

(* An account that failed was counted.                                      *)
Counted(rec) == ~rec.ok => rec.pc = "mark" /\ rec.errs > 0

(* A row to be overwritten is there, and so is one to be marked.            *)
Given(rec, b) ==
    rec.pc = "update" \/ (rec.pc = "mark" /\ rec.ok /\ Head(rec.left) \in Eligible(rec.known))
        => b[Head(rec.left)] # <<>>

(* A run without errors has given the bonus to the holders it came past.    *)
Reached(rec, b) ==
    rec.pc \in Walk \union Rest /\ rec.errs = 0 =>
        \A a \in Always :
            b[a] # <<>> \/ (rec.pc \in Walk /\ \E i \in DOMAIN rec.left : rec.left[i] = a)

RunOK(rec, b) == HolderAtHand(rec) /\ Counted(rec) /\ Given(rec, b) /\ Reached(rec, b)

(* An account that is skipped has its row, whichever job marked it.         *)
SuccessMeansRow ==
    \A n \in JobNames : \A a \in Always : status[n][a] = "SUCCESS" => bonus[a] # <<>>

OneOpen == Free({"beside"}) => \A j, k \in Runs : Open(j) /\ Open(k) => j = k

Unwritten ==
    Free({"beside", "blind"}) => \A r \in Runs : run[r].pc = "write" => bonus[Here(r)] = <<>>

IInv ==
    /\ StrongType
    /\ \A r \in Runs : RunOK(run[r], bonus)
    /\ SuccessMeansRow
    /\ CompletedMeansBonus
    /\ OneOpen
    /\ Unwritten
    /\ BonusOnce
LEMMA InitIInv == Init => IInv
<1> SUFFICES ASSUME Init PROVE IInv
    OBVIOUS
<1>1. StrongType
    BY InitStrongType
<1>2. \A r \in Runs : RunOK(run[r], bonus)
    <2>1. \A r \in Runs : run[r].pc = "absent" /\ run[r].ok
        BY DEF Init, NoRun, NewRun
    <2>2. QED
        BY <2>1 DEF RunOK, HolderAtHand, Counted, Given, Reached, Walk, Rest
<1>3. SuccessMeansRow
    BY AlwaysGiven DEF Init, SuccessMeansRow
<1>4. CompletedMeansBonus
    BY DEF Init, CompletedMeansBonus, NoRow
<1>5. OneOpen /\ Unwritten
    BY DEF Init, OneOpen, Unwritten, Open, NoRun, NewRun
<1>6. \A a \in Accounts : Len(bonus[a]) <= 1
    BY DEF Init
<1>7. QED
    BY <1>1, <1>2, <1>3, <1>4, <1>5, <1>6 DEF IInv, BonusOnce

(* What a record promises of the rows stays true as rows are added.         *)
Growing == \A a \in Accounts : bonus[a] # <<>> => bonus'[a] # <<>>

LEMMA RunsKept ==
    ASSUME IInv, NEW r \in Runs, NEW rec, Become(r, rec), Growing,
           AtHand(rec), RunOK(rec, bonus')
    PROVE  \A k \in Runs : AtHand(run'[k]) /\ RunOK(run'[k], bonus')
<1> SUFFICES ASSUME NEW k \in Runs PROVE AtHand(run'[k]) /\ RunOK(run'[k], bonus')
    OBVIOUS
<1>1. run \in [Runs -> Run]
    BY DEF IInv, StrongType, TypeOK
<1>2. CASE k = r
    BY <1>1, <1>2 DEF Become
<1>3. CASE k # r
    <2>1. run'[k] = run[k]
        BY <1>1, <1>3 DEF Become
    <2>2. AtHand(run[k]) /\ RunOK(run[k], bonus)
        BY DEF IInv, StrongType
    <2>3. run[k].pc \in Walk => Head(run[k].left) \in Accounts
        BY HereType DEF IInv, Here
    <2>4. Given(run[k], bonus')
        BY <2>2, <2>3 DEF RunOK, Given, Walk, Growing
    <2>5. Reached(run[k], bonus')
        BY <2>2, AlwaysGiven DEF RunOK, Reached, Growing
    <2>6. QED
        BY <2>1, <2>2, <2>4, <2>5 DEF RunOK
<1>4. QED
    BY <1>2, <1>3

(* The steps that leave the Bonus rows alone.                               *)
Clean == mishap' \intersect {"beside", "blind"} = {}
Sole(r) == \A k \in Runs \ {r} : ~Open(k)

LEMMA QuietStep ==
    ASSUME IInv, TypeOK', NEW r \in Runs, NEW rec, Become(r, rec),
           AtHand(rec), RunOK(rec, bonus),
           UNCHANGED bonus, SuccessMeansRow', mishap \subseteq mishap',
           \A c \in Requests : Asking(req'[c]),
           jobs'.status = "COMPLETED" => \A a \in Always : bonus[a] # <<>>,
           rec.pc \notin {"absent"} \union Closed /\ "beside" \notin mishap' => Sole(r),
           rec.pc = "write" /\ Clean => bonus[Head(rec.left)] = <<>>
    PROVE  IInv'
<1>0. run \in [Runs -> Run] /\ run'[r] = rec /\ \A k \in Runs : k # r => run'[k] = run[k]
    BY DEF IInv, StrongType, TypeOK, Become
<1>1. \A k \in Runs : AtHand(run'[k]) /\ RunOK(run'[k], bonus')
    BY RunsKept DEF Growing
<1>2. StrongType'
    BY <1>1 DEF StrongType
<1>3. CompletedMeansBonus'
    BY DEF CompletedMeansBonus
<1>4. OneOpen'
    <2>1. Free({"beside"})' => Free({"beside"}) /\ "beside" \notin mishap'
        BY DEF Free
    <2>2. \A k \in Runs : k # r => (Open(k)' <=> Open(k))
        BY <1>0 DEF Open
    <2>3. Open(r)' <=> rec.pc \notin {"absent"} \union Closed
        BY <1>0 DEF Open
    <2>4. QED
        BY <2>1, <2>2, <2>3 DEF IInv, OneOpen, Sole
<1>5. Unwritten'
    BY <1>0 DEF IInv, Unwritten, Free, Here, Clean
<1>6. BonusOnce'
    BY DEF IInv, BonusOnce, Free
<1>7. QED
    BY <1>1, <1>2, <1>3, <1>4, <1>5, <1>6 DEF IInv

LEMMA RequestQuiet ==
    ASSUME IInv, TypeOK', UNCHANGED <<bonus, status, run>>, mishap \subseteq mishap',
           \A c \in Requests : Asking(req'[c]),
           jobs'.status = "COMPLETED" => jobs.status = "COMPLETED"
    PROVE  IInv'
<1>1. StrongType' /\ \A r \in Runs : RunOK(run[r], bonus)'
    BY DEF IInv, StrongType
<1>2. SuccessMeansRow' /\ CompletedMeansBonus'
    BY DEF IInv, SuccessMeansRow, CompletedMeansBonus
<1>3. OneOpen' /\ Unwritten' /\ BonusOnce'
    BY DEF IInv, OneOpen, Unwritten, BonusOnce, Free, Open, Here
<1>4. QED
    BY <1>1, <1>2, <1>3 DEF IInv
LEMMA RequestAsking ==
    ASSUME StrongType, NEW c \in Requests, RequestStep(c)
    PROVE  \A d \in Requests : Asking(req'[d])
<1>0. req \in [Requests -> Request] /\ record \in Nat /\ \A d \in Requests : Asking(req[d])
    BY DEF StrongType, TypeOK
<1>1. ASSUME NEW rec, Goto(c, rec), Asking(rec) PROVE \A d \in Requests : Asking(req'[d])
    BY <1>0, <1>1 DEF Goto
<1>2. CASE Answer(c)
    BY <1>0, <1>2, NoneType DEF Answer, NoRequest, Asking
<1>3. CASE ReadRecords(c)
    <2>1. CASE Goto(c, [req[c] EXCEPT !.pc = "recompute", !.todo = record]) /\ record # 0
        <3>1. Asking([req[c] EXCEPT !.pc = "recompute", !.todo = record])
            BY <1>0, <2>1 DEF Asking, Request
        <3>2. QED
            BY <1>1, <2>1, <3>1
    <2>2. QED
        BY <1>2, <1>3, <2>1 DEF ReadRecords
<1>4. ASSUME NEW r \in Runs, SubmitRecompute(c, r) PROVE \A d \in Requests : Asking(req'[d])
    <2>1. CASE Goto(c, [req[c] EXCEPT !.todo = @ - 1]) /\ req[c].todo # 1
        <3>1. req[c].todo > 0 /\ req[c].todo \in Nat
            BY <1>0, <1>4 DEF SubmitRecompute, Asking, Request
        <3>2. Asking([req[c] EXCEPT !.todo = @ - 1])
            BY <1>0, <2>1, <3>1 DEF Asking, Request
        <3>3. QED
            BY <1>1, <2>1, <3>2
    <2>2. QED
        BY <1>2, <1>4, <2>1 DEF SubmitRecompute
<1>5. CASE ClearJob(c) \/ InsertSplit(c) \/ QueueSplitRebuilds(c)
    <2>1. \A pc \in {"submit", "queue", "records"} : Asking([req[c] EXCEPT !.pc = pc])
        BY <1>0 DEF Asking, Request
    <2>2. QED
        BY <1>1, <1>5, <2>1 DEF ClearJob, InsertSplit, QueueSplitRebuilds
<1>6. CASE RequestBonus(c) \/ RequestSplit(c)
    <2>1. \A pc \in {"clear", "submit"} : Asking([NoRequest EXCEPT !.pc = pc, !.seen = jobs])
        BY DEF Asking, NoRequest
    <2>2. Asking([NoRequest EXCEPT !.pc = "insert"])
        BY DEF Asking, NoRequest
    <2>3. QED
        BY <1>1, <1>2, <1>6, <2>1, <2>2 DEF RequestBonus, RequestSplit
<1>7. CASE RequestFails(c) \/ InsertFails(c) \/ RecomputeNotSubmitted(c) \/ \E r \in Runs : SubmitBonus(c, r)
    BY <1>2, <1>7 DEF RequestFails, InsertFails, RecomputeNotSubmitted, SubmitBonus
<1>8. QED
    BY <1>3, <1>4, <1>5, <1>6, <1>7 DEF RequestStep

LEMMA NewRunOK ==
    ASSUME NEW name
    PROVE  AtHand(NewRun(name)) /\ RunOK(NewRun(name), bonus) /\ NewRun(name).pc = "queued"
BY DEF NewRun, AtHand, RunOK, HolderAtHand, Counted, Given, Reached, Walk, Rest

LEMMA RequestIInv ==
    ASSUME IInv, NEW c \in Requests, RequestStep(c), TypeOK'
    PROVE  IInv'
<1>1. \A d \in Requests : Asking(req'[d])
    BY RequestAsking DEF IInv
<1>2. ASSUME NEW r \in Runs, SubmitBonus(c, r) \/ SubmitRecompute(c, r) PROVE IInv'
    <2>1. PICK name \in JobNames : Become(r, NewRun(name))
        BY <1>2 DEF SubmitBonus, SubmitRecompute, Become, JobNames
    <2>2. /\ UNCHANGED <<bonus, status, jobs>> /\ mishap \subseteq mishap'
          /\ "beside" \notin mishap' => Sole(r)
        BY <1>2 DEF SubmitBonus, SubmitRecompute, tables, Sole
    <2>3. jobs'.status = "COMPLETED" => \A a \in Always : bonus[a] # <<>>
        BY <2>2 DEF IInv, CompletedMeansBonus
    <2>4. SuccessMeansRow'
        BY <2>2 DEF IInv, SuccessMeansRow
    <2>5. NewRun(name).pc # "write"
        BY NewRunOK
    <2>6. QED
        BY <1>1, <2>1, <2>2, <2>3, <2>4, <2>5, NewRunOK, QuietStep
<1>3. ASSUME UNCHANGED <<bonus, status, run>>, mishap \subseteq mishap',
             jobs'.status = "COMPLETED" => jobs.status = "COMPLETED"
      PROVE  IInv'
    BY <1>1, <1>3, RequestQuiet
<1>4. CASE ClearJob(c)
    BY <1>3, <1>4 DEF ClearJob, NoRow, tables
<1>5. CASE RequestBonus(c) \/ RequestFails(c) \/ RequestSplit(c) \/ InsertSplit(c) \/ InsertFails(c)
             \/ QueueSplitRebuilds(c) \/ ReadRecords(c) \/ RecomputeNotSubmitted(c)
    BY <1>3, <1>5 DEF RequestBonus, RequestFails, RequestSplit, InsertSplit, InsertFails, QueueSplitRebuilds,
                      ReadRecords, RecomputeNotSubmitted, tables
<1>6. QED
    BY <1>2, <1>4, <1>5 DEF RequestStep

LEMMA PollIInv == ASSUME IInv, PollStatus, TypeOK' PROVE IInv'
<1>1. jobs'.status = "ERROR"
    BY DEF PollStatus, IInv, StrongType, TypeOK, JobRow
<1>2. UNCHANGED <<bonus, status, run, req, mishap>>
    BY DEF PollStatus, tables
<1>3. QED
    BY <1>1, <1>2, RequestQuiet DEF IInv, StrongType
(* A step of an open run that leaves the requests alone, and the Jobs row   *)
(* unless it is to say something other than COMPLETED.                      *)
LEMMA RunQuiet ==
    ASSUME IInv, TypeOK', NEW r \in Runs, Open(r), NEW rec, Become(r, rec),
           AtHand(rec), RunOK(rec, bonus), rec.pc # "write",
           UNCHANGED <<bonus, req>>, SuccessMeansRow', mishap \subseteq mishap',
           jobs'.status = "COMPLETED" => jobs.status = "COMPLETED"
    PROVE  IInv'
<1>1. "beside" \notin mishap' => Sole(r)
    BY DEF IInv, OneOpen, Free, Sole
<1>2. jobs'.status = "COMPLETED" => \A a \in Always : bonus[a] # <<>>
    BY DEF IInv, CompletedMeansBonus
<1>3. \A c \in Requests : Asking(req'[c])
    BY DEF IInv, StrongType
<1>4. QED
    BY <1>1, <1>2, <1>3, QuietStep

LEMMA SuccessKept ==
    ASSUME IInv, UNCHANGED <<bonus, status>>
    PROVE  SuccessMeansRow'
BY DEF IInv, SuccessMeansRow

(* Leaving an account: its holder has a row, or the run counts an error.    *)
LEMMA NextAccountOK ==
    ASSUME IInv, NEW r \in Runs, run[r].pc \in Walk,
           run[r].errs = 0 /\ Here(r) \in Always => bonus[Here(r)] # <<>>
    PROVE  /\ AtHand(NextAccount(run[r])) /\ RunOK(NextAccount(run[r]), bonus)
           /\ NextAccount(run[r]).pc # "write"
<1> DEFINE rec == NextAccount(run[r])
<1>0. run[r] \in Run
    BY DEF IInv, StrongType, TypeOK
<1>1. run[r].left \in Seq(Accounts) /\ run[r].left # <<>>
    BY HereType DEF IInv
<1>2. /\ rec.left = Tail(run[r].left) /\ rec.ok = TRUE /\ rec.errs = run[r].errs
      /\ rec.pc = "account" \/ (rec.pc = "record" /\ rec.left = <<>>)
      /\ rec.pc = "account" => rec.left # <<>>
    BY <1>0 DEF NextAccount, Run
<1> HIDE DEF rec
<1>3. AtHand(rec) /\ HolderAtHand(rec) /\ Counted(rec) /\ Given(rec, bonus) /\ rec.pc # "write"
    BY <1>2 DEF AtHand, HolderAtHand, Counted, Given, Walk
<1>4. Reached(rec, bonus)
    <2> SUFFICES ASSUME run[r].errs = 0, NEW a \in Always, bonus[a] = <<>>
                 PROVE  rec.pc \in Walk /\ \E i \in DOMAIN rec.left : rec.left[i] = a
        BY <1>2 DEF Reached
    <2>1. PICK i \in DOMAIN run[r].left : run[r].left[i] = a
        BY DEF IInv, RunOK, Reached
    <2>2. i # 1
        BY <1>1, <2>1 DEF Here
    <2>3. i \in 1 .. Len(run[r].left) /\ Len(run[r].left) \in Nat
        BY SMTT(40), <1>1, <2>1
    <2>4. Len(Tail(run[r].left)) = Len(run[r].left) - 1
        BY <1>1, HeadTailProperties
    <2>5. i - 1 \in 1 .. Len(Tail(run[r].left))
        BY SMTT(40), <2>2, <2>3, <2>4
    <2>6. Tail(run[r].left)[i - 1] = a
        BY SMTT(40), <1>1, <2>1, <2>5, HeadTailProperties
    <2>7. Tail(run[r].left) \in Seq(Accounts)
        BY <1>1, HeadTailProperties
    <2>8. QED
        <3>1. i - 1 \in DOMAIN rec.left /\ rec.left[i - 1] = a
            BY <1>2, <2>5, <2>6, <2>7
        <3>2. rec.left # <<>>
            BY SMTT(40), <1>2, <2>4, <2>5, <2>3, <2>7
        <3>3. QED
            BY <1>2, <3>1, <3>2 DEF Walk
<1>5. QED
    BY <1>3, <1>4 DEF RunOK, rec

LEMMA BeginAccountIInv ==
    ASSUME IInv, TypeOK', NEW r \in Runs, BeginAccount(r)
    PROVE  IInv'
<1>0. /\ run[r] \in Run /\ run[r].pc = "account" /\ Open(r) /\ Here(r) \in Accounts
      /\ AtHand(run[r]) /\ RunOK(run[r], bonus)
      /\ UNCHANGED <<bonus, req, jobs, mishap>>
    BY HereType DEF IInv, StrongType, TypeOK, BeginAccount, Open, Closed, Walk, tables
<1>1. CASE Become(r, NextAccount(run[r])) /\ UNCHANGED status /\ status[run[r].name][Here(r)] = "SUCCESS"
    <2>1. Here(r) \in Always => bonus[Here(r)] # <<>>
        BY <1>0, <1>1 DEF IInv, SuccessMeansRow, Run
    <2>2. QED
        BY <1>0, <1>1, <2>1, NextAccountOK, SuccessKept, RunQuiet DEF Walk
<1>2. CASE /\ status' = [status EXCEPT ![run[r].name][Here(r)] = "RUNNING"]
           /\ Become(r, [run[r] EXCEPT !.pc = IF Here(r) \in Eligible(run[r].known) THEN "check" ELSE "mark"])
    <2> DEFINE rec == [run[r] EXCEPT !.pc = IF Here(r) \in Eligible(run[r].known) THEN "check" ELSE "mark"]
    <2>1. /\ rec.pc = IF Here(r) \in Eligible(run[r].known) THEN "check" ELSE "mark"
          /\ rec.left = run[r].left /\ rec.ok = run[r].ok /\ rec.errs = run[r].errs
          /\ rec.known = run[r].known
        BY <1>0 DEF Run
    <2>2. AtHand(rec) /\ RunOK(rec, bonus) /\ rec.pc # "write"
        BY <1>0, <2>1 DEF AtHand, RunOK, HolderAtHand, Counted, Given, Reached, Walk, Rest, Here
    <2>3. SuccessMeansRow'
        <3> SUFFICES ASSUME NEW n \in JobNames, NEW a \in Always, status'[n][a] = "SUCCESS"
                     PROVE  bonus[a] # <<>>
            BY <1>0 DEF SuccessMeansRow
        <3>1. status[n][a] = "SUCCESS"
            BY SMTT(40), <1>2 DEF IInv, StrongType, TypeOK
        <3>2. QED
            BY <3>1 DEF IInv, SuccessMeansRow
    <2>4. QED
        BY <1>0, <1>2, <2>2, <2>3, RunQuiet
<1>3. QED
    BY <1>1, <1>2 DEF BeginAccount
(* The only way to "write" is a look that found nothing, or a failed one.   *)
LEMMA CheckRowIInv ==
    ASSUME IInv, TypeOK', NEW r \in Runs, CheckRow(r)
    PROVE  IInv'
<1>0. /\ run[r] \in Run /\ run[r].pc = "check" /\ Open(r) /\ Here(r) \in Accounts
      /\ AtHand(run[r]) /\ RunOK(run[r], bonus)
      /\ UNCHANGED <<bonus, req, jobs, status>> /\ mishap \subseteq mishap'
    BY HereType DEF IInv, StrongType, TypeOK, CheckRow, Open, Closed, Walk, tables
<1>1. SuccessMeansRow'
    BY <1>0, SuccessKept
<1>2. CASE Become(r, Affect([run[r] EXCEPT !.pc = "mark"], Here(r))) /\ bonus[Here(r)] # <<>>
    <2> DEFINE rec == Affect([run[r] EXCEPT !.pc = "mark"], Here(r))
    <2>1. /\ rec.pc = "mark" /\ rec.left = run[r].left
          /\ rec.ok = run[r].ok /\ rec.errs = run[r].errs /\ rec.known = run[r].known
        BY <1>0 DEF Run, Affect
    <2> HIDE DEF rec
    <2>2. AtHand(rec) /\ RunOK(rec, bonus) /\ rec.pc # "write"
        BY <1>0, <1>2, <2>1 DEF AtHand, RunOK, HolderAtHand, Counted, Given, Reached, Walk, Rest, Here
    <2>3. QED
        BY <1>0, <1>1, <1>2, <2>2, RunQuiet DEF rec
<1>3. ASSUME NEW pc \in {"update", "write"}, Become(r, [run[r] EXCEPT !.pc = pc]),
             pc = "update" => bonus[Here(r)] # <<>>,
             pc = "write" /\ Clean => bonus[Here(r)] = <<>>
      PROVE  IInv'
    <2> DEFINE rec == [run[r] EXCEPT !.pc = pc]
    <2>1. /\ rec.pc = pc /\ rec.left = run[r].left
          /\ rec.ok = run[r].ok /\ rec.errs = run[r].errs /\ rec.known = run[r].known
        BY <1>0 DEF Run
    <2> HIDE DEF rec
    <2>2. AtHand(rec) /\ RunOK(rec, bonus)
        BY <1>0, <1>3, <2>1 DEF AtHand, RunOK, HolderAtHand, Counted, Given, Reached, Walk, Rest, Here
    <2>3. "beside" \notin mishap' => Sole(r)
        BY <1>0 DEF IInv, OneOpen, Free, Sole
    <2>4. jobs'.status = "COMPLETED" => \A a \in Always : bonus[a] # <<>>
        BY <1>0 DEF IInv, CompletedMeansBonus
    <2>5. \A c \in Requests : Asking(req'[c])
        BY <1>0 DEF IInv, StrongType
    <2>6. rec.pc = "write" /\ Clean => bonus[Head(rec.left)] = <<>>
        BY <1>3, <2>1 DEF Here
    <2>7. Become(r, rec)
        BY <1>3 DEF rec
    <2>8. QED
        BY <1>0, <1>1, <2>2, <2>3, <2>4, <2>5, <2>6, <2>7, QuietStep
<1>4. CASE Become(r, [run[r] EXCEPT !.pc = "write"]) /\ mishap' = mishap \union {"blind"}
    BY <1>3, <1>4 DEF Clean
<1>5. QED
    <2>1. CASE bonus[Here(r)] # <<>> /\ ~Recompute(r)
        BY <1>2, <1>4, <2>1 DEF CheckRow
    <2>2. CASE bonus[Here(r)] # <<>> /\ Recompute(r)
        BY <1>3, <1>4, <2>2 DEF CheckRow
    <2>3. CASE bonus[Here(r)] = <<>>
        BY <1>3, <1>4, <2>3 DEF CheckRow
    <2>4. QED
        BY <2>1, <2>2, <2>3

LEMMA SizedLen ==
    ASSUME IInv, NEW r \in Runs, run[r].pc \in {"write", "update"}
    PROVE  /\ Sized(r) # <<>>
           /\ run[r].pc = "update" => Len(Sized(r)) = Len(bonus[Here(r)])
           /\ run[r].pc = "write" => Len(Sized(r)) = Len(bonus[Here(r)]) + 1
<1>1. bonus[Here(r)] \in Seq(Nat) /\ run[r].known \in Nat /\ Sized(r) \in Seq(Nat)
    BY HereType, SizedType DEF IInv, StrongType, TypeOK, Run, Walk
<1>2. CASE run[r].pc = "update"
    <2>1. bonus[Here(r)] # <<>>
        BY <1>2 DEF IInv, RunOK, Given, Here
    <2>2. Sized(r) = [n \in 1 .. Len(bonus[Here(r)]) |-> run[r].known]
        BY <1>1, <1>2 DEF Sized
    <2>3. Len(Sized(r)) = Len(bonus[Here(r)])
        BY <1>1, <2>2
    <2>4. Len(bonus[Here(r)]) # 0
        BY <1>1, <2>1
    <2>5. QED
        BY <1>1, <1>2, <2>3, <2>4
<1>3. CASE run[r].pc = "write"
    <2>1. Sized(r) = Append(bonus[Here(r)], run[r].known)
        BY <1>3 DEF Sized
    <2>2. Len(Sized(r)) = Len(bonus[Here(r)]) + 1 /\ Sized(r) # <<>>
        BY <1>1, <2>1, AppendProperties
    <2>3. QED
        BY <1>3, <2>2
<1>4. QED
    BY <1>2, <1>3

(* A row is written, or its share overwritten; what the caller makes of the *)
(* statement only shows in its own record.                                  *)
LEMMA WriteIInv ==
    ASSUME IInv, TypeOK', NEW r \in Runs, run[r].pc \in {"write", "update"},
           NEW rec, Become(r, rec), rec.pc = "mark", AtHand(rec), RunOK(rec, bonus'),
           bonus' = bonus \/ bonus' = [bonus EXCEPT ![Here(r)] = Sized(r)],
           UNCHANGED <<jobs, status, req, mishap>>
    PROVE  IInv'
<1>0. /\ run \in [Runs -> Run] /\ Open(r) /\ Here(r) \in Accounts
      /\ run'[r] = rec /\ \A k \in Runs : k # r => run'[k] = run[k]
    BY HereType DEF IInv, StrongType, TypeOK, Open, Closed, Walk, Become
<1>1. ASSUME NEW a \in Accounts PROVE bonus[a] \in Seq(Nat) /\ Len(bonus[a]) \in Nat
    <2>1. bonus[a] \in Seq(Nat)
        BY DEF IInv, StrongType, TypeOK
    <2>2. QED
        BY <2>1, LenProperties
<1>2. Sized(r) # <<>> /\ (run[r].pc = "update" => Len(Sized(r)) = Len(bonus[Here(r)]))
                     /\ (run[r].pc = "write" => Len(Sized(r)) = Len(bonus[Here(r)]) + 1)
    BY SizedLen
<1>3. \A a \in Accounts : bonus'[a] = bonus[a] \/ (a = Here(r) /\ bonus'[a] = Sized(r))
    BY <1>0 DEF IInv, StrongType, TypeOK
<1>4. Growing
    BY <1>2, <1>3 DEF Growing
<1>5. \A k \in Runs : AtHand(run'[k]) /\ RunOK(run'[k], bonus')
    BY <1>4, RunsKept
<1>6. StrongType' /\ SuccessMeansRow' /\ CompletedMeansBonus'
    BY <1>4, <1>5, AlwaysGiven DEF IInv, StrongType, SuccessMeansRow, CompletedMeansBonus, Growing
<1>7. OneOpen'
    BY <1>0 DEF IInv, OneOpen, Free, Open
<1>8. Unwritten'
    <2> SUFFICES ASSUME Free({"beside", "blind"}), NEW k \in Runs, run'[k].pc = "write"
                 PROVE  FALSE
        BY DEF Unwritten, Free
    <2>1. k # r /\ run[k].pc = "write"
        BY <1>0
    <2>2. Open(k)
        BY <2>1 DEF Open, Closed
    <2>3. Free({"beside"})
        BY DEF Free
    <2>4. QED
        BY <1>0, <2>1, <2>2, <2>3 DEF IInv, OneOpen
<1>9. BonusOnce'
    <2> SUFFICES ASSUME Free({"beside", "blind"}), NEW a \in Accounts PROVE Len(bonus'[a]) <= 1
        BY DEF BonusOnce, Free
    <2>1. Len(bonus[a]) <= 1
        BY DEF IInv, BonusOnce
    <2>2. run[r].pc = "write" => bonus[Here(r)] = <<>>
        BY DEF IInv, Unwritten
    <2>3. CASE bonus'[a] = bonus[a]
        BY <2>1, <2>3
    <2>4. CASE a = Here(r) /\ bonus'[a] = Sized(r)
        BY <1>2, <2>1, <2>2, <2>4
    <2>5. QED
        BY <1>3, <2>3, <2>4
<1>10. QED
    BY <1>5, <1>6, <1>7, <1>8, <1>9 DEF IInv
LEMMA WriteStepIInv ==
    ASSUME IInv, TypeOK', NEW r \in Runs, WriteRow(r) \/ WriteFails(r)
    PROVE  IInv'
<1>0. /\ run[r] \in Run /\ run[r].pc \in {"write", "update"} /\ Here(r) \in Accounts
      /\ bonus \in [Accounts -> Seq(Nat)]
      /\ AtHand(run[r]) /\ RunOK(run[r], bonus)
      /\ UNCHANGED <<jobs, status, req, mishap>>
    BY HereType DEF IInv, StrongType, TypeOK, WriteRow, WriteFails, Walk, tables
<1>1. Sized(r) # <<>>
    BY <1>0, SizedLen
<1>2. CASE WriteRow(r)
    <2> DEFINE rec == Affect([run[r] EXCEPT !.pc = "mark"], Here(r))
    <2>1. /\ rec.pc = "mark" /\ rec.left = run[r].left
          /\ rec.ok = run[r].ok /\ rec.errs = run[r].errs /\ rec.known = run[r].known
        BY <1>0 DEF Run, Affect
    <2>2. Become(r, rec) /\ bonus' = [bonus EXCEPT ![Here(r)] = Sized(r)]
        BY <1>2 DEF WriteRow
    <2> HIDE DEF rec
    <2>3. bonus'[Here(r)] # <<>> /\ \A a \in Accounts : bonus[a] # <<>> => bonus'[a] # <<>>
        BY <1>0, <1>1, <2>2
    <2>4. AtHand(rec) /\ HolderAtHand(rec) /\ Counted(rec) /\ Given(rec, bonus')
        BY <1>0, <2>1, <2>3 DEF AtHand, RunOK, HolderAtHand, Counted, Given, Walk, Here
    <2>5. Reached(rec, bonus')
        BY <1>0, <2>1, <2>3, AlwaysGiven DEF RunOK, Reached, Walk
    <2>6. QED
        BY <1>0, <2>1, <2>2, <2>4, <2>5, WriteIInv DEF RunOK
<1>3. CASE WriteFails(r)
    <2> DEFINE rec == [run[r] EXCEPT !.pc = "mark", !.ok = FALSE, !.errs = @ + 1]
    <2>1. /\ rec.pc = "mark" /\ rec.left = run[r].left
          /\ rec.ok = FALSE /\ rec.errs = run[r].errs + 1 /\ run[r].errs \in Nat
        BY <1>0 DEF Run
    <2>2. Become(r, rec) /\ (bonus' = bonus \/ bonus' = [bonus EXCEPT ![Here(r)] = Sized(r)])
        BY <1>3 DEF WriteFails
    <2> HIDE DEF rec
    <2>3. AtHand(rec) /\ RunOK(rec, bonus')
        BY SMTT(40), <1>0, <2>1 DEF AtHand, RunOK, HolderAtHand, Counted, Given, Reached, Walk
    <2>4. QED
        BY <1>0, <2>1, <2>2, <2>3, WriteIInv
<1>4. QED
    BY <1>2, <1>3

(* An account is only marked SUCCESS with its row in place.                 *)
LEMMA MarkIInv ==
    ASSUME IInv, TypeOK', NEW r \in Runs, Mark(r)
    PROVE  IInv'
<1>0. /\ run[r] \in Run /\ run[r].pc = "mark" /\ Open(r) /\ Here(r) \in Accounts
      /\ AtHand(run[r]) /\ RunOK(run[r], bonus)
      /\ UNCHANGED <<bonus, req, jobs, mishap>> /\ Become(r, NextAccount(run[r]))
    BY HereType DEF IInv, StrongType, TypeOK, Mark, Open, Closed, Walk, tables
<1>1. run[r].ok /\ Here(r) \in Always => bonus[Here(r)] # <<>>
    BY <1>0, AlwaysGiven DEF RunOK, Given, Here
<1>2. run[r].errs = 0 /\ Here(r) \in Always => bonus[Here(r)] # <<>>
    BY <1>0, <1>1 DEF RunOK, Counted
<1>3. SuccessMeansRow'
    <2> SUFFICES ASSUME NEW n \in JobNames, NEW a \in Always, status'[n][a] = "SUCCESS"
                 PROVE  bonus[a] # <<>>
        BY <1>0 DEF SuccessMeansRow
    <2>1. CASE status[n][a] = "SUCCESS"
        BY <2>1 DEF IInv, SuccessMeansRow
    <2>2. CASE status[n][a] # "SUCCESS"
        <3>1. a = Here(r) /\ run[r].ok
            <4> DEFINE st == IF run[r].ok THEN "SUCCESS" ELSE "FAILED"
            <4>1. status' = [status EXCEPT ![run[r].name] = [status[run[r].name] EXCEPT ![Here(r)] = st]]
                BY <2>2 DEF Mark
            <4>2. n = run[r].name /\ status'[n] = [status[n] EXCEPT ![Here(r)] = st]
                BY <2>2, <4>1 DEF IInv, StrongType, TypeOK
            <4>3. a = Here(r) /\ st = "SUCCESS"
                <5>1. status[n] \in [Accounts -> {"none", "RUNNING", "SUCCESS", "FAILED"}]
                    BY DEF IInv, StrongType, TypeOK
                <5>2. QED
                    BY <2>2, <4>2, <5>1
            <4>4. QED
                BY <4>3
        <3>2. QED
            BY <1>1, <3>1
    <2>3. QED
        BY <2>1, <2>2
<1>4. QED
    BY <1>0, <1>2, <1>3, NextAccountOK, RunQuiet DEF Walk
(* A run keeps no promise outside the account loop but the one of Rest.     *)
LEMMA BackToStart ==
    ASSUME IInv, NEW r \in Runs, NEW pc \in {"queued", "done", "failed"}, NEW n
    PROVE  LET rec == [NewRun(run[r].name) EXCEPT !.pc = pc, !.tries = n]
           IN  AtHand(rec) /\ RunOK(rec, bonus) /\ rec.pc # "write"
<1> DEFINE rec == [NewRun(run[r].name) EXCEPT !.pc = pc, !.tries = n]
<1>1. rec.pc = pc /\ rec.left = <<>> /\ rec.ok = TRUE
    BY DEF NewRun
<1> HIDE DEF rec
<1>2. AtHand(rec) /\ RunOK(rec, bonus) /\ rec.pc # "write"
    BY <1>1 DEF AtHand, RunOK, HolderAtHand, Counted, Given, Reached, Walk, Rest
<1>3. QED
    BY <1>2 DEF rec

LEMMA JobStepIInv ==
    ASSUME IInv, TypeOK', NEW r \in Runs,
           Start(r) \/ ReadSources(r) \/ ReadRecord(r) \/ InsertRecord(r) \/ RecordFails(r)
             \/ QueueRebuilds(r)
    PROVE  IInv'
<1>0. /\ run[r] \in Run /\ Open(r) /\ jobs \in JobRow
      /\ AtHand(run[r]) /\ RunOK(run[r], bonus)
      /\ UNCHANGED <<bonus, req, status>> /\ mishap \subseteq mishap'
    BY DEF IInv, StrongType, TypeOK, Open, Closed, tables,
           Start, ReadSources, ReadRecord, InsertRecord, RecordFails, QueueRebuilds
<1>1. SuccessMeansRow'
    BY <1>0, SuccessKept
<1>2. jobs'.status = "COMPLETED" => jobs.status = "COMPLETED"
    BY <1>0 DEF Start, ReadSources, ReadRecord, InsertRecord, RecordFails, QueueRebuilds,
                SetJob, JobRow
<1>3. CASE ReadSources(r)
    <2> DEFINE rec == [run[r] EXCEPT !.pc = "account", !.known = splits,
                                     !.left = [a \in Accounts |-> a]]
    <2>1. /\ rec.pc = "account" /\ rec.left = [a \in Accounts |-> a] /\ rec.ok = run[r].ok
          /\ run[r].pc = "read"
        BY <1>0, <1>3 DEF Run, ReadSources
    <2>2. Become(r, rec)
        BY <1>3 DEF ReadSources
    <2> HIDE DEF rec
    <2>3. \A a \in Always : a \in DOMAIN rec.left /\ rec.left[a] = a
        BY <2>1, AlwaysGiven
    <2>4. AtHand(rec) /\ HolderAtHand(rec) /\ Counted(rec) /\ Given(rec, bonus)
        BY <1>0, <2>1, AccountsInOrder DEF AtHand, RunOK, HolderAtHand, Counted, Given
    <2>5. Reached(rec, bonus)
        BY <2>1, <2>3 DEF Reached, Walk
    <2>6. rec.pc # "write"
        BY <2>1
    <2>7. QED
        BY <1>0, <1>1, <1>2, <2>2, <2>4, <2>5, <2>6, RunQuiet DEF RunOK
<1>4. ASSUME NEW pc \in Rest \union {"read"}, Become(r, [run[r] EXCEPT !.pc = pc]),
             run[r].pc \in Rest \/ (run[r].pc = "queued" /\ pc = "read")
      PROVE  IInv'
    <2> DEFINE rec == [run[r] EXCEPT !.pc = pc]
    <2>1. /\ rec.pc = pc /\ rec.left = run[r].left
          /\ rec.ok = run[r].ok /\ rec.errs = run[r].errs /\ rec.known = run[r].known
        BY <1>0 DEF Run
    <2>2. Become(r, rec)
        BY <1>4
    <2> HIDE DEF rec
    <2>3. AtHand(rec) /\ HolderAtHand(rec) /\ Counted(rec) /\ Given(rec, bonus) /\ rec.pc # "write"
        BY <1>0, <1>4, <2>1 DEF AtHand, RunOK, HolderAtHand, Counted, Given, Walk, Rest
    <2>4. Reached(rec, bonus)
        BY <1>0, <1>4, <2>1 DEF RunOK, Reached, Walk, Rest
    <2>5. QED
        BY <1>0, <1>1, <1>2, <2>2, <2>3, <2>4, RunQuiet DEF RunOK
<1>5. CASE Start(r)
    BY <1>4, <1>5 DEF Start
<1>6. CASE ReadRecord(r)
    BY <1>4, <1>6 DEF ReadRecord, Rest
<1>7. CASE InsertRecord(r) \/ RecordFails(r) \/ QueueRebuilds(r)
    BY <1>4, <1>7 DEF InsertRecord, RecordFails, QueueRebuilds, Rest
<1>8. QED
    BY <1>3, <1>5, <1>6, <1>7

(* COMPLETED is only written by a run that came past every holder.          *)
LEMMA FinishIInv ==
    ASSUME IInv, TypeOK', NEW r \in Runs, Finish(r)
    PROVE  IInv'
<1> DEFINE rec == [NewRun(run[r].name) EXCEPT !.pc = "done", !.tries = run[r].tries]
<1>1. UNCHANGED <<bonus, req, status, mishap>> /\ Become(r, rec)
    BY DEF Finish, tables
<1>2. AtHand(rec) /\ RunOK(rec, bonus) /\ rec.pc # "write" /\ rec.pc = "done"
    BY BackToStart DEF NewRun
<1> HIDE DEF rec
<1>3. \A a \in Always : bonus[a] # <<>>
    BY DEF Finish, IInv, RunOK, Reached, Rest, Walk
<1>4. SuccessMeansRow' /\ \A c \in Requests : Asking(req'[c])
    BY <1>1, SuccessKept DEF IInv, StrongType
<1>5. rec.pc \in {"absent"} \union Closed
    BY <1>2 DEF Closed
<1>6. QED
    BY <1>1, <1>2, <1>3, <1>4, <1>5, QuietStep

LEMMA AttemptEndsIInv ==
    ASSUME IInv, TypeOK', NEW r \in Runs,
           QueueFails(r) \/ FinishFailed(r) \/ Throws(r) \/ Killed(r)
    PROVE  IInv'
<1>1. UNCHANGED <<bonus, req, status>> /\ Open(r) /\ PoolRetry(r)
    BY DEF QueueFails, FinishFailed, Throws, Killed, Open, Closed, tables
<1>2. mishap \subseteq mishap'
    BY <1>1 DEF PoolRetry
<1>3. jobs \in JobRow
    BY DEF IInv, StrongType, TypeOK
<1>4. jobs'.status = "COMPLETED" => jobs.status = "COMPLETED"
    BY <1>3 DEF QueueFails, FinishFailed, Throws, Killed, SetJob, JobRow
<1>5. PICK pc \in {"queued", "failed"}, n \in {run[r].tries, run[r].tries + 1} :
         Become(r, [NewRun(run[r].name) EXCEPT !.pc = pc, !.tries = n])
    <2>1. CASE run[r].tries < MaxRetries
        BY <1>1, <2>1 DEF PoolRetry
    <2>2. CASE ~(run[r].tries < MaxRetries)
        BY <1>1, <2>2 DEF PoolRetry
    <2>3. QED
        BY <2>1, <2>2
<1> DEFINE rec == [NewRun(run[r].name) EXCEPT !.pc = pc, !.tries = n]
<1>6. AtHand(rec) /\ RunOK(rec, bonus) /\ rec.pc # "write" /\ Become(r, rec)
    BY <1>5, BackToStart
<1> HIDE DEF rec
<1>7. QED
    BY <1>1, <1>2, <1>4, <1>6, SuccessKept, RunQuiet

LEMMA StepIInv == IInv /\ [Next]_vars => IInv'
<1> SUFFICES ASSUME IInv, [Next]_vars PROVE IInv'
    OBVIOUS
<1>1. TypeOK'
    BY StepType DEF IInv
<1>2. ASSUME NEW c \in Requests, RequestStep(c) PROVE IInv'
    BY <1>1, <1>2, RequestIInv
<1>3. ASSUME NEW r \in Runs, RunStep(r) PROVE IInv'
    BY <1>1, <1>3, BeginAccountIInv, CheckRowIInv, WriteStepIInv, MarkIInv, JobStepIInv,
       FinishIInv, AttemptEndsIInv DEF RunStep
<1>4. CASE PollStatus
    BY <1>1, <1>4, PollIInv
<1>5. CASE UNCHANGED vars
    <2>1. UNCHANGED <<bonus, status, run, req, jobs, mishap>>
        BY <1>5 DEF vars, tables
    <2>2. QED
        BY <1>1, <2>1, RequestQuiet DEF IInv, StrongType
<1>6. QED
    BY <1>2, <1>3, <1>4, <1>5 DEF Next

(* The invariant behind the theorems below holds of every behaviour.        *)
THEOREM BonusInductive == Spec => []IInv
BY InitIInv, StepIInv, PTL DEF Spec

(* Every state of the requests, jobs and tables has its type.               *)
THEOREM BonusTypeCorrect == Spec => []TypeOK
<1>1. IInv => TypeOK
    BY DEF IInv, StrongType
<1>2. QED
    BY <1>1, BonusInductive, PTL

(* COMPLETED in the Jobs row means that every holder has the bonus.         *)
THEOREM CompletionGivesAll == Spec => []CompletedMeansBonus
<1>1. IInv => CompletedMeansBonus
    BY DEF IInv
<1>2. QED
    BY <1>1, BonusInductive, PTL

(* Nobody gets a bonus twice, unless two jobs ran beside each other or a    *)
(* failed look for the row was taken for "no row".                          *)
THEOREM GivenOnce == Spec => []BonusOnce
<1>1. IInv => BonusOnce
    BY DEF IInv
<1>2. QED
    BY <1>1, BonusInductive, PTL

----------------------------------------------------------------------------
(* What is owed: a rebuild to an account that changed, a row of             *)
(* Bonus_Record to a bonus that was given, a resize to a row out of date.   *)

(* The run is to come past account a, or came past and will run again.      *)
Todo(rec, a) ==
    \/ rec.pc \in {"queued", "read"}
    \/ rec.pc \in Walk /\ \E i \in DOMAIN rec.left : rec.left[i] = a /\ (i = 1 => rec.pc # "mark")
    \/ rec.pc \in Walk \union Rest /\ rec.errs > 0

(* ... and will not skip it, by what the jobs marked so far.                *)
Pending(rec, marks, a) == Todo(rec, a) /\ marks[rec.name][a] # "SUCCESS"

Affecting(rec, a) == a \in rec.affected /\ rec.pc \in Walk \union {"record", "newrecord"}
Owing(rec, marks, a) == Pending(rec, marks, a) \/ Affecting(rec, a)
ToQueue(rec, marks, a) == Owing(rec, marks, a) \/ (a \in rec.affected /\ rec.pc = "queue")

(* Whom every run that comes past now gives a share: if a split came in on  *)
(* an open job, the jobs may differ on the accounts it sways.               *)
Sure == IF "raced" \in mishap THEN Always ELSE Eligible(splits)
Minded(a) == "raced" \in mishap => a \notin Swayed

(* A holder a run marks SUCCESS is one it affected.                         *)
Affected(rec) ==
    rec.pc = "mark" /\ rec.ok /\ Head(rec.left) \in Eligible(rec.known) => Head(rec.left) \in rec.affected

(* An account at hand is marked RUNNING, as only the run itself marks it;   *)
(* if another run marked it since, it has its row.                          *)
Begun(rec, marks) == rec.pc \in {"check", "write", "update"} => marks[rec.name][Head(rec.left)] # "SUCCESS"

Filled(rec, marks, b) ==
    rec.pc \in {"check", "write", "update"} /\ marks[rec.name][Head(rec.left)] = "SUCCESS"
        => b[Head(rec.left)] # <<>>

OwnName ==
    \A r \in Runs : /\ run[r].name \in {Apply, r}
                    /\ run[r].pc = "absent" => \A a \in Accounts : status[r][a] # "SUCCESS"

AfterSplit == \A c \in Requests : req[c].pc \in {"queue", "records", "recompute"} => splits > 0

(* Whoever changed last is to be rebuilt.                                   *)
RebuildOwed ==
    Free({"cut", "lost", "beside"}) =>
       \A a \in behind : Minded(a) =>
          \/ \E c \in Requests : req[c].pc = "queue"
          \/ a \in Sure /\ \E r \in Runs : ToQueue(run[r], status, a)

(* A bonus that was given is recorded, or will be.                          *)
RecordOwed ==
    Free({"raced", "cut", "lost", "unrecorded"}) =>
       \A a \in Accounts : bonus[a] # <<>> =>
          record > 0 \/ (a \in Sure /\ \E r \in Runs : Owing(run[r], status, a))

OutOfDate(a) == \E n \in DOMAIN bonus[a] : bonus[a][n] # splits

Sound == Free({"raced", "cut", "lost", "unrecorded", "unqueued", "blind"})

(* What runs write is not out of date ...                                   *)
KnownFresh == Free({"raced"}) => \A r \in Runs : run[r].pc \in Walk \union Rest => run[r].known = splits

(* ... nor is what a recomputation inserts beside, or marks;                *)
Resized(rec) == rec.pc = "write" \/ (rec.pc = "mark" /\ rec.ok)

ResizedFresh ==
    Sound => \A r \in Runs :
       Recompute(r) /\ Resized(run[r]) /\ Here(r) \in Eligible(run[r].known) => ~OutOfDate(Here(r))

(* and what is out of date is recorded, so that a request finds it, or a    *)
(* recomputation will come past it.                                         *)
ResizeOwed ==
    Sound => \A a \in SplitHolders : OutOfDate(a) =>
       /\ record > 0
       /\ \/ \E c \in Requests : req[c].pc \in {"queue", "records", "recompute"}
          \/ a \in Sure /\ \E r \in Runs : Recompute(r) /\ Pending(run[r], status, a)

Dues ==
    /\ IInv
    /\ \A r \in Runs : Affected(run[r])
    /\ Free({"beside"}) => \A r \in Runs : Begun(run[r], status)
    /\ Free({"raced"}) => \A r \in Runs : Filled(run[r], status, bonus)
    /\ OwnName
    /\ AfterSplit
    /\ RebuildOwed
    /\ RecordOwed
    /\ KnownFresh
    /\ ResizedFresh
    /\ ResizeOwed

(* What a step of run r, to record p, may do to the tables ...              *)
Moves(r, p) ==
    /\ Become(r, p) /\ Open(r) /\ p.name = run[r].name /\ p.pc # "absent"
    /\ UNCHANGED <<req, splits>> /\ record' \in Nat /\ record <= record'
    /\ mishap \subseteq mishap' /\ ("raced" \in mishap' => "raced" \in mishap)
    /\ Growing
    /\ Affected(p)
    /\ Free({"beside"}) => Begun(p, status')
    /\ Free({"raced"}) => Filled(p, status', bonus')
    /\ p.pc \in Walk \union Rest =>
          p.known = splits \/ (run[r].pc \in Walk \union Rest /\ p.known = run[r].known)

(* ... and has to make good of what is owed.                                *)
MarksWell(r, p) ==
    \A n \in JobNames : \A a \in Accounts :
       status'[n][a] = "SUCCESS" =>
          \/ status[n][a] = "SUCCESS"
          \/ n = run[r].name /\ (a \in Sure => Affecting(p, a) /\ bonus'[a] # <<>>)

WritesWell(r, p) ==
    \A a \in Accounts :
       /\ Free({"raced"}) /\ bonus'[a] # <<>> => bonus[a] # <<>> \/ (a \in Sure /\ Owing(p, status', a))
       /\ Sound' /\ OutOfDate(a)' => OutOfDate(a)
       /\ a \in behind' /\ Free({"beside"}) /\ Minded(a) => a \in behind \/ (a \in Sure /\ Owing(p, status', a))

PassesWell(r, p) ==
    \A a \in Accounts \intersect Sure :
       /\ Owing(run[r], status, a) /\ Free({"cut", "lost", "unrecorded"})' =>
             Owing(p, status', a) \/ record' > 0
       /\ ToQueue(run[r], status, a) /\ a \in behind' /\ Free({"cut", "lost"})' =>
             ToQueue(p, status', a)
       /\ Recompute(r) /\ Pending(run[r], status, a) /\ Sound' /\ OutOfDate(a)' =>
             Pending(p, status', a)

LeavesFresh(r, p) ==
    Recompute(r) /\ Resized(p) /\ Head(p.left) \in Eligible(p.known) /\ Sound' => ~OutOfDate(Head(p.left))'

GoodStep(r, p) == Moves(r, p) /\ MarksWell(r, p) /\ WritesWell(r, p) /\ PassesWell(r, p) /\ LeavesFresh(r, p)

(* Whom a run past its reads gives a share.                                 *)
LEMMA SureGiven ==
    ASSUME Dues, NEW r \in Runs, run[r].pc \in Walk \union Rest
    PROVE  /\ Sure \subseteq Eligible(run[r].known)
           /\ \A a \in Eligible(run[r].known) : Minded(a) => a \in Sure
<1>1. CASE "raced" \in mishap
    BY <1>1 DEF Sure, Minded, Always, Swayed, Eligible
<1>2. CASE "raced" \notin mishap
    <2>1. run[r].known = splits
        BY <1>2 DEF Dues, KnownFresh, Free
    <2>2. QED
        BY <1>2, <2>1 DEF Sure
<1>3. QED
    BY <1>1, <1>2

LEMMA InitDues == Init => Dues
<1> SUFFICES ASSUME Init PROVE Dues
    OBVIOUS
<1>1. /\ \A r \in Runs : run[r].pc = "absent" /\ run[r].affected = {} /\ run[r].name = Apply
      /\ behind = {} /\ \A a \in Accounts : bonus[a] = <<>>
      /\ \A n \in JobNames : \A a \in Accounts : status[n][a] = "none"
    BY DEF Init, NoRun, NewRun
<1>2. \A r \in Runs : /\ Affected(run[r]) /\ Begun(run[r], status) /\ ~Resized(run[r])
                       /\ Filled(run[r], status, bonus)
    BY <1>1 DEF Affected, Begun, Resized, Filled
<1>3. OwnName /\ AfterSplit
    BY <1>1 DEF OwnName, AfterSplit, JobNames, Init, NoRequest
<1>4. \A a \in Accounts : ~OutOfDate(a)
    BY <1>1 DEF OutOfDate
<1>5. RebuildOwed /\ RecordOwed /\ KnownFresh /\ ResizedFresh /\ ResizeOwed
    BY <1>1, <1>2, <1>4 DEF RebuildOwed, RecordOwed, KnownFresh, ResizedFresh, ResizeOwed, Walk, Rest
<1>6. QED
    BY <1>2, <1>3, <1>5, InitIInv DEF Dues

(* The account a run steps past is the only one it no longer has to do.     *)
LEMMA NextTodo ==
    ASSUME IInv, NEW r \in Runs, run[r].pc \in Walk, NEW p, p = NextAccount(run[r])
    PROVE  /\ p.name = run[r].name /\ p.affected = run[r].affected /\ p.known = run[r].known
           /\ p.errs = run[r].errs /\ p.ok = TRUE /\ p.pc \in {"account", "record"}
           /\ \A a : Todo(run[r], a) /\ (a # Here(r) \/ run[r].errs > 0 \/ run[r].pc = "mark") =>
                 Todo(p, a)
<1>0. run[r] \in Run
    BY DEF IInv, StrongType, TypeOK
<1>1. run[r].left \in Seq(Accounts) /\ run[r].left # <<>> /\ Tail(run[r].left) \in Seq(Accounts)
    BY HereType DEF IInv
<1>2. /\ p.left = Tail(run[r].left) /\ p.ok = TRUE /\ p.errs = run[r].errs
      /\ p.name = run[r].name /\ p.affected = run[r].affected /\ p.known = run[r].known
      /\ p.pc = (IF Tail(run[r].left) = <<>> THEN "record" ELSE "account")
    BY <1>0 DEF NextAccount, Run
<1>3. ASSUME NEW a, Todo(run[r], a), a # Here(r) \/ run[r].errs > 0 \/ run[r].pc = "mark"
      PROVE  Todo(p, a)
    <2>1. CASE run[r].errs > 0
        BY <1>2, <1>3, <2>1 DEF Todo, Walk, Rest
    <2>2. CASE ~(run[r].errs > 0)
        <3>1. PICK i \in DOMAIN run[r].left : run[r].left[i] = a /\ (i = 1 => run[r].pc # "mark")
            BY <1>3, <2>2 DEF Todo, Walk
        <3>2. i # 1
            BY <1>1, <1>3, <2>2, <3>1 DEF Here
        <3>3. i \in 1 .. Len(run[r].left) /\ Len(run[r].left) \in Nat
            BY SMTT(40), <1>1, <3>1
        <3>4. Len(Tail(run[r].left)) = Len(run[r].left) - 1
            BY <1>1, HeadTailProperties
        <3>5. i - 1 \in 1 .. Len(Tail(run[r].left))
            BY SMTT(40), <3>2, <3>3, <3>4
        <3>6. Tail(run[r].left)[i - 1] = a
            <4>1. \A j \in 1 .. Len(Tail(run[r].left)) : Tail(run[r].left)[j] = run[r].left[j + 1]
                BY <1>1, HeadTailProperties
            <4>2. Tail(run[r].left)[i - 1] = run[r].left[i - 1 + 1]
                BY <3>5, <4>1
            <4>3. i - 1 + 1 = i
                BY <3>3
            <4>4. QED
                BY <3>1, <4>2, <4>3
        <3>7. i - 1 \in DOMAIN p.left /\ p.left[i - 1] = a
            BY <1>1, <1>2, <3>5, <3>6
        <3>8. p.pc = "account"
            BY <1>1, <1>2, <3>5
        <3>9. QED
            BY <3>7, <3>8 DEF Todo, Walk
    <2>3. QED
        BY <2>1, <2>2
<1>4. QED
    BY <1>2, <1>3

(* A step that leaves rows and marks alone and stays in the same attempt.   *)
LEMMA PlainStep ==
    ASSUME Dues, NEW r \in Runs, NEW p, Become(r, p), Open(r),
           p.name = run[r].name, p.affected = run[r].affected, p.errs = run[r].errs,
           p.pc \in {"read", "account"} \union Rest,
           UNCHANGED <<bonus, status, req, splits>>,
           mishap \subseteq mishap', "raced" \in mishap' => "raced" \in mishap,
           record' \in Nat, record <= record', behind' \subseteq behind,
           p.pc \in Walk \union Rest =>
              p.known = splits \/ (run[r].pc \in Walk \union Rest /\ p.known = run[r].known),
           \A a \in Accounts :
              /\ Todo(run[r], a) => Todo(p, a)
              /\ Affecting(run[r], a) /\ Free({"cut", "lost", "unrecorded"})' =>
                    Affecting(p, a) \/ record' > 0
              /\ a \in run[r].affected /\ a \in behind' /\ run[r].pc \in Walk \union {"record", "newrecord", "queue"} =>
                    p.pc \in Walk \union {"record", "newrecord", "queue"}
    PROVE  GoodStep(r, p)
<1>1. Moves(r, p)
    <2>1. Affected(p)
        BY DEF Dues, Affected, Rest
    <2>2. Begun(p, status') /\ Filled(p, status', bonus') /\ p.pc # "absent"
        BY DEF Begun, Filled, Rest
    <2>3. QED
        BY <2>1, <2>2 DEF Moves, Growing
<1>2. MarksWell(r, p)
    BY DEF MarksWell
<1>3. WritesWell(r, p)
    <2>1. \A a \in Accounts : OutOfDate(a)' => OutOfDate(a)
        BY DEF OutOfDate
    <2>2. QED
        BY <2>1 DEF WritesWell
<1>4. PassesWell(r, p)
    <2> SUFFICES ASSUME NEW a \in Accounts
                 PROVE  /\ Owing(run[r], status, a) /\ Free({"cut", "lost", "unrecorded"})' =>
                             Owing(p, status', a) \/ record' > 0
                        /\ ToQueue(run[r], status, a) /\ a \in behind' /\ Free({"cut", "lost"})' =>
                             ToQueue(p, status', a)
                        /\ Recompute(r) /\ Pending(run[r], status, a) /\ Sound' /\ OutOfDate(a)' =>
                             Pending(p, status', a)
        BY DEF PassesWell
    <2>1. Pending(run[r], status, a) => Pending(p, status', a)
        BY DEF Pending
    <2>2. a \in run[r].affected /\ a \in behind' /\ run[r].pc \in Walk \union {"record", "newrecord", "queue"} =>
             Affecting(p, a) \/ (a \in p.affected /\ p.pc = "queue")
        BY DEF Affecting
    <2>3. QED
        BY <2>1, <2>2 DEF Owing, ToQueue, Affecting
<1>5. LeavesFresh(r, p)
    BY DEF LeavesFresh, Resized, Rest
<1>6. QED
    BY <1>1, <1>2, <1>3, <1>4, <1>5 DEF GoodStep

LEMMA JobGood ==
    ASSUME Dues, NEW r \in Runs,
           Start(r) \/ ReadSources(r) \/ ReadRecord(r) \/ InsertRecord(r) \/ RecordFails(r)
             \/ QueueRebuilds(r)
    PROVE  \E p : GoodStep(r, p)
<1>0. /\ run[r] \in Run /\ Open(r) /\ record \in Nat
      /\ UNCHANGED <<bonus, req, status, splits>>
      /\ mishap \subseteq mishap' /\ ("raced" \in mishap' => "raced" \in mishap)
      /\ behind' \subseteq behind
    BY DEF Dues, IInv, StrongType, TypeOK, Open, Closed, tables,
           Start, ReadSources, ReadRecord, InsertRecord, RecordFails, QueueRebuilds
<1>1. record' \in Nat /\ record <= record'
    BY <1>0 DEF tables, Start, ReadSources, ReadRecord, InsertRecord, RecordFails, QueueRebuilds
<1>2. CASE ReadSources(r)
    <2>1. PICK p : p = [run[r] EXCEPT !.pc = "account", !.known = splits, !.left = [a \in Accounts |-> a]]
        OBVIOUS
    <2>2. /\ p.pc = "account" /\ p.left = [a \in Accounts |-> a] /\ p.known = splits
          /\ p.name = run[r].name /\ p.affected = run[r].affected /\ p.errs = run[r].errs
          /\ run[r].pc = "read"
        BY <1>0, <1>2, <2>1 DEF Run, ReadSources
    <2>3. Become(r, p)
        BY <1>2, <2>1 DEF ReadSources
    <2>4. \A a \in Accounts : Todo(run[r], a) => Todo(p, a)
        <3>1. \A a \in Accounts : a \in DOMAIN p.left /\ p.left[a] = a /\ p.pc # "mark"
            BY <2>2
        <3>2. QED
            BY <2>2, <3>1 DEF Todo, Walk
    <2>5. \A a \in Accounts : ~Affecting(run[r], a)
        BY <2>2 DEF Affecting, Walk
    <2>6. GoodStep(r, p)
        BY <1>0, <1>1, <2>2, <2>3, <2>4, <2>5, PlainStep DEF Walk
    <2>7. QED
        BY <2>6
<1>3. ASSUME NEW pc \in {"read"} \union Rest, Become(r, [run[r] EXCEPT !.pc = pc]),
             run[r].pc = "queued" <=> pc = "read",
             run[r].pc = "queued" \/ run[r].pc \in {"record", "newrecord"}
               \/ (run[r].pc = "queue" /\ behind' = behind \ run[r].affected),
             pc = "end" => run[r].pc = "queue",
             run[r].pc \in {"record", "newrecord"} /\ Free({"unrecorded"})' /\ pc # "newrecord" =>
                record' > 0 \/ run[r].affected = {}
      PROVE  \E p : GoodStep(r, p)
    <2>1. PICK p : p = [run[r] EXCEPT !.pc = pc]
        OBVIOUS
    <2>2. /\ p.pc = pc /\ p.left = run[r].left /\ p.known = run[r].known
          /\ p.name = run[r].name /\ p.affected = run[r].affected /\ p.errs = run[r].errs
        BY <1>0, <2>1 DEF Run
    <2>3. Become(r, p)
        BY <1>3, <2>1
    <2>4. \A a \in Accounts : Todo(run[r], a) => Todo(p, a)
        BY <1>3, <2>2 DEF Todo, Walk, Rest
    <2>5. \A a \in Accounts :
             Affecting(run[r], a) /\ Free({"cut", "lost", "unrecorded"})' => Affecting(p, a) \/ record' > 0
        BY <1>3, <2>2 DEF Affecting, Walk, Free
    <2>6. \A a \in Accounts :
             a \in run[r].affected /\ a \in behind' /\ run[r].pc \in Walk \union {"record", "newrecord", "queue"} =>
                p.pc \in Walk \union {"record", "newrecord", "queue"}
        BY <1>3, <2>2 DEF Walk, Rest
    <2>7. p.pc \in Walk \union Rest => run[r].pc \in Walk \union Rest
        BY <1>3, <2>2 DEF Walk, Rest
    <2>8. p.pc \in {"read", "account"} \union Rest
        BY <1>3, <2>2
    <2>9. GoodStep(r, p)
        BY <1>0, <1>1, <2>2, <2>3, <2>4, <2>5, <2>6, <2>7, <2>8, PlainStep
    <2>10. QED
        BY <2>9
<1>4. CASE Start(r)
    BY <1>3, <1>4 DEF Start, Rest
<1>5. CASE ReadRecord(r)
    <2>1. record' = record
        BY <1>5 DEF ReadRecord, tables
    <2>2. PICK pc \in {"queue", "newrecord"} :
             /\ pc = IF run[r].affected = {} \/ record > 0 THEN "queue" ELSE "newrecord"
             /\ Become(r, [run[r] EXCEPT !.pc = pc])
        BY <1>5 DEF ReadRecord
    <2>3. run[r].pc = "record"
        BY <1>5 DEF ReadRecord
    <2>4. QED
        BY <1>3, <2>1, <2>2, <2>3 DEF Rest
<1>6. CASE InsertRecord(r)
    <2>1. record' > 0 /\ run[r].pc = "newrecord" /\ Become(r, [run[r] EXCEPT !.pc = "queue"])
        BY <1>0, <1>6 DEF InsertRecord
    <2>2. QED
        BY <1>3, <2>1 DEF Rest
<1>7. CASE RecordFails(r)
    <2>1. /\ run[r].pc \in {"record", "newrecord"} /\ Become(r, [run[r] EXCEPT !.pc = "queue"])
          /\ ~Free({"unrecorded"})'
        BY <1>7 DEF RecordFails, Free
    <2>2. QED
        BY <1>3, <2>1 DEF Rest
<1>8. CASE QueueRebuilds(r)
    <2>1. /\ run[r].pc = "queue" /\ Become(r, [run[r] EXCEPT !.pc = "end"])
          /\ behind' = behind \ run[r].affected
        BY <1>8 DEF QueueRebuilds
    <2>2. QED
        BY <1>3, <2>1 DEF Rest
<1>9. QED
    BY <1>2, <1>4, <1>5, <1>6, <1>7, <1>8

LEMMA BeginAccountGood ==
    ASSUME Dues, NEW r \in Runs, BeginAccount(r)
    PROVE  \E p : GoodStep(r, p)
<1>0. /\ run[r] \in Run /\ Open(r) /\ run[r].pc = "account" /\ Here(r) \in Accounts
      /\ record \in Nat /\ run[r].name \in JobNames
      /\ UNCHANGED <<splits, bonus, record, behind, req, mishap>>
    BY HereType DEF Dues, IInv, StrongType, TypeOK, Open, Closed, tables, BeginAccount, Walk, Run
<1>1. CASE status[run[r].name][Here(r)] = "SUCCESS" /\ Become(r, NextAccount(run[r])) /\ UNCHANGED status
    <2>1. PICK p : p = NextAccount(run[r])
        OBVIOUS
    <2>2. /\ p.name = run[r].name /\ p.affected = run[r].affected /\ p.known = run[r].known
          /\ p.ok = TRUE /\ p.pc \in {"account", "record"}
          /\ \A a : Todo(run[r], a) /\ a # Here(r) => Todo(p, a)
        BY <1>0, <2>1, NextTodo DEF Dues, Walk
    <2>3. Become(r, p)
        BY <1>1, <2>1
    <2>4. Moves(r, p)
        BY <1>0, <2>2, <2>3 DEF Dues, Moves, Affected, Begun, Filled, Growing, Walk, Rest
    <2>5. \A a \in Accounts : Pending(run[r], status, a) => Pending(p, status', a)
        BY <1>1, <2>2 DEF Pending
    <2>6. \A a \in Accounts : Affecting(run[r], a) => Affecting(p, a)
        BY <2>2 DEF Affecting, Walk
    <2>7. PassesWell(r, p)
        BY <1>0, <2>5, <2>6 DEF PassesWell, Owing, ToQueue
    <2>8. MarksWell(r, p) /\ WritesWell(r, p)
        BY <1>0, <1>1 DEF MarksWell, WritesWell, OutOfDate
    <2>9. LeavesFresh(r, p)
        BY <2>2 DEF LeavesFresh, Resized
    <2>10. QED
        BY <2>4, <2>7, <2>8, <2>9 DEF GoodStep
<1>2. CASE /\ status' = [status EXCEPT ![run[r].name][Here(r)] = "RUNNING"]
           /\ Become(r, [run[r] EXCEPT !.pc = IF Here(r) \in Eligible(run[r].known) THEN "check" ELSE "mark"])
    <2>1. PICK p : p = [run[r] EXCEPT !.pc = IF Here(r) \in Eligible(run[r].known) THEN "check" ELSE "mark"]
        OBVIOUS
    <2>2. /\ p.name = run[r].name /\ p.affected = run[r].affected /\ p.known = run[r].known
          /\ p.left = run[r].left /\ p.errs = run[r].errs /\ p.ok = run[r].ok
          /\ p.pc = IF Here(r) \in Eligible(run[r].known) THEN "check" ELSE "mark"
        BY <1>0, <2>1 DEF Run
    <2>3. Become(r, p)
        BY <1>2, <2>1
    <2>4. /\ status'[run[r].name][Here(r)] = "RUNNING"
          /\ \A n \in JobNames : \A a \in Accounts :
                status'[n][a] = status[n][a] \/ (n = run[r].name /\ a = Here(r) /\ status'[n][a] = "RUNNING")
        BY <1>0, <1>2 DEF Dues, IInv, StrongType, TypeOK
    <2>5. Moves(r, p)
        <3>1. Begun(p, status') /\ Filled(p, status', bonus')
            BY <2>2, <2>4 DEF Begun, Filled, Here
        <3>2. Affected(p)
            BY <2>2 DEF Dues, Affected, Here
        <3>3. QED
            BY <1>0, <2>2, <2>3, <3>1, <3>2 DEF Moves, Growing, Walk, Rest
    <2>14. Here(r) \in Sure => p.pc = "check"
        BY <1>0, <2>2, SureGiven DEF Walk
    <2>6. \A a \in Accounts \intersect Sure : Todo(run[r], a) => Todo(p, a)
        <3> SUFFICES ASSUME NEW a \in Accounts \intersect Sure, Todo(run[r], a) PROVE Todo(p, a)
            OBVIOUS
        <3>1. CASE run[r].errs > 0
            BY <1>0, <2>2, <3>1 DEF Todo, Walk
        <3>2. CASE ~(run[r].errs > 0)
            <4>2. PICK i \in DOMAIN run[r].left : run[r].left[i] = a
                BY <1>0, <3>2 DEF Todo
            <4>3. i = 1 => a = Here(r)
                <5>1. run[r].left \in Seq(Accounts) /\ run[r].left # <<>>
                    BY <1>0, HereType DEF Dues, IInv, Walk
                <5>2. QED
                    BY <4>2, <5>1 DEF Here
            <4>4. QED
                <5>1. i \in DOMAIN p.left /\ p.left[i] = a /\ p.pc \in Walk
                    BY <2>2, <4>2 DEF Walk
                <5>2. i = 1 => p.pc # "mark"
                    BY <2>14, <4>3
                <5>3. QED
                    BY <5>1, <5>2 DEF Todo
        <3>3. QED
            BY <3>1, <3>2
    <2>7. \A a \in Accounts \intersect Sure : Pending(run[r], status, a) => Pending(p, status', a)
        BY <1>0, <2>2, <2>4, <2>6 DEF Pending
    <2>8. \A a \in Accounts : Affecting(run[r], a) => Affecting(p, a)
        BY <2>2 DEF Affecting, Walk
    <2>9. PassesWell(r, p)
        BY <1>0, <2>7, <2>8 DEF PassesWell, Owing, ToQueue
    <2>10. MarksWell(r, p)
        BY <2>4 DEF MarksWell
    <2>11. WritesWell(r, p)
        BY <1>0 DEF WritesWell, OutOfDate
    <2>12. LeavesFresh(r, p)
        BY <2>2 DEF LeavesFresh, Resized, Here
    <2>13. QED
        BY <2>5, <2>9, <2>10, <2>11, <2>12 DEF GoodStep
<1>3. QED
    BY <1>1, <1>2 DEF BeginAccount

LEMMA CheckRowGood ==
    ASSUME Dues, NEW r \in Runs, CheckRow(r)
    PROVE  \E p : GoodStep(r, p)
<1>0. /\ run[r] \in Run /\ Open(r) /\ run[r].pc = "check" /\ Here(r) \in Accounts
      /\ Here(r) \in Eligible(run[r].known) /\ record \in Nat
      /\ UNCHANGED <<splits, bonus, record, behind, req, status>>
      /\ mishap \subseteq mishap' /\ ("raced" \in mishap' => "raced" \in mishap)
    BY HereType DEF Dues, IInv, RunOK, HolderAtHand, StrongType, TypeOK, Open, Closed, tables, CheckRow, Walk, Here
<1>1. PICK p : /\ \/ p = Affect([run[r] EXCEPT !.pc = "mark"], Here(r)) /\ ~Recompute(r)
                  \/ p = [run[r] EXCEPT !.pc = "update"]
                  \/ p = [run[r] EXCEPT !.pc = "write"] /\ (bonus[Here(r)] = <<>> \/ "blind" \in mishap')
               /\ Become(r, p)
    <2>1. CASE Become(r, [run[r] EXCEPT !.pc = "write"]) /\ "blind" \in mishap'
        BY <2>1
    <2>2. CASE Become(r, IF bonus[Here(r)] # <<>> /\ ~Recompute(r) THEN Affect([run[r] EXCEPT !.pc = "mark"], Here(r))
                         ELSE [run[r] EXCEPT !.pc = IF bonus[Here(r)] # <<>> THEN "update" ELSE "write"])
        <3>1. CASE bonus[Here(r)] # <<>> /\ ~Recompute(r)
            BY <2>2, <3>1
        <3>2. CASE bonus[Here(r)] # <<>> /\ Recompute(r)
            BY <2>2, <3>2
        <3>3. CASE bonus[Here(r)] = <<>>
            BY <2>2, <3>3
        <3>4. QED
            BY <3>1, <3>2, <3>3
    <2>3. QED
        BY <2>1, <2>2 DEF CheckRow
<1>2. /\ p.name = run[r].name /\ p.known = run[r].known /\ p.left = run[r].left
      /\ p.errs = run[r].errs /\ run[r].affected \subseteq p.affected
      /\ \/ p.pc = "mark" /\ ~Recompute(r) /\ p.affected = run[r].affected \union {Here(r)}
         \/ p.pc \in {"update", "write"} /\ p.affected = run[r].affected
      /\ p.pc = "write" => bonus[Here(r)] = <<>> \/ "blind" \in mishap'
    BY ZenonT(60), <1>0, <1>1 DEF Run, Affect
<1>3. Moves(r, p)
    <2>1. Affected(p)
        BY <1>0, <1>2 DEF Dues, Affected, Here
    <2>2. Free({"beside"}) => Begun(p, status')
        BY <1>0, <1>2 DEF Dues, Begun
    <2>3. Free({"raced"}) => Filled(p, status', bonus')
        BY <1>0, <1>2 DEF Dues, Filled
    <2>4. QED
        BY <1>0, <1>1, <1>2, <2>1, <2>2, <2>3 DEF Moves, Growing, Walk, Rest
<1>4. \A a \in Accounts : Todo(run[r], a) => Todo(p, a) \/ (p.pc = "mark" /\ a = Here(r))
    <2> SUFFICES ASSUME NEW a \in Accounts, Todo(run[r], a), ~(p.pc = "mark" /\ a = Here(r)) PROVE Todo(p, a)
        OBVIOUS
    <2>1. CASE run[r].errs > 0
        BY <1>0, <1>2, <2>1 DEF Todo, Walk
    <2>2. CASE ~(run[r].errs > 0)
        <3>2. PICK i \in DOMAIN run[r].left : run[r].left[i] = a
            BY <1>0, <2>2 DEF Todo
        <3>3. i = 1 => a = Here(r)
            <4>1. run[r].left \in Seq(Accounts) /\ run[r].left # <<>>
                BY <1>0, HereType DEF Dues, IInv, Walk
            <4>2. QED
                BY <3>2, <4>1 DEF Here
        <3>4. QED
            BY <1>2, <3>2, <3>3 DEF Todo, Walk
    <2>3. QED
        BY <2>1, <2>2
<1>5. \A a \in Accounts : Pending(run[r], status, a) => Pending(p, status', a) \/ (p.pc = "mark" /\ a = Here(r))
    BY <1>0, <1>2, <1>4 DEF Pending
<1>6. \A a \in Accounts : Affecting(run[r], a) => Affecting(p, a)
    BY <1>2 DEF Affecting, Walk
<1>7. p.pc = "mark" => Affecting(p, Here(r)) /\ ~Recompute(r)
    BY <1>2 DEF Affecting, Walk
<1>8. PassesWell(r, p)
    BY <1>0, <1>5, <1>6, <1>7 DEF PassesWell, Owing, ToQueue
<1>9. MarksWell(r, p)
    BY <1>0 DEF MarksWell
<1>10. WritesWell(r, p)
    BY <1>0 DEF WritesWell, OutOfDate
<1>11. LeavesFresh(r, p)
    <2> SUFFICES ASSUME Recompute(r), Resized(p), Sound' PROVE ~OutOfDate(Head(p.left))'
        BY DEF LeavesFresh
    <2>1. bonus'[Head(p.left)] = <<>>
        BY <1>0, <1>2 DEF Resized, Sound, Free, Here
    <2>2. QED
        BY <2>1 DEF OutOfDate
<1>12. QED
    BY <1>3, <1>8, <1>9, <1>10, <1>11 DEF GoodStep

(* What is written is not out of date.                                      *)
LEMMA SizedFresh ==
    ASSUME Dues, Sound, NEW r \in Runs, run[r].pc \in {"write", "update"}
    PROVE  /\ \A n \in DOMAIN Sized(r) : Sized(r)[n] = splits
              \/ (run[r].pc = "write" /\ n \in DOMAIN bonus[Here(r)] /\ Sized(r)[n] = bonus[Here(r)][n])
           /\ Recompute(r) => \A n \in DOMAIN Sized(r) : Sized(r)[n] = splits
<1>0. run[r].known = splits
    BY DEF Dues, KnownFresh, Walk, Sound, Free
<1>1. Here(r) \in Eligible(run[r].known) /\ Here(r) \in Accounts
    BY HereType DEF Dues, IInv, RunOK, HolderAtHand, Here, Walk
<1>2. bonus[Here(r)] \in Seq(Nat) /\ splits \in Nat
    BY <1>1 DEF Dues, IInv, StrongType, TypeOK
<1>3. CASE run[r].pc = "update"
    <2>1. Sized(r) = [n \in DOMAIN bonus[Here(r)] |-> splits]
        BY <1>0, <1>3 DEF Sized
    <2>2. QED
        BY <2>1
<1>4. CASE run[r].pc = "write"
    <2>1. Sized(r) = Append(bonus[Here(r)], splits)
        BY <1>0, <1>4 DEF Sized
    <2>2. \A n \in DOMAIN Sized(r) : Sized(r)[n] = splits
             \/ (n \in DOMAIN bonus[Here(r)] /\ Sized(r)[n] = bonus[Here(r)][n])
        BY <1>2, <2>1, AppendProperties
    <2>3. Recompute(r) => ~OutOfDate(Here(r))
        BY <1>1, <1>4 DEF Dues, ResizedFresh, Resized
    <2>4. QED
        BY <1>4, <2>2, <2>3 DEF OutOfDate
<1>5. QED
    BY <1>3, <1>4

LEMMA WriteGood ==
    ASSUME Dues, NEW r \in Runs, WriteRow(r) \/ WriteFails(r)
    PROVE  \E p : GoodStep(r, p)
<1>0. /\ run[r] \in Run /\ Open(r) /\ run[r].pc \in {"write", "update"} /\ Here(r) \in Accounts
      /\ Here(r) \in Eligible(run[r].known) /\ record \in Nat /\ run[r].name \in JobNames /\ run[r].errs \in Nat
      /\ UNCHANGED <<splits, record, req, status, mishap>>
      /\ bonus \in [Accounts -> Seq(Nat)] /\ behind \subseteq Accounts
    BY HereType DEF Dues, IInv, RunOK, HolderAtHand, StrongType, TypeOK, Run, Open, Closed, tables,
                    WriteRow, WriteFails, Walk, Here
<1>1. PICK p : /\ \/ p = Affect([run[r] EXCEPT !.pc = "mark"], Here(r)) /\ WriteRow(r)
                  \/ p = [run[r] EXCEPT !.pc = "mark", !.ok = FALSE, !.errs = @ + 1] /\ WriteFails(r)
               /\ Become(r, p)
    BY DEF WriteRow, WriteFails
<1>2. /\ p.name = run[r].name /\ p.known = run[r].known /\ p.left = run[r].left /\ p.pc = "mark"
      /\ run[r].affected \subseteq p.affected /\ p.errs \in Nat
      /\ \/ WriteRow(r) /\ p.affected = run[r].affected \union {Here(r)} /\ p.errs = run[r].errs
         \/ WriteFails(r) /\ p.affected = run[r].affected /\ p.ok = FALSE /\ p.errs > 0
    <2>1. CASE p = Affect([run[r] EXCEPT !.pc = "mark"], Here(r)) /\ WriteRow(r)
        BY <1>0, <2>1 DEF Run, Affect
    <2>2. CASE p = [run[r] EXCEPT !.pc = "mark", !.ok = FALSE, !.errs = @ + 1] /\ WriteFails(r)
        <3>1. p.errs = run[r].errs + 1
            BY <1>0, <2>2 DEF Run
        <3>2. QED
            BY SMTT(40), <1>0, <2>2, <3>1 DEF Run
    <2>3. QED
        BY <1>1, <2>1, <2>2
<1>3. /\ bonus' \in {bonus, [bonus EXCEPT ![Here(r)] = Sized(r)]}
      /\ behind' \in {behind, behind \union {Here(r)}}
      /\ p.errs = 0 => bonus' = [bonus EXCEPT ![Here(r)] = Sized(r)]
    <2>1. CASE WriteRow(r)
        BY <2>1 DEF WriteRow
    <2>2. CASE WriteFails(r) /\ p.errs > 0
        BY <2>2 DEF WriteFails
    <2>3. QED
        BY <1>2, <2>1, <2>2
<1>4. Moves(r, p)
    <2>1. Affected(p)
        BY <1>0, <1>2 DEF Dues, Affected, Here
    <2>2. Begun(p, status') /\ Filled(p, status', bonus')
        BY <1>2 DEF Begun, Filled
    <2>3. Growing
        BY <1>0, <1>3, SizedLen DEF Growing, Dues
    <2>4. QED
        BY <1>0, <1>1, <1>2, <2>1, <2>2, <2>3 DEF Moves, Walk, Rest
<1>5. Affecting(p, Here(r)) \/ Todo(p, Here(r))
    BY <1>0, <1>2 DEF Affecting, Todo, Walk
<1>6. \A a \in Accounts : Todo(run[r], a) => Todo(p, a) \/ (p.errs = 0 /\ a = Here(r))
    <2> SUFFICES ASSUME NEW a \in Accounts, Todo(run[r], a), p.errs = 0, a # Here(r) PROVE Todo(p, a)
        <3>1. p.errs # 0 => \A a \in Accounts : Todo(run[r], a) => Todo(p, a)
            BY <1>2 DEF Todo, Walk
        <3>2. QED
            BY <3>1
    <2>1. run[r].errs = 0
        BY <1>2
    <2>2. PICK i \in DOMAIN run[r].left : run[r].left[i] = a
        BY <1>0, <2>1 DEF Todo, Walk
    <2>3. run[r].left \in Seq(Accounts) /\ run[r].left # <<>>
        BY <1>0, HereType DEF Dues, IInv, Walk
    <2>4. i # 1
        BY <2>2, <2>3 DEF Here
    <2>5. QED
        BY <1>2, <2>2, <2>4 DEF Todo, Walk
<1>7. p.errs = 0 => Affecting(p, Here(r))
    BY <1>2 DEF Affecting, Walk
<1>8. \A a \in Accounts : Affecting(run[r], a) => Affecting(p, a)
    BY <1>2 DEF Affecting, Walk
<1>9. Sound' => \A a \in Accounts : OutOfDate(a)' => OutOfDate(a)
    <2> SUFFICES ASSUME Sound, NEW a \in Accounts, NEW n \in DOMAIN bonus'[a], bonus'[a][n] # splits
                 PROVE  OutOfDate(a)
        BY <1>0 DEF OutOfDate, Sound, Free
    <2>1. CASE bonus'[a] = bonus[a]
        BY <2>1 DEF OutOfDate
    <2>2. CASE a = Here(r) /\ bonus'[a] = Sized(r)
        BY <1>0, <2>2, SizedFresh DEF OutOfDate
    <2>3. QED
        BY <1>0, <1>3, <2>1, <2>2
<1>10. Sound' /\ Recompute(r) /\ p.errs = 0 => ~\E n \in DOMAIN bonus'[Here(r)] : bonus'[Here(r)][n] # splits
    <2>1. SUFFICES ASSUME Sound, Recompute(r), p.errs = 0
                   PROVE  \A n \in DOMAIN bonus'[Here(r)] : bonus'[Here(r)][n] = splits
        BY <1>0 DEF Sound, Free
    <2>2. bonus'[Here(r)] = Sized(r)
        BY <1>0, <1>3, <2>1
    <2>3. QED
        BY <1>0, <2>1, <2>2, SizedFresh
<1>11. PassesWell(r, p)
    <2>1. \A a \in Accounts : Owing(run[r], status, a) => Owing(p, status', a)
        BY <1>0, <1>2, <1>6, <1>7, <1>8 DEF Owing, Pending
    <2>2. \A a \in Accounts : ToQueue(run[r], status, a) => ToQueue(p, status', a)
        BY <1>0, <2>1 DEF ToQueue
    <2>3. \A a \in Accounts : Recompute(r) /\ Pending(run[r], status, a) /\ Sound' /\ OutOfDate(a)' =>
             Pending(p, status', a)
        BY <1>0, <1>2, <1>6, <1>10 DEF Pending, OutOfDate
    <2>4. QED
        BY <2>1, <2>2, <2>3 DEF PassesWell
<1>12. MarksWell(r, p)
    BY <1>0 DEF MarksWell
<1>13. WritesWell(r, p)
    <2>0. Minded(Here(r)) => Here(r) \in Sure
        BY <1>0, SureGiven DEF Walk
    <2>1. \A a \in Accounts : Free({"raced"}) /\ bonus'[a] # <<>> =>
             bonus[a] # <<>> \/ (a \in Sure /\ Owing(p, status', a))
        <3> SUFFICES ASSUME Free({"raced"})
                     PROVE  \A a \in Accounts : bonus'[a] # <<>> =>
                               bonus[a] # <<>> \/ (a \in Sure /\ Owing(p, status', a))
            OBVIOUS
        <3>1. status[run[r].name][Here(r)] = "SUCCESS" => bonus[Here(r)] # <<>>
            BY <1>0 DEF Dues, Filled, Here
        <3>2. bonus[Here(r)] # <<>> \/ Owing(p, status', Here(r))
            BY <1>0, <1>2, <1>5, <3>1 DEF Owing, Pending
        <3>3. Here(r) \in Sure
            BY <2>0 DEF Minded, Free
        <3>4. QED
            BY <1>0, <1>3, <3>2, <3>3
    <2>2. \A a \in Accounts : a \in behind' /\ Free({"beside"}) /\ Minded(a) =>
             a \in behind \/ (a \in Sure /\ Owing(p, status', a))
        <3>1. Free({"beside"}) => Owing(p, status', Here(r))
            <4>1. Free({"beside"}) => status[run[r].name][Here(r)] # "SUCCESS"
                BY <1>0 DEF Dues, Begun, Here
            <4>2. QED
                BY <1>0, <1>2, <1>5, <4>1 DEF Owing, Pending
        <3>2. QED
            BY <1>3, <2>0, <3>1
    <2>3. QED
        BY <1>9, <2>1, <2>2 DEF WritesWell
<1>14. LeavesFresh(r, p)
    <2> SUFFICES ASSUME Recompute(r), Resized(p), Sound' PROVE ~OutOfDate(Head(p.left))'
        BY DEF LeavesFresh
    <2>1. p.errs = 0 \/ p.affected = run[r].affected \union {Here(r)}
        BY <1>2 DEF Resized
    <2>2. bonus'[Here(r)] = Sized(r)
        <3>1. WriteRow(r)
            BY <1>0, <1>1 DEF Resized, Run
        <3>2. QED
            BY <1>0, <3>1 DEF WriteRow
    <2>3. \A n \in DOMAIN Sized(r) : Sized(r)[n] = splits
        BY <1>0, SizedFresh DEF Sound, Free
    <2>4. QED
        BY <1>0, <1>2, <2>2, <2>3 DEF OutOfDate, Here
<1>15. QED
    BY <1>4, <1>11, <1>12, <1>13, <1>14 DEF GoodStep

LEMMA MarkGood ==
    ASSUME Dues, NEW r \in Runs, Mark(r)
    PROVE  \E p : GoodStep(r, p)
<1>0. /\ run[r] \in Run /\ Open(r) /\ run[r].pc = "mark" /\ Here(r) \in Accounts
      /\ record \in Nat /\ run[r].name \in JobNames
      /\ UNCHANGED <<splits, bonus, record, behind, req, mishap>>
    BY HereType DEF Dues, IInv, StrongType, TypeOK, Open, Closed, tables, Mark, Walk, Run
<1>1. PICK p : p = NextAccount(run[r])
    OBVIOUS
<1>2. Become(r, p)
    BY <1>1 DEF Mark
<1>3. /\ p.name = run[r].name /\ p.affected = run[r].affected /\ p.known = run[r].known
      /\ p.ok = TRUE /\ p.pc \in {"account", "record"}
      /\ \A a : Todo(run[r], a) => Todo(p, a)
    BY <1>0, <1>1, NextTodo DEF Dues, Walk
<1>4. \A n \in JobNames : \A a \in Accounts :
         status'[n][a] = status[n][a] \/ (n = run[r].name /\ a = Here(r) /\ (status'[n][a] = "SUCCESS" => run[r].ok))
    <2>1. status \in [JobNames -> [Accounts -> {"none", "RUNNING", "SUCCESS", "FAILED"}]]
        BY DEF Dues, IInv, StrongType, TypeOK
    <2>2. PICK st \in {"SUCCESS", "FAILED"} : st = IF run[r].ok THEN "SUCCESS" ELSE "FAILED"
        OBVIOUS
    <2>3. CASE status' = [status EXCEPT ![run[r].name][Here(r)] = st]
        BY <1>0, <2>1, <2>2, <2>3
    <2>4. CASE UNCHANGED status
        BY <2>4
    <2>5. QED
        BY <2>2, <2>3, <2>4 DEF Mark
<1>5. run[r].ok /\ Here(r) \in Sure => Affecting(p, Here(r)) /\ bonus'[Here(r)] # <<>>
    <2> SUFFICES ASSUME run[r].ok, Here(r) \in Sure PROVE Affecting(p, Here(r)) /\ bonus'[Here(r)] # <<>>
        OBVIOUS
    <2>1. Here(r) \in Eligible(run[r].known)
        BY <1>0, SureGiven DEF Walk
    <2>2. bonus'[Here(r)] # <<>>
        BY <1>0, <2>1 DEF Dues, IInv, RunOK, Given, Here
    <2>3. Affecting(p, Here(r))
        BY <1>0, <1>3, <2>1 DEF Dues, Affected, Affecting, Here, Walk
    <2>4. QED
        BY <2>2, <2>3
<1>6. Moves(r, p)
    BY <1>0, <1>2, <1>3 DEF Dues, Moves, Affected, Begun, Filled, Growing, Walk, Rest
<1>7. \A a \in Accounts : Pending(run[r], status, a) =>
         Pending(p, status', a) \/ (a = Here(r) /\ run[r].ok)
    BY <1>0, <1>3, <1>4 DEF Pending
<1>8. \A a \in Accounts : Affecting(run[r], a) => Affecting(p, a)
    BY <1>3 DEF Affecting, Walk
<1>9. PassesWell(r, p)
    <2>1. \A a \in Accounts \intersect Sure : Owing(run[r], status, a) => Owing(p, status', a)
        BY <1>5, <1>7, <1>8 DEF Owing
    <2>2. \A a \in Accounts \intersect Sure : Sound' /\ Recompute(r) /\ OutOfDate(a)' /\ a = Here(r) => ~run[r].ok
        <3> SUFFICES ASSUME Sound, Recompute(r), Here(r) \in Sure, run[r].ok PROVE ~OutOfDate(Here(r))
            BY <1>0 DEF Sound, Free, OutOfDate
        <3>1. Here(r) \in Eligible(run[r].known)
            BY <1>0, SureGiven DEF Walk
        <3>2. QED
            BY <1>0, <3>1 DEF Dues, ResizedFresh, Resized
    <2>3. QED
        BY <1>0, <1>7, <2>1, <2>2 DEF PassesWell, ToQueue
<1>10. MarksWell(r, p)
    BY <1>4, <1>5 DEF MarksWell
<1>11. WritesWell(r, p)
    BY <1>0 DEF WritesWell, OutOfDate
<1>12. LeavesFresh(r, p)
    BY <1>3 DEF LeavesFresh, Resized
<1>13. QED
    BY <1>6, <1>9, <1>10, <1>11, <1>12 DEF GoodStep

(* Nothing is left to do for a run that ended, and an attempt that broke    *)
(* off is run again from the start, unless something was cut or lost.       *)
LEMMA EndGood ==
    ASSUME Dues, NEW r \in Runs, NEW p, NEW pc \in {"queued", "done", "failed"}, NEW n,
           p = [NewRun(run[r].name) EXCEPT !.pc = pc, !.tries = n], Become(r, p), Open(r),
           UNCHANGED <<splits, bonus, record, behind, req, status>>,
           mishap \subseteq mishap', "raced" \in mishap' => "raced" \in mishap,
           (run[r].pc = "end" /\ run[r].errs = 0) \/ pc = "queued" \/ ~Free({"cut", "lost"})',
           \A a \in run[r].affected :
              run[r].pc = "end" \/ status[run[r].name][a] # "SUCCESS" \/ ~Free({"cut", "lost"})'
    PROVE  GoodStep(r, p)
<1>1. /\ Affected(p) /\ Begun(p, status') /\ Filled(p, status', bonus') /\ ~Resized(p)
      /\ p.pc = pc /\ p.name = run[r].name
    BY DEF NewRun, Affected, Begun, Filled, Resized
<1>2. Moves(r, p)
    <2>1. record \in Nat
        BY DEF Dues, IInv, StrongType, TypeOK
    <2>2. QED
        BY <1>1, <2>1 DEF Moves, Growing, Walk, Rest
<1>3. MarksWell(r, p) /\ WritesWell(r, p) /\ LeavesFresh(r, p)
    BY <1>1 DEF MarksWell, WritesWell, LeavesFresh, OutOfDate
<1>4. \A a \in Accounts : ToQueue(run[r], status, a) /\ Free({"cut", "lost"})' => Pending(p, status', a)
    <2> SUFFICES ASSUME NEW a \in Accounts, ToQueue(run[r], status, a), Free({"cut", "lost"})'
                 PROVE  Pending(p, status', a)
        OBVIOUS
    <2>2. ~(run[r].pc = "end" /\ run[r].errs = 0)
        BY DEF ToQueue, Owing, Pending, Todo, Affecting, Walk
    <2>3. pc = "queued" /\ status[run[r].name][a] # "SUCCESS"
        <3>1. pc = "queued"
            BY <2>2
        <3>2. QED
            BY <3>1 DEF ToQueue, Owing, Pending, Affecting, Walk
    <2>4. QED
        BY <1>1, <2>3 DEF Pending, Todo
<1>5. PassesWell(r, p)
    <2>1. \A S : Free(S \union {"cut", "lost"})' => Free({"cut", "lost"})'
        BY DEF Free
    <2>2. Free({"cut", "lost", "unrecorded"})' \/ Sound' => Free({"cut", "lost"})'
        BY DEF Free, Sound
    <2>3. QED
        BY <1>4, <2>2 DEF PassesWell, ToQueue, Owing
<1>6. QED
    BY <1>2, <1>3, <1>5 DEF GoodStep

LEMMA FinishGood ==
    ASSUME Dues, NEW r \in Runs, Finish(r)
    PROVE  \E p : GoodStep(r, p)
<1>1. PICK p : p = [NewRun(run[r].name) EXCEPT !.pc = "done", !.tries = run[r].tries]
    OBVIOUS
<1>2. Become(r, p) /\ run[r].pc = "end" /\ run[r].errs = 0
    BY <1>1 DEF Finish
<1>3. Open(r) /\ UNCHANGED <<splits, bonus, record, behind, req, status, mishap>>
    BY <1>2 DEF Finish, tables, Open, Closed
<1>4. GoodStep(r, p)
    BY <1>1, <1>2, <1>3, EndGood
<1>5. QED
    BY <1>4

LEMMA AttemptEndsGood ==
    ASSUME Dues, NEW r \in Runs,
           QueueFails(r) \/ FinishFailed(r) \/ Throws(r) \/ Killed(r)
    PROVE  \E p : GoodStep(r, p)
<1>1. UNCHANGED <<splits, bonus, record, behind, req, status>> /\ Open(r) /\ PoolRetry(r)
    BY DEF QueueFails, FinishFailed, Throws, Killed, Open, Closed, tables
<1>2. mishap \subseteq mishap' /\ ("raced" \in mishap' => "raced" \in mishap)
    BY <1>1 DEF PoolRetry
<1>3. PICK pc \in {"queued", "failed"}, n \in {run[r].tries, run[r].tries + 1} :
         /\ Become(r, [NewRun(run[r].name) EXCEPT !.pc = pc, !.tries = n])
         /\ pc = "queued" \/ "lost" \in mishap'
    <2>1. CASE run[r].tries < MaxRetries
        <3>1. Become(r, [NewRun(run[r].name) EXCEPT !.pc = "queued", !.tries = run[r].tries + 1])
            BY <1>1, <2>1 DEF PoolRetry
        <3>2. QED
            BY <3>1
    <2>2. CASE ~(run[r].tries < MaxRetries)
        <3>1. Become(r, [NewRun(run[r].name) EXCEPT !.pc = "failed", !.tries = run[r].tries])
            BY <1>1, <2>2 DEF PoolRetry
        <3>2. "lost" \in mishap'
            BY <1>1, <2>2 DEF PoolRetry
        <3>3. QED
            BY <3>1, <3>2
    <2>3. QED
        BY <2>1, <2>2
<1>4. \A a \in run[r].affected :
         run[r].pc = "end" \/ status[run[r].name][a] # "SUCCESS" \/ "cut" \in mishap'
    BY <1>1 DEF PoolRetry
<1>5. /\ pc = "queued" \/ ~Free({"cut", "lost"})'
      /\ \A a \in run[r].affected :
            run[r].pc = "end" \/ status[run[r].name][a] # "SUCCESS" \/ ~Free({"cut", "lost"})'
    BY <1>3, <1>4 DEF Free
<1>6. PICK p : p = [NewRun(run[r].name) EXCEPT !.pc = pc, !.tries = n]
    OBVIOUS
<1>7. GoodStep(r, p)
    BY <1>1, <1>2, <1>3, <1>5, <1>6, EndGood
<1>8. QED
    BY <1>7

(* The step of a run makes good of what it owed, and takes on what it finds *)
(* another run, which it overtakes, to owe.                                 *)
LEMMA GoodStepDues ==
    ASSUME Dues, IInv', NEW r \in Runs, NEW p, GoodStep(r, p)
    PROVE  Dues'
<1>0. Moves(r, p) /\ MarksWell(r, p) /\ WritesWell(r, p) /\ PassesWell(r, p) /\ LeavesFresh(r, p)
    BY DEF GoodStep
<1>1. /\ run'[r] = p /\ \A k \in Runs : k # r => run'[k] = run[k]
      /\ p.name = run[r].name /\ p.pc # "absent" /\ Open(r) /\ UNCHANGED <<req, splits>>
      /\ record \in Nat /\ record' \in Nat /\ record <= record'
      /\ \A k \in Runs : run[k].name \in JobNames
    BY <1>0 DEF Dues, IInv, StrongType, TypeOK, Become, Moves, Run
<1>2. \A S : Free(S)' => Free(S)
    BY <1>0 DEF Free, Moves
<1>3. /\ Sound' => Sound
      /\ Sure' = Sure /\ \A a : Minded(a)' <=> Minded(a)
    BY <1>0, <1>1, <1>2 DEF Sound, Moves, Sure, Minded
<1>4. \A k \in Runs : Affected(run'[k])
    BY <1>0, <1>1 DEF Dues, Moves
<1>5. Free({"beside"})' => \A k \in Runs : k # r => ~Open(k)
    BY <1>1, <1>2 DEF Dues, IInv, OneOpen
<1>6. Free({"beside"})' => \A k \in Runs : Begun(run'[k], status')
    <2> SUFFICES ASSUME Free({"beside"})', NEW k \in Runs PROVE Begun(run'[k], status')
        OBVIOUS
    <2>1. CASE k = r
        BY <1>0, <1>1, <1>2, <2>1 DEF Moves
    <2>2. CASE k # r
        BY <1>1, <1>5, <2>2 DEF Begun, Open, Closed
    <2>3. QED
        BY <2>1, <2>2
<1>17. Free({"raced"})' => \A k \in Runs : Filled(run'[k], status', bonus')
    <2> SUFFICES ASSUME Free({"raced"})', NEW k \in Runs PROVE Filled(run'[k], status', bonus')
        OBVIOUS
    <2>1. CASE k = r
        BY <1>0, <1>1, <1>2, <2>1 DEF Moves
    <2>2. CASE k # r
        <3> SUFFICES ASSUME run[k].pc \in {"check", "write", "update"}, NEW h, h = Here(k),
                            status'[run[k].name][h] = "SUCCESS"
                     PROVE  bonus'[h] # <<>>
            BY <1>1, <2>2 DEF Filled, Here
        <3>1. h \in Accounts /\ run[k].name \in JobNames
            BY <1>1, HereType DEF Dues, IInv, Walk
        <3>2. h \in Sure
            <4>1. h \in Eligible(run[k].known)
                BY DEF Dues, IInv, RunOK, HolderAtHand, Here
            <4>2. Minded(h)
                BY <1>2 DEF Minded, Free
            <4>3. QED
                BY <4>1, <4>2, SureGiven DEF Walk
        <3>3. CASE status[run[k].name][h] = "SUCCESS"
            <4>1. bonus[h] # <<>>
                BY <1>2, <3>3 DEF Dues, Filled, Here
            <4>2. QED
                BY <1>0, <3>1, <4>1 DEF Moves, Growing
        <3>4. QED
            BY <1>0, <3>1, <3>2, <3>3 DEF MarksWell
    <2>3. QED
        BY <2>1, <2>2
<1>7. \A k \in Runs : k # r => run[r].name # k
    BY DEF Dues, OwnName, Apply
<1>8. OwnName'
    <2>1. \A k \in Runs : run'[k].name = run[k].name
        BY <1>1
    <2>2. ASSUME NEW k \in Runs, run'[k].pc = "absent", NEW a \in Accounts
          PROVE  status'[k][a] # "SUCCESS"
        <3>1. k # r /\ run[k].pc = "absent" /\ k \in JobNames
            BY <1>1, <2>2 DEF JobNames
        <3>2. QED
            BY <1>0, <1>7, <3>1 DEF MarksWell, Dues, OwnName
    <2>3. QED
        BY <2>1, <2>2 DEF Dues, OwnName
<1>9. AfterSplit'
    BY <1>1 DEF Dues, AfterSplit
<1>10. RebuildOwed'
    <2> SUFFICES ASSUME Free({"cut", "lost", "beside"})', NEW a \in behind', Minded(a),
                        \A c \in Requests : req'[c].pc # "queue"
                 PROVE  a \in Sure /\ \E k \in Runs : ToQueue(run'[k], status', a)
        BY <1>3 DEF RebuildOwed
    <2>1. Free({"cut", "lost", "beside"}) /\ Free({"beside"})' /\ Free({"cut", "lost"})' /\ Free({"beside"})
        BY <1>2 DEF Free
    <2>2. a \in Accounts
        BY DEF IInv, StrongType, TypeOK
    <2>3. CASE a \in behind
        <3>1. PICK k \in Runs : a \in Sure /\ ToQueue(run[k], status, a)
            BY <1>1, <2>1, <2>3 DEF Dues, RebuildOwed
        <3>2. Open(k)
            BY <3>1 DEF ToQueue, Owing, Pending, Todo, Affecting, Walk, Rest, Open, Closed
        <3>3. k = r
            BY <1>5, <2>1, <3>2
        <3>4. QED
            BY <1>0, <1>1, <2>1, <2>2, <3>1, <3>3 DEF PassesWell
    <2>4. CASE a \in Sure /\ Owing(p, status', a)
        BY <1>1, <2>4 DEF ToQueue
    <2>5. QED
        BY <1>0, <2>1, <2>2, <2>3, <2>4 DEF WritesWell
<1>11. RecordOwed'
    <2> SUFFICES ASSUME Free({"raced", "cut", "lost", "unrecorded"})', NEW a \in Accounts,
                        bonus'[a] # <<>>, ~(record' > 0)
                 PROVE  a \in Sure /\ \E k \in Runs : Owing(run'[k], status', a)
        BY <1>3 DEF RecordOwed
    <2>0. Free({"cut", "lost", "unrecorded"})' /\ Free({"raced"})
        BY <1>2 DEF Free
    <2>1. CASE a \in Sure /\ Owing(p, status', a)
        BY <1>1, <2>1
    <2>2. CASE bonus[a] # <<>> /\ ~(a \in Sure /\ Owing(p, status', a))
        <3>1. ~(record > 0)
            BY <1>1
        <3>2. PICK k \in Runs : a \in Sure /\ Owing(run[k], status, a)
            BY <1>2, <2>2, <3>1 DEF Dues, RecordOwed
        <3>3. CASE k = r
            BY <1>0, <1>1, <2>0, <3>2, <3>3 DEF PassesWell
        <3>4. CASE k # r
            <4>1. ASSUME Pending(run[k], status, a) PROVE Pending(run[k], status', a)
                <5>1. a \in Sure /\ run[k].name \in JobNames
                    BY <1>1, <3>2
                <5>2. ~Affecting(p, a)
                    BY <2>2, <3>2 DEF Owing
                <5>3. status'[run[k].name][a] # "SUCCESS"
                    BY <1>0, <4>1, <5>1, <5>2 DEF MarksWell, Pending
                <5>4. QED
                    BY <4>1, <5>3 DEF Pending
            <4>2. QED
                BY <1>1, <3>2, <3>4, <4>1 DEF Owing
        <3>5. QED
            BY <3>3, <3>4
    <2>3. QED
        BY <1>0, <2>0, <2>1, <2>2 DEF WritesWell
<1>12. KnownFresh'
    BY <1>0, <1>1, <1>2 DEF Dues, KnownFresh, Moves
<1>13. ResizedFresh'
    <2> SUFFICES ASSUME Sound', NEW k \in Runs, run'[k].name # Apply, Resized(run'[k]),
                        NEW h \in Eligible(run'[k].known), h = Head(run'[k].left)
                 PROVE  ~OutOfDate(h)'
        BY SMTT(40) DEF ResizedFresh, Recompute, Here, OutOfDate
    <2>1. CASE k = r
        <3>1. h = Head(p.left) /\ Resized(p) /\ Recompute(r) /\ h \in Eligible(p.known)
            BY <1>1, <2>1 DEF Recompute
        <3>2. ~OutOfDate(Head(p.left))'
            BY <1>0, <3>1 DEF LeavesFresh
        <3>3. QED
            BY <3>1, <3>2 DEF OutOfDate
    <2>2. CASE k # r
        <3>1. run'[k] = run[k]
            BY <1>1, <2>2
        <3>2. ~OutOfDate(h) /\ h \in Accounts
            <4>1. ~OutOfDate(h)
                BY <1>3, <3>1 DEF Dues, ResizedFresh, Recompute, Here
            <4>2. h \in Accounts
                <5>1. run[k].pc \in Walk /\ h = Here(k)
                    BY <3>1 DEF Resized, Walk, Here
                <5>2. QED
                    BY <5>1, HereType DEF Dues, IInv
            <4>3. QED
                BY <4>1, <4>2
        <3>3. QED
            BY <1>0, <3>2 DEF WritesWell
    <2>3. QED
        BY <2>1, <2>2
<1>14. ResizeOwed'
    <2> SUFFICES ASSUME Sound', NEW a \in SplitHolders, OutOfDate(a)'
                 PROVE  /\ record' > 0
                        /\ \/ \E c \in Requests : req'[c].pc \in {"queue", "records", "recompute"}
                           \/ /\ a \in Sure
                              /\ \E k \in Runs : run'[k].name # Apply /\ Pending(run'[k], status', a)
        BY <1>3 DEF ResizeOwed, Recompute
    <2>1. OutOfDate(a) /\ a \in Accounts
        BY <1>0 DEF WritesWell
    <2>2. record' > 0
        BY <1>1, <1>3, <2>1 DEF Dues, ResizeOwed
    <2>3. CASE \E c \in Requests : req[c].pc \in {"queue", "records", "recompute"}
        BY <1>1, <2>2, <2>3
    <2>4. ASSUME NEW k \in Runs, Recompute(k), Pending(run[k], status, a), a \in Sure
          PROVE  run'[k].name # Apply /\ Pending(run'[k], status', a)
        <3>1. CASE k = r
            BY <1>0, <1>1, <2>1, <2>4, <3>1 DEF PassesWell, Recompute
        <3>2. CASE k # r
            <4>1. run[k].name = k /\ run[r].name # k /\ k \in JobNames
                BY <1>7, <2>4, <3>2 DEF Dues, OwnName, Recompute, JobNames
            <4>2. status'[k][a] # "SUCCESS"
                BY <1>0, <2>1, <2>4, <4>1 DEF MarksWell, Pending
            <4>3. QED
                BY <1>1, <2>4, <3>2, <4>1, <4>2 DEF Pending, Recompute
        <3>3. QED
            BY <3>1, <3>2
    <2>5. QED
        BY <1>3, <2>1, <2>2, <2>3, <2>4 DEF Dues, ResizeOwed
<1>15. QED
    BY <1>4, <1>6, <1>8, <1>9, <1>10, <1>11, <1>12, <1>13, <1>14, <1>17 DEF Dues

(* A step that leaves runs, rows and marks alone and hands on what requests *)
(* owe.                                                                     *)
LEMMA HandedOn ==
    ASSUME Dues, IInv', AfterSplit', UNCHANGED <<splits, bonus, record, status, run>>,
           mishap \subseteq mishap', "raced" \in mishap' => "raced" \in mishap, behind' \subseteq behind,
           (\E c \in Requests : req[c].pc = "queue") /\ Free({"cut", "lost", "beside"})' =>
              behind' = {} \/ \E c \in Requests : req'[c].pc = "queue",
           (\E c \in Requests : req[c].pc \in {"queue", "records", "recompute"}) /\ record > 0 /\ Sound' =>
              \E c \in Requests : req'[c].pc \in {"queue", "records", "recompute"}
    PROVE  Dues'
<1>1. \A S : Free(S)' => Free(S)
    BY DEF Free
<1>2. /\ Sound' => Sound
      /\ Sure' = Sure /\ \A a : Minded(a)' <=> Minded(a)
    BY <1>1 DEF Sound, Sure, Minded
<1>3. \A a \in Accounts : OutOfDate(a)' <=> OutOfDate(a)
    BY DEF OutOfDate
<1>4. /\ \A r \in Runs : Affected(run'[r])
      /\ Free({"beside"})' => \A r \in Runs : Begun(run'[r], status')
      /\ Free({"raced"})' => \A r \in Runs : Filled(run'[r], status', bonus')
      /\ OwnName'
    BY <1>1 DEF Dues, OwnName
<1>5. RebuildOwed'
    BY <1>1, <1>2 DEF Dues, RebuildOwed
<1>6. RecordOwed'
    BY <1>1, <1>2 DEF Dues, RecordOwed
<1>7. KnownFresh'
    BY <1>1 DEF Dues, KnownFresh
<1>8. ResizedFresh'
    BY <1>2 DEF Dues, ResizedFresh, Recompute, Here, OutOfDate
<1>9. ResizeOwed'
    BY <1>2, <1>3 DEF Dues, ResizeOwed, Recompute
<1>10. QED
    BY <1>4, <1>5, <1>6, <1>7, <1>8, <1>9 DEF Dues

(* The Split row goes in, whether or not the request hears of it.           *)
LEMMA InsertSplitDues ==
    ASSUME Dues, IInv', AfterSplit', NEW c \in Requests, InsertSplit(c) \/ InsertFails(c), splits' # splits
    PROVE  Dues'
<1>1. /\ req'[c].pc = "queue" \/ {"cut", "unqueued"} \subseteq mishap'
      /\ UNCHANGED <<bonus, record, status, run>> /\ mishap \subseteq mishap'
      /\ "raced" \in mishap' \/ \A r \in Runs : ~Open(r)
    <2>1. CASE InsertSplit(c)
        BY <2>1 DEF InsertSplit, Goto, Dues, IInv, StrongType, TypeOK, Request
    <2>2. CASE InsertFails(c)
        BY <2>2 DEF InsertFails
    <2>3. QED
        BY <2>1, <2>2
<1>2. \A S : Free(S)' => Free(S)
    BY <1>1 DEF Free
<1>11. Free({"raced"})' => \A r \in Runs : ~Open(r)
    BY <1>1 DEF Free
<1>4. /\ \A r \in Runs : Affected(run'[r])
      /\ Free({"beside"})' => \A r \in Runs : Begun(run'[r], status')
      /\ Free({"raced"})' => \A r \in Runs : Filled(run'[r], status', bonus')
      /\ OwnName'
    BY <1>1, <1>2 DEF Dues, OwnName
<1>5. RebuildOwed'
    BY <1>1 DEF RebuildOwed, Free
<1>13. ASSUME Free({"raced", "cut", "lost", "unrecorded"})', NEW a \in Accounts, bonus[a] # <<>>
       PROVE  record > 0
    <2>1. Free({"raced", "cut", "lost", "unrecorded"}) /\ Free({"raced"})'
        BY <1>2, <1>13 DEF Free
    <2>2. \A r \in Runs : ~Owing(run[r], status, a)
        BY <1>11, <2>1 DEF Owing, Pending, Todo, Affecting, Open, Closed, Walk, Rest
    <2>3. QED
        BY <1>13, <2>1, <2>2 DEF Dues, RecordOwed
<1>6. RecordOwed'
    BY <1>1, <1>13 DEF RecordOwed
<1>7. Free({"raced"})' => \A r \in Runs : run'[r].pc \notin Walk \union Rest
    BY <1>1, <1>11 DEF Open, Closed, Walk, Rest
<1>14. Sound' => Free({"raced"})' /\ req'[c].pc = "queue" /\ Free({"raced", "cut", "lost", "unrecorded"})'
    BY <1>1 DEF Sound, Free
<1>8. KnownFresh' /\ ResizedFresh'
    BY <1>7, <1>14 DEF KnownFresh, ResizedFresh, Resized, Walk
<1>9. ResizeOwed'
    <2> SUFFICES ASSUME Sound', NEW a \in SplitHolders, OutOfDate(a)' PROVE record > 0
        BY <1>1, <1>14 DEF ResizeOwed
    <2>1. bonus[a] # <<>>
        BY <1>1 DEF OutOfDate
    <2>2. QED
        BY <1>13, <1>14, <2>1
<1>10. QED
    BY <1>4, <1>5, <1>6, <1>8, <1>9 DEF Dues

(* A job that is submitted owes nothing yet; a recomputation takes over     *)
(* from the request, its name being new.                                    *)
LEMMA SubmitDues ==
    ASSUME Dues, IInv', AfterSplit', NEW c \in Requests, NEW r \in Runs, SubmitBonus(c, r) \/ SubmitRecompute(c, r)
    PROVE  Dues'
<1>1. PICK name \in {Apply, r} : Become(r, NewRun(name)) /\ (SubmitRecompute(c, r) => name = r)
    BY DEF SubmitBonus, SubmitRecompute, Become
<1>2. PICK p : p = NewRun(name)
    OBVIOUS
<1>3. /\ p.pc = "queued" /\ p.name = name /\ p.affected = {}
      /\ run'[r] = p /\ \A k \in Runs : k # r => run'[k] = run[k]
    BY <1>1, <1>2 DEF NewRun, Become, Dues, IInv, StrongType, TypeOK
<1>4. /\ run[r].pc = "absent" /\ mishap \subseteq mishap' /\ ("raced" \in mishap' => "raced" \in mishap)
      /\ UNCHANGED <<splits, bonus, record, behind, status>>
    BY DEF SubmitBonus, SubmitRecompute, NextRun, tables
<1>5. \A d \in Requests :
         /\ req[d].pc = "queue" => req'[d] = req[d]
         /\ req[d].pc \in {"queue", "records", "recompute"} /\ SubmitBonus(c, r) => req'[d] = req[d]
    BY DEF SubmitBonus, SubmitRecompute, Answer, Goto, Dues, IInv, StrongType, TypeOK
<1>6. \A S : Free(S)' => Free(S)
    BY <1>4 DEF Free
<1>7. /\ Sound' => Sound
      /\ Sure' = Sure /\ \A a : Minded(a)' <=> Minded(a)
    BY <1>4, <1>6 DEF Sound, Sure, Minded
<1>8. /\ Affected(p) /\ Begun(p, status') /\ Filled(p, status', bonus') /\ ~Resized(p)
      /\ p.pc \notin Walk \union Rest /\ p.pc # "absent"
    BY <1>3 DEF Affected, Begun, Filled, Resized, Walk, Rest
<1>9. /\ \A k \in Runs : Affected(run'[k])
      /\ Free({"beside"})' => \A k \in Runs : Begun(run'[k], status')
      /\ Free({"raced"})' => \A k \in Runs : Filled(run'[k], status', bonus')
      /\ OwnName'
    BY <1>3, <1>4, <1>6, <1>8 DEF Dues, OwnName
<1>10. \A a \in Accounts : ~ToQueue(run[r], status, a)
    BY <1>4 DEF ToQueue, Owing, Pending, Todo, Affecting, Walk, Rest
<1>11. \A k \in Runs : \A a \in Accounts :
          /\ ToQueue(run[k], status, a) => ToQueue(run'[k], status', a)
          /\ Owing(run[k], status, a) => Owing(run'[k], status', a)
          /\ Pending(run[k], status, a) => k # r
    BY <1>3, <1>4, <1>10 DEF ToQueue, Owing
<1>12. RebuildOwed'
    <2>1. behind \subseteq Accounts
        BY DEF Dues, IInv, StrongType, TypeOK
    <2>2. QED
        BY <1>4, <1>5, <1>6, <1>7, <1>11, <2>1 DEF Dues, RebuildOwed
<1>13. RecordOwed'
    BY <1>4, <1>6, <1>7, <1>11 DEF Dues, RecordOwed
<1>14. KnownFresh'
    BY <1>3, <1>4, <1>6, <1>8 DEF Dues, KnownFresh
<1>15. ResizedFresh'
    BY <1>3, <1>4, <1>7, <1>8 DEF Dues, ResizedFresh, Recompute, Here, OutOfDate
<1>16. ResizeOwed'
    <2> SUFFICES ASSUME Sound', NEW a \in SplitHolders, OutOfDate(a)
                 PROVE  /\ record > 0
                        /\ \/ \E d \in Requests : req'[d].pc \in {"queue", "records", "recompute"}
                           \/ /\ a \in Sure
                              /\ \E k \in Runs : run'[k].name # Apply /\ Pending(run'[k], status', a)
        BY <1>4, <1>7 DEF ResizeOwed, Recompute, OutOfDate
    <2>1. record > 0
        BY <1>7 DEF Dues, ResizeOwed
    <2>2. CASE SubmitBonus(c, r) /\ \E d \in Requests : req[d].pc \in {"queue", "records", "recompute"}
        BY <1>5, <2>1, <2>2
    <2>3. CASE SubmitRecompute(c, r)
        <3>1. a \in Sure /\ a \in Accounts
            <4>1. req[c].pc = "recompute" /\ splits \in Nat
                BY <2>3 DEF SubmitRecompute, Dues, IInv, StrongType, TypeOK
            <4>2. splits > 0 /\ "raced" \notin mishap
                BY <1>4, <4>1 DEF Dues, AfterSplit, Sound, Free
            <4>3. QED
                BY <4>1, <4>2 DEF Sure, Eligible
        <3>2. status'[r][a] # "SUCCESS"
            BY <1>4, <3>1 DEF Dues, OwnName
        <3>3. p.name = r /\ r # Apply
            BY <1>1, <1>3, <2>3 DEF Apply
        <3>4. Pending(p, status', a)
            BY <1>3, <3>1, <3>2, <3>3 DEF Pending, Todo
        <3>5. QED
            BY <1>3, <2>1, <3>1, <3>3, <3>4
    <2>4. CASE a \in Sure /\ \E k \in Runs : Recompute(k) /\ Pending(run[k], status, a)
        <3>1. PICK k \in Runs : Recompute(k) /\ Pending(run[k], status, a)
            BY <2>4
        <3>2. run'[k] = run[k]
            BY <1>3, <1>11, <3>1
        <3>3. QED
            BY <1>4, <2>1, <2>4, <3>1, <3>2 DEF Recompute
    <2>5. QED
        BY <1>7, <2>2, <2>3, <2>4 DEF Dues, ResizeOwed
<1>17. QED
    BY <1>9, <1>12, <1>13, <1>14, <1>15, <1>16 DEF Dues

(* Only a Split row gives a request something to hand on.                   *)
LEMMA RequestAfterSplit ==
    ASSUME Dues, NEW c \in Requests, RequestStep(c)
    PROVE  AfterSplit'
<1>0. req \in [Requests -> Request] /\ splits \in Nat /\ AfterSplit
    BY DEF Dues, IInv, StrongType, TypeOK
<1>1. ASSUME splits' \in {splits, splits + 1}, NEW rec, Goto(c, rec),
             rec.pc \in {"queue", "records", "recompute"} =>
                splits' > 0 \/ req[c].pc \in {"queue", "records", "recompute"}
      PROVE  AfterSplit'
    BY <1>0, <1>1 DEF AfterSplit, Goto
<1>2. CASE Answer(c) /\ splits' \in {splits, splits + 1}
    BY <1>0, <1>2 DEF AfterSplit, Answer, NoRequest
<1>3. CASE RequestBonus(c) \/ RequestSplit(c) \/ RequestFails(c) \/ RecomputeNotSubmitted(c)
             \/ InsertFails(c) \/ \E r \in Runs : SubmitBonus(c, r)
    <2>1. splits' \in {splits, splits + 1}
        BY <1>3 DEF RequestBonus, RequestSplit, RequestFails, RecomputeNotSubmitted, InsertFails,
                    SubmitBonus, tables
    <2>2. \A pc \in {"clear", "submit"} :
             [NoRequest EXCEPT !.pc = pc, !.seen = jobs].pc \notin {"queue", "records", "recompute"}
        BY DEF NoRequest
    <2>3. [NoRequest EXCEPT !.pc = "insert"].pc \notin {"queue", "records", "recompute"}
        BY DEF NoRequest
    <2>4. QED
        BY <1>1, <1>2, <1>3, <2>1, <2>2, <2>3
           DEF RequestBonus, RequestSplit, RequestFails, RecomputeNotSubmitted, InsertFails, SubmitBonus
<1>4. CASE InsertSplit(c)
    BY <1>0, <1>1, <1>4 DEF InsertSplit
<1>5. CASE ClearJob(c)
    <2>1. [req[c] EXCEPT !.pc = "submit"].pc = "submit"
        BY <1>0 DEF Request
    <2>2. QED
        BY <1>1, <1>5, <2>1 DEF ClearJob, tables
<1>6. CASE QueueSplitRebuilds(c)
    BY <1>1, <1>6 DEF QueueSplitRebuilds
<1>7. CASE ReadRecords(c)
    BY <1>1, <1>2, <1>7 DEF ReadRecords, tables
<1>8. ASSUME NEW r \in Runs, SubmitRecompute(c, r) PROVE AfterSplit'
    BY <1>1, <1>2, <1>8 DEF SubmitRecompute, tables
<1>9. QED
    BY <1>3, <1>4, <1>5, <1>6, <1>7, <1>8 DEF RequestStep

LEMMA RequestDues ==
    ASSUME Dues, IInv', NEW c \in Requests, RequestStep(c)
    PROVE  Dues'
<1>0. req \in [Requests -> Request] /\ req[c] \in Request
    BY DEF Dues, IInv, StrongType, TypeOK
<1>1. \A d \in Requests : d # c => req'[d] = req[d]
    BY <1>0 DEF RequestStep, RequestBonus, ClearJob, SubmitBonus, RequestSplit, InsertSplit, InsertFails,
                QueueSplitRebuilds, ReadRecords, SubmitRecompute, RecomputeNotSubmitted, RequestFails,
                Answer, Goto
<1>8. AfterSplit'
    BY RequestAfterSplit
<1>2. CASE RequestBonus(c) \/ ClearJob(c) \/ RequestSplit(c)
    <2>1. req[c].pc \in {"idle", "clear"}
        BY <1>2 DEF RequestBonus, ClearJob, RequestSplit, NextRequest
    <2>2. UNCHANGED <<splits, bonus, record, behind, status, run, mishap>>
        BY <1>2 DEF RequestBonus, ClearJob, RequestSplit, tables
    <2>3. QED
        BY <1>1, <1>8, <2>1, <2>2, HandedOn
<1>3. CASE RequestFails(c)
    <2>1. /\ UNCHANGED <<splits, bonus, record, behind, status, run>>
          /\ mishap \subseteq mishap' /\ ("raced" \in mishap' => "raced" \in mishap)
          /\ req[c].pc = "submit" \/ (req[c].pc = "queue" /\ {"cut", "unqueued"} \subseteq mishap')
        BY <1>3 DEF RequestFails, tables
    <2>2. QED
        BY <1>1, <1>8, <2>1, HandedOn DEF Free, Sound
<1>4. CASE QueueSplitRebuilds(c)
    <2>1. /\ UNCHANGED <<splits, bonus, record, status, run, mishap>> /\ behind' = {}
          /\ req'[c].pc = "records"
        BY <1>0, <1>4 DEF QueueSplitRebuilds, Goto, Request
    <2>2. QED
        BY <1>1, <1>8, <2>1, HandedOn
<1>5. CASE ReadRecords(c)
    <2>1. /\ UNCHANGED <<splits, bonus, record, behind, status, run>>
          /\ mishap \subseteq mishap' /\ ("raced" \in mishap' => "raced" \in mishap)
          /\ req[c].pc = "records"
          /\ req'[c].pc = "recompute" \/ record = 0 \/ "unqueued" \in mishap'
        BY ZenonT(60), <1>0, <1>5 DEF ReadRecords, Goto, Request, tables
    <2>2. QED
        BY <1>1, <1>8, <2>1, HandedOn DEF Free, Sound
<1>6. CASE RecomputeNotSubmitted(c)
    <2>1. /\ UNCHANGED <<splits, bonus, record, behind, status, run>>
          /\ mishap \subseteq mishap' /\ ("raced" \in mishap' => "raced" \in mishap)
          /\ req[c].pc = "recompute" /\ "unqueued" \in mishap'
        BY <1>6 DEF RecomputeNotSubmitted, tables
    <2>2. QED
        BY <1>1, <1>8, <2>1, HandedOn DEF Free, Sound
<1>7. CASE InsertSplit(c) \/ InsertFails(c)
    <2>1. CASE splits' # splits
        BY <1>7, <1>8, <2>1, InsertSplitDues
    <2>2. CASE splits' = splits
        <3>1. splits \in Nat
            BY DEF Dues, IInv, StrongType, TypeOK
        <3>2. InsertFails(c) /\ UNCHANGED <<splits, bonus, record, behind, status, run, mishap>>
            BY <1>7, <2>2, <3>1 DEF InsertSplit, InsertFails
        <3>3. req[c].pc = "insert"
            BY <3>2 DEF InsertFails
        <3>4. QED
            BY <1>1, <1>8, <3>2, <3>3, HandedOn
    <2>3. QED
        BY <2>1, <2>2
<1>9. QED
    BY <1>2, <1>3, <1>4, <1>5, <1>6, <1>7, <1>8, SubmitDues DEF RequestStep

LEMMA StepDues == Dues /\ [Next]_vars => Dues'
<1> SUFFICES ASSUME Dues, [Next]_vars PROVE Dues'
    OBVIOUS
<1>1. IInv'
    BY StepIInv DEF Dues
<1>2. ASSUME NEW c \in Requests, RequestStep(c) PROVE Dues'
    BY <1>1, <1>2, RequestDues
<1>3. ASSUME NEW r \in Runs, RunStep(r) PROVE Dues'
    <2>1. \E p : GoodStep(r, p)
        BY <1>3, BeginAccountGood, CheckRowGood, WriteGood, MarkGood, JobGood, FinishGood,
           AttemptEndsGood DEF RunStep
    <2>2. QED
        BY <1>1, <2>1, GoodStepDues
<1>4. CASE PollStatus \/ UNCHANGED vars
    <2>1. UNCHANGED <<splits, bonus, record, behind, status, run, req, mishap>>
        BY <1>4 DEF PollStatus, vars, tables
    <2>3. AfterSplit'
        BY <2>1 DEF Dues, AfterSplit
    <2>2. QED
        BY <1>1, <2>1, <2>3, HandedOn
<1>5. QED
    BY <1>2, <1>3, <1>4 DEF Next

LEMMA DuesHold == Spec => []Dues
BY InitDues, StepDues, PTL DEF Spec

(* When all is quiet nobody whose bonus or split changed is without a       *)
(* rebuild queued after the change, but for a job cut short after marking   *)
(* an account, one given up, or two side by side, and but for the accounts  *)
(* swayed by a split that came in on an open job.                           *)
THEOREM NobodyIsForgotten == Spec => []NobodyLeftBehind
<1>1. Dues => NobodyLeftBehind
    <2> SUFFICES ASSUME Dues, Quiet, Free({"cut", "lost", "beside"}), NEW a \in behind, Minded(a)
                 PROVE  FALSE
        BY DEF NobodyLeftBehind, Minded, Free
    <2>1. \A c \in Requests : req[c].pc # "queue"
        BY DEF Quiet, Running
    <2>2. \A r \in Runs : ~ToQueue(run[r], status, a)
        BY DEF Quiet, Open, Closed, ToQueue, Owing, Pending, Todo, Affecting, Walk, Rest
    <2>3. QED
        BY <2>1, <2>2 DEF Dues, RebuildOwed
<1>2. QED
    BY <1>1, DuesHold, PTL

(* When all is quiet no Bonus row of an account that has a share after the  *)
(* split is sized on the holding before it, but for a split that came while *)
(* a job was open and for a Bonus_Record, submit or look for the row that   *)
(* failed.                                                                  *)
THEOREM SharesStayFresh == Spec => []SharesFresh
<1>1. Dues => SharesFresh
    <2> SUFFICES ASSUME Dues, Quiet, Sound, NEW a \in SplitHolders PROVE ~OutOfDate(a)
        BY DEF SharesFresh, Sound, OutOfDate
    <2>1. \A c \in Requests : req[c].pc \notin {"queue", "records", "recompute"}
        BY DEF Quiet, Running
    <2>2. \A r \in Runs : ~Pending(run[r], status, a)
        BY DEF Quiet, Open, Closed, Pending, Todo, Walk, Rest
    <2>3. QED
        BY <2>1, <2>2 DEF Dues, ResizeOwed
<1>2. QED
    BY <1>1, DuesHold, PTL
=============================================================================
