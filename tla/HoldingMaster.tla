--------------------------- MODULE HoldingMaster ---------------------------
(***************************************************************************)
(* functions/CalculateHoldingMaster/index.js: the sliding-window           *)
(* orchestrator that hands the chunks of a pairs manifest to slave jobs    *)
(* (CalculateHoldingWorkers), keeps its progress in a Stratus object and   *)
(* re-queues itself when the function's time is nearly over.               *)
(*                                                                         *)
(* A master RUN is one job of the UpdateMasters pool.  It works on a copy  *)
(* `mem` of the stored state, polls the slaves it has in flight, fills the *)
(* free slots, and only then saves.  A run that throws or dies loses `mem` *)
(* and the pool executes it again (number_of_retries) from the stored      *)
(* state.                                                                  *)
(***************************************************************************)
EXTENDS Naturals, FiniteSets

CONSTANTS
    TotalChunks,    \* chunks in the manifest: ceil(pairs / CHUNK_SIZE)
    MaxInFlight,    \* MAX_IN_FLIGHT
    MaxRuns,        \* master jobs the pool can be given (bounds baton passes)
    Starts,         \* how many master jobs the upload pipeline submits
    MaxJobs,        \* slave jobs the pool can be given
    MaxRetries,     \* pool retries of one master run
    MaxSlaveRetries,\* pool retries of one slave
    NoState         \* no dispatch object under the key (404)

ASSUME TotalChunksAssumption == TotalChunks \in Nat
ASSUME MaxInFlightAssumption == MaxInFlight \in Nat \ {0}
ASSUME RunsAssumption == MaxRuns \in Nat /\ MaxJobs \in Nat /\ Starts \in 0 .. MaxRuns
ASSUME RetriesAssumption == MaxRetries \in Nat /\ MaxSlaveRetries \in Nat

Runs == 1 .. MaxRuns    \* job ids are handed out in order
Jobs == 1 .. MaxJobs
Chunks == 0 .. (TotalChunks - 1)
NoChunk == TotalChunks

(* The JSON payload of transactions-meta/holdings-dispatch-{ms}.json, its   *)
(* inFlight entries {chunk, jobId} standing as job ids (chunkOf has the     *)
(* chunk) and its list of failed chunks as a set.                           *)
DispatchState == [next: 0 .. TotalChunks, inFlight: SUBSET Jobs, failed: SUBSET Chunks]

ASSUME NoStateAssumption == NoState \notin DispatchState

FreshState == [next |-> 0, inFlight |-> {}, failed |-> {}]

VARIABLES
    stored,     \* the dispatch object on Stratus
    pc,         \* where each master run is
    mem,        \* the state object in each run's memory
    tries,      \* pool retries used by each run
    chunkOf,    \* the chunk a slave job was submitted for
    jobStatus,  \* what getJob answers for a slave job
    jobTries    \* pool retries used by each slave

runVars == <<pc, mem, tries>>
slaveVars == <<chunkOf, jobStatus, jobTries>>
vars == <<stored, pc, mem, tries, chunkOf, jobStatus, jobTries>>

Live == {"init", "refresh", "decide", "fill", "settled", "handoff", "passing"}
Closed == {"completed", "passed", "failed"}

Init ==
    /\ stored = NoState
    /\ pc = [m \in Runs |-> IF m <= Starts THEN "queued" ELSE "absent"]
    /\ mem = [m \in Runs |-> FreshState]
    /\ tries = [m \in Runs |-> 0]
    /\ chunkOf = [j \in Jobs |-> NoChunk]
    /\ jobStatus = [j \in Jobs |-> "absent"]
    /\ jobTries = [j \in Jobs |-> 0]

(* The id submitJob returns next.                                           *)
NextRun(n) == pc[n] = "absent" /\ \A k \in Runs : k < n => pc[k] # "absent"
NextJob(j) == jobStatus[j] = "absent" /\ \A k \in Jobs : k < j => jobStatus[k] # "absent"

AllAssigned(s) == s.next >= TotalChunks
(* Mutant of AllDone: slaves in flight are not waited for.                  *)
AllDoneEarly(s) == AllAssigned(s)

AllDone(s) == AllAssigned(s) /\ s.inFlight = {}

----------------------------------------------------------------------------
(* The master.                                                              *)

(* Mutant of Load: the stored object is not found again (wrong key).        *)
LoadFresh(m) ==
    /\ pc[m] = "queued"
    /\ mem' = [mem EXCEPT ![m] = FreshState]
    /\ pc' = [pc EXCEPT ![m] = "init"]
    /\ UNCHANGED <<stored, tries, slaveVars>>

(* loadDispatchState: resume from the stored object, or build a fresh one.  *)
(* An object that does not parse counts as none there; saveDispatchState is *)
(* the only writer and replaces the object whole, so there is none such.    *)
Load(m) ==
    /\ pc[m] = "queued"
    /\ IF stored = NoState
       THEN /\ mem' = [mem EXCEPT ![m] = FreshState]
            /\ pc' = [pc EXCEPT ![m] = "init"]
       ELSE /\ mem' = [mem EXCEPT ![m] = stored]
            /\ pc' = [pc EXCEPT ![m] = "refresh"]
    /\ UNCHANGED <<stored, tries, slaveVars>>

(* The first save of a fresh state, after the manifest has been counted.    *)
InitSave(m) ==
    /\ pc[m] = "init"
    /\ stored' = mem[m]
    /\ pc' = [pc EXCEPT ![m] = "refresh"]
    /\ UNCHANGED <<mem, tries, slaveVars>>

Terminal(j) == jobStatus[j] \in {"success", "failure"}

(* Mutant of RefreshSeeing: a failed slave leaves the window unrecorded.    *)
RefreshForgetsFailures(m, seen) ==
    /\ pc[m] = "refresh"
    /\ mem' = [mem EXCEPT ![m].inFlight = @ \ seen]
    /\ pc' = [pc EXCEPT ![m] = "decide"]
    /\ UNCHANGED <<stored, tries, slaveVars>>

(* refreshInFlight: `seen` are the terminal slaves whose getJob answered in *)
(* time; an entry whose getJob throws, or which ends after its poll, stays. *)
(* The polls of one round share nothing but `mem`, which nobody else reads, *)
(* and are one step.                                                        *)
RefreshSeeing(m, seen) ==
    /\ pc[m] = "refresh"
    /\ mem' = [mem EXCEPT
                 ![m].inFlight = @ \ seen,
                 ![m].failed = @ \union {chunkOf[j] : j \in {k \in seen : jobStatus[k] = "failure"}}]
    /\ pc' = [pc EXCEPT ![m] = "decide"]
    /\ UNCHANGED <<stored, tries, slaveVars>>

Ended(m) == {j \in mem[m].inFlight : Terminal(j)}

Refresh(m) == \E seen \in SUBSET Ended(m) : RefreshSeeing(m, seen)

(* Everything assigned and nothing in flight: save and leave the loop.      *)
Settle(m) ==
    /\ pc[m] = "decide"
    /\ AllDone(mem[m])
    /\ stored' = mem[m]
    /\ pc' = [pc EXCEPT ![m] = "settled"]
    /\ UNCHANGED <<mem, tries, slaveVars>>

(* Less than REMAINING_TIME_BUFFER_MS left: save and leave for the handoff. *)
(* Bounded by the master job ids left in Runs.                              *)
OutOfTime(m) ==
    /\ pc[m] = "decide"
    /\ ~AllDone(mem[m])
    /\ \E n \in Runs : pc[n] = "absent"
    /\ stored' = mem[m]
    /\ pc' = [pc EXCEPT ![m] = "handoff"]
    /\ UNCHANGED <<mem, tries, slaveVars>>

StartFill(m) ==
    /\ pc[m] = "decide"
    /\ ~AllDone(mem[m])
    /\ pc' = [pc EXCEPT ![m] = "fill"]
    /\ UNCHANGED <<stored, mem, tries, slaveVars>>

(* Mutant of CanSubmit: one slot too many.                                  *)
CanSubmitOneMore(s) == Cardinality(s.inFlight) <= MaxInFlight /\ ~AllAssigned(s)

CanSubmit(s) == Cardinality(s.inFlight) < MaxInFlight /\ ~AllAssigned(s)

(* submitOneChunk, then nextChunk += 1 in memory.                           *)
SubmitChunk(m, j) ==
    /\ pc[m] = "fill"
    /\ CanSubmit(mem[m])
    /\ NextJob(j)
    /\ chunkOf' = [chunkOf EXCEPT ![j] = mem[m].next]
    /\ jobStatus' = [jobStatus EXCEPT ![j] = "active"]
    /\ mem' = [mem EXCEPT ![m].next = @ + 1, ![m].inFlight = @ \union {j}]
    /\ UNCHANGED <<stored, pc, tries, jobTries>>

SaveAndSleep(m) ==
    /\ stored' = mem[m]
    /\ pc' = [pc EXCEPT ![m] = "refresh"]
    /\ UNCHANGED <<mem, tries, slaveVars>>

(* The window is full or the manifest is assigned: save once, then sleep.   *)
SaveRound(m) ==
    /\ pc[m] = "fill"
    /\ ~CanSubmit(mem[m])
    /\ SaveAndSleep(m)

(* submitJob kept answering "concurrency limit": stop filling early.        *)
ConcurrencyLimit(m) ==
    /\ pc[m] = "fill"
    /\ CanSubmit(mem[m])
    /\ SaveAndSleep(m)

(* Mutant of Retrigger: a failed submit of the successor is only logged.    *)
RetriggerSwallowed(m, n) ==
    /\ pc[m] = "handoff"
    /\ NextRun(n)
    /\ pc' = [pc EXCEPT ![m] = "passing"]
    /\ UNCHANGED <<stored, mem, tries, slaveVars>>

(* retriggerMaster: submit a successor for the same state key.              *)
Retrigger(m, n) ==
    /\ pc[m] = "handoff"
    /\ NextRun(n)
    /\ pc' = [pc EXCEPT ![m] = "passing", ![n] = "queued"]
    /\ UNCHANGED <<stored, mem, tries, slaveVars>>

ClosePassed(m) ==
    /\ pc[m] = "passing"
    /\ pc' = [pc EXCEPT ![m] = "passed"]
    /\ mem' = [mem EXCEPT ![m] = FreshState]
    /\ UNCHANGED <<stored, tries, slaveVars>>

(* Mutant of CloseCompleted: failed chunks are only logged.                 *)
CloseCompletedAnyway(m) ==
    /\ pc[m] = "settled"
    /\ pc' = [pc EXCEPT ![m] = "completed"]
    /\ mem' = [mem EXCEPT ![m] = FreshState]
    /\ UNCHANGED <<stored, tries, slaveVars>>

CloseCompleted(m) ==
    /\ pc[m] = "settled"
    /\ mem[m].failed = {}
    /\ pc' = [pc EXCEPT ![m] = "completed"]
    /\ mem' = [mem EXCEPT ![m] = FreshState]
    /\ UNCHANGED <<stored, tries, slaveVars>>

(* Mutant of PoolRetry: the retry counter is compared off by one.           *)
PoolRetryOnceMore(m) ==
    /\ pc' = [pc EXCEPT ![m] = IF tries[m] <= MaxRetries THEN "queued" ELSE "failed"]
    /\ tries' = [tries EXCEPT ![m] = IF @ <= MaxRetries THEN @ + 1 ELSE @]
    /\ mem' = [mem EXCEPT ![m] = FreshState]
    /\ UNCHANGED <<stored, slaveVars>>

(* The pool executes a failed run again until its retries are used up.      *)
PoolRetry(m) ==
    /\ pc' = [pc EXCEPT ![m] = IF tries[m] < MaxRetries THEN "queued" ELSE "failed"]
    /\ tries' = [tries EXCEPT ![m] = IF @ < MaxRetries THEN @ + 1 ELSE @]
    /\ mem' = [mem EXCEPT ![m] = FreshState]
    /\ UNCHANGED <<stored, slaveVars>>

(* failedChunks is not empty: closeWithFailure.                             *)
CloseFailed(m) ==
    /\ pc[m] = "settled"
    /\ mem[m].failed # {}
    /\ PoolRetry(m)

(* A throw caught by the handler, a kill or a platform timeout: at any      *)
(* await of the run, its memory is lost.                                    *)
Abort(m) ==
    /\ pc[m] \in Live
    /\ PoolRetry(m)

----------------------------------------------------------------------------
(* The slaves, as the pool reports them.                                    *)

SlaveSucceeds(j) ==
    /\ jobStatus[j] = "active"
    /\ jobStatus' = [jobStatus EXCEPT ![j] = "success"]
    /\ UNCHANGED <<stored, runVars, chunkOf, jobTries>>

SlaveFails(j) ==
    /\ jobStatus[j] = "active"
    /\ jobStatus' = [jobStatus EXCEPT ![j] = "failure"]
    /\ UNCHANGED <<stored, runVars, chunkOf, jobTries>>

SlaveRetried(j) ==
    /\ jobStatus[j] = "failure"
    /\ jobTries[j] < MaxSlaveRetries
    /\ jobStatus' = [jobStatus EXCEPT ![j] = "active"]
    /\ jobTries' = [jobTries EXCEPT ![j] = @ + 1]
    /\ UNCHANGED <<stored, runVars, chunkOf>>

----------------------------------------------------------------------------
MasterStep(m) ==
    \/ Load(m)
    \/ InitSave(m)
    \/ Refresh(m)
    \/ Settle(m)
    \/ OutOfTime(m)
    \/ StartFill(m)
    \/ \E j \in Jobs : SubmitChunk(m, j)
    \/ SaveRound(m)
    \/ ConcurrencyLimit(m)
    \/ \E n \in Runs : Retrigger(m, n)
    \/ ClosePassed(m)
    \/ CloseCompleted(m)
    \/ CloseFailed(m)
    \/ Abort(m)

SlaveStep(j) ==
    \/ SlaveSucceeds(j)
    \/ SlaveFails(j)
    \/ SlaveRetried(j)

Next ==
    \/ \E m \in Runs : MasterStep(m)
    \/ \E j \in Jobs : SlaveStep(j)

Spec == Init /\ [][Next]_vars

(* The pool starts every queued job, a run's own code moves on at every     *)
(* await, and a slave ends one way or the other (its function has a 15      *)
(* minute limit).  getJob may fail now and then but answers infinitely      *)
(* often, and the concurrency limit is not hit for ever.                    *)
MasterFairness(m) ==
    /\ WF_vars(Load(m))
    /\ WF_vars(InitSave(m))
    /\ WF_vars(Refresh(m))
    /\ SF_vars(RefreshSeeing(m, Ended(m)))
    /\ WF_vars(Settle(m))
    /\ WF_vars(StartFill(m) \/ OutOfTime(m))
    /\ WF_vars(SaveRound(m) \/ ConcurrencyLimit(m))
    /\ SF_vars(\E j \in Jobs : SubmitChunk(m, j))
    /\ WF_vars(\E n \in Runs : Retrigger(m, n))
    /\ WF_vars(ClosePassed(m))
    /\ WF_vars(CloseCompleted(m))
    /\ WF_vars(CloseFailed(m))

FairSpec ==
    /\ Spec
    /\ \A m \in Runs : MasterFairness(m)
    /\ \A j \in Jobs : WF_vars(SlaveSucceeds(j) \/ SlaveFails(j))

----------------------------------------------------------------------------
(* Properties.                                                              *)

PC == {"absent", "queued"} \union Live \union Closed
JobStatus == {"absent", "active", "success", "failure"}

(* Every variable has its type (all of CalculateHoldingMaster's state).     *)
TypeOK ==
    /\ stored \in DispatchState \union {NoState}
    /\ pc \in [Runs -> PC]
    /\ mem \in [Runs -> DispatchState]
    /\ tries \in [Runs -> 0 .. MaxRetries]
    /\ chunkOf \in [Jobs -> 0 .. TotalChunks]
    /\ jobStatus \in [Jobs -> JobStatus]
    /\ jobTries \in [Jobs -> 0 .. MaxSlaveRetries]

Succeeded(c) == \E j \in Jobs : chunkOf[j] = c /\ jobStatus[j] = "success"

Accounted(s, c) ==
    \/ c \in s.failed
    \/ \E j \in s.inFlight : chunkOf[j] = c
    \/ Succeeded(c)

Covers(s) == \A c \in Chunks : c < s.next => Accounted(s, c)

(* No chunk is ever lost: in the stored state and in every run's memory,    *)
(* whatever crashes, baton passes and concurrent masters did before, a      *)
(* chunk below nextChunk is in flight, recorded as failed, or done.         *)
EveryChunkAccounted ==
    /\ stored # NoState => Covers(stored)
    /\ \A m \in Runs : Covers(mem[m])

(* closeWithSuccess at the end of the loop is only reached when every chunk *)
(* of the manifest has a slave that ended in success, even when the runs    *)
(* before crashed or a second master shares the dispatch state.             *)
CompletedMeansDone ==
    \A m \in Runs : pc[m] = "completed" => \A c \in Chunks : Succeeded(c)

Undisturbed == \A m \in Runs : tries[m] = 0

(* "keeps at most 10 holdings slaves in-flight" (README.md, and the comment *)
(* on MAX_IN_FLIGHT), counting the slaves the pool is running, tracked or   *)
(* not: the window holds through any number of handoffs, as long as no      *)
(* master had to be retried, and no slave that was seen to have failed.     *)
WindowOnTheWay ==
    Undisturbed /\ (\A j \in Jobs : jobTries[j] = 0) =>
        Cardinality({j \in Jobs : jobStatus[j] = "active"}) <= MaxInFlight

(* No chunk is given to two slaves, again as long as no master had to be    *)
(* retried: the slaves append Holdings rows, so a second slave would append *)
(* them twice.                                                              *)
OneSlavePerChunk ==
    Undisturbed =>
        \A i, j \in Jobs :
            chunkOf[i] = chunkOf[j] /\ chunkOf[i] # NoChunk => i = j

Alone == \A m, n \in Runs : pc[m] # "absent" /\ pc[n] # "absent" => m = n

(* A save never takes the stored progress back, nextChunk does not shrink   *)
(* and a recorded failure is not forgotten, whatever one run does through   *)
(* its retries, and through handoffs without retries.                       *)
ProgressNeverLost ==
    [][(stored # NoState /\ (Alone \/ Undisturbed)) =>
         /\ stored'.next >= stored.next
         /\ stored.failed \subseteq stored'.failed]_stored

(* The baton is never dropped: through every handoff the chain of master    *)
(* runs goes on until some run reports the whole import done, or reports a  *)
(* failure because a slave failed or the retries are used up (or the model  *)
(* has no job ids left).                                                    *)
BatonReachesTheEnd ==
    <>(\/ \E m \in Runs : pc[m] \in {"completed", "failed"}
       \/ \A j \in Jobs : jobStatus[j] # "absent")

(* What the dispatch promises (ChunkDispatch): chunks are given out, end    *)
(* well, and the whole is reported complete only after all of them.         *)
Dispatch == INSTANCE ChunkDispatch WITH
    Items <- Chunks,
    given <- {c \in Chunks : \E j \in Jobs : chunkOf[j] = c},
    done <- {c \in Chunks : Succeeded(c)},
    reported <- \E m \in Runs : pc[m] = "completed"

(* The master, its crashes and its successors implement ChunkDispatch.      *)
ImplementsDispatch == Dispatch!Spec
============================================================================
