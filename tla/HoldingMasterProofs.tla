------------------------- MODULE HoldingMasterProofs -------------------------
(* Type correctness, completeness of the dispatch, the step simulation of   *)
(* ChunkDispatch, and that a master submitted once gives every chunk to one *)
(* slave, keeps its window and loses no progress as long as nothing has to  *)
(* be retried, for every number of chunks, runs, jobs and retries.          *)
EXTENDS HoldingMaster, FiniteSetTheorems, TLAPS

(* A job that was submitted has a chunk of the manifest.                    *)
SubmittedHaveChunks ==
    \A j \in Jobs : jobStatus[j] # "absent" => chunkOf[j] \in Chunks

UnsubmittedHaveNone ==
    \A j \in Jobs : jobStatus[j] = "absent" => chunkOf[j] = NoChunk

(* Only submitted jobs are in flight, in any copy of the state.             *)
Tracked(s) == \A j \in s.inFlight : jobStatus[j] # "absent"

InFlightSubmitted ==
    /\ stored # NoState => Tracked(stored)
    /\ \A m \in Runs : Tracked(mem[m])

SettledAreDone == \A m \in Runs : pc[m] = "settled" => AllDone(mem[m])

(* What the steps preserve: the invariants the runs check need to know that *)
(* in-flight job ids are real and that the loop was left for a reason.      *)
IInv ==
    /\ TypeOK
    /\ SubmittedHaveChunks
    /\ UnsubmittedHaveNone
    /\ InFlightSubmitted
    /\ EveryChunkAccounted
    /\ SettledAreDone
    /\ CompletedMeansDone

USE TotalChunksAssumption, MaxInFlightAssumption, RunsAssumption,
    RetriesAssumption, NoStateAssumption

LEMMA FreshStateType == FreshState \in DispatchState
BY DEF FreshState, DispatchState

LEMMA FreshStateCovers == Covers(FreshState) /\ Tracked(FreshState)
BY DEF FreshState, Covers, Tracked, Chunks

LEMMA InitIInv == Init => IInv
<1> SUFFICES ASSUME Init PROVE IInv
    OBVIOUS
<1>1. TypeOK
    BY FreshStateType DEF Init, TypeOK, Runs, PC, JobStatus, NoChunk
<1>2. SubmittedHaveChunks /\ UnsubmittedHaveNone
    BY DEF Init, SubmittedHaveChunks, UnsubmittedHaveNone
<1>3. InFlightSubmitted /\ EveryChunkAccounted
    BY FreshStateCovers DEF Init, InFlightSubmitted, EveryChunkAccounted
<1>4. SettledAreDone /\ CompletedMeansDone
    BY DEF Init, SettledAreDone, CompletedMeansDone
<1>5. QED
    BY <1>1, <1>2, <1>3, <1>4 DEF IInv

(* A step of a run that submits nothing and polls nothing only moves copies *)
(* of the state object around, and closes a run for a reason.               *)
CopyStep(m) ==
    /\ UNCHANGED slaveVars
    /\ stored' \in {stored, mem[m]}
    /\ \A n \in Runs :
          mem'[n] \in {mem[n], FreshState} \/ (stored # NoState /\ mem'[n] = stored)
    /\ \A n \in Runs : pc'[n] = "settled" =>
          mem'[n] = mem[n] /\ (pc[n] = "settled" \/ AllDone(mem[n]))
    /\ \A n \in Runs : pc'[n] = "completed" =>
          pc[n] = "completed" \/ (pc[n] = "settled" /\ mem[n].failed = {})

(* A run only reports completion when everything was done.                  *)
LEMMA CompletedKept ==
    ASSUME IInv,
           \A c \in Chunks : Succeeded(c) => Succeeded(c)',
           \A n \in Runs : pc'[n] = "completed" =>
               pc[n] = "completed" \/ (pc[n] = "settled" /\ mem[n].failed = {})
    PROVE  CompletedMeansDone'
<1> SUFFICES ASSUME NEW n \in Runs, pc'[n] = "completed", NEW c \in Chunks
             PROVE  Succeeded(c)'
    BY DEF CompletedMeansDone
<1>1. CASE pc[n] = "completed"
    BY <1>1 DEF IInv, CompletedMeansDone
<1>2. CASE pc[n] = "settled" /\ mem[n].failed = {}
    <2>1. mem[n].next >= TotalChunks /\ mem[n].inFlight = {}
        BY <1>2 DEF IInv, SettledAreDone, AllDone, AllAssigned
    <2>2. mem[n] \in DispatchState
        BY DEF IInv, TypeOK
    <2>3. c < mem[n].next
        BY <2>1, <2>2 DEF Chunks, DispatchState
    <2>4. Accounted(mem[n], c)
        BY <2>3 DEF IInv, EveryChunkAccounted, Covers
    <2>5. QED
        BY <1>2, <2>1, <2>4 DEF Accounted
<1>3. QED
    BY <1>1, <1>2

LEMMA CopyStepIInv ==
    ASSUME IInv, TypeOK', NEW m \in Runs, CopyStep(m)
    PROVE  IInv'
<1>1. SubmittedHaveChunks' /\ UnsubmittedHaveNone'
    BY DEF IInv, SubmittedHaveChunks, UnsubmittedHaveNone, slaveVars, CopyStep
<1>2. InFlightSubmitted'
    BY DEF IInv, InFlightSubmitted, Tracked, FreshState, slaveVars, CopyStep
<1>3. \A c \in Chunks : Succeeded(c) => Succeeded(c)'
    BY DEF Succeeded, slaveVars, CopyStep
<1>4. EveryChunkAccounted'
    <2>1. Covers(FreshState)'
        BY FreshStateCovers DEF Covers, FreshState, Chunks
    <2>2. stored' # NoState => Covers(stored)'
        BY DEF IInv, EveryChunkAccounted, Covers, Accounted, Succeeded, slaveVars, CopyStep
    <2>3. ASSUME NEW n \in Runs PROVE Covers(mem[n])'
        BY <2>1 DEF IInv, EveryChunkAccounted, Covers, Accounted, Succeeded, slaveVars, CopyStep
    <2>4. QED
        BY <2>2, <2>3 DEF EveryChunkAccounted
<1>5. SettledAreDone'
    BY DEF IInv, SettledAreDone, AllDone, AllAssigned, CopyStep
<1>6. CompletedMeansDone'
    BY <1>3, CompletedKept DEF CopyStep
<1>7. QED
    BY <1>1, <1>2, <1>4, <1>5, <1>6 DEF IInv

(* refreshInFlight: an entry leaves the window as done or as failed.        *)
LEMMA RefreshIInv ==
    ASSUME IInv, NEW m \in Runs, NEW seen \in SUBSET Ended(m), RefreshSeeing(m, seen)
    PROVE  IInv'
<1> DEFINE bad == {k \in seen : jobStatus[k] = "failure"}
<1>1. mem[m] \in DispatchState /\ seen \subseteq Jobs /\ seen \subseteq mem[m].inFlight
    BY DEF IInv, TypeOK, Ended, DispatchState
<1>2. {chunkOf[j] : j \in bad} \subseteq Chunks
    BY <1>1 DEF IInv, SubmittedHaveChunks
<1>3. /\ mem'[m] \in DispatchState
      /\ mem'[m].next = mem[m].next
      /\ mem'[m].inFlight = mem[m].inFlight \ seen
      /\ mem'[m].failed = mem[m].failed \union {chunkOf[j] : j \in bad}
    BY <1>1, <1>2 DEF RefreshSeeing, DispatchState, IInv, TypeOK
<1>4. \A n \in Runs : n # m => mem'[n] = mem[n]
    BY DEF RefreshSeeing, IInv, TypeOK
<1>5. TypeOK'
    BY <1>3, <1>4 DEF RefreshSeeing, IInv, TypeOK, slaveVars, PC, Live
<1>6. SubmittedHaveChunks' /\ UnsubmittedHaveNone' /\ InFlightSubmitted'
    BY <1>3, <1>4 DEF IInv, SubmittedHaveChunks, UnsubmittedHaveNone, InFlightSubmitted, Tracked,
                      RefreshSeeing, slaveVars
<1>7. \A c \in Chunks : Succeeded(c) => Succeeded(c)'
    BY DEF RefreshSeeing, Succeeded, slaveVars
<1>8. Covers(mem[m])'
    <2> SUFFICES ASSUME NEW c \in Chunks, c < mem'[m].next
                 PROVE  Accounted(mem[m], c)'
        BY DEF Covers
    <2>1. Accounted(mem[m], c)
        BY <1>3 DEF IInv, EveryChunkAccounted, Covers
    <2>2. CASE c \in mem[m].failed \/ Succeeded(c)
        BY <2>2, <1>3, <1>7 DEF Accounted
    <2>3. CASE \E j \in mem[m].inFlight : chunkOf[j] = c
        <3>1. PICK j \in mem[m].inFlight : chunkOf[j] = c
            BY <2>3
        <3>2. CASE j \notin seen
            BY <3>1, <3>2, <1>3 DEF Accounted, RefreshSeeing, slaveVars
        <3>3. CASE j \in seen /\ jobStatus[j] = "failure"
            BY <3>1, <3>3, <1>3 DEF Accounted
        <3>4. CASE j \in seen /\ jobStatus[j] = "success"
            BY <3>1, <3>4, <1>1, <1>7 DEF Accounted, Succeeded
        <3>5. QED
            BY <3>2, <3>3, <3>4 DEF Ended, Terminal
    <2>4. QED
        BY <2>1, <2>2, <2>3 DEF Accounted
<1>9. EveryChunkAccounted'
    <2>1. stored' # NoState => Covers(stored)'
        BY DEF IInv, EveryChunkAccounted, Covers, Accounted, Succeeded, slaveVars, RefreshSeeing
    <2>2. ASSUME NEW n \in Runs, n # m PROVE Covers(mem[n])'
        <3>1. mem'[n] = mem[n] /\ Covers(mem[n]) /\ chunkOf' = chunkOf
            BY <2>2, <1>4 DEF IInv, EveryChunkAccounted, slaveVars, RefreshSeeing
        <3>2. QED
            BY <3>1, <1>7 DEF Covers, Accounted
    <2>3. QED
        BY <2>1, <2>2, <1>8 DEF EveryChunkAccounted
<1>10. SettledAreDone'
    BY <1>4 DEF IInv, SettledAreDone, AllDone, AllAssigned, RefreshSeeing, TypeOK
<1>11. CompletedMeansDone'
    BY <1>7, CompletedKept DEF RefreshSeeing, IInv, TypeOK
<1>12. QED
    BY <1>5, <1>6, <1>9, <1>10, <1>11 DEF IInv

(* submitOneChunk: a new job covers the chunk nextChunk moves past.         *)
LEMMA SubmitIInv ==
    ASSUME IInv, NEW m \in Runs, NEW j \in Jobs, SubmitChunk(m, j)
    PROVE  IInv'
<1>1. mem[m] \in DispatchState /\ mem[m].next \in Chunks
    BY DEF IInv, TypeOK, SubmitChunk, CanSubmit, AllAssigned, DispatchState, Chunks
<1>2. /\ mem'[m] \in DispatchState
      /\ mem'[m].next = mem[m].next + 1
      /\ mem'[m].inFlight = mem[m].inFlight \union {j}
      /\ mem'[m].failed = mem[m].failed
    <2>1. mem'[m] = [mem[m] EXCEPT !.next = mem[m].next + 1,
                                   !.inFlight = mem[m].inFlight \union {j}]
        BY DEF SubmitChunk, IInv, TypeOK
    <2>2. mem[m].next + 1 \in 0 .. TotalChunks
        BY <1>1 DEF Chunks
    <2>3. mem[m].inFlight \union {j} \in SUBSET Jobs
        BY <1>1 DEF DispatchState
    <2>4. QED
        BY <1>1, <2>1, <2>2, <2>3 DEF DispatchState
<1>3. \A n \in Runs : n # m => mem'[n] = mem[n]
    BY DEF SubmitChunk, IInv, TypeOK
<1>4. /\ chunkOf'[j] = mem[m].next /\ jobStatus'[j] = "active" /\ jobStatus[j] = "absent"
      /\ \A k \in Jobs : k # j => chunkOf'[k] = chunkOf[k] /\ jobStatus'[k] = jobStatus[k]
    BY DEF SubmitChunk, NextJob, IInv, TypeOK
<1>5. TypeOK'
    BY <1>1, <1>2, <1>3 DEF SubmitChunk, IInv, TypeOK, JobStatus, Chunks
<1>6. SubmittedHaveChunks' /\ UnsubmittedHaveNone'
    BY <1>1, <1>4 DEF IInv, SubmittedHaveChunks, UnsubmittedHaveNone
<1>7. \A s : s \in DispatchState /\ Tracked(s) => j \notin s.inFlight /\ s.inFlight \subseteq Jobs
    BY <1>4 DEF Tracked, DispatchState
<1>8. \A c \in Chunks : Succeeded(c) => Succeeded(c)'
    BY <1>4 DEF Succeeded
<1>9. InFlightSubmitted'
    <2>1. stored' # NoState => Tracked(stored)'
        BY <1>4, <1>7 DEF IInv, InFlightSubmitted, Tracked, SubmitChunk, TypeOK
    <2>2. ASSUME NEW n \in Runs, n # m PROVE Tracked(mem[n])'
        BY <2>2, <1>3, <1>4, <1>7 DEF IInv, InFlightSubmitted, Tracked, TypeOK
    <2>3. Tracked(mem[m])'
        BY <1>2, <1>4, <1>7, <1>1 DEF IInv, InFlightSubmitted, Tracked
    <2>4. QED
        BY <2>1, <2>2, <2>3 DEF InFlightSubmitted
<1>10. EveryChunkAccounted'
    <2>1. ASSUME stored' # NoState, NEW c \in Chunks, c < stored'.next
          PROVE  Accounted(stored, c)'
        <3>1. stored' = stored /\ stored \in DispatchState /\ Tracked(stored) /\ Accounted(stored, c)
            BY <2>1 DEF SubmitChunk, IInv, TypeOK, InFlightSubmitted, EveryChunkAccounted, Covers
        <3>2. QED
            BY <3>1, <1>4, <1>7, <1>8 DEF Accounted
    <2>2. ASSUME NEW n \in Runs, n # m, NEW c \in Chunks, c < mem'[n].next
          PROVE  Accounted(mem[n], c)'
        <3>1. /\ mem'[n] = mem[n] /\ mem[n] \in DispatchState /\ Tracked(mem[n])
              /\ Accounted(mem[n], c)
            BY <2>2, <1>3 DEF IInv, TypeOK, InFlightSubmitted, EveryChunkAccounted, Covers
        <3>2. QED
            BY <3>1, <1>4, <1>7, <1>8 DEF Accounted
    <2>3. ASSUME NEW c \in Chunks, c < mem'[m].next
          PROVE  Accounted(mem[m], c)'
        <3>1. CASE c = mem[m].next
            BY <3>1, <1>2, <1>4 DEF Accounted
        <3>2. CASE c < mem[m].next
            <4>1. Tracked(mem[m]) /\ Accounted(mem[m], c)
                BY <3>2 DEF IInv, InFlightSubmitted, EveryChunkAccounted, Covers
            <4>2. QED
                BY <4>1, <1>1, <1>2, <1>4, <1>7, <1>8 DEF Accounted
        <3>3. QED
            BY <2>3, <3>1, <3>2, <1>1, <1>2 DEF Chunks, DispatchState
    <2>4. QED
        BY <2>1, <2>2, <2>3 DEF EveryChunkAccounted, Covers
<1>11. SettledAreDone'
    BY <1>3 DEF IInv, SettledAreDone, AllDone, AllAssigned, SubmitChunk
<1>12. CompletedMeansDone'
    BY <1>8, CompletedKept DEF SubmitChunk
<1>13. QED
    BY <1>5, <1>6, <1>9, <1>10, <1>11, <1>12 DEF IInv

(* A slave that ends or is retried never undoes a success.                  *)
LEMMA SlaveIInv ==
    ASSUME IInv, NEW j \in Jobs, SlaveStep(j)
    PROVE  IInv'
<1>1. UNCHANGED <<stored, pc, mem, tries, chunkOf>>
    BY DEF SlaveStep, SlaveSucceeds, SlaveFails, SlaveRetried, runVars
<1>2. /\ jobStatus[j] # "absent" /\ jobStatus[j] # "success" /\ jobStatus'[j] # "absent"
      /\ \A k \in Jobs : k # j => jobStatus'[k] = jobStatus[k]
    BY DEF SlaveStep, SlaveSucceeds, SlaveFails, SlaveRetried, IInv, TypeOK
<1>3. TypeOK'
    BY <1>1 DEF SlaveStep, SlaveSucceeds, SlaveFails, SlaveRetried, IInv, TypeOK, JobStatus
<1>4. SubmittedHaveChunks' /\ UnsubmittedHaveNone'
    BY <1>1, <1>2 DEF IInv, SubmittedHaveChunks, UnsubmittedHaveNone
<1>5. \A s : s \in DispatchState /\ Tracked(s) => Tracked(s)'
    BY <1>2 DEF Tracked, DispatchState
<1>6. \A c \in Chunks : Succeeded(c) => Succeeded(c)'
    BY <1>1, <1>2 DEF Succeeded
<1>7. InFlightSubmitted'
    BY <1>1, <1>2 DEF IInv, InFlightSubmitted, Tracked, TypeOK, DispatchState
<1>8. EveryChunkAccounted'
    BY <1>1, <1>6 DEF IInv, EveryChunkAccounted, Covers, Accounted
<1>9. SettledAreDone'
    BY <1>1 DEF IInv, SettledAreDone, AllDone, AllAssigned
<1>10. CompletedMeansDone'
    BY <1>1, <1>6 DEF IInv, CompletedMeansDone
<1>11. QED
    BY <1>3, <1>4, <1>7, <1>8, <1>9, <1>10 DEF IInv

LEMMA StepIInv == IInv /\ [Next]_vars => IInv'
<1> SUFFICES ASSUME IInv, [Next]_vars PROVE IInv'
    OBVIOUS
<1> USE DEF IInv, TypeOK, slaveVars, runVars
<1>1. ASSUME NEW m \in Runs, Load(m) PROVE IInv'
    <2>1. TypeOK'
        BY <1>1, FreshStateType DEF Load, PC, Live, Closed
    <2>2. CopyStep(m)
        BY <1>1 DEF Load, CopyStep
    <2>3. QED
        BY <2>1, <2>2, CopyStepIInv
<1>2. ASSUME NEW m \in Runs, InitSave(m) PROVE IInv'
    <2>1. TypeOK'
        BY <1>2, FreshStateType DEF InitSave, PC, Live, Closed
    <2>2. CopyStep(m)
        BY <1>2 DEF InitSave, CopyStep
    <2>3. QED
        BY <2>1, <2>2, CopyStepIInv
<1>3. ASSUME NEW m \in Runs, Settle(m) PROVE IInv'
    <2>1. TypeOK'
        BY <1>3, FreshStateType DEF Settle, PC, Live, Closed
    <2>2. CopyStep(m)
        BY <1>3 DEF Settle, CopyStep
    <2>3. QED
        BY <2>1, <2>2, CopyStepIInv
<1>4. ASSUME NEW m \in Runs, OutOfTime(m) PROVE IInv'
    <2>1. TypeOK'
        BY <1>4, FreshStateType DEF OutOfTime, PC, Live, Closed
    <2>2. CopyStep(m)
        BY <1>4 DEF OutOfTime, CopyStep
    <2>3. QED
        BY <2>1, <2>2, CopyStepIInv
<1>5. ASSUME NEW m \in Runs, StartFill(m) PROVE IInv'
    <2>1. TypeOK'
        BY <1>5, FreshStateType DEF StartFill, PC, Live, Closed
    <2>2. CopyStep(m)
        BY <1>5 DEF StartFill, CopyStep
    <2>3. QED
        BY <2>1, <2>2, CopyStepIInv
<1>6. ASSUME NEW m \in Runs, SaveRound(m) PROVE IInv'
    <2>1. TypeOK'
        BY <1>6, FreshStateType DEF SaveRound, SaveAndSleep, PC, Live, Closed
    <2>2. CopyStep(m)
        BY <1>6 DEF SaveRound, SaveAndSleep, CopyStep
    <2>3. QED
        BY <2>1, <2>2, CopyStepIInv
<1>7. ASSUME NEW m \in Runs, ConcurrencyLimit(m) PROVE IInv'
    <2>1. TypeOK'
        BY <1>7, FreshStateType DEF ConcurrencyLimit, SaveAndSleep, PC, Live, Closed
    <2>2. CopyStep(m)
        BY <1>7 DEF ConcurrencyLimit, SaveAndSleep, CopyStep
    <2>3. QED
        BY <2>1, <2>2, CopyStepIInv
<1>8. ASSUME NEW m \in Runs, ClosePassed(m) PROVE IInv'
    <2>1. TypeOK'
        BY <1>8, FreshStateType DEF ClosePassed, PC, Live, Closed
    <2>2. CopyStep(m)
        BY <1>8 DEF ClosePassed, CopyStep
    <2>3. QED
        BY <2>1, <2>2, CopyStepIInv
<1>9. ASSUME NEW m \in Runs, CloseCompleted(m) PROVE IInv'
    <2>1. TypeOK'
        BY <1>9, FreshStateType DEF CloseCompleted, PC, Live, Closed
    <2>2. CopyStep(m)
        BY <1>9 DEF CloseCompleted, CopyStep
    <2>3. QED
        BY <2>1, <2>2, CopyStepIInv
<1>10. ASSUME NEW m \in Runs, CloseFailed(m) PROVE IInv'
    <2>1. TypeOK'
        BY <1>10, FreshStateType DEF CloseFailed, PoolRetry, PC, Live, Closed
    <2>2. CopyStep(m)
        BY <1>10 DEF CloseFailed, PoolRetry, CopyStep
    <2>3. QED
        BY <2>1, <2>2, CopyStepIInv
<1>11. ASSUME NEW m \in Runs, Abort(m) PROVE IInv'
    <2>1. TypeOK'
        BY <1>11, FreshStateType DEF Abort, PoolRetry, PC, Live, Closed
    <2>2. CopyStep(m)
        BY <1>11 DEF Abort, PoolRetry, CopyStep
    <2>3. QED
        BY <2>1, <2>2, CopyStepIInv
<1>12. ASSUME NEW m \in Runs, NEW n \in Runs, Retrigger(m, n) PROVE IInv'
    <2>1. TypeOK'
        BY <1>12 DEF Retrigger, PC, Live
    <2>2. CopyStep(m)
        BY <1>12 DEF Retrigger, CopyStep
    <2>3. QED
        BY <2>1, <2>2, CopyStepIInv
<1>13. ASSUME NEW m \in Runs, Refresh(m) PROVE IInv'
    BY <1>13, RefreshIInv DEF Refresh
<1>14. ASSUME NEW m \in Runs, NEW j \in Jobs, SubmitChunk(m, j) PROVE IInv'
    BY <1>14, SubmitIInv
<1>15. ASSUME NEW j \in Jobs, SlaveStep(j) PROVE IInv'
    BY <1>15, SlaveIInv
<1>16. CASE UNCHANGED vars
    BY <1>16 DEF vars, SubmittedHaveChunks, UnsubmittedHaveNone, InFlightSubmitted, Tracked, EveryChunkAccounted,
                 Covers, Accounted, Succeeded, SettledAreDone, AllDone, AllAssigned,
                 CompletedMeansDone
<1>17. QED
    BY <1>1, <1>2, <1>3, <1>4, <1>5, <1>6, <1>7, <1>8, <1>9, <1>10, <1>11, <1>12, <1>13, <1>14, <1>15, <1>16 DEF Next, MasterStep

(* Every reachable state satisfies the inductive invariant.                 *)
THEOREM Inductive == Spec => []IInv
<1>1. QED
    BY InitIInv, StepIInv, PTL DEF Spec

(* All variables of CalculateHoldingMaster keep their types.                *)
THEOREM TypeCorrect == Spec => []TypeOK
<1>1. IInv => TypeOK
    BY DEF IInv
<1>2. QED
    BY <1>1, Inductive, PTL

(* No chunk below nextChunk is ever lost, in the stored object or in the    *)
(* memory of any run, over crashes, retries, batons and double dispatches.  *)
THEOREM NothingLost == Spec => []EveryChunkAccounted
<1>1. IInv => EveryChunkAccounted
    BY DEF IInv
<1>2. QED
    BY <1>1, Inductive, PTL

(* The final closeWithSuccess of a master implies that every chunk of the   *)
(* manifest has a slave that succeeded.                                     *)
THEOREM CompletionIsSound == Spec => []CompletedMeansDone
<1>1. IInv => CompletedMeansDone
    BY DEF IInv
<1>2. QED
    BY <1>1, Inductive, PTL

(***************************************************************************)
(* Refinement.  The three abstract variables, by the names the proof uses.  *)
(***************************************************************************)
Given == {c \in Chunks : \E j \in Jobs : chunkOf[j] = c}
Done == {c \in Chunks : Succeeded(c)}
Reported == \E m \in Runs : pc[m] = "completed"

(* The abstract next-state relation, over those names.                      *)
AbstractStep ==
    \/ \E c \in Chunks :
          \/ c \notin Given /\ Given' = Given \union {c} /\ UNCHANGED <<Done, Reported>>
          \/ c \in Given \ Done /\ Done' = Done \union {c} /\ UNCHANGED <<Given, Reported>>
    \/ Done = Chunks /\ ~Reported /\ Reported' = TRUE /\ UNCHANGED <<Given, Done>>
    \/ UNCHANGED <<Given, Done, Reported>>

LEMMA AbstractInit == Init => Given = {} /\ Done = {} /\ Reported = FALSE
BY DEF Init, Given, Done, Reported, Succeeded, NoChunk, Chunks

LEMMA QuietAbstract ==
    ASSUME UNCHANGED slaveVars
    PROVE  Given' = Given /\ Done' = Done
BY DEF slaveVars, Given, Done, Succeeded

(* A step of a run that is not the final close neither submits nor reports. *)
LEMMA OtherRunSteps ==
    ASSUME IInv, UNCHANGED slaveVars,
           \A n \in Runs : pc'[n] = "completed" <=> pc[n] = "completed"
    PROVE  AbstractStep
<1>1. Reported' = Reported
    BY DEF Reported
<1>2. QED
    BY <1>1, QuietAbstract DEF AbstractStep

LEMMA ReportAbstract ==
    ASSUME IInv, IInv', NEW m \in Runs, CloseCompleted(m)
    PROVE  AbstractStep
<1>1. Given' = Given /\ Done' = Done
    BY QuietAbstract DEF CloseCompleted
<1>2. pc'[m] = "completed"
    BY DEF CloseCompleted, IInv, TypeOK
<1>3. Reported'
    BY <1>2 DEF Reported
<1>4. Done' = Chunks
    BY <1>2 DEF IInv, CompletedMeansDone, Done
<1>5. Reported \in BOOLEAN /\ Reported' \in BOOLEAN
    BY DEF Reported
<1>6. CASE Reported
    BY <1>1, <1>3, <1>5, <1>6 DEF AbstractStep
<1>7. CASE ~Reported
    BY <1>1, <1>3, <1>4, <1>5, <1>7 DEF AbstractStep
<1>8. QED
    BY <1>6, <1>7

LEMMA SubmitAbstract ==
    ASSUME IInv, NEW m \in Runs, NEW j \in Jobs, SubmitChunk(m, j)
    PROVE  AbstractStep
<1> DEFINE c == mem[m].next
<1>1. c \in Chunks
    BY DEF IInv, TypeOK, SubmitChunk, CanSubmit, AllAssigned, DispatchState, Chunks
<1>2. /\ chunkOf'[j] = c /\ jobStatus'[j] = "active" /\ jobStatus[j] = "absent"
      /\ \A k \in Jobs : k # j => chunkOf'[k] = chunkOf[k] /\ jobStatus'[k] = jobStatus[k]
    BY DEF SubmitChunk, NextJob, IInv, TypeOK
<1>3. Done' = Done
    BY <1>2 DEF Done, Succeeded
<1>4. Reported' = Reported
    BY DEF SubmitChunk, Reported
<1>5. chunkOf[j] \notin Chunks
    BY <1>2 DEF IInv, UnsubmittedHaveNone, NoChunk, Chunks
<1>6. Given' = Given \union {c}
    BY <1>1, <1>2, <1>5 DEF Given
<1>7. CASE c \in Given
    BY <1>3, <1>4, <1>6, <1>7 DEF AbstractStep
<1>8. CASE c \notin Given
    BY <1>1, <1>3, <1>4, <1>6, <1>8 DEF AbstractStep
<1>9. QED
    BY <1>7, <1>8

LEMMA SlaveAbstract ==
    ASSUME IInv, NEW j \in Jobs, SlaveStep(j)
    PROVE  AbstractStep
<1>1. UNCHANGED <<pc, chunkOf>>
    BY DEF SlaveStep, SlaveSucceeds, SlaveFails, SlaveRetried, runVars
<1>2. Given' = Given /\ Reported' = Reported
    BY <1>1 DEF Given, Reported
<1>3. CASE SlaveSucceeds(j)
    <2>1. chunkOf[j] \in Chunks /\ chunkOf[j] \in Given
        BY <1>3 DEF SlaveSucceeds, IInv, SubmittedHaveChunks, Given
    <2>2. /\ jobStatus'[j] = "success"
          /\ \A k \in Jobs : k # j => jobStatus'[k] = jobStatus[k]
        BY <1>3 DEF SlaveSucceeds, IInv, TypeOK
    <2>3. Done' = Done \union {chunkOf[j]}
        BY <1>1, <2>1, <2>2 DEF Done, Succeeded
    <2>4. CASE chunkOf[j] \in Done
        BY <1>2, <2>3, <2>4 DEF AbstractStep
    <2>5. CASE chunkOf[j] \notin Done
        BY <1>2, <2>1, <2>3, <2>5 DEF AbstractStep
    <2>6. QED
        BY <2>4, <2>5
<1>4. CASE SlaveFails(j) \/ SlaveRetried(j)
    <2>1. /\ jobStatus[j] # "success" /\ jobStatus'[j] # "success"
          /\ \A k \in Jobs : k # j => jobStatus'[k] = jobStatus[k]
        BY <1>4 DEF SlaveFails, SlaveRetried, IInv, TypeOK
    <2>2. Done' = Done
        BY <1>1, <2>1 DEF Done, Succeeded
    <2>3. QED
        BY <1>2, <2>2 DEF AbstractStep
<1>5. QED
    BY <1>3, <1>4 DEF SlaveStep

LEMMA StepAbstract == IInv /\ IInv' /\ [Next]_vars => AbstractStep
<1> SUFFICES ASSUME IInv, IInv', [Next]_vars PROVE AbstractStep
    OBVIOUS
<1>1. ASSUME NEW m \in Runs, MasterStep(m) PROVE AbstractStep
    <2>1. CASE CloseCompleted(m)
        BY <2>1, ReportAbstract
    <2>2. CASE \E j \in Jobs : SubmitChunk(m, j)
        BY <2>2, SubmitAbstract
    <2>3. CASE Load(m) \/ InitSave(m) \/ Settle(m) \/ OutOfTime(m) \/ StartFill(m)
        BY <2>3, OtherRunSteps
        DEF Load, InitSave, Settle, OutOfTime, StartFill, IInv, TypeOK
    <2>4. CASE SaveRound(m) \/ ConcurrencyLimit(m) \/ ClosePassed(m)
        BY <2>4, OtherRunSteps
        DEF SaveRound, ConcurrencyLimit, SaveAndSleep, ClosePassed, IInv, TypeOK
    <2>5. CASE CloseFailed(m) \/ Abort(m)
        BY <2>5, OtherRunSteps DEF CloseFailed, Abort, PoolRetry, Live, IInv, TypeOK
    <2>6. CASE \E n \in Runs : Retrigger(m, n)
        BY <2>6, OtherRunSteps DEF Retrigger, NextRun, IInv, TypeOK
    <2>7. CASE Refresh(m)
        BY <2>7, OtherRunSteps DEF Refresh, RefreshSeeing, IInv, TypeOK
    <2>8. QED
        BY <1>1, <2>1, <2>2, <2>3, <2>4, <2>5, <2>6, <2>7 DEF MasterStep
<1>2. CASE UNCHANGED vars
    BY <1>2, OtherRunSteps DEF vars, slaveVars
<1>3. QED
    BY <1>1, <1>2, SlaveAbstract DEF Next

(* The master with its crashes, retries and successors implements the       *)
(* abstract dispatcher of ChunkDispatch.                                    *)
THEOREM Implements == Spec => ImplementsDispatch
<1>1. Init => Dispatch!Init
    BY AbstractInit DEF Dispatch!Init, Given, Done, Reported
<1>2. AbstractStep => [Dispatch!Next]_(Dispatch!vars)
    BY DEF AbstractStep, Dispatch!Next, Dispatch!Give, Dispatch!Finish, Dispatch!Report,
           Dispatch!vars, Given, Done, Reported
<1>3. QED
    BY <1>1, <1>2, StepAbstract, Inductive, PTL DEF Spec, ImplementsDispatch, Dispatch!Spec

----------------------------------------------------------------------------
(* One chunk, one slave.  While no run was retried a single run has the     *)
(* dispatch in hand, and what it goes by is up to date.                     *)

Saved == {"refresh", "decide", "fill", "settled", "handoff"}
Hand == {"queued", "init"} \union Saved

OneHand == \A m, n \in Runs : pc[m] \in Hand /\ pc[n] \in Hand => m = n

(* The memory r of a run at q is never behind what is stored.               *)
Ahead(q, r, s) ==
    /\ q = "init" => s = NoState
    /\ q \in Saved => s # NoState /\ s.next <= r.next /\ s.failed \subseteq r.failed

(* State s knows every chunk that was given out and every slave running for *)
(* the first time.                                                          *)
Current(s) ==
    \A j \in Jobs :
       /\ jobStatus[j] # "absent" => chunkOf[j] < s.next
       /\ jobStatus[j] = "active" /\ jobTries[j] = 0 => j \in s.inFlight

Knows(q, r, s) ==
    /\ q \in {"queued", "init"} =>
          IF s = NoState THEN \A j \in Jobs : jobStatus[j] = "absent" ELSE Current(s)
    /\ q \in Saved => Current(r)
    /\ q = "handoff" => s = r

Orderly == Alone \/ Undisturbed

InOrder == Orderly => OneHand /\ \A m \in Runs : Ahead(pc[m], mem[m], stored)
UpToDate == Undisturbed => \A m \in Runs : Knows(pc[m], mem[m], stored)

Bounded(s) == Cardinality(s.inFlight) <= MaxInFlight

SWindow ==
    /\ stored # NoState => Bounded(stored)
    /\ \A m \in Runs : Bounded(mem[m])
    /\ WindowOnTheWay

(* A run that passes the baton is not alone.                                *)
Succession == \A m \in Runs : pc[m] = "passing" => ~Alone

SInv ==
    /\ IInv
    /\ Succession
    /\ InOrder
    /\ UpToDate
    /\ SWindow
    /\ OneSlavePerChunk

LEMMA InitSInv ==
    ASSUME Starts <= 1, Init
    PROVE  SInv
<1>1. IInv
    BY InitIInv
<1>2. /\ \A m \in Runs : pc[m] \in {"queued", "absent"} /\ (pc[m] = "queued" => m = 1)
      /\ stored = NoState
    BY DEF Init, Runs
<1>3. InOrder
    BY <1>2 DEF InOrder, OneHand, Hand, Saved, Ahead
<1>4. UpToDate
    BY <1>2 DEF UpToDate, Knows, Saved, Init
<1>5. Cardinality({}) <= MaxInFlight
    BY FS_EmptySet
<1>6. SWindow
    <2>1. {j \in Jobs : jobStatus[j] = "active"} = {}
        BY DEF Init
    <2>2. \A m \in Runs : mem[m].inFlight = {}
        BY DEF Init, FreshState
    <2>3. QED
        BY <1>2, <1>5, <2>1, <2>2 DEF SWindow, Bounded, WindowOnTheWay
<1>7. OneSlavePerChunk
    BY DEF Init, OneSlavePerChunk
<1>8. Succession
    BY <1>2 DEF Succession
<1>9. QED
    BY <1>1, <1>3, <1>4, <1>6, <1>7, <1>8 DEF SInv

(* A retry is not undone, and a run that came into being stays.             *)
LEMMA OrderKept ==
    ASSUME IInv, [Next]_vars
    PROVE  (Undisturbed' => Undisturbed) /\ (Alone' => Alone) /\ (Orderly' => Orderly)
<1>0. pc \in [Runs -> PC] /\ tries \in [Runs -> 0 .. MaxRetries]
    BY DEF IInv, TypeOK
<1>1. ASSUME NEW m \in Runs, MasterStep(m)
      PROVE  \A n \in Runs : (tries'[n] = 0 => tries[n] = 0) /\ (pc[n] # "absent" => pc'[n] # "absent")
    <2>1. CASE Load(m) \/ InitSave(m) \/ Refresh(m) \/ Settle(m) \/ OutOfTime(m) \/ StartFill(m)
        BY <1>0, <2>1 DEF Load, InitSave, Refresh, RefreshSeeing, Settle, OutOfTime, StartFill
    <2>2. CASE (\E j \in Jobs : SubmitChunk(m, j)) \/ SaveRound(m) \/ ConcurrencyLimit(m)
        BY <1>0, <2>2 DEF SubmitChunk, SaveRound, ConcurrencyLimit, SaveAndSleep
    <2>3. CASE (\E n \in Runs : Retrigger(m, n)) \/ ClosePassed(m) \/ CloseCompleted(m)
        BY <1>0, <2>3 DEF Retrigger, ClosePassed, CloseCompleted
    <2>4. CASE CloseFailed(m) \/ Abort(m)
        BY <1>0, <2>4 DEF CloseFailed, Abort, PoolRetry
    <2>5. QED
        BY <1>1, <2>1, <2>2, <2>3, <2>4 DEF MasterStep
<1>2. CASE UNCHANGED <<pc, tries>>
    BY <1>2 DEF Undisturbed, Alone, Orderly
<1>3. ASSUME NEW m \in Runs, MasterStep(m) PROVE (Undisturbed' => Undisturbed) /\ (Alone' => Alone)
    BY <1>1, <1>3 DEF Undisturbed, Alone
<1>4. QED
    BY <1>2, <1>3 DEF Next, SlaveStep, SlaveSucceeds, SlaveFails, SlaveRetried, runVars, vars, Orderly

(* A step of a run that gives out nothing: what it leaves in hand is in     *)
(* order, and no other run has anything in hand.                            *)
LEMMA RunOrder ==
    ASSUME SInv, IInv', Undisturbed' => Undisturbed, Alone' => Alone,
           NEW m \in Runs, NEW q, pc' = [pc EXCEPT ![m] = q],
           \A n \in Runs : n # m => mem'[n] = mem[n],
           UNCHANGED slaveVars, pc[m] \in Hand \/ q \notin Hand \/ ~Orderly',
           stored' = stored \/ (stored' = mem[m] /\ pc[m] \in Hand),
           Orderly /\ Ahead(pc[m], mem[m], stored) => Ahead(q, mem'[m], stored'),
           Undisturbed' /\ Ahead(pc[m], mem[m], stored) /\ Knows(pc[m], mem[m], stored) => Knows(q, mem'[m], stored'),
           Bounded(mem'[m]), q # "passing"
    PROVE  SInv'
<1>0. pc \in [Runs -> PC] /\ (Orderly' => Orderly)
    BY DEF SInv, IInv, TypeOK, Orderly
<1>1. InOrder'
    <2> SUFFICES ASSUME Orderly' PROVE OneHand' /\ \A n \in Runs : Ahead(pc'[n], mem'[n], stored')
        BY DEF InOrder
    <2>1. Orderly /\ OneHand /\ \A n \in Runs : Ahead(pc[n], mem[n], stored)
        BY <1>0 DEF SInv, InOrder
    <2>2. OneHand'
        BY <1>0, <2>1 DEF OneHand
    <2>3. ASSUME NEW n \in Runs, n # m PROVE Ahead(pc[n], mem[n], stored')
        <3>1. CASE pc[n] \in Hand
            BY <2>1, <2>3, <3>1 DEF OneHand
        <3>2. CASE pc[n] \notin Hand
            BY <3>2 DEF Ahead, Hand
        <3>3. QED
            BY <3>1, <3>2
    <2>4. Ahead(q, mem'[m], stored')
        BY <2>1
    <2>5. QED
        BY <1>0, <2>2, <2>3, <2>4
<1>2. UpToDate'
    <2> SUFFICES ASSUME Undisturbed', NEW n \in Runs PROVE Knows(pc[n], mem[n], stored)'
        BY DEF UpToDate
    <2>1. OneHand /\ \A k \in Runs : Ahead(pc[k], mem[k], stored) /\ Knows(pc[k], mem[k], stored)
        BY DEF SInv, InOrder, UpToDate, Orderly
    <2>2. CASE n = m
        <3>1. Knows(q, mem'[m], stored')
            BY <2>1
        <3>2. QED
            BY <1>0, <2>2, <3>1 DEF Knows, Current, slaveVars
    <2>3. CASE n # m /\ pc[n] \in Hand
        <3>1. pc'[n] = pc[n] /\ mem'[n] = mem[n] /\ stored' = stored
            BY <1>0, <2>1, <2>3 DEF OneHand
        <3>2. QED
            BY <2>1, <3>1 DEF Knows, Current, slaveVars
    <2>4. CASE n # m /\ pc[n] \notin Hand
        BY <1>0, <2>4 DEF Knows, Hand, Saved
    <2>5. QED
        BY <2>2, <2>3, <2>4
<1>3. SWindow'
    <2>1. (stored # NoState => Bounded(stored))' /\ \A n \in Runs : Bounded(mem'[n])
        BY DEF SInv, SWindow, Bounded
    <2>2. WindowOnTheWay'
        BY DEF SInv, SWindow, WindowOnTheWay, slaveVars
    <2>3. QED
        BY <2>1, <2>2 DEF SWindow, Bounded
<1>4. OneSlavePerChunk'
    BY DEF SInv, OneSlavePerChunk, slaveVars
<1>5. Succession'
    BY <1>0 DEF SInv, Succession
<1>6. QED
    BY <1>1, <1>2, <1>3, <1>4, <1>5 DEF SInv

LEMMA RunKeepsOrder ==
    ASSUME SInv, IInv', [Next]_vars, NEW m \in Runs,
           Load(m) \/ InitSave(m) \/ Settle(m) \/ OutOfTime(m) \/ StartFill(m) \/ SaveRound(m)
             \/ ConcurrencyLimit(m) \/ ClosePassed(m) \/ CloseCompleted(m) \/ CloseFailed(m) \/ Abort(m)
    PROVE  SInv'
<1>0. /\ (Undisturbed' => Undisturbed) /\ (Alone' => Alone)
      /\ pc \in [Runs -> PC] /\ mem \in [Runs -> DispatchState] /\ tries \in [Runs -> 0 .. MaxRetries]
      /\ stored # NoState => stored \in DispatchState
      /\ stored # NoState => Bounded(stored)
      /\ Bounded(mem[m]) /\ mem[m] # NoState
    BY OrderKept, NoStateAssumption DEF SInv, IInv, TypeOK, SWindow
<1>1. Bounded(FreshState)
    BY FS_EmptySet DEF Bounded, FreshState
<1>2. FreshState.next = 0 /\ FreshState.failed = {}
    BY DEF FreshState
<1>3. mem[m].next <= mem[m].next
    BY <1>0 DEF DispatchState
<1>4. CASE Load(m)
    <2>1. CASE stored = NoState
        <3>1. /\ pc' = [pc EXCEPT ![m] = "init"] /\ mem'[m] = FreshState /\ stored' = stored
              /\ UNCHANGED slaveVars /\ pc[m] = "queued" /\ \A n \in Runs : n # m => mem'[n] = mem[n]
            BY <1>0, <1>4, <2>1 DEF Load
        <3>2. QED
            BY <1>0, <1>1, <2>1, <3>1, RunOrder DEF Ahead, Knows, Hand, Saved
    <2>2. CASE stored # NoState
        <3>1. /\ pc' = [pc EXCEPT ![m] = "refresh"] /\ mem'[m] = stored /\ stored' = stored
              /\ UNCHANGED slaveVars /\ pc[m] = "queued" /\ \A n \in Runs : n # m => mem'[n] = mem[n]
            BY <1>0, <1>4, <2>2 DEF Load
        <3>2. stored.next <= stored.next
            BY <1>0, <2>2 DEF DispatchState
        <3>3. QED
            BY <1>0, <2>2, <3>1, <3>2, RunOrder DEF Ahead, Knows, Hand, Saved
    <2>3. QED
        BY <2>1, <2>2
<1>5. CASE InitSave(m) \/ Settle(m) \/ OutOfTime(m) \/ SaveRound(m) \/ ConcurrencyLimit(m)
    <2>1. PICK q \in Saved : pc' = [pc EXCEPT ![m] = q]
        BY <1>5 DEF InitSave, Settle, OutOfTime, SaveRound, ConcurrencyLimit, SaveAndSleep, Saved
    <2>2. /\ stored' = mem[m] /\ mem' = mem /\ UNCHANGED slaveVars
          /\ pc[m] = "init" \/ pc[m] \in Saved
        BY <1>5 DEF InitSave, Settle, OutOfTime, SaveRound, ConcurrencyLimit, SaveAndSleep, Saved
    <2>3. Ahead(q, mem'[m], stored')
        BY <1>0, <1>3, <2>1, <2>2 DEF Ahead, Saved
    <2>4. Ahead(pc[m], mem[m], stored) /\ Knows(pc[m], mem[m], stored) => Knows(q, mem'[m], stored')
        BY <2>1, <2>2 DEF Ahead, Knows, Current, Saved
    <2>5. pc[m] \in Hand /\ q # "passing"
        BY <2>1, <2>2 DEF Hand, Saved
    <2>6. QED
        BY <1>0, <2>1, <2>2, <2>3, <2>4, <2>5, RunOrder
<1>6. CASE StartFill(m)
    <2>1. /\ pc' = [pc EXCEPT ![m] = "fill"] /\ UNCHANGED <<mem, stored>> /\ UNCHANGED slaveVars
          /\ pc[m] = "decide"
        BY <1>6 DEF StartFill
    <2>2. QED
        BY <1>0, <2>1, RunOrder DEF Ahead, Knows, Hand, Saved
<1>7. CASE ClosePassed(m) \/ CloseCompleted(m)
    <2>1. PICK q \in {"passed", "completed"} : pc' = [pc EXCEPT ![m] = q]
        BY <1>7 DEF ClosePassed, CloseCompleted
    <2>2. /\ mem'[m] = FreshState /\ stored' = stored /\ UNCHANGED slaveVars
          /\ \A n \in Runs : n # m => mem'[n] = mem[n]
        BY <1>0, <1>7 DEF ClosePassed, CloseCompleted
    <2>3. q \notin Hand /\ q # "passing" /\ Ahead(q, mem'[m], stored') /\ Knows(q, mem'[m], stored')
        BY <2>1 DEF Hand, Saved, Ahead, Knows
    <2>4. QED
        BY <1>0, <1>1, <2>1, <2>2, <2>3, RunOrder
<1>8. CASE CloseFailed(m) \/ Abort(m)
    <2>1. PICK q \in {"queued", "failed"} :
             pc' = [pc EXCEPT ![m] = q] /\ (q = "queued" => tries'[m] # 0)
        <3>1. CASE tries[m] < MaxRetries
            <4>1. pc' = [pc EXCEPT ![m] = "queued"] /\ tries'[m] = tries[m] + 1 /\ tries[m] \in Nat
                BY <1>0, <1>8, <3>1 DEF CloseFailed, Abort, PoolRetry
            <4>2. QED
                BY <4>1
        <3>2. CASE ~(tries[m] < MaxRetries)
            BY <1>0, <1>8, <3>2 DEF CloseFailed, Abort, PoolRetry
        <3>3. QED
            BY <3>1, <3>2
    <2>2. /\ mem'[m] = FreshState /\ stored' = stored /\ UNCHANGED slaveVars
          /\ \A n \in Runs : n # m => mem'[n] = mem[n]
          /\ pc[m] \in Hand \union {"passing"}
        BY <1>0, <1>8 DEF CloseFailed, Abort, PoolRetry, Live, Hand, Saved
    <2>3. q = "queued" => ~Undisturbed'
        BY <2>1 DEF Undisturbed
    <2>4. pc[m] \in Hand \/ q \notin Hand \/ ~Orderly'
        BY <1>0, <2>1, <2>2, <2>3 DEF SInv, Succession, Orderly, Hand, Saved
    <2>5. q # "passing" /\ Ahead(q, mem'[m], stored') /\ (q = "queued" \/ Knows(q, mem'[m], stored'))
        BY <2>1 DEF Saved, Ahead, Knows
    <2>6. QED
        BY <1>0, <1>1, <2>1, <2>2, <2>3, <2>4, <2>5, RunOrder
<1>9. QED
    BY <1>4, <1>5, <1>6, <1>7, <1>8

LEMMA JobsFinite == IsFiniteSet(Jobs)
BY FS_Interval DEF Jobs

LEMMA RefreshKeepsOrder ==
    ASSUME SInv, IInv', [Next]_vars, NEW m \in Runs, NEW seen \in SUBSET Ended(m), RefreshSeeing(m, seen)
    PROVE  SInv'
<1>0. /\ (Undisturbed' => Undisturbed) /\ (Alone' => Alone)
      /\ pc \in [Runs -> PC] /\ mem \in [Runs -> DispatchState] /\ Bounded(mem[m])
    BY OrderKept DEF SInv, IInv, TypeOK, SWindow
<1> DEFINE bad == {chunkOf[j] : j \in {k \in seen : jobStatus[k] = "failure"}}
<1>1. /\ mem'[m].next = mem[m].next
      /\ mem'[m].inFlight = mem[m].inFlight \ seen
      /\ mem'[m].failed = mem[m].failed \union bad
      /\ pc' = [pc EXCEPT ![m] = "decide"] /\ pc[m] = "refresh"
      /\ stored' = stored /\ UNCHANGED slaveVars
    BY <1>0 DEF RefreshSeeing, DispatchState
<1> HIDE DEF bad
<1>2. \A n \in Runs : n # m => mem'[n] = mem[n]
    BY <1>0 DEF RefreshSeeing
<1>3. Ahead("refresh", mem[m], stored) => Ahead("decide", mem'[m], stored')
    BY <1>1 DEF Ahead, Saved
<1>4. Knows("refresh", mem[m], stored) => Knows("decide", mem'[m], stored')
    <2>1. \A j \in seen : jobStatus[j] # "active"
        BY DEF Ended, Terminal
    <2>2. QED
        BY <1>1, <2>1 DEF Knows, Saved, Current
<1>5. Bounded(mem'[m])
    <2>1. IsFiniteSet(mem[m].inFlight)
        <3>1. mem[m].inFlight \subseteq Jobs
            BY <1>0 DEF DispatchState
        <3>2. QED
            BY <3>1, JobsFinite, FS_Subset
    <2>2. mem'[m].inFlight \subseteq mem[m].inFlight
        BY <1>1
    <2>3. Cardinality(mem'[m].inFlight) <= Cardinality(mem[m].inFlight)
        BY <2>1, <2>2, FS_Subset
    <2>4. Cardinality(mem'[m].inFlight) \in Nat /\ Cardinality(mem[m].inFlight) \in Nat
        BY <2>1, <2>2, FS_Subset, FS_CardinalityType
    <2>5. QED
        BY <1>0, <2>3, <2>4 DEF Bounded
<1>6. QED
    BY <1>0, <1>1, <1>2, <1>3, <1>4, <1>5, RunOrder DEF Hand, Saved

(* A chunk is given to a new slave by the one run that has it in hand.      *)
LEMMA SubmitKeepsOrder ==
    ASSUME SInv, IInv', [Next]_vars, NEW m \in Runs, NEW j \in Jobs, SubmitChunk(m, j)
    PROVE  SInv'
<1>0. /\ (Undisturbed' => Undisturbed) /\ (Alone' => Alone) /\ (Orderly' => Orderly)
      /\ pc \in [Runs -> PC] /\ mem \in [Runs -> DispatchState] /\ stored \in DispatchState \union {NoState}
      /\ jobStatus \in [Jobs -> JobStatus] /\ chunkOf \in [Jobs -> 0 .. TotalChunks]
    BY OrderKept DEF SInv, IInv, TypeOK
<1>1. mem[m] \in DispatchState /\ mem[m].next \in Chunks /\ mem[m].inFlight \subseteq Jobs
    BY <1>0 DEF SubmitChunk, CanSubmit, AllAssigned, DispatchState, Chunks
<1>2. /\ mem'[m].next = mem[m].next + 1
      /\ mem'[m].inFlight = mem[m].inFlight \union {j}
      /\ mem'[m].failed = mem[m].failed
    <2>1. mem'[m] = [mem[m] EXCEPT !.next = mem[m].next + 1,
                                   !.inFlight = mem[m].inFlight \union {j}]
        BY <1>0 DEF SubmitChunk
    <2>2. QED
        BY <1>1, <2>1 DEF DispatchState
<1>3. /\ \A n \in Runs : n # m => mem'[n] = mem[n]
      /\ UNCHANGED <<stored, pc, tries, jobTries>> /\ pc[m] = "fill"
      /\ chunkOf'[j] = mem[m].next /\ jobStatus[j] = "absent" /\ jobStatus'[j] = "active"
      /\ \A k \in Jobs : k # j => chunkOf'[k] = chunkOf[k] /\ jobStatus'[k] = jobStatus[k]
    BY <1>0 DEF SubmitChunk, NextJob
<1>4. Succession'
    BY <1>0, <1>3 DEF SInv, Succession
<1>5. InOrder'
    <2> SUFFICES ASSUME Orderly' PROVE OneHand' /\ \A n \in Runs : Ahead(pc[n], mem'[n], stored)
        BY <1>3 DEF InOrder
    <2>1. OneHand /\ \A n \in Runs : Ahead(pc[n], mem[n], stored)
        BY <1>0 DEF SInv, InOrder
    <2>2. Ahead(pc[m], mem'[m], stored)
        <3>1. stored # NoState /\ stored.next <= mem[m].next /\ stored.failed \subseteq mem[m].failed
            BY <1>3, <2>1 DEF Ahead, Saved
        <3>2. stored.next <= mem[m].next + 1
            BY <1>0, <1>1, <3>1 DEF DispatchState, Chunks
        <3>3. QED
            BY <1>2, <1>3, <3>1, <3>2 DEF Ahead
    <2>3. QED
        BY <1>3, <2>1, <2>2 DEF OneHand
<1>6. Undisturbed' => Current(mem[m]) /\ OneHand
    <2> SUFFICES ASSUME Undisturbed' PROVE Current(mem[m]) /\ OneHand
        OBVIOUS
    <2>1. Undisturbed /\ Orderly
        BY <1>0 DEF Orderly
    <2>2. Knows(pc[m], mem[m], stored)
        BY <2>1 DEF SInv, UpToDate
    <2>3. QED
        BY <1>3, <2>1, <2>2 DEF SInv, InOrder, Knows, Saved
<1>7. Undisturbed' => Current(mem[m])'
    <2> SUFFICES ASSUME Undisturbed', NEW k \in Jobs
                 PROVE  /\ jobStatus'[k] # "absent" => chunkOf'[k] < mem[m].next + 1
                        /\ jobStatus'[k] = "active" /\ jobTries'[k] = 0 => k \in mem'[m].inFlight
        BY <1>2 DEF Current
    <2>1. CASE k = j
        BY <1>1, <1>2, <1>3, <2>1 DEF Chunks
    <2>2. CASE k # j
        <3>1. jobStatus[k] # "absent" => chunkOf[k] < mem[m].next
            BY <1>6 DEF Current
        <3>2. chunkOf[k] < mem[m].next => chunkOf[k] < mem[m].next + 1
            BY <1>0, <1>1 DEF Chunks
        <3>3. QED
            BY <1>2, <1>3, <1>6, <2>2, <3>1, <3>2 DEF Current
    <2>3. QED
        BY <2>1, <2>2
<1>8. UpToDate'
    <2> SUFFICES ASSUME Undisturbed', NEW n \in Runs PROVE Knows(pc[n], mem[n], stored)'
        BY DEF UpToDate
    <2>1. CASE n = m
        BY <1>3, <1>7, <2>1 DEF Knows, Saved
    <2>2. CASE n # m
        <3>1. pc[n] \notin Hand
            BY <1>3, <1>6, <2>2 DEF OneHand, Hand, Saved
        <3>2. QED
            BY <1>3, <3>1 DEF Knows, Hand, Saved
    <2>3. QED
        BY <2>1, <2>2
<1>9. SWindow'
    <2>1. IsFiniteSet(mem[m].inFlight)
        BY <1>1, JobsFinite, FS_Subset
    <2>2. /\ IsFiniteSet(mem'[m].inFlight)
          /\ Cardinality(mem[m].inFlight) \in Nat /\ Cardinality(mem'[m].inFlight) \in Nat
          /\ Cardinality(mem'[m].inFlight) \in {Cardinality(mem[m].inFlight), Cardinality(mem[m].inFlight) + 1}
        <3>1. PICK S : S = mem[m].inFlight
            OBVIOUS
        <3>2. IsFiniteSet(S) /\ Cardinality(S) \in Nat
            BY <2>1, <3>1, FS_CardinalityType
        <3>3. /\ IsFiniteSet(S \union {j})
              /\ Cardinality(S \union {j}) = IF j \in S THEN Cardinality(S) ELSE Cardinality(S) + 1
            BY <3>2, FS_AddElement
        <3>4. QED
            BY <1>2, <3>1, <3>2, <3>3
    <2>3. Bounded(mem'[m])
        BY <2>2 DEF SubmitChunk, CanSubmit, Bounded
    <2>4. WindowOnTheWay'
        <3> SUFFICES ASSUME Undisturbed', \A k \in Jobs : jobTries'[k] = 0
                     PROVE  Cardinality({k \in Jobs : jobStatus'[k] = "active"}) <= MaxInFlight
            BY DEF WindowOnTheWay
        <3> DEFINE A == {k \in Jobs : jobStatus'[k] = "active"}
        <3>1. A \subseteq mem'[m].inFlight
            BY <1>7 DEF Current
        <3> HIDE DEF A
        <3>2. IsFiniteSet(A) /\ Cardinality(A) <= Cardinality(mem'[m].inFlight)
            BY <2>2, <3>1, FS_Subset
        <3>3. Cardinality(A) \in Nat
            BY <3>2, FS_CardinalityType
        <3>4. Cardinality(A) <= MaxInFlight
            BY <2>2, <2>3, <3>2, <3>3 DEF Bounded
        <3>5. QED
            BY <3>4 DEF A
    <2>5. QED
        BY <1>3, <2>3, <2>4 DEF SInv, SWindow, Bounded
<1>10. OneSlavePerChunk'
    <2> SUFFICES ASSUME Undisturbed', NEW i \in Jobs, NEW k \in Jobs,
                        chunkOf'[i] = chunkOf'[k], chunkOf'[i] # NoChunk
                 PROVE  i = k
        BY DEF OneSlavePerChunk
    <2>1. \A n \in Jobs : n # j => chunkOf[n] # mem[m].next
        <3>1. \A n \in Jobs : jobStatus[n] # "absent" => chunkOf[n] < mem[m].next
            BY <1>6 DEF Current
        <3>2. \A n \in Jobs : jobStatus[n] = "absent" => chunkOf[n] = TotalChunks
            BY DEF SInv, IInv, UnsubmittedHaveNone, NoChunk
        <3>3. mem[m].next # TotalChunks /\ ~(mem[m].next < mem[m].next)
            BY <1>1 DEF Chunks
        <3>4. QED
            BY <3>1, <3>2, <3>3
    <2>2. CASE i = j \/ k = j
        BY <1>3, <2>1, <2>2
    <2>3. CASE i # j /\ k # j
        BY <1>0, <1>3, <2>3 DEF SInv, OneSlavePerChunk
    <2>4. QED
        BY <2>2, <2>3
<1>11. QED
    BY <1>4, <1>5, <1>8, <1>9, <1>10 DEF SInv

(* The baton is passed with the state as it was saved.                      *)
LEMMA RetriggerKeepsOrder ==
    ASSUME SInv, IInv', [Next]_vars, NEW m \in Runs, NEW n \in Runs, Retrigger(m, n)
    PROVE  SInv'
<1>0. /\ (Undisturbed' => Undisturbed) /\ (Alone' => Alone) /\ (Orderly' => Orderly)
      /\ pc \in [Runs -> PC] /\ mem \in [Runs -> DispatchState]
    BY OrderKept DEF SInv, IInv, TypeOK
<1>1. /\ m # n /\ pc[m] = "handoff" /\ pc[n] = "absent" /\ pc'[m] = "passing" /\ pc'[n] = "queued"
      /\ \A k \in Runs : k # m /\ k # n => pc'[k] = pc[k]
      /\ UNCHANGED <<stored, mem, tries>> /\ UNCHANGED slaveVars
    BY <1>0 DEF Retrigger, NextRun
<1>2. ~Alone'
    BY <1>1 DEF Alone
<1>3. Succession'
    BY <1>2 DEF Succession
<1>4. Orderly' => OneHand /\ \A k \in Runs : Ahead(pc[k], mem[k], stored)
    BY <1>0 DEF SInv, InOrder
<1>5. Orderly' => \A k \in Runs : k # m => pc[k] \notin Hand
    BY <1>1, <1>4 DEF OneHand, Hand, Saved
<1>6. InOrder'
    BY <1>1, <1>4, <1>5 DEF InOrder, OneHand, Hand, Saved, Ahead
<1>7. UpToDate'
    <2> SUFFICES ASSUME Undisturbed', NEW k \in Runs PROVE Knows(pc[k], mem[k], stored)'
        BY DEF UpToDate
    <2>1. Undisturbed /\ Orderly'
        BY <1>0 DEF Orderly
    <2>2. Knows(pc[m], mem[m], stored)
        BY <2>1 DEF SInv, UpToDate
    <2>3. CASE k = n
        <3>1. Current(mem[m]) /\ stored = mem[m]
            BY <1>1, <2>2 DEF Knows, Saved
        <3>2. stored # NoState
            BY <1>1, <1>4, <2>1 DEF Ahead, Saved
        <3>3. QED
            BY <1>1, <2>3, <3>1, <3>2 DEF Knows, Current, Saved, slaveVars
    <2>4. CASE k # n
        <3>1. pc'[k] \notin Hand
            BY <1>1, <1>5, <2>1, <2>4 DEF Hand, Saved
        <3>2. QED
            BY <3>1 DEF Knows, Hand, Saved
    <2>5. QED
        BY <2>3, <2>4
<1>8. SWindow' /\ OneSlavePerChunk'
    BY <1>0, <1>1 DEF SInv, SWindow, Bounded, WindowOnTheWay, OneSlavePerChunk, slaveVars
<1>9. QED
    BY <1>3, <1>6, <1>7, <1>8 DEF SInv

LEMMA SlaveKeepsOrder ==
    ASSUME SInv, IInv', [Next]_vars, NEW j \in Jobs, SlaveStep(j)
    PROVE  SInv'
<1>0. /\ jobStatus \in [Jobs -> JobStatus] /\ jobTries \in [Jobs -> 0 .. MaxSlaveRetries]
      /\ UNCHANGED <<stored, pc, mem, tries, chunkOf>>
    BY DEF SInv, IInv, TypeOK, SlaveStep, SlaveSucceeds, SlaveFails, SlaveRetried, runVars
<1>1. \A k \in Jobs :
         /\ jobStatus'[k] # "absent" <=> jobStatus[k] # "absent"
         /\ jobTries'[k] = 0 => jobTries[k] = 0
         /\ jobStatus'[k] = "active" /\ jobTries'[k] = 0 => jobStatus[k] = "active"
    BY <1>0 DEF SlaveStep, SlaveSucceeds, SlaveFails, SlaveRetried
<1>2. (Undisturbed' <=> Undisturbed) /\ (Alone' <=> Alone) /\ (OneHand' <=> OneHand)
    BY <1>0 DEF Undisturbed, Alone, OneHand
<1>3. Succession' /\ InOrder'
    BY <1>0, <1>2 DEF SInv, Succession, InOrder, Orderly
<1>4. UpToDate'
    <2>1. \A s : Current(s) => Current(s)'
        BY <1>0, <1>1 DEF Current
    <2>2. QED
        BY <1>0, <1>1, <1>2, <2>1 DEF SInv, UpToDate, Knows
<1>5. SWindow'
    <2>1. WindowOnTheWay'
        <3> SUFFICES ASSUME Undisturbed, \A k \in Jobs : jobTries'[k] = 0
                     PROVE  Cardinality({k \in Jobs : jobStatus'[k] = "active"}) <= MaxInFlight
            BY <1>2 DEF WindowOnTheWay
        <3> DEFINE A == {k \in Jobs : jobStatus[k] = "active"}
                   B == {k \in Jobs : jobStatus'[k] = "active"}
        <3>1. Cardinality(A) <= MaxInFlight
            BY <1>1 DEF SInv, SWindow, WindowOnTheWay
        <3>2. B \subseteq A
            BY <1>1
        <3>3. IsFiniteSet(A)
            BY JobsFinite, FS_Subset
        <3> HIDE DEF A, B
        <3>4. IsFiniteSet(B) /\ Cardinality(B) <= Cardinality(A)
            BY <3>2, <3>3, FS_Subset
        <3>5. Cardinality(A) \in Nat /\ Cardinality(B) \in Nat
            BY <3>3, <3>4, FS_CardinalityType
        <3>6. Cardinality(B) <= MaxInFlight
            BY <3>1, <3>4, <3>5
        <3>7. QED
            BY <3>6 DEF B
    <2>2. QED
        BY <1>0, <2>1 DEF SInv, SWindow, Bounded
<1>6. OneSlavePerChunk'
    BY <1>0, <1>2 DEF SInv, OneSlavePerChunk
<1>7. QED
    BY <1>3, <1>4, <1>5, <1>6 DEF SInv

LEMMA StepSInv == SInv /\ [Next]_vars => SInv'
<1> SUFFICES ASSUME SInv, [Next]_vars PROVE SInv'
    OBVIOUS
<1>1. IInv'
    BY StepIInv DEF SInv
<1>2. ASSUME NEW m \in Runs, MasterStep(m) PROVE SInv'
    BY <1>1, <1>2, RunKeepsOrder, RefreshKeepsOrder, SubmitKeepsOrder, RetriggerKeepsOrder
       DEF MasterStep, Refresh
<1>3. ASSUME NEW j \in Jobs, SlaveStep(j) PROVE SInv'
    BY <1>1, <1>3, SlaveKeepsOrder
<1>4. CASE UNCHANGED vars
    <2>1. UNCHANGED <<stored, pc, mem, tries, chunkOf, jobStatus, jobTries>>
        BY <1>4 DEF vars
    <2>2. Succession' /\ InOrder' /\ UpToDate'
        BY <2>1 DEF SInv, Succession, Alone, InOrder, Orderly, Undisturbed, OneHand, UpToDate, Knows, Current
    <2>3. SWindow' /\ OneSlavePerChunk'
        BY <2>1 DEF SInv, SWindow, Bounded, WindowOnTheWay, Undisturbed, OneSlavePerChunk
    <2>4. QED
        BY <1>1, <2>2, <2>3 DEF SInv
<1>5. QED
    BY <1>2, <1>3, <1>4 DEF Next

(* Submitted once, the master has one run at work at a time and that run    *)
(* goes by what the one before it saved.                                    *)
LEMMA OneAtATime ==
    ASSUME Starts <= 1
    PROVE  Spec => []SInv
BY InitSInv, StepSInv, PTL DEF Spec

(* The master being submitted once, no chunk is given to two slaves through *)
(* any number of handoffs, until a master run has to be retried.            *)
THEOREM NoChunkTwice ==
    ASSUME Starts <= 1
    PROVE  Spec => []OneSlavePerChunk
<1>1. SInv => OneSlavePerChunk
    BY DEF SInv
<1>2. QED
    BY <1>1, OneAtATime, PTL

(* Nor are more than MaxInFlight slaves running, until a master or a slave  *)
(* has to be retried.                                                       *)
THEOREM WindowHolds ==
    ASSUME Starts <= 1
    PROVE  Spec => []WindowOnTheWay
<1>1. SInv => WindowOnTheWay
    BY DEF SInv, SWindow
<1>2. QED
    BY <1>1, OneAtATime, PTL

(* A save never takes the stored progress back, through the retries of a    *)
(* run that passed no baton and the handoffs of runs that were not retried. *)
THEOREM ProgressStays ==
    ASSUME Starts <= 1
    PROVE  Spec => ProgressNeverLost
<1> DEFINE Kept == stored # NoState /\ (Alone \/ Undisturbed) =>
                      stored'.next >= stored.next /\ stored.failed \subseteq stored'.failed
<1>1. SInv /\ [Next]_vars => [Kept]_stored
    <2> SUFFICES ASSUME SInv, [Next]_vars, stored' # stored, stored # NoState, Orderly
                 PROVE  stored'.next >= stored.next /\ stored.failed \subseteq stored'.failed
        BY DEF Orderly
    <2>1. PICK m \in Runs : stored' = mem[m] /\ pc[m] \in {"init", "decide", "fill"}
        BY DEF Next, MasterStep, SlaveStep, SlaveSucceeds, SlaveFails, SlaveRetried, vars,
               Load, InitSave, Refresh, RefreshSeeing, Settle, OutOfTime, StartFill, SubmitChunk,
               SaveRound, ConcurrencyLimit, SaveAndSleep, Retrigger, ClosePassed, CloseCompleted,
               CloseFailed, Abort, PoolRetry
    <2>2. Ahead(pc[m], mem[m], stored)
        BY DEF SInv, InOrder
    <2>3. mem[m] \in DispatchState /\ stored \in DispatchState
        BY DEF SInv, IInv, TypeOK
    <2>4. stored.next <= mem[m].next /\ stored.failed \subseteq mem[m].failed
        BY <2>1, <2>2 DEF Ahead, Saved
    <2>5. QED
        BY <2>1, <2>3, <2>4 DEF DispatchState
<1>2. QED
    BY <1>1, OneAtATime, PTL DEF Spec, ProgressNeverLost
============================================================================
