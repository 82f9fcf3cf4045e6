------------------------ MODULE ScalingServiceProofs ------------------------
(***************************************************************************)
(* Proofs about ScalingService, for any number of mains, workers and       *)
(* executions and any number of crashes, stalls and handovers.             *)
(***************************************************************************)
EXTENDS ScalingService, TLAPS

USE QueueAssumption, ScalingAssumption

-----------------------------------------------------------------------------
(* Types                                                                     *)

\* The variables have their types at first.
LEMMA TypeInit == Init => TypeOK
  BY DEF Init, TypeOK, QueueInit, WorkerInit, QueueTypeOK, WorkerTypeOK, JobState, InProgress, Final,
         RowStatus, Phase, MainPhase, RecoveryPhase, Recovery

\* The saves, written out.
LEMMA Saves ==
  /\ DOMAIN Saving = {"success", "error", "canceled", "waiting"}
  /\ Saving["success"] = "saving success" /\ Saving["error"] = "saving error"
  /\ Saving["canceled"] = "saving canceled" /\ Saving["waiting"] = "saving waiting"
  /\ DOMAIN Resaving = {"error", "canceled"}
  /\ Resaving["error"] = "resaving error" /\ Resaving["canceled"] = "resaving canceled"
  BY DEF Saving, Resaving

\* Phase, with the saves written out.
LEMMA PhaseElements ==
  Phase = {"idle", "picked", "loaded", "starting", "running", "issues", "skipped", "failing",
           "saved", "saved canceled", "ended", "saving success", "saving error",
           "saving canceled", "saving waiting", "resaving error", "resaving canceled"}
  BY Saves DEF Phase

\* What the engine has come to when it catches something.
LEMMA CaughtSteps ==
  ASSUME NEW w \in Worker, NEW e \in Execution, Caught(w, e)
  PROVE  \E from \in {"running", "saving success", "saving error", "saving canceled",
                      "saving waiting", "saved", "saved canceled"},
           to \in {"resaving error", "resaving canceled"} :
           /\ Step(w, e, from, to)
           /\ (from = "saved" /\ <<w, e>> \notin cancelled) => to = "resaving error"
  BY Saves DEF Caught, Saved

\* From phase to phase.
LEMMA StepType ==
  ASSUME WorkerTypeOK, NEW w \in Worker, NEW e \in Execution, NEW from, NEW to \in Phase,
         Step(w, e, from, to)
  PROVE  work' \in [Worker -> [Execution -> Phase]]
  BY DEF WorkerTypeOK, Step

\* A worker keeps the types.
LEMMA TypeWorker ==
  ASSUME TypeOK, NEW w \in Worker, WorkerStep(w), UNCHANGED <<mainVars, leaderVars>>
  PROVE  TypeOK'
<1>1. ASSUME QueueTypeOK', WorkerTypeOK' PROVE TypeOK'
  BY <1>1 DEF TypeOK, mainVars, leaderVars
<1>2. QueueTypeOK /\ WorkerTypeOK
  BY DEF TypeOK
<1>3. ASSUME NEW e \in Execution, PickUp(w, e) PROVE TypeOK'
  <2>1. "picked" \in Phase  BY PhaseElements
  <2>2. WorkerTypeOK'  BY <1>2, <1>3, <2>1, StepType DEF PickUp, WorkerTypeOK
  <2>3. QueueTypeOK'  BY <1>2, <1>3 DEF PickUp, QueueTypeOK, JobState
  <2> QED BY <1>1, <2>2, <2>3
<1>4. ASSUME NEW e \in Execution, UNCHANGED queueVars, UNCHANGED <<cancelled, cancelSaves, runs>>,
             ReadRow(w, e) \/ EndRun(w, e) \/ Caught(w, e)
      PROVE  TypeOK'
  <2>1. {"skipped", "loaded", "failing", "ended", "saving success", "saving error",
         "saving canceled", "saving waiting", "resaving error", "resaving canceled"} \subseteq Phase
    BY PhaseElements
  <2>2. ASSUME ReadRow(w, e) PROVE work' \in [Worker -> [Execution -> Phase]]
    BY <1>2, <2>1, <2>2, StepType DEF ReadRow
  <2>3. ASSUME EndRun(w, e) PROVE work' \in [Worker -> [Execution -> Phase]]
    BY <1>2, <2>1, <2>3, StepType, Saves DEF EndRun
  <2>4. ASSUME Caught(w, e) PROVE work' \in [Worker -> [Execution -> Phase]]
    BY <1>2, <2>1, <2>4, StepType, CaughtSteps
  <2>5. WorkerTypeOK'  BY <1>2, <1>4, <2>2, <2>3, <2>4 DEF WorkerTypeOK
  <2>6. QueueTypeOK'  BY <1>2, <1>4 DEF queueVars, QueueTypeOK
  <2> QED BY <1>1, <2>5, <2>6
<1>5. ASSUME NEW e \in Execution, SetRunning(w, e) PROVE TypeOK'
  <2>1. {"starting", "failing"} \subseteq Phase  BY PhaseElements
  <2>2. WorkerTypeOK'  BY <1>2, <1>5, <2>1, StepType DEF SetRunning, WorkerTypeOK
  <2>3. QueueTypeOK'  BY <1>2, <1>5 DEF SetRunning, WriteRow, QueueTypeOK, RowStatus, InProgress
  <2> QED BY <1>1, <2>2, <2>3
<1>6. ASSUME NEW e \in Execution, StartRun(w, e) PROVE TypeOK'
  <2>1. {"running", "issues", "failing"} \subseteq Phase  BY PhaseElements
  <2>2. work' \in [Worker -> [Execution -> Phase]]
    BY <1>2, <1>6, <2>1, StepType DEF StartRun
  <2>3. runs' \in [Execution -> Nat]
    BY <1>2, <1>6 DEF StartRun, WorkerTypeOK
  <2>4. WorkerTypeOK'  BY <1>2, <1>6, <2>2, <2>3 DEF StartRun, WorkerTypeOK
  <2>5. QueueTypeOK'  BY <1>2, <1>6 DEF StartRun, queueVars, QueueTypeOK
  <2> QED BY <1>1, <2>4, <2>5
<1>7. ASSUME NEW e \in Execution, Save(w, e) \/ Resave(w, e) PROVE TypeOK'
  <2>1. {"saved", "saved canceled", "ended", "skipped", "failing"} \subseteq Phase
    BY PhaseElements
  <2>2. \A o \in DOMAIN Saving : Saved(o) \in Phase  BY <2>1 DEF Saved
  <2>3. work' \in [Worker -> [Execution -> Phase]]
    BY <1>2, <1>7, <2>1, <2>2, StepType DEF Save, Resave
  <2>4. WorkerTypeOK'  BY <1>2, <1>7, <2>3 DEF Save, Resave, WorkerTypeOK
  <2>5. DOMAIN Saving \cup DOMAIN Resaving \subseteq RowStatus
    BY Saves DEF RowStatus, Final
  <2>6. QueueTypeOK'
    BY <1>2, <1>7, <2>5, Saves DEF Save, Resave, LastWrite, WriteRow, QueueTypeOK
  <2> QED BY <1>1, <2>4, <2>6
<1>8. ASSUME NEW e \in Execution, Return(w, e) \/ Throw(w, e) PROVE TypeOK'
  <2>1. {"idle", "failing"} \subseteq Phase  BY PhaseElements
  <2>2. WorkerTypeOK'  BY <1>2, <1>8, <2>1, StepType DEF Return, Throw, Through, WorkerTypeOK
  <2>3. QueueTypeOK'  BY <1>2, <1>8 DEF Return, Throw, Leave, QueueTypeOK, JobState
  <2> QED BY <1>1, <2>2, <2>3
<1>9. ASSUME NEW e \in Execution, StopJob(w, e) PROVE TypeOK'
  <2>2. WorkerTypeOK'  BY <1>2, <1>9 DEF StopJob, WorkerTypeOK
  <2>3. QueueTypeOK'  BY <1>2, <1>9 DEF StopJob, QueueTypeOK
  <2> QED BY <1>1, <2>2, <2>3
<1>10. ASSUME NEW e \in Execution, SaveCanceled(w, e) PROVE TypeOK'
  <2>1. WorkerTypeOK'  BY <1>2, <1>10 DEF SaveCanceled, WorkerTypeOK
  <2>2. QueueTypeOK'  BY <1>2, <1>10 DEF SaveCanceled, LastWrite, WriteRow, QueueTypeOK, RowStatus, Final
  <2> QED BY <1>1, <2>1, <2>2
<1>11. ASSUME WorkerCrash(w) PROVE TypeOK'
  <2>1. "idle" \in Phase  BY PhaseElements
  <2>2. WorkerTypeOK'  BY <1>2, <1>11, <2>1 DEF WorkerCrash, WorkerTypeOK
  <2>3. QueueTypeOK'  BY <1>2, <1>11 DEF WorkerCrash, Dies, QueueTypeOK
  <2> QED BY <1>1, <2>2, <2>3
<1>12. ASSUME NEW e \in Execution, SaveProgress(w, e) PROVE TypeOK'
  <2>1. WorkerTypeOK'  BY <1>2, <1>12 DEF SaveProgress, workerVars, WorkerTypeOK
  <2>2. QueueTypeOK'
    BY <1>2, <1>12 DEF SaveProgress, WriteRow, QueueTypeOK, RowStatus, InProgress
  <2> QED BY <1>1, <2>1, <2>2
<1> QED
  BY <1>3, <1>4, <1>5, <1>6, <1>7, <1>8, <1>9, <1>10, <1>11, <1>12
  DEF WorkerStep, Proceed, ReadRow, EndRun, Caught

\* The mains keep the types.
LEMMA TypeMain == ASSUME TypeOK, MainStep PROVE TypeOK'
<1> DEFINE Cycle == [phase : RecoveryPhase, ids : SUBSET Execution]
<1>1. QueueTypeOK /\ WorkerTypeOK
  BY DEF TypeOK
<1>2. ASSUME UNCHANGED workerVars PROVE WorkerTypeOK'
  BY <1>1, <1>2 DEF workerVars, WorkerTypeOK
<1>3. ASSUME UNCHANGED queueVars PROVE QueueTypeOK'
  BY <1>1, <1>3 DEF queueVars, QueueTypeOK
<1>4. ASSUME NEW m \in Main, NEW e \in Execution, AddExecution(m, e) PROVE TypeOK'
  <2>1. QueueTypeOK'  BY <1>1, <1>4 DEF AddExecution, WriteRow, QueueTypeOK, RowStatus, InProgress
  <2> QED BY <1>2, <1>4, <2>1 DEF AddExecution, TypeOK, leaderVars, MainPhase
<1>5. ASSUME NEW e \in Execution, AddJob(e) PROVE TypeOK'
  <2>1. QueueTypeOK'  BY <1>1, <1>5 DEF AddJob, QueueTypeOK, JobState
  <2> QED
    BY <1>2, <1>5, <2>1, ZenonT(60) DEF AddJob, ProcessError, Goes, TypeOK, leaderVars, MainPhase
<1>6. ASSUME NEW e \in Execution, Attach(e) PROVE TypeOK'
  BY <1>2, <1>3, <1>6 DEF Attach, ProcessError, Goes, TypeOK, leaderVars, MainPhase
<1>7. ASSUME NEW e \in Execution, JobCompleted(e) \/ FinalizeFailed(e) PROVE TypeOK'
  BY <1>2, <1>3, <1>7 DEF JobCompleted, FinalizeFailed, Goes, TypeOK, leaderVars, MainPhase
<1>8. ASSUME NEW e \in Execution, JobFailed(e) PROVE TypeOK'
  BY <1>2, <1>3, <1>8 DEF JobFailed, ProcessError, Goes, TypeOK, leaderVars, MainPhase
<1>9. ASSUME NEW e \in Execution, SaveError(e) PROVE TypeOK'
  <2>1. QueueTypeOK'  BY <1>1, <1>9 DEF SaveError, LastWrite, WriteRow, QueueTypeOK, RowStatus, Final
  <2> QED BY <1>2, <1>9, <2>1 DEF SaveError, Goes, TypeOK, leaderVars, MainPhase
<1>10. ASSUME NEW e \in Execution, StopRequest(e) \/ StopExecution(e) PROVE TypeOK'
  BY <1>2, <1>3, <1>10 DEF StopRequest, StopExecution, TypeOK, leaderVars
<1>11. ASSUME NEW e \in Execution, StopDuringRun(e) PROVE TypeOK'
  <2>1. QueueTypeOK'  BY <1>1, <1>11 DEF StopDuringRun, LastWrite, WriteRow, QueueTypeOK, RowStatus, Final
  <2> QED BY <1>2, <1>11, <2>1 DEF StopDuringRun, TypeOK, leaderVars
<1>12. ASSUME NEW e \in Execution, StopActiveOrInactive(e) PROVE TypeOK'
  <2>1. QueueTypeOK'
    BY <1>1, <1>12 DEF StopActiveOrInactive, Cancels, QueueTypeOK, JobState
  <2> QED BY <1>2, <1>12, <2>1 DEF StopActiveOrInactive, Cancels, TypeOK, leaderVars
<1>13. ASSUME NEW m \in Main, LeaderTakeover(m) \/ LeaderStepdown(m) PROVE TypeOK'
  <2>1. Recovery("armed", {}) \in Cycle /\ Recovery("off", {}) \in Cycle
    BY DEF Recovery, RecoveryPhase
  <2>2. recovery \in [Main -> Cycle]
    BY DEF TypeOK
  <2>3. recovery' \in [Main -> Cycle]
    BY <1>13, <2>1, <2>2, Zenon DEF LeaderTakeover, LeaderStepdown
  <2> HIDE DEF Cycle
  <2>4. leader' \in Main \cup {None} /\ handovers' \in 0..MaxHandovers
    BY <1>13 DEF LeaderTakeover, LeaderStepdown, TypeOK
  <2> QED
    BY <1>2, <1>3, <1>13, <2>3, <2>4
    DEF LeaderTakeover, LeaderStepdown, TypeOK, mainVars, Cycle
<1>14. ASSUME NEW m \in Main, RecoverFromQueue(m) PROVE TypeOK'
  <2>1. QueueTypeOK'
    BY <1>1, <1>14 DEF RecoverFromQueue, ReadRows, ReadJobs, MarkAsCrashed, Recovers, QueueTypeOK,
                       RowStatus, Final
  <2>2. recovery \in [Main -> Cycle]
    BY DEF TypeOK
  <2>3. ASSUME NEW to \in RecoveryPhase, NEW ids \in SUBSET Execution
        PROVE  Recovery(to, ids) \in Cycle
    BY DEF Recovery
  <2>4. {"armed", "read rows", "read jobs"} \subseteq RecoveryPhase
    BY DEF RecoveryPhase
  <2>5. recovery[m].ids \subseteq Execution
    BY <2>2
  <2> HIDE DEF Cycle
  <2>6. recovery' \in [Main -> Cycle]
    <3>1. CASE ReadRows(m)
      BY <2>2, <2>3, <2>4, <3>1 DEF ReadRows, Recovers
    <3>2. CASE ReadJobs(m)
      <4> DEFINE ids == {e \in recovery[m].ids : job[e] \notin {"active", "waiting"}}
                 to == IF ids = {} THEN "armed" ELSE "read jobs"
      <4>1. ids \subseteq Execution /\ to \in RecoveryPhase
        BY <2>4, <2>5
      <4>2. recovery' = [recovery EXCEPT ![m] = Recovery(to, ids)]
        BY <3>2 DEF ReadJobs, Recovers
      <4> QED BY <2>2, <2>3, <4>1, <4>2
    <3>3. CASE MarkAsCrashed(m)
      BY <2>2, <2>3, <2>4, <3>3 DEF MarkAsCrashed, Recovers
    <3> QED BY <1>14, <3>1, <3>2, <3>3 DEF RecoverFromQueue
  <2> QED
    BY <1>2, <1>14, <2>1, <2>6
    DEF RecoverFromQueue, ReadRows, ReadJobs, MarkAsCrashed, Recovers, TypeOK, mainVars, Cycle
<1>15. ASSUME NEW m \in Main, MainCrash(m) PROVE TypeOK'
  <2>1. QueueTypeOK'  BY <1>1, <1>15 DEF MainCrash, Dies, QueueTypeOK
  <2> QED BY <1>2, <1>15, <2>1 DEF MainCrash, Recovery, TypeOK, MainPhase, RecoveryPhase
<1> QED
  BY <1>4, <1>5, <1>6, <1>7, <1>8, <1>9, <1>10, <1>11, <1>12, <1>13, <1>14, <1>15
  DEF MainStep, Await

\* The variables have their types, in every reachable state.
THEOREM TypeCorrect == Spec => []TypeOK
<1>1. TypeOK /\ [Next]_vars => TypeOK'
  <2> SUFFICES ASSUME TypeOK, [Next]_vars PROVE TypeOK'
    OBVIOUS
  <2>1. CASE MainStep
    BY <2>1, TypeMain
  <2>2. ASSUME NEW w \in Worker, WorkerStep(w), UNCHANGED <<mainVars, leaderVars>> PROVE TypeOK'
    BY <2>2, TypeWorker
  <2>3. ASSUME NEW e \in Execution, Stall(e), UNCHANGED <<workerVars, mainVars, leaderVars>>
        PROVE  TypeOK'
    BY <2>3
    DEF Stall, LockExpires, TypeOK, QueueTypeOK, WorkerTypeOK, workerVars, mainVars, leaderVars,
        JobState
  <2>4. CASE UNCHANGED vars
    BY <2>4 DEF vars, queueVars, workerVars, mainVars, leaderVars, TypeOK, QueueTypeOK, WorkerTypeOK
  <2> QED BY <2>1, <2>2, <2>3, <2>4 DEF Next
<1> QED BY TypeInit, <1>1, PTL DEF Spec

-----------------------------------------------------------------------------
(* One run                                                                   *)

\* A job goes one way, and with it what workers do for the execution: before it is
\* taken nobody has begun, and whoever is not yet running is the first.
RunInv(e) ==
  /\ main[e] \in {"none", "created"} => job[e] = "none"
  /\ job[e] \in {"none", "waiting"} =>
       runs[e] = 0 /\ \A w \in Worker : work[w][e] = "idle"
  /\ \A w \in Worker : work[w][e] \in {"picked", "loaded", "starting"} => runs[e] = 0
  /\ \A v, w \in Worker : v = w \/ work[v][e] = "idle" \/ work[w][e] = "idle"
  /\ runs[e] <= 1

RunIInv == TypeOK /\ \A e \in Execution : RunInv(e)

LEMMA RunInit == Init => \A e \in Execution : RunInv(e)
  BY DEF Init, QueueInit, WorkerInit, RunInv

\* A step of a worker for one execution.
LEMMA RunWorker ==
  ASSUME RunIInv, NEW w \in Worker, WorkerStep(w), UNCHANGED <<mainVars, leaderVars>>
  PROVE  \A d \in Execution : RunInv(d)'
<1>1. /\ work \in [Worker -> [Execution -> Phase]] /\ runs \in [Execution -> Nat]
      /\ job \in [Execution -> JobState] /\ UNCHANGED main
      /\ \A e \in Execution : RunInv(e)
  BY DEF RunIInv, TypeOK, QueueTypeOK, WorkerTypeOK, mainVars
<1> SUFFICES ASSUME NEW d \in Execution PROVE RunInv(d)'
  OBVIOUS
<1>2. ASSUME NEW e \in Execution, PickUp(w, e) PROVE RunInv(d)'
  BY <1>1, <1>2 DEF PickUp, Step, RunInv
<1>3. ASSUME NEW e \in Execution, ReadRow(w, e) PROVE RunInv(d)'
  BY <1>1, <1>3 DEF ReadRow, Step, RunInv, queueVars
<1>4. ASSUME NEW e \in Execution, SetRunning(w, e) PROVE RunInv(d)'
  BY <1>1, <1>4 DEF SetRunning, Step, RunInv
<1>5. ASSUME NEW e \in Execution, StartRun(w, e) PROVE RunInv(d)'
  BY <1>1, <1>5 DEF StartRun, Step, RunInv, queueVars
<1>6. ASSUME NEW e \in Execution, NEW from \in Phase \ {"idle"}, NEW to,
             to \notin {"picked", "loaded", "starting"},
             Step(w, e, from, to), UNCHANGED runs, job' = job \/ Leave(w, e, "completed") \/ Leave(w, e, "failed")
      PROVE  RunInv(d)'
  BY <1>1, <1>6 DEF Step, Leave, RunInv
<1>7. {"running", "issues", "skipped", "failing", "saved", "saved canceled", "ended",
       "saving success", "saving error", "saving canceled", "saving waiting", "resaving error",
       "resaving canceled"} \subseteq Phase \ {"idle"}
  BY PhaseElements
<1>8. ASSUME NEW e \in Execution, EndRun(w, e) \/ Caught(w, e) PROVE RunInv(d)'
  <2>1. UNCHANGED <<runs, job>>
    BY <1>8 DEF EndRun, Caught, queueVars
  <2>2. CASE EndRun(w, e)
    <3>1. \E to \in {"ended", "saving success", "saving error", "saving canceled", "saving waiting"} :
            Step(w, e, "running", to)
      BY <2>2, Saves DEF EndRun
    <3> QED BY <1>6, <1>7, <2>1, <3>1
  <2>3. CASE Caught(w, e)
    BY <1>6, <1>7, <2>1, <2>3, CaughtSteps
  <2> QED BY <1>8, <2>2, <2>3
<1>9. ASSUME NEW e \in Execution, Save(w, e) \/ Resave(w, e) PROVE RunInv(d)'
  <2>1. UNCHANGED <<runs, job>>
    BY <1>9 DEF Save, Resave
  <2>2. \E from \in Phase \ {"idle"}, to \in {"saved", "saved canceled", "ended", "skipped", "failing"} :
          Step(w, e, from, to)
    BY <1>7, <1>9, Saves DEF Save, Resave, Saved
  <2> QED BY <1>6, <2>1, <2>2
<1>10. ASSUME NEW e \in Execution, Return(w, e) \/ Throw(w, e) PROVE RunInv(d)'
  BY <1>6, <1>7, <1>10 DEF Return, Throw, Through
<1>12. ASSUME NEW e \in Execution, StopJob(w, e) \/ SaveCanceled(w, e) PROVE RunInv(d)'
  BY <1>1, <1>12 DEF StopJob, SaveCanceled, RunInv
<1>13. ASSUME NEW e \in Execution, SaveProgress(w, e) PROVE RunInv(d)'
  BY <1>1, <1>13 DEF SaveProgress, workerVars, RunInv
<1>14. CASE WorkerCrash(w)
  BY <1>1, <1>14 DEF WorkerCrash, RunInv
<1> QED
  BY <1>2, <1>3, <1>4, <1>5, <1>8, <1>9, <1>10, <1>12, <1>13, <1>14
  DEF WorkerStep, Proceed

\* A main puts a job into the queue once, and takes it out only to end it.
LEMMA RunMain ==
  ASSUME RunIInv, MainStep
  PROVE  \A d \in Execution : RunInv(d)'
<1>1. /\ main \in [Execution -> MainPhase] /\ job \in [Execution -> JobState]
      /\ \A e \in Execution : RunInv(e)
  BY DEF RunIInv, TypeOK, QueueTypeOK
<1> SUFFICES ASSUME NEW d \in Execution PROVE RunInv(d)'
  OBVIOUS
<1>2. UNCHANGED <<work, runs>>
  BY DEF MainStep, AddExecution, Await, AddJob, Attach, JobCompleted, JobFailed, FinalizeFailed,
         SaveError, StopRequest, StopExecution, StopDuringRun, StopActiveOrInactive, Cancels,
         LeaderTakeover, LeaderStepdown, RecoverFromQueue, ReadRows, ReadJobs, MarkAsCrashed,
         Recovers, MainCrash, workerVars
<1>3. ASSUME NEW m \in Main, NEW e \in Execution, AddExecution(m, e) PROVE RunInv(d)'
  BY <1>1, <1>2, <1>3 DEF AddExecution, RunInv
<1>4. ASSUME NEW e \in Execution, AddJob(e) PROVE RunInv(d)'
  BY <1>1, <1>2, <1>4 DEF AddJob, ProcessError, Goes, RunInv
<1>5. ASSUME NEW e \in Execution, Await(e), ~AddJob(e) PROVE RunInv(d)'
  <2>1. UNCHANGED job
    BY <1>5 DEF Await, Attach, JobCompleted, JobFailed, FinalizeFailed, SaveError, queueVars
  <2>2. main'[d] = main[d] \/ main'[d] \notin {"none", "created"}
    BY <1>1, <1>5
    DEF Await, Attach, JobCompleted, JobFailed, ProcessError, FinalizeFailed, SaveError, Goes
  <2> QED BY <1>1, <1>2, <2>1, <2>2 DEF RunInv
<1>6. ASSUME NEW e \in Execution, StopRequest(e) \/ StopExecution(e) \/ StopDuringRun(e)
      PROVE  RunInv(d)'
  BY <1>1, <1>2, <1>6 DEF StopRequest, StopExecution, StopDuringRun, RunInv, queueVars
<1>7. ASSUME NEW e \in Execution, StopActiveOrInactive(e) PROVE RunInv(d)'
  BY <1>1, <1>2, <1>7 DEF StopActiveOrInactive, Cancels, RunInv
<1>8. ASSUME NEW m \in Main, LeaderTakeover(m) \/ LeaderStepdown(m) \/ RecoverFromQueue(m)
      PROVE  RunInv(d)'
  BY <1>1, <1>2, <1>8
  DEF LeaderTakeover, LeaderStepdown, RecoverFromQueue, ReadRows, ReadJobs, MarkAsCrashed, Recovers,
      RunInv, queueVars, mainVars
<1>9. ASSUME NEW m \in Main, MainCrash(m) PROVE RunInv(d)'
  BY <1>1, <1>2, <1>9 DEF MainCrash, RunInv
<1> QED BY <1>3, <1>4, <1>5, <1>6, <1>7, <1>8, <1>9 DEF MainStep

LEMMA RunStep ==
  ASSUME RunIInv, [Next]_vars
  PROVE  \A d \in Execution : RunInv(d)'
<1>1. CASE MainStep
  BY <1>1, RunMain
<1>2. ASSUME NEW w \in Worker, WorkerStep(w), UNCHANGED <<mainVars, leaderVars>>
      PROVE  \A d \in Execution : RunInv(d)'
  BY <1>2, RunWorker
<1>3. ASSUME NEW e \in Execution, Stall(e), UNCHANGED <<workerVars, mainVars, leaderVars>>
      PROVE  \A d \in Execution : RunInv(d)'
  BY <1>3 DEF Stall, LockExpires, RunIInv, RunInv, TypeOK, QueueTypeOK, workerVars, mainVars
<1>4. CASE UNCHANGED vars
  BY <1>4 DEF vars, queueVars, workerVars, mainVars, RunIInv, RunInv
<1> QED BY <1>1, <1>2, <1>3, <1>4 DEF Next

\* The code of an execution begins to run once at most.
THEOREM RunsOnceHolds == Spec => []RunsOnce
<1>1. Spec => []TypeOK
  BY TypeCorrect
<1>2. RunIInv => RunsOnce
  BY DEF RunIInv, RunInv, RunsOnce
<1>3. RunIInv /\ TypeOK' /\ [Next]_vars => RunIInv'
  BY RunStep DEF RunIInv
<1>4. Init /\ TypeOK => RunIInv
  BY RunInit DEF RunIInv
<1> QED BY <1>1, <1>2, <1>3, <1>4, PTL DEF Spec

-----------------------------------------------------------------------------
(* What settled means                                                        *)

\* The row says how the execution ended, or that it waits, or could not be saved.
Told(e) == row[e] \in Final \cup {"waiting"} \/ e \in unsaved

\* While nobody asks to stop it and its job does not stall, the job tells how far the
\* execution is: active as long as its worker is at it, completed only after a save.
SettleInv(e) ==
  /\ main[e] \in {"none", "created", "enqueued"} => e \notin awaited
  /\ stop[e] = "no" =>
       /\ canceling[e] = "no" /\ job[e] \notin {"aborted", "removed"}
       /\ \A w \in Worker : <<w, e>> \notin aborts \cup cancelled
       /\ job[e] # "stalled" =>
            /\ \A w \in Worker : work[w][e] # "idle" => job[e] = "active" /\ holder[e] = w
            /\ \A w \in Worker : work[w][e] \in Through \cup {"skipped"} => Told(e)
            /\ job[e] = "completed" => Told(e)
            /\ (e \in awaited /\ main[e] \in {"failed", "saving error"}) => job[e] = "failed"
            /\ (e \in awaited /\ main[e] = "done") => Told(e) /\ job[e] \in {"completed", "failed"}

SettleIInv == RunIInv /\ \A e \in Execution : SettleInv(e)

LEMMA SettleInit == Init => \A e \in Execution : SettleInv(e)
  BY DEF Init, QueueInit, WorkerInit, SettleInv, Through

LEMMA SettleWorker ==
  ASSUME SettleIInv, NEW w \in Worker, WorkerStep(w), UNCHANGED <<mainVars, leaderVars>>
  PROVE  \A d \in Execution : SettleInv(d)'
<1>1. /\ work \in [Worker -> [Execution -> Phase]] /\ holder \in [Execution -> Worker \cup {None}]
      /\ job \in [Execution -> JobState] /\ UNCHANGED <<main, awaited, stop, canceling>>
      /\ row \in [Execution -> RowStatus] /\ unsaved \subseteq Execution
      /\ cancelSaves \subseteq cancelled
      /\ \A e \in Execution : RunInv(e)
      /\ \A e \in Execution : SettleInv(e)
  BY DEF SettleIInv, RunIInv, TypeOK, QueueTypeOK, WorkerTypeOK, mainVars
<1> SUFFICES ASSUME NEW d \in Execution PROVE SettleInv(d)'
  OBVIOUS
<1>3. ASSUME NEW e \in Execution, PickUp(w, e) PROVE SettleInv(d)'
  <2>1. CASE d = e
    <3>1. /\ job[d] = "waiting" /\ job'[d] = "active" /\ holder'[d] = w
          /\ \A v \in Worker : v # w => work'[v][d] = "idle"
          /\ work'[w][d] = "picked"
      BY <1>1, <1>3, <2>1 DEF PickUp, Step, RunInv
    <3> QED BY <1>1, <1>3, <3>1 DEF PickUp, SettleInv, Through
  <2>2. CASE d # e
    <3>1. /\ job'[d] = job[d] /\ holder'[d] = holder[d]
          /\ \A v \in Worker : work'[v][d] = work[v][d]
      BY <1>1, <1>3, <2>2 DEF PickUp, Step
    <3> QED BY <1>1, <1>3, <3>1 DEF PickUp, SettleInv, Told
  <2> QED BY <2>1, <2>2
\* A worker goes on; if it is through with the run then, it has told so.
<1>4. ASSUME NEW e \in Execution, NEW from, NEW to, from # "idle",
             stop[e] = "no" /\ to \in Through \cup {"skipped"} => Told(e)',
             Step(w, e, from, to), UNCHANGED <<job, holder, aborts, cancelled>>,
             \/ UNCHANGED <<row, unsaved>>
             \/ Told(e)' /\ \A f \in Execution \ {e} : Told(f)' = Told(f)
      PROVE  SettleInv(d)'
  <2>1. CASE d = e
    BY <1>1, <1>4, <2>1 DEF Step, SettleInv, Told
  <2>2. CASE d # e
    BY <1>1, <1>4, <2>2 DEF Step, SettleInv, Told
  <2> QED BY <2>1, <2>2
<1>5. ASSUME NEW e \in Execution, ReadRow(w, e) PROVE SettleInv(d)'
  <2>1. \E to \in {"skipped", "loaded", "failing"} :
          Step(w, e, "picked", to) /\ (to = "skipped" => row[e] = "crashed")
    BY <1>5 DEF ReadRow
  <2> QED BY <1>4, <1>5, <2>1 DEF ReadRow, queueVars, Through, Told, Final
<1>6. ASSUME NEW e \in Execution, StartRun(w, e) PROVE SettleInv(d)'
  BY <1>4, <1>6 DEF StartRun, queueVars, Through
<1>7. ASSUME NEW e \in Execution, EndRun(w, e) PROVE SettleInv(d)'
  <2>1. stop[e] = "no" => <<w, e>> \notin cancelled
    BY <1>1 DEF SettleInv
  <2>2. CASE <<w, e>> \in cancelled
    BY <1>4, <1>7, <2>1, <2>2 DEF EndRun, queueVars
  <2>3. CASE <<w, e>> \notin cancelled
    <3>1. \E to \in {"saving success", "saving error", "saving canceled", "saving waiting"} :
            Step(w, e, "running", to)
      BY <1>7, <2>3, Saves DEF EndRun
    <3> QED BY <1>4, <1>7, <3>1 DEF EndRun, queueVars, Through
  <2> QED BY <2>2, <2>3
<1>8. ASSUME NEW e \in Execution, Caught(w, e) PROVE SettleInv(d)'
  BY <1>4, <1>8, CaughtSteps DEF Caught, queueVars, Through
<1>9. ASSUME NEW e \in Execution, SetRunning(w, e) PROVE SettleInv(d)'
  <2>1. CASE Step(w, e, "loaded", "starting") /\ WriteRow(e, "running")
    <3>1. \A v \in Worker : v # w => work[v][e] = "idle"
      BY <1>1, <2>1 DEF Step, RunInv
    <3>2. CASE d = e
      <4>1. /\ work[w][d] = "loaded" /\ work'[w][d] = "starting"
            /\ \A v \in Worker : v # w => work'[v][d] = "idle"
        BY <1>1, <2>1, <3>1, <3>2 DEF Step
      <4>2. stop[d] = "no" /\ job[d] # "stalled" => job[d] = "active" /\ holder[d] = w
        BY <1>1, <4>1 DEF SettleInv
      <4>3. UNCHANGED <<job, holder, aborts, cancelled>>
        BY <1>9 DEF SetRunning
      <4> QED BY <1>1, <4>1, <4>2, <4>3 DEF SettleInv, Through
    <3>3. CASE d # e
      <4>1. row'[d] = row[d] /\ \A v \in Worker : work'[v][d] = work[v][d]
        BY <1>1, <2>1, <3>3 DEF Step, WriteRow
      <4> QED BY <1>1, <1>9, <4>1 DEF SetRunning, SettleInv, Told
    <3> QED BY <3>2, <3>3
  <2>2. CASE Step(w, e, "loaded", "failing") /\ UNCHANGED row
    BY <1>4, <1>9, <2>2 DEF SetRunning, Through
  <2> QED BY <1>9, <2>1, <2>2 DEF SetRunning
\* A last write tells how the execution is.
<1>10. ASSUME NEW e \in Execution, NEW status \in Final \cup {"waiting"},
              (WriteRow(e, status) /\ UNCHANGED unsaved) \/ LastWrite(e, status)
       PROVE  Told(e)' /\ \A f \in Execution \ {e} : Told(f)' = Told(f)
  BY <1>1, <1>10 DEF LastWrite, WriteRow, Told
<1>11. ASSUME NEW e \in Execution, Save(w, e) PROVE SettleInv(d)'
  <2>1. UNCHANGED <<unsaved, job, holder, aborts, cancelled>>
    BY <1>11 DEF Save
  <2>2. CASE Step(w, e, "issues", "failing") /\ UNCHANGED row
    BY <1>4, <2>1, <2>2 DEF Through
  <2>3. CASE ~(Step(w, e, "issues", "failing") /\ UNCHANGED row)
    <3>1. \E from \in Phase \ {"idle"}, to \in Phase, status \in Final \cup {"waiting"} :
            Step(w, e, from, to) /\ WriteRow(e, status)
      <4>1. /\ {"issues", "saving success", "saving error", "saving canceled", "saving waiting"}
                  \subseteq Phase \ {"idle"}
            /\ {"skipped", "failing"} \subseteq Phase
            /\ \A o \in DOMAIN Saving : Saved(o) \in Phase
        BY PhaseElements DEF Saved
      <4>2. DOMAIN Saving \subseteq Final \cup {"waiting"} /\ "error" \in Final
        BY Saves DEF Final
      <4>3. CASE \E o \in DOMAIN Saving : Step(w, e, Saving[o], Saved(o)) /\ WriteRow(e, o)
        BY <4>1, <4>2, <4>3, Saves
      <4>4. CASE \E to \in {"skipped", "failing"} : Step(w, e, "issues", to) /\ WriteRow(e, "error")
        BY <4>1, <4>2, <4>4
      <4> QED BY <1>11, <2>3, <4>3, <4>4 DEF Save
    <3> QED BY <1>4, <1>10, <2>1, <3>1
  <2> QED BY <2>2, <2>3
<1>12. ASSUME NEW e \in Execution, Resave(w, e) PROVE SettleInv(d)'
  <2>1. \E from \in Phase \ {"idle"}, status \in Final :
          Step(w, e, from, "ended") /\ LastWrite(e, status)
    BY <1>12, PhaseElements, Saves DEF Resave, Final
  <2> QED BY <1>4, <1>10, <1>12, <2>1 DEF Resave
\* The worker leaves its job, when it has told or the job has failed.
<1>13. ASSUME NEW e \in Execution, NEW from, NEW state \in {"completed", "failed"},
              from # "idle", state = "completed" => from \in Through \cup {"skipped"},
              Step(w, e, from, "idle"), Leave(w, e, state),
              UNCHANGED <<row, unsaved, holder, aborts, cancelled>>
       PROVE  SettleInv(d)'
  <2>1. \A v \in Worker : v # w => work[v][e] = "idle"
    BY <1>1, <1>13 DEF Step, RunInv
  <2>2. d # e => SettleInv(d)'
    BY <1>1, <1>13 DEF Step, Leave, SettleInv, Told
  <2>3. ASSUME d = e PROVE SettleInv(d)'
    <3>1. work'[w][d] = "idle" /\ \A v \in Worker : work'[v][d] = "idle"
      BY <1>1, <1>13, <2>1, <2>3 DEF Step
    <3>2. Told(d)' = Told(d) /\ aborts' = aborts /\ cancelled' = cancelled
      BY <1>13 DEF Told
    <3>3. work[w][d] = from
      BY <1>13, <2>3 DEF Step
    <3>4. job'[d] = IF job[d] = "active" /\ holder[d] = w THEN state ELSE job[d]
      BY <1>1, <1>13, <2>3 DEF Leave
    <3>5. SettleInv(d)
      BY <1>1
    <3> HIDE DEF Told
    <3>6. "idle" \notin Through \cup {"skipped"}
      BY DEF Through
    <3> QED BY <1>1, <1>13, <3>1, <3>2, <3>3, <3>4, <3>5, <3>6 DEF SettleInv
  <2> QED BY <2>2, <2>3
<1>14. ASSUME NEW e \in Execution, Return(w, e) \/ Throw(w, e) PROVE SettleInv(d)'
  <2>1. CASE \E from \in Through : Step(w, e, from, "failing") /\ UNCHANGED job
    BY <1>4, <1>14, <2>1 DEF Return, Throw, Through
  <2>2. CASE ~ \E from \in Through : Step(w, e, from, "failing") /\ UNCHANGED job
    BY <1>13, <1>14, <2>2 DEF Return, Throw, Through
  <2> QED BY <2>1, <2>2
<1>15. ASSUME NEW e \in Execution, StopJob(w, e) PROVE SettleInv(d)'
  <2>1. stop[e] # "no"
    BY <1>1, <1>15 DEF StopJob, SettleInv
  <2>2. \A v \in Worker : <<v, d>> \in aborts' \cup cancelled'
                           => <<v, d>> \in aborts \cup cancelled \/ d = e
    BY <1>15 DEF StopJob
  <2> QED BY <1>1, <1>15, <2>1, <2>2 DEF StopJob, SettleInv, Told
<1>16. ASSUME NEW e \in Execution, SaveCanceled(w, e) PROVE SettleInv(d)'
  <2>1. Told(d) => Told(d)'
    BY <1>1, <1>16 DEF SaveCanceled, LastWrite, WriteRow, Told, Final
  <2> QED BY <1>1, <1>16, <2>1 DEF SaveCanceled, SettleInv
<1>17. CASE WorkerCrash(w)
  BY <1>1, <1>17 DEF WorkerCrash, SettleInv, Told, Through
\* Who saves its progress has the job, and is alone at it.
<1>18. ASSUME NEW e \in Execution, SaveProgress(w, e) PROVE SettleInv(d)'
  <2>1. CASE d = e
    <3>1. \A v \in Worker : work[v][d] \in {"idle", "running"}
      BY <1>1, <1>18, <2>1 DEF SaveProgress, RunInv
    <3>2. stop[d] = "no" /\ job[d] # "stalled" => job[d] = "active"
      BY <1>1, <1>18, <2>1 DEF SaveProgress, SettleInv
    <3> QED BY <1>1, <1>18, <3>1, <3>2 DEF SaveProgress, workerVars, SettleInv, Through
  <2>2. CASE d # e
    <3>1. row'[d] = row[d]
      BY <1>1, <1>18, <2>2 DEF SaveProgress, WriteRow
    <3> QED BY <1>1, <1>18, <3>1 DEF SaveProgress, workerVars, SettleInv, Told
  <2> QED BY <2>1, <2>2
<1> QED
  BY <1>3, <1>5, <1>6, <1>7, <1>8, <1>9, <1>11, <1>12, <1>14, <1>15, <1>16, <1>17, <1>18
  DEF WorkerStep, Proceed

LEMMA SettleMain ==
  ASSUME SettleIInv, MainStep
  PROVE  \A d \in Execution : SettleInv(d)'
<1>1. /\ main \in [Execution -> MainPhase] /\ job \in [Execution -> JobState]
      /\ row \in [Execution -> RowStatus] /\ unsaved \subseteq Execution
      /\ stop \in [Execution -> {"no", "read", "told", "written"}]
      /\ canceling \in [Execution -> {"no", "check", "abort", "fail", "remove"}]
      /\ \A e \in Execution : RunInv(e)
      /\ \A e \in Execution : SettleInv(e)
  BY DEF SettleIInv, RunIInv, TypeOK, QueueTypeOK
<1> SUFFICES ASSUME NEW d \in Execution PROVE SettleInv(d)'
  OBVIOUS
<1>2. UNCHANGED <<work, holder, cancelled>>
  BY DEF MainStep, AddExecution, Await, AddJob, Attach, JobCompleted, JobFailed, FinalizeFailed,
         SaveError, StopRequest, StopExecution, StopDuringRun, StopActiveOrInactive, Cancels,
         LeaderTakeover, LeaderStepdown, RecoverFromQueue, ReadRows, ReadJobs, MarkAsCrashed,
         Recovers, MainCrash, workerVars, queueVars
\* What a step does not touch.
<1> DEFINE Same == /\ Told(d) => Told(d)'
                   /\ job'[d] = job[d] /\ main'[d] = main[d]
                   /\ d \in awaited' <=> d \in awaited
                   /\ \A w \in Worker : <<w, d>> \in aborts' <=> <<w, d>> \in aborts
                   /\ stop'[d] = stop[d] /\ canceling'[d] = canceling[d]
<1>s. Same => SettleInv(d)'
  BY <1>1, <1>2 DEF SettleInv
<1>3. ASSUME NEW m \in Main, NEW e \in Execution, AddExecution(m, e) PROVE SettleInv(d)'
  <2>1. CASE d = e
    <3>1. /\ job[d] = "none" /\ UNCHANGED <<job, awaited, aborts, stop, canceling>>
          /\ main[d] = "none" /\ main'[d] = "created"
          /\ \A w \in Worker : work'[w][d] = "idle"
      BY <1>1, <1>2, <1>3, <2>1 DEF AddExecution, RunInv
    <3> QED BY <1>1, <1>2, <3>1 DEF SettleInv, Through
  <2>2. CASE d # e
    <3>1. Same
      BY <1>1, <1>3, <2>2 DEF AddExecution, WriteRow, Told
    <3> QED BY <1>s, <3>1
  <2> QED BY <2>1, <2>2
<1>4. ASSUME NEW e \in Execution, AddJob(e) PROVE SettleInv(d)'
  <2>1. CASE d = e
    <3>1. main[d] = "created" /\ UNCHANGED <<row, unsaved, stop, canceling, awaited, aborts>>
      BY <1>4, <2>1 DEF AddJob, ProcessError, Goes
    <3>2. job[d] = "none" /\ \A w \in Worker : work[w][d] = "idle"
      BY <1>1, <3>1 DEF RunInv
    <3>3. d \notin awaited
      BY <1>1, <3>1 DEF SettleInv
    <3>4. job'[d] \in {"none", "waiting"}
      BY <1>1, <1>4, <2>1, <3>2 DEF AddJob
    <3>5. \A w \in Worker : work'[w][d] = "idle"
      BY <1>2, <3>2
    <3> QED BY <1>1, <1>2, <3>1, <3>3, <3>4, <3>5 DEF SettleInv, Through
  <2>2. CASE d # e
    <3>1. Same
      BY <1>1, <1>4, <2>2 DEF AddJob, ProcessError, Goes, Told
    <3> QED BY <1>s, <3>1
  <2> QED BY <2>1, <2>2
\* A main goes on with an execution and touches neither row nor job.
<1>5. ASSUME NEW e \in Execution, UNCHANGED <<queueVars, canceling, stop>>,
             awaited' \subseteq awaited \cup {e}, awaited \subseteq awaited', NEW to, Goes(e, main[e], to),
             e \in awaited' => to \notin {"none", "created", "enqueued"},
             e \in awaited' /\ stop[e] = "no" /\ job[e] # "stalled" =>
               /\ to \in {"failed", "saving error"} => job[e] = "failed"
               /\ to = "done" => Told(e) /\ job[e] \in {"completed", "failed"}
      PROVE  SettleInv(d)'
  <2>1. CASE d = e
    <3>1. main'[d] = to /\ Told(d)' = Told(d) /\ UNCHANGED <<job, aborts>>
      BY <1>1, <1>5, <2>1 DEF Goes, queueVars, Told
    <3> HIDE DEF Told
    <3> QED BY <1>1, <1>2, <1>5, <2>1, <3>1 DEF SettleInv
  <2>2. CASE d # e
    <3>1. Same
      BY <1>1, <1>5, <2>2 DEF Goes, queueVars, Told
    <3> QED BY <1>s, <3>1
  <2> QED BY <2>1, <2>2
<1>6. ASSUME NEW e \in Execution, Attach(e) PROVE SettleInv(d)'
  <2>1. main[e] = "enqueued" /\ e \notin awaited
    BY <1>1, <1>6 DEF Attach, ProcessError, Goes, SettleInv
  <2>2. CASE Goes(e, "enqueued", "waiting") /\ awaited' = awaited \cup {e}
    BY <1>5, <1>6, <2>1, <2>2 DEF Attach
  <2>3. CASE ProcessError(e, "enqueued") /\ UNCHANGED awaited
    BY <1>5, <1>6, <2>1, <2>3 DEF Attach, ProcessError
  <2> QED BY <1>6, <2>2, <2>3 DEF Attach
<1>7. ASSUME NEW e \in Execution, JobCompleted(e) PROVE SettleInv(d)'
  <2>1. main[e] = "waiting" /\ job[e] = "completed"
    BY <1>7 DEF JobCompleted, Goes
  <2>2. stop[e] = "no" => Told(e)
    BY <1>1, <2>1 DEF SettleInv
  <2> QED BY <1>5, <1>7, <2>1, <2>2 DEF JobCompleted
<1>8. ASSUME NEW e \in Execution, JobFailed(e) PROVE SettleInv(d)'
  <2>1. main[e] = "waiting"
    BY <1>8 DEF JobFailed, ProcessError, Goes
  <2>2. CASE job[e] = "aborted" /\ Goes(e, "waiting", "done")
    <3>1. stop[e] # "no"
      BY <1>1, <2>2 DEF SettleInv
    <3> QED BY <1>5, <1>8, <2>1, <2>2, <3>1 DEF JobFailed
  <2>3. CASE job[e] \in {"failed", "stalled"} /\ ProcessError(e, "waiting")
    <3>1. row[e] = "success" => Told(e)
      BY DEF Told, Final
    <3>2. \E to \in {"done", "failed", "abandoned"} :
            Goes(e, main[e], to) /\ (to = "done" => row[e] = "success")
      BY <2>1, <2>3 DEF ProcessError
    <3> HIDE DEF Told
    <3> QED BY <1>5, <1>8, <2>3, <3>1, <3>2 DEF JobFailed
  <2> QED BY <1>8, <2>2, <2>3 DEF JobFailed
<1>9. ASSUME NEW e \in Execution, FinalizeFailed(e) PROVE SettleInv(d)'
  <2>1. main[e] = "failed"
    BY <1>9 DEF FinalizeFailed, Goes
  <2> QED BY <1>1, <1>5, <1>9, <2>1 DEF FinalizeFailed, SettleInv
<1>10. ASSUME NEW e \in Execution, SaveError(e) PROVE SettleInv(d)'
  <2>1. CASE d = e
    <3>1. /\ main[d] = "saving error" /\ main'[d] = "done" /\ Told(d)'
          /\ UNCHANGED <<job, awaited, aborts, stop, canceling>>
      BY <1>1, <1>10, <2>1 DEF SaveError, Goes, LastWrite, WriteRow, Told, Final
    <3> HIDE DEF Told
    <3> QED BY <1>1, <1>2, <3>1 DEF SettleInv
  <2>2. CASE d # e
    <3>1. Same
      BY <1>1, <1>10, <2>2 DEF SaveError, Goes, LastWrite, WriteRow, Told
    <3> QED BY <1>s, <3>1
  <2> QED BY <2>1, <2>2
<1>11. ASSUME NEW e \in Execution, StopRequest(e) \/ StopExecution(e) \/ StopDuringRun(e)
       PROVE  SettleInv(d)'
  <2>1. UNCHANGED <<job, main, awaited, aborts>>
    BY <1>11 DEF StopRequest, StopExecution, StopDuringRun, queueVars
  <2>2. CASE d = e
    <3>1. stop'[d] # "no"
      BY <1>1, <1>11, <2>2 DEF StopRequest, StopExecution, StopDuringRun
    <3> QED BY <1>1, <2>1, <3>1 DEF SettleInv
  <2>3. CASE d # e
    <3>1. Same
      BY <1>1, <1>11, <2>1, <2>3
      DEF StopRequest, StopExecution, StopDuringRun, LastWrite, WriteRow, Told, queueVars
    <3> QED BY <1>s, <3>1
  <2> QED BY <2>2, <2>3
<1>12. ASSUME NEW e \in Execution, StopActiveOrInactive(e) PROVE SettleInv(d)'
  <2>1. stop[e] # "no" /\ UNCHANGED <<row, unsaved, main, awaited, stop>>
    BY <1>1, <1>12 DEF StopActiveOrInactive, Cancels, SettleInv
  <2>2. CASE d = e
    BY <1>1, <2>1, <2>2 DEF SettleInv
  <2>3. CASE d # e
    <3>1. Same
      BY <1>1, <1>12, <2>1, <2>3 DEF StopActiveOrInactive, Cancels, Told
    <3> QED BY <1>s, <3>1
  <2> QED BY <2>2, <2>3
<1>13. ASSUME NEW m \in Main, LeaderTakeover(m) \/ LeaderStepdown(m) PROVE SettleInv(d)'
  <2>1. Same
    BY <1>13 DEF LeaderTakeover, LeaderStepdown, queueVars, mainVars, Told
  <2> QED BY <1>s, <2>1
<1>14. ASSUME NEW m \in Main, RecoverFromQueue(m) PROVE SettleInv(d)'
  <2>1. /\ UNCHANGED <<stop, canceling, job, main, awaited, aborts, unsaved>>
        /\ row'[d] = row[d] \/ row'[d] \in Final
    BY <1>1, <1>14
    DEF RecoverFromQueue, ReadRows, ReadJobs, MarkAsCrashed, Recovers, mainVars, Final
  <2>2. Same
    BY <2>1 DEF Told
  <2> QED BY <1>s, <2>2
<1>15. ASSUME NEW m \in Main, MainCrash(m) PROVE SettleInv(d)'
  <2>1. /\ UNCHANGED <<row, unsaved, job, awaited, aborts, stop>>
        /\ main'[d] = main[d] \/ main'[d] = "dead"
        /\ canceling'[d] = canceling[d] \/ canceling'[d] = "no"
    BY <1>1, <1>15 DEF MainCrash
  <2> QED BY <1>1, <1>2, <2>1 DEF SettleInv, Told
<1> QED
  BY <1>3, <1>4, <1>6, <1>7, <1>8, <1>9, <1>10, <1>11, <1>12, <1>13, <1>14, <1>15
  DEF MainStep, Await

LEMMA SettleStep ==
  ASSUME SettleIInv, [Next]_vars
  PROVE  \A d \in Execution : SettleInv(d)'
<1>1. CASE MainStep
  BY <1>1, SettleMain
<1>2. ASSUME NEW w \in Worker, WorkerStep(w), UNCHANGED <<mainVars, leaderVars>>
      PROVE  \A d \in Execution : SettleInv(d)'
  BY <1>2, SettleWorker
<1>3. ASSUME NEW e \in Execution, Stall(e), UNCHANGED <<workerVars, mainVars, leaderVars>>
      PROVE  \A d \in Execution : SettleInv(d)'
  BY <1>3
  DEF Stall, LockExpires, SettleIInv, SettleInv, Told, RunIInv, TypeOK, QueueTypeOK, workerVars,
      mainVars
<1>4. CASE UNCHANGED vars
  BY <1>4 DEF vars, queueVars, workerVars, mainVars, SettleIInv, SettleInv, Told
<1> QED BY <1>1, <1>2, <1>3, <1>4 DEF Next

\* When a main is through with an execution whose job it has waited for, that was not
\* stopped and whose job has not stalled, then no worker is at it, and its row says how
\* it ended or that it waits, or that could not be saved.
THEOREM SettledMeansOverHolds == Spec => []SettledMeansOver
<1>1. Spec => []TypeOK
  BY TypeCorrect
<1>2. SettleIInv => SettledMeansOver
  BY DEF SettleIInv, SettleInv, SettledMeansOver, Told, RunIInv, TypeOK
<1>3. SettleIInv /\ TypeOK' /\ [Next]_vars => SettleIInv'
  BY RunStep, SettleStep DEF SettleIInv, RunIInv
<1>4. Init /\ TypeOK => SettleIInv
  BY RunInit, SettleInit DEF SettleIInv, RunIInv
<1> QED BY <1>1, <1>2, <1>3, <1>4, PTL DEF Spec

-----------------------------------------------------------------------------
(* Success                                                                   *)

\* What a worker may still be about once it has stored a success.
AfterSuccess == {"idle", "saved", "resaving error", "ended", "failing"}

\* A success is the last that a worker writes, but for an error of its own hooks.
BelieveInv(e) ==
  stop[e] = "no" /\ row[e] = "success" =>
    /\ job[e] \notin {"none", "waiting"}
    /\ \A w \in Worker : work[w][e] \in AfterSuccess

BelieveIInv == SettleIInv /\ \A e \in Execution : BelieveInv(e)

LEMMA BelieveInit == Init => \A e \in Execution : BelieveInv(e)
  BY DEF Init, QueueInit, WorkerInit, BelieveInv

\* A worker overwrites a success only after its save, to report its own error.
LEMMA BelieveWorker ==
  ASSUME BelieveIInv, NEW w \in Worker, WorkerStep(w), UNCHANGED <<mainVars, leaderVars>>
  PROVE  \A d \in Execution :
           /\ BelieveInv(d)'
           /\ row[d] = "success" /\ stop[d] = "no" =>
                /\ row'[d] = "success" \/ work[w][d] = "resaving error"
                /\ \A v \in Worker : work'[v][d] \in {"saved", "resaving error"}
                                     => work[v][d] \in {"saved", "resaving error"}
<1>1. /\ work \in [Worker -> [Execution -> Phase]] /\ job \in [Execution -> JobState]
      /\ row \in [Execution -> RowStatus] /\ UNCHANGED stop
      /\ \A e \in Execution : RunInv(e)
      /\ \A e \in Execution : BelieveInv(e)
      /\ \A e \in Execution : stop[e] = "no" => <<w, e>> \notin aborts \cup cancelled
      /\ cancelSaves \subseteq cancelled
  BY DEF BelieveIInv, SettleIInv, SettleInv, RunIInv, TypeOK, QueueTypeOK, WorkerTypeOK, mainVars
<1> SUFFICES ASSUME NEW d \in Execution
             PROVE  /\ BelieveInv(d)'
                    /\ row[d] = "success" /\ stop[d] = "no" =>
                         /\ row'[d] = "success" \/ work[w][d] = "resaving error"
                         /\ \A v \in Worker : work'[v][d] \in {"saved", "resaving error"}
                                              => work[v][d] \in {"saved", "resaving error"}
  OBVIOUS
<1> DEFINE Goal == /\ BelieveInv(d)'
                   /\ row[d] = "success" /\ stop[d] = "no" =>
                        /\ row'[d] = "success" \/ work[w][d] = "resaving error"
                        /\ \A v \in Worker : work'[v][d] \in {"saved", "resaving error"}
                                             => work[v][d] \in {"saved", "resaving error"}
<1>3. ASSUME NEW e \in Execution, PickUp(w, e) PROVE Goal
  BY <1>1, <1>3 DEF PickUp, Step, BelieveInv, AfterSuccess
\* From a phase that no worker is in after a success.
<1>4. ASSUME NEW e \in Execution, NEW from, NEW to, from \notin AfterSuccess,
             Step(w, e, from, to), UNCHANGED <<job, row>>
      PROVE  Goal
  BY <1>1, <1>4 DEF Step, BelieveInv, AfterSuccess
<1>5. ASSUME NEW e \in Execution, ReadRow(w, e) \/ StartRun(w, e) PROVE Goal
  BY <1>4, <1>5 DEF ReadRow, StartRun, queueVars, AfterSuccess
<1>6. ASSUME NEW e \in Execution, EndRun(w, e) PROVE Goal
  BY <1>4, <1>6, Saves DEF EndRun, queueVars, AfterSuccess
\* From one phase to another that workers are in after a success.
<1>7. ASSUME NEW e \in Execution, NEW from, NEW to \in AfterSuccess,
             to \in {"saved", "resaving error"} => from \in {"saved", "resaving error"},
             Step(w, e, from, to), UNCHANGED row,
             job' = job \/ Leave(w, e, "completed") \/ Leave(w, e, "failed")
      PROVE  Goal
  <2>1. /\ d = e => work[w][d] = from /\ work'[w][d] = to
        /\ \A v \in Worker : v # w \/ d # e => work'[v][d] = work[v][d]
    BY <1>1, <1>7 DEF Step
  <2>2. job[d] \notin {"none", "waiting"} => job'[d] \notin {"none", "waiting"}
    BY <1>1, <1>7 DEF Leave
  <2> QED BY <1>1, <1>7, <2>1, <2>2 DEF BelieveInv
<1>8. ASSUME NEW e \in Execution, Caught(w, e) PROVE Goal
  <2>1. PICK from \in {"running", "saving success", "saving error", "saving canceled",
                       "saving waiting", "saved", "saved canceled"},
             to \in {"resaving error", "resaving canceled"} :
             /\ Step(w, e, from, to)
             /\ (from = "saved" /\ <<w, e>> \notin cancelled) => to = "resaving error"
    BY <1>8, CaughtSteps
  <2>2. UNCHANGED <<row, job>>
    BY <1>8 DEF Caught, queueVars
  <2>3. CASE from # "saved"
    BY <1>4, <2>1, <2>2, <2>3 DEF AfterSuccess
  <2>4. CASE from = "saved" /\ to = "resaving error"
    BY <1>7, <2>1, <2>2, <2>4 DEF AfterSuccess
  <2>5. CASE from = "saved" /\ <<w, e>> \in cancelled
    <3>1. stop[e] # "no"
      BY <1>1, <2>5
    <3> QED BY <1>1, <2>1, <2>2, <3>1 DEF Step, BelieveInv
  <2> QED BY <2>1, <2>3, <2>4, <2>5
\* The same, and it writes the row: a success only when the worker is through.
<1>9. ASSUME NEW e \in Execution, NEW from, NEW to, NEW status,
             from \notin AfterSuccess \/ from = "resaving error", from # "idle",
             status = "success" => to = "saved",
             Step(w, e, from, to), WriteRow(e, status), UNCHANGED job
      PROVE  Goal
  <2>1. CASE d = e
    <3>1. /\ row'[d] = status /\ job[d] \notin {"none", "waiting"} /\ job'[d] = job[d]
          /\ work[w][d] = from /\ work'[w][d] = to
          /\ \A v \in Worker : v # w => work[v][d] = "idle" /\ work'[v][d] = "idle"
      BY <1>1, <1>9, <2>1 DEF Step, WriteRow, RunInv
    <3>2. BelieveInv(d)'
      BY <1>9, <3>1 DEF BelieveInv, AfterSuccess
    <3>3. row[d] = "success" /\ stop[d] = "no" => from = "resaving error"
      BY <1>1, <1>9, <3>1 DEF BelieveInv
    <3> QED BY <3>1, <3>2, <3>3
  <2>2. CASE d # e
    BY <1>1, <1>9, <2>2 DEF Step, WriteRow, BelieveInv
  <2> QED BY <2>1, <2>2
<1>10. ASSUME NEW e \in Execution, SetRunning(w, e) PROVE Goal
  BY <1>4, <1>9, <1>10 DEF SetRunning, AfterSuccess
<1>11. ASSUME NEW e \in Execution, Save(w, e) PROVE Goal
  <2>1. CASE \E o \in DOMAIN Saving : Step(w, e, Saving[o], Saved(o)) /\ WriteRow(e, o)
    BY <1>9, <1>11, <2>1, Saves DEF Save, Saved, AfterSuccess
  <2>2. CASE \E to \in {"skipped", "failing"} : Step(w, e, "issues", to) /\ WriteRow(e, "error")
    BY <1>9, <1>11, <2>2 DEF Save, AfterSuccess
  <2>3. CASE Step(w, e, "issues", "failing") /\ UNCHANGED row
    BY <1>4, <1>11, <2>3 DEF Save, AfterSuccess
  <2> QED BY <1>11, <2>1, <2>2, <2>3 DEF Save
<1>12. ASSUME NEW e \in Execution, Resave(w, e) PROVE Goal
  <2>1. PICK o \in {"error", "canceled"} : Step(w, e, Resaving[o], "ended") /\ LastWrite(e, o)
    BY <1>12, Saves DEF Resave
  <2>2. Resaving[o] \in {"resaving error", "resaving canceled"}
    BY Saves
  <2>3. CASE WriteRow(e, o)
    BY <1>9, <1>12, <2>1, <2>2, <2>3 DEF Resave, AfterSuccess
  <2>4. CASE UNCHANGED row
    BY <1>7, <1>12, <2>1, <2>4 DEF Resave, AfterSuccess
  <2> QED BY <2>1, <2>3, <2>4 DEF LastWrite
<1>13. ASSUME NEW e \in Execution, Return(w, e) \/ Throw(w, e) PROVE Goal
  BY <1>7, <1>13 DEF Return, Throw, AfterSuccess
<1>14. ASSUME NEW e \in Execution, StopJob(w, e) PROVE Goal
  BY <1>1, <1>14 DEF StopJob, BelieveInv
<1>15. ASSUME NEW e \in Execution, SaveCanceled(w, e) PROVE Goal
  <2>1. stop[e] # "no"
    BY <1>1, <1>15 DEF SaveCanceled
  <2> QED BY <1>1, <1>15, <2>1 DEF SaveCanceled, LastWrite, WriteRow, BelieveInv
<1>16. CASE WorkerCrash(w)
  BY <1>1, <1>16 DEF WorkerCrash, BelieveInv, AfterSuccess
<1>17. ASSUME NEW e \in Execution, SaveProgress(w, e) PROVE Goal
  BY <1>1, <1>17 DEF SaveProgress, WriteRow, workerVars, BelieveInv
<1> QED
  BY <1>3, <1>5, <1>6, <1>8, <1>10, <1>11, <1>12, <1>13, <1>14, <1>15, <1>16, <1>17
  DEF WorkerStep, Proceed

LEMMA BelieveMain ==
  ASSUME BelieveIInv, MainStep
  PROVE  \A d \in Execution : BelieveInv(d)'
<1>1. /\ main \in [Execution -> MainPhase] /\ job \in [Execution -> JobState]
      /\ row \in [Execution -> RowStatus]
      /\ stop \in [Execution -> {"no", "read", "told", "written"}]
      /\ \A e \in Execution : RunInv(e) /\ SettleInv(e) /\ BelieveInv(e)
  BY DEF BelieveIInv, SettleIInv, RunIInv, TypeOK, QueueTypeOK
<1> SUFFICES ASSUME NEW d \in Execution PROVE BelieveInv(d)'
  OBVIOUS
<1>2. UNCHANGED work
  BY DEF MainStep, AddExecution, Await, AddJob, Attach, JobCompleted, JobFailed, FinalizeFailed,
         SaveError, StopRequest, StopExecution, StopDuringRun, StopActiveOrInactive, Cancels,
         LeaderTakeover, LeaderStepdown, RecoverFromQueue, ReadRows, ReadJobs, MarkAsCrashed,
         Recovers, MainCrash, workerVars
<1>3. ASSUME NEW m \in Main, NEW e \in Execution, AddExecution(m, e) PROVE BelieveInv(d)'
  BY <1>1, <1>2, <1>3 DEF AddExecution, WriteRow, BelieveInv
<1>4. ASSUME NEW e \in Execution, AddJob(e) PROVE BelieveInv(d)'
  <2>1. UNCHANGED <<row, stop>> /\ main[e] = "created"
    BY <1>4 DEF AddJob, ProcessError, Goes
  <2>2. job[e] = "none"
    BY <1>1, <2>1 DEF RunInv
  <2> QED BY <1>1, <1>2, <1>4, <2>1, <2>2 DEF AddJob, BelieveInv
<1>5. ASSUME UNCHANGED <<queueVars, stop>> PROVE BelieveInv(d)'
  BY <1>1, <1>2, <1>5 DEF BelieveInv, queueVars
<1>6. ASSUME NEW e \in Execution, Await(e), ~AddJob(e), ~SaveError(e) PROVE BelieveInv(d)'
  BY <1>5, <1>6 DEF Await, Attach, JobCompleted, JobFailed, FinalizeFailed
<1>7. ASSUME NEW e \in Execution, SaveError(e) \/ StopDuringRun(e) PROVE BelieveInv(d)'
  BY <1>1, <1>2, <1>7 DEF SaveError, StopDuringRun, LastWrite, WriteRow, BelieveInv
<1>8. ASSUME NEW e \in Execution, StopRequest(e) \/ StopExecution(e) PROVE BelieveInv(d)'
  BY <1>1, <1>2, <1>8 DEF StopRequest, StopExecution, BelieveInv, queueVars
<1>9. ASSUME NEW e \in Execution, StopActiveOrInactive(e) PROVE BelieveInv(d)'
  <2>1. stop[e] # "no" /\ UNCHANGED <<row, stop>>
    BY <1>1, <1>9 DEF StopActiveOrInactive, Cancels, SettleInv
  <2>2. job'[d] = job[d] \/ job'[d] \in {"aborted", "removed"}
    BY <1>1, <1>9 DEF StopActiveOrInactive, Cancels
  <2> QED BY <1>1, <1>2, <2>1, <2>2 DEF BelieveInv
<1>10. ASSUME NEW m \in Main, LeaderTakeover(m) \/ LeaderStepdown(m) PROVE BelieveInv(d)'
  BY <1>1, <1>2, <1>10 DEF LeaderTakeover, LeaderStepdown, BelieveInv, queueVars, mainVars
<1>11. ASSUME NEW m \in Main, RecoverFromQueue(m) PROVE BelieveInv(d)'
  <2>1. /\ UNCHANGED <<stop, job>>
        /\ row'[d] = row[d] \/ row'[d] = "crashed"
    BY <1>1, <1>11 DEF RecoverFromQueue, ReadRows, ReadJobs, MarkAsCrashed, Recovers, mainVars
  <2> QED BY <1>1, <1>2, <2>1 DEF BelieveInv
<1>12. ASSUME NEW m \in Main, MainCrash(m) PROVE BelieveInv(d)'
  BY <1>1, <1>2, <1>12 DEF MainCrash, BelieveInv
<1> QED
  BY <1>3, <1>4, <1>6, <1>7, <1>8, <1>9, <1>10, <1>11, <1>12 DEF MainStep

LEMMA BelieveStep ==
  ASSUME BelieveIInv, [Next]_vars
  PROVE  \A d \in Execution : BelieveInv(d)'
<1>1. CASE MainStep
  BY <1>1, BelieveMain
<1>2. ASSUME NEW w \in Worker, WorkerStep(w), UNCHANGED <<mainVars, leaderVars>>
      PROVE  \A d \in Execution : BelieveInv(d)'
  BY <1>2, BelieveWorker
<1>3. ASSUME NEW e \in Execution, Stall(e), UNCHANGED <<workerVars, mainVars, leaderVars>>
      PROVE  \A d \in Execution : BelieveInv(d)'
  BY <1>3
  DEF Stall, LockExpires, BelieveIInv, SettleIInv, RunIInv, TypeOK, QueueTypeOK, BelieveInv,
      workerVars, mainVars
<1>4. CASE UNCHANGED vars
  BY <1>4 DEF vars, queueVars, workerVars, mainVars, BelieveIInv, BelieveInv
<1> QED BY <1>1, <1>2, <1>3, <1>4 DEF Next

\* What SuccessIsBelieved says of a step and an execution.
Believed(d) ==
  (row[d] = "success" /\ stop[d] = "no") =>
    /\ Doubters(d)' \subseteq Doubters(d)
    /\ Doubters(d) = {} => row'[d] = "success"

LEMMA BelievedByMain ==
  ASSUME BelieveIInv, MainStep, NEW d \in Execution
  PROVE  Believed(d)
<1>1. /\ main \in [Execution -> MainPhase] /\ mainOf \in [Execution -> Main \cup {None}]
      /\ row \in [Execution -> RowStatus]
      /\ up \subseteq Main \cup Worker
      /\ recovery \in [Main -> [phase : RecoveryPhase, ids : SUBSET Execution]]
      /\ RunInv(d) /\ BelieveInv(d)
  BY DEF BelieveIInv, SettleIInv, RunIInv, TypeOK, QueueTypeOK
<1>w. UNCHANGED work
  BY DEF MainStep, AddExecution, Await, AddJob, Attach, JobCompleted, JobFailed, FinalizeFailed,
         SaveError, StopRequest, StopExecution, StopDuringRun, StopActiveOrInactive, Cancels,
         LeaderTakeover, LeaderStepdown, RecoverFromQueue, ReadRows, ReadJobs, MarkAsCrashed,
         Recovers, MainCrash, workerVars
<1> SUFFICES ASSUME row[d] = "success", stop[d] = "no" PROVE Believed(d)
  BY DEF Believed
<1>2. main[d] \notin {"none", "created"}
  BY <1>1 DEF RunInv, BelieveInv
\* A step that keeps the row and leads nobody into doubt.
<1> DEFINE NoDoubt ==
      /\ row'[d] = "success" /\ mainOf'[d] = mainOf[d]
      /\ \/ main'[d] = main[d]
         \/ main'[d] \in {"done", "waiting", "abandoned", "dead"}
         \/ main[d] = "failed" /\ main'[d] = "saving error"
      /\ \A m \in Main : /\ recovery'[m].phase # "off" /\ d \in recovery'[m].ids
                         => recovery[m].phase # "off" /\ d \in recovery[m].ids
<1>3. NoDoubt => Believed(d)
  BY <1>w DEF Believed, Doubters
<1> HIDE DEF NoDoubt
<1>5. ASSUME NEW m \in Main, NEW e \in Execution, AddExecution(m, e) PROVE NoDoubt
  <2>1. d # e  BY <1>2, <1>5 DEF AddExecution
  <2> QED BY <1>1, <1>5, <2>1 DEF AddExecution, WriteRow, leaderVars, NoDoubt
<1>6. ASSUME NEW e \in Execution, AddJob(e) PROVE NoDoubt
  <2>1. d # e  BY <1>2, <1>6 DEF AddJob, ProcessError, Goes
  <2> QED BY <1>1, <1>6, <2>1 DEF AddJob, ProcessError, Goes, leaderVars, NoDoubt
<1>7. ASSUME NEW e \in Execution, JobCompleted(e) \/ FinalizeFailed(e)
      PROVE  NoDoubt
  BY <1>1, <1>7 DEF JobCompleted, FinalizeFailed, Goes, leaderVars, queueVars, NoDoubt
<1>8. ASSUME NEW e \in Execution, Attach(e) \/ JobFailed(e) PROVE NoDoubt
  BY <1>1, <1>8 DEF Attach, JobFailed, ProcessError, Goes, leaderVars, queueVars, NoDoubt
<1>9. ASSUME NEW e \in Execution, SaveError(e) PROVE Believed(d)
  <2>1. CASE d = e
    <3>1. mainOf[d] \in Main /\ mainOf[d] \in Doubters(d)
      BY <1>1, <1>9, <2>1, QueueAssumption DEF SaveError, Goes, Doubters
    <3>2. Doubters(d)' \subseteq Doubters(d)
      BY <1>1, <1>w, <1>9, <2>1 DEF SaveError, Goes, leaderVars, Doubters
    <3> QED BY <3>1, <3>2 DEF Believed
  <2>2. CASE d # e
    <3>1. NoDoubt
      BY <1>1, <1>9, <2>2 DEF SaveError, Goes, LastWrite, WriteRow, leaderVars, NoDoubt
    <3> QED BY <1>3, <3>1
  <2> QED BY <2>1, <2>2
<1>10. ASSUME NEW e \in Execution, StopRequest(e) \/ StopExecution(e) PROVE NoDoubt
  BY <1>1, <1>10 DEF StopRequest, StopExecution, leaderVars, queueVars, NoDoubt
<1>11. ASSUME NEW e \in Execution, StopDuringRun(e) PROVE NoDoubt
  BY <1>1, <1>11 DEF StopDuringRun, LastWrite, WriteRow, leaderVars, NoDoubt
<1>12. ASSUME NEW e \in Execution, StopActiveOrInactive(e) PROVE NoDoubt
  BY <1>1, <1>12 DEF StopActiveOrInactive, Cancels, leaderVars, NoDoubt
<1>13. ASSUME NEW m \in Main, LeaderTakeover(m) \/ LeaderStepdown(m) PROVE NoDoubt
  <2>1. \A n \in Main : recovery'[n] = recovery[n] \/ recovery'[n].ids = {}
    BY <1>1, <1>13 DEF LeaderTakeover, LeaderStepdown, Recovery
  <2> QED BY <1>1, <1>13, <2>1 DEF LeaderTakeover, LeaderStepdown, queueVars, mainVars, NoDoubt
<1>14. ASSUME NEW m \in Main, ReadRows(m) \/ ReadJobs(m) PROVE NoDoubt
  <2>1. row'[d] = "success" /\ UNCHANGED mainVars
    BY <1>14 DEF ReadRows, ReadJobs, Recovers
  <2>2. \A n \in Main : n # m => recovery'[n] = recovery[n]
    BY <1>1, <1>14 DEF ReadRows, ReadJobs, Recovers
  <2>3. CASE ReadRows(m)
    <3>1. d \notin recovery'[m].ids
      BY <1>1, <2>3 DEF ReadRows, Recovers, Recovery, InProgress
    <3> QED BY <2>1, <2>2, <3>1 DEF mainVars, NoDoubt
  <2>4. CASE ReadJobs(m)
    <3>1. recovery'[m].ids \subseteq recovery[m].ids /\ recovery[m].phase = "read rows"
      BY <1>1, <2>4 DEF ReadJobs, Recovers, Recovery
    <3> QED BY <2>1, <2>2, <3>1 DEF mainVars, NoDoubt
  <2> QED BY <1>14, <2>3, <2>4
<1>15. ASSUME NEW m \in Main, MarkAsCrashed(m) PROVE Believed(d)
  <2>1. UNCHANGED mainVars
    BY <1>15 DEF MarkAsCrashed, Recovers
  <2>2. \A n \in Main : recovery'[n] = recovery[n] \/ recovery'[n].ids = {}
    BY <1>1, <1>15 DEF MarkAsCrashed, Recovers, Recovery
  <2>3. Doubters(d)' \subseteq Doubters(d)
    BY <1>w, <2>1, <2>2 DEF Doubters, mainVars
  <2>4. CASE d \in recovery[m].ids
    <3>1. m \in Doubters(d)
      BY <1>15, <2>4 DEF MarkAsCrashed, Recovers, Doubters
    <3> QED BY <2>3, <3>1 DEF Believed
  <2>5. CASE d \notin recovery[m].ids
    <3>1. row'[d] = "success"
      BY <1>15, <2>5 DEF MarkAsCrashed
    <3> QED BY <2>3, <3>1 DEF Believed
  <2> QED BY <2>4, <2>5
<1>16. ASSUME NEW m \in Main, MainCrash(m) PROVE NoDoubt
  <2>1. \A n \in Main : recovery'[n] = recovery[n] \/ recovery'[n].ids = {}
    BY <1>1, <1>16 DEF MainCrash, Recovery
  <2> QED BY <1>1, <1>16, <2>1 DEF MainCrash, NoDoubt
<1> QED
  BY <1>3, <1>5, <1>6, <1>7, <1>8, <1>9, <1>10, <1>11, <1>12, <1>13, <1>14, <1>15, <1>16
  DEF MainStep, Await, RecoverFromQueue

\* Once a success is stored, only who has looked at the execution before may overwrite it.
THEOREM SuccessIsBelievedHolds == Spec => SuccessIsBelieved
<1>1. Spec => []TypeOK
  BY TypeCorrect
<1>2. BelieveIInv /\ [Next]_vars => \A d \in Execution : Believed(d)
  <2> SUFFICES ASSUME BelieveIInv, [Next]_vars, NEW d \in Execution PROVE Believed(d)
    OBVIOUS
  <2>1. CASE MainStep
    BY <2>1, BelievedByMain
  <2>2. ASSUME NEW w \in Worker, WorkerStep(w), UNCHANGED <<mainVars, leaderVars>>
        PROVE  Believed(d)
    <3>1. row[d] = "success" /\ stop[d] = "no" =>
            /\ row'[d] = "success" \/ work[w][d] = Resaving.error
            /\ \A v \in Worker : work'[v][d] \in {"saved", Resaving.error}
                                 => work[v][d] \in {"saved", Resaving.error}
      BY <2>2, BelieveWorker, Saves
    <3> QED BY <2>2, <3>1 DEF Believed, Doubters, mainVars, leaderVars
  <2>3. ASSUME NEW e \in Execution, Stall(e), UNCHANGED <<workerVars, mainVars, leaderVars>>
        PROVE  Believed(d)
    BY <2>3 DEF Stall, workerVars, mainVars, leaderVars, Doubters, Believed
  <2>4. CASE UNCHANGED vars
    BY <2>4 DEF vars, queueVars, workerVars, mainVars, leaderVars, Doubters, Believed
  <2> QED BY <2>1, <2>2, <2>3, <2>4 DEF Next
<1>3. (\A d \in Execution : Believed(d)) =>
        (\A e \in Execution :
           (row[e] = "success" /\ stop[e] = "no") =>
             /\ Doubters(e)' \subseteq Doubters(e)
             /\ Doubters(e) = {} => row'[e] = "success")
  BY DEF Believed
<1>4. BelieveIInv /\ TypeOK' /\ [Next]_vars => BelieveIInv'
  BY RunStep, SettleStep, BelieveStep DEF BelieveIInv, SettleIInv, RunIInv
<1>5. Init /\ TypeOK => BelieveIInv
  BY RunInit, SettleInit, BelieveInit DEF BelieveIInv, SettleIInv, RunIInv
<1> QED BY <1>1, <1>2, <1>3, <1>4, <1>5, PTL DEF Spec, SuccessIsBelieved

=============================================================================
