--------------------------- MODULE ScalingService ---------------------------
(***************************************************************************)
(* Scaling mode: the mains enqueue executions and wait for their jobs      *)
(* (WorkflowRunner.enqueueExecution), stop them on request, and the leader *)
(* looks for executions that are in progress without a job                 *)
(* (ScalingService.recoverFromQueue).  Composed with the workers.          *)
(***************************************************************************)
EXTENDS JobProcessor

CONSTANTS
  Stoppable,     \* executions that someone may ask to stop
  MaxHandovers   \* how often a leader steps down

ASSUME ScalingAssumption == Stoppable \subseteq Execution /\ MaxHandovers \in Nat

VARIABLES
  main,       \* [Execution -> how far the main that runs it has come]
  mainOf,     \* [Execution -> that main, or None]
  awaited,    \* executions whose job that main has come to wait for
  active,     \* executions in the activeExecutions of their main
  canceling,  \* [Execution -> how far onCancel has come]
  stop,       \* [Execution -> how far a request to stop it has come]
  leader,     \* the leader, or None
  handovers,  \* how often a leader has stepped down
  recovery    \* [Main -> the phase of its recovery and the ids it is about]

mainVars == <<main, mainOf, awaited, active, canceling, stop>>
leaderVars == <<leader, handovers, recovery>>
vars == <<queueVars, workerVars, mainVars, leaderVars>>

MainPhase == {"none", "created", "enqueued", "waiting", "failed", "saving error", "done",
              "abandoned",  \* an error has left the execution as it was
              "dead"}       \* the main has crashed
RecoveryPhase == {"off", "armed", "read rows", "read jobs"}

TypeOK ==
  /\ QueueTypeOK /\ WorkerTypeOK
  /\ main \in [Execution -> MainPhase]
  /\ mainOf \in [Execution -> Main \cup {None}]
  /\ awaited \subseteq Execution /\ active \subseteq Execution
  /\ canceling \in [Execution -> {"no", "check", "abort", "fail", "remove"}]
  /\ stop \in [Execution -> {"no", "read", "told", "written"}]
  /\ leader \in Main \cup {None}
  /\ handovers \in 0..MaxHandovers
  /\ recovery \in [Main -> [phase : RecoveryPhase, ids : SUBSET Execution]]

Recovery(phase, ids) == [phase |-> phase, ids |-> ids]

Init ==
  /\ QueueInit /\ WorkerInit
  /\ main = [e \in Execution |-> "none"]
  /\ mainOf = [e \in Execution |-> None]
  /\ awaited = {} /\ active = {}
  /\ canceling = [e \in Execution |-> "no"]
  /\ stop = [e \in Execution |-> "no"]
  /\ leader = None /\ handovers = 0
  /\ recovery = [m \in Main |-> Recovery("off", {})]

-----------------------------------------------------------------------------
(* Enqueueing an execution                                                   *)

\* The main that runs e goes on with it.
Goes(e, from, to) ==
  /\ main[e] = from /\ mainOf[e] \in up
  /\ main' = [main EXCEPT ![e] = to]

\* ActiveExecutions.add.
AddExecution(m, e) ==
  /\ m \in up /\ main[e] = "none"
  /\ main' = [main EXCEPT ![e] = "created"]
  /\ mainOf' = [mainOf EXCEPT ![e] = m]
  /\ active' = active \cup {e}
  /\ WriteRow(e, "new")
  /\ UNCHANGED <<unsaved, job, holder, aborts, up, crashes, stalls, workerVars, awaited, canceling,
                 stop, leaderVars>>

\* processError, up to finalizeExecution.  A sanity run finds an execution that was
\* successful all the same, and nothing more is done.  Nothing is done either if that
\* read fails, or if "cancelled" occurs in the message of the error.
ProcessError(e, from) ==
  \/ Goes(e, from, IF row[e] = "success" THEN "done" ELSE "failed")
  \/ Goes(e, from, "abandoned")

\* addJob, or Redis does not take it.
AddJob(e) ==
  /\ \/ Goes(e, "created", "enqueued") /\ job' = [job EXCEPT ![e] = "waiting"]
     \/ ProcessError(e, "created") /\ UNCHANGED job
  /\ UNCHANGED <<row, unsaved, holder, aborts, up, crashes, stalls, workerVars, mainOf, awaited,
                 active, canceling, stop, leaderVars>>

\* The hook workflowExecuteBefore, and attachWorkflowExecution.  If a handler throws
\* the execution fails, and its job stays where it is.
Attach(e) ==
  /\ \/ Goes(e, "enqueued", "waiting") /\ awaited' = awaited \cup {e}
     \/ ProcessError(e, "enqueued") /\ UNCHANGED awaited
  /\ UNCHANGED <<queueVars, workerVars, mainOf, active, canceling, stop, leaderVars>>

\* job.finished() resolves: the result is reported, unless it has to be read from the
\* database and that fails or finds nothing.
JobCompleted(e) ==
  /\ job[e] = "completed"
  /\ \/ Goes(e, "waiting", "done") /\ active' = active \ {e}
     \/ Goes(e, "waiting", "abandoned") /\ UNCHANGED active
  /\ UNCHANGED <<queueVars, workerVars, mainOf, awaited, canceling, stop, leaderVars>>

\* Fault: no sanity run.
JobFailedForSure(e) ==
  /\ \/ job[e] = "aborted" /\ Goes(e, "waiting", "done")
     \/ job[e] \in {"failed", "stalled"} /\ Goes(e, "waiting", "failed")
  /\ UNCHANGED <<queueVars, workerVars, mainOf, awaited, active, canceling, stop, leaderVars>>

\* Fault: only what a worker reports counts as a failure.
JobFailedUnlessStalled(e) ==
  /\ \/ job[e] = "aborted" /\ Goes(e, "waiting", "done")
     \/ job[e] = "failed" /\ ProcessError(e, "waiting")
  /\ UNCHANGED <<queueVars, workerVars, mainOf, awaited, active, canceling, stop, leaderVars>>

\* job.finished() rejects.  The error of an aborted job says "cancelled", and there is
\* nothing left to do.
JobFailed(e) ==
  /\ \/ job[e] = "aborted" /\ Goes(e, "waiting", "done")
     \/ job[e] \in {"failed", "stalled"} /\ ProcessError(e, "waiting")
  /\ UNCHANGED <<queueVars, workerVars, mainOf, awaited, active, canceling, stop, leaderVars>>

\* The rest of processError: finalizeExecution, and then the hook that saves.
FinalizeFailed(e) ==
  /\ Goes(e, "failed", "saving error")
  /\ active' = active \ {e}
  /\ UNCHANGED <<queueVars, workerVars, mainOf, awaited, canceling, stop, leaderVars>>

SaveError(e) ==
  /\ Goes(e, "saving error", "done")
  /\ LastWrite(e, "error")
  /\ UNCHANGED <<job, holder, aborts, up, crashes, stalls, workerVars, mainOf, awaited, active,
                 canceling, stop, leaderVars>>

Await(e) ==
  AddJob(e) \/ Attach(e) \/ JobCompleted(e) \/ JobFailed(e) \/ FinalizeFailed(e) \/ SaveError(e)

-----------------------------------------------------------------------------
(* Stopping an execution                                                     *)

\* ExecutionService.stop at any main: the row says it can be stopped.
StopRequest(e) ==
  /\ e \in Stoppable /\ stop[e] = "no" /\ row[e] \in InProgress \cup {"waiting"}
  /\ stop' = [stop EXCEPT ![e] = "read"]
  /\ UNCHANGED <<queueVars, workerVars, main, mainOf, awaited, active, canceling, leaderVars>>

\* ActiveExecutions.stopExecution.  Nothing happens at a main that does not run e;
\* without a job attached, e runs on.  (A job that has ended is beyond onCancel.)
StopExecution(e) ==
  /\ stop[e] = "read"
  /\ stop' = [stop EXCEPT ![e] = "told"]
  /\ \/ /\ mainOf[e] \in up /\ e \in active
        /\ active' = active \ {e}
        /\ IF main[e] = "waiting"
           THEN canceling' = [canceling EXCEPT ![e] = "check"]
           ELSE UNCHANGED canceling
     \/ /\ e \notin active \/ \E m \in Main \cap up : m # mainOf[e]
        /\ UNCHANGED <<active, canceling>>
  /\ UNCHANGED <<queueVars, workerVars, main, mainOf, awaited, leaderVars>>

\* stopDuringRun.
StopDuringRun(e) ==
  /\ stop[e] = "told"
  /\ stop' = [stop EXCEPT ![e] = "written"]
  /\ LastWrite(e, "canceled")
  /\ UNCHANGED <<job, holder, aborts, up, crashes, stalls, workerVars, main, mainOf, awaited, active,
                 canceling, leaderVars>>

Cancels(e, from, to) ==
  /\ canceling[e] = from /\ mainOf[e] \in up
  /\ canceling' = [canceling EXCEPT ![e] = to]
  /\ UNCHANGED <<row, unsaved, holder, up, crashes, stalls, workerVars, main, mainOf, awaited,
                 active, stop, leaderVars>>

\* ScalingService.stopJob, on an active job: the workers are told, and the job fails
\* whoever holds it.  On any other: it is removed, unless a worker was faster.
StopActiveOrInactive(e) ==
  \/ /\ Cancels(e, "check", IF job[e] = "active" THEN "abort" ELSE "remove")
     /\ UNCHANGED <<job, aborts>>
  \/ /\ Cancels(e, "abort", "fail")
     /\ aborts' = aborts \cup ((Worker \cap up) \X {e})
     /\ UNCHANGED job
  \/ /\ Cancels(e, "fail", "no")
     /\ job' = IF job[e] = "active" THEN [job EXCEPT ![e] = "aborted"] ELSE job
     /\ UNCHANGED aborts
  \/ /\ Cancels(e, "remove", "no")
     /\ job' = IF job[e] = "waiting" THEN [job EXCEPT ![e] = "removed"] ELSE job
     /\ UNCHANGED aborts

-----------------------------------------------------------------------------
(* Leadership and queue recovery                                             *)

\* scheduleQueueRecovery on leader-takeover.  A recovery that went on from before
\* and the new one are one here: their cycles do not share anything.
LeaderTakeover(m) ==
  /\ m \in up /\ leader = None
  /\ leader' = m
  /\ recovery' = [recovery EXCEPT ![m] = IF @.phase = "off" THEN Recovery("armed", {}) ELSE @]
  /\ UNCHANGED <<queueVars, workerVars, mainVars, handovers>>

\* stopQueueRecovery on leader-stepdown clears the timer; a cycle under way goes on,
\* and schedules the next one.
LeaderStepdown(m) ==
  /\ leader = m /\ handovers < MaxHandovers
  /\ leader' = None /\ handovers' = handovers + 1
  /\ recovery' = [recovery EXCEPT ![m] = IF @.phase = "armed" THEN Recovery("off", {}) ELSE @]
  /\ UNCHANGED <<queueVars, workerVars, mainVars>>

Recovers(m, from, to, ids) ==
  /\ m \in up /\ recovery[m].phase = from
  /\ recovery' = [recovery EXCEPT ![m] = Recovery(to, ids)]
  /\ UNCHANGED <<unsaved, job, holder, aborts, up, crashes, stalls, workerVars, mainVars, leader,
                 handovers>>

\* Fault: executions that are new are not looked for.
ReadRowsOfRunning(m) ==
  LET ids == {e \in Execution : row[e] = "running"}
  IN ids # {} /\ Recovers(m, "armed", "read rows", ids) /\ UNCHANGED row

\* getInProgressExecutionIds.
ReadRows(m) ==
  LET ids == {e \in Execution : row[e] \in InProgress}
  IN ids # {} /\ Recovers(m, "armed", "read rows", ids) /\ UNCHANGED row

\* findJobsByStatus: those without a job are dangling.
ReadJobs(m) ==
  LET ids == {e \in recovery[m].ids : job[e] \notin {"active", "waiting"}}
  IN Recovers(m, "read rows", IF ids = {} THEN "armed" ELSE "read jobs", ids) /\ UNCHANGED row

MarkAsCrashed(m) ==
  /\ Recovers(m, "read jobs", "armed", {})
  /\ row' = [e \in Execution |-> IF e \in recovery[m].ids THEN "crashed" ELSE row[e]]

RecoverFromQueue(m) == ReadRows(m) \/ ReadJobs(m) \/ MarkAsCrashed(m)

MainCrash(m) ==
  /\ Dies(m, Main)
  /\ LET lost == {e \in Execution : mainOf[e] = m /\ main[e] # "done"}
     IN main' = [e \in Execution |-> IF e \in lost THEN "dead" ELSE main[e]]
  /\ active' = {e \in active : mainOf[e] # m}
  /\ canceling' = [e \in Execution |-> IF mainOf[e] = m THEN "no" ELSE canceling[e]]
  /\ leader' = IF leader = m THEN None ELSE leader
  /\ recovery' = [recovery EXCEPT ![m] = Recovery("off", {})]
  /\ UNCHANGED <<row, unsaved, job, holder, aborts, stalls, workerVars, mainOf, awaited, stop,
                 handovers>>

-----------------------------------------------------------------------------

MainStep ==
  \/ \E e \in Execution :
       \/ \E m \in Main : AddExecution(m, e)
       \/ Await(e) \/ StopRequest(e) \/ StopExecution(e) \/ StopDuringRun(e)
       \/ StopActiveOrInactive(e)
  \/ \E m \in Main : LeaderTakeover(m) \/ LeaderStepdown(m) \/ RecoverFromQueue(m) \/ MainCrash(m)

Next ==
  \/ MainStep
  \/ \E w \in Worker : WorkerStep(w) /\ UNCHANGED <<mainVars, leaderVars>>
  \/ \E e \in Execution : Stall(e) /\ UNCHANGED <<workerVars, mainVars, leaderVars>>

\* The event loops of living processes go on, a waiting job is taken by some worker,
\* Bull finds the jobs of dead workers, some main becomes leader, and every workflow
\* ends.  Nothing is assumed of failures: they need not happen.
Spec ==
  /\ Init /\ [][Next]_vars
  /\ \A e \in Execution :
       /\ WF_vars(Await(e)) /\ WF_vars(StopActiveOrInactive(e))
       /\ WF_vars((\E w \in Worker : PickUp(w, e)) /\ UNCHANGED <<mainVars, leaderVars>>)
       /\ WF_vars(holder[e] \notin up /\ Stall(e) /\ UNCHANGED <<workerVars, mainVars, leaderVars>>)
       /\ \A w \in Worker : WF_vars(Proceed(w, e) /\ UNCHANGED <<mainVars, leaderVars>>)
  /\ WF_vars(\E m \in Main : LeaderTakeover(m))
  /\ \A m \in Main : WF_vars(RecoverFromQueue(m))

-----------------------------------------------------------------------------
(* Safety                                                                    *)

\* The code of an execution begins to run once at most, whatever crashes or stalls:
\* a stalled job is not given to a second worker (maxStalledCount: 0).
RunsOnce == \A e \in Execution : runs[e] <= 1

\* When a main is through with an execution whose job it has waited for, that nobody
\* has asked to stop and whose job has not stalled, then no worker is at it any more,
\* and its row says how it ended or that it waits, unless that could not be saved.
SettledMeansOver ==
  \A e \in awaited :
    (main[e] = "done" /\ stop[e] = "no" /\ job[e] # "stalled") =>
      /\ row[e] \in Final \cup {"waiting"} \/ e \in unsaved
      /\ \A w \in Worker : work[w][e] = "idle"

\* Who is about to write another status because of what it has read before, or, a
\* worker, because it may still have to report an error of its own hooks.
Doubters(e) ==
  {m \in Main : recovery[m].phase # "off" /\ e \in recovery[m].ids}
    \cup {m \in Main : m = mainOf[e] /\ main[e] \in {"failed", "saving error"}}
    \cup {w \in Worker : work[w][e] \in {"saved", Resaving.error}}

\* Once a success is stored, nobody who looks at the execution then will overwrite
\* it: not the recovery, not processError ("false positive, execution was successful"),
\* not a worker.  Only who has looked before may, or a stop that was under way, or the
\* worker that has stored it, whose other hooks can fail.
SuccessIsBelieved ==
  [][\A e \in Execution :
       (row[e] = "success" /\ stop[e] = "no") =>
         /\ Doubters(e)' \subseteq Doubters(e)
         /\ Doubters(e) = {} => row'[e] = "success"]_vars

-----------------------------------------------------------------------------
(* Liveness                                                                  *)

\* The main that enqueues an execution gets through with it, whatever becomes of the
\* job and of its worker: before it runs, while it runs (a worker that crashes in the
\* middle included) and after.  Unless the main itself crashes, an error of its own
\* makes it abandon the execution, or somebody asks to stop it.
EnqueuedIsSettled ==
  \A e \in Execution :
    main[e] = "created" ~> main[e] \in {"done", "abandoned", "dead"} \/ stop[e] # "no"

\* No row says for ever that its execution is in progress: the leader finds those that
\* crashed mains and workers, failed saves and abandoned executions have left behind.
NoRowIsLeftInProgress == \A e \in Execution : row[e] \in InProgress ~> row[e] \notin InProgress

-----------------------------------------------------------------------------
(* What comments say and the code does not do                                *)

\* "Mark in-progress executions as `crashed` if stored in DB as `new` or `running`
\* but absent from the queue."
RecoveryMarksDangling ==
  [][\A m \in Main : MarkAsCrashed(m) =>
       \A e \in recovery[m].ids : row[e] \in InProgress /\ job[e] \notin {"active", "waiting"}]_vars

\* "Returns a promise which will resolve with the data of the execution": when the
\* main is through with an execution, its callers are answered.
SettledIsAnswered == \A e \in Execution : main[e] = "done" => e \notin active

=============================================================================
