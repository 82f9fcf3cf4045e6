---------------------------- MODULE JobProcessor ----------------------------
(***************************************************************************)
(* A worker: JobProcessor.processJob, one action from await to await, with *)
(* the handler of ScalingService.setupWorker around it and the end of the  *)
(* WorkflowExecute engine inside.  Any access to the database can fail,    *)
(* and any handler of a lifecycle hook can throw.                          *)
(***************************************************************************)
EXTENDS JobQueue

VARIABLES
  work,         \* [Worker -> [Execution -> Phase]]
  cancelled,    \* <<w, e>>: w has cancelled the run of e
  cancelSaves,  \* those of which onCancel has still to save that
  runs          \* [Execution -> how often it has begun to run]

workerVars == <<work, cancelled, cancelSaves, runs>>

\* The save that a run ends with, and the one of the engine's catch.
Saving == [success |-> "saving success", error |-> "saving error",
           canceled |-> "saving canceled", waiting |-> "saving waiting"]
Resaving == [error |-> "resaving error", canceled |-> "resaving canceled"]
Saved(o) == IF o = "canceled" THEN "saved canceled" ELSE "saved"

Phase ==
  {"idle", "picked", "loaded", "starting", "running", "issues", "skipped", "failing",
   "saved", "saved canceled",  \* more handlers run after the save
   "ended"}                    \* the hooks are done
    \cup {Saving[o] : o \in DOMAIN Saving} \cup {Resaving[o] : o \in DOMAIN Resaving}

\* From runningJobs[job.id] = runningJob to its deletion, by processJob or stopJob.
HasRunningJob(w, e) ==
  /\ work[w][e] \notin {"idle", "picked", "loaded", "starting", "issues", "skipped", "failing"}
  /\ <<w, e>> \notin cancelled

WorkerTypeOK ==
  /\ work \in [Worker -> [Execution -> Phase]]
  /\ cancelled \subseteq Worker \X Execution
  /\ cancelSaves \subseteq cancelled
  /\ runs \in [Execution -> Nat]

WorkerInit ==
  /\ work = [w \in Worker |-> [e \in Execution |-> "idle"]]
  /\ cancelled = {} /\ cancelSaves = {}
  /\ runs = [e \in Execution |-> 0]

\* Worker w goes from one phase of e to another.
Step(w, e, from, to) ==
  /\ w \in up /\ work[w][e] = from
  /\ work' = [work EXCEPT ![w][e] = to]

-----------------------------------------------------------------------------

\* queue.process hands a job to w.
PickUp(w, e) ==
  /\ Step(w, e, "idle", "picked")
  /\ job[e] = "waiting"
  /\ job' = [job EXCEPT ![e] = "active"]
  /\ holder' = [holder EXCEPT ![e] = w]
  /\ UNCHANGED <<row, unsaved, aborts, up, crashes, stalls, cancelled, cancelSaves, runs>>

\* Fault: the status of a crashed execution is returned, not a phase.
ReadRowAsPhase(w, e) ==
  /\ Step(w, e, "picked", IF row[e] = "crashed" THEN row[e] ELSE "loaded")
  /\ UNCHANGED <<queueVars, cancelled, cancelSaves, runs>>

\* findSingleExecution: a crashed execution is not processed.  It throws, or there is
\* no row any more.
ReadRow(w, e) ==
  /\ \/ Step(w, e, "picked", IF row[e] = "crashed" THEN "skipped" ELSE "loaded")
     \/ Step(w, e, "picked", "failing")
  /\ UNCHANGED <<queueVars, cancelled, cancelSaves, runs>>

SetRunning(w, e) ==
  /\ \/ Step(w, e, "loaded", "starting") /\ WriteRow(e, "running")
     \/ Step(w, e, "loaded", "failing") /\ UNCHANGED row
  /\ UNCHANGED <<unsaved, job, holder, aborts, up, crashes, stalls, cancelled, cancelSaves, runs>>

\* The workflow starts, from here on it can be cancelled; or it has issues, or
\* there is no workflow any more.
StartRun(w, e) ==
  /\ \/ /\ Step(w, e, "starting", "running")
        /\ runs' = [runs EXCEPT ![e] = @ + 1]
     \/ Step(w, e, "starting", "issues") /\ UNCHANGED runs
     \/ Step(w, e, "starting", "failing") /\ UNCHANGED runs
  /\ UNCHANGED <<queueVars, cancelled, cancelSaves>>

\* saveExecutionProgress after a node; a finished or canceled row is kept.
SaveProgress(w, e) ==
  /\ w \in up /\ work[w][e] = "running" /\ row[e] \notin {"success", "canceled"}
  /\ WriteRow(e, "running")
  /\ UNCHANGED <<unsaved, job, holder, aborts, up, crashes, stalls, workerVars>>

\* processSuccessExecution.  A cancelled engine does not run the hook, onCancel has.
EndRun(w, e) ==
  /\ IF <<w, e>> \in cancelled
     THEN Step(w, e, "running", "ended")
     ELSE \E outcome \in DOMAIN Saving : Step(w, e, "running", Saving[outcome])
  /\ UNCHANGED <<queueVars, cancelled, cancelSaves, runs>>

\* hookFunctionsSaveWorker of workflowExecuteAfter; more handlers run after it.  For
\* a workflow with issues the hook runs outside the engine: what throws there,
\* before or after the save, leaves processJob.
Save(w, e) ==
  /\ \/ \E outcome \in DOMAIN Saving :
          Step(w, e, Saving[outcome], Saved(outcome)) /\ WriteRow(e, outcome)
     \/ \E to \in {"skipped", "failing"} : Step(w, e, "issues", to) /\ WriteRow(e, "error")
     \/ Step(w, e, "issues", "failing") /\ UNCHANGED row
  /\ UNCHANGED <<unsaved, job, holder, aborts, up, crashes, stalls, cancelled, cancelSaves, runs>>

\* The catch of the engine: a handler has thrown before or during the run, the save
\* has failed, or a handler after it has thrown.
Caught(w, e) ==
  LET canceled == <<w, e>> \in cancelled \/ work[w][e] \in {Saving.canceled, Saved("canceled")}
  IN /\ work[w][e] \in {"running"} \cup {Saving[o] : o \in DOMAIN Saving}
                                  \cup {Saved(o) : o \in DOMAIN Saving}
     /\ Step(w, e, work[w][e], IF canceled THEN Resaving.canceled ELSE Resaving.error)
     /\ UNCHANGED <<queueVars, cancelled, cancelSaves, runs>>

\* It runs the hook once more and swallows what that throws.
Resave(w, e) ==
  /\ \E outcome \in DOMAIN Resaving :
       Step(w, e, Resaving[outcome], "ended") /\ LastWrite(e, outcome)
  /\ UNCHANGED <<job, holder, aborts, up, crashes, stalls, cancelled, cancelSaves, runs>>

\* The run has resolved.
Through == {"saved", "saved canceled", "ended"}

\* processJob returns; or it throws (reading the result back, sending it).
Return(w, e) ==
  /\ \/ \E from \in Through \cup {"skipped"} : Step(w, e, from, "idle") /\ Leave(w, e, "completed")
     \/ \E from \in Through : Step(w, e, from, "failing") /\ UNCHANGED job
  /\ UNCHANGED <<row, unsaved, holder, aborts, up, crashes, stalls, cancelled, cancelSaves, runs>>

\* Fault: the error is reported and swallowed.
ThrowSwallowed(w, e) ==
  /\ Step(w, e, "failing", "idle")
  /\ Leave(w, e, "completed")
  /\ UNCHANGED <<row, unsaved, holder, aborts, up, crashes, stalls, cancelled, cancelSaves, runs>>

\* reportJobProcessingError, and the error goes to Bull.
Throw(w, e) ==
  /\ Step(w, e, "failing", "idle")
  /\ Leave(w, e, "failed")
  /\ UNCHANGED <<row, unsaved, holder, aborts, up, crashes, stalls, cancelled, cancelSaves, runs>>

\* stopJob, on the message abort-job: the run is told, and at once saved as
\* canceled.  There is nothing to stop before the run has begun.
StopJob(w, e) ==
  /\ w \in up /\ <<w, e>> \in aborts
  /\ aborts' = aborts \ {<<w, e>>}
  /\ IF HasRunningJob(w, e)
     THEN /\ cancelled' = cancelled \cup {<<w, e>>}
          /\ cancelSaves' = cancelSaves \cup {<<w, e>>}
     ELSE UNCHANGED <<cancelled, cancelSaves>>
  /\ UNCHANGED <<row, unsaved, job, holder, up, crashes, stalls, work, runs>>

\* That save: onCancel in WorkflowExecute does not await it.
SaveCanceled(w, e) ==
  /\ w \in up /\ <<w, e>> \in cancelSaves
  /\ cancelSaves' = cancelSaves \ {<<w, e>>}
  /\ LastWrite(e, "canceled")
  /\ UNCHANGED <<job, holder, aborts, up, crashes, stalls, work, cancelled, runs>>

WorkerCrash(w) ==
  /\ Dies(w, Worker)
  /\ work' = [work EXCEPT ![w] = [e \in Execution |-> "idle"]]
  /\ cancelled' = {c \in cancelled : c[1] # w}
  /\ cancelSaves' = {c \in cancelSaves : c[1] # w}
  /\ aborts' = {a \in aborts : a[1] # w}
  /\ UNCHANGED <<row, unsaved, job, holder, stalls, runs>>

\* All that a worker does of itself.
Proceed(w, e) ==
  \/ ReadRow(w, e) \/ SetRunning(w, e) \/ StartRun(w, e) \/ EndRun(w, e) \/ Save(w, e)
  \/ Resave(w, e) \/ Return(w, e) \/ Throw(w, e)

WorkerStep(w) ==
  \/ \E e \in Execution :
       \/ PickUp(w, e) \/ Proceed(w, e) \/ SaveProgress(w, e) \/ Caught(w, e)
       \/ StopJob(w, e) \/ SaveCanceled(w, e)
  \/ WorkerCrash(w)

=============================================================================
