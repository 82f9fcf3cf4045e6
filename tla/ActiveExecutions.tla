--------------------------- MODULE ActiveExecutions ---------------------------
(***************************************************************************)
(* The life of executions in one n8n main process in regular mode, from    *)
(* its boot on: ActiveExecutions, WorkflowRunner.run and runMainProcess,   *)
(* the cancel and finish paths of the WorkflowExecute engine, and the stop *)
(* requests of ExecutionService, over the execution rows of the database   *)
(* and the admission control of ConcurrencyControl.                        *)
(*                                                                         *)
(* A "call" is one call of WorkflowRunner.run.  It is made for a new       *)
(* execution, to resume a waiting one, or at boot for a row that an        *)
(* earlier process left "new".  A step is what runs between two awaits;    *)
(* a database write is a step of its own, at the instant it takes effect.  *)
(* Settling a postExecutePromise and the .finally chained to it are one    *)
(* step: only microtasks of that chain run in between.                     *)
(***************************************************************************)
EXTENDS Integers, FiniteSets, SequencesExt

CONSTANTS
  Call, Execution, ExecutionOf, ModeOf,          \* as in ConcurrencyControl
  ProductionLimit, EvaluationLimit, ScalingMode,
  None,             \* no call
  OriginOf,         \* [Call -> Origin]
  InitialStatus,    \* [Execution -> Status], the rows the process finds
  Stoppable,        \* executions that someone may ask to stop
  Env               \* which other events of the environment can happen

Origin == {"new", "resume", "boot"}
Event == {"wait", "timeout", "shutdown", "credentials", "issues",
          "dbFailure",    \* an access to the database fails
          "hookFailure"}  \* a handler of a lifecycle hook throws
Status == {"none", "new", "running", "waiting", "success", "error", "canceled"}

ASSUME OriginAssumption ==
  /\ None \notin Call
  /\ ExecutionOf \in [Call -> Execution]
  /\ OriginOf \in [Call -> Origin]
  /\ InitialStatus \in [Execution -> {"none", "new", "waiting"}]
  /\ Stoppable \subseteq Execution
  /\ Env \subseteq Event
  \* an execution is created once, by the call that made it
  /\ \A c \in Call : OriginOf[c] = "new" =>
       /\ InitialStatus[ExecutionOf[c]] = "none"
       /\ \A d \in Call : OriginOf[d] = "new" /\ ExecutionOf[d] = ExecutionOf[c] => d = c

\* As in ConcurrencyControl: the constructor throws on a limit of 0.
ASSUME ControlAssumption ==
  /\ ProductionLimit \in Int \ {0}
  /\ EvaluationLimit \in Int \ {0}
  /\ ScalingMode \in BOOLEAN

VARIABLES
  enabled, capacity, queue, slot, removing,      \* as in ConcurrencyControl
  db,          \* [Execution -> Status], the status column
  pc,          \* [Call -> Step], how far the call has come
  active,      \* activeExecutions: [Execution -> the call that registered the entry]
  status,      \* [Call -> status of the call's entry]
  engine,      \* [Call -> entry.workflowExecution, as the call that started it]
  settled,     \* calls whose postExecutePromise has settled
  watched,     \* calls that finalize their execution when done
  timer,       \* calls whose execution timeout is armed
  willWait,    \* calls whose runExecutionData.waitTill is set
  aborted,     \* calls whose engine was cancelled
  cancelSave,  \* calls whose onCancel hook has still to save
  unsaved,     \* executions of which a last write failed for good
  outcome,     \* [Call -> status the call saves when it ends]
  stopping     \* [Execution -> how far a stop request has come]

CC == INSTANCE ConcurrencyControl

ccVars == <<enabled, capacity, queue, slot, removing>>
entryVars == <<active, status, engine, settled>>
engineVars == <<watched, timer, willWait, outcome>>
cancelVars == <<aborted, cancelSave, unsaved>>
vars == <<ccVars, db, pc, entryVars, engineVars, cancelVars, stopping>>

Step == {"idle", "created", "reserving", "failed", "claimed", "registered", "starting",
         "launching", "executing", "saving", "saved",
         "refused",      \* no access to its credentials: the hooks of a failed run
         "resaving",     \* the engine has caught an error before its row was saved,
         "overwriting",  \* or after, and runs the last hook again
         "ended",        \* the hooks are done
         "erroring",     \* processError is to save the run it has finalized
         "rejected",     \* add has thrown
         "abandoned",    \* run has thrown after add: nobody goes on with it
         "done"}
StopStep == {"none", "read", "write"}

TypeOK ==
  /\ CC!TypeOK
  /\ db \in [Execution -> Status]
  /\ pc \in [Call -> Step]
  /\ active \in [Execution -> Call \cup {None}]
  /\ status \in [Call -> {"running", "waiting"}]
  /\ engine \in [Call -> Call \cup {None}]
  /\ settled \subseteq Call /\ watched \subseteq Call /\ timer \subseteq Call
  /\ willWait \subseteq Call /\ aborted \subseteq Call /\ cancelSave \subseteq Call
  /\ unsaved \subseteq Execution
  /\ outcome \in [Call -> {"none", "success", "error", "waiting", "canceled"}]
  /\ stopping \in [Execution -> StopStep]

Init ==
  /\ CC!Init
  /\ db = InitialStatus
  /\ pc = [c \in Call |-> "idle"]
  /\ active = [e \in Execution |-> None]
  /\ status = [c \in Call |-> "running"]
  /\ engine = [c \in Call |-> None]
  /\ settled = {} /\ watched = {} /\ timer = {} /\ willWait = {}
  /\ aborted = {} /\ cancelSave = {} /\ unsaved = {}
  /\ outcome = [c \in Call |-> "none"]
  /\ stopping = [e \in Execution |-> "none"]

-----------------------------------------------------------------------------
(* Settling an entry: what .finally, finalizeExecution, stopExecution do     *)

At(c, step) == pc[c] = step
Goto(c, step) == pc' = [pc EXCEPT ![c] = step]
SetStatus(e, s) == db' = [db EXCEPT ![e] = s]

\* The last write of a run or of a stop request; nothing repeats it if it fails.
LastWrite(e, s) ==
  \/ SetStatus(e, s) /\ UNCHANGED unsaved
  \/ "dbFailure" \in Env /\ unsaved' = unsaved \cup {e} /\ UNCHANGED db

\* The postExecutePromise of c settles: the reservation is released, and the
\* entry is removed by id unless it waits, which only drops its engine.
Settle(c) ==
  IF c \in settled
  THEN UNCHANGED <<ccVars, entryVars>>
  ELSE /\ settled' = settled \cup {c}
       /\ CC!Release(c)
       /\ IF status[c] = "waiting"
          THEN engine' = [engine EXCEPT ![c] = None] /\ UNCHANGED active
          ELSE active' = [active EXCEPT ![ExecutionOf[c]] = None] /\ UNCHANGED engine
       /\ UNCHANGED status

FinalizeExecution(e) ==
  IF active[e] = None THEN UNCHANGED <<ccVars, entryVars>> ELSE Settle(active[e])

EngineSteps == {"executing", "saving", "saved", "resaving", "overwriting", "ended"}

\* PCancelable.cancel: once, and only while the engine has not resolved.
Cancel(c) ==
  IF c # None /\ c \notin aborted /\ pc[c] \in EngineSteps
  THEN /\ aborted' = aborted \cup {c}
       /\ cancelSave' = cancelSave \cup {c}
       /\ UNCHANGED unsaved
  ELSE UNCHANGED cancelVars

\* Fault: rejects the promise but lets the engine run on.
StopExecutionWithoutCancel(e) ==
  LET c == active[e]
  IN IF c = None
     THEN UNCHANGED <<ccVars, entryVars, cancelVars>>
     ELSE IF status[c] = "waiting"
          THEN /\ active' = [active EXCEPT ![e] = None]
               /\ UNCHANGED <<ccVars, status, engine, settled, cancelVars>>
          ELSE Settle(c) /\ UNCHANGED cancelVars

\* stopExecution: an entry that waits is only forgotten.
StopExecution(e) ==
  LET c == active[e]
  IN IF c = None
     THEN UNCHANGED <<ccVars, entryVars, cancelVars>>
     ELSE IF status[c] = "waiting"
          THEN /\ active' = [active EXCEPT ![e] = None]
               /\ UNCHANGED <<ccVars, status, engine, settled, cancelVars>>
          ELSE Cancel(engine[c]) /\ Settle(c)

-----------------------------------------------------------------------------
(* ActiveExecutions.add                                                      *)

\* A new execution gets its row.
CreateRow(c) ==
  /\ At(c, "idle") /\ OriginOf[c] = "new"
  /\ \/ SetStatus(ExecutionOf[c], "new") /\ Goto(c, "created")
     \/ "dbFailure" \in Env /\ Goto(c, "rejected") /\ UNCHANGED db
  /\ UNCHANGED <<ccVars, entryVars, engineVars, cancelVars, stopping>>

\* The caller has read the row.  WaitTracker.startExecution (its timer, or a
\* child execution that ended) takes any that has not succeeded, whatever its
\* status; Start.runEnqueuedExecutions one that is new.
ReadRow(c) ==
  /\ At(c, "idle")
  /\ \/ OriginOf[c] = "resume" /\ db[ExecutionOf[c]] \notin {"none", "success"}
     \/ OriginOf[c] = "boot" /\ db[ExecutionOf[c]] = "new"
  /\ Goto(c, "created")
  /\ UNCHANGED <<ccVars, db, entryVars, engineVars, cancelVars, stopping>>

\* Fault: a resumed execution is not throttled.
ReserveResumesAtOnce(c) ==
  /\ At(c, "created")
  /\ IF OriginOf[c] = "resume"
     THEN /\ slot' = [slot EXCEPT ![c] = "reserved"]
          /\ UNCHANGED <<enabled, capacity, queue, removing>>
     ELSE CC!Throttle(c)
  /\ Goto(c, "reserving")
  /\ UNCHANGED <<db, entryVars, engineVars, cancelVars, stopping>>

\* Reserve a unit of capacity, or wait in line for it.
Reserve(c) ==
  /\ At(c, "created")
  /\ CC!Throttle(c)
  /\ Goto(c, "reserving")
  /\ UNCHANGED <<db, entryVars, engineVars, cancelVars, stopping>>

\* Fault: resumes without checking that the row still waits.
ClaimRowUnconditionally(c) ==
  /\ At(c, "reserving") /\ slot[c] = "reserved"
  /\ SetStatus(ExecutionOf[c], "running")
  /\ Goto(c, "claimed")
  /\ UNCHANGED <<ccVars, entryVars, engineVars, cancelVars, stopping>>

\* Let through: mark the row running; to resume it, only if it still waits.
ClaimRow(c) ==
  LET e == ExecutionOf[c]
  IN /\ At(c, "reserving") /\ slot[c] = "reserved"
     /\ \/ /\ OriginOf[c] = "new" \/ db[e] = "waiting"
           /\ SetStatus(e, "running")
           /\ Goto(c, "claimed")
        \/ /\ OriginOf[c] # "new" /\ db[e] # "waiting"
           /\ Goto(c, "failed") /\ UNCHANGED db
        \/ /\ "dbFailure" \in Env
           /\ Goto(c, "failed") /\ UNCHANGED db
     /\ UNCHANGED <<ccVars, entryVars, engineVars, cancelVars, stopping>>

\* Fault: rethrows without giving the reservation back.
RejectKeepsReservation(c) ==
  /\ At(c, "failed")
  /\ Goto(c, "rejected")
  /\ UNCHANGED <<ccVars, db, entryVars, engineVars, cancelVars, stopping>>

\* The catch: give the reservation back and rethrow.
Reject(c) ==
  /\ At(c, "failed")
  /\ CC!Release(c)
  /\ Goto(c, "rejected")
  /\ UNCHANGED <<db, entryVars, engineVars, cancelVars, stopping>>

\* Register the entry, over that of the execution as it was left waiting.
Register(c) ==
  /\ At(c, "claimed")
  /\ active' = [active EXCEPT ![ExecutionOf[c]] = c]
  /\ Goto(c, "registered")
  /\ UNCHANGED <<ccVars, db, status, engine, settled, engineVars, cancelVars, stopping>>

-----------------------------------------------------------------------------
(* WorkflowRunner.run and runMainProcess                                     *)

\* The credentials check passes or fails.  A call with a response to attach throws
\* when its entry has gone meanwhile.
CheckCredentials(c) ==
  /\ At(c, "registered")
  /\ \/ Goto(c, "starting")
     \/ active[ExecutionOf[c]] = None /\ Goto(c, "abandoned")
     \/ "credentials" \in Env /\ Goto(c, "refused")
  /\ UNCHANGED <<ccVars, db, entryVars, engineVars, cancelVars, stopping>>

\* The hooks of a run refused for its credentials.  A handler that throws, before
\* the save or after it, leaves run before finalizeExecution.
SaveRefused(c) ==
  /\ At(c, "refused")
  /\ \/ /\ SetStatus(ExecutionOf[c], "error")
        /\ \/ Goto(c, "ended") /\ watched' = watched \cup {c}
           \/ "hookFailure" \in Env /\ Goto(c, "abandoned") /\ UNCHANGED watched
     \/ /\ Env \cap {"dbFailure", "hookFailure"} # {}
        /\ Goto(c, "abandoned") /\ UNCHANGED <<db, watched>>
  /\ UNCHANGED <<ccVars, entryVars, timer, willWait, outcome, cancelVars, stopping>>

\* runMainProcess up to its try block: static data, settings, setRunning.  What
\* throws here leaves run, too, with the entry registered.
SetRunning(c) ==
  /\ At(c, "starting")
  /\ \/ SetStatus(ExecutionOf[c], "running") /\ Goto(c, "launching")
     \/ "dbFailure" \in Env /\ Goto(c, "abandoned") /\ UNCHANGED db
  /\ UNCHANGED <<ccVars, entryVars, engineVars, cancelVars, stopping>>

\* Start the engine and attach it to the entry.  With no entry left the attach
\* throws: the engine runs on, but nobody watches it.
Launch(c) ==
  LET e == ExecutionOf[c]
  IN /\ At(c, "launching")
     /\ Goto(c, "executing")
     /\ IF active[e] # None
        THEN /\ engine' = [engine EXCEPT ![active[e]] = c]
             /\ watched' = watched \cup {c}
             /\ timer' = IF "timeout" \in Env THEN timer \cup {c} ELSE timer
        ELSE UNCHANGED <<engine, watched, timer>>
     /\ UNCHANGED <<ccVars, db, active, status, settled, willWait, outcome,
                    cancelVars, stopping>>

\* Fault: processError saves the failed run and finalizes nothing.
LaunchFailsUnsettled(c) ==
  /\ At(c, "launching") /\ "issues" \in Env
  /\ Goto(c, "erroring")
  /\ UNCHANGED <<ccVars, entryVars, db, engineVars, cancelVars, stopping>>

\* Fault: processError finalizes the execution and saves nothing.
LaunchFailsUnsaved(c) ==
  /\ At(c, "launching") /\ "issues" \in Env
  /\ FinalizeExecution(ExecutionOf[c])
  /\ Goto(c, "done")
  /\ UNCHANGED <<db, engineVars, cancelVars, stopping>>

\* The engine refuses a workflow with issues: processError finalizes the execution
\* first and saves the failed run then.  An error whose message has "cancelled" in
\* it (the name of a node can be part of it) is taken for a cancellation.
LaunchFails(c) ==
  /\ At(c, "launching") /\ "issues" \in Env
  /\ \/ FinalizeExecution(ExecutionOf[c]) /\ Goto(c, "erroring")
     \/ Goto(c, "abandoned") /\ UNCHANGED <<ccVars, entryVars>>
  /\ UNCHANGED <<db, engineVars, cancelVars, stopping>>

\* The hook at the end of processError, which nothing repeats.
SaveError(c) ==
  /\ At(c, "erroring")
  /\ LastWrite(ExecutionOf[c], "error")
  /\ Goto(c, "done")
  /\ UNCHANGED <<ccVars, entryVars, engineVars, aborted, cancelSave, stopping>>

-----------------------------------------------------------------------------
(* The engine                                                                *)

\* Fault: the row says waiting as soon as the node does.
PutToWaitAtOnce(c) ==
  /\ At(c, "executing") /\ "wait" \in Env
  /\ c \notin willWait /\ active[ExecutionOf[c]] # None
  /\ status' = [status EXCEPT ![active[ExecutionOf[c]]] = "waiting"]
  /\ willWait' = willWait \cup {c}
  /\ SetStatus(ExecutionOf[c], "waiting")
  /\ UNCHANGED <<ccVars, pc, active, engine, settled, watched, timer, outcome,
                 cancelVars, stopping>>

\* A node calls putExecutionToWait: the entry waits from here on, long before
\* the engine ends.  With no entry, setStatus throws and the node fails.
PutToWait(c) ==
  LET e == ExecutionOf[c]
  IN /\ At(c, "executing") /\ "wait" \in Env
     /\ c \notin willWait /\ outcome[c] = "none"
     /\ IF active[e] # None
        THEN /\ status' = [status EXCEPT ![active[e]] = "waiting"]
             /\ willWait' = willWait \cup {c}
             /\ UNCHANGED outcome
        ELSE /\ outcome' = [outcome EXCEPT ![c] = "error"]
             /\ UNCHANGED <<status, willWait>>
     /\ UNCHANGED <<ccVars, db, pc, active, engine, settled, watched, timer,
                    cancelVars, stopping>>

\* nodeExecuteAfter with saved progress; a finished or canceled row is kept.
SaveProgress(c) ==
  LET e == ExecutionOf[c]
  IN /\ At(c, "executing")
     /\ db[e] \notin {"success", "canceled"}
     /\ SetStatus(e, "running")
     /\ UNCHANGED <<ccVars, pc, entryVars, engineVars, cancelVars, stopping>>

\* Fault: the final status of the run is not determined.
CompleteKeepsRunning(c) ==
  /\ At(c, "executing")
  /\ Goto(c, "saving")
  /\ outcome' = [outcome EXCEPT ![c] = "running"]
  /\ UNCHANGED <<ccVars, db, entryVars, watched, timer, willWait, cancelVars, stopping>>

\* How a run can end: an error, which can read like a cancellation (the soft timeout
\* is one), comes before the wait.
Endings(c) ==
  IF outcome[c] = "error" THEN {"error"}
  ELSE {"error", "canceled", IF c \in willWait THEN "waiting" ELSE "success"}

\* The node loop ends: processSuccessExecution.  A cancelled engine does not run the
\* hook, onCancel has run it.
Complete(c) ==
  /\ At(c, "executing")
  /\ IF c \in aborted
     THEN Goto(c, "ended") /\ UNCHANGED outcome
     ELSE /\ Goto(c, "saving")
          /\ \E s \in Endings(c) : outcome' = [outcome EXCEPT ![c] = s]
  /\ UNCHANGED <<ccVars, db, entryVars, watched, timer, willWait, cancelVars, stopping>>

\* hookFunctionsSave of workflowExecuteAfter; more handlers run after it.
Save(c) ==
  /\ At(c, "saving")
  /\ SetStatus(ExecutionOf[c], outcome[c])
  /\ Goto(c, "saved")
  /\ UNCHANGED <<ccVars, entryVars, engineVars, cancelVars, stopping>>

\* The catch of the engine makes an error of whatever is thrown on the way.
Caught(c, step) ==
  /\ Goto(c, step)
  /\ outcome' = [outcome EXCEPT ![c] =
       IF c \in aborted \/ outcome[c] = "canceled" THEN "canceled" ELSE "error"]
  /\ UNCHANGED <<ccVars, db, entryVars, watched, timer, willWait, cancelVars, stopping>>

\* A handler throws before the run or between its nodes,
HookThrows(c) == "hookFailure" \in Env /\ At(c, "executing") /\ Caught(c, "resaving")

\* or the final save does,
SaveFails(c) == "dbFailure" \in Env /\ At(c, "saving") /\ Caught(c, "resaving")

\* or a handler after it.
LaterHookThrows(c) == "hookFailure" \in Env /\ At(c, "saved") /\ Caught(c, "overwriting")

\* The catch runs the hook again and swallows what that throws.
Resave(c) ==
  /\ pc[c] \in {"resaving", "overwriting"}
  /\ LastWrite(ExecutionOf[c], outcome[c])
  /\ Goto(c, "ended")
  /\ UNCHANGED <<ccVars, entryVars, engineVars, aborted, cancelSave, stopping>>

\* The same hook, run by onCancel for the cancelled run and awaited by nobody.
SaveCancelled(c) ==
  /\ c \in cancelSave
  /\ cancelSave' = cancelSave \ {c}
  /\ LastWrite(ExecutionOf[c], "canceled")
  /\ UNCHANGED <<ccVars, pc, entryVars, engineVars, aborted, stopping>>

\* The hooks are done and the engine resolves.
Finalize(c) ==
  /\ At(c, "saved") \/ At(c, "ended")
  /\ Goto(c, "done")
  /\ timer' = timer \ {c}
  /\ IF c \in watched THEN FinalizeExecution(ExecutionOf[c])
                      ELSE UNCHANGED <<ccVars, entryVars>>
  /\ UNCHANGED <<db, watched, willWait, outcome, cancelVars, stopping>>

-----------------------------------------------------------------------------
(* Stop requests, timeouts and shutdown                                      *)

Timeout(c) ==
  /\ c \in timer
  /\ timer' = timer \ {c}
  /\ StopExecution(ExecutionOf[c])
  /\ UNCHANGED <<db, pc, watched, willWait, outcome, stopping>>

\* ExecutionService.stop: the row is read and found stoppable,
StopRead(e) ==
  /\ e \in Stoppable /\ stopping[e] = "none"
  /\ db[e] \in {"new", "waiting", "running"}
  /\ stopping' = [stopping EXCEPT ![e] = "read"]
  /\ UNCHANGED <<ccVars, db, pc, entryVars, engineVars, cancelVars>>

\* stopInRegularMode takes it out of the queue or stops it,
StopApply(e) ==
  /\ stopping[e] = "read"
  /\ stopping' = [stopping EXCEPT ![e] = "write"]
  /\ IF CC!Has(e)
     THEN /\ \E c \in Call : ExecutionOf[c] = e /\ CC!RemoveQueued(e, ModeOf[c])
          /\ UNCHANGED <<entryVars, cancelVars>>
     ELSE StopExecution(e)
  /\ UNCHANGED <<db, pc, engineVars>>

\* and the row becomes canceled, whatever it is by now.
StopWrite(e) ==
  /\ stopping[e] = "write"
  /\ stopping' = [stopping EXCEPT ![e] = "none"]
  /\ LastWrite(e, "canceled")
  /\ UNCHANGED <<ccVars, pc, entryVars, engineVars, aborted, cancelSave>>

\* shutdown: disable control, forget what waits, then removeAll, which finds
\* control disabled.  (Only a command line tool asks it to cancel all.)
Shutdown ==
  /\ "shutdown" \in Env /\ enabled
  /\ enabled' = FALSE
  /\ active' = [e \in Execution |->
                  IF active[e] # None /\ status[active[e]] = "waiting" THEN None
                  ELSE active[e]]
  /\ removing' = IF enabled' THEN CC!AllQueuedIds ELSE <<>>
  /\ UNCHANGED <<capacity, queue, slot, db, pc, status, engine, settled,
                 engineVars, cancelVars, stopping>>

-----------------------------------------------------------------------------

Progress(c) ==
  \/ CreateRow(c) \/ ReadRow(c) \/ Reserve(c) \/ ClaimRow(c) \/ Reject(c)
  \/ Register(c) \/ CheckCredentials(c) \/ SaveRefused(c) \/ SetRunning(c)
  \/ Launch(c) \/ LaunchFails(c) \/ SaveError(c)
  \/ Complete(c) \/ Save(c) \/ Resave(c) \/ SaveCancelled(c) \/ Finalize(c)

Failure(c) == HookThrows(c) \/ SaveFails(c) \/ LaterHookThrows(c)

Next ==
  \/ \E c \in Call : Progress(c) \/ Failure(c)
                     \/ PutToWait(c) \/ SaveProgress(c) \/ Timeout(c)
  \/ \E e \in Execution : StopRead(e) \/ StopApply(e) \/ StopWrite(e)
  \/ Shutdown

Spec == Init /\ [][Next]_vars

\* The event loop runs every pending continuation, and every workflow ends.
FairSpec ==
  /\ Spec
  /\ \A c \in Call : WF_vars(Progress(c))
  /\ \A e \in Execution : WF_vars(StopApply(e) \/ StopWrite(e))

-----------------------------------------------------------------------------
(* Properties                                                                *)

\* Admission control is used by its contract: whatever this module does to the
\* reservations is a behaviour of ConcurrencyControl.
RefinesConcurrencyControl == CC!Spec

\* From the claim of the row until the final save, a call owns its execution; for
\* ever if run has thrown in between.
Owns(c) == pc[c] \in {"claimed", "registered", "refused", "starting", "launching",
                      "executing", "saving", "resaving", "erroring", "abandoned"}

\* An execution is run by one call at a time, however many resume requests (a
\* timer, a webhook, a finished child) race for it and whatever is stopped.
AtMostOneRunner ==
  \A c, d \in Call :
    (c # d /\ ExecutionOf[c] = ExecutionOf[d]) => ~(Owns(c) /\ Owns(d))

\* A row that says "waiting" is nobody's: whoever resumes it finds no engine of
\* it still before its final save, which would overwrite the resumed run.
WaitingRowIsIdle ==
  \A c \in Call : db[ExecutionOf[c]] = "waiting" => ~Owns(c)

\* No reservation leaks: a held one belongs to a call that add is still working
\* on, to the registered entry of that call, whose settling gives it back (that of an
\* abandoned call settles only if it is stopped, see StuckHold), or to a call whose
\* execution goes to wait.  Those do leak, see FinalizesItsOwn and
\* ForgottenEntryHasSettled.
NoLeak ==
  \A c \in Call : slot[c] = "reserved" =>
    \/ pc[c] \in {"reserving", "failed", "claimed"}
    \/ active[ExecutionOf[c]] = c
    \/ status[c] = "waiting"

\* A workflow that runs, unless it was cancelled or is to wait, counts against the
\* limit, as far as it was not resumed (see FinalizesItsOwn).
WatchedRunHoldsReservation ==
  \A c \in watched \ (aborted \cup willWait) :
    (pc[c] = "executing" /\ OriginOf[c] = "new")
      => (slot[c] = "reserved" /\ active[ExecutionOf[c]] = c)

\* The entry of a waiting execution was forgotten by a stop or replaced by a resume.
Forgotten(c) == status[c] = "waiting" /\ active[ExecutionOf[c]] # c

\* Whoever awaits the result of a registered execution gets an answer, by completion,
\* cancellation or error, unless run has thrown (which nobody is told who waits for
\* the promise) or the execution went to wait and its entry was lost then.
EveryEntrySettles ==
  \A c \in Call : (pc[c] = "registered")
                    ~> (c \in settled \/ pc[c] = "abandoned" \/ Forgotten(c))

\* The calls in the line of c that keep their reservation for good.
StuckHold(c) ==
  {d \in Call : /\ CC!QueuesOf(d) = CC!QueuesOf(c)
                /\ slot[d] = "reserved"
                /\ pc[d] = "abandoned" \/ Forgotten(d)}

\* A throttled execution gets its turn, or is taken out of the line, unless so many
\* executions were abandoned that they fill the limit, or the process shuts down.
EveryoneThrottledGetsATurn ==
  \A c \in Call :
    []<>(enabled /\ \A t \in CC!QueuesOf(c) : Cardinality(StuckHold(c)) < CC!Limit[t])
      => ((slot[c] = "queued") ~> (slot[c] # "queued"))

\* No row says "running" forever, unless the call that was to run it was abandoned or
\* a last write failed for good: no other failure, stop or timeout leaves one behind.
NoRowStaysRunning ==
  \A e \in Execution :
    (db[e] = "running")
      ~> \/ db[e] # "running" \/ e \in unsaved
         \/ \E c \in Call : ExecutionOf[c] = e /\ pc[c] = "abandoned"

-----------------------------------------------------------------------------
(* What comments in the code say and the code does not do                    *)

\* stopExecution: "A waiting execution will not have a valid [...]
\* postExecutePromise": an entry forgotten because it waits has settled.
ForgottenEntryHasSettled ==
  [][\A c \in Call :
       (/\ active[ExecutionOf[c]] = c /\ active'[ExecutionOf[c]] = None
        /\ status[c] = "waiting" /\ enabled)
         => c \in settled]_vars

\* finalizeExecution: "Resolve the post-execution promise in an execution": what
\* a run that ends settles is its own entry, not that of the run that has resumed
\* its execution meanwhile.
FinalizesItsOwn ==
  [][\A c \in Call :
       (Finalize(c) /\ c \in watched /\ active[ExecutionOf[c]] # None)
         => active[ExecutionOf[c]] = c]_vars

\* stopExecution: "Cancel the execution promise and reject its post-execution
\* promise": what was registered and stopped does not run.
StoppedDoesNotRun ==
  \A c \in Call : (pc[c] = "executing" /\ c \in settled) => c \in aborted

\* runEnqueuedExecutions: "executions that had been enqueued at the time of
\* shutdown [...] start running any such executions".
EnqueuedRunAfterBoot ==
  \A c \in Call : OriginOf[c] = "boot" => pc[c] # "failed"

=============================================================================
