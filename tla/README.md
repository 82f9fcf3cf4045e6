# n8n: how executions are admitted, run, resumed and stopped, by whom, and who leads

n8n runs workflows. This directory holds a formal model of the part of it that decides *when an
execution runs, who runs it and how it ends*: in a main process, in the workers of scaling mode, and,
for Code nodes, in task runners; and *which main process leads* when there are several.
Paths are relative to `src/packages/cli/src` unless they start with `packages/`.

## The system

A main process serves the editor, the API and webhooks. In *regular* mode it also runs the workflows;
in *queue* (scaling) mode it hands them to workers through a Redis queue. Several mains can run in
queue mode; one of them, elected over a Redis key, is the leader and runs what must run once: triggers,
pollers, pruning, queue recovery and the timers of waiting executions. Code nodes can run in separate
task runner processes, with a broker in the main or worker process in between.

| part | state | operations | what is hard | what makes it correct |
| --- | --- | --- | --- | --- |
| Admission control (`concurrency/`) | two FIFO queues with a capacity counter each, an on/off flag | throttle, release, remove, removeAll, disable | a counter that goes negative, a line that is edited in the middle, shutdown | the counter never drifts, no lost wake-up, no overtaking |
| `active-executions.ts`, `workflow-runner.ts` | a map of running and waiting executions, each with a promise | add, attach, settle, stop, finalize, shutdown; run, runMainProcess, processError | every step is between two awaits; a stop, a timeout, a resume can come in any gap | one runner per execution, no leaked reservation, every promise settles |
| Execution rows (`packages/@n8n/db`) | status, waitTill | conditional and unconditional writes | writes of several actors in any order | a resumed row is claimed once, no row stays running |
| Workflow engine (`packages/core`) | run data, stack, cancellation | run nodes, wait, finish, cancel | cancellation beside completion; scheduling of nodes | hooks run once; every node runs when its inputs are there |
| Leadership (`scaling/multi-main-setup.ee.ts`) | the role of each main; the key with a time to live | check, take over, step down, shut down | expiry, slow replies, restarts under the same host id | one leader; the key and the role agree in the end |
| `wait-tracker.ts` | an interval, a timer per waiting execution | start and stop tracking, poll, fire, stop one | stale query results, fail-over | one resume per wait, no wait forgotten |
| Job queue (`scaling/`), recovery | Bull jobs, running jobs of a worker, a recovery timer | enqueue, process, stop, stalled, recover | lost and stalled jobs, reads at different times | no execution runs twice, none is declared crashed while it runs |
| Task broker and runners (`task-runners/`, `packages/@n8n/task-runner`) | offers, requests, tasks, timers | offer, request, accept, reject, defer, settings, done | timeouts beside late answers, a runner that goes away | concurrency bound of a runner, a request runs at most once, every request is answered |
| Webhooks, active workflows | registrations, activation retries | activate, deactivate, resume a wait | activation beside deactivation | no trigger of an inactive workflow |
| Pub/sub, push, event bus, REST API, editor, nodes, AI features, the fork's `sovereignty/` scripts | see `PROJECT.json` | | best effort, pure I/O or sequential | not modelled |

How they interact: a caller (webhook, trigger, API, wait timer, boot) calls `WorkflowRunner.run`, which
calls `ActiveExecutions.add`, which reserves a unit of capacity (regular mode), claims the row and
registers an entry; `runMainProcess` starts the engine and attaches it; the engine's hooks write the
row; the settling of the entry's promise releases the reservation. `ExecutionService.stop` and the
execution timeout come from the side. In queue mode `MultiMainSetup` emits `leader-takeover` and
`leader-stepdown`, to which `WaitTracker` (and others) start and stop.

Node.js is single-threaded: what runs between two awaits is atomic, and every await is a point
where anything else can run. That, and what Redis and the database do in between, is the concurrency
of this system, and the grain of the models.

## Modules

| module | models | built on |
| --- | --- | --- |
| `Selection` | array filters, as an operator that proofs can expand (`SelectionProofs`: what it keeps) | |
| `ConcurrencyControl` | `concurrency/*.ts` | `EXTENDS Selection` |
| `ConcurrencyControlProofs` | theorems about it | `ConcurrencyControl, SelectionProofs` |
| `ActiveExecutions` | `active-executions.ts`, `workflow-runner.ts`, stop requests, row writes, end of the engine | `CC == INSTANCE ConcurrencyControl` |
| `ActiveExecutionsProofs` | theorems about it | `ActiveExecutions, SelectionProofs` |
| `MultiMainSetup` | `scaling/multi-main-setup.ee.ts` over a Redis key | |
| `MultiMainSetupProofs` | theorems about it | `MultiMainSetup` |
| `WaitTracker` | `wait-tracker.ts` in several mains | `EXTENDS MultiMainSetup` |
| `WaitTrackerProofs` | theorems about it | `WaitTracker, MultiMainSetupProofs` |
| `TaskChannels` | the websocket connections of runners: FIFO channels that open, close and die | `EXTENDS Selection` |
| `TaskRunner` | `packages/@n8n/task-runner/src/task-runner.ts` and launchers | `EXTENDS TaskChannels` |
| `TaskBroker` | `task-runners/task-broker/*`, `task-runners/task-managers/*requester.ts` | `EXTENDS TaskChannels` |
| `TaskRunners` | broker and runners together | `EXTENDS TaskBroker, TaskRunner` |
| `TaskService` | abstract: what a Code node is promised | implemented by `TaskRunners` |
| `TaskRunnersProofs` | theorems about it: slots, types, the life of an offer, the request behind a task | `TaskRunners, SelectionProofs` |
| `TaskServiceProofs` | that `TaskRunners` implements `TaskService`, proved | `TaskRunnersProofs` |
| `JobQueue` | the rows and the Bull queue (external), liveness of processes | |
| `JobProcessor` | a worker: `scaling/job-processor.ts` and its hooks | `EXTENDS JobQueue` |
| `ScalingService` | the mains of scaling mode: enqueue, stop, queue recovery | `EXTENDS JobProcessor` |
| `ScalingServiceProofs` | theorems about it | `ScalingService` |
| `MC*` | small instances for TLC | |

Operators commented as "Fault" are variants of the operation below them with a plausible bug. No
specification uses them; each is put in place of the operation to see that some property notices.

### ConcurrencyControl

A *call* is one reservation (`ConcurrencyCapacityReservation`), i.e. one call of `ActiveExecutions.add`.
`capacity` and `queue` are the fields of each `ConcurrencyQueue`; `slot` says where each reservation
stands and replaces the promise a throttled call awaits. `Throttle`, `Release`, `RemoveQueued`,
`RemoveAll`, `Disable` are the methods of the service, one step each since none awaits between two
state changes. `RemoveAll` loops over ids it collected first, and each removal can let a queued
reservation through; that loop is a sequence of steps (`RemoveAllNext`) with nothing in between.

This module is also the abstract specification of what `ActiveExecutions` may do with reservations.

### ActiveExecutions

`pc` is how far a call of `WorkflowRunner.run` has come; the names of the steps are the stretches of
code between awaits: create or read the row, reserve (and wait in line), claim the row, register the
entry, check credentials, set the row running, start and attach the engine, run, save, finalize.
`active`, `status`, `engine` are the map of entries; `settled` the promises that have settled;
`aborted` and `cancelSave` what `PCancelable.cancel` has done. `db` is the status column: each write is
a step of its own and sees whatever other writers did before. `Env` switches events of the environment
(waiting nodes, timeouts, shutdown, failed credential checks, workflow issues, failed accesses to the
database, lifecycle hooks that throw) on and off, so that a run can concentrate on some of them;
`Stoppable` are the executions that somebody may ask to stop.

*Failures.* Any access to the database can fail (`dbFailure`) and any handler of a lifecycle hook can
throw (`hookFailure`: the external hooks call code of the operator's). What comes of it depends on
where it happens:

- in `add`, the catch gives the reservation back (`Reject`);
- after `add` and outside the `try` of `runMainProcess` (`workflow-runner.ts:225-274`, and the hooks of a
  run refused for its credentials, 160-161), `run` rejects and nobody goes on with the registered call:
  it is `abandoned`, with its entry, its reservation and its row as they are. So is a call whose error
  contains the word "cancelled" (87), and one that has a response to attach and no entry any more (171);
- in the engine, its `catch` runs the hook again (`Caught`, `Resave`) and swallows a second failure. If the
  row was not saved yet that saves it as failed; if it was (`LaterHookThrows`), it overwrites it;
- a last write that fails and that nothing repeats leaves the row as it was; `unsaved` keeps note of that.

Abstracted: the nodes a workflow runs (it runs, may wait, may save progress, ends); the run data;
response promises and streaming. `cancelAll` of `shutdown` is left out: only `execute-batch` asks for it.

### MultiMainSetup

A process sends commands on one connection; Redis executes them in order (`Execute`) and the process
handles replies in order (`Handle`: one step per reply, with all that the reply triggers up to the next
command). The interval does not await `checkLeader`, so up to `MaxOutstanding` commands of overlapping
checks are in flight. A `get` changes nothing and is taken to be sent when Redis executes it; the
renewal (`setExpiration`) shows as the guard `Holds`: a key expires (`Expire`) when no process with its
host id is alive to renew it, or lapses (`Lapse`) although one is, at most `MaxLapses` times. `Crash`,
`Stop`, `Resign` (shutdown) and `Exit` end a process; a restart is another member of `Main`, with a
new host id or, as in a container with a fixed host name, the same.

### WaitTracker

Each process has the interval (`mainTimer`, and in `strays` that it has another one that `mainTimer` has
lost: `startTracking` does not look whether it tracks already; `Polls` is either), query results it has not looked at (`scans`),
`waitingExecutions` (`entries`), armed timers and claims under way (`resuming`). `HandleReply` joins a
reply of the election with the event it emits and the handler of the tracker; handlers are there from
`Register` on. A row is claimed by the conditional update of `ActiveExecutions.add`, of which this is
all that matters here; what a worker does with the execution is reduced to its end or its next wait.
Time is abstracted: a timer fires at any moment after it is armed. A process asked to stop while it
boots is taken to crash there.

`SlowBoot` says whether replies of Redis are handled between `WaitTracker.init` and
`registerEventHandlers`. They can be, checks overlap, and a container restarts under its host id: the run
has all three. Neither `FollowersDoNotPoll` nor `LeadersTrack` nor `EveryWaitIsResumed`, which comments
promise, holds then (*Findings*). What holds is `PollersHoldTheKey`, and that a wait is forgotten only
while some leader does not track because it has never heard that it leads (`LeadsUnheard`).

### TaskRunners

`TaskChannels` holds a FIFO channel each way per runner and whether the connection is `new`, `open`
(a known runner of the broker) or `closed`; a message posted to a dead or unknown runner is lost, as
`messageRunner` and `TaskRunner.send` lose it. A runner connects once; a reconnection is another member
of `Runner`, as the broker sees it. An offer is accepted at most once, so `<<runner, number>>` names both
the offer and the task made of it.

*Runner.* `openOffers`, `taskState`, `canSendOffers` are its fields of that name (`runningTasks` is where
`taskState` is not `"none"`). The handlers of `onMessage` are one action each: `StartOrStopOffers`
(registered, drain, close), `OfferAccepted`, `TaskCancelled`, `ReceivedSettings`; beside them the timers
(`OfferTick`, `TaskTimedOut`) and the end of a task (`ExecutionEnds`), and `Crash`. `SendOffers` is the
whole of `sendOffers`, with the clean-up of stale offers: time is abstracted, so any offer may be stale.
A launcher makes one offer and defers (`LauncherOffers`, `LauncherDefers`); it is modelled from what the
broker does with it (`RUNNER_DEFERRED`, offers valid for ever).

*Broker.* `pendingTaskOffers`, `pendingTaskRequests`, `tasks` are its fields; `acceptInProgress`,
`requestTimer` and `taskTimer` the flag and the timeouts of requests and tasks; `accepting` says which
`acceptOffer` awaits which runner. `Settle` is `settleTasks`: expired offers are dropped and every
request without an accept under way gets the first offer left, in order. `HandleAnswer` is
`onRunnerMessage`, with `RunnerAccepts`, `GiveUp`, `Defer` as the three ways on which an `acceptOffer`
continues; `status` and `assigned` are the requester, which runs in the process of the broker and is
called directly. Timers: `RequestTimeout`, `AcceptTimeout`, `TaskTimeout`; connections: `Register`,
`Deregister`; `StartDraining`.

*TaskService* has three variables: where each `startTask` stands, which requests were granted a task, and
how often the code of each has begun to run. `granted` is mapped to the requests that have a task id;
the others keep their names.

Abstracted: external mode (on a task timeout the broker sends a cancel; in internal mode it kills the
runner, which is `Crash` and `Deregister`), one task type, and the requests for data, node types and RPC
calls, which change no state the properties see. Left out: the idle timeout of a runner, the two second
limit on the answer of the requester (it answers in the same process, at once), and entries of
`runnerAcceptRejects` for runners that are gone.

### ScalingService

`row` is the status column, `job` and `holder` the Bull job of an execution and the worker that has taken
it. `JobQueue` models of Bull what `ScalingService` and its options rely on: a job is handed to one
worker, leaves the active ones only through that worker, and stalls when its lock expires, because the
worker died or was too busy (`MaxStalls` bounds the latter); with `maxStalledCount: 0` it then fails.

*Worker* (`JobProcessor`). `work[w][e]` is how far `processJob` has come, one action from await to
await: `PickUp`, `ReadRow`, `SetRunning`, `StartRun`, `SaveProgress`, `EndRun`, `Save` (the hooks of a worker; a
workflow can end in success, error, cancellation or a wait), `Return`, `Throw`; `Caught` and `Resave` are
the catch of the engine, as in `ActiveExecutions`; `StopJob` is the message `abort-job`, `SaveCanceled` the
save that the cancellation starts and nobody awaits, `WorkerCrash` ends a worker.

*Main* (`ScalingService`). `main[e]` is how far `enqueueExecution` has come: `AddExecution` (row and
entry), `AddJob`, `Attach` (with the hook before it, which can throw when the job is in the queue
already), then `JobCompleted` or `JobFailed`; each can end in `ProcessError` with `FinalizeFailed` and
`SaveError` behind it. `awaited` are the executions whose job the main has come to wait for. `StopRequest`, `StopExecution`, `StopDuringRun`, `StopActiveOrInactive` are a stop request:
the check of the row, `activeExecutions`, the write, and `onCancel` with `scalingService.stopJob`.
`RecoverFromQueue` has the two reads and the write of queue recovery as steps of their own, since it
awaits each; `LeaderTakeover`, `LeaderStepdown` start and stop it. `leader` is abstract here: at most one
main, as `MultiMainSetup` shows in the absence of lapses.

*Failures.* Every access to the database and every hook, of a worker or a main, can fail, with no bound on
how often. Where the code then neither finalizes nor saves the execution (the sanity read of
`processError`, the result of a completed job that cannot be read, an error that says "cancelled"), it is
`abandoned`: its entry stays for ever. `unsaved` are the rows of which a last write failed, as in
`ActiveExecutions`; here the recovery finds them.

Abstracted: the batch size of recovery (every row in progress is read); recoveries of one main that
overlap after a quick stepdown and take-over (one at a time); a recovery that fails and waits for its
next turn (it retries with a timer, which stutters here). Left out: the resume of a waiting execution in
queue mode, the graceful shutdown of a worker, webhook processes, the messages that carry responses and
chunks, MCP, queue metrics, an abort message lost for another reason than a crash, and the clean-up of
`jobResults`. One stop request per execution is modelled; it may arrive at any main, and a main that does
not run the execution only writes the row.

## Runs

| run | instance | question and answer |
| --- | --- | --- |
| `admission` | 6 reservations, 5 executions, both limits 1 | Do the counters, lines and reservations stay in step under throttle, release, remove, removeAll, disable in any order? Yes; and nobody in line is forgotten. |
| `executions_resume` | one execution that waits, two resume requests, one row left at boot; limit 2; waits, a stop, failed accesses to the database, shutdown; 1.7 million states | Does anything ever run twice, or a resume meet the engine it resumes? No. Does the module use admission control by its contract (refinement)? Yes. Does a reservation leak, or a run go on without one? Only that of an execution that goes to wait and is stopped or resumed at once; that of an abandoned call stays with its entry (*Findings*). |
| `executions_finish` | two new executions, limit 1; waits, a stop, timeouts, failing credentials, launches, database accesses and hooks; fairness | Does a promise stay pending, a line stand still (as it would if a reservation leaked), a row stay at running? Only for a call that `run` has abandoned, an execution that goes to wait and is stopped at once, and a row that could not be saved; the line stands still only if such calls fill the limit. |
| `leadership` | 3 processes, two with one host id; 2 commands in flight; 1 lapse | Can there be two leaders, does a shutdown delete another's key, do role and key agree in the end? Only after a lapse; no unless lapsed; yes. |
| `wait_tracking` | 3 mains, one restarting another under its host id; overlapping checks of one, slow boots; 1 execution, 1 wait, no lapse; 472,000 states | Is a wait resumed twice, does anybody poll but the holder of the key, does a fail-over forget a wait? No; no; only while a leader has not heard that it leads. |
| `task_runners` | a launcher (1 offer), a runner (2 offers, 2 slots), 2 requests, 1 runner lost; 1.3 million states | Are slots exceeded, do broker, requester and runner disagree on who has which task, do settings come for a task that runs, does code run twice? No. |
| `task_service` | the same with 1 request and 1 slot; fairness | Is every request answered (the refinement of `TaskService` with its liveness), does every slot and every task of the broker come back? Yes. |
| `scaling` | 2 mains, 2 workers, 1 execution, 2 crashes, 1 false stall, 1 stop, 1 handover, any failures; 3.1 million states | Does an execution run twice, is a settled one whose job was awaited still worked on, does anybody overwrite a success that he could have seen? No. |
| `queue_recovery` | the same without stop and handover; fairness; 162,000 states | Does the main get through with what it enqueued, also when the worker dies in the middle of a run? Yes, unless it dies itself or a failure of its own makes it abandon the execution. Does a row stay in progress for ever, whatever crashed or failed? No. |
| `boot_enqueued` | a row left new | *Violation.* Enqueued executions found at boot are rejected by the resume path of `add`. |
| `recovery_marks_dangling` | as `queue_recovery` | *Violation.* Queue recovery marks as crashed what is in the queue, or has just succeeded. |
| `settled_is_answered` | as `queue_recovery` | *Violation.* A job that stalled although its execution was successful leaves its callers waiting. |

Why the bounds are enough. *Admission:* the interesting cases need a holder, two in line, two
reservations of one execution (so that `remove` finds the wrong one), a second queue that must stay
untouched and an unlimited mode; limit 1 makes every boundary near; the theorems cover every other
size. *Executions:* an interaction is between a run, a second caller and a stop; two resumes are needed
for a race, a third call to hold capacity against them; limit 2, since with limit 1 a resume waits in line
until the run that goes to wait has given its unit back, and the two never meet. *Leadership:* two contenders and a restart; two
commands in flight let every pair of overlapping checks interleave; one lapse shows everything a second
could start from, since after it the system recovers to a single leader. *Wait tracking:* the trackers
do not look from one execution to another, so one execution is general; a second wait repeats the
first with a new claim; the key is fought for by two processes, one of which has overlapping checks, and
by a restart of it. A lapse is what the properties except. The theorems cover any number of all of them. *Task runners:* two requests compete for an offer and are deferred around each
other; three offers let a request be deferred, given up and served; two slots and two offers let a
stale offer, a late accept and a task meet at the limit; the loss of either runner at any moment is
covered. The safety properties are proved for every size. *Scaling:* executions meet only in the lists of a
recovery, which treats each id by itself, so one execution is general; a crash of the main that
enqueues and of the worker that runs need two crashes, and one of each kind remains to go on; a false
stall needs a worker that lives. A stop is left out under fairness, since both properties there end with
it or are not about it, and a handover, since the recovery of a new leader starts from nothing. The safety properties are proved for every size.

`CHECK_DEADLOCK FALSE` is set where the system really stops: all executions ended, all processes down,
all offers used up.

## Fairness

*ConcurrencyControl:* an admitted execution ends and releases; the loop of `removeAll` goes on. The
first is what the workflow engine and its timeout are for. *ActiveExecutions:* every pending
continuation of the event loop runs (`Progress` of each call), and a workflow that runs ends; nothing is
assumed of failures (`Failure`) and other events of the environment, they may happen or not, but a stop request that was started goes on. *MultiMainSetup:*
Redis answers and replies are handled, the interval of `checkLeader` fires when nothing of the process
is in flight, a key that nobody renews expires, a shutdown goes on. *WaitTracker:* besides, intervals and
timers fire and queries return. Nothing is assumed of starts, crashes, lapses, waits, stops: these may
happen or not. `EventuallyOneLeader` and the `EveryWait...` properties are conditional on a process that
stays up, `EveryWaitIsResumedIfLeadersTrack` also on no lapse and on leaders that know that they lead. *TaskRunners:* messages are handled, timers fire, and the connection of a dead runner is
noticed (the heartbeat of the websocket server); a task that was aborted ends; nothing is assumed of code
that runs, and nothing of crashes and drains. *ScalingService:* living processes go on from await to
await, a waiting job is taken by some worker, Bull finds jobs of dead workers, some main becomes leader
and its recovery has its turns, and a workflow that runs ends, as in `ActiveExecutions` (of its worker
nothing is assumed: it may crash at any step).

## What is proved

Every safety property of a passing run is stated by a theorem. The runs show the properties on small
instances; the theorems hold for all values of the constants that the named assumptions allow.

`ConcurrencyControlProofs` proves, for every finite set of calls, any modes and any limits that the
constructor accepts (`CallAssumption`, `LimitAssumption`; the constructor throws on 0):

- `Invariant`: the inductive invariant `IInv` holds in every reachable state;
- `TypeCorrect` (`TypeOK`), with the ids that a running `removeAll` has still to take out, which are ids
  of the lines (`SelectAtType` of `SelectionProofs`: a filter adds nothing);
- `LinesNeverDrift` (`LinesAreTheQueuedCalls`), `CapacityNeverDrifts` (`CapacityAccounting`),
  `NoLostWakeUp` (`NoIdleCapacity`), `AdmissionIsBounded` (`AdmissionBound`),
  `NobodyOvertakes` (`NoOvertaking`).

Why the checked properties alone are not inductive: that the counter is right after a dequeue depends on
the head of the line being a throttled reservation of that queue and not in it twice; that nobody waits
while a unit is free depends on the counter being right, since the code only looks at the counter; and
the bound depends on how many were dropped. `IInv` therefore says, per queue, that the line is exactly
the throttled reservations (`LineOf`, always), and, while control is on, that the counter is the limit
less held and waiting (`CountsOf`) and both bounds (`BoundsOf`). They are stated as operators of the
capacity, the line and the reservations, so that a step is reasoned about in two halves: what taking
one out does (`TakeOutLine`) and what letting the next one through does (`ResolveNextLine`); both
operations `dequeue` and `remove` end in `GiveBack`. `OneQueueStep` reduces a step to the queue it
touches, since a mode belongs to at most one queue (`OneQueue`).

`TaskRunnersProofs` proves, for any finite sets of runners and requests, any offers, losses and
`MaxConcurrency > 0` (`ChannelAssumption`, `ConcurrencyAssumption`; `None` is no offer, `NoneAssumption`):

- `SlotsAreBounded`: a runner never has more open offers and tasks than slots (`SlotsBound`);
- `TypeCorrect` (`TypeOK`);
- `BrokerAndRunnerAgree`: a task that the broker knows at a living runner is there, or its end is on its
  way (`TasksAreAtTheirRunner`);
- `SettingsComeInTime` (`SettingsAreExpected`, an action property): settings come for no task that runs;
- `RunningRequestsAreWatched`: a `startTask` waits for a result exactly when the broker has its task with
  a timeout armed (`RunningRequestHasItsTask`).

*Slots.* `SlotsBound` alone is not inductive: an accepted offer gives its slot to its task only if it was
among the open offers of that runner, and a launcher, whose offer does not look at slots, must have no task.
`SlotsIInv` adds both, with the types of the three variables concerned. `SendOffersKeepsSlots` is the
step that matters: the new offers are counted (`NewOffersBound`) against what the offers that are kept
and the tasks leave.

*Types* need `RunningIsGranted` (a request that runs has a task id, else `CancelTask` would send a
cancel for no task) and `SlotsIInv` (a runner counts its offers right).

*Broker and runner.* Neither `TasksAreAtTheirRunner` nor `SettingsAreExpected` is inductive: whether a
runner still has a task when the broker records it, or has begun it when settings come, depends on the
messages on their way. `LifeInv` follows each offer from one side to the other: it is made, pending,
asked for, answered, and then a task at either side, never in two of the earlier places at once
(`LifeOf`). Both channels are FIFO, and the order matters: what is about one offer is said in turn
(`InTurn`: nothing precedes an `offer` or an `offeraccept`, and only an `ended` or a `cancel` follows
another message). So when the broker handles an answer, the runner has at most ended the task meanwhile,
and says so behind the answer; and a request for an offer that the runner gave up is rejected before
anything else is said. `TailInTurn` and the lemmas after it say what taking and appending a message do
to the order; the steps are then read off the table of `LifeOf`.

*Broker and requester.* `RequestInv` says that a running request and an armed task point to each other. A
step that answers requests forgets their tasks with them (`SettledForgotten`); the grant needs `LifeOf`: the
offer just accepted has no task yet, so that no other request loses its own.

`TaskServiceProofs` proves, from the same assumptions:

- `ImplementsSafety` (`ServesAtMostOnce`): every step of the broker or of a runner is a step of
  `TaskService` or changes nothing that it sees.

The refinement needs to know that a request whose settings are handled has a task and has not run:
`OnceInv` says that the settings of a request are under way at one place at most, only after it was granted
a task, and that its code has not run as long as they are. Most steps send no settings (`NoNewSettings`);
what stays to be proved is the grant (`GrantStep`), which sends the only copy, and the arrival
(`ReceivedSettingsServes`), which takes it away.

`ScalingServiceProofs` proves, for any mains, workers and executions and any number of crashes, stalls
and handovers, with every access to the database and every hook failing or not (`QueueAssumption`,
`ScalingAssumption`):

- `TypeCorrect` (`TypeOK`), `RunsOnceHolds` (`RunsOnce`), `SettledMeansOverHolds` (`SettledMeansOver`),
  `SuccessIsBelievedHolds` (`SuccessIsBelieved`, an action property).

That an execution runs once needs to know where it can still begin to: only a waiting job, or a worker
that holds it, in a phase before the run; and that a job never waits again. That it is over when its main
is through needs the worker's phase for each state of the job (`SettleInv`); the exceptions of
`SettledMeansOver` are the failures that *Findings* shows to falsify it without them. The comments in the module lead from the
invariants to the theorems.

`ActiveExecutionsProofs` proves, for any calls, executions, origins and events of the environment
(`OriginAssumption`, `ControlAssumption`):

- `TypeCorrect` (`TypeOK`), `OneRunner` (`AtMostOneRunner`), `WaitingIsIdle` (`WaitingRowIsIdle`);
- `UsesControlByContract` (`RefinesConcurrencyControl`): every step is one operation of admission control
  or leaves it alone. With the theorems above, the counters and lines are right in this use of it, too;
- `ReservationsAreOwned` (`NoLeak`): a reservation has an owner, which gives it back unless `run` has
  abandoned it, or its execution is to wait; `RunningCounts` (`WatchedRunHoldsReservation`): a new workflow that runs counts against the
  limit until it ends, is cancelled or is to wait.

That an execution has one runner depends on `WaitingRowIsIdle`, since a resume claims a row that waits; and
on `FreshInv`, since the call that creates an execution claims its row without a condition: until it does,
the row is new or canceled, so that nobody else can have claimed it, and no cancelled engine of it has
still to save. The refinement needs that `removing` stays empty: `shutdown` calls `removeAll` only after
`disable`.

That no reservation leaks takes five facts that only hold together. A release lets a call in line through, so
the line must be the throttled calls and no other (`LineInv`), and a call in line must not have got further,
while one that claims its row has its reservation (`SlotInv`). An entry holds its reservation until it waits,
and waits if its row says so (`EntryInv`), just as its engine is to (`WaitInv`). And since
`finalizeExecution` and `add` find entries by id, `OwnerInv` says that no entry of another call comes in the
place of an owner's: a resume displaces only an entry that waits. *Findings* (`FinalizesItsOwn`) shows how
narrow this is: the entry of a resumed run *can* be finalized by the engine before it, which is why `NoLeak`
excepts an execution that is to wait, and `WatchedRunHoldsReservation` besides what was resumed.

`MultiMainSetupProofs` proves, for any processes, host ids, commands under way, crashes and lapses
(`MainAssumption`):

- `TypeCorrect` (`ElectionTypeOK`), `AtMostOneLeader` (`OneLeaderUnlessLapsed`), `ResignsItsOwn`
  (`ResignClearsOwnKey`).

A process *claims* the key when it leads or a success is on its way to it. `LeaseInv` says that, unless the
key has lapsed, the key of a process that claims it holds its host id; `OnePerHost`, that processes with
one host id do not live at once. Together they leave one claimant. The protocol part of `ElectionIInv`
fixes which commands and replies can be under way in each phase, so that a refusal or a deletion is never
taken for something else.

`WaitTrackerProofs` proves, besides (`TrackerAssumption`):

- `TrackerTypeCorrect` (`TrackerTypeOK`), `ResumedOnce` (`ResumedOncePerWait`), and `OnlyKeyHoldersPoll`
  (`PollersHoldTheKey`: unless the key lapses, nobody polls but the process whose key it is);
- `OnePolls`: unless the key lapses, at most one process arms the timers of waiting executions;
- `TrackersElect`: mains with their trackers implement the safety part of `MultiMainSetup`, with its own
  variables (`ElectionInit` and `[][ElectionNext]_electionVars`), so that its theorems hold of them.

`ResumedOnce` counts claims against waits, with one more allowed while the row waits (`ResumedInv`). All
of them hold with any number of overlapping checks, slow boots and restarts under the same host id.

`ConcurrencyControlProofs` has one action property more: `LineRestsOnceDisabled`
(`NoAdmissionFromLineOnceDisabled`), from the fact that no `removeAll` is under way once control is off.

Only model-checked: the liveness properties, since fairness and `ENABLED` are beyond the prover. These are
`EveryoneInLineLeavesIt`; `EveryEntrySettles`, `EveryoneThrottledGetsATurn`, `NoRowStaysRunning`;
`EventuallyOneLeader`; `EveryWaitIsResumedIfLeadersTrack`; the liveness half of `ImplementsTaskService`,
`SlotsComeBack`, `TasksAreForgotten`; `EnqueuedIsSettled`, `NoRowIsLeftInProgress`.

## Findings

Each violation run states what a comment of the code says and shows what the code does instead; the
lines are in `PROJECT.json`.

- `boot_enqueued`: executions that were enqueued at shutdown are rejected when they are started at boot
  (`active-executions.ts:112`), since `add` takes any run with an id for a resume.
- `recovery_marks_dangling`: `recoverFromQueue` reads the rows in progress and then the jobs
  (`scaling/scaling.service.ts:610-621`); an execution enqueued or finished in between is marked crashed,
  and a worker that picks up its job then skips it.
- `settled_is_answered`: when `job.finished()` rejects for a stall and the sanity check finds the
  execution successful, `processError` returns without `finalizeExecution` (`workflow-runner.ts:106`).

More definitions in the modules state what a comment or test says and the code does not do. Each can be
seen by adding it to the configuration named; they are not among the runs, to keep those few.

| definition | in | add it to | what TLC shows |
| --- | --- | --- | --- |
| `LimitRespected` | `ConcurrencyControl` | `MCConcurrencyControl.cfg` | Taking an execution out of the line lets the next one through although none finished (`concurrency-queue.ts:53`), so more than the limit run; `AdmissionBound` is what holds. |
| `ForgottenEntryHasSettled` | `ActiveExecutions` | `ExecutionsResume.cfg` | A stop between `putExecutionToWait` and the end of the engine forgets an entry whose promise is pending (`active-executions.ts:213`). |
| `FinalizesItsOwn` | `ActiveExecutions` | `ExecutionsResume.cfg` | An engine saves its row as waiting, a resume claims it and registers its entry, and then the engine resolves: `finalizeExecution` finds the entry by id and settles that of the resumed run, whose reservation is released while it runs; its own reservation stays (`active-executions.ts:150`, `workflow-runner.ts:357`). |
| `StoppedDoesNotRun` | `ActiveExecutions` | `ExecutionsFinish.cfg` | A stop before `attachWorkflowExecution` settles the entry, and the workflow runs all the same (`active-executions.ts:216`). |
| `EveryWaitIsResumed` | `WaitTracker` | `MCWaitTracker.cfg`; also with `TwoMains`, `TwoHosts`, `OneEach`, `SlowBoot = FALSE`, `MaxLapses = 1` | A leader that does not track (below) resumes nothing. In the second instance: after stepping down and taking over again a tracker never arms the timers it cleared (`wait-tracker.ts:77`). |
| `LeadersTrack` | `WaitTracker` | `MCWaitTracker.cfg` with `TwoMains`, `SameHost`, `OneEach`, `SlowBoot = FALSE` | A process that finds its own host id in the key leads without `leader-takeover` (`multi-main-setup.ee.ts:88`). |
| `LeadersTrack` | `WaitTracker` | `MCWaitTracker.cfg` with `TwoMains`, `TwoHosts`, `OneEach` | A take-over before `registerEventHandlers` is heard by nobody (`commands/start.ts:264`). |
| `FollowersDoNotPoll` | `WaitTracker` | `MCWaitTracker.cfg` | Two overlapping checks find the key vacant; the first takes it, the second is refused and makes the new leader a follower without `leader-stepdown` (`multi-main-setup.ee.ts:141`): it polls on, though the key is its own. |
| `PendingOnce` | `TaskRunners` | `MCTaskService.cfg` | A deferred request is put into `pendingTaskRequests` although it is still there (`task-broker.service.ts:566`; the test `task-broker.service.test.ts:1017-1052` expects one copy). `ServesAtMostOnce` shows that it does no harm. |

What failures do, found by leaving the exceptions out of the properties named:

| property without | what TLC shows |
| --- | --- |
| `EveryEntrySettles`, `EveryoneThrottledGetsATurn`, `NoRowStaysRunning` without `abandoned` | A throw in `workflow-runner.ts:225-274` (static data, settings, `setRunning`), or of a hook at 160-161, comes after `add` and before or beside any `try`: the promise of the entry never settles, the reservation is never released, so that with a limit of 1 whoever is in line never gets a turn, and the row stays running. An error message with "cancelled" in it does the same (87). |
| `NoRowStaysRunning` without `unsaved` | A final save that fails is repeated once by the catch of the engine and then swallowed (`packages/core/src/execution-engine/workflow-execute.ts:2290`): the entry settles, the row says running. |
| `SettledMeansOver` for every execution, not only the awaited | A hook that throws at `workflow-runner.ts:418` finds the job in the queue: the main finalizes the execution as failed, and a worker runs it later, over the failed row. |
| `SettledMeansOver` without `unsaved` or "waiting" | A worker whose final save failed completes its job with the row running; a workflow that goes to wait ends its job, too. |
| `EnqueuedIsSettled` without `abandoned` | The result of a completed job cannot be read (`workflow-runner.ts:487-496`), the sanity read of `processError` throws (101), or the error says "cancelled" (87): the entry stays at the main for ever. |
| `SuccessIsBelieved` with recoveries and mains alone as `Doubters` | A handler that throws after a worker has stored the success makes the engine save an error over it. |

Two more, which no property above excepts, since they need no exception: a handler that throws after the
engine has saved its row (in regular mode, too) makes the catch run the hook again, over a row that says
success or that a resume has claimed meanwhile (`LaterHookThrows`); and a second `leader-takeover` in one
reign, after a lapse between two overlapping attempts on the key, leaves an interval that no stepdown
clears (`strays`).

An entry that is abandoned also keeps `shutdown` waiting for it, for as long as the process is given
(`active-executions.ts:329-338`).

Also seen while modelling: `shutdown` of `ActiveExecutions` disables admission control before it calls
`removeAll`, which then does nothing; `TaskRequester.cancelTasks` does not find a request that still
waits, so its code may run after its execution was cancelled; `StopJob` finds no running job before the
workflow has started, so such a stop only writes the row, which the run then overwrites.

## Not modelled, and why

The scheduling of nodes in the engine: planned, see below. Webhooks, activation, insights, pub/sub and
pruning: later candidates. The REST API, credentials, users, editor, nodes (two thirds of the repository)
and AI features are request handlers over database transactions, pure data transformation or third-party
I/O; the scripts under `sovereignty/` run outside n8n's processes.

Within the modelled components: parent executions that wait for a child (`wait-tracker.ts:147-167`),
responses to webhooks, the license check, telemetry, and what the sections above list as left out.

## Plan

1. *Done:* admission control, executions of a main process, leadership and wait tracking, with proofs.
2. *Done:* task broker, requester and runners over FIFO channels, with `TaskService` as the abstract
   specification; all its safety, with the refinement, proved.
3. *Done:* scaling mode: mains, Bull queue, workers, stops, stalls, crashes, queue recovery; its safety
   proved.
4. `NodeStack`: the scheduling of nodes in `workflow-execute.ts`: the execution stack, waiting inputs of
   nodes with several inputs, retries; checked against a reference definition on small graphs.
5. Parents and children in `ActiveExecutions`; activation with retries in `active-workflow-manager.ts`.
6. *Done:* proofs of every safety property that the runs check, for executions, leadership, wait tracking,
   task runners and scaling mode.
