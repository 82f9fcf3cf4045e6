---------------------------- MODULE TaskRunners ----------------------------
(***************************************************************************)
(* A task broker and its runners.                                          *)
(***************************************************************************)
EXTENDS TaskBroker, TaskRunner

vars == <<channelVars, brokerVars, runnerVars>>

TypeOK == ChannelTypeOK /\ BrokerTypeOK /\ RunnerTypeOK

Init == ChannelInit /\ BrokerInit /\ RunnerInit

Next ==
  \/ BrokerStep /\ UNCHANGED runnerVars
  \/ \E r \in Runner : RunnerStep(r) /\ UNCHANGED brokerVars

\* The event loops of the broker and of living runners go on, timers fire, and
\* the connection of a dead runner is noticed.  Nothing is assumed of code that
\* runs in a task; only that it ends once it was aborted.
Spec ==
  /\ Init /\ [][Next]_vars
  /\ \A r \in Runner :
       /\ WF_vars((HandleAnswer(r) \/ HandleOffer(r)) /\ UNCHANGED runnerVars)
       /\ WF_vars(RunnerHandles(r) /\ UNCHANGED brokerVars)
       /\ WF_vars(r \in crashed /\ Deregister(r) /\ UNCHANGED runnerVars)
  /\ \A q \in Request : WF_vars(RequestTimeout(q) /\ UNCHANGED runnerVars)
  /\ \A t \in Offer :
       /\ WF_vars(AcceptTimeout(t) /\ UNCHANGED runnerVars)
       /\ WF_vars(TaskTimeout(t) /\ UNCHANGED runnerVars)
       /\ WF_vars(TaskTimedOut(t) /\ UNCHANGED brokerVars)
       /\ WF_vars(taskState[t] # "running" /\ ExecutionEnds(t) /\ UNCHANGED brokerVars)

-----------------------------------------------------------------------------

(* Safety                                                                    *)

\* Offers that may still be accepted and tasks add up to no more than the runner
\* has slots, however offers expire, are accepted too late or are renewed.
SlotsBound == \A r \in Runner : Slots(r) <= MaxConcurrency

\* receivedSettings: "These states should never happen": no settings come for a
\* task that runs or is being aborted, whatever timeouts do at either side.
SettingsAreExpected ==
  [][\A r \in Runner : ReceivedSettings(r) =>
       taskState[Head(toRunner[r]).task] \in {"none", "waitingForSettings"}]_vars

\* The end of t is on its way to the broker.
EndIsSent(t) ==
  \E i \in DOMAIN toBroker[t[1]] : toBroker[t[1]][i] = [type |-> "ended", task |-> t]

\* Broker and runner agree: a task that the broker knows at a living runner is
\* there, or its end is on its way.  Else it would hold a drain up for ever.
TasksAreAtTheirRunner ==
  \A t \in Offer :
    (tasks[t] # None /\ Alive(t[1])) => (taskState[t] # "none" \/ EndIsSent(t))

\* Broker and requester agree: a startTask waits for a result exactly when the
\* broker has its task, with a timeout armed; so something will answer it.
RunningRequestHasItsTask ==
  \A q \in Request :
    status[q] = "running" <=> \E t \in taskTimer : assigned[q] = t /\ tasks[t] = q

Service == INSTANCE TaskService WITH granted <- {q \in Request : assigned[q] # None}

\* The broker and the runners implement the safety half of TaskService: code
\* runs once at most and for a granted request only, answers are final.
ServesAtMostOnce == Service!Safety

-----------------------------------------------------------------------------
(* Liveness                                                                  *)

\* And its other half: every request is answered.
ImplementsTaskService == Service!Spec

\* A slot is free again some day, even if the broker has lost interest in the
\* task without a word.
SlotsComeBack == \A t \in Offer : taskState[t] # "none" ~> taskState[t] = "none"

\* The broker does not keep a task for ever, be it one it accepted too late
\* (drainActiveTasks waits until it has none).
TasksAreForgotten == \A t \in Offer : tasks[t] # None ~> tasks[t] = None

-----------------------------------------------------------------------------
(* What a test says and the code does not do                                 *)

\* "should reset timeout on request deferred": once it was deferred, a request is
\* in pendingTaskRequests one time.
PendingOnce ==
  \A i, j \in DOMAIN pendingTaskRequests :
    pendingTaskRequests[i] = pendingTaskRequests[j] => i = j

=============================================================================
