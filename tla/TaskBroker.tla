----------------------------- MODULE TaskBroker -----------------------------
(***************************************************************************)
(* TaskBroker with the LocalTaskRequester of its process.  They call each  *)
(* other directly and await nothing but promises that are settled, so from *)
(* a message or a timer to the end of what it triggers is one step.        *)
(*                                                                         *)
(* acceptOffer awaits the answer of a runner; what it does then depends on *)
(* how it was woken: RunnerAccepts, GiveUp (reject, timeout), Defer.       *)
(***************************************************************************)
EXTENDS TaskChannels

VARIABLES
  pendingTaskOffers,    \* Seq(Offer)
  pendingTaskRequests,  \* Seq(Request)
  acceptInProgress,     \* requests with that flag
  requestTimer,         \* requests whose timeout is armed
  accepting,            \* [Offer -> the request whose acceptOffer awaits the runner]
  tasks,                \* [Offer -> the request of the task, None if there is none]
  taskTimer,            \* tasks whose timeout is armed
  isDraining,
  status,               \* [Request -> where its startTask stands]
  assigned              \* [Request -> its task id once it is accepted]

brokerVars == <<pendingTaskOffers, pendingTaskRequests, acceptInProgress, requestTimer,
                accepting, tasks, taskTimer, isDraining, status, assigned>>

Status == {"idle",      \* not called
           "waiting",   \* its entry is in requestAcceptRejects
           "running",   \* its task is in the tasks of the requester
           "answered"}  \* it has returned or thrown

BrokerTypeOK ==
  /\ pendingTaskOffers \in Seq(Offer)
  /\ pendingTaskRequests \in Seq(Request)
  /\ acceptInProgress \subseteq Request
  /\ requestTimer \subseteq Request
  /\ accepting \in [Offer -> Request \cup {None}]
  /\ tasks \in [Offer -> Request \cup {None}]
  /\ taskTimer \subseteq {t \in Offer : tasks[t] # None}
  /\ isDraining \in BOOLEAN
  /\ status \in [Request -> Status]
  /\ assigned \in [Request -> Offer \cup {None}]

BrokerInit ==
  /\ pendingTaskOffers = <<>>
  /\ pendingTaskRequests = <<>>
  /\ acceptInProgress = {}
  /\ requestTimer = {}
  /\ accepting = [t \in Offer |-> None]
  /\ tasks = [t \in Offer |-> None]
  /\ taskTimer = {}
  /\ isDraining = FALSE
  /\ status = [q \in Request |-> "idle"]
  /\ assigned = [q \in Request |-> None]

-----------------------------------------------------------------------------
(* Matching                                                                  *)

\* The requests to look for an offer for, in order.  Two copies of a request
\* share the flag, so the second is passed over once the first has an offer.
Unmatched(requests) ==
  SelectAt(requests, {i \in DOMAIN requests : /\ requests[i] \notin acceptInProgress
                                        /\ \A j \in 1..(i - 1) : requests[j] # requests[i]})

\* What r is sent about those of the matched offers that are its own, in order.
Accepts(r, matched) ==
  LET mine == SelectAt(matched, {i \in DOMAIN matched : matched[i][1] = r})
  IN [k \in DOMAIN mine |-> [type |-> "offeraccept", task |-> mine[k]]]

\* settleTasks: drop expired offers, and give each request the first offer left.
Settle(offers, requests) ==
  \E expired \in SUBSET {t \in ToSet(offers) : t[1] \notin Launcher} :
    LET valid == SelectAt(offers, {i \in DOMAIN offers : offers[i] \notin expired})
        free == Unmatched(requests)
        n == IF Len(valid) < Len(free) THEN Len(valid) ELSE Len(free)
        matched == SubSeq(valid, 1, n)
    IN /\ pendingTaskOffers' = SubSeq(valid, n + 1, Len(valid))
       /\ pendingTaskRequests' = requests
       /\ acceptInProgress' = acceptInProgress \cup {free[i] : i \in 1..n}
       /\ accepting' = [t \in Offer |->
            IF t \in ToSet(matched) THEN free[CHOOSE i \in 1..n : matched[i] = t] ELSE accepting[t]]
       /\ toRunner' = [r \in Runner |-> Posted(r, Accepts(r, matched))]

-----------------------------------------------------------------------------
(* The requester                                                             *)

\* startTask sends its request: taskRequested.  A draining broker refuses it.
RequestTask(q) ==
  /\ status[q] = "idle"
  /\ IF isDraining
     THEN /\ status' = [status EXCEPT ![q] = "answered"]
          /\ UNCHANGED <<pendingTaskOffers, pendingTaskRequests, acceptInProgress, requestTimer,
                         accepting, toRunner>>
     ELSE /\ status' = [status EXCEPT ![q] = "waiting"]
          /\ requestTimer' = requestTimer \cup {q}
          /\ Settle(pendingTaskOffers, Append(pendingTaskRequests, q))
  /\ UNCHANGED <<link, crashed, toBroker, tasks, taskTimer, isDraining, assigned>>

\* Fault: the timeout of a task that ends stays armed.
ForgetKeepsTimer(ts) ==
  /\ tasks' = [t \in Offer |-> IF t \in ts THEN None ELSE tasks[t]]
  /\ UNCHANGED taskTimer

\* The tasks ts end for the broker.
Forget(ts) ==
  /\ tasks' = [t \in Offer |-> IF t \in ts THEN None ELSE tasks[t]]
  /\ taskTimer' = taskTimer \ ts

\* taskDone, taskError, of the requester: it settles the promises that wait for
\* one of the tasks ts.
Settled(ts) ==
  status' = [q \in Request |->
    IF status[q] = "running" /\ assigned[q] \in ts THEN "answered" ELSE status[q]]

\* cancelTasks, when the execution is cancelled: a task that runs is cancelled in
\* the broker (cancelTask) and the promise rejected.  A request is not found.
CancelTask(q) ==
  /\ status[q] = "running"
  /\ status' = [status EXCEPT ![q] = "answered"]
  /\ LET t == assigned[q]
     IN /\ Forget({t})
        /\ IF tasks[t] = None THEN UNCHANGED toRunner ELSE TellRunner(t[1], [type |-> "cancel", task |-> t])
  /\ UNCHANGED <<link, crashed, toBroker, pendingTaskOffers, pendingTaskRequests,
                 acceptInProgress, requestTimer, accepting, isDraining, assigned>>

-----------------------------------------------------------------------------
(* The answer of a runner to an accepted offer                               *)

\* acceptOffer is over for t.
Woken(t) == accepting' = [accepting EXCEPT ![t] = None]

\* The request can be matched again, with the next offer or request.
GiveUp(t) ==
  /\ Woken(t)
  /\ acceptInProgress' = acceptInProgress \ {accepting[t]}
  /\ UNCHANGED <<pendingTaskRequests, requestTimer, toRunner, tasks, taskTimer, status, assigned>>

\* TaskDeferredError: besides, the request is put into pending (again) and gets a
\* new timeout.
Defer(t) ==
  /\ Woken(t)
  /\ acceptInProgress' = acceptInProgress \ {accepting[t]}
  /\ requestTimer' = requestTimer \cup {accepting[t]}
  /\ pendingTaskRequests' = Append(pendingTaskRequests, accepting[t])
  /\ UNCHANGED <<toRunner, tasks, taskTimer, status, assigned>>

\* Fault: the requester takes a task for a request that it has given up.
RunnerAcceptsForAnyone(t) ==
  LET q == accepting[t]
  IN /\ Woken(t)
     /\ requestTimer' = requestTimer \ {q}
     /\ pendingTaskRequests' = RemoveFirst(pendingTaskRequests, q)
     /\ UNCHANGED acceptInProgress
     /\ tasks' = [tasks EXCEPT ![t] = q]
     /\ IF Contains(pendingTaskRequests, q)
        THEN /\ status' = [status EXCEPT ![q] = "running"]
             /\ assigned' = [assigned EXCEPT ![q] = t]
             /\ taskTimer' = taskTimer \cup {t}
             /\ TellRunner(t[1], [type |-> "settings", task |-> t, request |-> q])
        ELSE UNCHANGED <<toRunner, taskTimer, status, assigned>>

\* The runner accepts.
RunnerAccepts(t) ==
  LET q == accepting[t]
      found == Contains(pendingTaskRequests, q)
  IN /\ Woken(t)
     /\ requestTimer' = requestTimer \ {q}
     /\ pendingTaskRequests' = RemoveFirst(pendingTaskRequests, q)
     /\ UNCHANGED acceptInProgress
     /\ \* taskReady and sendTaskSettings: the requester has its task, the runner its settings
        \/ /\ found /\ status[q] = "waiting"
           /\ tasks' = [tasks EXCEPT ![t] = q]
           /\ taskTimer' = taskTimer \cup {t}
           /\ status' = [status EXCEPT ![q] = "running"]
           /\ assigned' = [assigned EXCEPT ![q] = t]
           /\ TellRunner(t[1], [type |-> "settings", task |-> t, request |-> q])
        \* rejectTask: the requester has given up, the broker cancels the task
        \/ /\ found /\ status[q] # "waiting"
           /\ TellRunner(t[1], [type |-> "cancel", task |-> t])
           /\ UNCHANGED <<tasks, taskTimer, status, assigned>>
        \* the request has expired meanwhile, and the task is left where it is
        \/ /\ ~found
           /\ tasks' = [tasks EXCEPT ![t] = q]
           /\ UNCHANGED <<toRunner, taskTimer, status, assigned>>

\* onRunnerMessage, for all but offers.
HandleAnswer(r) ==
  /\ link[r] = "open" /\ toBroker[r] # <<>> /\ Head(toBroker[r]).type # "offer"
  /\ LET m == Head(toBroker[r])
         t == m.task
     IN \/ m.type = "accepted" /\ accepting[t] # None /\ RunnerAccepts(t)
        \/ m.type = "rejected" /\ accepting[t] # None /\ GiveUp(t)
        \/ m.type = "deferred" /\ accepting[t] # None /\ Defer(t)
        \* the promise was settled by the timeout
        \/ /\ m.type # "ended" /\ accepting[t] = None
           /\ UNCHANGED <<pendingTaskRequests, acceptInProgress, requestTimer, toRunner,
                          accepting, tasks, taskTimer, status, assigned>>
        \* taskDoneHandler, taskErrorHandler
        \/ /\ m.type = "ended"
           /\ Settled({t} \ {u \in Offer : tasks[u] = None})
           /\ Forget({t})
           /\ UNCHANGED <<pendingTaskRequests, acceptInProgress, requestTimer, toRunner,
                          accepting, assigned>>
  /\ toBroker' = [toBroker EXCEPT ![r] = Tail(@)]
  /\ UNCHANGED <<link, crashed, pendingTaskOffers, isDraining>>

\* taskOffered.
HandleOffer(r) ==
  /\ link[r] = "open" /\ toBroker[r] # <<>> /\ Head(toBroker[r]).type = "offer"
  /\ Settle(Append(pendingTaskOffers, Head(toBroker[r]).task), pendingTaskRequests)
  /\ toBroker' = [toBroker EXCEPT ![r] = Tail(@)]
  /\ UNCHANGED <<link, crashed, requestTimer, tasks, taskTimer, isDraining, status, assigned>>

-----------------------------------------------------------------------------
(* Timers                                                                    *)

\* Fault: a request that waits for a runner to accept it is not timed out.
RequestTimeoutUnlessOffered(q) ==
  /\ q \in requestTimer
  /\ requestTimer' = requestTimer \ {q}
  /\ IF Contains(pendingTaskRequests, q) /\ status[q] = "waiting" /\ q \notin acceptInProgress
     THEN /\ status' = [status EXCEPT ![q] = "answered"]
          /\ pendingTaskRequests' = RemoveFirst(pendingTaskRequests, q)
     ELSE UNCHANGED <<status, pendingTaskRequests>>
  /\ UNCHANGED <<channelVars, pendingTaskOffers, acceptInProgress, accepting, tasks, taskTimer,
                 isDraining, assigned>>

\* handleRequestTimeout: the first copy leaves pending, and the requester is told.
RequestTimeout(q) ==
  /\ q \in requestTimer
  /\ requestTimer' = requestTimer \ {q}
  /\ pendingTaskRequests' = RemoveFirst(pendingTaskRequests, q)
  /\ status' = IF Contains(pendingTaskRequests, q) /\ status[q] = "waiting"
               THEN [status EXCEPT ![q] = "answered"] ELSE status
  /\ UNCHANGED <<channelVars, pendingTaskOffers, acceptInProgress, accepting, tasks, taskTimer,
                 isDraining, assigned>>

\* The runner has not answered for two seconds.
AcceptTimeout(t) ==
  /\ accepting[t] # None
  /\ GiveUp(t)
  /\ UNCHANGED <<link, crashed, toBroker, pendingTaskOffers, isDraining>>

\* handleTaskTimeout, in external mode: cancel it at the runner, fail it here.
TaskTimeout(t) ==
  /\ t \in taskTimer
  /\ Settled({t}) /\ Forget({t})
  /\ TellRunner(t[1], [type |-> "cancel", task |-> t])
  /\ UNCHANGED <<link, crashed, toBroker, pendingTaskOffers, pendingTaskRequests,
                 acceptInProgress, requestTimer, accepting, isDraining, assigned>>

-----------------------------------------------------------------------------
(* Connections                                                               *)

\* A runner connects and tells what it is: registerRunner.
Register(r) ==
  /\ link[r] = "new"
  /\ link' = [link EXCEPT ![r] = "open"]
  /\ toRunner' = [toRunner EXCEPT ![r] = <<[type |-> "registered"]>>]
  /\ UNCHANGED <<crashed, toBroker, brokerVars>>

\* Fault: the tasks of the runner are dropped, nobody is told.
DeregisterForgetsTasks(r) ==
  /\ link[r] = "open" /\ (r \in crashed \/ MayLose)
  /\ link' = [link EXCEPT ![r] = "closed"]
  /\ pendingTaskOffers' = SelectAt(pendingTaskOffers,
                           {i \in DOMAIN pendingTaskOffers : pendingTaskOffers[i][1] # r})
  /\ Forget({t \in Offer : t[1] = r})
  /\ TellRunner(r, [type |-> "close"])
  /\ toBroker' = [toBroker EXCEPT ![r] = <<>>]
  /\ UNCHANGED <<crashed, pendingTaskRequests, acceptInProgress, requestTimer, accepting,
                 isDraining, status, assigned>>

\* removeConnection, for a connection that was closed or a runner that does not
\* answer pings: deregisterRunner drops its offers and fails its tasks.  An accept
\* that waits for it goes on waiting.
Deregister(r) ==
  /\ link[r] = "open" /\ (r \in crashed \/ MayLose)
  /\ link' = [link EXCEPT ![r] = "closed"]
  /\ pendingTaskOffers' = SelectAt(pendingTaskOffers,
                           {i \in DOMAIN pendingTaskOffers : pendingTaskOffers[i][1] # r})
  /\ LET failed == {t \in Offer : t[1] = r /\ tasks[t] # None}
     IN Settled(failed) /\ Forget(failed)
  /\ TellRunner(r, [type |-> "close"])
  /\ toBroker' = [toBroker EXCEPT ![r] = <<>>]
  /\ UNCHANGED <<crashed, pendingTaskRequests, acceptInProgress, requestTimer, accepting,
                 isDraining, assigned>>

\* drainActiveTasks: startDraining, and tell the runners.
StartDraining ==
  /\ ~isDraining
  /\ isDraining' = TRUE
  /\ toRunner' = [r \in Runner |-> Posted(r, <<[type |-> "drain"]>>)]
  /\ UNCHANGED <<link, crashed, toBroker, pendingTaskOffers, pendingTaskRequests,
                 acceptInProgress, requestTimer, accepting, tasks, taskTimer, status, assigned>>

-----------------------------------------------------------------------------

BrokerStep ==
  \/ \E q \in Request : RequestTask(q) \/ CancelTask(q) \/ RequestTimeout(q)
  \/ \E t \in Offer : AcceptTimeout(t) \/ TaskTimeout(t)
  \/ \E r \in Runner : HandleAnswer(r) \/ HandleOffer(r) \/ Register(r) \/ Deregister(r)
  \/ StartDraining

=============================================================================
