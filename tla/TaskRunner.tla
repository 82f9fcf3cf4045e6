----------------------------- MODULE TaskRunner -----------------------------
(***************************************************************************)
(* TaskRunner of @n8n/task-runner, one process each: it offers the broker  *)
(* as many tasks as it has slots, and runs those that the broker accepts.  *)
(* A launcher offers in place of a runner it starts on demand; it answers  *)
(* that the task is deferred.                                              *)
(***************************************************************************)
EXTENDS TaskChannels

CONSTANT MaxConcurrency  \* N8N_RUNNERS_MAX_CONCURRENCY

ASSUME ConcurrencyAssumption == MaxConcurrency \in Nat \ {0}

VARIABLES
  canSendOffers,  \* [Runner -> BOOLEAN]
  openOffers,     \* [Runner -> offers that are not stale and not accepted]
  made,           \* [Runner -> how many offers it has made]
  taskState,      \* [Offer -> TaskStatus, "none" when not in runningTasks]
  runs            \* [Request -> how often its code has begun to run]

runnerVars == <<canSendOffers, openOffers, made, taskState, runs>>

TaskStatus == {"waitingForSettings", "running", "aborting:cancelled", "aborting:timeout"}

\* runningTasks, in the states f.
RunningTasks(f, r) == {t \in Offer : t[1] = r /\ f[t] # "none"}
Slots(r) == Cardinality(openOffers[r]) + Cardinality(RunningTasks(taskState, r))

RunnerTypeOK ==
  /\ canSendOffers \in [Runner -> BOOLEAN]
  /\ openOffers \in [Runner -> SUBSET Offer]
  /\ made \in [Runner -> Nat]
  /\ taskState \in [Offer -> TaskStatus \cup {"none"}]
  /\ runs \in [Request -> Nat]

RunnerInit ==
  /\ canSendOffers = [r \in Runner |-> FALSE]
  /\ openOffers = [r \in Runner |-> {}]
  /\ made = [r \in Runner |-> 0]
  /\ taskState = [t \in Offer |-> "none"]
  /\ runs = [q \in Request |-> 0]

-----------------------------------------------------------------------------
(* Offers                                                                    *)

\* The next n offers of r, as far as the bound goes.
NewOffers(r, n) == {<<r, i>> : i \in {j \in 1..MaxOffers[r] : made[r] < j /\ j <= made[r] + n}}

\* sendOffers, after the messages before: forget stale offers and fill the slots
\* that the tasks in the states f leave.  Any offer may have become stale.
SendOffers(r, f, before) ==
  \E stale \in SUBSET openOffers[r] :
    LET kept == openOffers[r] \ stale
        free == MaxConcurrency - (Cardinality(kept) + Cardinality(RunningTasks(f, r)))
        new == IF canSendOffers[r] THEN NewOffers(r, free) ELSE {}
        offers == [i \in 1..Cardinality(new) |-> [type |-> "offer", task |-> <<r, made[r] + i>>]]
    IN /\ openOffers' = [openOffers EXCEPT ![r] = kept \cup new]
       /\ made' = [made EXCEPT ![r] = @ + Cardinality(new)]
       /\ TellBroker(r, before \o offers)

\* The timer of startTaskOffers.
OfferTick(r) ==
  /\ r \in Runner \ Launcher /\ Alive(r) /\ canSendOffers[r]
  /\ SendOffers(r, taskState, <<>>)
  /\ UNCHANGED <<link, crashed, toRunner, canSendOffers, taskState, runs>>

\* finishTask: the slot is free, and offered.
FinishTask(t, before) ==
  LET finished == [taskState EXCEPT ![t] = "none"]
  IN /\ taskState' = finished
     /\ SendOffers(t[1], finished, before)
     /\ UNCHANGED canSendOffers

-----------------------------------------------------------------------------
(* Messages of the broker                                                    *)

\* The first message that r has not handled is of the type.
Receives(r, type) == Alive(r) /\ toRunner[r] # <<>> /\ Head(toRunner[r]).type = type
Handled(r) == toRunner' = [toRunner EXCEPT ![r] = Tail(@)]

\* startTaskOffers on runnerregistered; stopTaskOffers on drain and close.
StartOrStopOffers(r) ==
  /\ \E type \in {"registered", "drain", "close"} :
       /\ Receives(r, type)
       /\ canSendOffers' = [canSendOffers EXCEPT ![r] = type = "registered"]
  /\ Handled(r)
  /\ UNCHANGED <<link, crashed, toBroker, openOffers, made, taskState, runs>>

\* Fault: the accepted offer stays open.
OfferAcceptedStaysOpen(r) ==
  /\ r \notin Launcher /\ Receives(r, "offeraccept")
  /\ LET t == Head(toRunner[r]).task
         fits == Cardinality(RunningTasks(taskState, r)) < MaxConcurrency
     IN IF fits /\ t \in openOffers[r]
        THEN /\ taskState' = [taskState EXCEPT ![t] = "waitingForSettings"]
             /\ TellBroker(r, <<[type |-> "accepted", task |-> t]>>)
        ELSE /\ TellBroker(r, <<[type |-> "rejected", task |-> t]>>)
             /\ UNCHANGED taskState
  /\ Handled(r)
  /\ UNCHANGED <<link, crashed, canSendOffers, openOffers, made, runs>>

\* offerAccepted: the offer becomes a task unless the slots are full or it has
\* become stale here.
OfferAccepted(r) ==
  /\ r \notin Launcher /\ Receives(r, "offeraccept")
  /\ LET t == Head(toRunner[r]).task
         hasOpenTaskSlots == Cardinality(RunningTasks(taskState, r)) < MaxConcurrency
     IN /\ openOffers' = [openOffers EXCEPT ![r] = @ \ {t}]
        /\ IF hasOpenTaskSlots /\ t \in openOffers[r]
           THEN /\ taskState' = [taskState EXCEPT ![t] = "waitingForSettings"]
                /\ TellBroker(r, <<[type |-> "accepted", task |-> t]>>)
           ELSE /\ TellBroker(r, <<[type |-> "rejected", task |-> t]>>)
                /\ UNCHANGED taskState
  /\ Handled(r)
  /\ UNCHANGED <<link, crashed, canSendOffers, made, runs>>

\* taskCancelled.
TaskCancelled(r) ==
  /\ Receives(r, "cancel")
  /\ LET t == Head(toRunner[r]).task
     IN \/ taskState[t] = "waitingForSettings" /\ FinishTask(t, <<>>)
        \/ /\ taskState[t] = "running"
           /\ taskState' = [taskState EXCEPT ![t] = "aborting:cancelled"]
           /\ UNCHANGED <<toBroker, canSendOffers, openOffers, made>>
        \/ /\ taskState[t] \in {"none", "aborting:cancelled", "aborting:timeout"}
           /\ UNCHANGED <<toBroker, canSendOffers, openOffers, made, taskState>>
  /\ Handled(r)
  /\ UNCHANGED <<link, crashed, runs>>

\* receivedSettings: run the task that waits for them.  A task that is gone is
\* ignored; in any other state the handler throws.
ReceivedSettings(r) ==
  /\ Receives(r, "settings")
  /\ LET m == Head(toRunner[r])
     IN IF taskState[m.task] = "waitingForSettings"
        THEN /\ taskState' = [taskState EXCEPT ![m.task] = "running"]
             /\ runs' = [runs EXCEPT ![m.request] = @ + 1]
        ELSE UNCHANGED <<taskState, runs>>
  /\ Handled(r)
  /\ UNCHANGED <<link, crashed, toBroker, canSendOffers, openOffers, made>>

-----------------------------------------------------------------------------
(* The tasks of a runner                                                     *)

\* executeTask resolves or rejects; the broker is told unless it has cancelled.
ExecutionEnds(t) ==
  /\ Alive(t[1]) /\ taskState[t] \in TaskStatus \ {"waitingForSettings"}
  /\ FinishTask(t, IF taskState[t] = "aborting:cancelled" THEN <<>>
                   ELSE <<[type |-> "ended", task |-> t]>>)
  /\ UNCHANGED <<link, crashed, toRunner, runs>>

\* Fault: a task that waits for settings is aborted, not finished.
TaskTimedOutAborts(t) ==
  /\ Alive(t[1]) /\ taskState[t] \in {"waitingForSettings", "running"}
  /\ taskState' = [taskState EXCEPT ![t] = "aborting:timeout"]
  /\ UNCHANGED <<link, crashed, toRunner, toBroker, canSendOffers, openOffers, made, runs>>

\* Fault: a task that waits for settings goes, and the broker is not told.
TaskTimedOutSilently(t) ==
  /\ Alive(t[1])
  /\ \/ taskState[t] = "waitingForSettings" /\ FinishTask(t, <<>>)
     \/ /\ taskState[t] = "running"
        /\ taskState' = [taskState EXCEPT ![t] = "aborting:timeout"]
        /\ UNCHANGED <<toBroker, canSendOffers, openOffers, made>>
  /\ UNCHANGED <<link, crashed, toRunner, runs>>

\* Fault: the timeout only minds tasks that run.
TaskTimedOutRunningOnly(t) ==
  /\ Alive(t[1]) /\ taskState[t] = "running"
  /\ taskState' = [taskState EXCEPT ![t] = "aborting:timeout"]
  /\ UNCHANGED <<link, crashed, toRunner, toBroker, canSendOffers, openOffers, made, runs>>

\* taskTimedOut, the timeout of the runner.
TaskTimedOut(t) ==
  /\ Alive(t[1])
  /\ \/ /\ taskState[t] = "waitingForSettings"
        /\ FinishTask(t, <<[type |-> "ended", task |-> t]>>)
     \/ /\ taskState[t] = "running"
        /\ taskState' = [taskState EXCEPT ![t] = "aborting:timeout"]
        /\ UNCHANGED <<toBroker, canSendOffers, openOffers, made>>
  /\ UNCHANGED <<link, crashed, toRunner, runs>>

\* The process of r dies, with its memory and what it has not read.
Crash(r) ==
  /\ Alive(r) /\ MayLose
  /\ crashed' = crashed \cup {r}
  /\ toRunner' = [toRunner EXCEPT ![r] = <<>>]
  /\ canSendOffers' = [canSendOffers EXCEPT ![r] = FALSE]
  /\ openOffers' = [openOffers EXCEPT ![r] = {}]
  /\ taskState' = [t \in Offer |-> IF t[1] = r THEN "none" ELSE taskState[t]]
  /\ UNCHANGED <<link, toBroker, made, runs>>

-----------------------------------------------------------------------------
(* A launcher                                                                *)

\* It makes one offer, which does not expire.
LauncherOffers(l) ==
  /\ l \in Launcher /\ Alive(l) /\ canSendOffers[l]
  /\ openOffers[l] = {} /\ made[l] < MaxOffers[l]
  /\ openOffers' = [openOffers EXCEPT ![l] = NewOffers(l, 1)]
  /\ made' = [made EXCEPT ![l] = @ + 1]
  /\ TellBroker(l, <<[type |-> "offer", task |-> <<l, made[l] + 1>>]>>)
  /\ UNCHANGED <<link, crashed, toRunner, canSendOffers, taskState, runs>>

\* It starts a runner, which will make offers of its own, and defers the task.
LauncherDefers(l) ==
  /\ l \in Launcher /\ Receives(l, "offeraccept")
  /\ LET t == Head(toRunner[l]).task
     IN /\ openOffers' = [openOffers EXCEPT ![l] = @ \ {t}]
        /\ TellBroker(l, <<[type |-> "deferred", task |-> t]>>)
  /\ Handled(l)
  /\ UNCHANGED <<link, crashed, canSendOffers, made, taskState, runs>>

-----------------------------------------------------------------------------

\* What r does because of a message or of a timer of its own.
RunnerHandles(r) ==
  \/ StartOrStopOffers(r) \/ OfferAccepted(r) \/ TaskCancelled(r) \/ ReceivedSettings(r)
  \/ LauncherDefers(r)

RunnerStep(r) ==
  \/ RunnerHandles(r) \/ OfferTick(r) \/ LauncherOffers(r) \/ Crash(r)
  \/ \E t \in Offer : t[1] = r /\ (ExecutionEnds(t) \/ TaskTimedOut(t))

=============================================================================
