-------------------------- MODULE ConcurrencyControl --------------------------
(***************************************************************************)
(* Admission control of an n8n main process in regular mode:              *)
(* ConcurrencyControlService, its two ConcurrencyQueues and the            *)
(* ConcurrencyCapacityReservation through which ActiveExecutions.add uses  *)
(* them.                                                                   *)
(*                                                                         *)
(* A "call" is one call of ActiveExecutions.add, i.e. one reservation.     *)
(* Several calls can be about one execution (two resumes of it).  The code *)
(* is single-threaded and none of these methods awaits between two state   *)
(* changes, so each is one step, except RemoveAll, whose loop over the     *)
(* queued ids is spelled out step by step while nothing else can run.      *)
(***************************************************************************)
EXTENDS Selection, SequencesExt

CONSTANTS
  Call,             \* reservations
  Execution,        \* execution ids
  ExecutionOf,      \* [Call -> Execution], CapacityTarget.executionId
  ModeOf,           \* [Call -> Mode],      CapacityTarget.mode
  ProductionLimit,  \* executions.concurrency.productionLimit
  EvaluationLimit,  \* executions.concurrency.evaluationLimit
  ScalingMode       \* executions.mode === 'queue'

QueueType == {"production", "evaluation"}

UnlimitedModes == {"error", "integrated", "cli", "internal", "manual", "retry"}
ProductionModes == {"webhook", "trigger", "chat"}
EvaluationModes == {"evaluation"}
Mode == UnlimitedModes \cup ProductionModes \cup EvaluationModes

ASSUME CallAssumption ==
  /\ IsFiniteSet(Call)
  /\ ExecutionOf \in [Call -> Execution]
  /\ ModeOf \in [Call -> Mode]

\* The constructor throws InvalidConcurrencyLimitError on a limit of 0.
ASSUME LimitAssumption ==
  /\ ProductionLimit \in Int \ {0}
  /\ EvaluationLimit \in Int \ {0}
  /\ ScalingMode \in BOOLEAN

-----------------------------------------------------------------------------

\* The limits map: anything below -1 counts as -1, unlimited.
Limit == [t \in QueueType |->
            LET configured == IF t = "production" THEN ProductionLimit
                                                  ELSE EvaluationLimit
            IN IF configured < -1 THEN -1 ELSE configured]

\* Only a type with a positive limit has a queue, and only in regular mode.
Queues == {t \in QueueType : ~ScalingMode /\ Limit[t] > 0}

\* getQueue: the queue of a mode, none for a mode that is never limited.
QueuesOfMode(mode) ==
  {t \in Queues : \/ t = "production" /\ mode \in ProductionModes
                  \/ t = "evaluation" /\ mode \in EvaluationModes}

QueuesOf(c) == QueuesOfMode(ModeOf[c])

-----------------------------------------------------------------------------

VARIABLES
  enabled,    \* isEnabled
  capacity,   \* [Queues -> Int], ConcurrencyQueue.capacity
  queue,      \* [Queues -> Seq(Call)], ConcurrencyQueue.queue
  slot,       \* where each reservation stands
  removing    \* ids a removeAll has still to remove, <<>> outside of it

vars == <<enabled, capacity, queue, slot, removing>>

SlotState == {"none",      \* reserve not called
              "queued",    \* throttled: its promise is in a queue
              "reserved",  \* acquiredReservation is set
              "released",  \* release was called
              "dropped"}   \* taken out of its queue: the promise never settles

TypeOK ==
  /\ enabled \in BOOLEAN
  /\ capacity \in [Queues -> Int]
  /\ queue \in [Queues -> Seq(Call)]
  /\ slot \in [Call -> SlotState]
  /\ removing \in Seq(QueueType \X Execution)

Init ==
  /\ enabled = (Queues # {})
  /\ capacity = [t \in Queues |-> Limit[t]]
  /\ queue = [t \in Queues |-> <<>>]
  /\ slot = [c \in Call |-> "none"]
  /\ removing = <<>>

\* Fault: keeps throttling, and letting through, after disable.
IsThrottledIgnoresDisable(c) == QueuesOf(c) # {}

\* throttle and release return at once when disabled or for an unlimited mode.
IsThrottled(c) == enabled /\ QueuesOf(c) # {}

-----------------------------------------------------------------------------
(* ConcurrencyQueue                                                        *)

\* Fault: lets one more through than there is capacity for.
EnqueueOffByOne(t, c) ==
  /\ capacity' = [capacity EXCEPT ![t] = @ - 1]
  /\ IF capacity[t] - 1 < -1
     THEN /\ queue' = [queue EXCEPT ![t] = Append(@, c)]
          /\ slot' = [slot EXCEPT ![c] = "queued"]
     ELSE /\ slot' = [slot EXCEPT ![c] = "reserved"]
          /\ UNCHANGED queue

\* Fault: takes a unit of capacity only for what is let through at once.
EnqueueCountsOnlyAdmitted(t, c) ==
  IF capacity[t] <= 0
  THEN /\ queue' = [queue EXCEPT ![t] = Append(@, c)]
       /\ slot' = [slot EXCEPT ![c] = "queued"]
       /\ UNCHANGED capacity
  ELSE /\ capacity' = [capacity EXCEPT ![t] = @ - 1]
       /\ slot' = [slot EXCEPT ![c] = "reserved"]
       /\ UNCHANGED queue

\* enqueue: take a unit of capacity, wait in line when there was none.
Enqueue(t, c) ==
  /\ capacity' = [capacity EXCEPT ![t] = @ - 1]
  /\ IF capacity[t] - 1 < 0
     THEN /\ queue' = [queue EXCEPT ![t] = Append(@, c)]
          /\ slot' = [slot EXCEPT ![c] = "queued"]
     ELSE /\ slot' = [slot EXCEPT ![c] = "reserved"]
          /\ UNCHANGED queue

\* Fault: resolves the first item but leaves it in line.
ResolveNextWithoutShift(t, q, s) ==
  /\ queue' = [queue EXCEPT ![t] = q]
  /\ slot' = IF q = <<>> THEN s ELSE [s EXCEPT ![Head(q)] = "reserved"]

\* resolveNext on the line q, from reservations s: let the first one through.
ResolveNext(t, q, s) ==
  IF q = <<>>
  THEN /\ queue' = [queue EXCEPT ![t] = q]
       /\ slot' = s
  ELSE /\ queue' = [queue EXCEPT ![t] = Tail(q)]
       /\ slot' = [s EXCEPT ![Head(q)] = "reserved"]

\* Fault: gives the unit back and wakes nobody.
DequeueWakesNobody(t, s) ==
  /\ capacity' = [capacity EXCEPT ![t] = @ + 1]
  /\ slot' = s
  /\ UNCHANGED queue

\* dequeue: give a unit back and let the next one through.
Dequeue(t, s) ==
  /\ capacity' = [capacity EXCEPT ![t] = @ + 1]
  /\ ResolveNext(t, queue[t], s)

\* has: an item of the execution is in line.
InLine(t, e) == \E i \in 1..Len(queue[t]) : ExecutionOf[queue[t][i]] = e

\* Fault: does not give the unit of the removed item back.
RemoveItemKeepsUnit(t, e) ==
  \/ /\ ~InLine(t, e)
     /\ UNCHANGED <<capacity, queue, slot>>
  \/ \E i \in 1..Len(queue[t]) :
       /\ ExecutionOf[queue[t][i]] = e
       /\ UNCHANGED capacity
       /\ ResolveNext(t, RemoveAt(queue[t], i), [slot EXCEPT ![queue[t][i]] = "dropped"])

\* remove: take out its first item, give back the unit, let the next one through.
RemoveItem(t, e) ==
  \/ /\ ~InLine(t, e)
     /\ UNCHANGED <<capacity, queue, slot>>
  \/ \E i \in 1..Len(queue[t]) :
       /\ ExecutionOf[queue[t][i]] = e
       /\ \A j \in 1..(i - 1) : ExecutionOf[queue[t][j]] # e
       /\ capacity' = [capacity EXCEPT ![t] = @ + 1]
       /\ ResolveNext(t, RemoveAt(queue[t], i), [slot EXCEPT ![queue[t][i]] = "dropped"])

-----------------------------------------------------------------------------
(* ConcurrencyControlService and ConcurrencyCapacityReservation            *)

\* reserve: throttle, then record the reservation (at once, or when the
\* promise in the queue is resolved).
Throttle(c) ==
  /\ slot[c] = "none"
  /\ IF IsThrottled(c)
     THEN \E t \in QueuesOf(c) : Enqueue(t, c)
     ELSE /\ slot' = [slot EXCEPT ![c] = "reserved"]
          /\ UNCHANGED <<capacity, queue>>
  /\ UNCHANGED <<enabled, removing>>

\* release: only an acquired reservation is given back, and only once.
Release(c) ==
  /\ slot[c] = "reserved"
  /\ LET s == [slot EXCEPT ![c] = "released"]
     IN IF IsThrottled(c)
        THEN \E t \in QueuesOf(c) : Dequeue(t, s)
        ELSE slot' = s /\ UNCHANGED <<capacity, queue>>
  /\ UNCHANGED <<enabled, removing>>

Has(e) == enabled /\ \E t \in Queues : InLine(t, e)

RemoveQueued(e, mode) ==
  /\ IF enabled /\ QueuesOfMode(mode) # {}
     THEN \E t \in QueuesOfMode(mode) : RemoveItem(t, e)
     ELSE UNCHANGED <<capacity, queue, slot>>
  /\ UNCHANGED <<enabled, removing>>

\* Fault: collects the queued items instead of their execution ids.
QueuedItems(t) == [i \in 1..Len(queue[t]) |-> <<t, queue[t][i]>>]

\* getAll, as a Set keeps it: each queued id once, in the order of the line.
QueuedIds(t) ==
  LET id == [i \in DOMAIN queue[t] |-> ExecutionOf[queue[t][i]]]
      first == {i \in DOMAIN id : \A j \in 1..(i - 1) : id[j] # id[i]}
  IN SelectAt([i \in DOMAIN id |-> <<t, id[i]>>], first)

AllQueuedIds ==
  (IF "production" \in Queues THEN QueuedIds("production") ELSE <<>>)
    \o (IF "evaluation" \in Queues THEN QueuedIds("evaluation") ELSE <<>>)

\* removeAll: a loop of remove over the ids queued when it starts.
RemoveAll ==
  /\ removing' = IF enabled THEN AllQueuedIds ELSE <<>>
  /\ UNCHANGED <<enabled, capacity, queue, slot>>

RemoveAllNext ==
  /\ removing # <<>>
  /\ \E t \in Queues : removing[1][1] = t /\ RemoveItem(t, removing[1][2])
  /\ removing' = Tail(removing)
  /\ UNCHANGED enabled

Disable ==
  /\ enabled' = FALSE
  /\ UNCHANGED <<capacity, queue, slot, removing>>

\* The synchronous loop of removeAll runs to its end before anything else.
Idle == removing = <<>>

Next ==
  \/ Idle /\ \E c \in Call : \/ Throttle(c)
                             \/ Release(c)
                             \/ Has(ExecutionOf[c]) /\ RemoveQueued(ExecutionOf[c], ModeOf[c])
  \/ Idle /\ RemoveAll
  \/ Idle /\ Disable
  \/ RemoveAllNext

Spec == Init /\ [][Next]_vars

\* Every admitted execution ends and gives its reservation back.
FairSpec == Spec /\ \A c \in Call : WF_vars(Idle /\ Release(c))
                 /\ WF_vars(RemoveAllNext)

-----------------------------------------------------------------------------
(* Properties                                                              *)

\* The reservations that count against a limit.
Held(t) == {c \in Call : slot[c] = "reserved" /\ t \in QueuesOf(c)}
Dropped(t) == {c \in Call : slot[c] = "dropped" /\ t \in QueuesOf(c)}

\* A line holds exactly the throttled reservations of its type, each once:
\* no reservation is lost from, or left behind in, a ConcurrencyQueue.
LinesAreTheQueuedCalls ==
  \A t \in Queues :
    /\ \A i, j \in 1..Len(queue[t]) : i # j => queue[t][i] # queue[t][j]
    /\ {queue[t][i] : i \in 1..Len(queue[t])} =
         {c \in Call : slot[c] = "queued" /\ t \in QueuesOf(c)}

\* While control is on, capacity is the limit less what is held and what
\* waits: the counter that enqueue, dequeue and remove keep never drifts from
\* the reservations it stands for (a drift shrinks the instance for good).
CapacityAccounting ==
  enabled => \A t \in Queues :
    capacity[t] = Limit[t] - Cardinality(Held(t)) - Len(queue[t])

\* Nobody waits in line while a unit of capacity is free.
NoIdleCapacity ==
  enabled => \A t \in Queues :
    queue[t] # <<>> => Cardinality(Held(t)) >= Limit[t]

\* What the code keeps of "max executions running concurrently": taking a
\* waiting execution out of the line lets the next one through although nobody
\* finished, so the limit is exceeded by at most one per execution taken out.
AdmissionBound ==
  \A t \in Queues :
    enabled => Cardinality(Held(t)) <= Limit[t] + Cardinality(Dropped(t))

\* "Max production executions allowed to run concurrently" (executions.config).
LimitRespected ==
  \A t \in Queues : enabled => Cardinality(Held(t)) <= Limit[t]

\* A newcomer never overtakes the line: it is let through at once only when
\* nobody of its type is waiting.
NoOvertaking ==
  [][\A c \in Call, t \in Queues :
       (enabled /\ t \in QueuesOf(c) /\ slot[c] = "none" /\ slot'[c] = "reserved")
         => queue[t] = <<>>]_vars

\* Once disabled (shutdown), no throttled execution is let through any more,
\* whatever finishes, is removed or is cleared.
NoAdmissionFromLineOnceDisabled ==
  [][\A c \in Call : (~enabled /\ slot[c] = "queued") => slot'[c] = "queued"]_vars

\* As long as control stays on and running executions end, everyone in line is
\* let through or taken out.
EveryoneInLineLeavesIt ==
  \A c \in Call : (enabled /\ slot[c] = "queued") ~> (slot[c] # "queued" \/ ~enabled)

=============================================================================
