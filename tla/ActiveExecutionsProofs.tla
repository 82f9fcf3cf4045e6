------------------------ MODULE ActiveExecutionsProofs ------------------------
(***************************************************************************)
(* Proofs about ActiveExecutions, for any calls, executions and events of  *)
(* the environment: it uses admission control by its contract, and an      *)
(* execution has one runner at a time.                                     *)
(***************************************************************************)
EXTENDS ActiveExecutions, SelectionProofs

USE OriginAssumption

-----------------------------------------------------------------------------
(* The inductive invariants                                                  *)

\* The part of TypeOK that is not about reservations; and whatever was caught is no
\* wait, so that an engine which saves its row again never says it waits.
OwnTypes ==
  /\ db \in [Execution -> Status]
  /\ pc \in [Call -> Step]
  /\ active \in [Execution -> Call \cup {None}]
  /\ status \in [Call -> {"running", "waiting"}]
  /\ engine \in [Call -> Call \cup {None}]
  /\ settled \subseteq Call /\ watched \subseteq Call /\ timer \subseteq Call
  /\ willWait \subseteq Call /\ aborted \subseteq Call /\ cancelSave \subseteq Call
  /\ unsaved \subseteq Execution
  /\ outcome \in [Call -> {"none", "success", "error", "waiting", "canceled"}]
  /\ stopping \in [Execution -> StopStep]
  /\ \A c \in Call : pc[c] \in {"resaving", "overwriting"} => outcome[c] # "waiting"

\* removeAll comes after disable, so there is never anything left for it.
ControlInv == CC!TypeOK /\ removing = <<>>

\* A call that has not claimed its row yet.
Unclaimed == {"idle", "created", "reserving", "failed", "rejected"}

\* As long as a new execution has not been claimed by the call that creates it,
\* its row is such that nobody else can claim it.
FreshInv ==
  \A c \in Call :
    (OriginOf[c] = "new" /\ pc[c] \in {"idle", "created", "reserving"}) =>
      /\ pc[c] = "idle" =>
           db[ExecutionOf[c]] = "none" /\ stopping[ExecutionOf[c]] = "none"
      /\ pc[c] # "idle" => db[ExecutionOf[c]] \in {"new", "canceled"}
      /\ \A d \in Call : ExecutionOf[d] = ExecutionOf[c] =>
           pc[d] \in Unclaimed /\ d \notin cancelSave

RowInv == AtMostOneRunner /\ WaitingRowIsIdle /\ FreshInv

\* A call that has registered its entry.
Entered == Step \ (Unclaimed \cup {"claimed"})

\* A call in line has not got further, and one that claims has its reservation.
SlotInv ==
  \A c \in Call :
    /\ slot[c] = "queued" => pc[c] = "reserving"
    /\ pc[c] \in {"failed", "claimed"} => slot[c] = "reserved"

\* The entry of a call waits just when its engine is to wait.
WaitInv ==
  \A c \in Call :
    /\ c \in willWait <=> status[c] = "waiting"
    /\ outcome[c] = "waiting" => c \in willWait

\* An entry is that of a call of its execution.  It holds its reservation until it
\* waits, and waits if the row says so: what resumes the row displaces nothing else.
EntryInv ==
  \A e \in Execution : active[e] # None =>
    /\ ExecutionOf[active[e]] = e /\ pc[active[e]] \in Entered
    /\ status[active[e]] = "running" => slot[active[e]] = "reserved"
    /\ db[e] = "waiting" => status[active[e]] = "waiting"

\* As long as a call owns its execution no other call's entry comes in its place,
\* its engine is the one attached, and nobody else finalizes a new execution.
OwnerInv ==
  \A c \in Call :
    /\ Owns(c) /\ active[ExecutionOf[c]] # None =>
         IF pc[c] = "claimed" THEN status[active[ExecutionOf[c]]] = "waiting"
                              ELSE active[ExecutionOf[c]] = c
    /\ c \in watched => pc[c] \in EngineSteps \cup {"done"}
    /\ (pc[c] = "executing" /\ c \in watched /\ status[c] = "running") => engine[c] = c
    /\ (Owns(c) /\ OriginOf[c] = "new") =>
         \A d \in Call : d # c /\ ExecutionOf[d] = ExecutionOf[c] => pc[d] \in Unclaimed

-----------------------------------------------------------------------------
(* Reservations                                                              *)

\* What a step can do to the reservations.
ControlStep ==
  \/ UNCHANGED ccVars
  \/ \E c \in Call : CC!Throttle(c) \/ CC!Release(c)
  \/ \E c \in Call : /\ CC!Has(ExecutionOf[c])
                     /\ CC!RemoveQueued(ExecutionOf[c], ModeOf[c])
  \/ CC!Disable

\* Settling an entry releases its reservation, at most.
LEMMA SettleControls ==
  ASSUME NEW c \in Call, Settle(c)
  PROVE  ControlStep
  BY DEF Settle, ControlStep

\* So does finalizing, whoever has the entry.
LEMMA FinalizeControls ==
  ASSUME OwnTypes, NEW e \in Execution, FinalizeExecution(e)
  PROVE  ControlStep
<1>1. CASE active[e] = None
  BY <1>1 DEF FinalizeExecution, ControlStep
<1>2. CASE active[e] # None
  <2>1. active[e] \in Call /\ Settle(active[e])
    BY <1>2 DEF FinalizeExecution, OwnTypes
  <2> QED
    BY <2>1, SettleControls
<1> QED
  BY <1>1, <1>2

\* And so does stopping.
LEMMA StopControls ==
  ASSUME OwnTypes, NEW e \in Execution, StopExecution(e)
  PROVE  ControlStep
<1>1. CASE active[e] = None
  BY <1>1 DEF StopExecution, ControlStep
<1>2. CASE active[e] # None /\ status[active[e]] = "waiting"
  BY <1>2 DEF StopExecution, ControlStep, ccVars
<1>3. CASE active[e] # None /\ status[active[e]] # "waiting"
  <2>1. active[e] \in Call /\ Settle(active[e])
    BY <1>3 DEF StopExecution, OwnTypes
  <2> QED
    BY <2>1, SettleControls
<1> QED
  BY <1>1, <1>2, <1>3

\* Every step uses admission control by one of its operations.
LEMMA StepControls ==
  ASSUME OwnTypes, ControlInv, [Next]_vars
  PROVE  ControlStep
<1>1. CASE UNCHANGED vars
  BY <1>1 DEF vars, ControlStep
<1>2. ASSUME NEW c \in Call,
             \/ CreateRow(c) \/ ReadRow(c) \/ ClaimRow(c) \/ Register(c)
             \/ CheckCredentials(c) \/ SaveRefused(c) \/ SetRunning(c) \/ Launch(c)
             \/ SaveError(c) \/ Complete(c) \/ Save(c) \/ Resave(c) \/ SaveCancelled(c)
             \/ PutToWait(c) \/ SaveProgress(c) \/ Failure(c)
      PROVE  ControlStep
  BY <1>2 DEF CreateRow, ReadRow, ClaimRow, Register, CheckCredentials, SaveRefused,
     SetRunning, Launch, SaveError, Complete, Save, Resave, SaveCancelled, PutToWait,
     SaveProgress, Failure, HookThrows, SaveFails, LaterHookThrows, Caught, ControlStep
<1>3. ASSUME NEW c \in Call, Reserve(c) \/ Reject(c)
      PROVE  ControlStep
  BY <1>3 DEF Reserve, Reject, ControlStep
<1>4. ASSUME NEW c \in Call, LaunchFails(c) \/ Finalize(c)
      PROVE  ControlStep
  <2>1. FinalizeExecution(ExecutionOf[c]) \/ UNCHANGED ccVars
    BY <1>4 DEF LaunchFails, Finalize
  <2> QED
    BY <2>1, FinalizeControls DEF ControlStep
<1>5. ASSUME NEW c \in Call, Timeout(c)
      PROVE  ControlStep
  BY <1>5, StopControls DEF Timeout
<1>6. ASSUME NEW e \in Execution, StopRead(e) \/ StopWrite(e)
      PROVE  ControlStep
  BY <1>6 DEF StopRead, StopWrite, ControlStep
<1>7. ASSUME NEW e \in Execution, StopApply(e)
      PROVE  ControlStep
  <2>1. CASE CC!Has(e)
    BY <1>7, <2>1 DEF StopApply, ControlStep
  <2>2. CASE ~CC!Has(e)
    BY <1>7, <2>2, StopControls DEF StopApply
  <2> QED
    BY <2>1, <2>2
<1>8. CASE Shutdown
  BY <1>8 DEF Shutdown, ControlInv, ControlStep, CC!Disable
<1> QED
  BY <1>1, <1>2, <1>3, <1>4, <1>5, <1>6, <1>7, <1>8 DEF Next, Progress

\* Letting the next one through keeps the line a line.
LEMMA ResolveNextTypes ==
  ASSUME NEW t \in CC!Queues, NEW q \in Seq(Call), NEW s \in [Call -> CC!SlotState],
         queue \in [CC!Queues -> Seq(Call)], CC!ResolveNext(t, q, s)
  PROVE  /\ queue' \in [CC!Queues -> Seq(Call)]
         /\ slot' \in [Call -> CC!SlotState]
<1>1. CASE q = <<>>
  BY <1>1 DEF CC!ResolveNext
<1>2. CASE q # <<>>
  <2>1. Tail(q) \in Seq(Call)
    BY <1>2
  <2>2. queue' = [queue EXCEPT ![t] = Tail(q)] /\ slot' = [s EXCEPT ![Head(q)] = "reserved"]
    BY <1>2 DEF CC!ResolveNext
  <2>3. "reserved" \in CC!SlotState
    BY DEF CC!SlotState
  <2> QED
    BY <2>1, <2>2, <2>3
<1> QED
  BY <1>1, <1>2

\* What the two switches of admission control can do.
LEMMA SwitchTypes ==
  ASSUME enabled \in BOOLEAN, removing = <<>>, ControlStep
  PROVE  enabled' \in BOOLEAN /\ removing' = <<>>
  BY Zenon DEF ControlStep, ccVars, CC!Throttle, CC!Release, CC!RemoveQueued, CC!Disable

\* The operations of admission control keep its types.
LEMMA ControlStepTypes ==
  ASSUME ControlInv, ControlStep
  PROVE  ControlInv'
<1> DEFINE LineTypes ==
      /\ capacity \in [CC!Queues -> Int]
      /\ queue \in [CC!Queues -> Seq(Call)]
      /\ slot \in [Call -> CC!SlotState]
<1>0. LineTypes /\ enabled \in BOOLEAN /\ removing = <<>>
  BY DEF CC!TypeOK, ControlInv
<1>1. UNCHANGED <<capacity, queue, slot>> => LineTypes'
  BY <1>0
<1>2. ASSUME NEW c \in Call, CC!Throttle(c)
      PROVE  LineTypes'
  <2>0. "reserved" \in CC!SlotState /\ "queued" \in CC!SlotState
    BY DEF CC!SlotState
  <2>1. CASE CC!IsThrottled(c)
    <3>1. PICK t \in CC!QueuesOf(c) : CC!Enqueue(t, c)
      BY <1>2, <2>1 DEF CC!Throttle
    <3>2. t \in CC!Queues
      BY DEF CC!QueuesOf, CC!QueuesOfMode
    <3>3. queue[t] \in Seq(Call)
      BY <1>0, <3>2
    <3>4. Append(queue[t], c) \in Seq(Call)
      BY <3>3
    <3>5. queue' \in [CC!Queues -> Seq(Call)] /\ slot' \in [Call -> CC!SlotState]
      <4>1. CASE capacity[t] - 1 < 0
        <5>1. /\ queue' = [queue EXCEPT ![t] = Append(queue[t], c)]
              /\ slot' = [slot EXCEPT ![c] = "queued"]
          BY <3>1, <4>1 DEF CC!Enqueue
        <5> QED
          BY <1>0, <2>0, <3>2, <3>4, <5>1
      <4>2. CASE ~(capacity[t] - 1 < 0)
        <5>1. queue' = queue /\ slot' = [slot EXCEPT ![c] = "reserved"]
          BY <3>1, <4>2 DEF CC!Enqueue
        <5> QED
          BY <1>0, <2>0, <5>1
      <4> QED
        BY <4>1, <4>2
    <3>6. capacity' \in [CC!Queues -> Int]
      BY <1>0, <3>1, <3>2 DEF CC!Enqueue
    <3> QED
      BY <3>5, <3>6
  <2>2. CASE ~CC!IsThrottled(c)
    BY <1>0, <1>2, <2>0, <2>2 DEF CC!Throttle
  <2> QED
    BY <2>1, <2>2
<1>3. ASSUME NEW c \in Call, CC!Release(c)
      PROVE  LineTypes'
  <2> DEFINE s == [slot EXCEPT ![c] = "released"]
  <2>0. s \in [Call -> CC!SlotState]
    BY <1>0 DEF CC!SlotState
  <2>1. CASE CC!IsThrottled(c)
    <3>1. PICK t \in CC!QueuesOf(c) : CC!Dequeue(t, s)
      BY <1>3, <2>1 DEF CC!Release
    <3>2. t \in CC!Queues
      BY DEF CC!QueuesOf, CC!QueuesOfMode
    <3>3. queue[t] \in Seq(Call) /\ CC!ResolveNext(t, queue[t], s)
      BY <1>0, <3>1, <3>2 DEF CC!Dequeue
    <3>4. queue' \in [CC!Queues -> Seq(Call)] /\ slot' \in [Call -> CC!SlotState]
      BY <1>0, <2>0, <3>2, <3>3, ResolveNextTypes
    <3>5. capacity' \in [CC!Queues -> Int]
      BY <1>0, <3>1, <3>2 DEF CC!Dequeue
    <3> QED
      BY <3>4, <3>5
  <2>2. CASE ~CC!IsThrottled(c)
    BY <1>0, <1>3, <2>0, <2>2 DEF CC!Release
  <2> QED
    BY <2>1, <2>2
<1>4. ASSUME NEW c \in Call, CC!RemoveQueued(ExecutionOf[c], ModeOf[c])
      PROVE  LineTypes'
  <2> DEFINE e == ExecutionOf[c]
  <2>2. ASSUME NEW t \in CC!Queues, NEW i \in 1..Len(queue[t]),
               capacity' = [capacity EXCEPT ![t] = @ + 1],
               CC!ResolveNext(t, CC!RemoveAt(queue[t], i),
                              [slot EXCEPT ![queue[t][i]] = "dropped"])
        PROVE  LineTypes'
    <3>1. queue[t] \in Seq(Call)
      BY <1>0
    <3>2. /\ SubSeq(queue[t], 1, i - 1) \in Seq(Call)
          /\ SubSeq(queue[t], i + 1, Len(queue[t])) \in Seq(Call)
      BY <3>1, SubSeqProperties
    <3>3. CC!RemoveAt(queue[t], i) \in Seq(Call)
      BY <3>1, <3>2 DEF CC!RemoveAt
    <3>4. [slot EXCEPT ![queue[t][i]] = "dropped"] \in [Call -> CC!SlotState]
      BY <1>0 DEF CC!SlotState
    <3>5. queue' \in [CC!Queues -> Seq(Call)] /\ slot' \in [Call -> CC!SlotState]
      BY <1>0, <2>2, <3>3, <3>4, ResolveNextTypes
    <3>6. capacity' \in [CC!Queues -> Int]
      BY <1>0, <2>2
    <3> QED
      BY <3>5, <3>6
  <2>3. \/ UNCHANGED <<capacity, queue, slot>>
        \/ \E t \in CC!QueuesOfMode(ModeOf[c]) : CC!RemoveItem(t, e)
    BY <1>4 DEF CC!RemoveQueued
  <2>4. CC!QueuesOfMode(ModeOf[c]) \subseteq CC!Queues
    BY DEF CC!QueuesOfMode
  <2>5. ASSUME NEW t \in CC!Queues, CC!RemoveItem(t, e)
        PROVE  LineTypes'
    BY <1>1, <2>2, <2>5, Zenon DEF CC!RemoveItem
  <2> QED
    BY <1>1, <2>3, <2>4, <2>5
<1>5. LineTypes'
  BY <1>1, <1>2, <1>3, <1>4 DEF ControlStep, ccVars, CC!Disable
<1>6. enabled' \in BOOLEAN /\ removing' = <<>>
  BY <1>0, SwitchTypes
<1>7. removing' \in Seq(CC!QueueType \X Execution)
  BY <1>6
<1> QED
  BY <1>5, <1>6, <1>7 DEF CC!TypeOK, ControlInv

-----------------------------------------------------------------------------
(* Types of the rest                                                         *)

\* Settling an entry keeps the types of the entries.
LEMMA SettleTypes ==
  ASSUME OwnTypes, NEW c \in Call, Settle(c)
  PROVE  /\ active' \in [Execution -> Call \cup {None}]
         /\ status' \in [Call -> {"running", "waiting"}]
         /\ engine' \in [Call -> Call \cup {None}]
         /\ settled' \subseteq Call
  BY DEF OwnTypes, Settle, entryVars

\* So does finalizing.
LEMMA FinalizeTypes ==
  ASSUME OwnTypes, NEW e \in Execution, FinalizeExecution(e)
  PROVE  /\ active' \in [Execution -> Call \cup {None}]
         /\ status' \in [Call -> {"running", "waiting"}]
         /\ engine' \in [Call -> Call \cup {None}]
         /\ settled' \subseteq Call
<1>1. CASE active[e] = None
  BY <1>1 DEF FinalizeExecution, OwnTypes, entryVars
<1>2. CASE active[e] # None
  <2>1. active[e] \in Call /\ Settle(active[e])
    BY <1>2 DEF FinalizeExecution, OwnTypes
  <2> QED
    BY <2>1, SettleTypes
<1> QED
  BY <1>1, <1>2

\* Stopping cancels at most an engine that runs, and keeps the types.
LEMMA StopTypes ==
  ASSUME OwnTypes, NEW e \in Execution, StopExecution(e)
  PROVE  /\ active' \in [Execution -> Call \cup {None}]
         /\ status' \in [Call -> {"running", "waiting"}]
         /\ engine' \in [Call -> Call \cup {None}]
         /\ settled' \subseteq Call /\ aborted' \subseteq Call /\ unsaved' = unsaved
         /\ \/ cancelSave' = cancelSave
            \/ \E c \in Call : /\ pc[c] \in EngineSteps
                               /\ cancelSave' = cancelSave \cup {c}
<1>1. CASE active[e] = None
  BY <1>1 DEF StopExecution, OwnTypes, entryVars, cancelVars
<1>2. CASE active[e] # None /\ status[active[e]] = "waiting"
  BY <1>2 DEF StopExecution, OwnTypes, entryVars, cancelVars
<1>3. CASE active[e] # None /\ status[active[e]] # "waiting"
  <2>1. active[e] \in Call /\ Settle(active[e]) /\ Cancel(engine[active[e]])
    BY <1>3 DEF StopExecution, OwnTypes
  <2>2. engine[active[e]] \in Call \cup {None}
    BY <2>1 DEF OwnTypes
  <2> QED
    BY <2>1, <2>2, SettleTypes DEF OwnTypes, Cancel, cancelVars
<1> QED
  BY <1>1, <1>2, <1>3

\* Every step keeps the types.
LEMMA StepTypes ==
  ASSUME OwnTypes, [Next]_vars
  PROVE  OwnTypes'
<1> USE DEF OwnTypes, At, Goto, SetStatus, Status, Step, StopStep
<1>1. CASE UNCHANGED vars
  BY <1>1 DEF vars, entryVars, engineVars, cancelVars
<1>2. ASSUME NEW c \in Call, CreateRow(c) \/ ReadRow(c) \/ Reserve(c) \/ ClaimRow(c)
      PROVE  OwnTypes'
  BY <1>2 DEF CreateRow, ReadRow, Reserve, ClaimRow, entryVars, engineVars, cancelVars
<1>3. ASSUME NEW c \in Call,
             Reject(c) \/ Register(c) \/ CheckCredentials(c) \/ SaveRefused(c)
      PROVE  OwnTypes'
  BY <1>3 DEF Reject, Register, CheckCredentials, SaveRefused, entryVars, engineVars, cancelVars
<1>4. ASSUME NEW c \in Call, SetRunning(c) \/ Launch(c) \/ SaveError(c)
      PROVE  OwnTypes'
  BY <1>4 DEF SetRunning, Launch, SaveError, LastWrite, entryVars, engineVars, cancelVars
<1>5. ASSUME NEW c \in Call, LaunchFails(c)
      PROVE  OwnTypes'
  <2>1. FinalizeExecution(ExecutionOf[c]) \/ UNCHANGED entryVars
    BY <1>5 DEF LaunchFails
  <2> QED
    BY <1>5, <2>1, FinalizeTypes DEF LaunchFails, entryVars, engineVars, cancelVars
<1>6. ASSUME NEW c \in Call, PutToWait(c) \/ SaveProgress(c)
      PROVE  OwnTypes'
  BY <1>6 DEF PutToWait, SaveProgress, entryVars, engineVars, cancelVars
<1>7. ASSUME NEW c \in Call, Complete(c)
      PROVE  OwnTypes'
  <2>1. UNCHANGED <<ccVars, db, entryVars, watched, timer, willWait, cancelVars, stopping>>
    BY <1>7 DEF Complete
  <2>2. pc' = [pc EXCEPT ![c] = "ended"] \/ pc' = [pc EXCEPT ![c] = "saving"]
    BY <1>7, Zenon DEF Complete
  <2>3. Endings(c) \subseteq {"success", "error", "waiting", "canceled"}
    BY DEF Endings
  <2>4. \/ outcome' = outcome
        \/ \E s \in {"success", "error", "waiting", "canceled"} :
             outcome' = [outcome EXCEPT ![c] = s]
    BY <1>7, <2>3, Zenon DEF Complete
  <2> QED
    BY <2>1, <2>2, <2>4 DEF entryVars, cancelVars
<1>8. ASSUME NEW c \in Call, Save(c) \/ SaveCancelled(c) \/ Resave(c)
      PROVE  OwnTypes'
  BY <1>8 DEF Save, SaveCancelled, Resave, LastWrite, entryVars, engineVars, cancelVars
<1>14. ASSUME NEW c \in Call, Failure(c)
       PROVE  OwnTypes'
  BY <1>14 DEF Failure, HookThrows, SaveFails, LaterHookThrows, Caught, entryVars, cancelVars
<1>9. ASSUME NEW c \in Call, Finalize(c)
      PROVE  OwnTypes'
  <2>1. FinalizeExecution(ExecutionOf[c]) \/ UNCHANGED entryVars
    BY <1>9 DEF Finalize
  <2> QED
    BY <1>9, <2>1, FinalizeTypes DEF Finalize, entryVars, cancelVars
<1>10. ASSUME NEW c \in Call, Timeout(c)
       PROVE  OwnTypes'
  BY <1>10, StopTypes DEF Timeout
<1>11. ASSUME NEW e \in Execution, StopRead(e) \/ StopWrite(e)
       PROVE  OwnTypes'
  BY <1>11 DEF StopRead, StopWrite, LastWrite, entryVars, engineVars, cancelVars
<1>12. ASSUME NEW e \in Execution, StopApply(e)
       PROVE  OwnTypes'
  <2>1. StopExecution(e) \/ UNCHANGED <<entryVars, cancelVars>>
    BY <1>12 DEF StopApply
  <2> QED
    BY <1>12, <2>1, StopTypes DEF StopApply, entryVars, engineVars, cancelVars
<1>13. CASE Shutdown
  BY <1>13 DEF Shutdown, engineVars, cancelVars
<1> QED
  BY <1>1, <1>2, <1>3, <1>4, <1>5, <1>6, <1>7, <1>8, <1>9, <1>10, <1>11, <1>12, <1>13,
     <1>14 DEF Next, Progress

-----------------------------------------------------------------------------
(* Rows                                                                      *)

\* The invariants of the rows hold as long as nobody gets further and nothing is
\* written.
LEMMA RowsRest ==
  ASSUME RowInv, pc' = pc, db' = db, stopping' = stopping, cancelSave' \subseteq cancelSave
  PROVE  RowInv'
  BY DEF RowInv, AtMostOneRunner, WaitingRowIsIdle, FreshInv, Owns

\* A call that owns its execution goes on to own it, or gives it up, and writes
\* no "waiting" as long as it does.
LEMMA OwnerGoesOn ==
  ASSUME OwnTypes, RowInv, NEW c \in Call, Owns(c), NEW step \in Step \ Unclaimed,
         pc' = [pc EXCEPT ![c] = step], stopping' = stopping,
         cancelSave' \subseteq cancelSave,
         NEW s \in Status, db' = db \/ db' = [db EXCEPT ![ExecutionOf[c]] = s],
         s = "waiting" => step \in {"saved", "done"}
  PROVE  RowInv'
<1> USE DEF RowInv, AtMostOneRunner, WaitingRowIsIdle, FreshInv, Owns, OwnTypes,
            Unclaimed, Step
<1>1. AtMostOneRunner'
  OBVIOUS
<1>2. WaitingRowIsIdle'
  OBVIOUS
<1>3. FreshInv'
  OBVIOUS
<1> QED
  BY <1>1, <1>2, <1>3

\* A call that does not own its execution goes on without owning it.
LEMMA OthersGoOn ==
  ASSUME OwnTypes, RowInv, NEW c \in Call, ~Owns(c), NEW step \in Step,
         pc' = [pc EXCEPT ![c] = step], db' = db, stopping' = stopping,
         cancelSave' \subseteq cancelSave,
         \/ step \in {"failed", "rejected"} /\ pc[c] \in {"reserving", "failed"}
         \/ step \in {"overwriting", "done"} /\ pc[c] \in {"saved", "ended"}
         \/ step = "reserving" /\ pc[c] = "created"
  PROVE  RowInv'
<1> USE DEF RowInv, AtMostOneRunner, WaitingRowIsIdle, FreshInv, Owns, OwnTypes,
            Unclaimed, Step
<1>1. AtMostOneRunner' /\ WaitingRowIsIdle'
  OBVIOUS
<1>2. FreshInv'
  OBVIOUS
<1> QED
  BY <1>1, <1>2

\* Nobody else can have claimed the row of a new execution: one call makes it.
LEMMA ClaimRows ==
  ASSUME OwnTypes, RowInv, NEW c \in Call, ClaimRow(c)
  PROVE  RowInv'
<1> USE DEF RowInv, AtMostOneRunner, WaitingRowIsIdle, FreshInv, Owns, OwnTypes,
            Unclaimed, Step, Status
<1>1. CASE db' = db
  <2>1. pc' = [pc EXCEPT ![c] = "failed"] /\ pc[c] = "reserving"
    BY <1>1 DEF ClaimRow, At, Goto, SetStatus
  <2> QED
    BY <1>1, <2>1, OthersGoOn DEF ClaimRow, cancelVars
<1>2. CASE db' # db
  <2>1. /\ pc' = [pc EXCEPT ![c] = "claimed"] /\ pc[c] = "reserving"
        /\ db' = [db EXCEPT ![ExecutionOf[c]] = "running"]
        /\ OriginOf[c] = "new" \/ db[ExecutionOf[c]] = "waiting"
        /\ cancelSave' = cancelSave /\ stopping' = stopping
    BY <1>2 DEF ClaimRow, At, Goto, SetStatus, cancelVars
  <2>2. ASSUME NEW d \in Call, ExecutionOf[d] = ExecutionOf[c]
        PROVE  ~Owns(d)
    BY <2>1, <2>2
  <2>3. AtMostOneRunner' /\ WaitingRowIsIdle'
    BY <2>1, <2>2
  <2>4. ASSUME NEW d \in Call, OriginOf[d] = "new", d # c,
               pc[d] \in {"idle", "created", "reserving"}
        PROVE  ExecutionOf[d] # ExecutionOf[c]
    BY <2>1, <2>4
  <2>5. FreshInv'
    BY <2>1, <2>4
  <2> QED
    BY <2>3, <2>5
<1> QED
  BY <1>1, <1>2

\* Every step keeps the invariants of the rows.
LEMMA StepRows ==
  ASSUME OwnTypes, RowInv, [Next]_vars
  PROVE  RowInv'
<1> USE DEF At, Goto, SetStatus
<1>1. CASE UNCHANGED vars
  BY <1>1, RowsRest DEF vars, cancelVars
<1>2. ASSUME NEW c \in Call, CreateRow(c)
      PROVE  RowInv'
  <2>1. /\ pc[c] = "idle" /\ OriginOf[c] = "new"
        /\ \/ /\ pc' = [pc EXCEPT ![c] = "created"]
              /\ db' = [db EXCEPT ![ExecutionOf[c]] = "new"]
           \/ pc' = [pc EXCEPT ![c] = "rejected"] /\ db' = db
        /\ cancelSave' = cancelSave /\ stopping' = stopping
    BY <1>2 DEF CreateRow, cancelVars
  <2>2. AtMostOneRunner' /\ WaitingRowIsIdle'
    BY <2>1 DEF RowInv, AtMostOneRunner, WaitingRowIsIdle, Owns, OwnTypes, Status
  <2>3. FreshInv'
    BY <2>1 DEF RowInv, FreshInv, OwnTypes, Unclaimed
  <2> QED
    BY <2>2, <2>3 DEF RowInv
<1>3. ASSUME NEW c \in Call, ReadRow(c)
      PROVE  RowInv'
  <2>1. /\ pc[c] = "idle" /\ OriginOf[c] # "new" /\ pc' = [pc EXCEPT ![c] = "created"]
        /\ db' = db /\ db[ExecutionOf[c]] # "none"
        /\ cancelSave' = cancelSave /\ stopping' = stopping
    BY <1>3 DEF ReadRow, cancelVars
  <2>2. AtMostOneRunner' /\ WaitingRowIsIdle'
    BY <2>1 DEF RowInv, AtMostOneRunner, WaitingRowIsIdle, Owns, OwnTypes
  <2>3. FreshInv'
    BY <2>1 DEF RowInv, FreshInv, OwnTypes, Unclaimed
  <2> QED
    BY <2>2, <2>3 DEF RowInv
<1>4. ASSUME NEW c \in Call, Reserve(c) \/ Reject(c)
      PROVE  RowInv'
  BY <1>4, OthersGoOn DEF Reserve, Reject, Owns, Step, cancelVars
<1>5. ASSUME NEW c \in Call, ClaimRow(c)
      PROVE  RowInv'
  BY <1>5, ClaimRows
<1>6. ASSUME NEW c \in Call,
             \/ Register(c) \/ CheckCredentials(c) \/ Launch(c) \/ LaunchFails(c)
             \/ Complete(c) \/ HookThrows(c) \/ SaveFails(c)
      PROVE  RowInv'
  <2>1. /\ Owns(c) /\ db' = db /\ stopping' = stopping /\ cancelSave' = cancelSave
        /\ \E step \in {"registered", "refused", "starting", "executing", "erroring",
                        "saving", "resaving", "ended", "abandoned"} :
             pc' = [pc EXCEPT ![c] = step]
    BY <1>6, Zenon DEF Register, CheckCredentials, Launch, LaunchFails, Complete, HookThrows,
       SaveFails, Caught, Owns, cancelVars
  <2>2. PICK step \in {"registered", "refused", "starting", "executing", "erroring",
                       "saving", "resaving", "ended", "abandoned"} :
          pc' = [pc EXCEPT ![c] = step]
    BY <2>1
  <2>3. step \in Step \ Unclaimed /\ "running" \in Status /\ "running" # "waiting"
    BY DEF Status, Step, Unclaimed
  <2>4. cancelSave' \subseteq cancelSave
    BY <2>1
  <2> HIDE DEF At, Goto, SetStatus
  <2> QED
    BY <2>1, <2>2, <2>3, <2>4, OwnerGoesOn
<1>7. ASSUME NEW c \in Call, SaveRefused(c) \/ SaveError(c)
      PROVE  RowInv'
  <2>1. /\ Owns(c) /\ stopping' = stopping /\ cancelSave' = cancelSave
        /\ db' = db \/ db' = [db EXCEPT ![ExecutionOf[c]] = "error"]
        /\ \E step \in {"ended", "abandoned", "done"} : pc' = [pc EXCEPT ![c] = step]
    BY <1>7 DEF SaveRefused, SaveError, LastWrite, Owns, cancelVars
  <2>2. PICK step \in {"ended", "abandoned", "done"} : pc' = [pc EXCEPT ![c] = step]
    BY <2>1
  <2>3. step \in Step \ Unclaimed /\ "error" \in Status
    BY DEF Step, Unclaimed, Status
  <2> QED
    BY <2>1, <2>2, <2>3, OwnerGoesOn
<1>18. ASSUME NEW c \in Call, Resave(c)
       PROVE  RowInv'
  <2>1. /\ pc[c] \in {"resaving", "overwriting"} /\ pc' = [pc EXCEPT ![c] = "ended"]
        /\ stopping' = stopping /\ cancelSave' = cancelSave
        /\ db' = db \/ db' = [db EXCEPT ![ExecutionOf[c]] = outcome[c]]
    BY <1>18 DEF Resave, LastWrite, cancelVars
  <2>4. outcome[c] \in Status /\ outcome[c] # "waiting"
    BY <2>1 DEF OwnTypes, Status
  <2>2. AtMostOneRunner' /\ WaitingRowIsIdle'
    BY <2>1, <2>4 DEF RowInv, AtMostOneRunner, WaitingRowIsIdle, Owns, OwnTypes
  <2>3. FreshInv'
    BY <2>1, <2>4 DEF RowInv, FreshInv, OwnTypes, Unclaimed
  <2> QED
    BY <2>2, <2>3 DEF RowInv
<1>19. ASSUME NEW c \in Call, LaterHookThrows(c)
       PROVE  RowInv'
  BY <1>19, OthersGoOn DEF LaterHookThrows, Caught, Owns, Step, cancelVars
<1>8. ASSUME NEW c \in Call, SetRunning(c) \/ SaveProgress(c)
      PROVE  RowInv'
  <2>1. /\ Owns(c) /\ stopping' = stopping /\ cancelSave' = cancelSave
        /\ db' = db \/ db' = [db EXCEPT ![ExecutionOf[c]] = "running"]
        /\ \/ pc' = pc
           \/ \E step \in {"launching", "abandoned"} : pc' = [pc EXCEPT ![c] = step]
    BY <1>8 DEF SetRunning, SaveProgress, Owns, cancelVars
  <2>2. PICK step \in {"launching", "abandoned", pc[c]} : pc' = [pc EXCEPT ![c] = step]
    BY <2>1 DEF OwnTypes
  <2>3. step \in Step \ Unclaimed /\ "running" \in Status
    BY <2>1, <2>2 DEF Owns, Step, Unclaimed, Status
  <2> QED
    BY <2>1, <2>2, <2>3, OwnerGoesOn
<1>9. ASSUME NEW c \in Call, Save(c)
      PROVE  RowInv'
  <2>1. /\ Owns(c) /\ stopping' = stopping /\ cancelSave' = cancelSave
        /\ db' = [db EXCEPT ![ExecutionOf[c]] = outcome[c]]
        /\ pc' = [pc EXCEPT ![c] = "saved"]
    BY <1>9 DEF Save, Owns, cancelVars
  <2>2. outcome[c] \in Status /\ "saved" \in Step \ Unclaimed
    BY DEF OwnTypes, Status, Step, Unclaimed
  <2> QED
    BY <2>1, <2>2, OwnerGoesOn
<1>10. ASSUME NEW c \in Call, SaveCancelled(c)
       PROVE  RowInv'
  <2>1. /\ c \in cancelSave /\ cancelSave' = cancelSave \ {c}
        /\ db' = db \/ db' = [db EXCEPT ![ExecutionOf[c]] = "canceled"]
        /\ pc' = pc /\ stopping' = stopping
    BY <1>10 DEF SaveCancelled, LastWrite
  <2> QED
    BY <2>1 DEF RowInv, AtMostOneRunner, WaitingRowIsIdle, FreshInv, Owns, OwnTypes, Status
<1>11. ASSUME NEW c \in Call, PutToWait(c)
       PROVE  RowInv'
  BY <1>11, RowsRest DEF PutToWait, cancelVars
<1>12. ASSUME NEW c \in Call, Finalize(c)
       PROVE  RowInv'
  BY <1>12, OthersGoOn DEF Finalize, Owns, Step, cancelVars
<1>13. ASSUME NEW e \in Execution, StopRead(e) \/ StopWrite(e)
       PROVE  RowInv'
  <2>1. /\ pc' = pc /\ cancelSave' = cancelSave
        /\ \/ /\ db' = db /\ db[e] # "none"
              /\ stopping' = [stopping EXCEPT ![e] = "read"]
           \/ /\ db' = db \/ db' = [db EXCEPT ![e] = "canceled"]
              /\ stopping[e] = "write" /\ stopping' = [stopping EXCEPT ![e] = "none"]
    BY <1>13 DEF StopRead, StopWrite, LastWrite, cancelVars
  <2> QED
    BY <2>1 DEF RowInv, AtMostOneRunner, WaitingRowIsIdle, FreshInv, Owns, OwnTypes, Status
<1>14. ASSUME NEW e \in Execution, StopExecution(e) \/ UNCHANGED cancelVars,
              \/ stopping' = stopping
              \/ stopping[e] = "read" /\ stopping' = [stopping EXCEPT ![e] = "write"],
              db' = db, pc' = pc
       PROVE  RowInv'
  <2>1. \/ cancelSave' = cancelSave
        \/ \E c \in Call : /\ pc[c] \in EngineSteps
                           /\ cancelSave' = cancelSave \cup {c}
    BY <1>14, StopTypes DEF cancelVars
  <2> QED
    BY <1>14, <2>1
       DEF EngineSteps, RowInv, AtMostOneRunner, WaitingRowIsIdle, FreshInv, Owns, OwnTypes, Unclaimed
<1>15. ASSUME NEW c \in Call, Timeout(c)
       PROVE  RowInv'
  BY <1>14, <1>15 DEF Timeout
<1>16. ASSUME NEW e \in Execution, StopApply(e)
       PROVE  RowInv'
  BY <1>14, <1>16 DEF StopApply
<1>17. CASE Shutdown
  BY <1>17, RowsRest DEF Shutdown, cancelVars
<1> QED
  BY <1>1, <1>2, <1>3, <1>4, <1>5, <1>6, <1>7, <1>8, <1>9, <1>10, <1>11, <1>12, <1>13,
     <1>15, <1>16, <1>17, <1>18, <1>19 DEF Next, Progress, Failure

-----------------------------------------------------------------------------
(* The theorems                                                              *)

\* The inductive invariant of the module.
IInv == OwnTypes /\ ControlInv /\ RowInv

\* It holds when the process starts.
LEMMA InitIInv == Init => IInv
<1> SUFFICES ASSUME Init PROVE IInv
  OBVIOUS
<1>1. OwnTypes
  BY DEF Init, OwnTypes, Status, Step, StopStep
<1>2. ControlInv
  <2>1. /\ enabled \in BOOLEAN
        /\ slot \in [Call -> CC!SlotState]
        /\ removing = <<>>
    BY DEF Init, CC!Init, CC!SlotState
  <2>2. queue \in [CC!Queues -> Seq(Call)] /\ removing \in Seq(CC!QueueType \X Execution)
    BY DEF Init, CC!Init
  <2>3. \A t \in CC!Queues : CC!Limit[t] \in Int
    BY ControlAssumption DEF CC!Queues, CC!Limit
  <2>4. capacity \in [CC!Queues -> Int]
    BY <2>3 DEF Init, CC!Init
  <2> QED
    BY <2>1, <2>2, <2>4 DEF ControlInv, CC!TypeOK
<1>3. RowInv
  BY DEF Init, RowInv, AtMostOneRunner, WaitingRowIsIdle, FreshInv, Owns, Unclaimed
<1> QED
  BY <1>1, <1>2, <1>3 DEF IInv

\* And every step keeps it.
LEMMA NextIInv == IInv /\ [Next]_vars => IInv'
  BY StepTypes, StepControls, ControlStepTypes, StepRows DEF IInv

\* So it always holds.
THEOREM Invariant == Spec => []IInv
  BY InitIInv, NextIInv, PTL DEF Spec

\* Type correctness, of the reservations as well as of rows, entries and engines.
THEOREM TypeCorrect == Spec => []TypeOK
<1>1. IInv => TypeOK
  BY DEF IInv, OwnTypes, ControlInv, TypeOK
<1> QED
  BY <1>1, Invariant, PTL

\* An execution is run by one call at a time, however many callers resume it and
\* whatever is stopped meanwhile.
THEOREM OneRunner == Spec => []AtMostOneRunner
<1>1. IInv => AtMostOneRunner
  BY DEF IInv, RowInv
<1> QED
  BY <1>1, Invariant, PTL

\* Whoever resumes an execution whose row says waiting meets no engine of it that
\* has still to save.
THEOREM WaitingIsIdle == Spec => []WaitingRowIsIdle
<1>1. IInv => WaitingRowIsIdle
  BY DEF IInv, RowInv
<1> QED
  BY <1>1, Invariant, PTL

\* Whatever ActiveExecutions does with its reservations, ConcurrencyControl allows:
\* what is proved of that module holds in this one.
THEOREM UsesControlByContract == Spec => RefinesConcurrencyControl
<1>1. Init => CC!Init
  BY DEF Init
<1>2. IInv /\ [Next]_vars => [CC!Next]_(CC!vars)
  <2> SUFFICES ASSUME IInv, [Next]_vars PROVE [CC!Next]_(CC!vars)
    OBVIOUS
  <2>1. ControlStep /\ CC!Idle
    BY StepControls DEF IInv, ControlInv, CC!Idle
  <2> QED
    BY <2>1 DEF ControlStep, CC!Next, CC!vars, ccVars
<1> QED
  BY <1>1, <1>2, Invariant, PTL DEF Spec, RefinesConcurrencyControl, CC!Spec

-----------------------------------------------------------------------------
(* Lines                                                                     *)

\* A line q of the queue t, under reservations s: those throttled for it, each once.
Line(t, q, s) ==
  /\ \A i, j \in 1..Len(q) : i # j => q[i] # q[j]
  /\ \A i \in 1..Len(q) : s[q[i]] = "queued" /\ t \in CC!QueuesOf(q[i])

LineInv == \A t \in CC!Queues : Line(t, queue[t], slot)

\* What a step can do to the reservations when the calls in took reserve and those
\* in gave release: it also lets some of those in line through, or drops them.
SlotStep(took, gave) ==
  \A c \in Call :
    \/ slot'[c] = slot[c] /\ c \notin gave
    \/ slot[c] = "queued" /\ slot'[c] \in {"reserved", "dropped"}
    \/ c \in took /\ slot[c] = "none" /\ slot'[c] \in {"queued", "reserved"}
    \/ c \in gave /\ slot[c] = "reserved" /\ slot'[c] = "released"

\* A call waits in one line at most.
LEMMA OneLine ==
  ASSUME NEW c \in Call, NEW t \in CC!QueuesOf(c), NEW u \in CC!QueuesOf(c)
  PROVE  t = u /\ t \in CC!Queues
  BY DEF CC!QueuesOf, CC!QueuesOfMode, CC!Queues, CC!ProductionModes, CC!EvaluationModes

\* Letting the first one through takes it out of its line.
LEMMA ResolveNextLine ==
  ASSUME NEW t \in CC!Queues, NEW q \in Seq(Call), NEW s \in [Call -> CC!SlotState],
         queue \in [CC!Queues -> Seq(Call)], CC!ResolveNext(t, q, s),
         Line(t, q, s), \A u \in CC!Queues \ {t} : Line(u, queue[u], s)
  PROVE  /\ LineInv'
         /\ \A c \in Call : \/ slot'[c] = s[c]
                            \/ s[c] = "queued" /\ slot'[c] = "reserved"
<1>1. CASE q = <<>>
  <2>1. slot' = s /\ queue' = [queue EXCEPT ![t] = q]
    BY <1>1 DEF CC!ResolveNext
  <2>2. \A u \in CC!Queues : Line(u, queue'[u], slot')
    BY <2>1
  <2> QED
    BY <2>1, <2>2 DEF LineInv, Line
<1>2. CASE q # <<>>
  <2>1. /\ slot' = [s EXCEPT ![q[1]] = "reserved"]
        /\ queue' = [queue EXCEPT ![t] = Tail(q)]
    BY <1>2 DEF CC!ResolveNext
  <2>2. /\ Len(q) \in Nat /\ Len(q) > 0 /\ Len(Tail(q)) = Len(q) - 1
        /\ \A i \in 1..Len(q) : q[i] \in Call
        /\ \A i \in 1..(Len(q) - 1) : Tail(q)[i] = q[i + 1]
    BY <1>2
  <2>3. Line(t, Tail(q), slot')
    <3>1. \A i \in 1..(Len(q) - 1) : i + 1 \in 1..Len(q) /\ q[i + 1] # q[1]
      BY <2>2 DEF Line
    <3>2. \A i, j \in 1..(Len(q) - 1) : i # j => q[i + 1] # q[j + 1]
      BY <2>2 DEF Line
    <3>3. \A i \in 1..(Len(q) - 1) : slot'[q[i + 1]] = "queued" /\ t \in CC!QueuesOf(q[i + 1])
      BY <2>1, <2>2, <3>1 DEF Line
    <3> QED
      BY <2>2, <3>2, <3>3 DEF Line
  <2>4. ASSUME NEW u \in CC!Queues \ {t} PROVE Line(u, queue[u], slot')
    <3>1. queue[u] \in Seq(Call) /\ Line(u, queue[u], s)
      OBVIOUS
    <3>2. ASSUME NEW i \in 1..Len(queue[u]) PROVE queue[u][i] # q[1]
      <4>1. t \in CC!QueuesOf(q[1]) /\ u \in CC!QueuesOf(queue[u][i]) /\ q[1] \in Call
        BY <2>2, <3>1, <3>2 DEF Line
      <4> QED
        BY <4>1, OneLine
    <3> QED
      BY <2>1, <3>1, <3>2, ElementOfSeq DEF Line
  <2>5. \A u \in CC!Queues : Line(u, queue'[u], slot')
    BY <2>1, <2>3, <2>4
  <2>6. LineInv'
    BY <2>5 DEF LineInv, Line
  <2>7. s[q[1]] = "queued"
    BY <2>2 DEF Line
  <2> QED
    BY <2>1, <2>6, <2>7
<1> QED
  BY <1>1, <1>2

\* A reservation that is not in line changes no line.
LEMMA LinesApart ==
  ASSUME LineInv, queue \in [CC!Queues -> Seq(Call)], slot \in [Call -> CC!SlotState],
         NEW c \in Call, slot[c] # "queued", NEW z
  PROVE  \A u \in CC!Queues : Line(u, queue[u], [slot EXCEPT ![c] = z])
<1> SUFFICES ASSUME NEW u \in CC!Queues PROVE Line(u, queue[u], [slot EXCEPT ![c] = z])
  OBVIOUS
<1>1. Line(u, queue[u], slot) /\ \A i \in 1..Len(queue[u]) : queue[u][i] \in Call
  BY ElementOfSeq DEF LineInv
<1> QED
  BY <1>1 DEF Line

\* Reserving puts the call at the end of its line, at most.
LEMMA ThrottleSlots ==
  ASSUME CC!TypeOK, LineInv, NEW c \in Call, CC!Throttle(c)
  PROVE  LineInv' /\ SlotStep({c}, {})
<1>0. /\ queue \in [CC!Queues -> Seq(Call)] /\ slot \in [Call -> CC!SlotState]
      /\ slot[c] = "none"
  BY DEF CC!TypeOK, CC!Throttle
<1>1. CASE slot' = [slot EXCEPT ![c] = "reserved"] /\ queue' = queue
  BY <1>0, <1>1, LinesApart DEF LineInv, SlotStep
<1>2. ASSUME NEW t \in CC!QueuesOf(c), slot' = [slot EXCEPT ![c] = "queued"],
             queue' = [queue EXCEPT ![t] = Append(@, c)]
      PROVE  LineInv' /\ SlotStep({c}, {})
  <2>1. t \in CC!Queues /\ queue[t] \in Seq(Call)
    BY <1>0, OneLine
  <2>2. /\ Len(Append(queue[t], c)) = Len(queue[t]) + 1 /\ Len(queue[t]) \in Nat
        /\ \A i \in 1..Len(queue[t]) : Append(queue[t], c)[i] = queue[t][i]
        /\ Append(queue[t], c)[Len(queue[t]) + 1] = c
    BY <2>1
  <2>3. \A i \in 1..Len(queue[t]) : queue[t][i] \in Call /\ queue[t][i] # c
    BY <1>0, <2>1, ElementOfSeq DEF LineInv, Line
  <2>4. Line(t, Append(queue[t], c), slot')
    <3>1. Line(t, queue[t], slot')
      BY <1>0, <1>2, <2>1, LinesApart
    <3>2. /\ \A i, j \in 1..Len(queue[t]) : i # j => queue[t][i] # queue[t][j]
          /\ \A i \in 1..Len(queue[t]) :
               slot'[queue[t][i]] = "queued" /\ t \in CC!QueuesOf(queue[t][i])
      BY <3>1 DEF Line
    <3>3. slot'[c] = "queued"
      BY <1>0, <1>2
    <3>4. \A i \in 1..(Len(queue[t]) + 1) : i \in 1..Len(queue[t]) \/ i = Len(queue[t]) + 1
      BY <2>2
    <3> DEFINE a == Append(queue[t], c)
    <3> HIDE DEF a
    <3>5. \A i \in 1..Len(a) : slot'[a[i]] = "queued" /\ t \in CC!QueuesOf(a[i])
      BY <1>2, <2>2, <3>2, <3>3, <3>4 DEF a
    <3>6. \A i, j \in 1..Len(a) : i # j => a[i] # a[j]
      BY <2>2, <2>3, <3>2, <3>4 DEF a
    <3> QED
      BY <3>5, <3>6 DEF Line, a
  <2>5. \A u \in CC!Queues : Line(u, queue'[u], slot')
    BY <1>0, <1>2, <2>1, <2>4, LinesApart
  <2> QED
    BY <1>0, <1>2, <2>5 DEF LineInv, SlotStep
<1> QED
  BY <1>1, <1>2 DEF CC!Throttle, CC!Enqueue

\* Releasing lets the first one in line through, at most.
LEMMA ReleaseSlots ==
  ASSUME CC!TypeOK, LineInv, NEW c \in Call, CC!Release(c)
  PROVE  LineInv' /\ SlotStep({}, {c})
<1> DEFINE s == [slot EXCEPT ![c] = "released"]
<1>0. /\ queue \in [CC!Queues -> Seq(Call)] /\ slot \in [Call -> CC!SlotState]
      /\ slot[c] = "reserved" /\ s \in [Call -> CC!SlotState]
  BY DEF CC!TypeOK, CC!Release, CC!SlotState
<1>1. \A u \in CC!Queues : Line(u, queue[u], s)
  BY <1>0, LinesApart
<1>2. CASE slot' = s /\ queue' = queue
  BY <1>0, <1>1, <1>2 DEF LineInv, SlotStep
<1>3. ASSUME NEW t \in CC!QueuesOf(c), CC!ResolveNext(t, queue[t], s)
      PROVE  LineInv' /\ SlotStep({}, {c})
  <2>1. t \in CC!Queues /\ queue[t] \in Seq(Call)
    BY <1>0, OneLine
  <2>2. /\ LineInv'
        /\ \A d \in Call : \/ slot'[d] = s[d]
                           \/ s[d] = "queued" /\ slot'[d] = "reserved"
    <3>1. CC!ResolveNext(t, queue[t], s) /\ Line(t, queue[t], s)
      BY <1>1, <1>3, <2>1
    <3> HIDE DEF s
    <3> QED
      BY <1>0, <1>1, <2>1, <3>1, ResolveNextLine
  <2> QED
    BY <1>0, <2>2 DEF SlotStep
<1> QED
  BY <1>2, <1>3 DEF CC!Release, CC!Dequeue

\* Taking a call out of its line, and dropping it, keeps the lines.
LEMMA TakeOutLine ==
  ASSUME LineInv, queue \in [CC!Queues -> Seq(Call)], slot \in [Call -> CC!SlotState],
         NEW t \in CC!Queues, NEW q \in Seq(Call), Line(t, q, slot), NEW i \in 1..Len(q)
  PROVE  LET s == [slot EXCEPT ![q[i]] = "dropped"]
         IN /\ RemoveAt(q, i) \in Seq(Call) /\ s \in [Call -> CC!SlotState]
            /\ slot[q[i]] = "queued"
            /\ Line(t, RemoveAt(q, i), s)
            /\ \A u \in CC!Queues \ {t} : Line(u, queue[u], s)
<1> DEFINE r == RemoveAt(q, i)
           s == [slot EXCEPT ![q[i]] = "dropped"]
           h(j) == IF j < i THEN j ELSE j + 1
<1>1. Len(q) \in Nat /\ \A j \in 1..Len(q) : q[j] \in Call
  BY ElementOfSeq, LenProperties
<1>2. /\ r \in Seq(Call) /\ Len(r) = Len(q) - 1
      /\ \A j \in 1..(Len(q) - 1) : r[j] = IF j < i THEN q[j] ELSE q[j + 1]
  BY RemoveAtProperties
<1> HIDE DEF r
<1>3. slot[q[i]] = "queued" /\ s \in [Call -> CC!SlotState]
  BY <1>1 DEF LineInv, Line, CC!SlotState
<1>4. \A j \in 1..Len(r) : h(j) \in 1..Len(q) /\ r[j] = q[h(j)] /\ h(j) # i
  BY <1>1, <1>2
<1>5. \A j, k \in 1..Len(r) : j # k => h(j) # h(k)
  BY <1>1, <1>2
<1> HIDE DEF h
<1>6. Line(t, r, s)
  <2>1. \A j \in 1..Len(r) : r[j] \in Call /\ r[j] # q[i] /\ slot[r[j]] = "queued"
    BY <1>1, <1>4 DEF Line
  <2>2. \A j \in 1..Len(r) : s[r[j]] = "queued" /\ t \in CC!QueuesOf(r[j])
    BY <1>1, <1>4, <2>1 DEF Line
  <2>3. \A j, k \in 1..Len(r) : j # k => r[j] # r[k]
    BY <1>4, <1>5 DEF Line
  <2> HIDE DEF s
  <2> QED
    BY <2>2, <2>3 DEF Line
<1>7. ASSUME NEW u \in CC!Queues \ {t} PROVE Line(u, queue[u], s)
  <2>1. Line(u, queue[u], slot) /\ \A j \in 1..Len(queue[u]) : queue[u][j] \in Call
    BY ElementOfSeq DEF LineInv
  <2>2. ASSUME NEW j \in 1..Len(queue[u]) PROVE queue[u][j] # q[i]
    <3>1. t \in CC!QueuesOf(q[i]) /\ u \in CC!QueuesOf(queue[u][j]) /\ q[i] \in Call
      BY <1>1, <1>3, <2>1, <2>2 DEF Line
    <3> QED
      BY <3>1, OneLine
  <2> QED
    BY <2>1, <2>2 DEF Line
<1> QED
  BY <1>2, <1>3, <1>6, <1>7 DEF r

\* Taking an execution out of its line drops one call and lets another through.
LEMMA RemoveSlots ==
  ASSUME CC!TypeOK, LineInv, NEW e \in Execution, NEW c \in Call,
         CC!RemoveQueued(e, ModeOf[c])
  PROVE  LineInv' /\ SlotStep({}, {})
<1>0. queue \in [CC!Queues -> Seq(Call)] /\ slot \in [Call -> CC!SlotState]
  BY DEF CC!TypeOK
<1>1. CASE UNCHANGED <<queue, slot>>
  BY <1>1 DEF LineInv, Line, SlotStep
<1>2. ASSUME NEW t \in CC!Queues, NEW i \in 1..Len(queue[t]),
             CC!ResolveNext(t, CC!RemoveAt(queue[t], i), [slot EXCEPT ![queue[t][i]] = "dropped"])
      PROVE  LineInv' /\ SlotStep({}, {})
  <2> DEFINE r == RemoveAt(queue[t], i)
             s == [slot EXCEPT ![queue[t][i]] = "dropped"]
  <2>1. queue[t] \in Seq(Call)
    BY <1>0
  <2>2. /\ r \in Seq(Call) /\ s \in [Call -> CC!SlotState]
        /\ slot[queue[t][i]] = "queued"
        /\ Line(t, r, s) /\ \A u \in CC!Queues \ {t} : Line(u, queue[u], s)
    BY <1>0, <2>1, TakeOutLine DEF LineInv
  <2>3. CC!ResolveNext(t, r, s)
    BY <1>2 DEF RemoveAt, CC!RemoveAt
  <2>4. /\ LineInv'
        /\ \A d \in Call : \/ slot'[d] = s[d]
                           \/ s[d] = "queued" /\ slot'[d] = "reserved"
    <3> HIDE DEF r, s
    <3> QED
      BY <1>0, <2>2, <2>3, ResolveNextLine
  <2> QED
    BY <1>0, <2>2, <2>4 DEF SlotStep
<1>3. CC!QueuesOfMode(ModeOf[c]) \subseteq CC!Queues
  BY DEF CC!QueuesOfMode
<1> QED
  BY <1>1, <1>2, <1>3, Zenon DEF CC!RemoveQueued, CC!RemoveItem

-----------------------------------------------------------------------------
(* Entries                                                                   *)

\* What settling or forgetting the entry of e, or neither, does to the entries.
EntryStep(e) ==
  /\ status' = status
  /\ \/ UNCHANGED <<active, engine>> /\ SlotStep({}, {})
     \/ \E c \in Call :
          /\ active[e] = c /\ status[c] = "waiting" /\ active' = active
          /\ engine' = [engine EXCEPT ![c] = None] /\ SlotStep({}, {c})
     \/ \E c \in Call :
          /\ active[e] = c /\ status[c] = "waiting"
          /\ active' = [active EXCEPT ![e] = None]
          /\ engine' = engine /\ SlotStep({}, {})
     \/ \E c \in Call :
          /\ active[e] = c /\ status[c] = "running"
          /\ active' = [active EXCEPT ![e] = None]
          /\ engine' = engine /\ SlotStep({}, {c})

\* A step that leaves the reservations alone.
LEMMA SlotsRest ==
  ASSUME LineInv, UNCHANGED ccVars
  PROVE  LineInv' /\ SlotStep({}, {})
<1>1. queue' = queue /\ slot' = slot
  BY DEF ccVars
<1> QED
  BY <1>1 DEF LineInv, Line, SlotStep

\* Settling the entry of an execution.
LEMMA SettleEntries ==
  ASSUME OwnTypes, CC!TypeOK, LineInv, EntryInv, NEW e \in Execution, NEW c \in Call,
         active[e] = c, Settle(c)
  PROVE  LineInv' /\ EntryStep(e)
<1>0. ExecutionOf[c] = e /\ status[c] \in {"running", "waiting"}
  BY DEF EntryInv, OwnTypes
<1>1. CASE c \in settled
  BY <1>1, SlotsRest DEF Settle, EntryStep, entryVars
<1>2. CASE c \notin settled
  <2>1. LineInv' /\ SlotStep({}, {c})
    BY <1>2, ReleaseSlots DEF Settle
  <2>2. CASE status[c] = "waiting"
    <3>1. status' = status /\ active' = active /\ engine' = [engine EXCEPT ![c] = None]
      BY <1>2, <2>2 DEF Settle
    <3> QED
      BY <2>1, <2>2, <3>1 DEF EntryStep
  <2>3. CASE status[c] = "running"
    <3>1. status' = status /\ active' = [active EXCEPT ![e] = None] /\ engine' = engine
      BY <1>0, <1>2, <2>3 DEF Settle
    <3> QED
      BY <2>1, <2>3, <3>1 DEF EntryStep
  <2> QED
    BY <1>0, <2>2, <2>3
<1> QED
  BY <1>1, <1>2

\* Finalizing an execution settles its entry, if it has one.
LEMMA FinalizeEntries ==
  ASSUME OwnTypes, CC!TypeOK, LineInv, EntryInv, NEW e \in Execution, FinalizeExecution(e)
  PROVE  LineInv' /\ EntryStep(e)
<1>1. CASE active[e] = None
  BY <1>1, SlotsRest DEF FinalizeExecution, EntryStep, entryVars
<1>2. CASE active[e] # None
  <2>1. active[e] \in Call /\ Settle(active[e])
    BY <1>2 DEF FinalizeExecution, OwnTypes
  <2> QED
    BY <2>1, SettleEntries
<1> QED
  BY <1>1, <1>2

\* Stopping an execution forgets an entry that waits; one that runs it settles, and
\* cancels its engine.
LEMMA StopEntries ==
  ASSUME OwnTypes, CC!TypeOK, LineInv, EntryInv, NEW e \in Execution, StopExecution(e)
  PROVE  /\ LineInv' /\ EntryStep(e) /\ aborted \subseteq aborted'
         /\ \A c \in Call :
              (/\ active[e] = c /\ status[c] = "running"
               /\ pc[c] = "executing" /\ engine[c] = c) => c \in aborted'
<1>1. CASE active[e] = None
  BY <1>1, SlotsRest DEF StopExecution, EntryStep, entryVars, cancelVars
<1>2. ASSUME NEW c \in Call, active[e] = c, status[c] = "waiting"
      PROVE  LineInv' /\ EntryStep(e) /\ aborted' = aborted
  <2>1. /\ UNCHANGED ccVars /\ status' = status /\ engine' = engine /\ aborted' = aborted
        /\ active' = [active EXCEPT ![e] = None]
    BY <1>2 DEF StopExecution, cancelVars
  <2> QED
    BY <1>2, <2>1, SlotsRest DEF EntryStep
<1>3. ASSUME NEW c \in Call, active[e] = c, status[c] = "running"
      PROVE  /\ LineInv' /\ EntryStep(e) /\ aborted \subseteq aborted'
             /\ (pc[c] = "executing" /\ engine[c] = c) => c \in aborted'
  <2>1. Settle(c) /\ Cancel(engine[c])
    BY <1>3 DEF StopExecution
  <2>2. LineInv' /\ EntryStep(e)
    BY <1>3, <2>1, SettleEntries
  <2> QED
    BY <2>1, <2>2 DEF Cancel, EngineSteps, cancelVars
<1>4. active[e] = None \/ (active[e] \in Call /\ status[active[e]] \in {"running", "waiting"})
  BY DEF OwnTypes
<1> QED
  BY <1>1, <1>2, <1>3, <1>4

\* What the steps of the entries keep, each part from all of them.
Linked == SlotInv /\ WaitInv /\ EntryInv /\ OwnerInv /\ NoLeak /\ WatchedRunHoldsReservation

\* They hold when the process starts.
LEMMA InitLinks == Init => LineInv /\ Linked
<1> SUFFICES ASSUME Init PROVE LineInv /\ Linked
  OBVIOUS
<1>1. LineInv
  BY DEF Init, CC!Init, LineInv, Line
<1>2. Linked
  BY DEF Init, CC!Init, Linked, SlotInv, WaitInv, EntryInv, OwnerInv, Owns, NoLeak,
     WatchedRunHoldsReservation
<1> QED
  BY <1>1, <1>2

\* The engine attaches itself to the entry of its own call, or to none.
LEMMA LaunchLinks ==
  ASSUME OwnTypes, Linked, NEW c \in Call, Launch(c), SlotStep({}, {})
  PROVE  Linked'
<1> USE DEF OwnTypes, At, Goto, Step, Unclaimed, Entered, Owns, Linked, SlotStep, EngineSteps
<1>1. /\ pc[c] = "launching" /\ pc' = [pc EXCEPT ![c] = "executing"]
      /\ UNCHANGED <<db, active, status, willWait, outcome, aborted>>
  BY DEF Launch, cancelVars
<1>2. active[ExecutionOf[c]] \in {c, None}
  BY <1>1 DEF OwnerInv
<1>3. CASE active[ExecutionOf[c]] = None
  <2>1. engine' = engine /\ watched' = watched
    BY <1>3 DEF Launch
  <2> QED
    BY <1>1, <1>3, <2>1 DEF SlotInv, WaitInv, EntryInv, OwnerInv, NoLeak,
       WatchedRunHoldsReservation
<1>4. CASE active[ExecutionOf[c]] = c
  <2>1. engine' = [engine EXCEPT ![c] = c] /\ watched' = watched \cup {c}
    BY <1>4 DEF Launch
  <2> QED
    BY <1>1, <1>4, <2>1 DEF SlotInv, WaitInv, EntryInv, OwnerInv, NoLeak,
       WatchedRunHoldsReservation
<1> QED
  BY <1>2, <1>3, <1>4

\* Only an engine that is to wait ends with waiting.
LEMMA CompleteLinks ==
  ASSUME OwnTypes, Linked, NEW c \in Call, Complete(c), SlotStep({}, {})
  PROVE  Linked'
<1>1. /\ pc[c] = "executing"
      /\ pc' = [pc EXCEPT ![c] = "ended"] \/ pc' = [pc EXCEPT ![c] = "saving"]
      /\ UNCHANGED <<db, active, status, engine, watched, willWait, aborted>>
  BY Zenon DEF Complete, At, Goto, entryVars, cancelVars
<1>2. \/ outcome' = outcome
      \/ \E s : outcome' = [outcome EXCEPT ![c] = s] /\ (s = "waiting" => c \in willWait)
  <2>1. \A s \in Endings(c) : s = "waiting" => c \in willWait
    BY DEF Endings
  <2> QED
    BY <2>1, Zenon DEF Complete
<1> USE DEF OwnTypes, Step, Unclaimed, Entered, Owns, Linked, SlotStep, EngineSteps
<1>3. WaitInv'
  BY <1>1, <1>2 DEF WaitInv
<1> QED
  BY <1>1, <1>3, SMTT(30) DEF SlotInv, WaitInv, EntryInv, OwnerInv, NoLeak, WatchedRunHoldsReservation

\* Every step keeps them.
LEMMA StepLinks ==
  ASSUME OwnTypes, CC!TypeOK, RowInv, LineInv, Linked, [Next]_vars
  PROVE  LineInv' /\ Linked'
<1> USE DEF OwnTypes, At, Goto, SetStatus, entryVars, engineVars, cancelVars, Step, Status,
        Unclaimed, Entered, Owns, EngineSteps
<1>1. ASSUME NEW c \in Call, CreateRow(c) \/ ReadRow(c) \/ ClaimRow(c) \/ Register(c)
      PROVE  LineInv' /\ Linked'
  <2>1. LineInv' /\ SlotStep({}, {})
    BY <1>1, SlotsRest DEF CreateRow, ReadRow, ClaimRow, Register
  <2> USE <2>1 DEF Linked, SlotStep, SlotInv, WaitInv, EntryInv, OwnerInv, NoLeak,
          WatchedRunHoldsReservation, AtMostOneRunner, WaitingRowIsIdle, FreshInv, RowInv
  <2>2. CASE CreateRow(c)
    <3>1. /\ pc[c] = "idle" /\ UNCHANGED <<entryVars, engineVars, cancelVars>>
          /\ \/ db' = [db EXCEPT ![ExecutionOf[c]] = "new"]
             \/ db' = db
          /\ \E step \in Unclaimed \ {"idle"} : pc' = [pc EXCEPT ![c] = step]
          /\ pc'[c] \in {"created", "rejected"}
      BY <2>2 DEF CreateRow
    <3>2. SlotInv' /\ WaitInv'
      BY <3>1
    <3>3. EntryInv' /\ OwnerInv'
      BY <3>1, SMTT(30)
    <3>4. NoLeak' /\ WatchedRunHoldsReservation'
      BY <3>1
    <3> QED
      BY <3>2, <3>3, <3>4
  <2>3. CASE ReadRow(c)
    BY <2>3 DEF ReadRow
  <2>4. CASE ClaimRow(c)
    BY <2>4, SMTT(30) DEF ClaimRow
  <2>5. CASE Register(c)
    BY <2>5, SMTT(30) DEF Register
  <2> QED
    BY <1>1, <2>2, <2>3, <2>4, <2>5
<1>2. ASSUME NEW c \in Call,
             \/ CheckCredentials(c) \/ SaveRefused(c) \/ SetRunning(c) \/ PutToWait(c)
             \/ SaveProgress(c) \/ Save(c) \/ SaveCancelled(c) \/ SaveError(c)
             \/ Resave(c) \/ Failure(c)
      PROVE  LineInv' /\ Linked'
  <2>1. LineInv' /\ SlotStep({}, {})
    BY <1>2, SlotsRest
       DEF CheckCredentials, SaveRefused, SetRunning, PutToWait, SaveProgress, Save,
           SaveCancelled, SaveError, Resave, Failure, HookThrows, SaveFails,
           LaterHookThrows, Caught
  <2> USE <2>1 DEF Linked, SlotStep, SlotInv, WaitInv, EntryInv, OwnerInv, NoLeak,
          WatchedRunHoldsReservation
  <2>2. CASE CheckCredentials(c)
    BY <2>2 DEF CheckCredentials
  <2>3. CASE SetRunning(c)
    BY <2>3, SMTT(30) DEF SetRunning
  <2>4. CASE PutToWait(c)
    BY <2>4 DEF PutToWait
  <2>5. CASE SaveProgress(c)
    BY <2>5, SMTT(30) DEF SaveProgress
  <2>6. CASE Save(c)
    BY <2>6 DEF Save
  <2>7. CASE SaveCancelled(c)
    BY <2>7 DEF SaveCancelled, LastWrite
  <2>8. CASE SaveRefused(c)
    BY <2>8, SMTT(30) DEF SaveRefused
  <2>9. CASE SaveError(c)
    BY <2>9 DEF SaveError, LastWrite
  <2>10. CASE Resave(c)
    BY <2>10, SMTT(30) DEF Resave, LastWrite
  <2>11. CASE Failure(c)
    BY <2>11, SMTT(30) DEF Failure, HookThrows, SaveFails, LaterHookThrows, Caught
  <2> QED
    BY <1>2, <2>2, <2>3, <2>4, <2>5, <2>6, <2>7, <2>8, <2>9, <2>10, <2>11
<1>3. ASSUME NEW c \in Call, Reserve(c)
      PROVE  LineInv' /\ Linked'
  <2>1. LineInv' /\ SlotStep({c}, {})
    BY <1>3, ThrottleSlots DEF Reserve
  <2> QED
    BY <1>3, <2>1 DEF Reserve, Linked, SlotStep, SlotInv, WaitInv, EntryInv, OwnerInv, NoLeak,
       WatchedRunHoldsReservation
<1>4. ASSUME NEW c \in Call, Reject(c)
      PROVE  LineInv' /\ Linked'
  <2>1. LineInv' /\ SlotStep({}, {c})
    BY <1>4, ReleaseSlots DEF Reject
  <2> QED
    BY <1>4, <2>1 DEF Reject, Linked, SlotStep, SlotInv, WaitInv, EntryInv, OwnerInv, NoLeak,
       WatchedRunHoldsReservation
<1>5. ASSUME NEW c \in Call, Launch(c)
      PROVE  LineInv' /\ Linked'
  BY <1>5, SlotsRest, LaunchLinks DEF Launch
<1>6. ASSUME NEW c \in Call, Complete(c)
      PROVE  LineInv' /\ Linked'
  <2>1. UNCHANGED ccVars
    BY <1>6 DEF Complete
  <2> QED
    BY <1>6, <2>1, SlotsRest, CompleteLinks
<1>7. ASSUME NEW c \in Call, LaunchFails(c) \/ Finalize(c)
      PROVE  LineInv' /\ Linked'
  <2>1. LineInv' /\ EntryStep(ExecutionOf[c])
    <3>1. CASE FinalizeExecution(ExecutionOf[c])
      BY <3>1, FinalizeEntries DEF Linked
    <3>2. CASE UNCHANGED <<ccVars, entryVars>>
      BY <3>2, SlotsRest DEF EntryStep
    <3> QED
      BY <1>7, <3>1, <3>2 DEF LaunchFails, Finalize
  <2> USE <2>1 DEF Linked, SlotStep, EntryStep, SlotInv, WaitInv, EntryInv, OwnerInv, NoLeak,
          WatchedRunHoldsReservation
  <2>2. CASE LaunchFails(c)
    <3>1. /\ pc[c] = "launching" /\ UNCHANGED <<db, engineVars, cancelVars>>
          /\ \/ pc' = [pc EXCEPT ![c] = "erroring"]
             \/ pc' = [pc EXCEPT ![c] = "abandoned"]
      BY <2>2 DEF LaunchFails
    <3> QED
      BY <3>1, SMTT(30)
  <2>3. CASE Finalize(c)
    BY <2>3 DEF Finalize
  <2> QED
    BY <1>7, <2>2, <2>3
<1>8. ASSUME NEW e \in Execution, StopExecution(e), UNCHANGED <<db, pc, watched, willWait, outcome>>
      PROVE  LineInv' /\ Linked'
  <2>1. /\ LineInv' /\ EntryStep(e) /\ aborted \subseteq aborted'
        /\ \A c \in Call :
             (/\ active[e] = c /\ status[c] = "running"
              /\ pc[c] = "executing" /\ engine[c] = c) => c \in aborted'
    BY <1>8, StopEntries DEF Linked
  <2> QED
    BY <1>8, <2>1 DEF Linked, SlotStep, EntryStep, SlotInv, WaitInv, EntryInv, OwnerInv, NoLeak,
       WatchedRunHoldsReservation
<1>9. ASSUME NEW c \in Call, Timeout(c)
      PROVE  LineInv' /\ Linked'
  BY <1>8, <1>9 DEF Timeout
<1>10. ASSUME NEW e \in Execution, StopRead(e) \/ StopWrite(e)
       PROVE  LineInv' /\ Linked'
  <2>1. LineInv' /\ SlotStep({}, {})
    BY <1>10, SlotsRest DEF StopRead, StopWrite
  <2> USE <2>1 DEF Linked, SlotStep, SlotInv, WaitInv, EntryInv, OwnerInv, NoLeak,
          WatchedRunHoldsReservation
  <2>2. CASE StopRead(e)
    BY <2>2 DEF StopRead
  <2>3. CASE StopWrite(e)
    BY <2>3 DEF StopWrite, LastWrite
  <2> QED
    BY <1>10, <2>2, <2>3
<1>11. ASSUME NEW e \in Execution, StopApply(e)
       PROVE  LineInv' /\ Linked'
  <2>1. CASE CC!Has(e)
    <3>1. PICK c \in Call : CC!RemoveQueued(e, ModeOf[c])
      BY <1>11, <2>1 DEF StopApply
    <3>2. LineInv' /\ SlotStep({}, {})
      BY <3>1, RemoveSlots
    <3>3. UNCHANGED <<db, pc, entryVars, engineVars, cancelVars>>
      BY <1>11, <2>1 DEF StopApply
    <3> QED
      BY <3>2, <3>3 DEF Linked, SlotStep, SlotInv, WaitInv, EntryInv, OwnerInv, NoLeak,
         WatchedRunHoldsReservation
  <2>2. CASE ~CC!Has(e)
    BY <1>8, <1>11, <2>2 DEF StopApply
  <2> QED
    BY <2>1, <2>2
<1>12. CASE Shutdown
  <2>1. queue' = queue /\ slot' = slot
    BY <1>12 DEF Shutdown
  <2>2. LineInv' /\ SlotStep({}, {})
    BY <2>1 DEF LineInv, Line, SlotStep
  <2> QED
    BY <1>12, <2>2 DEF Shutdown, Linked, SlotStep, SlotInv, WaitInv, EntryInv, OwnerInv, NoLeak,
       WatchedRunHoldsReservation
<1>13. CASE UNCHANGED vars
  <2>1. LineInv' /\ SlotStep({}, {})
    BY <1>13, SlotsRest DEF vars
  <2> QED
    BY <1>13, <2>1 DEF vars, Linked, SlotStep, SlotInv, WaitInv, EntryInv, OwnerInv, NoLeak,
       WatchedRunHoldsReservation
<1> HIDE DEF OwnTypes, At, Goto, SetStatus, entryVars, engineVars, cancelVars, Step, Status,
        Unclaimed, Entered, Owns, EngineSteps
<1> QED
  BY <1>1, <1>2, <1>3, <1>4, <1>5, <1>6, <1>7, <1>9, <1>10, <1>11, <1>12, <1>13
     DEF Next, Progress

\* So reservations, entries and engines always belong together.
LEMMA AlwaysLinked == Spec => [](LineInv /\ Linked)
<1>1. IInv /\ LineInv /\ Linked /\ [Next]_vars => (LineInv /\ Linked)'
  BY StepLinks DEF IInv, ControlInv
<1> QED
  BY <1>1, InitLinks, Invariant, PTL DEF Spec

\* No reservation is lost, whatever is stopped, times out, fails or is resumed: it
\* has an owner that will give it back, or its execution is to wait.
THEOREM ReservationsAreOwned == Spec => []NoLeak
<1>1. LineInv /\ Linked => NoLeak
  BY DEF Linked
<1> QED
  BY <1>1, AlwaysLinked, PTL

\* A new workflow that runs counts against the limit until it ends, is cancelled or
\* is to wait, whatever else happens to its execution.
THEOREM RunningCounts == Spec => []WatchedRunHoldsReservation
<1>1. LineInv /\ Linked => WatchedRunHoldsReservation
  BY DEF Linked
<1> QED
  BY <1>1, AlwaysLinked, PTL

=============================================================================
