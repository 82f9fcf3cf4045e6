------------------------------ MODULE JobQueue ------------------------------
(***************************************************************************)
(* What mains and workers share in scaling mode: the rows of the           *)
(* executions in the database, and the Bull queue in Redis with one job    *)
(* for each execution.  Bull is an external library; it is modelled with   *)
(* the options that ScalingService gives it.                               *)
(***************************************************************************)
EXTENDS Naturals, FiniteSets

CONSTANTS
  Main,        \* main processes
  Worker,      \* worker processes
  Execution,   \* executions that are enqueued
  None,
  MaxCrashes,  \* how many processes crash
  MaxStalls    \* how many jobs stall although their worker is alive

ASSUME QueueAssumption ==
  /\ Main \cap Worker = {}
  /\ None \notin Main \cup Worker
  /\ MaxCrashes \in Nat /\ MaxStalls \in Nat

VARIABLES
  row,      \* [Execution -> the status of its row, "none" before there is one]
  unsaved,  \* executions of which a last write failed for good
  job,      \* [Execution -> the state of its job]
  holder,   \* [Execution -> worker that has taken its job, or None]
  aborts,   \* <<w, e>>: the message abort-job for e on its way to w
  up,       \* processes that live
  crashes,  \* how many have crashed
  stalls    \* how many jobs of living workers have stalled

queueVars == <<row, unsaved, job, holder, aborts, up, crashes, stalls>>

InProgress == {"new", "running"}
Final == {"success", "error", "canceled", "crashed"}
RowStatus == InProgress \cup Final \cup {"none", "waiting"}
JobState == {"none", "waiting", "active", "completed", "failed", "stalled", "aborted", "removed"}

QueueTypeOK ==
  /\ row \in [Execution -> RowStatus]
  /\ unsaved \subseteq Execution
  /\ job \in [Execution -> JobState]
  /\ holder \in [Execution -> Worker \cup {None}]
  /\ aborts \subseteq Worker \X Execution
  /\ up \subseteq Main \cup Worker
  /\ crashes \in 0..MaxCrashes /\ stalls \in 0..MaxStalls

QueueInit ==
  /\ row = [e \in Execution |-> "none"]
  /\ unsaved = {}
  /\ job = [e \in Execution |-> "none"]
  /\ holder = [e \in Execution |-> None]
  /\ aborts = {}
  /\ up = Main \cup Worker
  /\ crashes = 0 /\ stalls = 0

\* ExecutionRepository writes the status whatever it was: setRunning,
\* markAsCrashed, stopDuringRun, and updateExistingExecution in the hooks.
WriteRow(e, status) == row' = [row EXCEPT ![e] = status]

\* A write that nothing repeats if the database fails.
LastWrite(e, status) ==
  \/ WriteRow(e, status) /\ UNCHANGED unsaved
  \/ unsaved' = unsaved \cup {e} /\ UNCHANGED row

\* Bull moves a job out of the active ones only for the worker that holds it.
Leave(w, e, state) ==
  job' = IF job[e] = "active" /\ holder[e] = w THEN [job EXCEPT ![e] = state] ELSE job

\* Process p dies; another of its kind goes on.
Dies(p, kind) ==
  /\ p \in kind \cap up /\ kind \cap up # {p}
  /\ crashes < MaxCrashes
  /\ crashes' = crashes + 1
  /\ up' = up \ {p}

\* The lock of an active job has expired: its worker is dead, or has been too
\* busy to renew it.
LockExpires(e) ==
  /\ job[e] = "active"
  /\ \/ holder[e] \notin up /\ UNCHANGED stalls
     \/ holder[e] \in up /\ stalls < MaxStalls /\ stalls' = stalls + 1

\* Fault: without maxStalledCount: 0 Bull gives a stalled job to another worker.
StallRetries(e) ==
  /\ LockExpires(e)
  /\ job' = [job EXCEPT ![e] = "waiting"]
  /\ UNCHANGED <<row, unsaved, holder, aborts, up, crashes>>

\* With maxStalledCount: 0 a stalled job fails at once.
Stall(e) ==
  /\ LockExpires(e)
  /\ job' = [job EXCEPT ![e] = "stalled"]
  /\ UNCHANGED <<row, unsaved, holder, aborts, up, crashes>>

=============================================================================
