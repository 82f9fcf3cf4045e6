----------------------------- MODULE WaitTracker -----------------------------
(***************************************************************************)
(* WaitTracker in the main processes of a scaling-mode n8n: the leader     *)
(* polls the waiting executions, arms a timer for each and resumes it when *)
(* the timer fires.  It starts and stops with the leader-takeover and      *)
(* leader-stepdown events of MultiMainSetup, once Start.init has called    *)
(* registerEventHandlers.                                                  *)
(*                                                                         *)
(* A query is one step where the database reads and another where its      *)
(* result is used.  The claim of a row is the conditional update of        *)
(* ActiveExecutions.add; what a worker does with the execution then is     *)
(* reduced to its end or its next wait.                                    *)
(***************************************************************************)
EXTENDS MultiMainSetup

CONSTANTS
  Execution,
  MaxWaits,   \* how often an execution waits
  SlowBoot    \* whether the process handles Redis while Start.init goes on

ASSUME TrackerAssumption == MaxWaits \in Nat /\ SlowBoot \in BOOLEAN

VARIABLES
  boot,        \* [Main -> how far Start.init has come]
  mainTimer,   \* [Main -> "none", "set" or "cleared"]
  strays,      \* processes with an interval that mainTimer has lost
  scans,       \* [Main -> results of getWaitingExecutions not yet looked at]
  entries,     \* [Main -> ids in waitingExecutions]
  timers,      \* [Main -> ids whose timer is armed]
  resuming,    \* [Main -> ids whose startExecution has not claimed the row yet]
  row,         \* [Execution -> its status]
  waits,       \* [Execution -> how often it has started to wait]
  claims       \* [Execution -> how often it has been resumed]

processVars == <<boot, mainTimer, strays, scans, entries, timers, resuming>>
rowVars == <<row, waits, claims>>
vars == <<electionVars, processVars, rowVars>>

Boot == {"init",       \* up to WaitTracker.init
         "tracking",   \* up to registerEventHandlers
         "listening"}
Status == {"running", "waiting", "ended"}

TrackerTypeOK ==
  /\ ElectionTypeOK
  /\ boot \in [Main -> Boot]
  /\ mainTimer \in [Main -> {"none", "set", "cleared"}]
  /\ strays \subseteq Main
  /\ scans \in [Main -> SUBSET SUBSET Execution]
  /\ entries \in [Main -> SUBSET Execution]
  /\ \A m \in Main : timers[m] \subseteq entries[m]
  /\ resuming \in [Main -> SUBSET Execution]
  /\ row \in [Execution -> Status]
  /\ waits \in [Execution -> 0..MaxWaits]
  /\ claims \in [Execution -> Nat]

Init ==
  /\ ElectionInit
  /\ boot = [m \in Main |-> "init"]
  /\ mainTimer = [m \in Main |-> "none"]
  /\ strays = {}
  /\ scans = [m \in Main |-> {}]
  /\ entries = [m \in Main |-> {}]
  /\ timers = [m \in Main |-> {}]
  /\ resuming = [m \in Main |-> {}]
  /\ row = [e \in Execution |-> "running"]
  /\ waits = [e \in Execution |-> 0]
  /\ claims = [e \in Execution |-> 0]

\* getWaitingExecutions of the repository: stopDuringRun and add clear waitTill.
Waiting == {e \in Execution : row[e] = "waiting"}

\* getWaitingExecutions sends its query; a result with nothing in it has no effect.
Query(m) ==
  scans' = IF Waiting = {} THEN scans ELSE [scans EXCEPT ![m] = @ \cup {Waiting}]

-----------------------------------------------------------------------------
(* Tracking                                                                  *)

\* startTracking: set the interval, and query at once.  It does not look whether
\* there is an interval already.
StartTracking(m) ==
  /\ mainTimer' = [mainTimer EXCEPT ![m] = "set"]
  /\ strays' = IF mainTimer[m] = "set" THEN strays \cup {m} ELSE strays
  /\ Query(m)
  /\ UNCHANGED <<boot, entries, timers, resuming>>

\* stopTracking: clear the interval and the timers; waitingExecutions stays.
StopTracking(m) ==
  IF mainTimer[m] = "none"
  THEN UNCHANGED processVars
  ELSE /\ mainTimer' = [mainTimer EXCEPT ![m] = "cleared"]
       /\ timers' = [timers EXCEPT ![m] = {}]
       /\ UNCHANGED <<boot, strays, scans, entries, resuming>>

Polls(m) == mainTimer[m] = "set" \/ m \in strays

\* The interval: query again.
Poll(m) ==
  /\ Polls(m) /\ scans[m] = {}
  /\ Query(m)
  /\ UNCHANGED <<electionVars, rowVars, boot, mainTimer, strays, entries, timers, resuming>>

\* Fault: only a leader arms timers, but whoever polls notes the executions.
ArmIfLeader(m) ==
  /\ \E found \in scans[m] :
       /\ scans' = [scans EXCEPT ![m] = @ \ {found}]
       /\ timers' = IF role[m] = "leader"
                    THEN [timers EXCEPT ![m] = @ \cup (found \ entries[m])] ELSE timers
       /\ entries' = [entries EXCEPT ![m] = @ \cup found]
  /\ UNCHANGED <<electionVars, rowVars, boot, mainTimer, strays, resuming>>

\* getWaitingExecutions goes on: arm a timer for each one that has no entry.
Arm(m) ==
  /\ \E found \in scans[m] :
       /\ scans' = [scans EXCEPT ![m] = @ \ {found}]
       /\ timers' = [timers EXCEPT ![m] = @ \cup (found \ entries[m])]
       /\ entries' = [entries EXCEPT ![m] = @ \cup found]
  /\ UNCHANGED <<electionVars, rowVars, boot, mainTimer, strays, resuming>>

\* The timer of an execution: startExecution forgets the entry.
Fire(m, e) ==
  /\ e \in timers[m]
  /\ timers' = [timers EXCEPT ![m] = @ \ {e}]
  /\ entries' = [entries EXCEPT ![m] = @ \ {e}]
  /\ resuming' = [resuming EXCEPT ![m] = @ \cup {e}]
  /\ UNCHANGED <<electionVars, rowVars, boot, mainTimer, strays, scans>>

\* Fault: the row is claimed by its id alone.
ClaimAlways(m, e) ==
  /\ e \in resuming[m]
  /\ resuming' = [resuming EXCEPT ![m] = @ \ {e}]
  /\ row' = [row EXCEPT ![e] = "running"]
  /\ claims' = [claims EXCEPT ![e] = @ + 1]
  /\ UNCHANGED <<electionVars, boot, mainTimer, strays, scans, entries, timers, waits>>

\* startExecution claims the row in ActiveExecutions.add if it still waits.
Claim(m, e) ==
  /\ e \in resuming[m]
  /\ resuming' = [resuming EXCEPT ![m] = @ \ {e}]
  /\ IF row[e] = "waiting"
     THEN /\ row' = [row EXCEPT ![e] = "running"]
          /\ claims' = [claims EXCEPT ![e] = @ + 1]
     ELSE UNCHANGED <<row, claims>>
  /\ UNCHANGED <<electionVars, boot, mainTimer, strays, scans, entries, timers, waits>>

-----------------------------------------------------------------------------
(* The life of a process                                                     *)

\* Fault: any process tracks from its boot on.
InitTrackerAlways(m) ==
  /\ phase[m] = "up" /\ boot[m] = "init"
  /\ boot' = [boot EXCEPT ![m] = "tracking"]
  /\ mainTimer' = [mainTimer EXCEPT ![m] = "set"]
  /\ Query(m)
  /\ UNCHANGED <<electionVars, rowVars, strays, entries, timers, resuming>>

\* WaitTracker.init.
InitTracker(m) ==
  /\ phase[m] = "up" /\ boot[m] = "init"
  /\ boot' = [boot EXCEPT ![m] = "tracking"]
  /\ IF role[m] = "leader"
     THEN /\ mainTimer' = [mainTimer EXCEPT ![m] = "set"]
          /\ Query(m)
     ELSE UNCHANGED <<mainTimer, scans>>
  /\ UNCHANGED <<electionVars, rowVars, strays, entries, timers, resuming>>

\* registerEventHandlers.
Register(m) ==
  /\ boot[m] = "tracking"
  /\ boot' = [boot EXCEPT ![m] = "listening"]
  /\ UNCHANGED <<electionVars, rowVars, mainTimer, strays, scans, entries, timers, resuming>>

\* Unless the boot is slow, registerEventHandlers precedes the first checkLeader.
MayHandle(m) == SlowBoot \/ boot[m] = "listening" \/ phase[m] = "electing"

\* A reply of Redis is handled, and with it the event it gives rise to.
HandleReply(m) ==
  /\ MayHandle(m) /\ Handle(m)
  /\ IF boot[m] # "listening" THEN UNCHANGED processVars
     ELSE \/ TakesOver(m) /\ StartTracking(m)
          \/ StepsDown(m) /\ StopTracking(m)
          \/ ~TakesOver(m) /\ ~StepsDown(m) /\ UNCHANGED processVars
  /\ UNCHANGED rowVars

CheckLeader(m) ==
  /\ MayHandle(m) /\ Check(m)
  /\ UNCHANGED <<processVars, rowVars>>

\* stopProcess stops the tracking first.
StopProcess(m) ==
  /\ boot[m] = "listening" /\ Stop(m) /\ StopTracking(m)
  /\ UNCHANGED rowVars

\* With the process, its timers and promises are gone.
Forget(m) ==
  /\ boot' = [boot EXCEPT ![m] = "init"]
  /\ mainTimer' = [mainTimer EXCEPT ![m] = "none"]
  /\ strays' = strays \ {m}
  /\ scans' = [scans EXCEPT ![m] = {}]
  /\ entries' = [entries EXCEPT ![m] = {}]
  /\ timers' = [timers EXCEPT ![m] = {}]
  /\ resuming' = [resuming EXCEPT ![m] = {}]
  /\ UNCHANGED rowVars

ResignProcess(m) ==
  /\ Resign(m)
  /\ IF role[m] = "leader" THEN UNCHANGED <<processVars, rowVars>> ELSE Forget(m)

EndProcess(m) == (Exit(m) \/ Crash(m)) /\ Forget(m)

-----------------------------------------------------------------------------
(* Executions and stop requests                                              *)

\* A worker runs the execution until it waits again or ends.
Wait(e) ==
  /\ row[e] = "running" /\ waits[e] < MaxWaits
  /\ row' = [row EXCEPT ![e] = "waiting"]
  /\ waits' = [waits EXCEPT ![e] = @ + 1]
  /\ UNCHANGED <<electionVars, processVars, claims>>

Finish(e) ==
  /\ row[e] = "running"
  /\ row' = [row EXCEPT ![e] = "ended"]
  /\ UNCHANGED <<electionVars, processVars, waits, claims>>

\* Fault: the entry is deleted and its timer left running.
StopWaitingKeepsTimer(m, e) ==
  /\ boot[m] = "listening" /\ row[e] \in {"running", "waiting"}
  /\ entries' = [entries EXCEPT ![m] = @ \ {e}]
  /\ row' = [row EXCEPT ![e] = "ended"]
  /\ UNCHANGED <<electionVars, boot, mainTimer, strays, scans, timers, resuming, waits, claims>>

\* ExecutionService.stop, on whichever process the request reaches: forget the
\* timer if it is this process that has it, and cancel the row.
StopWaiting(m, e) ==
  /\ boot[m] = "listening" /\ row[e] \in {"running", "waiting"}
  /\ entries' = [entries EXCEPT ![m] = @ \ {e}]
  /\ timers' = [timers EXCEPT ![m] = @ \ {e}]
  /\ row' = [row EXCEPT ![e] = "ended"]
  /\ UNCHANGED <<electionVars, boot, mainTimer, strays, scans, resuming, waits, claims>>

-----------------------------------------------------------------------------

Next ==
  \/ \E m \in Main :
       \/ (Start(m) \/ Execute(m)) /\ UNCHANGED <<processVars, rowVars>>
       \/ InitTracker(m) \/ Register(m) \/ CheckLeader(m) \/ HandleReply(m)
       \/ StopProcess(m) \/ ResignProcess(m) \/ EndProcess(m)
       \/ Poll(m) \/ Arm(m)
       \/ \E e \in Execution : Fire(m, e) \/ Claim(m, e) \/ StopWaiting(m, e)
  \/ (Expire \/ Lapse) /\ UNCHANGED <<processVars, rowVars>>
  \/ \E e \in Execution : Wait(e) \/ Finish(e)

\* What a process does on its own once it can: queries are answered, boot and
\* shutdown go on.
Progress(m) ==
  \/ InitTracker(m) \/ Register(m) \/ Arm(m) \/ ResignProcess(m) \/ (Exit(m) /\ Forget(m))

\* As in MultiMainSetup; besides, timers and the interval of the tracker fire.
Spec ==
  /\ Init /\ [][Next]_vars
  /\ WF_vars(Expire /\ UNCHANGED <<processVars, rowVars>>)
  /\ \A m \in Main :
       /\ WF_vars(Execute(m) /\ UNCHANGED <<processVars, rowVars>>)
       /\ WF_vars(CheckLeader(m) /\ Outstanding(m) = 0)
       /\ WF_vars(HandleReply(m)) /\ WF_vars(Poll(m)) /\ WF_vars(Progress(m))
       /\ \A e \in Execution : WF_vars(Fire(m, e)) /\ WF_vars(Claim(m, e))

-----------------------------------------------------------------------------
(* Properties                                                                *)

\* However many processes believe they lead, whatever stale queries arm timers
\* and whatever is stopped in between, an execution is resumed at most once for
\* each time it waits.
ResumedOncePerWait == \A e \in Execution : claims[e] <= waits[e]

\* As long as no living leader loses the key, nobody polls but the process whose key
\* it is, so that one at most does, however the checks of a process overlap and its
\* boot lasts: crashes, restarts and shutdowns leave no interval of a former leader
\* behind, and no vote that comes late starts one.
PollersHoldTheKey ==
  lapses = 0 => \A m \in Main : (Checking(m) /\ Polls(m)) => key = HostOf[m]

\* The process has found its leadership in the key, or won it before its handlers
\* were registered: it leads, and does not track.
LeadsUnheard(m) == phase[m] = "up" /\ role[m] = "leader" /\ ~Polls(m)

\* A waiting execution is resumed or stopped even if the process that has its timer
\* ends and another takes over, as long as no living leader loses the key and, in
\* the end, a process stays up and none leads unheard (see LeadersTrack).
EveryWaitIsResumedIfLeadersTrack ==
  \A e \in Execution :
    /\ <>[](\E m \in Main : phase[m] = "up")
    /\ [](lapses = 0) /\ <>[](\A m \in Main : ~LeadsUnheard(m))
    => (row[e] = "waiting" ~> row[e] # "waiting")

-----------------------------------------------------------------------------
(* What comments in the code say and the code does not do                    *)

\* getWaitingExecutions: "Add timers for each waiting execution that they get
\* started at the correct time".
EveryWaitIsResumed ==
  \A e \in Execution :
    <>[](\E m \in Main : phase[m] = "up") => (row[e] = "waiting" ~> row[e] # "waiting")

\* leader-takeover: "Emitted when this instance gains leadership. In response,
\* its various services will start [...] wait-tracking".
LeadersTrack == \A m \in Main : LeadsUnheard(m) ~> ~LeadsUnheard(m)

\* leader-stepdown: "Emitted when this instance loses leadership. In response, its
\* various services will stop triggers, pollers, pruning, wait-tracking, [...]".
FollowersDoNotPoll ==
  \A m \in Main :
    (phase[m] = "up" /\ boot[m] = "listening" /\ role[m] = "follower") => ~Polls(m)

=============================================================================
