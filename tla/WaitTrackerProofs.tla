-------------------------- MODULE WaitTrackerProofs --------------------------
(***************************************************************************)
(* Proofs about WaitTracker, for any number of processes, executions and   *)
(* waits, of commands under way and of lapses of the leader key.           *)
(***************************************************************************)
EXTENDS WaitTracker, MultiMainSetupProofs

USE MainAssumption, TrackerAssumption

-----------------------------------------------------------------------------
(* The inductive invariants                                                  *)

\* The types, with timers as a function.
TrackerTypes ==
  /\ boot \in [Main -> Boot]
  /\ mainTimer \in [Main -> {"none", "set", "cleared"}]
  /\ strays \subseteq Main
  /\ scans \in [Main -> SUBSET SUBSET Execution]
  /\ entries \in [Main -> SUBSET Execution]
  /\ timers \in [Main -> SUBSET Execution]
  /\ \A m \in Main : timers[m] \subseteq entries[m]
  /\ resuming \in [Main -> SUBSET Execution]
RowTypes ==
  /\ row \in [Execution -> Status]
  /\ waits \in [Execution -> 0..MaxWaits]
  /\ claims \in [Execution -> Nat]

\* A wait that has not been resumed yet is left for a claim.
ResumedInv ==
  \A e \in Execution :
    claims[e] + (IF row[e] = "waiting" THEN 1 ELSE 0) <= waits[e]

\* Nothing polls before WaitTracker.init, which only a process that is up reaches.
BootInv ==
  \A m \in Main :
    /\ boot[m] = "init" => mainTimer[m] = "none" /\ m \notin strays
    /\ boot[m] # "init" => phase[m] \notin {"off", "electing", "down"}

TrackerIInv ==
  /\ ElectionIInv /\ TrackerTypes /\ RowTypes
  /\ ResumedInv /\ BootInv /\ PollersHoldTheKey

-----------------------------------------------------------------------------
(* Rows                                                                      *)

\* What a step can do to the rows.
RowStep ==
  \/ UNCHANGED rowVars
  \/ \E m \in Main, e \in Execution : Claim(m, e) \/ StopWaiting(m, e)
  \/ \E e \in Execution : Wait(e) \/ Finish(e)

\* Rows keep their types and are claimed only as often as they wait.
LEMMA RowStepInv ==
  ASSUME RowTypes, ResumedInv, RowStep
  PROVE  RowTypes' /\ ResumedInv'
<1>1. CASE UNCHANGED rowVars
  BY <1>1 DEF rowVars, RowTypes, ResumedInv
<1>2. ASSUME NEW m \in Main, NEW e \in Execution, Claim(m, e)
      PROVE  RowTypes' /\ ResumedInv'
  BY <1>2 DEF Claim, RowTypes, ResumedInv, Status
<1>3. ASSUME NEW m \in Main, NEW e \in Execution, StopWaiting(m, e)
      PROVE  RowTypes' /\ ResumedInv'
  BY <1>3 DEF StopWaiting, RowTypes, ResumedInv, Status
<1>4. ASSUME NEW e \in Execution, Wait(e)
      PROVE  RowTypes' /\ ResumedInv'
  BY <1>4 DEF Wait, RowTypes, ResumedInv, Status
<1>5. ASSUME NEW e \in Execution, Finish(e)
      PROVE  RowTypes' /\ ResumedInv'
  BY <1>5 DEF Finish, RowTypes, ResumedInv, Status
<1> QED
  BY <1>1, <1>2, <1>3, <1>4, <1>5 DEF RowStep

-----------------------------------------------------------------------------
(* Processes                                                                 *)

\* What a process does with its tracker, beside what it does in the election.
TrackerStep(m) ==
  \/ InitTracker(m) \/ Register(m) \/ HandleReply(m) \/ StopProcess(m)
  \/ ResignProcess(m) \/ EndProcess(m) \/ Poll(m) \/ Arm(m)
  \/ \E e \in Execution : Fire(m, e) \/ Claim(m, e) \/ StopWaiting(m, e)

\* A query finds executions.
LEMMA QueryTypes ==
  ASSUME TrackerTypes, NEW m \in Main, Query(m)
  PROVE  scans' \in [Main -> SUBSET SUBSET Execution]
<1>1. Waiting \in SUBSET Execution
  BY DEF Waiting
<1> HIDE DEF Waiting
<1> QED
  BY <1>1 DEF Query, TrackerTypes

\* The tracker starts, stops and ends within its types.
LEMMA StartTrackingTypes ==
  ASSUME TrackerTypes, NEW m \in Main, StartTracking(m)
  PROVE  TrackerTypes'
BY QueryTypes DEF StartTracking, TrackerTypes

\* Likewise.
LEMMA StopTrackingTypes ==
  ASSUME TrackerTypes, NEW m \in Main, StopTracking(m)
  PROVE  TrackerTypes'
<1>1. CASE mainTimer[m] = "none"
  BY <1>1 DEF StopTracking, TrackerTypes, processVars
<1>2. CASE mainTimer[m] # "none"
  BY <1>2 DEF StopTracking, TrackerTypes
<1> QED
  BY <1>1, <1>2

\* Likewise.
LEMMA ForgetTypes ==
  ASSUME TrackerTypes, NEW m \in Main, Forget(m)
  PROVE  TrackerTypes'
BY DEF Forget, TrackerTypes, Boot

\* Every step of a process keeps the types of the trackers.
LEMMA TrackerStepTypes ==
  ASSUME TrackerTypes, NEW m \in Main, TrackerStep(m)
  PROVE  TrackerTypes'
<1>1. CASE UNCHANGED processVars
  BY <1>1 DEF processVars, TrackerTypes
<1>2. CASE InitTracker(m)
  <2>1. CASE role[m] = "leader"
    BY <1>2, <2>1, QueryTypes DEF InitTracker, TrackerTypes, Boot
  <2>2. CASE role[m] # "leader"
    BY <1>2, <2>2 DEF InitTracker, TrackerTypes, Boot
  <2> QED
    BY <2>1, <2>2
<1>3. CASE Register(m)
  BY <1>3 DEF Register, TrackerTypes, Boot
<1>4. CASE HandleReply(m)
  BY <1>1, <1>4, StartTrackingTypes, StopTrackingTypes DEF HandleReply
<1>5. CASE StopProcess(m)
  BY <1>5, StopTrackingTypes DEF StopProcess
<1>6. CASE ResignProcess(m)
  BY <1>1, <1>6, ForgetTypes DEF ResignProcess
<1>7. CASE EndProcess(m)
  BY <1>7, ForgetTypes DEF EndProcess
<1>8. CASE Poll(m)
  BY <1>8, QueryTypes DEF Poll, TrackerTypes
<1>9. CASE Arm(m)
  <2>1. PICK found \in scans[m] :
          /\ scans' = [scans EXCEPT ![m] = @ \ {found}]
          /\ timers' = [timers EXCEPT ![m] = @ \cup (found \ entries[m])]
          /\ entries' = [entries EXCEPT ![m] = @ \cup found]
          /\ UNCHANGED <<boot, mainTimer, strays, resuming>>
    BY <1>9 DEF Arm
  <2>2. found \in SUBSET Execution
    BY <2>1 DEF TrackerTypes
  <2> QED
    BY <2>1, <2>2 DEF TrackerTypes
<1>10. ASSUME NEW e \in Execution, Fire(m, e)
       PROVE  TrackerTypes'
  BY <1>10 DEF Fire, TrackerTypes
<1>11. ASSUME NEW e \in Execution, Claim(m, e)
       PROVE  TrackerTypes'
  BY <1>11 DEF Claim, TrackerTypes
<1>12. ASSUME NEW e \in Execution, StopWaiting(m, e)
       PROVE  TrackerTypes'
  BY <1>12 DEF StopWaiting, TrackerTypes
<1> QED
  BY <1>2, <1>3, <1>4, <1>5, <1>6, <1>7, <1>8, <1>9, <1>10, <1>11, <1>12
  DEF TrackerStep

-----------------------------------------------------------------------------
(* Leadership and polling                                                    *)

\* The key stays with a process that checks it, unless it lapses.
LEMMA KeyStays ==
  ASSUME ElectionIInv, [ElectionNext]_electionVars, lapses' = 0,
         NEW m \in Main, Checking(m), lapses = 0 => key = HostOf[m]
  PROVE  key' = HostOf[m]
<1>1. lapses \in Nat /\ HostOf[m] \in Host /\ Active(m)
  BY DEF ElectionIInv, ElectionTypeOK, Active, Checking, Living
<1>2. ASSUME NEW n \in Main, ExecuteSet(n)
      PROVE  key' = HostOf[m]
  BY <1>1, <1>2 DEF ExecuteSet
<1>3. ASSUME NEW n \in Main, ExecuteDel(n)
      PROVE  key' = HostOf[m]
  <2>1. lapses = 0 /\ Active(n) /\ wire[n] \in Seq(Command)
    BY <1>3, TypesOf DEF ExecuteDel, Active, ElectionIInv
  <2>2. HostOf[n] = HostOf[m]
    BY <1>3, <2>1, ExecuteDelInv
  <2>3. n = m
    BY <1>1, <2>1, <2>2 DEF ElectionIInv, OnePerHost
  <2>4. "del" \in ToSet(wire[n])
    BY <1>3, <2>1, TailToSet DEF ExecuteDel
  <2> QED
    BY <2>3, <2>4 DEF ElectionIInv, Protocol
<1>4. CASE Expire
  BY <1>4, <1>1 DEF Expire, Holds
<1>5. CASE Lapse
  BY <1>5, <1>1 DEF Lapse
<1>6. CASE UNCHANGED <<key, lapses>>
  BY <1>6
<1>7. ASSUME NEW n \in Main,
             Start(n) \/ Check(n) \/ Handle(n) \/ Stop(n) \/ Resign(n) \/ Exit(n) \/ Crash(n)
      PROVE  UNCHANGED <<key, lapses>>
  BY <1>7 DEF Start, Check, Handle, FindSelf, FindOther, FindVacant, TryReply, Stop,
              Resign, Exit, Crash, End
<1> QED
  BY <1>2, <1>3, <1>4, <1>5, <1>6, <1>7 DEF ElectionNext, Execute, electionVars

\* Who polls after a step polled before, or was about to learn that it leads.
PollStep ==
  \A n \in Main : (Checking(n)' /\ Polls(n)') => Checking(n) /\ (Polls(n) \/ Claims(n))

\* A step that changes no phase, and of the trackers neither how far they have
\* booted nor their intervals.
Aside == UNCHANGED <<phase, boot, mainTimer, strays>>

\* Such a step starts no polling.
LEMMA AsideInv ==
  ASSUME BootInv, Aside
  PROVE  BootInv' /\ PollStep
BY DEF BootInv, Aside, PollStep, Polls, Checking

\* What a step of the election does to the phases.
LEMMA PhaseChanges ==
  ASSUME NEW m \in Main
  PROVE  /\ Start(m) => phase[m] = "off" /\ phase' = [phase EXCEPT ![m] = "electing"]
         /\ Execute(m) \/ Check(m) => UNCHANGED phase
         /\ Handle(m) => \/ UNCHANGED phase
                         \/ /\ phase[m] = "electing"
                            /\ phase' = [phase EXCEPT ![m] = "up"]
         /\ Stop(m) => phase[m] = "up" /\ phase' = [phase EXCEPT ![m] = "stopping"]
         /\ Exit(m) \/ Crash(m) => phase' = [phase EXCEPT ![m] = "down"]
         /\ Expire \/ Lapse => UNCHANGED phase
BY DEF Start, Execute, ExecuteSet, ExecuteDel, Check, Handle, FindSelf, FindOther,
       FindVacant, TryReply, Stop, Exit, Crash, End, Expire, Lapse

\* A process that boots polls nothing.
LEMMA StartBoot ==
  ASSUME TrackerIInv, NEW m \in Main, Start(m), UNCHANGED processVars
  PROVE  BootInv' /\ PollStep
<1>1. phase[m] = "off" /\ phase' = [phase EXCEPT ![m] = "electing"]
  BY PhaseChanges
<1>2. boot' = boot /\ mainTimer' = mainTimer /\ strays' = strays /\ phase \in [Main -> Phase]
  BY DEF processVars, TrackerIInv, ElectionIInv, ElectionTypeOK
<1>3. boot[m] = "init" /\ mainTimer[m] = "none" /\ m \notin strays
  BY <1>1 DEF TrackerIInv, BootInv
<1> QED
  BY <1>1, <1>2, <1>3 DEF TrackerIInv, BootInv, PollStep, Polls, Checking

\* WaitTracker.init polls if the process leads.
LEMMA InitTrackerBoot ==
  ASSUME TrackerIInv, NEW m \in Main, InitTracker(m)
  PROVE  BootInv' /\ PollStep
<1>1. /\ phase[m] = "up" /\ phase' = phase
      /\ boot' = [boot EXCEPT ![m] = "tracking"]
      /\ \/ role[m] = "leader" /\ mainTimer' = [mainTimer EXCEPT ![m] = "set"]
         \/ mainTimer' = mainTimer
      /\ strays' = strays
  BY DEF InitTracker, electionVars
<1>2. boot \in [Main -> Boot] /\ mainTimer \in [Main -> {"none", "set", "cleared"}]
  BY DEF TrackerIInv, TrackerTypes
<1>3. BootInv'
  BY <1>1, <1>2 DEF TrackerIInv, BootInv
<1>4. PollStep
  BY <1>1, <1>2 DEF PollStep, Polls, Checking, Claims
<1> QED
  BY <1>3, <1>4

\* A leadership event is heard by who has booted, and makes it poll if it is told
\* that it leads.
LEMMA HandleReplyBoot ==
  ASSUME TrackerIInv, NEW m \in Main, HandleReply(m)
  PROVE  BootInv' /\ PollStep
<1>1. /\ boot \in [Main -> Boot] /\ mainTimer \in [Main -> {"none", "set", "cleared"}]
      /\ phase \in [Main -> Phase]
  BY DEF TrackerIInv, TrackerTypes, ElectionIInv, ElectionTypeOK
<1>2. \/ UNCHANGED phase
      \/ phase[m] = "electing" /\ phase' = [phase EXCEPT ![m] = "up"]
  BY PhaseChanges DEF HandleReply
<1>3. CASE boot[m] # "listening"
  <2>1. boot' = boot /\ mainTimer' = mainTimer /\ strays' = strays
    BY <1>3 DEF HandleReply, processVars
  <2>2. phase[m] = "electing" => boot[m] = "init" /\ mainTimer[m] = "none" /\ m \notin strays
    BY DEF TrackerIInv, BootInv
  <2>3. BootInv'
    BY <1>1, <1>2, <2>1, <2>2 DEF TrackerIInv, BootInv
  <2>4. PollStep
    BY <1>1, <1>2, <2>1, <2>2 DEF PollStep, Polls, Checking
  <2> QED
    BY <2>3, <2>4
<1>4. CASE boot[m] = "listening"
  <2>1. phase[m] \notin {"off", "electing", "down"} /\ phase' = phase
    BY <1>2, <1>4 DEF TrackerIInv, BootInv
  <2>2. CASE TakesOver(m) /\ StartTracking(m)
    <3>1. /\ boot' = boot /\ mainTimer' = [mainTimer EXCEPT ![m] = "set"]
          /\ strays' = strays \/ strays' = strays \cup {m}
      BY <2>2 DEF StartTracking
    <3>2. FirstReply(m) = <<TRUE, "setnx">> /\ FirstReply(m)[2] = "setnx"
      BY <2>2 DEF TakesOver
    <3>3. <<TRUE, "setnx">> \in ToSet(replies[m])
      BY <3>2, FirstReplyIsHead DEF TrackerIInv
    <3>4. Checking(m) => Claims(m)
      BY <3>3 DEF Claims
    <3>5. BootInv'
      BY <1>1, <1>4, <2>1, <3>1 DEF TrackerIInv, BootInv
    <3>6. PollStep
      BY <1>1, <2>1, <3>1, <3>4 DEF PollStep, Polls, Checking
    <3> QED
      BY <3>5, <3>6
  <2>3. CASE StopTracking(m)
    <3>1. /\ boot' = boot /\ strays' = strays
          /\ \/ mainTimer' = mainTimer \/ mainTimer' = [mainTimer EXCEPT ![m] = "cleared"]
      BY <2>3 DEF StopTracking, processVars
    <3>2. BootInv'
      BY <1>1, <1>4, <2>1, <3>1 DEF TrackerIInv, BootInv
    <3>3. PollStep
      BY <1>1, <2>1, <3>1 DEF PollStep, Polls, Checking
    <3> QED
      BY <3>2, <3>3
  <2>4. CASE UNCHANGED processVars
    <3>1. Aside
      BY <2>1, <2>4 DEF Aside, processVars
    <3> QED
      BY <3>1, AsideInv DEF TrackerIInv
  <2> QED
    BY <1>4, <2>2, <2>3, <2>4 DEF HandleReply
<1> QED
  BY <1>3, <1>4

\* A process that stops, stops the tracking.
LEMMA StopProcessBoot ==
  ASSUME TrackerIInv, NEW m \in Main, StopProcess(m)
  PROVE  BootInv' /\ PollStep
<1>1. /\ boot \in [Main -> Boot] /\ mainTimer \in [Main -> {"none", "set", "cleared"}]
      /\ phase \in [Main -> Phase]
  BY DEF TrackerIInv, TrackerTypes, ElectionIInv, ElectionTypeOK
<1>2. /\ phase[m] = "up" /\ phase' = [phase EXCEPT ![m] = "stopping"]
      /\ boot[m] = "listening" /\ boot' = boot /\ strays' = strays
      /\ \/ mainTimer' = mainTimer \/ mainTimer' = [mainTimer EXCEPT ![m] = "cleared"]
  BY PhaseChanges DEF StopProcess, StopTracking, processVars
<1>3. BootInv'
  BY <1>1, <1>2 DEF TrackerIInv, BootInv
<1>4. PollStep
  BY <1>1, <1>2 DEF PollStep, Polls, Checking
<1> QED
  BY <1>3, <1>4

\* With the end of a process all is forgotten.
LEMMA EndBoot ==
  ASSUME TrackerIInv, NEW m \in Main, phase' = [phase EXCEPT ![m] = "down"], Forget(m)
  PROVE  BootInv' /\ PollStep
<1>1. /\ boot \in [Main -> Boot] /\ mainTimer \in [Main -> {"none", "set", "cleared"}]
      /\ phase \in [Main -> Phase]
  BY DEF TrackerIInv, TrackerTypes, ElectionIInv, ElectionTypeOK
<1>2. /\ boot' = [boot EXCEPT ![m] = "init"] /\ strays' = strays \ {m}
      /\ mainTimer' = [mainTimer EXCEPT ![m] = "none"]
  BY DEF Forget
<1>3. BootInv'
  BY <1>1, <1>2 DEF TrackerIInv, BootInv
<1>4. PollStep
  BY <1>1, <1>2 DEF PollStep, Polls, Checking
<1> QED
  BY <1>3, <1>4

\* A leader that stops goes on to hold its timers until its key is cleared.
LEMMA ResignProcessBoot ==
  ASSUME TrackerIInv, NEW m \in Main, ResignProcess(m)
  PROVE  BootInv' /\ PollStep
<1>1. CASE role[m] = "leader"
  <2>1. /\ phase[m] = "stopping" /\ phase' = [phase EXCEPT ![m] = "resigned"]
        /\ boot' = boot /\ mainTimer' = mainTimer /\ strays' = strays /\ phase \in [Main -> Phase]
    BY <1>1 DEF ResignProcess, Resign, processVars, TrackerIInv, ElectionIInv, ElectionTypeOK
  <2> QED
    BY <2>1 DEF TrackerIInv, BootInv, PollStep, Polls, Checking
<1>2. CASE role[m] # "leader"
  <2>1. phase' = [phase EXCEPT ![m] = "down"] /\ Forget(m)
    BY <1>2 DEF ResignProcess, Resign, End
  <2> QED
    BY <2>1, EndBoot
<1> QED
  BY <1>1, <1>2

\* Every step of a process keeps BootInv and starts no polling without a claim.
LEMMA TrackerStepBoot ==
  ASSUME TrackerIInv, NEW m \in Main, TrackerStep(m)
  PROVE  BootInv' /\ PollStep
<1>1. CASE Register(m)
  <2>1. /\ boot[m] = "tracking" /\ boot' = [boot EXCEPT ![m] = "listening"]
        /\ mainTimer' = mainTimer /\ strays' = strays /\ phase' = phase /\ boot \in [Main -> Boot]
    BY <1>1 DEF Register, electionVars, TrackerIInv, TrackerTypes
  <2> QED
    BY <2>1 DEF TrackerIInv, BootInv, PollStep, Polls, Checking
<1>2. CASE EndProcess(m)
  BY <1>2, PhaseChanges, EndBoot DEF EndProcess
<1>3. ASSUME Poll(m) \/ Arm(m) \/
             \E e \in Execution : Fire(m, e) \/ Claim(m, e) \/ StopWaiting(m, e)
      PROVE  Aside
  BY <1>3 DEF Poll, Arm, Fire, Claim, StopWaiting, Aside, electionVars
<1> QED
  BY <1>1, <1>2, <1>3, AsideInv, InitTrackerBoot, HandleReplyBoot, StopProcessBoot,
     ResignProcessBoot
  DEF TrackerStep, TrackerIInv

-----------------------------------------------------------------------------
(* The theorems                                                              *)

\* The invariant holds at first,
LEMMA InitInv == Init => TrackerIInv
<1> SUFFICES ASSUME Init
             PROVE  TrackerIInv
  OBVIOUS
<1>1. ElectionIInv /\ TrackerTypes
  BY ElectionInitInv DEF Init, TrackerTypes, Boot
<1>2. RowTypes /\ ResumedInv
  BY DEF Init, RowTypes, ResumedInv, Status
<1>3. BootInv /\ PollersHoldTheKey
  BY DEF Init, BootInv, PollersHoldTheKey, Polls
<1> QED
  BY <1>1, <1>2, <1>3 DEF TrackerIInv

\* every step is one of the election or leaves it alone,
LEMMA NextIsElection == [Next]_vars => [ElectionNext]_electionVars
BY DEF Next, vars, ElectionNext, InitTracker, Register, CheckLeader, HandleReply,
       StopProcess, ResignProcess, EndProcess, Poll, Arm, Fire, Claim, StopWaiting,
       Wait, Finish

\* and the invariant holds after it.
LEMMA NextInv == TrackerIInv /\ [Next]_vars => TrackerIInv'
<1> SUFFICES ASSUME TrackerIInv, [Next]_vars
             PROVE  TrackerIInv'
  OBVIOUS
<1>1. ElectionIInv' /\ [ElectionNext]_electionVars
  BY ElectionNextInv, NextIsElection DEF TrackerIInv
<1>2. RowTypes' /\ ResumedInv'
  <2>1. RowStep
    BY DEF Next, vars, RowStep, rowVars, InitTracker, Register, CheckLeader, HandleReply,
           StopProcess, ResignProcess, EndProcess, Forget, Poll, Arm, Fire
  <2> QED
    BY <2>1, RowStepInv DEF TrackerIInv
<1>3. TrackerTypes' /\ BootInv' /\ PollStep
  <2>1. CASE Aside /\ UNCHANGED processVars
    BY <2>1, AsideInv DEF TrackerIInv, TrackerTypes, processVars
  <2>2. ASSUME NEW m \in Main, TrackerStep(m)
        PROVE  TrackerTypes' /\ BootInv' /\ PollStep
    BY <2>2, TrackerStepTypes, TrackerStepBoot DEF TrackerIInv
  <2>3. ASSUME NEW m \in Main, Start(m), UNCHANGED processVars
        PROVE  TrackerTypes' /\ BootInv' /\ PollStep
    BY <2>3, StartBoot DEF TrackerIInv, TrackerTypes, processVars
  <2>4. ASSUME NEW m \in Main, Execute(m) \/ CheckLeader(m), UNCHANGED processVars
        PROVE  Aside
    BY <2>4, PhaseChanges DEF Aside, processVars, CheckLeader
  <2>5. ASSUME (Expire \/ Lapse) /\ UNCHANGED processVars
        PROVE  Aside
    BY <2>5 DEF Aside, processVars, Expire, Lapse
  <2>6. ASSUME NEW e \in Execution, Wait(e) \/ Finish(e)
        PROVE  Aside /\ UNCHANGED processVars
    BY <2>6 DEF Aside, Wait, Finish, electionVars, processVars
  <2>7. CASE UNCHANGED vars
    BY <2>1, <2>7 DEF Aside, vars, electionVars, processVars
  <2>8. ASSUME NEW m \in Main, CheckLeader(m)
        PROVE  UNCHANGED processVars
    BY <2>8 DEF CheckLeader
  <2> QED
    BY <2>1, <2>2, <2>3, <2>4, <2>5, <2>6, <2>7, <2>8 DEF Next, TrackerStep
<1>4. PollersHoldTheKey'
  <2> SUFFICES ASSUME lapses' = 0, NEW m \in Main, Checking(m)', Polls(m)'
               PROVE  key' = HostOf[m]
    BY DEF PollersHoldTheKey
  <2>1. Checking(m) /\ (Polls(m) \/ Claims(m))
    BY <1>3 DEF PollStep
  <2>2. lapses = 0 => key = HostOf[m]
    BY <2>1 DEF TrackerIInv, ElectionIInv, LeaseInv, PollersHoldTheKey
  <2> QED
    BY <1>1, <2>1, <2>2, KeyStays DEF TrackerIInv
<1> QED
  BY <1>1, <1>2, <1>3, <1>4 DEF TrackerIInv

\* Every behaviour keeps the invariant.
LEMMA TrackerInvariant == Spec => []TrackerIInv
<1>1. Init => TrackerIInv
  BY InitInv
<1>2. TrackerIInv /\ [Next]_vars => TrackerIInv'
  BY NextInv
<1> QED
  BY <1>1, <1>2, PTL DEF Spec

\* The variables keep their types: among them, no timer is armed without an entry
\* through which it can be cleared.
THEOREM TrackerTypeCorrect == Spec => []TrackerTypeOK
<1>1. TrackerIInv => TrackerTypeOK
  BY DEF TrackerIInv, ElectionIInv, TrackerTypes, RowTypes, TrackerTypeOK
<1> QED
  BY <1>1, TrackerInvariant, PTL

\* An execution is resumed at most once for each time it waits, however many
\* processes believe they lead and whatever queries are stale.
THEOREM ResumedOnce == Spec => []ResumedOncePerWait
<1>1. TrackerIInv => ResumedOncePerWait
  BY DEF TrackerIInv, RowTypes, ResumedInv, ResumedOncePerWait
<1> QED
  BY <1>1, TrackerInvariant, PTL

\* As long as no key lapses, only the process whose key it is polls, however the
\* checks of a process overlap and however long it takes to boot.
THEOREM OnlyKeyHoldersPoll == Spec => []PollersHoldTheKey
<1>1. TrackerIInv => PollersHoldTheKey
  BY DEF TrackerIInv
<1> QED
  BY <1>1, TrackerInvariant, PTL

\* So one process polls at most: of two with the same host id one is gone before the
\* other starts.  The timers of waiting executions are armed by one main at a time.
THEOREM OnePolls ==
  Spec => [](lapses = 0 =>
               \A m, n \in Main : /\ Checking(m) /\ Polls(m)
                                  /\ Checking(n) /\ Polls(n)
                                  => m = n)
<1>1. TrackerIInv => (lapses = 0 =>
        \A m, n \in Main : /\ Checking(m) /\ Polls(m)
                           /\ Checking(n) /\ Polls(n)
                           => m = n)
  BY DEF TrackerIInv, PollersHoldTheKey, ElectionIInv, OnePerHost, Active, Living, Checking
<1> QED
  BY <1>1, TrackerInvariant, PTL

\* A process with its tracker takes part in the election just as MultiMainSetup has
\* it: no poll, timer or claim changes who leads, and nothing comes between a reply
\* and the next command.
THEOREM TrackersElect == Spec => ElectionInit /\ [][ElectionNext]_electionVars
<1>1. Init => ElectionInit
  BY DEF Init
<1> QED
  BY <1>1, NextIsElection, PTL DEF Spec

=============================================================================
