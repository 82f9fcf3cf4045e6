--------------------------- MODULE MultiMainSetup ---------------------------
(***************************************************************************)
(* Leadership among the main processes of an n8n in scaling mode:          *)
(* MultiMainSetup on a Redis key with a time to live, from the boot of a   *)
(* process (Start.init) to its end (Start.stopProcess).                    *)
(*                                                                         *)
(* A process sends its commands over one connection, so Redis executes     *)
(* them, and their replies come back, in the order in which they were      *)
(* sent; what a reply triggers is one step.  The check that runs every few *)
(* seconds is not awaited by the timer, so a slow Redis has two of them    *)
(* under way at once.  A process ends for good: a restart is another       *)
(* process, which keeps its host id when that is the name of a container.  *)
(***************************************************************************)
EXTENDS Integers, FiniteSets, SequencesExt

CONSTANTS
  Main,            \* main processes, each started at most once
  Host,            \* host ids
  HostOf,          \* [Main -> Host], InstanceSettings.hostId
  None,            \* no leader
  MaxOutstanding,  \* [Main -> commands of it that Redis or it has still to handle]
  MaxLapses        \* how often the key can expire under a living leader

ASSUME MainAssumption ==
  /\ IsFiniteSet(Main)
  /\ HostOf \in [Main -> Host]
  /\ None \notin Host
  /\ MaxOutstanding \in [Main -> Nat \ {0}]
  /\ MaxLapses \in Nat

VARIABLES
  key,      \* the leader key: the host id it holds, None when it expired
  lapses,   \* how often it expired under a living leader
  phase,    \* [Main -> Phase]
  role,     \* [Main -> InstanceSettings.instanceRole]
  wire,     \* [Main -> commands sent that Redis has not executed]
  replies   \* [Main -> replies the process has not handled]

electionVars == <<key, lapses, phase, role, wire, replies>>

Phase == {"off",        \* not started
          "electing",   \* MultiMainSetup.init awaits its first setIfNotExists
          "up",         \* the timer of checkLeader runs
          "stopping",   \* stopProcess has been called, the timer still runs
          "resigned",   \* MultiMainSetup.shutdown has stopped the timer
          "down"}
Command == {"setnx", "del"}
Reply == (Host \cup {None}) \X {"get"} \cup BOOLEAN \X {"setnx"} \cup {None} \X {"del"}

\* Besides the types: "A main is `unset` during bootup, `leader` or `follower`
\* after bootup in multi-main setup" (InstanceSettings).
ElectionTypeOK ==
  /\ key \in Host \cup {None}
  /\ lapses \in 0..MaxLapses
  /\ phase \in [Main -> Phase]
  /\ role \in [Main -> {"unset", "leader", "follower"}]
  /\ wire \in [Main -> Seq(Command)]
  /\ replies \in [Main -> Seq(Reply)]
  /\ \A m \in Main : role[m] = "unset" <=> phase[m] \in {"off", "electing", "down"}

ElectionInit ==
  /\ key = None /\ lapses = 0
  /\ phase = [m \in Main |-> "off"]
  /\ role = [m \in Main |-> "unset"]
  /\ wire = [m \in Main |-> <<>>]
  /\ replies = [m \in Main |-> <<>>]

Living(m) == phase[m] \notin {"off", "down"}
\* The timer of checkLeader runs.
Checking(m) == phase[m] \in {"up", "stopping"}

Send(m, command) == wire' = [wire EXCEPT ![m] = Append(@, command)]
Outstanding(m) == Len(wire[m]) + Len(replies[m])

-----------------------------------------------------------------------------
(* Redis                                                                     *)

\* A command is executed and answered, if there is anyone to answer to.
Answer(m, reply) ==
  /\ wire' = [wire EXCEPT ![m] = Tail(@)]
  /\ replies' = IF Living(m) THEN [replies EXCEPT ![m] = Append(@, reply)] ELSE replies

\* Fault: setIfNotExists overwrites the key (Publisher.set in its place).
ExecuteSetAlways(m) ==
  /\ wire[m] # <<>> /\ Head(wire[m]) = "setnx"
  /\ key' = HostOf[m]
  /\ Answer(m, <<TRUE, "setnx">>)
  /\ UNCHANGED <<lapses, phase, role>>

\* Publisher.setIfNotExists: SET key host EX ttl NX.
ExecuteSet(m) ==
  /\ wire[m] # <<>> /\ Head(wire[m]) = "setnx"
  /\ key' = IF key = None THEN HostOf[m] ELSE key
  /\ Answer(m, <<key = None, "setnx">>)
  /\ UNCHANGED <<lapses, phase, role>>

\* Publisher.clear.
ExecuteDel(m) ==
  /\ wire[m] # <<>> /\ Head(wire[m]) = "del"
  /\ key' = None
  /\ Answer(m, <<None, "del">>)
  /\ UNCHANGED <<lapses, phase, role>>

Execute(m) == ExecuteSet(m) \/ ExecuteDel(m)

\* The key is that of a process that renews it, has just taken it, or has
\* commands on their way, which is nothing against its time to live.
Holds(m) ==
  /\ HostOf[m] = key
  /\ \/ Checking(m) \/ wire[m] # <<>>
     \/ phase[m] = "electing" /\ replies[m] = <<<<TRUE, "setnx">>>>

\* The key expires when nobody renews it,
Expire ==
  /\ key # None /\ \A m \in Main : ~Holds(m)
  /\ key' = None
  /\ UNCHANGED <<lapses, phase, role, wire, replies>>

\* or when its holder is too slow to.
Lapse ==
  /\ key # None /\ \E m \in Main : Holds(m)
  /\ lapses < MaxLapses
  /\ lapses' = lapses + 1
  /\ key' = None
  /\ UNCHANGED <<phase, role, wire, replies>>

-----------------------------------------------------------------------------
(* MultiMainSetup                                                            *)

\* init: tryBecomeLeader, before the timer is set.  A process with the same host
\* id has ended long before.
Start(m) ==
  /\ phase[m] = "off"
  /\ \A n \in Main \ {m} : HostOf[n] = HostOf[m] => ~Living(n) /\ wire[n] = <<>>
  /\ phase' = [phase EXCEPT ![m] = "electing"]
  /\ Send(m, "setnx")
  /\ UNCHANGED <<key, lapses, role, replies>>

\* The timer fires: checkLeader reads the key.  The get changes nothing, so it
\* is taken to be sent when Redis executes it.
Check(m) ==
  /\ Checking(m)
  /\ wire[m] = <<>> /\ Outstanding(m) < MaxOutstanding[m]
  /\ replies' = [replies EXCEPT ![m] = Append(@, <<key, "get">>)]
  /\ UNCHANGED <<key, lapses, phase, role, wire>>

FirstReply(m) == IF replies[m] # <<>> THEN Head(replies[m]) ELSE <<None, "none">>
Handled(m) == replies' = [replies EXCEPT ![m] = Tail(@)]

\* The reply being handled makes the process emit leader-takeover or
\* leader-stepdown.  Leadership found in the key is taken without an event.
TakesOver(m) == FirstReply(m) = <<TRUE, "setnx">>
StepsDown(m) == \/ FirstReply(m) = <<None, "get">>
                \/ /\ FirstReply(m)[2] = "get" /\ FirstReply(m)[1] # HostOf[m]
                   /\ role[m] = "leader"

\* Fault: a process that finds its own host id in the key only renews it.
FindSelfOnlyRenews(m) ==
  /\ FirstReply(m) = <<HostOf[m], "get">>
  /\ Handled(m)
  /\ UNCHANGED <<key, lapses, phase, role, wire>>

\* checkLeader: the key is ours.  (Its renewal shows in the guard of Expire.)
FindSelf(m) ==
  /\ FirstReply(m) = <<HostOf[m], "get">>
  /\ role' = [role EXCEPT ![m] = "leader"]
  /\ Handled(m)
  /\ UNCHANGED <<key, lapses, phase, wire>>

\* checkLeader: the key is another's.
FindOther(m) ==
  /\ FirstReply(m)[2] = "get" /\ FirstReply(m)[1] \notin {None, HostOf[m]}
  /\ role' = IF role[m] = "leader" THEN [role EXCEPT ![m] = "follower"] ELSE role
  /\ Handled(m)
  /\ UNCHANGED <<key, lapses, phase, wire>>

\* checkLeader: the key is vacant; try to take it.
FindVacant(m) ==
  /\ FirstReply(m) = <<None, "get">>
  /\ role' = [role EXCEPT ![m] = "follower"]
  /\ Send(m, "setnx")
  /\ Handled(m)
  /\ UNCHANGED <<key, lapses, phase>>

\* Fault: who comes too late at boot is not marked as a follower.
TryReplyMarksLeaderOnly(m) ==
  /\ FirstReply(m)[2] = "setnx"
  /\ role' = IF FirstReply(m)[1] THEN [role EXCEPT ![m] = "leader"] ELSE role
  /\ phase' = IF phase[m] = "electing" THEN [phase EXCEPT ![m] = "up"] ELSE phase
  /\ Handled(m)
  /\ UNCHANGED <<key, lapses, wire>>

\* tryBecomeLeader: taken, or too late.  At boot, init goes on from here.
TryReply(m) ==
  /\ FirstReply(m)[2] = "setnx"
  /\ role' = [role EXCEPT ![m] = IF FirstReply(m)[1] THEN "leader" ELSE "follower"]
  /\ phase' = IF phase[m] = "electing" THEN [phase EXCEPT ![m] = "up"] ELSE phase
  /\ Handled(m)
  /\ UNCHANGED <<key, lapses, wire>>

Handle(m) == FindSelf(m) \/ FindOther(m) \/ FindVacant(m) \/ TryReply(m)

\* stopProcess.
Stop(m) ==
  /\ phase[m] = "up"
  /\ phase' = [phase EXCEPT ![m] = "stopping"]
  /\ UNCHANGED <<key, lapses, role, wire, replies>>

\* The process ends, but for what it has sent already.
End(m) ==
  /\ phase' = [phase EXCEPT ![m] = "down"]
  /\ role' = [role EXCEPT ![m] = "unset"]
  /\ replies' = [replies EXCEPT ![m] = <<>>]
  /\ UNCHANGED <<key, lapses, wire>>

\* Fault: a follower clears the key as well.
ResignAlways(m) ==
  /\ phase[m] = "stopping"
  /\ phase' = [phase EXCEPT ![m] = "resigned"]
  /\ Send(m, "del")
  /\ UNCHANGED <<key, lapses, role, replies>>

\* shutdown: stop the timer; a leader clears the key, a follower is done.
Resign(m) ==
  /\ phase[m] = "stopping"
  /\ IF role[m] = "leader"
     THEN /\ phase' = [phase EXCEPT ![m] = "resigned"]
          /\ Send(m, "del")
          /\ UNCHANGED <<key, lapses, role, replies>>
     ELSE End(m)

\* The key is cleared; the connection is closed.
Exit(m) == FirstReply(m)[2] = "del" /\ End(m)

Crash(m) == Living(m) /\ End(m)

-----------------------------------------------------------------------------

ElectionNext ==
  \/ \E m \in Main : \/ Start(m) \/ Check(m) \/ Execute(m) \/ Handle(m)
                     \/ Stop(m) \/ Resign(m) \/ Exit(m) \/ Crash(m)
  \/ Expire \/ Lapse

\* Redis and the connections work, the timer of checkLeader fires again and
\* again, a key that nobody renews expires, and a shutdown goes on.
ElectionSpec ==
  /\ ElectionInit /\ [][ElectionNext]_electionVars
  /\ WF_electionVars(Expire)
  /\ \A m \in Main :
       /\ WF_electionVars(Execute(m)) /\ WF_electionVars(Handle(m))
       /\ WF_electionVars(Check(m) /\ Outstanding(m) = 0)
       /\ WF_electionVars(Resign(m)) /\ WF_electionVars(Exit(m))

-----------------------------------------------------------------------------
(* Properties                                                                *)

Leaders == {m \in Main : Checking(m) /\ role[m] = "leader"}

\* While no key lapses under a living leader, whatever crashes, restarts or
\* shuts down in between, there are never two leaders (MultiMainSetup:
\* "Designates leader and followers when running multiple main processes").
OneLeaderUnlessLapsed == lapses = 0 => Cardinality(Leaders) <= 1

\* shutdown clears the leader key without looking at it; unless the key has
\* lapsed, it is still its own.
ResignClearsOwnKey ==
  [][\A m \in Main : (ExecuteDel(m) /\ lapses = 0) => key = HostOf[m]]_electionVars

\* Once a process stays up and lapses are over, the processes agree for good on
\* one leader, which holds the key: no mix-up of overlapping checks, restarts
\* under the same host id or keys lost is for ever.
EventuallyOneLeader ==
  \A m \in Main :
    <>[](phase[m] = "up") => <>[](\E n \in Main : Leaders = {n} /\ key = HostOf[n])

=============================================================================
