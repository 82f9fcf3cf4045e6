---------------------------- MODULE TaskChannels ----------------------------
(***************************************************************************)
(* The websocket connections between the task broker of a main or worker   *)
(* process and the task runners: a FIFO channel each way per runner, from  *)
(* the registration of the runner to its end.                              *)
(***************************************************************************)
EXTENDS Selection, SequencesExt

CONSTANTS
  Runner,     \* runner processes, each connects at most once
  Launcher,   \* those of them that are launchers (external mode)
  Request,    \* calls of TaskRequester.startTask
  None,
  MaxOffers,  \* [Runner -> how many offers it makes in its life]
  MaxLosses   \* how many runners die or are given up

ASSUME ChannelAssumption ==
  /\ IsFiniteSet(Runner) /\ IsFiniteSet(Request)
  /\ Launcher \subseteq Runner
  /\ MaxOffers \in [Runner -> Nat]
  /\ MaxLosses \in Nat
  /\ None \notin Request

\* An offer is accepted once, so it also stands for the task made of it.
Offer == UNION {{r} \X (1..MaxOffers[r]) : r \in Runner}

ASSUME NoneAssumption == None \notin Offer

VARIABLES
  link,      \* [Runner -> "new", "open" (a known runner of the broker) or "closed"]
  crashed,   \* runners whose process has died
  toRunner,  \* [Runner -> messages it has not handled]
  toBroker   \* [Runner -> messages the broker has not handled]

channelVars == <<link, crashed, toRunner, toBroker>>

ToRunner ==
  [type : {"registered", "drain", "close"}]
    \cup [type : {"offeraccept", "cancel"}, task : Offer]
    \cup [type : {"settings"}, task : Offer, request : Request]
\* taskdone and taskerror differ in what they carry only.
ToBroker == [type : {"offer", "accepted", "rejected", "deferred", "ended"}, task : Offer]

ChannelTypeOK ==
  /\ link \in [Runner -> {"new", "open", "closed"}]
  /\ crashed \subseteq Runner
  /\ toRunner \in [Runner -> Seq(ToRunner)]
  /\ toBroker \in [Runner -> Seq(ToBroker)]

ChannelInit ==
  /\ link = [r \in Runner |-> "new"]
  /\ crashed = {}
  /\ toRunner = [r \in Runner |-> <<>>]
  /\ toBroker = [r \in Runner |-> <<>>]

Alive(r) == link[r] # "new" /\ r \notin crashed

\* One more runner may be lost.
MayLose == Cardinality(crashed \cup {r \in Runner : link[r] = "closed"}) < MaxLosses

\* What r has to handle after messageRunner: nobody reads what is sent to a dead
\* runner, or to one that is not known.
Posted(r, messages) ==
  IF link[r] = "open" /\ r \notin crashed THEN toRunner[r] \o messages ELSE toRunner[r]

TellRunner(r, message) == toRunner' = [toRunner EXCEPT ![r] = Posted(r, <<message>>)]

\* TaskRunner.send: what follows the close of the connection is lost.
TellBroker(r, messages) ==
  toBroker' = [toBroker EXCEPT ![r] = IF link[r] = "open" THEN @ \o messages ELSE @]

=============================================================================
