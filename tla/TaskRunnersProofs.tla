------------------------- MODULE TaskRunnersProofs -------------------------
(***************************************************************************)
(* Proofs about TaskRunners, for any number of runners, launchers, offers, *)
(* requests and losses: the slots of a runner, the types, the life of an   *)
(* offer as broker and runner see it, and the request behind a task.       *)
(***************************************************************************)
EXTENDS TaskRunners, SelectionProofs

USE ChannelAssumption, ConcurrencyAssumption

-----------------------------------------------------------------------------
(* Offers and tasks are finitely many                                        *)

\* The offers that a runner can make in its life.
OffersOf(r) == {r} \X (1..MaxOffers[r])

\* They are finitely many.
LEMMA OffersOfFinite == \A r \in Runner : IsFiniteSet(OffersOf(r))
<1> SUFFICES ASSUME NEW r \in Runner PROVE IsFiniteSet(OffersOf(r))
  OBVIOUS
<1>1. MaxOffers[r] \in Int
  OBVIOUS
<1>2. IsFiniteSet(1..MaxOffers[r])
  BY <1>1, FS_Interval
<1>3. IsFiniteSet({r})
  BY FS_Singleton
<1> QED BY <1>2, <1>3, FS_Product DEF OffersOf

\* So are those of all runners together.
LEMMA OfferFinite == IsFiniteSet(Offer)
<1> DEFINE S == {OffersOf(r) : r \in Runner}
           f == [r \in Runner |-> OffersOf(r)]
<1>1. f \in Surjection(Runner, S)
  BY DEF Surjection
<1>2. IsFiniteSet(S)
  BY <1>1, FS_Surjection
<1>3. \A T \in S : IsFiniteSet(T)
  BY OffersOfFinite
<1>4. Offer = UNION S
  BY DEF Offer, OffersOf
<1> QED BY <1>2, <1>3, <1>4, FS_UNION

\* What an offer is.
LEMMA OfferElements ==
  ASSUME NEW t \in Offer
  PROVE  t[1] \in Runner /\ t[2] \in 1..MaxOffers[t[1]] /\ t = <<t[1], t[2]>>
  BY DEF Offer

\* Sets of offers can be counted.
LEMMA OfferSets ==
  ASSUME NEW T \in SUBSET Offer
  PROVE  /\ IsFiniteSet(T) /\ Cardinality(T) \in Nat
         /\ \A U \in SUBSET T : IsFiniteSet(U) /\ Cardinality(U) \in Nat
                                /\ Cardinality(U) <= Cardinality(T)
<1>1. IsFiniteSet(T) /\ Cardinality(T) \in Nat
  BY OfferFinite, FS_Subset, FS_CardinalityType
<1>2. ASSUME NEW U \in SUBSET T
      PROVE  IsFiniteSet(U) /\ Cardinality(U) \in Nat /\ Cardinality(U) <= Cardinality(T)
  BY <1>1, <1>2, FS_Subset, FS_CardinalityType
<1> QED BY <1>1, <1>2

\* sendOffers makes no more offers than it has slots for.
LEMMA NewOffersBound ==
  ASSUME NEW r \in Runner, made[r] \in Nat, NEW n \in Int
  PROVE  /\ NewOffers(r, n) \subseteq OffersOf(r)
         /\ Cardinality(NewOffers(r, n)) \in Nat
         /\ Cardinality(NewOffers(r, n)) <= IF n > 0 THEN n ELSE 0
<1> DEFINE J == (made[r] + 1)..(made[r] + n)
           I == {j \in 1..MaxOffers[r] : made[r] < j /\ j <= made[r] + n}
           f == [i \in I |-> <<r, i>>]
<1>1. IsFiniteSet(J) /\ Cardinality(J) = IF n > 0 THEN n ELSE 0
  <2> DEFINE a == made[r] + 1
             b == made[r] + n
  <2>1. a \in Int /\ b \in Int /\ b - a + 1 = n /\ (a > b <=> ~(n > 0))
    OBVIOUS
  <2>2. J = a..b
    OBVIOUS
  <2> HIDE DEF a, b, J
  <2>3. IsFiniteSet(a..b) /\ Cardinality(a..b) = IF a > b THEN 0 ELSE b - a + 1
    BY <2>1, FS_Interval
  <2> QED BY <2>1, <2>2, <2>3
<1>2. I \in SUBSET J
  OBVIOUS
<1>3. IsFiniteSet(I) /\ Cardinality(I) <= Cardinality(J)
  BY <1>1, <1>2, FS_Subset
<1>4. f \in Surjection(I, NewOffers(r, n))
  BY DEF Surjection, NewOffers
<1>5. /\ IsFiniteSet(NewOffers(r, n))
      /\ Cardinality(NewOffers(r, n)) <= Cardinality(I)
  <2> HIDE DEF f, I
  <2> QED BY <1>3, <1>4, FS_Surjection
<1>6. /\ Cardinality(NewOffers(r, n)) \in Nat /\ Cardinality(I) \in Nat /\ Cardinality(J) \in Nat
  BY <1>1, <1>3, <1>5, FS_CardinalityType
<1>7. NewOffers(r, n) \subseteq OffersOf(r)
  BY DEF NewOffers, OffersOf
<1> QED BY <1>1, <1>3, <1>5, <1>6, <1>7

-----------------------------------------------------------------------------
(* The slots of a runner                                                     *)

\* SlotsBound is inductive once we know that a runner has open only what it has
\* offered itself, and that a launcher runs nothing.
SlotsIInv ==
  /\ openOffers \in [Runner -> SUBSET Offer]
  /\ made \in [Runner -> Nat]
  /\ taskState \in [Offer -> TaskStatus \cup {"none"}]
  /\ \A r \in Runner : openOffers[r] \subseteq OffersOf(r)
  /\ \A t \in Offer : t[1] \in Launcher => taskState[t] = "none"
  /\ SlotsBound

\* The slots of r after its variables have become as given.
SlotsOf(r, open, states) == Cardinality(open[r]) + Cardinality(RunningTasks(states, r))

\* Offers and tasks of one runner are counted by natural numbers.
LEMMA SlotsAreNumbers ==
  ASSUME NEW r \in Runner, NEW f, NEW T \in SUBSET Offer
  PROVE  Cardinality(T) \in Nat /\ Cardinality(RunningTasks(f, r)) \in Nat
  BY OfferSets DEF RunningTasks

\* A runner that has fewer tasks, fewer open offers, or the same, keeps its bound.
LEMMA FewerSlots ==
  ASSUME SlotsIInv, NEW r \in Runner, NEW open, NEW states,
         open[r] \subseteq openOffers[r],
         RunningTasks(states, r) \subseteq RunningTasks(taskState, r)
  PROVE  SlotsOf(r, open, states) <= MaxConcurrency
<1>1. openOffers[r] \in SUBSET Offer /\ RunningTasks(taskState, r) \in SUBSET Offer
  BY DEF SlotsIInv, RunningTasks
<1>2. /\ Cardinality(open[r]) \in Nat /\ Cardinality(openOffers[r]) \in Nat
      /\ Cardinality(open[r]) <= Cardinality(openOffers[r])
  BY <1>1, OfferSets
<1>3. /\ Cardinality(RunningTasks(states, r)) \in Nat
      /\ Cardinality(RunningTasks(taskState, r)) \in Nat
      /\ Cardinality(RunningTasks(states, r)) <= Cardinality(RunningTasks(taskState, r))
  BY <1>1, OfferSets
<1>4. Cardinality(openOffers[r]) + Cardinality(RunningTasks(taskState, r)) <= MaxConcurrency
  BY DEF SlotsIInv, SlotsBound, Slots
<1> QED BY <1>2, <1>3, <1>4 DEF SlotsOf

\* sendOffers keeps the bound, whatever offers have become stale.
LEMMA SendOffersKeepsSlots ==
  ASSUME SlotsIInv, NEW x \in Runner, NEW f \in [Offer -> TaskStatus \cup {"none"}], NEW before,
         \A r \in Runner : RunningTasks(f, r) \subseteq RunningTasks(taskState, r),
         \A t \in Offer : t[1] \in Launcher => f[t] = "none",
         SendOffers(x, f, before), taskState' = f
  PROVE  SlotsIInv'
<1>1. PICK stale \in SUBSET openOffers[x] :
        LET kept == openOffers[x] \ stale
            free == MaxConcurrency - (Cardinality(kept) + Cardinality(RunningTasks(f, x)))
            new == IF canSendOffers[x] THEN NewOffers(x, free) ELSE {}
        IN /\ openOffers' = [openOffers EXCEPT ![x] = kept \cup new]
           /\ made' = [made EXCEPT ![x] = @ + Cardinality(new)]
  BY DEF SendOffers
<1> DEFINE kept == openOffers[x] \ stale
           busy == RunningTasks(f, x)
           free == MaxConcurrency - (Cardinality(kept) + Cardinality(busy))
           new == IF canSendOffers[x] THEN NewOffers(x, free) ELSE {}
<1>2. openOffers' = [openOffers EXCEPT ![x] = kept \cup new]
  BY <1>1
<1>3. made' = [made EXCEPT ![x] = @ + Cardinality(new)]
  BY <1>1
<1>4. openOffers[x] \in SUBSET Offer /\ made[x] \in Nat
  BY DEF SlotsIInv
<1>5. kept \in SUBSET openOffers[x] /\ kept \in SUBSET Offer /\ busy \in SUBSET Offer
  BY <1>4 DEF RunningTasks
<1>6. Cardinality(kept) \in Nat /\ Cardinality(busy) \in Nat
  BY <1>5, OfferSets
<1>7. free \in Int
  BY <1>6
<1>8. /\ new \subseteq OffersOf(x)
      /\ Cardinality(new) \in Nat
      /\ Cardinality(new) <= IF free > 0 THEN free ELSE 0
  <2>1. CASE canSendOffers[x]
    <3> HIDE DEF free
    <3> QED BY <2>1, <1>4, <1>7, NewOffersBound
  <2>2. CASE ~canSendOffers[x]
    <3>1. new = {}
      BY <2>2
    <3>2. Cardinality({}) = 0
      BY FS_EmptySet
    <3> HIDE DEF new, free
    <3> QED BY <3>1, <3>2, <1>7
  <2> QED BY <2>1, <2>2
<1> HIDE DEF new
<1>9. OffersOf(x) \subseteq Offer
  BY DEF OffersOf, Offer
<1>10. new \in SUBSET Offer
  BY <1>8, <1>9
<1>11. Cardinality(kept \cup new) \in Nat /\ Cardinality(kept \cup new) <= Cardinality(kept) + Cardinality(new)
  <2>1. IsFiniteSet(kept) /\ IsFiniteSet(new)
    BY <1>5, <1>10, OfferSets
  <2>2. kept \cap new \in SUBSET Offer /\ kept \cup new \in SUBSET Offer
    BY <1>5, <1>10
  <2>3. Cardinality(kept \cap new) \in Nat /\ Cardinality(kept \cup new) \in Nat
    BY <2>2, OfferSets
  <2>4. Cardinality(kept \cup new) = Cardinality(kept) + Cardinality(new) - Cardinality(kept \cap new)
    BY <2>1, FS_Union
  <2> QED BY <2>3, <2>4, <1>6, <1>8
<1>12. Cardinality(kept) + Cardinality(busy) <= MaxConcurrency
  <2>1. SlotsOf(x, [openOffers EXCEPT ![x] = kept], f) <= MaxConcurrency
    <3>1. [openOffers EXCEPT ![x] = kept][x] = kept
      BY DEF SlotsIInv
    <3> QED BY <3>1, FewerSlots
  <2> QED BY <2>1 DEF SlotsOf, SlotsIInv
<1>13. Cardinality(kept \cup new) + Cardinality(busy) <= MaxConcurrency
  <2>1. free = MaxConcurrency - (Cardinality(kept) + Cardinality(busy))
    OBVIOUS
  <2> HIDE DEF kept, busy, free
  <2> QED BY <2>1, <1>6, <1>8, <1>11, <1>12
<1>14. openOffers' \in [Runner -> SUBSET Offer] /\ made' \in [Runner -> Nat]
  BY <1>2, <1>3, <1>5, <1>8, <1>10 DEF SlotsIInv
<1>15. \A r \in Runner : openOffers'[r] \subseteq OffersOf(r)
  BY <1>2, <1>5, <1>8 DEF SlotsIInv
<1>16. ASSUME NEW r \in Runner PROVE SlotsOf(r, openOffers', f) <= MaxConcurrency
  <2>1. CASE r = x
    <3>1. openOffers'[x] = kept \cup new
      BY <1>2 DEF SlotsIInv
    <3> QED BY <2>1, <3>1, <1>13 DEF SlotsOf
  <2>2. CASE r # x
    <3>1. openOffers'[r] = openOffers[r]
      BY <2>2, <1>2 DEF SlotsIInv
    <3> QED BY <3>1, FewerSlots
  <2> QED BY <2>1, <2>2
<1> QED BY <1>14, <1>15, <1>16 DEF SlotsIInv, SlotsBound, Slots, SlotsOf

\* So does every step that only takes offers or tasks away, or has a task go on.
LEMMA FewerKeepsSlots ==
  ASSUME SlotsIInv,
         openOffers' \in [Runner -> SUBSET Offer], made' = made,
         taskState' \in [Offer -> TaskStatus \cup {"none"}],
         \A r \in Runner : openOffers'[r] \subseteq openOffers[r],
         \A t \in Offer : taskState[t] = "none" => taskState'[t] = "none"
  PROVE  SlotsIInv'
<1>1. ASSUME NEW r \in Runner PROVE SlotsOf(r, openOffers', taskState') <= MaxConcurrency
  <2>1. RunningTasks(taskState', r) \subseteq RunningTasks(taskState, r)
    BY DEF RunningTasks
  <2> QED BY <2>1, FewerSlots
<1> QED BY <1>1 DEF SlotsIInv, SlotsBound, Slots, SlotsOf

\* finishTask.
LEMMA FinishTaskKeepsSlots ==
  ASSUME SlotsIInv, NEW t, NEW before, FinishTask(t, before)
  PROVE  SlotsIInv'
<1> DEFINE f == [taskState EXCEPT ![t] = "none"]
<1>1. f \in [Offer -> TaskStatus \cup {"none"}] /\ taskState' = f /\ SendOffers(t[1], f, before)
  BY DEF FinishTask, SlotsIInv
<1>2. \A u \in Offer : taskState[u] = "none" => f[u] = "none"
  BY DEF SlotsIInv
<1>3. \A r \in Runner : RunningTasks(f, r) \subseteq RunningTasks(taskState, r)
  BY <1>2 DEF RunningTasks
<1>4. \A u \in Offer : u[1] \in Launcher => f[u] = "none"
  BY <1>2 DEF SlotsIInv
<1> HIDE DEF f
<1>5. CASE t[1] \in Runner
  BY <1>1, <1>3, <1>4, <1>5, SendOffersKeepsSlots
<1>6. CASE t[1] \notin Runner
  <2>1. openOffers' = openOffers /\ made' = made
    BY <1>1, <1>6 DEF SendOffers, SlotsIInv
  <2> QED BY <1>1, <1>2, <2>1, FewerKeepsSlots DEF SlotsIInv
<1> QED BY <1>5, <1>6

\* offerAccepted: the offer makes room for its task.
LEMMA OfferAcceptedKeepsSlots ==
  ASSUME SlotsIInv, NEW r \in Runner, OfferAccepted(r)
  PROVE  SlotsIInv'
<1> DEFINE t == Head(toRunner[r]).task
<1>1. r \notin Launcher /\ openOffers' = [openOffers EXCEPT ![r] = @ \ {t}] /\ made' = made
  BY DEF OfferAccepted
<1>2. openOffers' \in [Runner -> SUBSET Offer] /\ \A x \in Runner : openOffers'[x] \subseteq openOffers[x]
  BY <1>1 DEF SlotsIInv
<1>3. CASE taskState' = taskState
  BY <1>1, <1>2, <1>3, FewerKeepsSlots DEF SlotsIInv
<1>4. CASE t \in openOffers[r] /\ taskState' = [taskState EXCEPT ![t] = "waitingForSettings"]
  <2>1. t \in Offer /\ t[1] = r
    BY <1>4 DEF SlotsIInv, OffersOf
  <2>2. taskState' \in [Offer -> TaskStatus \cup {"none"}]
    BY <1>4 DEF SlotsIInv, TaskStatus
  <2>3. \A u \in Offer : u[1] \in Launcher => taskState'[u] = "none"
    BY <1>1, <1>4, <2>1 DEF SlotsIInv
  <2>4. ASSUME NEW x \in Runner PROVE SlotsOf(x, openOffers', taskState') <= MaxConcurrency
    <3>1. CASE x # r
      <4>1. RunningTasks(taskState', x) \subseteq RunningTasks(taskState, x)
        BY <3>1, <1>4, <2>1 DEF RunningTasks, SlotsIInv
      <4> QED BY <4>1, <1>2, FewerSlots
    <3>2. CASE x = r
      <4> DEFINE open == openOffers[r]
                 busy == RunningTasks(taskState, r)
      <4>1. open \in SUBSET Offer /\ busy \in SUBSET Offer
        BY DEF SlotsIInv, RunningTasks
      <4>2. /\ IsFiniteSet(open) /\ Cardinality(open) \in Nat
            /\ IsFiniteSet(busy) /\ Cardinality(busy) \in Nat
        BY <4>1, OfferSets
      <4>3. openOffers'[r] = open \ {t} /\ t \in open
        BY <1>1, <1>4 DEF SlotsIInv
      <4>4. RunningTasks(taskState', r) = busy \cup {t}
        BY <1>4, <2>1 DEF RunningTasks, SlotsIInv, TaskStatus
      <4>5. Cardinality(open) + Cardinality(busy) <= MaxConcurrency
        BY DEF SlotsIInv, SlotsBound, Slots
      <4> HIDE DEF open, busy, t
      <4>6. Cardinality(open \ {t}) = Cardinality(open) - 1
        BY <4>2, <4>3, FS_RemoveElement
      <4>7. \/ Cardinality(busy \cup {t}) = Cardinality(busy)
            \/ Cardinality(busy \cup {t}) = Cardinality(busy) + 1
        BY <4>2, FS_AddElement
      <4> QED BY <3>2, <4>2, <4>3, <4>4, <4>5, <4>6, <4>7 DEF SlotsOf
    <3> QED BY <3>1, <3>2
  <2>5. \A x \in Runner : openOffers'[x] \subseteq OffersOf(x)
    BY <1>2 DEF SlotsIInv
  <2> QED BY <1>1, <1>2, <2>2, <2>3, <2>4, <2>5 DEF SlotsIInv, SlotsBound, Slots, SlotsOf
<1> QED BY <1>3, <1>4 DEF OfferAccepted

\* The one offer of a launcher.
LEMMA LauncherOffersKeepsSlots ==
  ASSUME SlotsIInv, NEW l \in Runner, LauncherOffers(l)
  PROVE  SlotsIInv'
<1> DEFINE new == NewOffers(l, 1)
<1>1. /\ l \in Launcher /\ openOffers' = [openOffers EXCEPT ![l] = new]
      /\ made' = [made EXCEPT ![l] = @ + 1] /\ taskState' = taskState
  BY DEF LauncherOffers
<1>2. new \subseteq OffersOf(l) /\ Cardinality(new) \in Nat /\ Cardinality(new) <= 1
  <2>1. made[l] \in Nat /\ 1 \in Int
    BY DEF SlotsIInv
  <2> QED BY <2>1, NewOffersBound
<1>3. OffersOf(l) \subseteq Offer
  BY DEF OffersOf, Offer
<1> HIDE DEF new
<1>4. openOffers' \in [Runner -> SUBSET Offer] /\ made' \in [Runner -> Nat]
  BY <1>1, <1>2, <1>3 DEF SlotsIInv
<1>5. \A x \in Runner : openOffers'[x] \subseteq OffersOf(x)
  BY <1>1, <1>2 DEF SlotsIInv
<1>6. ASSUME NEW x \in Runner PROVE SlotsOf(x, openOffers', taskState') <= MaxConcurrency
  <2>1. CASE x = l
    <3>1. openOffers'[l] = new
      BY <1>1 DEF SlotsIInv
    <3>2. RunningTasks(taskState', l) = {}
      BY <1>1 DEF RunningTasks, SlotsIInv
    <3>3. Cardinality({}) = 0
      BY FS_EmptySet
    <3> QED BY <2>1, <3>1, <3>2, <3>3, <1>2 DEF SlotsOf
  <2>2. CASE x # l
    <3>1. openOffers'[x] = openOffers[x]
      BY <2>2, <1>1 DEF SlotsIInv
    <3> QED BY <3>1, <1>1, FewerSlots
  <2> QED BY <2>1, <2>2
<1> QED BY <1>1, <1>4, <1>5, <1>6 DEF SlotsIInv, SlotsBound, Slots, SlotsOf

\* Every step of a runner keeps the bound.
LEMMA RunnerStepKeepsSlots ==
  ASSUME SlotsIInv, NEW r \in Runner, RunnerStep(r)
  PROVE  SlotsIInv'
<1>1. CASE StartOrStopOffers(r)
  BY <1>1, FewerKeepsSlots DEF StartOrStopOffers, SlotsIInv
<1>2. CASE OfferAccepted(r)
  BY <1>2, OfferAcceptedKeepsSlots
<1>3. CASE TaskCancelled(r)
  <2> DEFINE t == Head(toRunner[r]).task
  <2>1. CASE FinishTask(t, <<>>)
    BY <2>1, FinishTaskKeepsSlots
  <2>2. CASE /\ taskState[t] = "running"
             /\ taskState' = [taskState EXCEPT ![t] = "aborting:cancelled"]
             /\ UNCHANGED <<toBroker, canSendOffers, openOffers, made>>
    <3>1. taskState' \in [Offer -> TaskStatus \cup {"none"}]
      BY <2>2 DEF SlotsIInv, TaskStatus
    <3>2. \A u \in Offer : taskState[u] = "none" => taskState'[u] = "none"
      BY <2>2 DEF SlotsIInv
    <3> QED BY <2>2, <3>1, <3>2, FewerKeepsSlots DEF SlotsIInv
  <2>3. CASE UNCHANGED <<toBroker, canSendOffers, openOffers, made, taskState>>
    BY <2>3, FewerKeepsSlots DEF SlotsIInv
  <2> QED BY <1>3, <2>1, <2>2, <2>3 DEF TaskCancelled
<1>4. CASE ReceivedSettings(r)
  <2> DEFINE t == Head(toRunner[r]).task
  <2>1. UNCHANGED <<openOffers, made>>
    BY <1>4 DEF ReceivedSettings
  <2>2. CASE /\ taskState[t] = "waitingForSettings"
             /\ taskState' = [taskState EXCEPT ![t] = "running"]
    <3>1. taskState' \in [Offer -> TaskStatus \cup {"none"}]
      BY <2>2 DEF SlotsIInv, TaskStatus
    <3>2. \A u \in Offer : taskState[u] = "none" => taskState'[u] = "none"
      BY <2>2 DEF SlotsIInv
    <3> QED BY <2>1, <3>1, <3>2, FewerKeepsSlots DEF SlotsIInv
  <2>3. CASE UNCHANGED taskState
    BY <2>1, <2>3, FewerKeepsSlots DEF SlotsIInv
  <2> QED BY <1>4, <2>2, <2>3 DEF ReceivedSettings
<1>5. CASE LauncherDefers(r)
  <2>1. /\ openOffers' = [openOffers EXCEPT ![r] = @ \ {Head(toRunner[r]).task}]
        /\ UNCHANGED <<made, taskState>>
    BY <1>5 DEF LauncherDefers
  <2>2. /\ openOffers' \in [Runner -> SUBSET Offer]
        /\ \A x \in Runner : openOffers'[x] \subseteq openOffers[x]
    BY <2>1 DEF SlotsIInv
  <2> QED BY <2>1, <2>2, FewerKeepsSlots DEF SlotsIInv
<1>6. CASE OfferTick(r)
  BY <1>6, SendOffersKeepsSlots DEF OfferTick, SlotsIInv
<1>7. CASE LauncherOffers(r)
  BY <1>7, LauncherOffersKeepsSlots
<1>8. CASE Crash(r)
  <2>1. /\ openOffers' = [openOffers EXCEPT ![r] = {}] /\ made' = made
        /\ taskState' = [t \in Offer |-> IF t[1] = r THEN "none" ELSE taskState[t]]
    BY <1>8 DEF Crash
  <2>2. /\ openOffers' \in [Runner -> SUBSET Offer]
        /\ \A x \in Runner : openOffers'[x] \subseteq openOffers[x]
    BY <2>1 DEF SlotsIInv
  <2>3. /\ taskState' \in [Offer -> TaskStatus \cup {"none"}]
        /\ \A u \in Offer : taskState[u] = "none" => taskState'[u] = "none"
    BY <2>1 DEF SlotsIInv
  <2> QED BY <2>1, <2>2, <2>3, FewerKeepsSlots
<1>9. ASSUME NEW t \in Offer, ExecutionEnds(t) PROVE SlotsIInv'
  BY <1>9, FinishTaskKeepsSlots DEF ExecutionEnds
<1>10. ASSUME NEW t \in Offer, TaskTimedOut(t) PROVE SlotsIInv'
  <2>1. CASE FinishTask(t, <<[type |-> "ended", task |-> t]>>)
    BY <2>1, FinishTaskKeepsSlots
  <2>2. CASE /\ taskState[t] = "running"
             /\ taskState' = [taskState EXCEPT ![t] = "aborting:timeout"]
             /\ UNCHANGED <<toBroker, canSendOffers, openOffers, made>>
    <3>1. taskState' \in [Offer -> TaskStatus \cup {"none"}]
      BY <2>2 DEF SlotsIInv, TaskStatus
    <3>2. \A u \in Offer : taskState[u] = "none" => taskState'[u] = "none"
      BY <2>2 DEF SlotsIInv
    <3> QED BY <2>2, <3>1, <3>2, FewerKeepsSlots DEF SlotsIInv
  <2> QED BY <1>10, <2>1, <2>2 DEF TaskTimedOut
<1> QED
  BY <1>1, <1>2, <1>3, <1>4, <1>5, <1>6, <1>7, <1>8, <1>9, <1>10 DEF RunnerStep, RunnerHandles

\* At the beginning nothing is offered and nothing runs.
LEMMA SlotsInit == Init => SlotsIInv
<1> SUFFICES ASSUME Init PROVE SlotsIInv
  OBVIOUS
<1>1. /\ openOffers = [r \in Runner |-> {}] /\ made = [r \in Runner |-> 0]
      /\ taskState = [t \in Offer |-> "none"]
  BY DEF Init, RunnerInit
<1>2. Cardinality({}) = 0
  BY FS_EmptySet
<1>3. \A r \in Runner : openOffers[r] = {} /\ RunningTasks(taskState, r) = {}
  BY <1>1 DEF RunningTasks
<1>4. SlotsBound
  BY <1>2, <1>3 DEF SlotsBound, Slots
<1> QED BY <1>1, <1>4 DEF SlotsIInv

\* No step breaks it.
LEMMA SlotsStep == SlotsIInv /\ [Next]_vars => SlotsIInv'
<1> SUFFICES ASSUME SlotsIInv, [Next]_vars PROVE SlotsIInv'
  OBVIOUS
<1>1. CASE UNCHANGED runnerVars
  BY <1>1, FewerKeepsSlots DEF runnerVars, SlotsIInv
<1>2. CASE \E r \in Runner : RunnerStep(r)
  BY <1>2, RunnerStepKeepsSlots
<1> QED BY <1>1, <1>2 DEF Next, vars

\* SlotsBound: however offers expire, are accepted too late or renewed, a runner
\* never has more offers and tasks than slots.
THEOREM SlotsAreBounded == Spec => []SlotsBound
<1>1. SlotsIInv => SlotsBound
  BY DEF SlotsIInv
<1> QED BY SlotsInit, SlotsStep, <1>1, PTL DEF Spec

USE NoneAssumption

-----------------------------------------------------------------------------
(* Types of messages and channels                                            *)

\* What is sent to a runner.
LEMMA ToRunnerMessages ==
  /\ \A type \in {"registered", "drain", "close"} : [type |-> type] \in ToRunner
  /\ \A type \in {"offeraccept", "cancel"}, t \in Offer : [type |-> type, task |-> t] \in ToRunner
  /\ \A t \in Offer, q \in Request :
       [type |-> "settings", task |-> t, request |-> q] \in ToRunner
  BY DEF ToRunner

\* What is sent to the broker.
LEMMA ToBrokerMessages ==
  /\ \A type \in {"offer", "accepted", "rejected", "deferred", "ended"}, t \in Offer :
       [type |-> type, task |-> t] \in ToBroker
  /\ \A m \in ToBroker : m.task \in Offer
  BY DEF ToBroker

\* What messages to a runner are about.
LEMMA ToRunnerElements ==
  ASSUME NEW m \in ToRunner
  PROVE  /\ m.type \in {"offeraccept", "cancel", "settings"} => m.task \in Offer
         /\ m.type = "settings" => m.request \in Request
  BY DEF ToRunner

\* messageRunner keeps the type of a channel.
LEMMA PostedType ==
  ASSUME ChannelTypeOK, NEW r \in Runner, NEW ms \in Seq(ToRunner)
  PROVE  Posted(r, ms) \in Seq(ToRunner)
<1>1. toRunner[r] \in Seq(ToRunner)
  BY DEF ChannelTypeOK
<1> QED BY <1>1, ConcatProperties DEF Posted

\* One message to a runner keeps the type of its channel.
LEMMA TellRunnerType ==
  ASSUME ChannelTypeOK, NEW r \in Runner, NEW m \in ToRunner, TellRunner(r, m)
  PROVE  toRunner' \in [Runner -> Seq(ToRunner)]
<1>1. <<m>> \in Seq(ToRunner)
  OBVIOUS
<1>2. Posted(r, <<m>>) \in Seq(ToRunner)
  BY <1>1, PostedType
<1> QED BY <1>2 DEF TellRunner, ChannelTypeOK

\* So do messages to the broker.
LEMMA TellBrokerType ==
  ASSUME ChannelTypeOK, NEW r, NEW ms \in Seq(ToBroker), TellBroker(r, ms)
  PROVE  toBroker' \in [Runner -> Seq(ToBroker)]
<1>1. ASSUME r \in Runner PROVE toBroker[r] \o ms \in Seq(ToBroker)
  <2>1. toBroker[r] \in Seq(ToBroker)
    BY <1>1 DEF ChannelTypeOK
  <2> QED BY <2>1, ConcatProperties
<1> QED BY <1>1 DEF TellBroker, ChannelTypeOK

\* The message that is handled is gone, and was one of those that are sent.
LEMMA HandledType ==
  ASSUME ChannelTypeOK, NEW r \in Runner, NEW type, Receives(r, type), Handled(r)
  PROVE  /\ toRunner' \in [Runner -> Seq(ToRunner)]
         /\ Head(toRunner[r]) \in ToRunner
<1>1. toRunner[r] \in Seq(ToRunner) /\ toRunner[r] # <<>>
  BY DEF ChannelTypeOK, Receives
<1>2. Head(toRunner[r]) \in ToRunner /\ Tail(toRunner[r]) \in Seq(ToRunner)
  BY <1>1, HeadTailProperties
<1> QED BY <1>2 DEF Handled, ChannelTypeOK

-----------------------------------------------------------------------------
(* Type correctness                                                          *)

\* A runner is asked for the offers that were matched.
LEMMA AcceptsType ==
  ASSUME NEW r, NEW matched \in Seq(Offer)
  PROVE  /\ Accepts(r, matched) \in Seq(ToRunner)
         /\ \A k \in DOMAIN Accepts(r, matched) : Accepts(r, matched)[k].type = "offeraccept"
<1> DEFINE mine == SelectAt(matched, {i \in DOMAIN matched : matched[i][1] = r})
           f == [k \in DOMAIN mine |-> [type |-> "offeraccept", task |-> mine[k]]]
<1>1. mine \in Seq(Offer)
  BY SelectAtType
<1>2. Accepts(r, matched) = f
  BY DEF Accepts
<1> HIDE DEF mine
<1>3. Len(mine) \in Nat /\ DOMAIN mine = 1..Len(mine) /\ \A k \in 1..Len(mine) : mine[k] \in Offer
  BY <1>1, LenProperties, ElementOfSeq
<1>4. f \in [1..Len(mine) -> ToRunner]
  BY <1>3, ToRunnerMessages
<1>5. f \in Seq(ToRunner)
  <2> HIDE DEF f
  <2> QED BY <1>3, <1>4, SeqDef
<1>6. \A k \in DOMAIN f : f[k].type = "offeraccept"
  OBVIOUS
<1> QED BY <1>2, <1>5, <1>6

\* settleTasks matches offers with requests.
LEMMA SettleType ==
  ASSUME ChannelTypeOK, BrokerTypeOK, NEW offers \in Seq(Offer), NEW requests \in Seq(Request),
         Settle(offers, requests)
  PROVE  /\ pendingTaskOffers' \in Seq(Offer) /\ pendingTaskRequests' \in Seq(Request)
         /\ acceptInProgress' \subseteq Request
         /\ accepting' \in [Offer -> Request \cup {None}]
         /\ toRunner' \in [Runner -> Seq(ToRunner)]
<1>1. PICK expired \in SUBSET {t \in ToSet(offers) : t[1] \notin Launcher} :
    LET valid == SelectAt(offers, {i \in DOMAIN offers : offers[i] \notin expired})
        free == Unmatched(requests)
        n == IF Len(valid) < Len(free) THEN Len(valid) ELSE Len(free)
        matched == SubSeq(valid, 1, n)
    IN /\ pendingTaskOffers' = SubSeq(valid, n + 1, Len(valid))
       /\ pendingTaskRequests' = requests
       /\ acceptInProgress' = acceptInProgress \cup {free[i] : i \in 1..n}
       /\ accepting' = [t \in Offer |->
            IF t \in ToSet(matched) THEN free[CHOOSE i \in 1..n : matched[i] = t] ELSE accepting[t]]
       /\ toRunner' = [r \in Runner |-> Posted(r, Accepts(r, matched))]
  BY DEF Settle
<1> DEFINE valid == SelectAt(offers, {i \in DOMAIN offers : offers[i] \notin expired})
           free == Unmatched(requests)
           n == IF Len(valid) < Len(free) THEN Len(valid) ELSE Len(free)
           matched == SubSeq(valid, 1, n)
<1>2. valid \in Seq(Offer)
  BY SelectAtType
<1>3. free \in Seq(Request)
  BY SelectAtType DEF Unmatched
<1> HIDE DEF valid, free
<1>4. Len(valid) \in Nat /\ Len(free) \in Nat /\ n \in Nat /\ n <= Len(valid) /\ n <= Len(free)
  BY <1>2, <1>3, LenProperties
<1> HIDE DEF n
<1>5. /\ matched \in Seq(Offer) /\ Len(matched) = n /\ DOMAIN matched = 1..n
  <2>1. SubSeq(valid, 1, n) \in Seq(Offer) /\ Len(SubSeq(valid, 1, n)) = n
    BY <1>2, <1>4, SubSeqProperties
  <2> QED BY <2>1, LenProperties
<1>6. SubSeq(valid, n + 1, Len(valid)) \in Seq(Offer)
  BY <1>2, <1>4, SubSeqProperties
<1>7. \A i \in 1..n : free[i] \in Request
  <2>1. \A i \in 1..n : i \in 1..Len(free)
    BY <1>4
  <2> QED BY <1>3, <2>1, ElementOfSeq
<1> HIDE DEF matched
<1>8. \A t \in ToSet(matched) : free[CHOOSE i \in 1..n : matched[i] = t] \in Request
  BY <1>5, <1>7 DEF ToSet
<1>9. accepting' = [t \in Offer |->
            IF t \in ToSet(matched) THEN free[CHOOSE i \in 1..n : matched[i] = t] ELSE accepting[t]]
  BY <1>1 DEF valid, free, n, matched
<1>10. ASSUME NEW r \in Runner PROVE Posted(r, Accepts(r, matched)) \in Seq(ToRunner)
  <2>1. Accepts(r, matched) \in Seq(ToRunner)
    BY <1>5, AcceptsType
  <2> QED BY <2>1, PostedType
<1>11. toRunner' = [r \in Runner |-> Posted(r, Accepts(r, matched))]
  BY <1>1 DEF valid, free, n, matched
<1>12. acceptInProgress' = acceptInProgress \cup {free[i] : i \in 1..n}
  BY <1>1 DEF valid, free, n, matched
<1>13. pendingTaskOffers' = SubSeq(valid, n + 1, Len(valid)) /\ pendingTaskRequests' = requests
  BY <1>1 DEF valid, free, n, matched
<1>14. accepting' \in [Offer -> Request \cup {None}]
  BY <1>8, <1>9 DEF BrokerTypeOK
<1>15. acceptInProgress' \subseteq Request
  BY <1>7, <1>12 DEF BrokerTypeOK
<1>16. toRunner' \in [Runner -> Seq(ToRunner)]
  BY <1>10, <1>11
<1> QED BY <1>6, <1>13, <1>14, <1>15, <1>16

\* A request that runs was granted a task; so cancelTasks cancels a task.
RunningIsGranted == \A q \in Request : status[q] = "running" => assigned[q] # None

\* The broker keeps the types.
LEMMA BrokerStepType ==
  ASSUME ChannelTypeOK, BrokerTypeOK, RunningIsGranted, BrokerStep
  PROVE  ChannelTypeOK' /\ BrokerTypeOK'
<1>0. ASSUME NEW ts PROVE
        /\ Forget(ts) => /\ tasks' \in [Offer -> Request \cup {None}]
                         /\ taskTimer' \subseteq {t \in Offer : tasks'[t] # None}
        /\ Settled(ts) => status' \in [Request -> Status]
  BY DEF Forget, Settled, BrokerTypeOK, Status
<1>1. ASSUME NEW q \in Request, RequestTask(q) PROVE ChannelTypeOK' /\ BrokerTypeOK'
  <2>1. CASE isDraining
    BY <1>1, <2>1 DEF RequestTask, ChannelTypeOK, BrokerTypeOK, Status
  <2>2. CASE ~isDraining
    <3>1. Append(pendingTaskRequests, q) \in Seq(Request) /\ pendingTaskOffers \in Seq(Offer)
      BY AppendProperties DEF BrokerTypeOK
    <3>2. Settle(pendingTaskOffers, Append(pendingTaskRequests, q))
      BY <1>1, <2>2 DEF RequestTask
    <3>3. /\ pendingTaskOffers' \in Seq(Offer) /\ pendingTaskRequests' \in Seq(Request)
          /\ acceptInProgress' \subseteq Request
          /\ accepting' \in [Offer -> Request \cup {None}]
          /\ toRunner' \in [Runner -> Seq(ToRunner)]
      BY <3>1, <3>2, SettleType
    <3>4. /\ status' = [status EXCEPT ![q] = "waiting"] /\ requestTimer' = requestTimer \cup {q}
          /\ UNCHANGED <<link, crashed, toBroker, tasks, taskTimer, isDraining, assigned>>
      BY <1>1, <2>2 DEF RequestTask
    <3>5. status' \in [Request -> Status] /\ requestTimer' \subseteq Request
      BY <3>4 DEF BrokerTypeOK, Status
    <3> QED BY <3>3, <3>4, <3>5 DEF ChannelTypeOK, BrokerTypeOK
  <2> QED BY <2>1, <2>2
<1>2. ASSUME NEW q \in Request, CancelTask(q) PROVE ChannelTypeOK' /\ BrokerTypeOK'
  <2> DEFINE t == assigned[q]
  <2>1. toRunner' \in [Runner -> Seq(ToRunner)]
    <3>1. CASE tasks[t] = None
      BY <1>2, <3>1 DEF CancelTask, ChannelTypeOK
    <3>2. CASE tasks[t] # None
      <4>1. t \in Offer
        BY <1>2 DEF CancelTask, RunningIsGranted, BrokerTypeOK
      <4>2. t[1] \in Runner /\ [type |-> "cancel", task |-> t] \in ToRunner
        BY <4>1, OfferElements, ToRunnerMessages
      <4> QED BY <1>2, <3>2, <4>2, TellRunnerType DEF CancelTask
    <3> QED BY <3>1, <3>2
  <2> QED BY <1>0, <1>2, <2>1 DEF CancelTask, ChannelTypeOK, BrokerTypeOK, Status
<1>3. ASSUME NEW q \in Request, RequestTimeout(q) PROVE ChannelTypeOK' /\ BrokerTypeOK'
  <2>1. pendingTaskRequests' \in Seq(Request)
    BY <1>3, RemoveFirstType DEF RequestTimeout, BrokerTypeOK
  <2> QED BY <1>3, <2>1 DEF RequestTimeout, channelVars, ChannelTypeOK, BrokerTypeOK, Status
<1>4. ASSUME NEW t \in Offer, GiveUp(t) PROVE accepting' \in [Offer -> Request \cup {None}]
                                              /\ acceptInProgress' \subseteq Request
  BY <1>4 DEF GiveUp, Woken, BrokerTypeOK
<1>5. ASSUME NEW t \in Offer, AcceptTimeout(t) PROVE ChannelTypeOK' /\ BrokerTypeOK'
  BY <1>4, <1>5 DEF AcceptTimeout, GiveUp, ChannelTypeOK, BrokerTypeOK
<1>6. ASSUME NEW t \in Offer, TaskTimeout(t) PROVE ChannelTypeOK' /\ BrokerTypeOK'
  <2>1. t[1] \in Runner /\ [type |-> "cancel", task |-> t] \in ToRunner
    BY OfferElements, ToRunnerMessages
  <2>2. toRunner' \in [Runner -> Seq(ToRunner)]
    BY <1>6, <2>1, TellRunnerType DEF TaskTimeout
  <2> QED BY <1>0, <1>6, <2>2 DEF TaskTimeout, ChannelTypeOK, BrokerTypeOK
<1>7. ASSUME NEW r \in Runner, HandleAnswer(r) PROVE ChannelTypeOK' /\ BrokerTypeOK'
  <2> DEFINE m == Head(toBroker[r])
             t == m.task
  <2>1. toBroker[r] \in Seq(ToBroker) /\ toBroker[r] # <<>>
    BY <1>7 DEF HandleAnswer, ChannelTypeOK
  <2>2. m \in ToBroker /\ Tail(toBroker[r]) \in Seq(ToBroker)
    BY <2>1, HeadTailProperties
  <2>3. t \in Offer /\ t[1] \in Runner
    BY <2>2, ToBrokerMessages, OfferElements
  <2>4. toBroker' \in [Runner -> Seq(ToBroker)] /\ UNCHANGED <<link, crashed, pendingTaskOffers, isDraining>>
    BY <1>7, <2>2 DEF HandleAnswer, ChannelTypeOK
  <2> HIDE DEF m
  <2>5. CASE accepting[t] # None /\ RunnerAccepts(t)
    <3> DEFINE q == accepting[t]
    <3>1. q \in Request
      BY <2>3, <2>5 DEF BrokerTypeOK
    <3>2. /\ accepting' \in [Offer -> Request \cup {None}]
          /\ requestTimer' \subseteq Request
          /\ acceptInProgress' \subseteq Request
      BY <2>5 DEF RunnerAccepts, Woken, BrokerTypeOK
    <3>3. pendingTaskRequests' \in Seq(Request)
      BY <2>5, RemoveFirstType DEF RunnerAccepts, BrokerTypeOK
    <3>4. /\ [type |-> "settings", task |-> t, request |-> q] \in ToRunner
          /\ [type |-> "cancel", task |-> t] \in ToRunner
      BY <2>3, <3>1, ToRunnerMessages
    <3>5. toRunner' \in [Runner -> Seq(ToRunner)]
      <4>1. ASSUME NEW x \in ToRunner, TellRunner(t[1], x) PROVE toRunner' \in [Runner -> Seq(ToRunner)]
        BY <2>3, <4>1, TellRunnerType
      <4>2. ASSUME UNCHANGED toRunner PROVE toRunner' \in [Runner -> Seq(ToRunner)]
        BY <4>2 DEF ChannelTypeOK
      <4> QED BY <2>5, <3>4, <4>1, <4>2 DEF RunnerAccepts
    <3>6. /\ tasks' \in [Offer -> Request \cup {None}]
          /\ taskTimer' \subseteq {u \in Offer : tasks'[u] # None}
          /\ status' \in [Request -> Status] /\ assigned' \in [Request -> Offer \cup {None}]
      <4> HIDE DEF q, t
      <4>1. q # None
        BY <2>5 DEF q, t
      <4>2. ASSUME tasks' = [tasks EXCEPT ![t] = q], taskTimer' = taskTimer \cup {t} \/ taskTimer' = taskTimer
            PROVE  /\ tasks' \in [Offer -> Request \cup {None}]
                   /\ taskTimer' \subseteq {u \in Offer : tasks'[u] # None}
        BY <2>3, <3>1, <4>1, <4>2 DEF BrokerTypeOK
      <4>3. ASSUME status' = [status EXCEPT ![q] = "running"], assigned' = [assigned EXCEPT ![q] = t]
            PROVE  status' \in [Request -> Status] /\ assigned' \in [Request -> Offer \cup {None}]
        BY <2>3, <4>3 DEF BrokerTypeOK, Status
      <4>4. \/ /\ tasks' = [tasks EXCEPT ![t] = q] /\ taskTimer' = taskTimer \cup {t}
               /\ status' = [status EXCEPT ![q] = "running"] /\ assigned' = [assigned EXCEPT ![q] = t]
            \/ UNCHANGED <<tasks, taskTimer, status, assigned>>
            \/ tasks' = [tasks EXCEPT ![t] = q] /\ UNCHANGED <<taskTimer, status, assigned>>
        BY <2>5 DEF RunnerAccepts, q, t
      <4> QED BY <4>2, <4>3, <4>4 DEF BrokerTypeOK
    <3> QED BY <2>4, <3>2, <3>3, <3>5, <3>6 DEF ChannelTypeOK, BrokerTypeOK
  <2>6. CASE GiveUp(t)
    BY <1>4, <2>3, <2>4, <2>6 DEF GiveUp, ChannelTypeOK, BrokerTypeOK
  <2>7. CASE accepting[t] # None /\ Defer(t)
    <3>1. accepting[t] \in Request
      BY <2>3, <2>7 DEF BrokerTypeOK
    <3>2. pendingTaskRequests' \in Seq(Request)
      BY <2>7, <3>1, AppendProperties DEF Defer, BrokerTypeOK
    <3>3. accepting' \in [Offer -> Request \cup {None}]
      BY <2>7 DEF Defer, Woken, BrokerTypeOK
    <3> QED BY <2>4, <2>7, <3>1, <3>2, <3>3 DEF Defer, ChannelTypeOK, BrokerTypeOK
  <2>8. CASE UNCHANGED <<pendingTaskRequests, acceptInProgress, requestTimer, toRunner,
                         accepting, tasks, taskTimer, status, assigned>>
    BY <2>4, <2>8 DEF ChannelTypeOK, BrokerTypeOK
  <2>9. CASE /\ Settled({t} \ {u \in Offer : tasks[u] = None}) /\ Forget({t})
             /\ UNCHANGED <<pendingTaskRequests, acceptInProgress, requestTimer, toRunner,
                            accepting, assigned>>
    BY <1>0, <2>4, <2>9 DEF ChannelTypeOK, BrokerTypeOK
  <2> QED BY <1>7, <2>5, <2>6, <2>7, <2>8, <2>9 DEF HandleAnswer, m
<1>8. ASSUME NEW r \in Runner, HandleOffer(r) PROVE ChannelTypeOK' /\ BrokerTypeOK'
  <2> DEFINE m == Head(toBroker[r])
  <2>1. toBroker[r] \in Seq(ToBroker) /\ toBroker[r] # <<>>
    BY <1>8 DEF HandleOffer, ChannelTypeOK
  <2>2. m \in ToBroker /\ Tail(toBroker[r]) \in Seq(ToBroker)
    BY <2>1, HeadTailProperties
  <2>3. m.task \in Offer
    BY <2>2, ToBrokerMessages
  <2>4. Append(pendingTaskOffers, m.task) \in Seq(Offer) /\ pendingTaskRequests \in Seq(Request)
    BY <2>3, AppendProperties DEF BrokerTypeOK
  <2>5. Settle(Append(pendingTaskOffers, m.task), pendingTaskRequests)
    BY <1>8 DEF HandleOffer
  <2>6. /\ pendingTaskOffers' \in Seq(Offer) /\ pendingTaskRequests' \in Seq(Request)
        /\ acceptInProgress' \subseteq Request
        /\ accepting' \in [Offer -> Request \cup {None}]
        /\ toRunner' \in [Runner -> Seq(ToRunner)]
    BY <2>4, <2>5, SettleType
  <2>7. toBroker' \in [Runner -> Seq(ToBroker)]
    BY <1>8, <2>2 DEF HandleOffer, ChannelTypeOK
  <2> QED BY <1>8, <2>6, <2>7 DEF HandleOffer, ChannelTypeOK, BrokerTypeOK
<1>9. ASSUME NEW r \in Runner, Register(r) PROVE ChannelTypeOK' /\ BrokerTypeOK'
  <2>1. <<[type |-> "registered"]>> \in Seq(ToRunner)
    BY ToRunnerMessages
  <2>2. ChannelTypeOK'
    BY <1>9, <2>1 DEF Register, ChannelTypeOK
  <2> QED BY <1>9, <2>2 DEF Register, brokerVars, BrokerTypeOK
<1>10. ASSUME NEW r \in Runner, Deregister(r) PROVE ChannelTypeOK' /\ BrokerTypeOK'
  <2>1. pendingTaskOffers' \in Seq(Offer)
    <3>1. pendingTaskOffers \in Seq(Offer)
      BY DEF BrokerTypeOK
    <3> QED BY <1>10, <3>1, SelectAtType DEF Deregister
  <2>2. toRunner' \in [Runner -> Seq(ToRunner)]
    BY <1>10, ToRunnerMessages, TellRunnerType DEF Deregister
  <2>3. toBroker' \in [Runner -> Seq(ToBroker)] /\ link' \in [Runner -> {"new", "open", "closed"}]
    BY <1>10 DEF Deregister, ChannelTypeOK
  <2>4. /\ tasks' \in [Offer -> Request \cup {None}]
        /\ taskTimer' \subseteq {t \in Offer : tasks'[t] # None}
        /\ status' \in [Request -> Status]
    BY <1>0, <1>10 DEF Deregister
  <2> QED BY <1>10, <2>1, <2>2, <2>3, <2>4 DEF Deregister, ChannelTypeOK, BrokerTypeOK
<1>11. ASSUME StartDraining PROVE ChannelTypeOK' /\ BrokerTypeOK'
  <2>1. <<[type |-> "drain"]>> \in Seq(ToRunner)
    BY ToRunnerMessages
  <2>2. \A r \in Runner : Posted(r, <<[type |-> "drain"]>>) \in Seq(ToRunner)
    BY <2>1, PostedType
  <2> QED BY <1>11, <2>2 DEF StartDraining, ChannelTypeOK, BrokerTypeOK
<1> QED BY <1>1, <1>2, <1>3, <1>5, <1>6, <1>7, <1>8, <1>9, <1>10, <1>11 DEF BrokerStep

\* A request that was granted a task keeps it, and runs only then.
LEMMA BrokerKeepsGrants ==
  ASSUME ChannelTypeOK, BrokerTypeOK, RunningIsGranted, BrokerStep
  PROVE  RunningIsGranted'
<1>1. ASSUME NEW ts, Settled(ts), UNCHANGED assigned PROVE RunningIsGranted'
  BY <1>1 DEF Settled, RunningIsGranted
<1>2. ASSUME UNCHANGED <<status, assigned>> PROVE RunningIsGranted'
  BY <1>2 DEF RunningIsGranted
<1>3. ASSUME NEW q \in Request, RequestTask(q) \/ CancelTask(q) \/ RequestTimeout(q)
      PROVE  RunningIsGranted'
  BY <1>3 DEF RequestTask, CancelTask, RequestTimeout, RunningIsGranted, BrokerTypeOK
<1>4. ASSUME NEW t, RunnerAccepts(t), t \in Offer PROVE RunningIsGranted'
  BY <1>2, <1>4, NoneAssumption DEF RunnerAccepts, RunningIsGranted, BrokerTypeOK
<1>5. ASSUME NEW r \in Runner, HandleAnswer(r) PROVE RunningIsGranted'
  <2> DEFINE t == Head(toBroker[r]).task
  <2>1. toBroker[r] \in Seq(ToBroker) /\ toBroker[r] # <<>>
    BY <1>5 DEF HandleAnswer, ChannelTypeOK
  <2>2. t \in Offer
    BY <2>1, HeadTailProperties, ToBrokerMessages
  <2>3. \/ RunnerAccepts(t) \/ UNCHANGED <<status, assigned>>
        \/ Settled({t} \ {u \in Offer : tasks[u] = None}) /\ UNCHANGED assigned
    BY <1>5 DEF HandleAnswer, GiveUp, Defer
  <2> QED BY <1>1, <1>2, <1>4, <2>2, <2>3
<1>6. ASSUME NEW r \in Runner, HandleOffer(r) \/ Register(r) PROVE RunningIsGranted'
  BY <1>2, <1>6 DEF HandleOffer, Register, brokerVars
<1>7. ASSUME NEW r \in Runner, Deregister(r) PROVE RunningIsGranted'
  BY <1>1, <1>7 DEF Deregister
<1>8. ASSUME NEW t \in Offer, AcceptTimeout(t) \/ TaskTimeout(t) PROVE RunningIsGranted'
  BY <1>1, <1>2, <1>8 DEF AcceptTimeout, GiveUp, TaskTimeout
<1>9. ASSUME StartDraining PROVE RunningIsGranted'
  BY <1>2, <1>9 DEF StartDraining
<1> QED BY <1>3, <1>5, <1>6, <1>7, <1>8, <1>9 DEF BrokerStep

\* The messages with the next c offers of r.
OffersFrom(r, c) == [i \in 1..c |-> [type |-> "offer", task |-> <<r, made[r] + i>>]]

\* sendOffers names offers that the runner can make.
LEMMA SendOffersMakes ==
  ASSUME SlotsIInv, NEW r \in Runner, NEW f, NEW before, SendOffers(r, f, before)
  PROVE  \E c \in Nat : /\ \A i \in 1..c : <<r, made[r] + i>> \in Offer
                        /\ made' = [made EXCEPT ![r] = @ + c]
                        /\ TellBroker(r, before \o OffersFrom(r, c))
<1>1. PICK stale \in SUBSET openOffers[r] :
    LET kept == openOffers[r] \ stale
        free == MaxConcurrency - (Cardinality(kept) + Cardinality(RunningTasks(f, r)))
        new == IF canSendOffers[r] THEN NewOffers(r, free) ELSE {}
        offers == [i \in 1..Cardinality(new) |-> [type |-> "offer", task |-> <<r, made[r] + i>>]]
    IN /\ made' = [made EXCEPT ![r] = @ + Cardinality(new)]
       /\ TellBroker(r, before \o offers)
  BY DEF SendOffers
<1> DEFINE kept == openOffers[r] \ stale
           free == MaxConcurrency - (Cardinality(kept) + Cardinality(RunningTasks(f, r)))
           new == IF canSendOffers[r] THEN NewOffers(r, free) ELSE {}
           c == Cardinality(new)
<1>2. made[r] \in Nat /\ MaxOffers[r] \in Nat
  BY DEF SlotsIInv
<1>3. c \in Nat /\ \A i \in 1..c : made[r] + i <= MaxOffers[r]
  <2> DEFINE J == {j \in 1..MaxOffers[r] : made[r] < j}
             h == [j \in J |-> <<r, j>>]
             a == made[r] + 1
             b == MaxOffers[r]
  <2>1. new \subseteq {<<r, j>> : j \in J}
    BY DEF NewOffers
  <2>2. a \in Int /\ b \in Int /\ (a > b <=> ~(made[r] < b)) /\ b - a + 1 = b - made[r]
    BY <1>2
  <2>3. J = a..b
    BY <1>2
  <2> HIDE DEF a, b, J
  <2>4. IsFiniteSet(J) /\ Cardinality(J) = IF a > b THEN 0 ELSE b - a + 1
    BY <2>2, <2>3, FS_Interval
  <2>5. h \in Surjection(J, {<<r, j>> : j \in J})
    BY DEF Surjection
  <2>6. IsFiniteSet({<<r, j>> : j \in J}) /\ Cardinality({<<r, j>> : j \in J}) <= Cardinality(J)
    <3> HIDE DEF h
    <3> QED BY <2>4, <2>5, FS_Surjection
  <2> HIDE DEF new
  <2>7. IsFiniteSet(new) /\ c <= Cardinality({<<r, j>> : j \in J})
    BY <2>1, <2>6, FS_Subset
  <2>8. c \in Nat /\ Cardinality({<<r, j>> : j \in J}) \in Nat
    BY <2>6, <2>7, FS_CardinalityType
  <2> HIDE DEF c
  <2>9. c <= IF made[r] < b THEN b - made[r] ELSE 0
    BY <2>2, <2>4, <2>6, <2>7, <2>8
  <2> QED BY <1>2, <2>8, <2>9 DEF b
<1>4. made' = [made EXCEPT ![r] = @ + c] /\ TellBroker(r, before \o OffersFrom(r, c))
  BY <1>1 DEF OffersFrom
<1> HIDE DEF new, c
<1>5. \A i \in 1..c : <<r, made[r] + i>> \in Offer
  BY <1>2, <1>3 DEF Offer
<1> QED BY <1>3, <1>4, <1>5

\* They are messages to the broker.
LEMMA OffersFromType ==
  ASSUME NEW r \in Runner, NEW c \in Nat, \A i \in 1..c : <<r, made[r] + i>> \in Offer
  PROVE  OffersFrom(r, c) \in Seq(ToBroker)
<1>1. OffersFrom(r, c) \in [1..c -> ToBroker]
  BY ToBrokerMessages DEF OffersFrom
<1> QED BY <1>1, SeqDef

\* So sendOffers keeps the type of its channel.
LEMMA SendOffersType ==
  ASSUME ChannelTypeOK, SlotsIInv, NEW r \in Runner, NEW f \in [Offer -> TaskStatus \cup {"none"}],
         NEW before \in Seq(ToBroker), SendOffers(r, f, before)
  PROVE  toBroker' \in [Runner -> Seq(ToBroker)]
<1>1. PICK c \in Nat : /\ \A i \in 1..c : <<r, made[r] + i>> \in Offer
                       /\ TellBroker(r, before \o OffersFrom(r, c))
  BY SendOffersMakes
<1>2. before \o OffersFrom(r, c) \in Seq(ToBroker)
  BY <1>1, OffersFromType, ConcatProperties
<1> QED BY <1>1, <1>2, TellBrokerType

\* A runner keeps the types.
LEMMA RunnerStepType ==
  ASSUME ChannelTypeOK, RunnerTypeOK, SlotsIInv, SlotsIInv', NEW r \in Runner, RunnerStep(r)
  PROVE  ChannelTypeOK' /\ RunnerTypeOK'
<1>0. /\ openOffers' \in [Runner -> SUBSET Offer] /\ made' \in [Runner -> Nat]
      /\ taskState' \in [Offer -> TaskStatus \cup {"none"}]
  BY DEF SlotsIInv
<1>1. CASE StartOrStopOffers(r)
  <2>1. toRunner' \in [Runner -> Seq(ToRunner)]
    BY <1>1, HandledType DEF StartOrStopOffers
  <2> QED BY <1>0, <1>1, <2>1 DEF StartOrStopOffers, ChannelTypeOK, RunnerTypeOK
<1>2. CASE OfferAccepted(r) \/ LauncherDefers(r)
  <2> DEFINE t == Head(toRunner[r]).task
  <2>1. /\ Receives(r, "offeraccept") /\ Handled(r)
        /\ UNCHANGED <<link, crashed, canSendOffers, runs>>
    BY <1>2 DEF OfferAccepted, LauncherDefers
  <2>2. toRunner' \in [Runner -> Seq(ToRunner)] /\ Head(toRunner[r]) \in ToRunner
    BY <2>1, HandledType
  <2>3. t \in Offer
    BY <2>1, <2>2, ToRunnerElements DEF Receives
  <2>4. \E type \in {"accepted", "rejected", "deferred"} : TellBroker(r, <<[type |-> type, task |-> t]>>)
    BY <1>2 DEF OfferAccepted, LauncherDefers
  <2>5. \A type \in {"accepted", "rejected", "deferred"} :
          <<[type |-> type, task |-> t]>> \in Seq(ToBroker)
    BY <2>3, ToBrokerMessages
  <2>6. toBroker' \in [Runner -> Seq(ToBroker)]
    <3> HIDE DEF t
    <3> QED BY <2>4, <2>5, TellBrokerType
  <2> QED BY <1>0, <2>1, <2>2, <2>6 DEF ChannelTypeOK, RunnerTypeOK
<1>3. ASSUME NEW t \in Offer, NEW before \in Seq(ToBroker), FinishTask(t, before)
      PROVE  toBroker' \in [Runner -> Seq(ToBroker)] /\ UNCHANGED canSendOffers
  <2>1. [taskState EXCEPT ![t] = "none"] \in [Offer -> TaskStatus \cup {"none"}]
    BY DEF SlotsIInv
  <2> QED BY <1>3, <2>1, OfferElements, SendOffersType DEF FinishTask
<1>4. CASE TaskCancelled(r)
  <2> DEFINE t == Head(toRunner[r]).task
  <2>1. Receives(r, "cancel") /\ Handled(r) /\ UNCHANGED <<link, crashed, runs>>
    BY <1>4 DEF TaskCancelled
  <2>2. toRunner' \in [Runner -> Seq(ToRunner)] /\ Head(toRunner[r]) \in ToRunner
    BY <2>1, HandledType
  <2>3. t \in Offer
    BY <2>1, <2>2, ToRunnerElements DEF Receives
  <2>4. <<>> \in Seq(ToBroker)
    OBVIOUS
  <2>5. FinishTask(t, <<>>) \/ UNCHANGED <<toBroker, canSendOffers>>
    BY <1>4 DEF TaskCancelled
  <2>6. toBroker' \in [Runner -> Seq(ToBroker)] /\ UNCHANGED canSendOffers
    BY <1>3, <2>3, <2>4, <2>5 DEF ChannelTypeOK
  <2> QED BY <1>0, <2>1, <2>2, <2>6 DEF ChannelTypeOK, RunnerTypeOK
<1>5. CASE ReceivedSettings(r)
  <2>1. Receives(r, "settings") /\ Handled(r)
    BY <1>5 DEF ReceivedSettings
  <2>2. toRunner' \in [Runner -> Seq(ToRunner)] /\ Head(toRunner[r]) \in ToRunner
    BY <2>1, HandledType
  <2>3. runs' \in [Request -> Nat]
    BY <1>5 DEF ReceivedSettings, RunnerTypeOK
  <2> QED BY <1>0, <1>5, <2>2, <2>3 DEF ReceivedSettings, ChannelTypeOK, RunnerTypeOK
<1>6. CASE OfferTick(r)
  <2>1. toBroker' \in [Runner -> Seq(ToBroker)]
    <3>1. <<>> \in Seq(ToBroker) /\ taskState \in [Offer -> TaskStatus \cup {"none"}]
      BY DEF SlotsIInv
    <3> QED BY <1>6, <3>1, SendOffersType DEF OfferTick
  <2> QED BY <1>0, <1>6, <2>1 DEF OfferTick, ChannelTypeOK, RunnerTypeOK
<1>7. CASE LauncherOffers(r)
  <2>1. <<r, made[r] + 1>> \in Offer
    <3>1. made[r] \in Nat /\ MaxOffers[r] \in Nat /\ made[r] < MaxOffers[r]
      BY <1>7 DEF LauncherOffers, SlotsIInv
    <3> QED BY <3>1 DEF Offer
  <2>2. <<[type |-> "offer", task |-> <<r, made[r] + 1>>]>> \in Seq(ToBroker)
    BY <2>1, ToBrokerMessages
  <2>3. toBroker' \in [Runner -> Seq(ToBroker)]
    BY <1>7, <2>2, TellBrokerType DEF LauncherOffers
  <2> QED BY <1>0, <1>7, <2>3 DEF LauncherOffers, ChannelTypeOK, RunnerTypeOK
<1>8. CASE Crash(r)
  <2>1. /\ toRunner' \in [Runner -> Seq(ToRunner)] /\ crashed' \subseteq Runner
        /\ canSendOffers' \in [Runner -> BOOLEAN]
    BY <1>8 DEF Crash, ChannelTypeOK, RunnerTypeOK
  <2> QED BY <1>0, <1>8, <2>1 DEF Crash, ChannelTypeOK, RunnerTypeOK
<1>9. ASSUME NEW t \in Offer, ExecutionEnds(t) \/ TaskTimedOut(t)
      PROVE  ChannelTypeOK' /\ RunnerTypeOK'
  <2>1. <<>> \in Seq(ToBroker) /\ <<[type |-> "ended", task |-> t]>> \in Seq(ToBroker)
    BY ToBrokerMessages
  <2>2. \/ \E before \in {<<>>, <<[type |-> "ended", task |-> t]>>} : FinishTask(t, before)
        \/ UNCHANGED <<toBroker, canSendOffers>>
    BY <1>9 DEF ExecutionEnds, TaskTimedOut
  <2>3. toBroker' \in [Runner -> Seq(ToBroker)] /\ UNCHANGED canSendOffers
    BY <1>3, <2>1, <2>2 DEF ChannelTypeOK
  <2>4. UNCHANGED <<link, crashed, toRunner, runs>>
    BY <1>9 DEF ExecutionEnds, TaskTimedOut
  <2> QED BY <1>0, <2>3, <2>4 DEF ChannelTypeOK, RunnerTypeOK
<1> QED BY <1>1, <1>2, <1>4, <1>5, <1>6, <1>7, <1>8, <1>9 DEF RunnerStep, RunnerHandles

\* The inductive invariant behind the types.
TypeIInv == TypeOK /\ RunningIsGranted /\ SlotsIInv

\* The invariant holds at first.
LEMMA TypeInit == Init => TypeIInv
<1> SUFFICES ASSUME Init PROVE TypeIInv
  OBVIOUS
<1>1. SlotsIInv
  BY SlotsInit
<1>2. ChannelTypeOK
  BY DEF Init, ChannelInit, ChannelTypeOK
<1>3. BrokerTypeOK
  <2>1. BrokerInit
    BY DEF Init
  <2>2. pendingTaskOffers \in Seq(Offer) /\ pendingTaskRequests \in Seq(Request)
    BY <2>1 DEF BrokerInit
  <2>3. /\ accepting \in [Offer -> Request \cup {None}] /\ tasks \in [Offer -> Request \cup {None}]
        /\ status \in [Request -> Status] /\ assigned \in [Request -> Offer \cup {None}]
    BY <2>1 DEF BrokerInit, Status
  <2> QED BY <2>1, <2>2, <2>3 DEF BrokerInit, BrokerTypeOK
<1>5. RunningIsGranted
  BY DEF Init, BrokerInit, RunningIsGranted
<1>4. RunnerTypeOK
  BY DEF Init, RunnerInit, RunnerTypeOK
<1> QED BY <1>1, <1>2, <1>3, <1>4, <1>5 DEF TypeIInv, TypeOK

\* No step breaks it.
LEMMA TypeStep == TypeIInv /\ [Next]_vars => TypeIInv'
<1> SUFFICES ASSUME TypeIInv, [Next]_vars PROVE TypeIInv'
  OBVIOUS
<1>1. ChannelTypeOK /\ BrokerTypeOK /\ RunnerTypeOK /\ RunningIsGranted /\ SlotsIInv
  BY DEF TypeIInv, TypeOK
<1>2. SlotsIInv'
  BY <1>1, SlotsStep
<1>4. CASE BrokerStep /\ UNCHANGED runnerVars
  <2>1. RunnerTypeOK'
    BY <1>1, <1>4 DEF runnerVars, RunnerTypeOK
  <2> QED BY <1>1, <1>2, <1>4, <2>1, BrokerStepType, BrokerKeepsGrants DEF TypeIInv, TypeOK
<1>5. ASSUME NEW r \in Runner, RunnerStep(r), UNCHANGED brokerVars PROVE TypeIInv'
  <2>1. BrokerTypeOK' /\ RunningIsGranted'
    BY <1>1, <1>5 DEF brokerVars, BrokerTypeOK, RunningIsGranted
  <2> QED BY <1>1, <1>2, <1>5, <2>1, RunnerStepType DEF TypeIInv, TypeOK
<1>6. CASE UNCHANGED vars
  BY <1>1, <1>2, <1>6
  DEF vars, channelVars, brokerVars, runnerVars, TypeIInv, TypeOK, ChannelTypeOK, BrokerTypeOK,
      RunnerTypeOK, RunningIsGranted
<1> QED BY <1>4, <1>5, <1>6 DEF Next

\* The variables have their types, in every reachable state: no message is about a
\* task that its runner cannot have made, no task timeout outlives its task.
THEOREM TypeCorrect == Spec => []TypeOK
<1>1. TypeIInv => TypeOK
  BY DEF TypeIInv
<1> QED BY TypeInit, TypeStep, <1>1, PTL DEF Spec

-----------------------------------------------------------------------------
(* Messages about an offer                                                   *)

About(m, t) == m.type \notin {"registered", "drain", "close"} /\ m.task = t

\* The types of the messages of s that are about t.
TypesOf(s, t) == {s[i].type : i \in {j \in DOMAIN s : About(s[j], t)}}

\* In a channel, what is said about an offer is said in turn: nothing precedes its
\* beginning, and nothing but its end follows anything else.
Begins == {"offer", "offeraccept"}
Ends == {"ended", "cancel"}

InTurn(s) ==
  \A t \in Offer : \A i, j \in DOMAIN s :
    i < j /\ About(s[i], t) /\ About(s[j], t) => s[i].type \notin Begins /\ s[j].type \in Ends

\* It is about offers of r only.
Own(s, r) == \A t \in Offer : t[1] # r => TypesOf(s, t) = {}

\* A message leaves a channel at its front.
LEMMA TailInTurn ==
  ASSUME NEW M, NEW s \in Seq(M), s # <<>>, InTurn(s)
  PROVE  /\ InTurn(Tail(s))
         /\ \A t \in Offer :
              /\ ~About(Head(s), t) => TypesOf(Tail(s), t) = TypesOf(s, t)
              /\ About(Head(s), t) =>
                   /\ Head(s).type \in TypesOf(s, t)
                   /\ TypesOf(Tail(s), t) \subseteq TypesOf(s, t) \cap Ends
                   /\ TypesOf(s, t) \subseteq TypesOf(Tail(s), t) \cup {Head(s).type}
                   /\ Head(s).type \in Begins => TypesOf(Tail(s), t) = {}
<1> DEFINE u == Tail(s)
<1>1. /\ Len(s) \in Nat /\ DOMAIN s = 1..Len(s) /\ Head(s) = s[1] /\ 1 \in DOMAIN s
      /\ DOMAIN u = 1..(Len(s) - 1) /\ \A i \in DOMAIN u : u[i] = s[i + 1]
  <2>1. Len(s) \in Nat /\ DOMAIN s = 1..Len(s) /\ Len(s) # 0
    BY LenProperties, EmptySeq
  <2>2. u \in Seq(M) /\ Len(u) = Len(s) - 1 /\ \A i \in 1..Len(u) : u[i] = s[i + 1]
    BY HeadTailProperties
  <2>3. DOMAIN u = 1..Len(u)
    BY <2>2, LenProperties
  <2> QED BY <2>1, <2>2, <2>3
<1> HIDE DEF u
<1>2. \A i \in DOMAIN u : i + 1 \in DOMAIN s /\ i + 1 > 1 /\ u[i] = s[i + 1]
  BY <1>1
<1>3. \A i \in DOMAIN s : i # 1 => i - 1 \in DOMAIN u /\ u[i - 1] = s[i] /\ 1 < i
  BY <1>1
<1>4. InTurn(u)
  <2> SUFFICES ASSUME NEW t \in Offer, NEW i \in DOMAIN u, NEW j \in DOMAIN u,
                      i < j, About(u[i], t), About(u[j], t)
               PROVE  u[i].type \notin Begins /\ u[j].type \in Ends
    BY DEF InTurn
  <2>1. i + 1 < j + 1
    BY <1>1
  <2> QED BY <1>2, <2>1 DEF InTurn
<1>5. ASSUME NEW t \in Offer, ~About(Head(s), t) PROVE TypesOf(u, t) = TypesOf(s, t)
  BY <1>1, <1>2, <1>3, <1>5 DEF TypesOf
<1>6. ASSUME NEW t \in Offer, About(Head(s), t)
      PROVE  /\ Head(s).type \in TypesOf(s, t)
             /\ TypesOf(u, t) \subseteq TypesOf(s, t) \cap Ends
             /\ TypesOf(s, t) \subseteq TypesOf(u, t) \cup {Head(s).type}
             /\ Head(s).type \in Begins => TypesOf(u, t) = {}
  <2>1. \A i \in DOMAIN u : About(u[i], t) => u[i].type \in Ends /\ Head(s).type \notin Begins
    BY <1>1, <1>2, <1>6 DEF InTurn
  <2>2. \A x \in TypesOf(u, t) : x \in TypesOf(s, t)
    BY <1>2 DEF TypesOf
  <2>3. \A x \in TypesOf(u, t) : x \in Ends /\ Head(s).type \notin Begins
    BY <2>1 DEF TypesOf
  <2>4. Head(s).type \in TypesOf(s, t)
    BY <1>1, <1>6 DEF TypesOf
  <2>5. \A x \in TypesOf(s, t) : x \in TypesOf(u, t) \/ x = Head(s).type
    BY <1>1, <1>3 DEF TypesOf
  <2> QED BY <2>2, <2>3, <2>4, <2>5
<1> QED BY <1>4, <1>5, <1>6 DEF u

\* Messages come behind those that are there.
LEMMA ConcatInTurn ==
  ASSUME NEW M, NEW s \in Seq(M), NEW ms \in Seq(M), InTurn(s), InTurn(ms),
         \A t \in Offer : \/ TypesOf(s, t) = {}
                          \/ TypesOf(ms, t) = {}
                          \/ TypesOf(s, t) \cap Begins = {} /\ TypesOf(ms, t) \subseteq Ends
  PROVE  /\ InTurn(s \o ms)
         /\ \A t \in Offer : TypesOf(s \o ms, t) = TypesOf(s, t) \cup TypesOf(ms, t)
<1> DEFINE u == s \o ms
           n == Len(s)
<1>1. /\ n \in Nat /\ DOMAIN s = 1..n
      /\ Len(ms) \in Nat /\ DOMAIN ms = 1..Len(ms)
      /\ DOMAIN u = 1..(n + Len(ms))
      /\ \A i \in DOMAIN u : u[i] = IF i <= n THEN s[i] ELSE ms[i - n]
  <2>1. n \in Nat /\ DOMAIN s = 1..n /\ Len(ms) \in Nat /\ DOMAIN ms = 1..Len(ms)
    BY LenProperties
  <2>2. /\ u \in Seq(M) /\ Len(u) = n + Len(ms)
        /\ \A i \in 1..(n + Len(ms)) : u[i] = IF i <= n THEN s[i] ELSE ms[i - n]
    BY ConcatProperties
  <2>3. DOMAIN u = 1..(n + Len(ms))
    BY <2>2, LenProperties
  <2> QED BY <2>1, <2>2, <2>3
<1> HIDE DEF u, n
<1>2. \A i \in DOMAIN u : \/ i \in DOMAIN s /\ u[i] = s[i]
                          \/ i - n \in DOMAIN ms /\ u[i] = ms[i - n] /\ i \notin DOMAIN s
  BY <1>1
<1>3. /\ \A i \in DOMAIN s : i \in DOMAIN u /\ u[i] = s[i]
      /\ \A i \in DOMAIN ms : i + n \in DOMAIN u /\ u[i + n] = ms[i]
  BY <1>1
<1>4. ASSUME NEW t \in Offer PROVE TypesOf(u, t) = TypesOf(s, t) \cup TypesOf(ms, t)
  <2>1. TypesOf(u, t) \subseteq TypesOf(s, t) \cup TypesOf(ms, t)
    BY <1>2 DEF TypesOf
  <2>2. TypesOf(s, t) \subseteq TypesOf(u, t)
    BY <1>3 DEF TypesOf
  <2>3. TypesOf(ms, t) \subseteq TypesOf(u, t)
    BY <1>3 DEF TypesOf
  <2> QED BY <2>1, <2>2, <2>3
<1>5. InTurn(u)
  <2> SUFFICES ASSUME NEW t \in Offer, NEW i \in DOMAIN u, NEW j \in DOMAIN u,
                      i < j, About(u[i], t), About(u[j], t)
               PROVE  u[i].type \notin Begins /\ u[j].type \in Ends
    BY DEF InTurn
  <2>1. CASE i \in DOMAIN s /\ j \in DOMAIN s
    BY <1>3, <2>1 DEF InTurn
  <2>2. CASE i \in DOMAIN s /\ j \notin DOMAIN s
    <3>1. u[i] = s[i] /\ j - n \in DOMAIN ms /\ u[j] = ms[j - n]
      BY <1>2, <1>3, <2>2
    <3>2. u[i].type \in TypesOf(s, t) /\ u[j].type \in TypesOf(ms, t)
      BY <2>2, <3>1 DEF TypesOf
    <3> QED BY <3>2
  <2>3. CASE i \notin DOMAIN s
    <3>1. j \notin DOMAIN s
      BY <1>1, <2>3
    <3>2. i - n \in DOMAIN ms /\ u[i] = ms[i - n] /\ j - n \in DOMAIN ms /\ u[j] = ms[j - n]
      BY <1>2, <2>3, <3>1
    <3>3. i - n < j - n
      BY <1>1
    <3> QED BY <3>2, <3>3 DEF InTurn
  <2> QED BY <2>1, <2>2, <2>3
<1> QED BY <1>4, <1>5 DEF u

\* One message, or none.
LEMMA OneInTurn ==
  ASSUME NEW m
  PROVE  /\ InTurn(<<m>>) /\ InTurn(<<>>)
         /\ \A t \in Offer : /\ About(m, t) => TypesOf(<<m>>, t) = {m.type}
                             /\ ~About(m, t) => TypesOf(<<m>>, t) = {}
                             /\ TypesOf(<<>>, t) = {}
<1>1. DOMAIN <<m>> = {1} /\ <<m>>[1] = m /\ DOMAIN <<>> = {}
  OBVIOUS
<1> QED BY <1>1 DEF InTurn, TypesOf

-----------------------------------------------------------------------------
(* The life of an offer                                                      *)

\* What the broker and the runner have still to handle about t.
AtBroker(t) == TypesOf(toBroker[t[1]], t)
AtRunner(t) == TypesOf(toRunner[t[1]], t)
Pending(t) == \E i \in DOMAIN pendingTaskOffers : pendingTaskOffers[i] = t

\* Neither side has made a task of t.
Untouched(t) == tasks[t] = None /\ taskState[t] = "none" /\ AtRunner(t) = {}

BrokerChannels ==
  \A r \in Runner : /\ InTurn(toBroker[r]) /\ Own(toBroker[r], r)
                    /\ toBroker[r] # <<>> => link[r] = "open"
RunnerChannels == \A r \in Runner : InTurn(toRunner[r]) /\ Own(toRunner[r], r)
PendingOffersOnce ==
  \A i, j \in DOMAIN pendingTaskOffers : pendingTaskOffers[i] = pendingTaskOffers[j] => i = j

Answers == {"accepted", "rejected", "deferred"}

\* An offer is made, pending, asked for, answered, and a task at either side, in this
\* order; it is not in two of the earlier places at once, and in none of them twice.
LifeOf(t) ==
  /\ made[t[1]] < t[2] => Untouched(t) /\ AtBroker(t) = {} /\ ~Pending(t)
  /\ "offer" \in AtBroker(t) => Untouched(t) /\ ~Pending(t)
  /\ Pending(t) => Untouched(t) /\ AtBroker(t) = {}
  /\ "offeraccept" \in AtRunner(t) =>
       /\ tasks[t] = None /\ taskState[t] = "none"
       /\ AtBroker(t) = {} /\ AtRunner(t) = {"offeraccept"}
  /\ \A a \in Answers : a \in AtBroker(t) =>
       tasks[t] = None /\ AtRunner(t) = {} /\ taskState[t] \in {"none", "waitingForSettings"}
  /\ "cancel" \in AtRunner(t) \/ taskState[t] = "aborting:cancelled" => tasks[t] = None
  /\ "settings" \in AtRunner(t) => taskState[t] \in {"none", "waitingForSettings"}
  /\ tasks[t] # None \/ "accepted" \in AtBroker(t) =>
       link[t[1]] = "open" /\ (t[1] \in crashed \/ taskState[t] # "none" \/ "ended" \in AtBroker(t))

LifeInv ==
  BrokerChannels /\ RunnerChannels /\ PendingOffersOnce /\ \A t \in Offer : LifeOf(t)

\* What is sent in each direction.
LEMMA ChannelTypes ==
  ASSUME ChannelTypeOK, NEW t \in Offer
  PROVE  /\ AtBroker(t) \subseteq {"offer", "accepted", "rejected", "deferred", "ended"}
         /\ AtRunner(t) \subseteq {"offeraccept", "cancel", "settings"}
<1>1. t[1] \in Runner
  BY OfferElements
<1>2. /\ \A i \in DOMAIN toBroker[t[1]] : toBroker[t[1]][i] \in ToBroker
      /\ \A i \in DOMAIN toRunner[t[1]] : toRunner[t[1]][i] \in ToRunner
  <2>1. toBroker[t[1]] \in Seq(ToBroker) /\ toRunner[t[1]] \in Seq(ToRunner)
    BY <1>1 DEF ChannelTypeOK
  <2> QED BY <2>1, LenProperties, ElementOfSeq
<1>3. \A x \in AtBroker(t) : x \in {"offer", "accepted", "rejected", "deferred", "ended"}
  BY <1>2 DEF AtBroker, TypesOf, ToBroker
<1>4. \A m \in ToRunner : m.type \in {"registered", "drain", "close", "offeraccept", "cancel", "settings"}
  BY DEF ToRunner
<1>5. \A x \in AtRunner(t) : x \in {"offeraccept", "cancel", "settings"}
  BY <1>2, <1>4 DEF AtRunner, TypesOf, About
<1> QED BY <1>3, <1>5

\* The broker takes a message about one of the offers of r.
LEMMA BrokerTakes ==
  ASSUME ChannelTypeOK, BrokerChannels, NEW r \in Runner, toBroker[r] # <<>>,
         toBroker' = [toBroker EXCEPT ![r] = Tail(@)], UNCHANGED link
  PROVE  /\ BrokerChannels'
         /\ \E u \in Offer :
              /\ Head(toBroker[r]).task = u /\ u[1] = r /\ Head(toBroker[r]).type \in AtBroker(u)
              /\ AtBroker(u)' \subseteq {"ended"} \cap AtBroker(u)
              /\ AtBroker(u) \subseteq AtBroker(u)' \cup {Head(toBroker[r]).type}
              /\ Head(toBroker[r]).type = "offer" => AtBroker(u)' = {}
              /\ \A t \in Offer : t # u => AtBroker(t)' = AtBroker(t)
<1>0. PICK m : m = Head(toBroker[r])
  OBVIOUS
<1> DEFINE s == toBroker[r]
<1>1. s \in Seq(ToBroker) /\ s # <<>> /\ InTurn(s) /\ Own(s, r) /\ link[r] = "open"
  BY DEF ChannelTypeOK, BrokerChannels
<1>2. m \in ToBroker /\ Tail(s) \in Seq(ToBroker)
  BY <1>0, <1>1, HeadTailProperties
<1>3. m.task \in Offer /\ \A t \in Offer : About(m, t) <=> m.task = t
  BY <1>2 DEF ToBroker, About
<1>4. toBroker' = [toBroker EXCEPT ![r] = Tail(s)]
  OBVIOUS
<1>4a. toBroker'[r] = Tail(s) /\ \A x \in Runner : x # r => toBroker'[x] = toBroker[x]
  BY <1>4 DEF ChannelTypeOK
<1>5. /\ InTurn(Tail(s))
      /\ \A t \in Offer : t # m.task => TypesOf(Tail(s), t) = TypesOf(s, t)
      /\ m.type \in TypesOf(s, m.task)
      /\ TypesOf(Tail(s), m.task) \subseteq TypesOf(s, m.task) \cap Ends
      /\ TypesOf(s, m.task) \subseteq TypesOf(Tail(s), m.task) \cup {m.type}
      /\ m.type = "offer" => TypesOf(Tail(s), m.task) = {}
  BY <1>0, <1>1, <1>3, TailInTurn DEF Begins
<1>6. m.task[1] = r
  BY <1>1, <1>3, <1>5 DEF Own
<1> HIDE DEF s
<1>7. /\ m.type \in AtBroker(m.task)
      /\ AtBroker(m.task)' = TypesOf(Tail(s), m.task) /\ AtBroker(m.task) = TypesOf(s, m.task)
  BY <1>4a, <1>5, <1>6 DEF AtBroker, s
<1>8. AtBroker(m.task)' \subseteq {"ended"}
  <2>1. AtBroker(m.task) \subseteq {"offer", "accepted", "rejected", "deferred", "ended"}
    BY <1>3, ChannelTypes
  <2>2. AtBroker(m.task)' \subseteq AtBroker(m.task) \cap Ends
    BY <1>5, <1>7
  <2> QED BY <2>1, <2>2 DEF Ends
<1>9. ASSUME NEW t \in Offer, t # m.task PROVE AtBroker(t)' = AtBroker(t)
  <2>1. t[1] \in Runner
    BY OfferElements
  <2> QED BY <1>4a, <1>5, <1>9, <2>1 DEF AtBroker, s
<1>10. BrokerChannels'
  <2>1. InTurn(toBroker'[r])
    BY <1>4a, <1>5
  <2>2. Own(toBroker'[r], r)
    BY <1>1, <1>4a, <1>5, <1>6 DEF Own
  <2>3. link'[r] = "open"
    BY <1>1
  <2>4. \A x \in Runner : x # r => InTurn(toBroker'[x]) /\ Own(toBroker'[x], x)
                                  /\ (toBroker'[x] # <<>> => link'[x] = "open")
    BY <1>4a DEF BrokerChannels
  <2> QED BY <2>1, <2>2, <2>3, <2>4 DEF BrokerChannels
<1>11. AtBroker(m.task) \subseteq AtBroker(m.task)' \cup {m.type}
  BY <1>5, <1>7
<1>12. AtBroker(m.task)' \subseteq {"ended"} \cap AtBroker(m.task)
  BY <1>5, <1>7, <1>8
<1>13. m.type = "offer" => AtBroker(m.task)' = {}
  BY <1>5, <1>7
<1>14. PICK u \in Offer : u = m.task
  BY <1>3
<1> QED BY <1>0, <1>6, <1>7, <1>9, <1>10, <1>11, <1>12, <1>13, <1>14

\* A runner takes a message about one of its own offers, or about none.
LEMMA RunnerTakes ==
  ASSUME ChannelTypeOK, RunnerChannels, NEW r \in Runner, NEW type, Receives(r, type), Handled(r),
         NEW m, m = Head(toRunner[r])
  PROVE  /\ m \in ToRunner /\ m.type = type
         /\ RunnerChannels'
         /\ type \in {"registered", "drain", "close"} => \A t \in Offer : AtRunner(t)' = AtRunner(t)
         /\ type \in {"offeraccept", "cancel", "settings"} =>
              /\ m.task \in Offer /\ m.task[1] = r
              /\ type \in AtRunner(m.task)
              /\ AtRunner(m.task)' \subseteq {"cancel"}
              /\ AtRunner(m.task)' \subseteq AtRunner(m.task)
              /\ type = "offeraccept" => AtRunner(m.task)' = {}
              /\ \A t \in Offer : t # m.task => AtRunner(t)' = AtRunner(t)
<1> DEFINE s == toRunner[r]
<1>1. s \in Seq(ToRunner) /\ s # <<>> /\ InTurn(s) /\ Own(s, r) /\ m.type = type
  BY DEF ChannelTypeOK, RunnerChannels, Receives
<1>2. m \in ToRunner /\ Tail(s) \in Seq(ToRunner)
  BY <1>1, HeadTailProperties
<1>3. /\ \A t \in Offer : About(m, t) <=> type \in {"offeraccept", "cancel", "settings"} /\ m.task = t
      /\ type \in {"offeraccept", "cancel", "settings"} => m.task \in Offer
  BY <1>1, <1>2 DEF ToRunner, About
<1>4. toRunner'[r] = Tail(s) /\ \A x \in Runner : x # r => toRunner'[x] = toRunner[x]
  BY DEF Handled, ChannelTypeOK
<1>5. /\ InTurn(Tail(s))
      /\ \A t \in Offer :
           /\ ~About(m, t) => TypesOf(Tail(s), t) = TypesOf(s, t)
           /\ About(m, t) =>
                /\ m.type \in TypesOf(s, t)
                /\ TypesOf(Tail(s), t) \subseteq TypesOf(s, t) \cap Ends
                /\ m.type \in Begins => TypesOf(Tail(s), t) = {}
  BY <1>1, TailInTurn
<1> HIDE DEF s
<1>6. ASSUME NEW t \in Offer, ~About(m, t) PROVE AtRunner(t)' = AtRunner(t)
  <2>1. t[1] \in Runner
    BY OfferElements
  <2> QED BY <1>4, <1>5, <1>6, <2>1 DEF AtRunner, s
<1>7. RunnerChannels'
  <2>1. InTurn(toRunner'[r])
    BY <1>4, <1>5
  <2>2. Own(toRunner'[r], r)
    BY <1>1, <1>4, <1>5 DEF Own
  <2>3. \A x \in Runner : x # r => InTurn(toRunner'[x]) /\ Own(toRunner'[x], x)
    BY <1>4 DEF RunnerChannels
  <2> QED BY <2>1, <2>2, <2>3 DEF RunnerChannels
<1>8. ASSUME type \in {"offeraccept", "cancel", "settings"}
      PROVE  /\ m.task \in Offer /\ m.task[1] = r
             /\ type \in AtRunner(m.task)
             /\ AtRunner(m.task)' \subseteq {"cancel"}
             /\ AtRunner(m.task)' \subseteq AtRunner(m.task)
             /\ type = "offeraccept" => AtRunner(m.task)' = {}
  <2>1. m.task \in Offer /\ About(m, m.task)
    BY <1>3, <1>8
  <2>2. m.task[1] = r
    BY <1>1, <1>5, <2>1 DEF Own
  <2>3. AtRunner(m.task)' = TypesOf(Tail(s), m.task) /\ AtRunner(m.task) = TypesOf(s, m.task)
    BY <1>4, <2>2 DEF AtRunner, s
  <2>4. AtRunner(m.task) \subseteq {"offeraccept", "cancel", "settings"}
    BY <2>1, ChannelTypes
  <2>5. /\ type \in AtRunner(m.task)
        /\ AtRunner(m.task)' \subseteq AtRunner(m.task) \cap Ends
        /\ type = "offeraccept" => AtRunner(m.task)' = {}
    BY <1>1, <1>5, <2>1, <2>3 DEF Begins
  <2> QED BY <2>1, <2>2, <2>4, <2>5 DEF Ends
<1> QED BY <1>1, <1>2, <1>3, <1>6, <1>7, <1>8

\* The broker is told about offers of r.
LEMMA BrokerHears ==
  ASSUME ChannelTypeOK, BrokerChannels, NEW r \in Runner, NEW ms \in Seq(ToBroker),
         InTurn(ms), Own(ms, r), TellBroker(r, ms), UNCHANGED link,
         \A t \in Offer : \/ TypesOf(ms, t) = {}
                          \/ AtBroker(t) = {}
                          \/ "offer" \notin AtBroker(t) /\ TypesOf(ms, t) \subseteq {"ended"}
  PROVE  /\ BrokerChannels'
         /\ \A t \in Offer :
              AtBroker(t)' = IF link[r] = "open" THEN AtBroker(t) \cup TypesOf(ms, t) ELSE AtBroker(t)
<1> DEFINE s == toBroker[r]
<1>1. s \in Seq(ToBroker) /\ InTurn(s) /\ Own(s, r)
  BY DEF ChannelTypeOK, BrokerChannels
<1>2. CASE link[r] # "open"
  <2>1. toBroker' = toBroker
    BY <1>2 DEF TellBroker, ChannelTypeOK
  <2> QED BY <1>2, <2>1 DEF AtBroker, BrokerChannels
<1>3. CASE link[r] = "open"
  <2>1. toBroker'[r] = s \o ms /\ \A x \in Runner : x # r => toBroker'[x] = toBroker[x]
    BY <1>3 DEF TellBroker, ChannelTypeOK
  <2>2. \A t \in Offer : t[1] = r => TypesOf(s, t) = AtBroker(t)
    BY DEF AtBroker
  <2>3. \A t \in Offer : AtBroker(t) \subseteq {"offer", "accepted", "rejected", "deferred", "ended"}
    BY ChannelTypes
  <2>4. ASSUME NEW t \in Offer
        PROVE  \/ TypesOf(s, t) = {}
               \/ TypesOf(ms, t) = {}
               \/ TypesOf(s, t) \cap Begins = {} /\ TypesOf(ms, t) \subseteq Ends
    <3>1. CASE t[1] # r
      BY <3>1 DEF Own
    <3>2. CASE t[1] = r
      BY <2>2, <2>3, <3>2 DEF Begins, Ends
    <3> QED BY <3>1, <3>2
  <2>5. InTurn(s \o ms) /\ \A t \in Offer : TypesOf(s \o ms, t) = TypesOf(s, t) \cup TypesOf(ms, t)
    BY <1>1, <2>4, ConcatInTurn
  <2> HIDE DEF s
  <2>6. Own(s \o ms, r)
    BY <1>1, <2>5 DEF Own
  <2>7. ASSUME NEW t \in Offer PROVE AtBroker(t)' = AtBroker(t) \cup TypesOf(ms, t)
    <3>1. CASE t[1] # r
      <4>1. t[1] \in Runner
        BY OfferElements
      <4>2. TypesOf(ms, t) = {}
        BY <3>1 DEF Own
      <4> QED BY <2>1, <3>1, <4>1, <4>2 DEF AtBroker
    <3>2. CASE t[1] = r
      BY <2>1, <2>5, <3>2 DEF AtBroker, s
    <3> QED BY <3>1, <3>2
  <2>8. BrokerChannels'
    <3>1. InTurn(toBroker'[r]) /\ Own(toBroker'[r], r) /\ link'[r] = "open"
      BY <1>3, <2>1, <2>5, <2>6
    <3>2. \A x \in Runner : x # r => InTurn(toBroker'[x]) /\ Own(toBroker'[x], x)
                                    /\ (toBroker'[x] # <<>> => link'[x] = "open")
      BY <2>1 DEF BrokerChannels
    <3> QED BY <3>1, <3>2 DEF BrokerChannels
  <2> QED BY <1>3, <2>7, <2>8
<1> QED BY <1>2, <1>3

\* A runner is told about offers of its own; if it is dead or unknown, it is not.
LEMMA RunnerHears ==
  ASSUME ChannelTypeOK, RunnerChannels, NEW r \in Runner, NEW ms \in Seq(ToRunner),
         InTurn(ms), Own(ms, r), toRunner'[r] = Posted(r, ms),
         \A t \in Offer : \/ TypesOf(ms, t) = {}
                          \/ AtRunner(t) = {}
                          \/ "offeraccept" \notin AtRunner(t) /\ TypesOf(ms, t) \subseteq {"cancel"}
  PROVE  /\ InTurn(toRunner'[r]) /\ Own(toRunner'[r], r)
         /\ \A t \in Offer : t[1] = r =>
              AtRunner(t)' = AtRunner(t) \/ AtRunner(t)' = AtRunner(t) \cup TypesOf(ms, t)
<1> DEFINE s == toRunner[r]
<1>1. s \in Seq(ToRunner) /\ InTurn(s) /\ Own(s, r)
  BY DEF ChannelTypeOK, RunnerChannels
<1>2. CASE toRunner'[r] = s
  BY <1>1, <1>2 DEF AtRunner
<1>3. CASE toRunner'[r] = s \o ms
  <2>1. \A t \in Offer : t[1] = r => TypesOf(s, t) = AtRunner(t)
    BY DEF AtRunner
  <2>2. \A t \in Offer : AtRunner(t) \subseteq {"offeraccept", "cancel", "settings"}
    BY ChannelTypes
  <2>3. ASSUME NEW t \in Offer
        PROVE  \/ TypesOf(s, t) = {}
               \/ TypesOf(ms, t) = {}
               \/ TypesOf(s, t) \cap Begins = {} /\ TypesOf(ms, t) \subseteq Ends
    <3>1. CASE t[1] # r
      BY <3>1 DEF Own
    <3>2. CASE t[1] = r
      BY <2>1, <2>2, <3>2 DEF Begins, Ends
    <3> QED BY <3>1, <3>2
  <2>4. InTurn(s \o ms) /\ \A t \in Offer : TypesOf(s \o ms, t) = TypesOf(s, t) \cup TypesOf(ms, t)
    BY <1>1, <2>3, ConcatInTurn
  <2> HIDE DEF s
  <2>5. Own(s \o ms, r)
    BY <1>1, <2>4 DEF Own
  <2>6. ASSUME NEW t \in Offer, t[1] = r PROVE AtRunner(t)' = AtRunner(t) \cup TypesOf(ms, t)
    BY <1>3, <2>4, <2>6 DEF AtRunner, s
  <2> QED BY <1>3, <2>4, <2>5, <2>6
<1> QED BY <1>2, <1>3 DEF Posted

\* One message about an offer, to its runner.
LEMMA RunnerTold ==
  ASSUME ChannelTypeOK, RunnerChannels, NEW u \in Offer, NEW m \in ToRunner,
         m.type \in {"offeraccept", "cancel", "settings"}, m.task = u, TellRunner(u[1], m),
         AtRunner(u) = {} \/ ("offeraccept" \notin AtRunner(u) /\ m.type = "cancel")
  PROVE  /\ RunnerChannels'
         /\ \A t \in Offer : t # u => AtRunner(t)' = AtRunner(t)
         /\ AtRunner(u)' = AtRunner(u) \/ AtRunner(u)' = AtRunner(u) \cup {m.type}
<1> DEFINE r == u[1]
<1>1. r \in Runner
  BY OfferElements
<1>2. toRunner'[r] = Posted(r, <<m>>) /\ \A x \in Runner : x # r => toRunner'[x] = toRunner[x]
  BY <1>1 DEF TellRunner, ChannelTypeOK
<1>3. <<m>> \in Seq(ToRunner) /\ \A t \in Offer : About(m, t) <=> t = u
  BY DEF About
<1>4. /\ InTurn(<<m>>)
      /\ \A t \in Offer : TypesOf(<<m>>, t) = IF t = u THEN {m.type} ELSE {}
  BY <1>3, OneInTurn
<1>5. Own(<<m>>, r)
  BY <1>4 DEF Own
<1>6. /\ InTurn(toRunner'[r]) /\ Own(toRunner'[r], r)
      /\ \A t \in Offer : t[1] = r =>
           AtRunner(t)' = AtRunner(t) \/ AtRunner(t)' = AtRunner(t) \cup TypesOf(<<m>>, t)
  <2>1. \A t \in Offer : \/ TypesOf(<<m>>, t) = {}
                         \/ AtRunner(t) = {}
                         \/ "offeraccept" \notin AtRunner(t) /\ TypesOf(<<m>>, t) \subseteq {"cancel"}
    BY <1>4
  <2> HIDE DEF r
  <2> QED BY <1>1, <1>2, <1>3, <1>4, <1>5, <2>1, RunnerHears
<1>7. RunnerChannels'
  BY <1>2, <1>6 DEF RunnerChannels
<1>8. ASSUME NEW t \in Offer, t # u PROVE AtRunner(t)' = AtRunner(t)
  <2>1. t[1] \in Runner
    BY OfferElements
  <2>2. CASE t[1] # r
    BY <1>2, <2>1, <2>2 DEF AtRunner
  <2>3. CASE t[1] = r
    BY <1>4, <1>6, <1>8, <2>3
  <2> QED BY <2>2, <2>3
<1> QED BY <1>4, <1>6, <1>7, <1>8

\* What runners are told otherwise is about no offer.
LEMMA RunnersToldNothing ==
  ASSUME ChannelTypeOK, RunnerChannels, NEW m \in ToRunner,
         m.type \in {"registered", "drain", "close"},
         \A r \in Runner : toRunner'[r] = toRunner[r] \/ toRunner'[r] = Posted(r, <<m>>)
  PROVE  RunnerChannels' /\ \A t \in Offer : AtRunner(t)' = AtRunner(t)
<1>1. <<m>> \in Seq(ToRunner) /\ \A t \in Offer : ~About(m, t)
  BY DEF About
<1>2. InTurn(<<m>>) /\ \A t \in Offer : TypesOf(<<m>>, t) = {}
  BY <1>1, OneInTurn
<1>3. ASSUME NEW r \in Runner
      PROVE  /\ InTurn(toRunner'[r]) /\ Own(toRunner'[r], r)
             /\ \A t \in Offer : t[1] = r => AtRunner(t)' = AtRunner(t)
  <2>1. CASE toRunner'[r] = toRunner[r]
    BY <2>1 DEF RunnerChannels, AtRunner
  <2>2. CASE toRunner'[r] = Posted(r, <<m>>)
    <3>1. Own(<<m>>, r)
      BY <1>2 DEF Own
    <3>2. /\ InTurn(toRunner'[r]) /\ Own(toRunner'[r], r)
          /\ \A t \in Offer : t[1] = r =>
               AtRunner(t)' = AtRunner(t) \/ AtRunner(t)' = AtRunner(t) \cup TypesOf(<<m>>, t)
      BY <1>1, <1>2, <2>2, <3>1, RunnerHears
    <3> QED BY <1>2, <3>2
  <2> QED BY <2>1, <2>2
<1>4. \A t \in Offer : AtRunner(t)' = AtRunner(t)
  BY <1>3, OfferElements
<1> QED BY <1>3, <1>4 DEF RunnerChannels

\* Nothing is said.
LEMMA SameChannels ==
  /\ RunnerChannels /\ UNCHANGED toRunner
       => RunnerChannels' /\ \A t \in Offer : AtRunner(t)' = AtRunner(t)
  /\ BrokerChannels /\ UNCHANGED <<toBroker, link>>
       => BrokerChannels' /\ \A t \in Offer : AtBroker(t)' = AtBroker(t)
  /\ PendingOffersOnce /\ UNCHANGED pendingTaskOffers
       => PendingOffersOnce' /\ \A t \in Offer : Pending(t)' = Pending(t)
  BY DEF RunnerChannels, AtRunner, BrokerChannels, AtBroker, PendingOffersOnce, Pending

\* Whom settleTasks asks: the runners of the offers that it matches, once for each.
LEMMA AcceptsInTurn ==
  ASSUME NEW r \in Runner, NEW matched \in Seq(Offer),
         \A i, j \in DOMAIN matched : matched[i] = matched[j] => i = j
  PROVE  /\ InTurn(Accepts(r, matched)) /\ Own(Accepts(r, matched), r)
         /\ \A t \in Offer : \/ TypesOf(Accepts(r, matched), t) = {}
                             \/ /\ TypesOf(Accepts(r, matched), t) = {"offeraccept"}
                                /\ \E i \in DOMAIN matched : matched[i] = t
<1> DEFINE I == {i \in DOMAIN matched : matched[i][1] = r}
           mine == SelectAt(matched, I)
           ms == Accepts(r, matched)
<1>1. /\ \A k \in DOMAIN mine : \E i \in I : mine[k] = matched[i]
      /\ \A a, b \in DOMAIN mine : mine[a] = mine[b] => a = b
      /\ mine \in Seq(Offer)
  <2>1. I \in SUBSET DOMAIN matched
    OBVIOUS
  <2> HIDE DEF I
  <2> QED BY <2>1, SelectAtType, SelectAtInjective
<1>2. ms = [k \in DOMAIN mine |-> [type |-> "offeraccept", task |-> mine[k]]]
  BY DEF Accepts
<1> HIDE DEF ms, mine
<1>3. /\ DOMAIN ms = DOMAIN mine
      /\ \A k \in DOMAIN ms : ms[k].type = "offeraccept" /\ ms[k].task = mine[k]
  BY <1>2
<1>4. \A k \in DOMAIN ms : mine[k][1] = r /\ \E i \in DOMAIN matched : matched[i] = mine[k]
  BY <1>1, <1>3
<1>5. InTurn(ms)
  <2> SUFFICES ASSUME NEW t \in Offer, NEW i \in DOMAIN ms, NEW j \in DOMAIN ms,
                      i < j, About(ms[i], t), About(ms[j], t)
               PROVE  FALSE
    BY DEF InTurn
  <2>1. mine[i] = mine[j]
    BY <1>3 DEF About
  <2>2. i = j
    BY <1>1, <1>3, <2>1
  <2>3. i \in Nat
    <3>1. DOMAIN mine = 1..Len(mine) /\ Len(mine) \in Nat
      BY <1>1, LenProperties
    <3> QED BY <1>3, <3>1
  <2> QED BY <2>2, <2>3
<1>6. ASSUME NEW t \in Offer, NEW x \in TypesOf(ms, t)
      PROVE  x = "offeraccept" /\ t[1] = r /\ \E i \in DOMAIN matched : matched[i] = t
  BY <1>3, <1>4, <1>6 DEF TypesOf, About
<1>7. Own(ms, r)
  BY <1>6 DEF Own
<1>8. \A t \in Offer : \/ TypesOf(ms, t) = {}
                       \/ TypesOf(ms, t) = {"offeraccept"} /\ \E i \in DOMAIN matched : matched[i] = t
  BY <1>6
<1> QED BY <1>5, <1>7, <1>8 DEF ms

\* settleTasks: an offer that was pending is asked for, or pending still, or has
\* expired; what was not pending stays as it is.
LEMMA SettleLife ==
  ASSUME ChannelTypeOK, RunnerChannels, NEW offers \in Seq(Offer), NEW requests \in Seq(Request),
         \A i, j \in DOMAIN offers : offers[i] = offers[j] => i = j,
         \A i \in DOMAIN offers : AtRunner(offers[i]) = {},
         Settle(offers, requests)
  PROVE  /\ RunnerChannels' /\ PendingOffersOnce'
         /\ \A t \in Offer :
              \/ AtRunner(t)' = AtRunner(t)
              \/ /\ \E i \in DOMAIN offers : offers[i] = t
                 /\ AtRunner(t)' = {"offeraccept"} /\ ~Pending(t)'
         /\ \A t \in Offer : Pending(t)' => \E i \in DOMAIN offers : offers[i] = t
<1>1. PICK expired \in SUBSET {t \in ToSet(offers) : t[1] \notin Launcher} :
    LET valid == SelectAt(offers, {i \in DOMAIN offers : offers[i] \notin expired})
        free == Unmatched(requests)
        n == IF Len(valid) < Len(free) THEN Len(valid) ELSE Len(free)
        matched == SubSeq(valid, 1, n)
    IN /\ pendingTaskOffers' = SubSeq(valid, n + 1, Len(valid))
       /\ toRunner' = [r \in Runner |-> Posted(r, Accepts(r, matched))]
  BY DEF Settle
<1> DEFINE I == {i \in DOMAIN offers : offers[i] \notin expired}
           valid == SelectAt(offers, I)
           free == Unmatched(requests)
           n == IF Len(valid) < Len(free) THEN Len(valid) ELSE Len(free)
           matched == SubSeq(valid, 1, n)
           rest == SubSeq(valid, n + 1, Len(valid))
<1>2. /\ valid \in Seq(Offer)
      /\ \A k \in DOMAIN valid : \E i \in DOMAIN offers : offers[i] = valid[k]
      /\ \A a, b \in DOMAIN valid : valid[a] = valid[b] => a = b
  <2>1. I \in SUBSET DOMAIN offers
    OBVIOUS
  <2> HIDE DEF I
  <2> QED BY <2>1, SelectAtType, SelectAtInjective
<1>3. pendingTaskOffers' = rest /\ \A r \in Runner : toRunner'[r] = Posted(r, Accepts(r, matched))
  BY <1>1
<1>4. free \in Seq(Request)
  BY SelectAtType DEF Unmatched
<1> HIDE DEF valid, free
<1>5. n \in Nat /\ n <= Len(valid) /\ Len(valid) \in Nat /\ DOMAIN valid = 1..Len(valid)
  BY <1>2, <1>4, LenProperties
<1> HIDE DEF n
<1>6. /\ matched \in Seq(Offer) /\ DOMAIN matched = 1..n
      /\ \A i \in 1..n : matched[i] = valid[i] /\ i \in DOMAIN valid
  <2>1. /\ SubSeq(valid, 1, n) \in Seq(Offer) /\ Len(SubSeq(valid, 1, n)) = n
        /\ \A i \in 1..n : SubSeq(valid, 1, n)[i] = valid[i]
    BY <1>2, <1>5, SubSeqProperties
  <2>2. DOMAIN matched = 1..n
    BY <2>1, LenProperties
  <2> QED BY <1>5, <2>1, <2>2
<1>7. /\ rest \in Seq(Offer) /\ DOMAIN rest = 1..(Len(valid) - n)
      /\ \A i \in DOMAIN rest : rest[i] = valid[n + i] /\ n + i \in DOMAIN valid /\ n + i \notin 1..n
  <2>1. n \in 0..Len(valid)
    BY <1>5
  <2>2. /\ rest \in Seq(Offer) /\ DOMAIN rest = 1..(Len(valid) - n)
        /\ \A i \in 1..(Len(valid) - n) : rest[i] = valid[n + i]
    BY <1>2, <2>1, RestProperties
  <2> HIDE DEF rest
  <2>3. \A i \in 1..(Len(valid) - n) : n + i \in 1..Len(valid) /\ n + i \notin 1..n
    BY <1>5
  <2> QED BY <1>5, <2>2, <2>3
<1> HIDE DEF matched, rest
<1>8. \A i, j \in DOMAIN matched : matched[i] = matched[j] => i = j
  BY <1>2, <1>6
<1>9. PendingOffersOnce'
  <2>1. \A i, j \in DOMAIN rest : rest[i] = rest[j] => i = j
    <3> SUFFICES ASSUME NEW i \in DOMAIN rest, NEW j \in DOMAIN rest, rest[i] = rest[j] PROVE i = j
      OBVIOUS
    <3>1. n + i = n + j
      BY <1>2, <1>7
    <3> QED BY <1>5, <1>7, <3>1
  <2> QED BY <1>3, <2>1 DEF PendingOffersOnce
<1>10. \A t \in Offer : Pending(t)' => \E i \in DOMAIN offers : offers[i] = t
  BY <1>2, <1>3, <1>7 DEF Pending
<1>11. ASSUME NEW t \in Offer, NEW i \in DOMAIN matched, matched[i] = t
       PROVE  ~Pending(t)' /\ AtRunner(t) = {} /\ \E j \in DOMAIN offers : offers[j] = t
  <2>1. \A j \in DOMAIN rest : rest[j] # t
    BY <1>2, <1>6, <1>7, <1>11
  <2>2. ~Pending(t)'
    BY <1>3, <2>1 DEF Pending
  <2>3. \E j \in DOMAIN offers : offers[j] = t
    BY <1>2, <1>6, <1>11
  <2> QED BY <2>2, <2>3
<1>12. ASSUME NEW r \in Runner
       PROVE  /\ InTurn(toRunner'[r]) /\ Own(toRunner'[r], r)
              /\ \A t \in Offer : t[1] = r =>
                   \/ AtRunner(t)' = AtRunner(t)
                   \/ /\ \E i \in DOMAIN offers : offers[i] = t
                      /\ AtRunner(t)' = {"offeraccept"} /\ ~Pending(t)'
  <2> DEFINE ms == Accepts(r, matched)
  <2>1. ms \in Seq(ToRunner)
    BY <1>6, AcceptsType
  <2>2. /\ InTurn(ms) /\ Own(ms, r)
        /\ \A t \in Offer : \/ TypesOf(ms, t) = {}
                            \/ TypesOf(ms, t) = {"offeraccept"} /\ \E i \in DOMAIN matched : matched[i] = t
    BY <1>6, <1>8, AcceptsInTurn
  <2>3. toRunner'[r] = Posted(r, ms)
    BY <1>3
  <2> HIDE DEF ms
  <2>4. \A t \in Offer : TypesOf(ms, t) = {} \/ AtRunner(t) = {}
    BY <1>11, <2>2
  <2>5. /\ InTurn(toRunner'[r]) /\ Own(toRunner'[r], r)
        /\ \A t \in Offer : t[1] = r =>
             AtRunner(t)' = AtRunner(t) \/ AtRunner(t)' = AtRunner(t) \cup TypesOf(ms, t)
    BY <2>1, <2>2, <2>3, <2>4, RunnerHears
  <2>6. ASSUME NEW t \in Offer, t[1] = r, AtRunner(t)' # AtRunner(t)
        PROVE  /\ \E i \in DOMAIN offers : offers[i] = t
               /\ AtRunner(t)' = {"offeraccept"} /\ ~Pending(t)'
    <3>1. AtRunner(t)' = AtRunner(t) \cup TypesOf(ms, t) /\ TypesOf(ms, t) # {}
      BY <2>5, <2>6
    <3>2. TypesOf(ms, t) = {"offeraccept"} /\ \E i \in DOMAIN matched : matched[i] = t
      BY <2>2, <3>1
    <3>3. ~Pending(t)' /\ AtRunner(t) = {} /\ \E j \in DOMAIN offers : offers[j] = t
      BY <1>11, <3>2
    <3> QED BY <3>1, <3>2, <3>3
  <2> QED BY <2>5, <2>6
<1>13. \A t \in Offer : \/ AtRunner(t)' = AtRunner(t)
                        \/ /\ \E i \in DOMAIN offers : offers[i] = t
                           /\ AtRunner(t)' = {"offeraccept"} /\ ~Pending(t)'
  BY <1>12, OfferElements
<1> QED BY <1>9, <1>10, <1>12, <1>13 DEF RunnerChannels

-----------------------------------------------------------------------------
(* Every step keeps the life of every offer                                  *)

\* An offer that a step does not touch, except that the broker may forget it.
LEMMA LifeStays ==
  ASSUME NEW t \in Offer, LifeOf(t),
         made'[t[1]] = made[t[1]], taskState'[t] = taskState[t], link'[t[1]] = link[t[1]],
         crashed' = crashed, AtBroker(t)' = AtBroker(t), AtRunner(t)' = AtRunner(t),
         Pending(t)' => Pending(t), tasks'[t] = tasks[t] \/ tasks'[t] = None
  PROVE  LifeOf(t)'
  BY DEF LifeOf, Untouched

\* Offers that settleTasks looks at.
LEMMA SettlesLife ==
  ASSUME ChannelTypeOK, LifeInv, NEW offers \in Seq(Offer), NEW requests \in Seq(Request),
         Settle(offers, requests),
         \A i, j \in DOMAIN offers : offers[i] = offers[j] => i = j,
         \A i \in DOMAIN offers :
           /\ Untouched(offers[i]) /\ AtBroker(offers[i])' = {}
           /\ offers[i][2] <= made[offers[i][1]],
         \A t \in Offer : AtBroker(t)' = AtBroker(t) \/ \E i \in DOMAIN offers : offers[i] = t,
         \A t \in Offer : Pending(t) => \E i \in DOMAIN offers : offers[i] = t,
         made \in [Runner -> Nat],
         BrokerChannels', UNCHANGED <<made, taskState, link, crashed, tasks>>
  PROVE  LifeInv'
<1>1. /\ RunnerChannels' /\ PendingOffersOnce'
      /\ \A t \in Offer :
           \/ AtRunner(t)' = AtRunner(t)
           \/ /\ \E i \in DOMAIN offers : offers[i] = t
              /\ AtRunner(t)' = {"offeraccept"} /\ ~Pending(t)'
      /\ \A t \in Offer : Pending(t)' => \E i \in DOMAIN offers : offers[i] = t
  BY SettleLife DEF LifeInv, Untouched
<1>2. ASSUME NEW t \in Offer PROVE LifeOf(t)'
  <2>1. LifeOf(t)
    BY DEF LifeInv
  <2>2. CASE ~\E i \in DOMAIN offers : offers[i] = t
    <3>1. AtBroker(t)' = AtBroker(t) /\ AtRunner(t)' = AtRunner(t) /\ ~Pending(t)'
      BY <1>1, <2>2
    <3> QED BY <2>1, <3>1, LifeStays
  <2>3. CASE \E i \in DOMAIN offers : offers[i] = t
    <3>1. Untouched(t) /\ AtBroker(t)' = {} /\ t[2] <= made[t[1]]
      BY <2>3
    <3>2. made[t[1]] \in Nat /\ t[2] \in Nat
      BY OfferElements
    <3>3. ~(made'[t[1]] < t[2])
      BY <3>1, <3>2
    <3>4. tasks'[t] = None /\ taskState'[t] = "none"
      BY <3>1 DEF Untouched
    <3>5. \/ AtRunner(t)' = {}
          \/ AtRunner(t)' = {"offeraccept"} /\ ~Pending(t)'
      BY <1>1, <3>1 DEF Untouched
    <3> QED BY <3>1, <3>3, <3>4, <3>5 DEF LifeOf, Untouched, Answers
  <2> QED BY <2>2, <2>3
<1> QED BY <1>1, <1>2 DEF LifeInv

\* Offers that are pending have been made and not been touched.
LEMMA PendingLife ==
  ASSUME LifeInv, made \in [Runner -> Nat], NEW t \in Offer, Pending(t) \/ "offer" \in AtBroker(t)
  PROVE  Untouched(t) /\ t[2] <= made[t[1]]
<1>1. LifeOf(t)
  BY DEF LifeInv
<1>2. made[t[1]] \in Nat /\ t[2] \in Nat
  BY OfferElements
<1> QED BY <1>1, <1>2 DEF LifeOf

\* The requester asks.
LEMMA RequestTaskLife ==
  ASSUME TypeIInv, LifeInv, NEW q \in Request, RequestTask(q), UNCHANGED runnerVars
  PROVE  LifeInv'
<1>1. ChannelTypeOK /\ BrokerTypeOK /\ made \in [Runner -> Nat]
  BY DEF TypeIInv, TypeOK, RunnerTypeOK
<1>2. BrokerChannels' /\ \A t \in Offer : AtBroker(t)' = AtBroker(t)
  BY SameChannels DEF LifeInv, RequestTask
<1>3. UNCHANGED <<made, taskState, link, crashed, tasks>>
  BY DEF runnerVars, RequestTask
<1>4. CASE isDraining
  <2>1. UNCHANGED <<toRunner, pendingTaskOffers>>
    BY <1>4 DEF RequestTask
  <2>2. /\ RunnerChannels' /\ PendingOffersOnce'
        /\ \A t \in Offer : AtRunner(t)' = AtRunner(t) /\ Pending(t)' = Pending(t)
    BY <2>1, SameChannels DEF LifeInv
  <2>3. \A t \in Offer : LifeOf(t)'
    BY <1>2, <1>3, <2>2, LifeStays DEF LifeInv
  <2> QED BY <1>2, <2>2, <2>3 DEF LifeInv
<1>5. CASE ~isDraining
  <2>1. pendingTaskOffers \in Seq(Offer) /\ Append(pendingTaskRequests, q) \in Seq(Request)
    BY <1>1, AppendProperties DEF BrokerTypeOK
  <2>2. PICK offers \in Seq(Offer), requests \in Seq(Request) :
          offers = pendingTaskOffers /\ Settle(offers, requests)
    BY <1>5, <2>1 DEF RequestTask
  <2>3. \A i \in DOMAIN offers : offers[i] \in Offer /\ Pending(offers[i])
    BY <2>2, LenProperties DEF Pending
  <2>4. ASSUME NEW i \in DOMAIN offers
        PROVE  /\ Untouched(offers[i]) /\ AtBroker(offers[i])' = {}
               /\ offers[i][2] <= made[offers[i][1]]
    <3>1. AtBroker(offers[i]) = {}
      BY <2>3 DEF LifeInv, LifeOf
    <3>2. Untouched(offers[i]) /\ offers[i][2] <= made[offers[i][1]]
      BY <1>1, <2>3, PendingLife
    <3> QED BY <1>2, <2>3, <3>1, <3>2
  <2>5. \A t \in Offer : Pending(t) => \E i \in DOMAIN offers : offers[i] = t
    BY <2>2 DEF Pending
  <2>6. \A i, j \in DOMAIN offers : offers[i] = offers[j] => i = j
    BY <2>2 DEF LifeInv, PendingOffersOnce
  <2>7. /\ \A t \in Offer : AtBroker(t)' = AtBroker(t) \/ \E i \in DOMAIN offers : offers[i] = t
        /\ BrokerChannels'
    BY <1>2
  <2> QED BY <1>1, <1>3, <2>2, <2>4, <2>5, <2>6, <2>7, SettlesLife
<1> QED BY <1>4, <1>5

\* An offer comes.
LEMMA HandleOfferLife ==
  ASSUME TypeIInv, LifeInv, NEW r \in Runner, HandleOffer(r), UNCHANGED runnerVars
  PROVE  LifeInv'
<1>1. ChannelTypeOK /\ BrokerTypeOK /\ made \in [Runner -> Nat]
  BY DEF TypeIInv, TypeOK, RunnerTypeOK
<1>0. PICK m : m = Head(toBroker[r])
  OBVIOUS
<1> DEFINE s == pendingTaskOffers
<1>2. /\ toBroker[r] # <<>> /\ m.type = "offer" /\ Settle(Append(s, m.task), pendingTaskRequests)
      /\ toBroker' = [toBroker EXCEPT ![r] = Tail(@)]
      /\ UNCHANGED <<made, taskState, link, crashed, tasks>>
  BY <1>0 DEF HandleOffer, runnerVars
<1>2a. ChannelTypeOK /\ BrokerChannels /\ UNCHANGED link
  BY <1>1, <1>2 DEF LifeInv
<1>3. /\ BrokerChannels'
      /\ \E u \in Offer :
           /\ m.task = u /\ m.type \in AtBroker(u) /\ (m.type = "offer" => AtBroker(u)' = {})
           /\ \A t \in Offer : t # u => AtBroker(t)' = AtBroker(t)
  BY <1>0, <1>2, <1>2a, BrokerTakes
<1>4. PICK u \in Offer :
        /\ m.task = u /\ "offer" \in AtBroker(u) /\ AtBroker(u)' = {}
        /\ \A t \in Offer : t # u => AtBroker(t)' = AtBroker(t)
  BY <1>2, <1>3
<1>5. ~Pending(u) /\ Untouched(u) /\ u[2] <= made[u[1]]
  <2>1. ~Pending(u)
    BY <1>4 DEF LifeInv, LifeOf
  <2> QED BY <1>1, <1>4, <2>1, PendingLife
<1>6. /\ s \in Seq(Offer) /\ pendingTaskRequests \in Seq(Request)
      /\ Len(s) \in Nat /\ DOMAIN s = 1..Len(s)
  <2>1. s \in Seq(Offer) /\ pendingTaskRequests \in Seq(Request)
    BY <1>1 DEF BrokerTypeOK
  <2> QED BY <2>1, LenProperties
<1>7. /\ Append(s, u) \in Seq(Offer)
      /\ DOMAIN Append(s, u) = 1..(Len(s) + 1)
      /\ Append(s, u)[Len(s) + 1] = u
      /\ \A i \in DOMAIN s : Append(s, u)[i] = s[i]
  <2>1. /\ Append(s, u) \in Seq(Offer) /\ Len(Append(s, u)) = Len(s) + 1
        /\ \A i \in 1..Len(s) : Append(s, u)[i] = s[i]
        /\ Append(s, u)[Len(s) + 1] = u
    BY <1>6, AppendProperties
  <2> QED BY <1>6, <2>1, LenProperties
<1>7a. PICK offers : offers = Append(s, u)
  OBVIOUS
<1>8. \A i \in DOMAIN offers : \/ i \in DOMAIN s /\ offers[i] = s[i]
                               \/ i = Len(s) + 1 /\ i \notin DOMAIN s /\ offers[i] = u
  BY <1>6, <1>7, <1>7a
<1>9. \A i \in DOMAIN s : s[i] \in Offer /\ Pending(s[i]) /\ s[i] # u
  <2>1. \A i \in DOMAIN s : s[i] \in Offer
    BY <1>6, LenProperties
  <2> QED BY <1>5, <2>1 DEF Pending
<1>10. \A t \in Offer : Pending(t) \/ t = u => \E i \in DOMAIN offers : offers[i] = t
  <2>1. Len(s) + 1 \in DOMAIN offers /\ \A i \in DOMAIN s : i \in DOMAIN offers
    BY <1>6, <1>7, <1>7a
  <2> QED BY <1>7, <1>7a, <2>1 DEF Pending
<1>11. \A i, j \in DOMAIN offers : offers[i] = offers[j] => i = j
  BY <1>8, <1>9 DEF LifeInv, PendingOffersOnce
<1>12. ASSUME NEW i \in DOMAIN offers
       PROVE  /\ Untouched(offers[i]) /\ AtBroker(offers[i])' = {}
              /\ offers[i][2] <= made[offers[i][1]]
  <2>1. CASE offers[i] = u
    BY <1>4, <1>5, <2>1
  <2>2. CASE offers[i] # u
    <3>1. i \in DOMAIN s /\ offers[i] = s[i] /\ offers[i] \in Offer /\ Pending(offers[i])
      BY <1>8, <1>9, <2>2
    <3>2. AtBroker(offers[i]) = {}
      BY <3>1 DEF LifeInv, LifeOf
    <3>3. Untouched(offers[i]) /\ offers[i][2] <= made[offers[i][1]]
      BY <1>1, <3>1, PendingLife
    <3> QED BY <1>4, <2>2, <3>1, <3>2, <3>3
  <2> QED BY <2>1, <2>2
<1>13. PICK requests \in Seq(Request) : offers \in Seq(Offer) /\ Settle(offers, requests)
  BY <1>2, <1>4, <1>6, <1>7, <1>7a
<1>14. /\ \A t \in Offer : AtBroker(t)' = AtBroker(t) \/ \E i \in DOMAIN offers : offers[i] = t
       /\ \A t \in Offer : Pending(t) => \E i \in DOMAIN offers : offers[i] = t
  BY <1>4, <1>10
<1> QED BY <1>1, <1>2, <1>3, <1>11, <1>12, <1>13, <1>14, SettlesLife

\* The broker gives up a task that it has, and tells the runner.
LEMMA CancelLife ==
  ASSUME ChannelTypeOK, LifeInv, NEW u \in Offer, tasks[u] # None,
         tasks' = [t \in Offer |-> IF t \in {u} THEN None ELSE tasks[t]],
         TellRunner(u[1], [type |-> "cancel", task |-> u]),
         UNCHANGED <<toBroker, link, crashed, pendingTaskOffers, made, taskState>>
  PROVE  LifeInv'
<1>1. /\ BrokerChannels' /\ PendingOffersOnce'
      /\ \A t \in Offer : AtBroker(t)' = AtBroker(t) /\ Pending(t)' = Pending(t)
  BY SameChannels DEF LifeInv
<1>2. LifeOf(u)
  BY DEF LifeInv
<1>3. "offeraccept" \notin AtRunner(u)
  BY <1>2 DEF LifeOf
<1>4. /\ RunnerChannels'
      /\ \A t \in Offer : t # u => AtRunner(t)' = AtRunner(t)
      /\ AtRunner(u)' = AtRunner(u) \/ AtRunner(u)' = AtRunner(u) \cup {"cancel"}
  <2> DEFINE m == [type |-> "cancel", task |-> u]
  <2>1. m \in ToRunner /\ m.type = "cancel" /\ m.task = u
    BY ToRunnerMessages
  <2> HIDE DEF m
  <2>2. TellRunner(u[1], m) /\ ChannelTypeOK /\ RunnerChannels
    BY DEF m, LifeInv
  <2> QED BY <1>3, <2>1, <2>2, RunnerTold
<1>5. ASSUME NEW t \in Offer, t # u PROVE LifeOf(t)'
  BY <1>1, <1>4, <1>5, LifeStays DEF LifeInv
<1>6. LifeOf(u)'
  <2>1. tasks'[u] = None
    OBVIOUS
  <2>2. \A a \in Answers : a \notin AtBroker(u)
    BY <1>2 DEF LifeOf
  <2> QED BY <1>1, <1>2, <1>3, <1>4, <2>1, <2>2 DEF LifeOf, Untouched, Answers
<1> QED BY <1>1, <1>4, <1>5, <1>6 DEF LifeInv

\* A task is cancelled because of its execution, or because it takes too long.
LEMMA CancelsLife ==
  ASSUME TypeIInv, LifeInv, UNCHANGED runnerVars,
         \/ \E q \in Request : CancelTask(q)
         \/ \E t \in Offer : TaskTimeout(t)
  PROVE  LifeInv'
<1>1. ChannelTypeOK /\ BrokerTypeOK /\ RunningIsGranted /\ UNCHANGED <<made, taskState>>
  BY DEF TypeIInv, TypeOK, runnerVars
<1>2. ASSUME NEW q \in Request, CancelTask(q) PROVE LifeInv'
  <2>1. PICK u \in Offer : u = assigned[q]
    BY <1>1, <1>2 DEF CancelTask, RunningIsGranted, BrokerTypeOK
  <2>2. /\ tasks' = [t \in Offer |-> IF t \in {u} THEN None ELSE tasks[t]]
        /\ UNCHANGED <<toBroker, link, crashed, pendingTaskOffers>>
        /\ IF tasks[u] = None THEN UNCHANGED toRunner
                              ELSE TellRunner(u[1], [type |-> "cancel", task |-> u])
    BY <1>2, <2>1 DEF CancelTask, Forget
  <2>3. CASE tasks[u] = None
    <3>1. /\ BrokerChannels' /\ RunnerChannels' /\ PendingOffersOnce'
          /\ \A t \in Offer : /\ AtBroker(t)' = AtBroker(t) /\ AtRunner(t)' = AtRunner(t)
                              /\ Pending(t)' = Pending(t)
      BY <2>2, <2>3, SameChannels DEF LifeInv
    <3>2. \A t \in Offer : tasks'[t] = tasks[t]
      BY <2>2, <2>3
    <3>3. \A t \in Offer : LifeOf(t)'
      BY <1>1, <2>2, <3>1, <3>2, LifeStays DEF LifeInv
    <3> QED BY <3>1, <3>3 DEF LifeInv
  <2>4. CASE tasks[u] # None
    BY <1>1, <2>2, <2>4, CancelLife
  <2> QED BY <2>3, <2>4
<1>3. ASSUME NEW u \in Offer, TaskTimeout(u) PROVE LifeInv'
  <2>1. tasks[u] # None
    BY <1>1, <1>3 DEF TaskTimeout, BrokerTypeOK
  <2>2. /\ tasks' = [t \in Offer |-> IF t \in {u} THEN None ELSE tasks[t]]
        /\ TellRunner(u[1], [type |-> "cancel", task |-> u])
        /\ UNCHANGED <<toBroker, link, crashed, pendingTaskOffers>>
    BY <1>3 DEF TaskTimeout, Forget
  <2> QED BY <1>1, <2>1, <2>2, CancelLife
<1> QED BY <1>2, <1>3

\* A runner answers, or a task ends.
LEMMA HandleAnswerLife ==
  ASSUME TypeIInv, LifeInv, NEW r \in Runner, HandleAnswer(r), UNCHANGED runnerVars
  PROVE  LifeInv'
<1>1. ChannelTypeOK /\ BrokerTypeOK /\ UNCHANGED <<made, taskState>>
  BY DEF TypeIInv, TypeOK, runnerVars
<1>2. /\ toBroker[r] # <<>> /\ link[r] = "open"
      /\ toBroker' = [toBroker EXCEPT ![r] = Tail(@)]
      /\ UNCHANGED <<link, crashed, pendingTaskOffers>>
  BY DEF HandleAnswer
<1>2a. ChannelTypeOK /\ BrokerChannels /\ UNCHANGED link
  BY <1>1, <1>2 DEF LifeInv
<1>3. PICK m : m = Head(toBroker[r])
  OBVIOUS
<1>4. /\ BrokerChannels'
      /\ \E u \in Offer :
           /\ m.task = u /\ u[1] = r /\ m.type \in AtBroker(u)
           /\ AtBroker(u)' \subseteq {"ended"} \cap AtBroker(u)
           /\ AtBroker(u) \subseteq AtBroker(u)' \cup {m.type}
           /\ \A t \in Offer : t # u => AtBroker(t)' = AtBroker(t)
  BY <1>2, <1>2a, <1>3, BrokerTakes
<1>5. PICK u \in Offer :
        /\ m.task = u /\ u[1] = r /\ m.type \in AtBroker(u)
        /\ AtBroker(u)' \subseteq {"ended"} \cap AtBroker(u)
        /\ AtBroker(u) \subseteq AtBroker(u)' \cup {m.type}
        /\ \A t \in Offer : t # u => AtBroker(t)' = AtBroker(t)
  BY <1>4
<1>6. PendingOffersOnce' /\ \A t \in Offer : Pending(t)' = Pending(t)
  BY <1>2, SameChannels DEF LifeInv
<1>7. LifeOf(u)
  BY DEF LifeInv
<1>8. CASE m.type = "accepted" /\ accepting[u] # None /\ RunnerAccepts(u)
  <2>1. PICK q \in Request : q = accepting[u]
    BY <1>1, <1>8 DEF BrokerTypeOK
  <2>2. /\ tasks[u] = None /\ AtRunner(u) = {} /\ taskState[u] \in {"none", "waitingForSettings"}
        /\ u[1] \in crashed \/ taskState[u] # "none" \/ "ended" \in AtBroker(u)'
        /\ ~(made[u[1]] < u[2]) /\ ~Pending(u)
    BY <1>5, <1>7, <1>8 DEF LifeOf, Answers
  <2>3. /\ \/ /\ tasks' = [tasks EXCEPT ![u] = q]
              /\ TellRunner(u[1], [type |-> "settings", task |-> u, request |-> q])
           \/ /\ tasks' = tasks
              /\ TellRunner(u[1], [type |-> "cancel", task |-> u])
           \/ tasks' = [tasks EXCEPT ![u] = q] /\ UNCHANGED toRunner
    BY <1>8, <2>1 DEF RunnerAccepts
  <2>4. ASSUME NEW x \in ToRunner, x.type \in {"cancel", "settings"}, x.task = u, TellRunner(u[1], x)
        PROVE  /\ RunnerChannels'
               /\ \A t \in Offer : t # u => AtRunner(t)' = AtRunner(t)
               /\ AtRunner(u)' = {} \/ AtRunner(u)' = {x.type}
    <3>1. /\ RunnerChannels'
          /\ \A t \in Offer : t # u => AtRunner(t)' = AtRunner(t)
          /\ AtRunner(u)' = AtRunner(u) \/ AtRunner(u)' = AtRunner(u) \cup {x.type}
      BY <1>1, <2>2, <2>4, RunnerTold DEF LifeInv
    <3> QED BY <2>2, <3>1
  <2>5. /\ RunnerChannels'
        /\ \A t \in Offer : t # u => AtRunner(t)' = AtRunner(t) /\ tasks'[t] = tasks[t]
        /\ \/ tasks'[u] = q /\ AtRunner(u)' \subseteq {"settings"}
           \/ tasks'[u] = None /\ AtRunner(u)' \subseteq {"cancel"}
    <3> DEFINE settings == [type |-> "settings", task |-> u, request |-> q]
               cancel == [type |-> "cancel", task |-> u]
    <3>1. /\ settings \in ToRunner /\ settings.type = "settings" /\ settings.task = u
          /\ cancel \in ToRunner /\ cancel.type = "cancel" /\ cancel.task = u
      BY ToRunnerMessages
    <3> HIDE DEF settings, cancel
    <3>2. CASE tasks' = [tasks EXCEPT ![u] = q] /\ TellRunner(u[1], settings)
      BY <1>1, <2>4, <3>1, <3>2 DEF BrokerTypeOK
    <3>3. CASE tasks' = tasks /\ TellRunner(u[1], cancel)
      BY <2>2, <2>4, <3>1, <3>3
    <3>4. CASE tasks' = [tasks EXCEPT ![u] = q] /\ UNCHANGED toRunner
      BY <1>1, <2>2, <3>4, SameChannels DEF BrokerTypeOK, LifeInv
    <3> QED BY <2>3, <3>2, <3>3, <3>4 DEF settings, cancel
  <2>6. LifeOf(u)'
    BY <1>1, <1>2, <1>5, <1>6, <2>2, <2>5 DEF LifeOf, Untouched, Answers
  <2>7. ASSUME NEW t \in Offer, t # u PROVE LifeOf(t)'
    BY <1>1, <1>2, <1>5, <1>6, <2>5, <2>7, LifeStays DEF LifeInv
  <2> QED BY <1>4, <1>6, <2>5, <2>6, <2>7 DEF LifeInv
<1>9. CASE /\ UNCHANGED toRunner /\ m.type # "offer"
           /\ \/ m.type # "ended" /\ tasks' = tasks
              \/ m.type = "ended" /\ tasks' = [t \in Offer |-> IF t \in {u} THEN None ELSE tasks[t]]
  <2>1. RunnerChannels' /\ \A t \in Offer : AtRunner(t)' = AtRunner(t)
    BY <1>9, SameChannels DEF LifeInv
  <2>2. LifeOf(u)'
    <3>1. /\ tasks'[u] = tasks[u] \/ tasks'[u] = None
          /\ m.type = "ended" => tasks'[u] = None
      BY <1>7, <1>9 DEF LifeOf
    <3>2. "ended" \in AtBroker(u) => "ended" \in AtBroker(u)' \/ tasks'[u] = None
      BY <1>5, <3>1
    <3>3. /\ \A a \in Answers : a \notin AtBroker(u)' /\ a \in {"accepted", "rejected", "deferred"}
          /\ "offer" \notin AtBroker(u)' /\ "accepted" \notin AtBroker(u)'
          /\ AtBroker(u) = {} => AtBroker(u)' = {}
      BY <1>5 DEF Answers
    <3>4. /\ AtRunner(u)' = AtRunner(u) /\ Pending(u)' = Pending(u) /\ taskState'[u] = taskState[u]
          /\ made'[u[1]] = made[u[1]] /\ link'[u[1]] = link[u[1]] /\ crashed' = crashed
      BY <1>1, <1>2, <1>6, <2>1
    <3> QED BY <1>7, <3>1, <3>2, <3>3, <3>4 DEF LifeOf, Untouched
  <2>3. ASSUME NEW t \in Offer, t # u PROVE LifeOf(t)'
    BY <1>1, <1>2, <1>5, <1>6, <1>9, <2>1, <2>3, LifeStays DEF LifeInv
  <2> QED BY <1>4, <1>6, <2>1, <2>2, <2>3 DEF LifeInv
<1> QED BY <1>3, <1>5, <1>8, <1>9 DEF HandleAnswer, GiveUp, Defer, Forget

\* Timers that concern neither offers nor tasks.
LEMMA TimersLife ==
  ASSUME TypeIInv, LifeInv, UNCHANGED runnerVars,
         \/ \E q \in Request : RequestTimeout(q)
         \/ \E t \in Offer : AcceptTimeout(t)
  PROVE  LifeInv'
<1>1. /\ UNCHANGED <<toRunner, toBroker, link, crashed, pendingTaskOffers, tasks>>
      /\ UNCHANGED <<made, taskState>>
  BY DEF RequestTimeout, AcceptTimeout, GiveUp, channelVars, runnerVars
<1>2. /\ BrokerChannels' /\ RunnerChannels' /\ PendingOffersOnce'
      /\ \A t \in Offer : /\ AtBroker(t)' = AtBroker(t) /\ AtRunner(t)' = AtRunner(t)
                          /\ Pending(t)' = Pending(t)
  BY <1>1, SameChannels DEF LifeInv
<1>3. \A t \in Offer : LifeOf(t)'
  BY <1>1, <1>2, LifeStays DEF LifeInv
<1> QED BY <1>2, <1>3 DEF LifeInv

\* A runner registers: nothing was said before.
LEMMA RegisterLife ==
  ASSUME TypeIInv, LifeInv, NEW r \in Runner, Register(r), UNCHANGED runnerVars
  PROVE  LifeInv'
<1>1. /\ link[r] = "new" /\ link' = [link EXCEPT ![r] = "open"]
      /\ toRunner' = [toRunner EXCEPT ![r] = <<[type |-> "registered"]>>]
      /\ UNCHANGED <<crashed, toBroker, pendingTaskOffers, tasks, made, taskState>>
  BY DEF Register, brokerVars, runnerVars
<1>2. /\ link'[r] = "open" /\ \A x \in Runner : x # r => link'[x] = link[x]
      /\ toRunner'[r] = <<[type |-> "registered"]>>
      /\ \A x \in Runner : x # r => toRunner'[x] = toRunner[x]
  BY <1>1 DEF TypeIInv, TypeOK, ChannelTypeOK
<1>3. PendingOffersOnce' /\ \A t \in Offer : Pending(t)' = Pending(t)
  BY <1>1, SameChannels DEF LifeInv
<1>4. BrokerChannels' /\ \A t \in Offer : AtBroker(t)' = AtBroker(t)
  BY <1>1, <1>2 DEF LifeInv, BrokerChannels, AtBroker
<1>5. /\ InTurn(toRunner'[r])
      /\ \A t \in Offer : TypesOf(toRunner'[r], t) = {}
  <2> DEFINE m == [type |-> "registered"]
  <2>1. \A t \in Offer : ~About(m, t)
    BY DEF About
  <2> HIDE DEF m
  <2>2. toRunner'[r] = <<m>>
    BY <1>2 DEF m
  <2> QED BY <2>1, <2>2, OneInTurn
<1>6. RunnerChannels'
  <2>1. Own(toRunner'[r], r)
    BY <1>5 DEF Own
  <2> QED BY <1>2, <1>5, <2>1 DEF LifeInv, RunnerChannels
<1>7. ASSUME NEW t \in Offer PROVE LifeOf(t)'
  <2>1. t[1] \in Runner /\ LifeOf(t)
    BY OfferElements DEF LifeInv
  <2>2. CASE t[1] # r
    <3>1. AtRunner(t)' = AtRunner(t) /\ link'[t[1]] = link[t[1]]
      BY <1>2, <2>1, <2>2 DEF AtRunner
    <3> QED BY <1>1, <1>3, <1>4, <2>1, <3>1, LifeStays
  <2>3. CASE t[1] = r
    <3>1. AtRunner(t)' = {}
      BY <1>5, <2>3 DEF AtRunner
    <3>2. tasks[t] = None /\ "accepted" \notin AtBroker(t)
      BY <1>1, <2>1, <2>3 DEF LifeOf
    <3>3. Untouched(t) => Untouched(t)'
      BY <1>1, <3>1 DEF Untouched
    <3> QED BY <1>1, <1>3, <1>4, <2>1, <3>1, <3>2, <3>3 DEF LifeOf
  <2> QED BY <2>2, <2>3
<1> QED BY <1>3, <1>4, <1>6, <1>7 DEF LifeInv

\* A connection is removed, with the offers and the tasks of its runner.
LEMMA DeregisterLife ==
  ASSUME TypeIInv, LifeInv, NEW r \in Runner, Deregister(r), UNCHANGED runnerVars
  PROVE  LifeInv'
<1> DEFINE I == {i \in DOMAIN pendingTaskOffers : pendingTaskOffers[i][1] # r}
<1>1. /\ link' = [link EXCEPT ![r] = "closed"]
      /\ pendingTaskOffers' = SelectAt(pendingTaskOffers, I)
      /\ tasks' = [t \in Offer |-> IF t \in {u \in Offer : u[1] = r /\ tasks[u] # None} THEN None
                                                                                     ELSE tasks[t]]
      /\ TellRunner(r, [type |-> "close"])
      /\ toBroker' = [toBroker EXCEPT ![r] = <<>>]
      /\ UNCHANGED <<crashed, made, taskState>>
  BY DEF Deregister, Forget, runnerVars
<1>2. /\ link' = [link EXCEPT ![r] = "closed"] /\ \A x \in Runner : x # r => link'[x] = link[x]
      /\ toBroker'[r] = <<>> /\ \A x \in Runner : x # r => toBroker'[x] = toBroker[x]
      /\ ChannelTypeOK /\ pendingTaskOffers \in Seq(Offer)
  BY <1>1 DEF TypeIInv, TypeOK, ChannelTypeOK, BrokerTypeOK
<1>3. RunnerChannels' /\ \A t \in Offer : AtRunner(t)' = AtRunner(t)
  <2> DEFINE m == [type |-> "close"]
  <2>1. m \in ToRunner /\ m.type = "close"
    BY ToRunnerMessages
  <2>2. \A x \in Runner : toRunner'[x] = toRunner[x] \/ toRunner'[x] = Posted(x, <<m>>)
    BY <1>1, <1>2 DEF TellRunner, ChannelTypeOK
  <2> HIDE DEF m
  <2> QED BY <1>2, <2>1, <2>2, RunnersToldNothing DEF LifeInv
<1>4. /\ PendingOffersOnce'
      /\ \A t \in Offer : Pending(t)' => Pending(t) /\ t[1] # r
  <2>1. I \in SUBSET DOMAIN pendingTaskOffers
    OBVIOUS
  <2>2. \A i \in I : pendingTaskOffers[i][1] # r /\ i \in DOMAIN pendingTaskOffers
    OBVIOUS
  <2> HIDE DEF I
  <2>3. \A k \in DOMAIN pendingTaskOffers' : \E i \in I : pendingTaskOffers'[k] = pendingTaskOffers[i]
    BY <1>1, <1>2, <2>1, SelectAtType
  <2>4. \A a, b \in DOMAIN pendingTaskOffers' : pendingTaskOffers'[a] = pendingTaskOffers'[b] => a = b
    BY <1>1, <1>2, <2>1, SelectAtInjective DEF LifeInv, PendingOffersOnce
  <2> QED BY <2>2, <2>3, <2>4 DEF PendingOffersOnce, Pending
<1>5. /\ \A t \in Offer : t[1] # r => AtBroker(t)' = AtBroker(t)
      /\ \A t \in Offer : t[1] = r => AtBroker(t)' = {}
  BY <1>2, OfferElements, OneInTurn DEF AtBroker
<1>6. BrokerChannels'
  <2>1. InTurn(toBroker'[r]) /\ Own(toBroker'[r], r)
    BY <1>2, OneInTurn DEF Own
  <2> QED BY <1>2, <2>1 DEF LifeInv, BrokerChannels
<1>7. ASSUME NEW t \in Offer PROVE LifeOf(t)'
  <2>1. t[1] \in Runner /\ LifeOf(t)
    BY OfferElements DEF LifeInv
  <2>2. CASE t[1] # r
    BY <1>1, <1>2, <1>3, <1>4, <1>5, <2>1, <2>2, LifeStays
  <2>3. CASE t[1] = r
    <3>1. AtBroker(t)' = {} /\ ~Pending(t)' /\ tasks'[t] = None
      BY <1>1, <1>4, <1>5, <2>3
    <3> QED BY <1>1, <1>3, <2>1, <3>1 DEF LifeOf, Untouched, Answers
  <2> QED BY <2>2, <2>3
<1> QED BY <1>3, <1>4, <1>6, <1>7 DEF LifeInv

\* The broker tells everybody that it drains.
LEMMA StartDrainingLife ==
  ASSUME TypeIInv, LifeInv, StartDraining, UNCHANGED runnerVars
  PROVE  LifeInv'
<1>1. /\ \A r \in Runner : toRunner'[r] = Posted(r, <<[type |-> "drain"]>>)
      /\ UNCHANGED <<toBroker, link, crashed, pendingTaskOffers, tasks, made, taskState>>
  BY DEF StartDraining, runnerVars
<1>2. RunnerChannels' /\ \A t \in Offer : AtRunner(t)' = AtRunner(t)
  <2> DEFINE m == [type |-> "drain"]
  <2>1. m \in ToRunner /\ m.type = "drain"
    BY ToRunnerMessages
  <2>2. \A x \in Runner : toRunner'[x] = Posted(x, <<m>>)
    BY <1>1
  <2> HIDE DEF m
  <2> QED BY <2>1, <2>2, RunnersToldNothing DEF LifeInv, TypeIInv, TypeOK
<1>3. /\ BrokerChannels' /\ PendingOffersOnce'
      /\ \A t \in Offer : AtBroker(t)' = AtBroker(t) /\ Pending(t)' = Pending(t)
  BY <1>1, SameChannels DEF LifeInv
<1>4. \A t \in Offer : LifeOf(t)'
  BY <1>1, <1>2, <1>3, LifeStays DEF LifeInv
<1> QED BY <1>2, <1>3, <1>4 DEF LifeInv

\* Every step of the broker.
LEMMA BrokerStepLife ==
  ASSUME TypeIInv, LifeInv, BrokerStep, UNCHANGED runnerVars
  PROVE  LifeInv'
  BY RequestTaskLife, CancelsLife, TimersLife, HandleAnswerLife, HandleOfferLife, RegisterLife,
     DeregisterLife, StartDrainingLife DEF BrokerStep

\* A runner makes its next c offers, after a message that ends the tasks E: the broker
\* hears of both.
LEMMA OffersHeard ==
  ASSUME ChannelTypeOK, SlotsIInv, LifeInv, NEW r \in Runner, NEW c \in Nat,
         NEW before \in Seq(ToBroker), NEW E \in SUBSET Offer,
         InTurn(before), \A t \in Offer : TypesOf(before, t) = IF t \in E THEN {"ended"} ELSE {},
         \A t \in E : t[1] = r /\ "offer" \notin AtBroker(t) /\ t[2] <= made[r],
         \A i \in 1..c : <<r, made[r] + i>> \in Offer,
         made' = [made EXCEPT ![r] = @ + c], TellBroker(r, before \o OffersFrom(r, c)),
         UNCHANGED link
  PROVE  /\ BrokerChannels'
         /\ \A t \in Offer : t \notin E =>
              \/ /\ AtBroker(t)' = AtBroker(t)
                 /\ made'[t[1]] < t[2] => made[t[1]] < t[2]
              \/ /\ AtBroker(t)' = {"offer"}
                 /\ made[t[1]] < t[2] /\ ~(made'[t[1]] < t[2])
         /\ \A t \in E :
              /\ AtBroker(t)' = IF link[r] = "open" THEN AtBroker(t) \cup {"ended"} ELSE AtBroker(t)
              /\ ~(made'[r] < t[2])
<1>2. made \in [Runner -> Nat] /\ made[r] \in Nat
  BY DEF SlotsIInv
<1>3. PICK offers : offers = OffersFrom(r, c)
  OBVIOUS
<1>4. /\ offers \in Seq(ToBroker)
      /\ DOMAIN offers = 1..c
      /\ \A i \in 1..c : offers[i].type = "offer" /\ offers[i].task = <<r, made[r] + i>>
  BY <1>3, OffersFromType DEF OffersFrom
<1>5. \A t \in Offer : \A i \in 1..c : About(offers[i], t) <=> t = <<r, made[r] + i>>
  BY <1>4 DEF About
<1>6. InTurn(offers)
  <2> SUFFICES ASSUME NEW t \in Offer, NEW i \in 1..c, NEW j \in 1..c,
                      i < j, About(offers[i], t), About(offers[j], t)
               PROVE  FALSE
    BY <1>4 DEF InTurn
  <2>1. <<r, made[r] + i>> = <<r, made[r] + j>>
    BY <1>5
  <2>2. made[r] + i = made[r] + j
    BY <2>1
  <2> QED BY <1>2, <2>2
<1>7. ASSUME NEW t \in Offer
      PROVE  /\ TypesOf(offers, t) # {} =>
                  /\ t[1] = r /\ made[r] < t[2] /\ t[2] <= made[r] + c
                  /\ TypesOf(offers, t) = {"offer"}
             /\ t[1] = r /\ made[r] < t[2] /\ t[2] <= made[r] + c => TypesOf(offers, t) = {"offer"}
  <2>1. t[2] \in Nat
    BY OfferElements
  <2>2. \A i \in 1..c : About(offers[i], t) =>
          t[1] = r /\ made[r] < t[2] /\ t[2] <= made[r] + c /\ offers[i].type = "offer"
    BY <1>2, <1>4, <1>5
  <2>3. TypesOf(offers, t) # {} =>
          /\ t[1] = r /\ made[r] < t[2] /\ t[2] <= made[r] + c
          /\ TypesOf(offers, t) = {"offer"}
    BY <1>4, <2>2 DEF TypesOf
  <2>4. ASSUME t[1] = r, made[r] < t[2], t[2] <= made[r] + c PROVE TypesOf(offers, t) = {"offer"}
    <3>1. t[2] - made[r] \in 1..c /\ made[r] + (t[2] - made[r]) = t[2]
      BY <1>2, <2>1, <2>4
    <3>2. t = <<r, t[2]>>
      BY <2>4, OfferElements
    <3>3. About(offers[t[2] - made[r]], t)
      BY <1>5, <3>1, <3>2
    <3>4. TypesOf(offers, t) # {}
      BY <1>4, <3>1, <3>3 DEF TypesOf
    <3> QED BY <2>3, <3>4
  <2> QED BY <2>3, <2>4
<1>8. PICK ms : ms = before \o offers
  OBVIOUS
<1>9. /\ ms \in Seq(ToBroker) /\ InTurn(ms)
      /\ \A t \in Offer : TypesOf(ms, t) = TypesOf(before, t) \cup TypesOf(offers, t)
  <2>1. ms \in Seq(ToBroker)
    BY <1>4, <1>8, ConcatProperties
  <2>2. ASSUME NEW t \in Offer, t \in E PROVE TypesOf(offers, t) = {}
    <3>1. t[2] \in Nat /\ t[2] <= made[r]
      BY <2>2, OfferElements
    <3>2. ~(made[r] < t[2])
      BY <1>2, <3>1
    <3> QED BY <1>7, <3>2
  <2>3. \A t \in Offer : \/ TypesOf(before, t) = {}
                         \/ TypesOf(offers, t) = {}
                         \/ TypesOf(before, t) \cap Begins = {} /\ TypesOf(offers, t) \subseteq Ends
    BY <2>2
  <2>4. /\ InTurn(before \o offers)
        /\ \A t \in Offer : TypesOf(before \o offers, t) = TypesOf(before, t) \cup TypesOf(offers, t)
    BY <1>4, <1>6, <2>3, ConcatInTurn
  <2> QED BY <1>8, <2>1, <2>4
<1>10. ASSUME NEW t \in Offer, t[1] # r PROVE TypesOf(ms, t) = {}
  BY <1>7, <1>9, <1>10
<1>11. Own(ms, r)
  BY <1>10 DEF Own
<1>12. ASSUME NEW t \in Offer, TypesOf(offers, t) # {} PROVE AtBroker(t) = {}
  BY <1>7, <1>12 DEF LifeInv, LifeOf
<1>13. \A t \in Offer : \/ TypesOf(ms, t) = {}
                        \/ AtBroker(t) = {}
                        \/ "offer" \notin AtBroker(t) /\ TypesOf(ms, t) \subseteq {"ended"}
  BY <1>9, <1>12
<1>14. /\ BrokerChannels'
       /\ \A t \in Offer :
            AtBroker(t)' = IF link[r] = "open" THEN AtBroker(t) \cup TypesOf(ms, t) ELSE AtBroker(t)
  <2>1. TellBroker(r, ms) /\ BrokerChannels
    BY <1>3, <1>8 DEF LifeInv
  <2> QED BY <1>9, <1>11, <1>13, <2>1, BrokerHears
<1>15. /\ made'[r] = made[r] + c /\ made'[r] \in Nat
       /\ \A x \in Runner : x # r => made'[x] = made[x]
  BY <1>2
<1>16. ASSUME NEW t \in Offer, t \notin E
       PROVE  \/ /\ AtBroker(t)' = AtBroker(t)
                 /\ made'[t[1]] < t[2] => made[t[1]] < t[2]
              \/ /\ AtBroker(t)' = {"offer"}
                 /\ made[t[1]] < t[2] /\ ~(made'[t[1]] < t[2])
  <2>1. t[1] \in Runner /\ t[2] \in Nat
    BY OfferElements
  <2>2. TypesOf(ms, t) = TypesOf(offers, t)
    BY <1>9, <1>16
  <2>3. made'[t[1]] < t[2] => made[t[1]] < t[2]
    BY <1>2, <1>15, <2>1
  <2>4. CASE TypesOf(offers, t) = {} \/ link[r] # "open"
    BY <1>14, <2>2, <2>3, <2>4
  <2>5. CASE TypesOf(offers, t) # {} /\ link[r] = "open"
    <3>1. /\ t[1] = r /\ made[r] < t[2] /\ t[2] <= made[r] + c
          /\ TypesOf(offers, t) = {"offer"} /\ AtBroker(t) = {}
      BY <1>7, <1>12, <2>5
    <3>2. ~(made'[t[1]] < t[2])
      BY <1>2, <1>15, <2>1, <3>1
    <3> QED BY <1>14, <2>2, <2>5, <3>1, <3>2
  <2> QED BY <2>4, <2>5
<1>17. ASSUME NEW t \in E
       PROVE  /\ AtBroker(t)' = IF link[r] = "open" THEN AtBroker(t) \cup {"ended"} ELSE AtBroker(t)
              /\ ~(made'[r] < t[2])
  <2>1. t[2] \in Nat /\ t[2] <= made[r]
    BY OfferElements
  <2>2. TypesOf(offers, t) = {} /\ ~(made'[r] < t[2])
    <3>1. ~(made[r] < t[2]) /\ ~(made'[r] < t[2])
      BY <1>2, <1>15, <2>1
    <3> QED BY <1>7, <3>1
  <2>3. TypesOf(ms, t) = {"ended"}
    BY <1>9, <2>2
  <2> QED BY <1>14, <2>2, <2>3
<1> QED BY <1>14, <1>16, <1>17

\* An offer of a runner that makes offers, unless it is one of a task that ends.
LEMMA OfferedLife ==
  ASSUME NEW t \in Offer, LifeOf(t),
         taskState'[t] = taskState[t], link'[t[1]] = link[t[1]], crashed' = crashed,
         tasks'[t] = tasks[t], AtRunner(t)' = AtRunner(t), Pending(t)' = Pending(t),
         \/ AtBroker(t)' = AtBroker(t) /\ (made'[t[1]] < t[2] => made[t[1]] < t[2])
         \/ AtBroker(t)' = {"offer"} /\ made[t[1]] < t[2] /\ ~(made'[t[1]] < t[2])
  PROVE  LifeOf(t)'
<1>1. CASE AtBroker(t)' = AtBroker(t) /\ (made'[t[1]] < t[2] => made[t[1]] < t[2])
  BY <1>1 DEF LifeOf, Untouched
<1>2. CASE AtBroker(t)' = {"offer"} /\ made[t[1]] < t[2] /\ ~(made'[t[1]] < t[2])
  <2>1. Untouched(t) /\ ~Pending(t)
    BY <1>2 DEF LifeOf
  <2>2. Untouched(t)' /\ ~Pending(t)' /\ tasks'[t] = None /\ taskState'[t] = "none" /\ AtRunner(t)' = {}
    BY <2>1 DEF Untouched
  <2> QED BY <1>2, <2>2 DEF LifeOf, Answers
<1> QED BY <1>1, <1>2

\* finishTask, when the broker is told of the end or has forgotten the task.
LEMMA FinishTaskLife ==
  ASSUME TypeIInv, LifeInv, NEW u \in Offer, taskState[u] # "none",
         NEW before \in {<<>>, <<[type |-> "ended", task |-> u]>>}, FinishTask(u, before),
         before = <<>> => tasks[u] = None /\ "accepted" \notin AtBroker(u),
         RunnerChannels', AtRunner(u)' \subseteq AtRunner(u),
         \A t \in Offer : t # u => AtRunner(t)' = AtRunner(t),
         UNCHANGED <<link, crashed, tasks, pendingTaskOffers>>
  PROVE  LifeInv'
<1>1. /\ ChannelTypeOK /\ SlotsIInv /\ u[1] \in Runner
      /\ taskState \in [Offer -> TaskStatus \cup {"none"}] /\ made[u[1]] \in Nat /\ u[2] \in Nat
  BY OfferElements DEF TypeIInv, TypeOK, SlotsIInv
<1>2. LifeOf(u)
  BY DEF LifeInv
<1>3. /\ ~(made[u[1]] < u[2]) /\ "offer" \notin AtBroker(u) /\ ~Pending(u)
      /\ "offeraccept" \notin AtRunner(u)
  BY <1>2 DEF LifeOf, Untouched
<1>4. PICK E \in SUBSET {u} : E = IF before = <<>> THEN {} ELSE {u}
  OBVIOUS
<1>5. /\ before \in Seq(ToBroker) /\ InTurn(before)
      /\ \A t \in Offer : TypesOf(before, t) = IF t \in E THEN {"ended"} ELSE {}
  <2> DEFINE m == [type |-> "ended", task |-> u]
  <2>1. m \in ToBroker /\ m.type = "ended" /\ \A t \in Offer : About(m, t) <=> t = u
    BY ToBrokerMessages DEF About
  <2>2. before = <<>> \/ before = <<m>>
    OBVIOUS
  <2> HIDE DEF m
  <2>3. <<>> # <<m>> /\ <<>> \in Seq(ToBroker) /\ <<m>> \in Seq(ToBroker)
    BY <2>1
  <2> QED BY <1>4, <2>1, <2>2, <2>3, OneInTurn
<1>6. PICK f : f = [taskState EXCEPT ![u] = "none"]
  OBVIOUS
<1>7. /\ taskState'[u] = "none" /\ \A t \in Offer : t # u => taskState'[t] = taskState[t]
      /\ SendOffers(u[1], f, before)
  BY <1>1, <1>6 DEF FinishTask
<1>8. \A t \in E : t[1] = u[1] /\ "offer" \notin AtBroker(t) /\ t[2] <= made[u[1]]
  <2>1. u[2] <= made[u[1]]
    BY <1>1, <1>3
  <2> QED BY <1>3, <2>1
<1>9. PICK r \in Runner : r = u[1]
  BY <1>1
<1>10. /\ BrokerChannels'
       /\ \A t \in Offer : t \notin E =>
            \/ /\ AtBroker(t)' = AtBroker(t)
               /\ made'[t[1]] < t[2] => made[t[1]] < t[2]
            \/ /\ AtBroker(t)' = {"offer"}
               /\ made[t[1]] < t[2] /\ ~(made'[t[1]] < t[2])
       /\ \A t \in E :
            /\ AtBroker(t)' = IF link[r] = "open" THEN AtBroker(t) \cup {"ended"} ELSE AtBroker(t)
            /\ ~(made'[r] < t[2])
  <2>1. PICK c \in Nat : /\ \A i \in 1..c : <<r, made[r] + i>> \in Offer
                         /\ made' = [made EXCEPT ![r] = @ + c]
                         /\ TellBroker(r, before \o OffersFrom(r, c))
    BY <1>1, <1>7, <1>9, SendOffersMakes
  <2>2. E \in SUBSET Offer /\ \A t \in E : t[1] = r /\ "offer" \notin AtBroker(t) /\ t[2] <= made[r]
    BY <1>8, <1>9
  <2> QED BY <1>1, <1>5, <2>1, <2>2, OffersHeard
<1>11. PendingOffersOnce' /\ \A t \in Offer : Pending(t)' = Pending(t)
  BY SameChannels DEF LifeInv
<1>12. ASSUME NEW t \in Offer, t # u PROVE LifeOf(t)'
  <2>1. t \notin E /\ LifeOf(t)
    BY <1>12 DEF LifeInv
  <2> QED BY <1>7, <1>10, <1>11, <1>12, <2>1, OfferedLife
<1>13. CASE before = <<>>
  <2>1. AtBroker(u)' = AtBroker(u) /\ ~(made'[u[1]] < u[2])
    BY <1>3, <1>4, <1>10, <1>13
  <2>2. LifeOf(u)'
    BY <1>2, <1>3, <1>7, <1>11, <1>13, <2>1 DEF LifeOf
  <2> QED BY <1>10, <1>11, <1>12, <2>2 DEF LifeInv
<1>14. CASE before # <<>>
  <2>1. /\ AtBroker(u)' = IF link[u[1]] = "open" THEN AtBroker(u) \cup {"ended"} ELSE AtBroker(u)
        /\ ~(made'[u[1]] < u[2])
    BY <1>4, <1>9, <1>10, <1>14
  <2>2. /\ \A a \in Answers : a \in AtBroker(u)' => a \in AtBroker(u)
        /\ "offer" \notin AtBroker(u)' /\ ("accepted" \in AtBroker(u)' => "accepted" \in AtBroker(u))
        /\ link[u[1]] = "open" => "ended" \in AtBroker(u)'
    BY <1>3, <2>1 DEF Answers
  <2>3. LifeOf(u)'
    BY <1>2, <1>3, <1>7, <1>11, <2>1, <2>2 DEF LifeOf
  <2> QED BY <1>10, <1>11, <1>12, <2>3 DEF LifeInv
<1> QED BY <1>13, <1>14

\* The timer of a runner that makes offers.
LEMMA OfferTickLife ==
  ASSUME TypeIInv, LifeInv, NEW r \in Runner, OfferTick(r), UNCHANGED brokerVars
  PROVE  LifeInv'
<1>1. /\ ChannelTypeOK /\ SlotsIInv
      /\ UNCHANGED <<link, crashed, toRunner, taskState, tasks, pendingTaskOffers>>
  BY DEF TypeIInv, TypeOK, OfferTick, brokerVars
<1>2. PICK c \in Nat : /\ \A i \in 1..c : <<r, made[r] + i>> \in Offer
                       /\ made' = [made EXCEPT ![r] = @ + c]
                       /\ TellBroker(r, <<>> \o OffersFrom(r, c))
  BY <1>1, SendOffersMakes DEF OfferTick
<1>3. PICK before \in Seq(ToBroker), E \in SUBSET Offer : before = <<>> /\ E = {}
  <2>1. <<>> \in Seq(ToBroker) /\ {} \in SUBSET Offer
    OBVIOUS
  <2> QED BY <2>1
<1>4. /\ InTurn(before) /\ \A t \in Offer : TypesOf(before, t) = IF t \in E THEN {"ended"} ELSE {}
      /\ TellBroker(r, before \o OffersFrom(r, c))
  BY <1>2, <1>3, OneInTurn
<1>5. /\ BrokerChannels'
      /\ \A t \in Offer :
           \/ /\ AtBroker(t)' = AtBroker(t)
              /\ made'[t[1]] < t[2] => made[t[1]] < t[2]
           \/ /\ AtBroker(t)' = {"offer"}
              /\ made[t[1]] < t[2] /\ ~(made'[t[1]] < t[2])
  BY <1>1, <1>2, <1>3, <1>4, OffersHeard
<1>6. /\ RunnerChannels' /\ PendingOffersOnce'
      /\ \A t \in Offer : AtRunner(t)' = AtRunner(t) /\ Pending(t)' = Pending(t)
  BY <1>1, SameChannels DEF LifeInv
<1>7. \A t \in Offer : LifeOf(t)'
  BY <1>1, <1>5, <1>6, OfferedLife DEF LifeInv
<1> QED BY <1>5, <1>6, <1>7 DEF LifeInv

\* The one offer of a launcher.
LEMMA LauncherOffersLife ==
  ASSUME TypeIInv, LifeInv, NEW r \in Runner, LauncherOffers(r), UNCHANGED brokerVars
  PROVE  LifeInv'
<1>1. /\ ChannelTypeOK /\ SlotsIInv /\ made[r] \in Nat /\ MaxOffers[r] \in Nat /\ made[r] < MaxOffers[r]
      /\ UNCHANGED <<link, crashed, toRunner, taskState, tasks, pendingTaskOffers>>
  BY DEF TypeIInv, TypeOK, SlotsIInv, LauncherOffers, brokerVars
<1>2. PICK c \in Nat : c = 1
  OBVIOUS
<1>3. PICK before \in Seq(ToBroker), E \in SUBSET Offer : before = <<>> /\ E = {}
  <2>1. <<>> \in Seq(ToBroker) /\ {} \in SUBSET Offer
    OBVIOUS
  <2> QED BY <2>1
<1>4. /\ \A i \in 1..c : <<r, made[r] + i>> \in Offer
      /\ made' = [made EXCEPT ![r] = @ + c]
      /\ TellBroker(r, before \o OffersFrom(r, c))
  <2>1. <<r, made[r] + 1>> \in Offer
    BY <1>1 DEF Offer
  <2>2. before \o OffersFrom(r, c) = <<[type |-> "offer", task |-> <<r, made[r] + 1>>]>>
    <3>1. PICK m : m = [type |-> "offer", task |-> <<r, made[r] + 1>>]
      OBVIOUS
    <3>2. OffersFrom(r, c) = <<m>>
      BY <1>2, <3>1 DEF OffersFrom
    <3>3. <<>> \o <<m>> = <<m>>
      OBVIOUS
    <3> QED BY <1>3, <3>1, <3>2, <3>3
  <2>3. \A i \in 1..c : i = 1
    BY <1>2
  <2>4. made' = [made EXCEPT ![r] = @ + c]
    BY <1>2 DEF LauncherOffers
  <2>5. TellBroker(r, before \o OffersFrom(r, c))
    BY <2>2 DEF LauncherOffers
  <2> QED BY <2>1, <2>3, <2>4, <2>5
<1>5. InTurn(before) /\ \A t \in Offer : TypesOf(before, t) = IF t \in E THEN {"ended"} ELSE {}
  BY <1>3, OneInTurn
<1>6. /\ BrokerChannels'
      /\ \A t \in Offer :
           \/ /\ AtBroker(t)' = AtBroker(t)
              /\ made'[t[1]] < t[2] => made[t[1]] < t[2]
           \/ /\ AtBroker(t)' = {"offer"}
              /\ made[t[1]] < t[2] /\ ~(made'[t[1]] < t[2])
  BY <1>1, <1>3, <1>4, <1>5, OffersHeard
<1>7. /\ RunnerChannels' /\ PendingOffersOnce'
      /\ \A t \in Offer : AtRunner(t)' = AtRunner(t) /\ Pending(t)' = Pending(t)
  BY <1>1, SameChannels DEF LifeInv
<1>8. \A t \in Offer : LifeOf(t)'
  BY <1>1, <1>6, <1>7, OfferedLife DEF LifeInv
<1> QED BY <1>6, <1>7, <1>8 DEF LifeInv

\* A task ends at its runner, or takes too long there.
LEMMA TaskEndsLife ==
  ASSUME TypeIInv, LifeInv, NEW u \in Offer, ExecutionEnds(u) \/ TaskTimedOut(u),
         UNCHANGED brokerVars
  PROVE  LifeInv'
<1>1. /\ taskState \in [Offer -> TaskStatus \cup {"none"}] /\ LifeOf(u)
      /\ UNCHANGED <<link, crashed, toRunner, tasks, pendingTaskOffers>>
  BY DEF TypeIInv, SlotsIInv, LifeInv, ExecutionEnds, TaskTimedOut, brokerVars
<1>2. /\ RunnerChannels' /\ PendingOffersOnce'
      /\ \A t \in Offer : AtRunner(t)' = AtRunner(t) /\ Pending(t)' = Pending(t)
  BY <1>1, SameChannels DEF LifeInv
<1>3. CASE ExecutionEnds(u)
  <2>1. taskState[u] \in {"running", "aborting:cancelled", "aborting:timeout"}
    BY <1>3 DEF ExecutionEnds, TaskStatus
  <2>2. "accepted" \notin AtBroker(u)
    BY <1>1, <2>1 DEF LifeOf, Answers
  <2>3. PICK before \in {<<>>, <<[type |-> "ended", task |-> u]>>} :
          FinishTask(u, before) /\ (taskState[u] # "aborting:cancelled" => before # <<>>)
    BY <1>3 DEF ExecutionEnds
  <2>4. before = <<>> => tasks[u] = None
    BY <1>1, <2>3 DEF LifeOf
  <2> QED BY <1>1, <1>2, <2>1, <2>2, <2>3, <2>4, FinishTaskLife
<1>4. CASE TaskTimedOut(u) /\ taskState[u] = "waitingForSettings"
  <2>1. PICK before \in {<<>>, <<[type |-> "ended", task |-> u]>>} :
          FinishTask(u, before) /\ before # <<>>
    BY <1>4 DEF TaskTimedOut
  <2> QED BY <1>1, <1>2, <1>4, <2>1, FinishTaskLife
<1>5. CASE TaskTimedOut(u) /\ taskState[u] # "waitingForSettings"
  <2>1. /\ taskState[u] = "running" /\ taskState' = [taskState EXCEPT ![u] = "aborting:timeout"]
        /\ UNCHANGED <<toBroker, made>>
    BY <1>5 DEF TaskTimedOut
  <2>2. /\ taskState'[u] = "aborting:timeout" /\ \A t \in Offer : t # u => taskState'[t] = taskState[t]
    BY <1>1, <2>1
  <2>3. BrokerChannels' /\ \A t \in Offer : AtBroker(t)' = AtBroker(t)
    BY <1>1, <2>1, SameChannels DEF LifeInv
  <2>4. ASSUME NEW t \in Offer, t # u PROVE LifeOf(t)'
    BY <1>1, <1>2, <2>1, <2>2, <2>3, <2>4, LifeStays DEF LifeInv
  <2>5. LifeOf(u)'
    BY <1>1, <1>2, <2>1, <2>2, <2>3 DEF LifeOf, Untouched, Answers
  <2> QED BY <1>2, <2>3, <2>4, <2>5 DEF LifeInv
<1> QED BY <1>3, <1>4, <1>5

\* runnerregistered, drain, close.
LEMMA StartOrStopLife ==
  ASSUME TypeIInv, LifeInv, NEW r \in Runner, StartOrStopOffers(r), UNCHANGED brokerVars
  PROVE  LifeInv'
<1>1. /\ ChannelTypeOK /\ RunnerChannels
      /\ UNCHANGED <<link, crashed, toBroker, made, taskState, tasks, pendingTaskOffers>>
  BY DEF TypeIInv, TypeOK, LifeInv, StartOrStopOffers, brokerVars
<1>2. PICK type \in {"registered", "drain", "close"} : Receives(r, type) /\ Handled(r)
  BY DEF StartOrStopOffers
<1>3. PICK m : m = Head(toRunner[r])
  OBVIOUS
<1>4. RunnerChannels' /\ \A t \in Offer : AtRunner(t)' = AtRunner(t)
  BY <1>1, <1>2, <1>3, RunnerTakes
<1>5. /\ BrokerChannels' /\ PendingOffersOnce'
      /\ \A t \in Offer : AtBroker(t)' = AtBroker(t) /\ Pending(t)' = Pending(t)
  BY <1>1, SameChannels DEF LifeInv
<1>6. \A t \in Offer : LifeOf(t)'
  BY <1>1, <1>4, <1>5, LifeStays DEF LifeInv
<1> QED BY <1>4, <1>5, <1>6 DEF LifeInv

\* A runner, or a launcher, answers that it was asked for u.
LEMMA AnswersLife ==
  ASSUME TypeIInv, LifeInv, NEW r \in Runner, Receives(r, "offeraccept"), Handled(r),
         NEW a \in Answers, NEW u, u = Head(toRunner[r]).task,
         TellBroker(r, <<[type |-> a, task |-> u]>>),
         \/ a # "accepted" /\ UNCHANGED taskState
         \/ taskState' = [taskState EXCEPT ![u] = "waitingForSettings"],
         UNCHANGED <<link, crashed, made>>, UNCHANGED brokerVars
  PROVE  LifeInv'
<1>1. /\ ChannelTypeOK /\ RunnerChannels /\ BrokerChannels
      /\ taskState \in [Offer -> TaskStatus \cup {"none"}]
      /\ UNCHANGED <<tasks, pendingTaskOffers>>
  BY DEF TypeIInv, TypeOK, SlotsIInv, LifeInv, brokerVars
<1>2. PICK m : m = Head(toRunner[r])
  OBVIOUS
<1>3. /\ RunnerChannels' /\ u \in Offer /\ u[1] = r
      /\ "offeraccept" \in AtRunner(u) /\ AtRunner(u)' = {}
      /\ \A t \in Offer : t # u => AtRunner(t)' = AtRunner(t)
  BY <1>1, <1>2, RunnerTakes
<1>4. LifeOf(u)
  BY <1>3 DEF LifeInv
<1>5. /\ tasks[u] = None /\ taskState[u] = "none" /\ AtBroker(u) = {}
      /\ ~(made[u[1]] < u[2]) /\ ~Pending(u)
  BY <1>3, <1>4 DEF LifeOf, Untouched
<1>6. PICK x \in ToBroker : x = [type |-> a, task |-> u]
  BY <1>3, ToBrokerMessages DEF Answers
<1>7. /\ <<x>> \in Seq(ToBroker) /\ InTurn(<<x>>) /\ Own(<<x>>, r)
      /\ TypesOf(<<x>>, u) = {a} /\ \A t \in Offer : t # u => TypesOf(<<x>>, t) = {}
  <2>1. About(x, u) /\ x.type = a /\ \A t \in Offer : t # u => ~About(x, t)
    BY <1>3, <1>6 DEF About, Answers
  <2>2. /\ <<x>> \in Seq(ToBroker) /\ InTurn(<<x>>)
        /\ TypesOf(<<x>>, u) = {a} /\ \A t \in Offer : t # u => TypesOf(<<x>>, t) = {}
    BY <1>3, <2>1, OneInTurn
  <2> QED BY <1>3, <2>2 DEF Own
<1>8. PICK ms \in Seq(ToBroker) : ms = <<x>>
  BY <1>7
<1>9. /\ BrokerChannels'
      /\ \A t \in Offer :
           AtBroker(t)' = IF link[r] = "open" THEN AtBroker(t) \cup TypesOf(ms, t) ELSE AtBroker(t)
  <2>1. TellBroker(r, ms)
    BY <1>6, <1>8
  <2>2. \A t \in Offer : TypesOf(ms, t) = {} \/ AtBroker(t) = {}
    BY <1>5, <1>7, <1>8
  <2> QED BY <1>1, <1>7, <1>8, <2>1, <2>2, BrokerHears
<1>10. PendingOffersOnce' /\ \A t \in Offer : Pending(t)' = Pending(t)
  BY <1>1, SameChannels DEF LifeInv
<1>11. /\ \A t \in Offer : t # u => taskState'[t] = taskState[t]
       /\ \/ a # "accepted" /\ taskState'[u] = "none"
          \/ taskState'[u] = "waitingForSettings"
  BY <1>1, <1>3, <1>5
<1>12. ASSUME NEW t \in Offer, t # u PROVE LifeOf(t)'
  <2>1. AtBroker(t)' = AtBroker(t)
    BY <1>7, <1>8, <1>9, <1>12
  <2> QED BY <1>1, <1>3, <1>10, <1>11, <1>12, <2>1, LifeStays DEF LifeInv
<1>13. LifeOf(u)'
  <2>1. AtBroker(u)' = IF link[u[1]] = "open" THEN {a} ELSE {}
    BY <1>3, <1>5, <1>7, <1>8, <1>9
  <2> QED BY <1>1, <1>3, <1>5, <1>10, <1>11, <2>1 DEF LifeOf, Answers
<1> QED BY <1>3, <1>9, <1>10, <1>12, <1>13 DEF LifeInv

\* taskCancelled: the broker has forgotten the task.
LEMMA TaskCancelledLife ==
  ASSUME TypeIInv, LifeInv, NEW r \in Runner, TaskCancelled(r), UNCHANGED brokerVars
  PROVE  LifeInv'
<1>1. /\ ChannelTypeOK /\ RunnerChannels /\ taskState \in [Offer -> TaskStatus \cup {"none"}]
      /\ Receives(r, "cancel") /\ Handled(r)
      /\ UNCHANGED <<link, crashed, tasks, pendingTaskOffers>>
  BY DEF TypeIInv, TypeOK, SlotsIInv, LifeInv, TaskCancelled, brokerVars
<1>2. PICK m : m = Head(toRunner[r])
  OBVIOUS
<1>3. /\ RunnerChannels' /\ m.task \in Offer
      /\ "cancel" \in AtRunner(m.task) /\ AtRunner(m.task)' \subseteq {"cancel"}
      /\ AtRunner(m.task)' \subseteq AtRunner(m.task)
      /\ \A t \in Offer : t # m.task => AtRunner(t)' = AtRunner(t)
  BY <1>1, <1>2, RunnerTakes
<1>4. PICK u \in Offer : u = m.task
  BY <1>3
<1>5. LifeOf(u)
  BY DEF LifeInv
<1>6. /\ tasks[u] = None /\ \A a \in Answers : a \notin AtBroker(u)
      /\ ~(made[u[1]] < u[2]) /\ ~Pending(u) /\ "offer" \notin AtBroker(u)
      /\ "accepted" \notin AtBroker(u)
  BY <1>3, <1>4, <1>5 DEF LifeOf, Untouched, Answers
<1>7. PendingOffersOnce' /\ \A t \in Offer : Pending(t)' = Pending(t)
  BY <1>1, SameChannels DEF LifeInv
<1>8. CASE taskState[u] = "waitingForSettings" /\ FinishTask(u, <<>>)
  <2>1. PICK before \in {<<>>, <<[type |-> "ended", task |-> u]>>} :
          before = <<>> /\ FinishTask(u, before)
    BY <1>8
  <2> QED BY <1>1, <1>3, <1>4, <1>6, <1>8, <2>1, FinishTaskLife
<1>9. CASE /\ UNCHANGED <<toBroker, made>>
           /\ \/ taskState' = [taskState EXCEPT ![u] = "aborting:cancelled"]
              \/ taskState' = taskState
  <2>1. BrokerChannels' /\ \A t \in Offer : AtBroker(t)' = AtBroker(t)
    BY <1>1, <1>9, SameChannels DEF LifeInv
  <2>2. /\ \A t \in Offer : t # u => taskState'[t] = taskState[t]
        /\ taskState'[u] \in {taskState[u], "aborting:cancelled"}
    BY <1>1, <1>9
  <2>3. ASSUME NEW t \in Offer, t # u PROVE LifeOf(t)'
    BY <1>1, <1>3, <1>4, <1>7, <1>9, <2>1, <2>2, <2>3, LifeStays DEF LifeInv
  <2>4. LifeOf(u)'
    BY <1>1, <1>3, <1>4, <1>6, <1>7, <1>9, <2>1 DEF LifeOf
  <2> QED BY <1>3, <1>7, <2>1, <2>3, <2>4 DEF LifeInv
<1> QED BY <1>2, <1>4, <1>8, <1>9 DEF TaskCancelled

\* receivedSettings.
LEMMA ReceivedSettingsLife ==
  ASSUME TypeIInv, LifeInv, NEW r \in Runner, ReceivedSettings(r), UNCHANGED brokerVars
  PROVE  LifeInv'
<1>1. /\ ChannelTypeOK /\ RunnerChannels /\ taskState \in [Offer -> TaskStatus \cup {"none"}]
      /\ Receives(r, "settings") /\ Handled(r)
      /\ UNCHANGED <<link, crashed, toBroker, made, tasks, pendingTaskOffers>>
  BY DEF TypeIInv, TypeOK, SlotsIInv, LifeInv, ReceivedSettings, brokerVars
<1>2. PICK m : m = Head(toRunner[r])
  OBVIOUS
<1>3. /\ RunnerChannels' /\ m.task \in Offer
      /\ "settings" \in AtRunner(m.task) /\ AtRunner(m.task)' \subseteq {"cancel"}
      /\ AtRunner(m.task)' \subseteq AtRunner(m.task)
      /\ \A t \in Offer : t # m.task => AtRunner(t)' = AtRunner(t)
  BY <1>1, <1>2, RunnerTakes
<1>4. PICK u \in Offer : u = m.task
  BY <1>3
<1>5. LifeOf(u)
  BY DEF LifeInv
<1>6. /\ \A t \in Offer : t # u => taskState'[t] = taskState[t]
      /\ \/ taskState'[u] = taskState[u]
         \/ taskState[u] = "waitingForSettings" /\ taskState'[u] = "running"
  BY <1>1, <1>2, <1>4 DEF ReceivedSettings
<1>7. /\ taskState[u] \in {"none", "waitingForSettings"} /\ \A a \in Answers : a \notin AtBroker(u)
      /\ ~(made[u[1]] < u[2]) /\ ~Pending(u) /\ "offer" \notin AtBroker(u)
      /\ "accepted" \notin AtBroker(u)
  BY <1>3, <1>4, <1>5 DEF LifeOf, Untouched, Answers
<1>8. /\ BrokerChannels' /\ PendingOffersOnce'
      /\ \A t \in Offer : AtBroker(t)' = AtBroker(t) /\ Pending(t)' = Pending(t)
  BY <1>1, SameChannels DEF LifeInv
<1>9. ASSUME NEW t \in Offer, t # u PROVE LifeOf(t)'
  BY <1>1, <1>3, <1>4, <1>6, <1>8, <1>9, LifeStays DEF LifeInv
<1>10. LifeOf(u)'
  BY <1>1, <1>3, <1>4, <1>5, <1>6, <1>7, <1>8 DEF LifeOf
<1> QED BY <1>3, <1>8, <1>9, <1>10 DEF LifeInv

\* A runner dies; what it has sent still comes.
LEMMA CrashLife ==
  ASSUME TypeIInv, LifeInv, NEW r \in Runner, Crash(r), UNCHANGED brokerVars
  PROVE  LifeInv'
<1>1. /\ toRunner' = [toRunner EXCEPT ![r] = <<>>] /\ crashed' = crashed \cup {r}
      /\ taskState' = [t \in Offer |-> IF t[1] = r THEN "none" ELSE taskState[t]]
      /\ UNCHANGED <<link, toBroker, made, tasks, pendingTaskOffers>>
  BY DEF Crash, brokerVars
<1>2. toRunner'[r] = <<>> /\ \A x \in Runner : x # r => toRunner'[x] = toRunner[x]
  BY <1>1 DEF TypeIInv, TypeOK, ChannelTypeOK
<1>3. /\ BrokerChannels' /\ PendingOffersOnce'
      /\ \A t \in Offer : AtBroker(t)' = AtBroker(t) /\ Pending(t)' = Pending(t)
  BY <1>1, SameChannels DEF LifeInv
<1>4. /\ \A t \in Offer : t[1] # r => AtRunner(t)' = AtRunner(t)
      /\ \A t \in Offer : t[1] = r => AtRunner(t)' = {}
  BY <1>2, OfferElements, OneInTurn DEF AtRunner
<1>5. RunnerChannels'
  <2>1. InTurn(toRunner'[r]) /\ Own(toRunner'[r], r)
    BY <1>2, OneInTurn DEF Own
  <2> QED BY <1>2, <2>1 DEF LifeInv, RunnerChannels
<1>6. ASSUME NEW t \in Offer PROVE LifeOf(t)'
  <2>1. LifeOf(t)
    BY DEF LifeInv
  <2>2. CASE t[1] = r
    <3>1. AtRunner(t)' = {} /\ taskState'[t] = "none" /\ t[1] \in crashed'
      BY <1>1, <1>4, <2>2
    <3> QED BY <1>1, <1>3, <2>1, <3>1 DEF LifeOf, Untouched
  <2>3. CASE t[1] # r
    <3>1. AtRunner(t)' = AtRunner(t) /\ taskState'[t] = taskState[t] /\ (t[1] \in crashed => t[1] \in crashed')
      BY <1>1, <1>4, <2>3
    <3> QED BY <1>1, <1>3, <2>1, <3>1 DEF LifeOf, Untouched
  <2> QED BY <2>2, <2>3
<1> QED BY <1>3, <1>5, <1>6 DEF LifeInv

\* Every step of a runner.
LEMMA RunnerStepLife ==
  ASSUME TypeIInv, LifeInv, NEW r \in Runner, RunnerStep(r), UNCHANGED brokerVars
  PROVE  LifeInv'
<1>1. CASE OfferAccepted(r) \/ LauncherDefers(r)
  <2>1. PICK u : u = Head(toRunner[r]).task
    OBVIOUS
  <2>2. \E a \in Answers : /\ TellBroker(r, <<[type |-> a, task |-> u]>>)
                           /\ \/ a # "accepted" /\ UNCHANGED taskState
                              \/ taskState' = [taskState EXCEPT ![u] = "waitingForSettings"]
    BY <1>1, <2>1 DEF OfferAccepted, LauncherDefers, Answers
  <2>3. Receives(r, "offeraccept") /\ Handled(r) /\ UNCHANGED <<link, crashed, made>>
    BY <1>1 DEF OfferAccepted, LauncherDefers
  <2> QED BY <2>1, <2>2, <2>3, AnswersLife
<1> QED BY <1>1, StartOrStopLife, TaskCancelledLife, ReceivedSettingsLife, OfferTickLife,
           LauncherOffersLife, CrashLife, TaskEndsLife DEF RunnerStep, RunnerHandles

\* At first nothing is said or made.
LEMMA LifeInit == Init => LifeInv
<1> SUFFICES ASSUME Init PROVE LifeInv
  OBVIOUS
<1>1. /\ \A r \in Runner : toRunner[r] = <<>> /\ toBroker[r] = <<>>
      /\ pendingTaskOffers = <<>>
      /\ \A t \in Offer : tasks[t] = None /\ taskState[t] = "none"
  BY DEF Init, ChannelInit, BrokerInit, RunnerInit
<1>2. BrokerChannels /\ RunnerChannels /\ PendingOffersOnce
  <2>1. InTurn(<<>>) /\ \A r \in Runner : Own(<<>>, r)
    BY OneInTurn DEF Own
  <2>2. DOMAIN pendingTaskOffers = {}
    BY <1>1
  <2> QED BY <1>1, <2>1, <2>2 DEF BrokerChannels, RunnerChannels, PendingOffersOnce
<1>3. ASSUME NEW t \in Offer PROVE LifeOf(t)
  <2>1. AtBroker(t) = {} /\ AtRunner(t) = {} /\ ~Pending(t)
    <3>1. t[1] \in Runner /\ DOMAIN pendingTaskOffers = {}
      BY <1>1, OfferElements
    <3>2. TypesOf(<<>>, t) = {}
      BY OneInTurn
    <3> QED BY <1>1, <3>1, <3>2 DEF AtBroker, AtRunner, Pending
  <2> QED BY <1>1, <2>1 DEF LifeOf, Untouched
<1> QED BY <1>2, <1>3 DEF LifeInv

\* No step breaks it.
LEMMA LifeStep == TypeIInv /\ LifeInv /\ [Next]_vars => LifeInv'
<1> SUFFICES ASSUME TypeIInv, LifeInv, [Next]_vars PROVE LifeInv'
  OBVIOUS
<1>1. CASE UNCHANGED vars
  <2>1. UNCHANGED <<link, crashed, toRunner, toBroker, made, taskState, tasks, pendingTaskOffers>>
    BY <1>1 DEF vars, channelVars, brokerVars, runnerVars
  <2>2. /\ BrokerChannels' /\ RunnerChannels' /\ PendingOffersOnce'
        /\ \A t \in Offer : /\ AtBroker(t)' = AtBroker(t) /\ AtRunner(t)' = AtRunner(t)
                            /\ Pending(t)' = Pending(t)
    BY <2>1, SameChannels DEF LifeInv
  <2>3. \A t \in Offer : LifeOf(t)'
    BY <2>1, <2>2, LifeStays DEF LifeInv
  <2> QED BY <2>2, <2>3 DEF LifeInv
<1> QED BY <1>1, BrokerStepLife, RunnerStepLife DEF Next

\* TasksAreAtTheirRunner: what the broker knows as a task of a living runner is there,
\* or its end is on its way, in every reachable state.
THEOREM BrokerAndRunnerAgree == Spec => []TasksAreAtTheirRunner
<1>1. TypeIInv /\ LifeInv => TasksAreAtTheirRunner
  <2> SUFFICES ASSUME TypeIInv, LifeInv, NEW t \in Offer,
                      tasks[t] # None, Alive(t[1]), taskState[t] = "none"
               PROVE  EndIsSent(t)
    BY DEF TasksAreAtTheirRunner
  <2>1. "ended" \in AtBroker(t)
    BY DEF LifeInv, LifeOf, Alive
  <2>2. PICK i \in DOMAIN toBroker[t[1]] :
          About(toBroker[t[1]][i], t) /\ toBroker[t[1]][i].type = "ended"
    BY <2>1 DEF AtBroker, TypesOf
  <2>3. toBroker[t[1]][i] \in ToBroker
    <3>1. toBroker[t[1]] \in Seq(ToBroker)
      BY OfferElements DEF TypeIInv, TypeOK, ChannelTypeOK
    <3> QED BY <3>1, LenProperties, ElementOfSeq
  <2>4. toBroker[t[1]][i] = [type |-> "ended", task |-> t]
    BY <2>2, <2>3 DEF About, ToBroker
  <2> QED BY <2>4 DEF EndIsSent
<1> QED BY TypeInit, TypeStep, LifeInit, LifeStep, <1>1, PTL DEF Spec

\* SettingsAreExpected: a runner that gets the settings of a task has it waiting for
\* them, or not at all; the states in which receivedSettings throws never happen.
THEOREM SettingsComeInTime == Spec => SettingsAreExpected
<1>1. TypeIInv /\ LifeInv /\ [Next]_vars =>
        [\A r \in Runner : ReceivedSettings(r) =>
           taskState[Head(toRunner[r]).task] \in {"none", "waitingForSettings"}]_vars
  <2> SUFFICES ASSUME TypeIInv, LifeInv, NEW r \in Runner, ReceivedSettings(r)
               PROVE  taskState[Head(toRunner[r]).task] \in {"none", "waitingForSettings"}
    OBVIOUS
  <2>1. ChannelTypeOK /\ RunnerChannels /\ Receives(r, "settings") /\ Handled(r)
    BY DEF TypeIInv, TypeOK, LifeInv, ReceivedSettings
  <2>2. PICK m : m = Head(toRunner[r])
    OBVIOUS
  <2>3. m.task \in Offer /\ "settings" \in AtRunner(m.task)
    BY <2>1, <2>2, RunnerTakes
  <2> QED BY <2>2, <2>3 DEF LifeInv, LifeOf
<1> QED BY TypeInit, TypeStep, LifeInit, LifeStep, <1>1, PTL DEF Spec, SettingsAreExpected

-----------------------------------------------------------------------------
(* A request and its task                                                    *)

\* A request that runs and a task whose timeout is armed point to each other.
RequestInv ==
  /\ \A q \in Request : status[q] = "running" => assigned[q] \in taskTimer /\ tasks[assigned[q]] = q
  /\ \A t \in taskTimer : status[tasks[t]] = "running" /\ assigned[tasks[t]] = t

\* Tasks end at the broker, and their requests are answered.
LEMMA SettledForgotten ==
  ASSUME BrokerTypeOK, RequestInv, NEW F \in SUBSET Offer, NEW S \in SUBSET F, Settled(S), Forget(F),
         \A t \in F \ S : tasks[t] = None, UNCHANGED assigned
  PROVE  RequestInv'
<1>1. /\ \A t \in taskTimer : t \in Offer /\ tasks[t] \in Request /\ tasks[t] # None
      /\ \A t \in taskTimer' : t \in taskTimer /\ t \notin F
      /\ \A t \in Offer : t \notin F => tasks'[t] = tasks[t]
  BY DEF BrokerTypeOK, Forget
<1>2. \A q \in Request :
        status'[q] = IF status[q] = "running" /\ assigned[q] \in S THEN "answered" ELSE status[q]
  BY DEF Settled
<1>3. ASSUME NEW q \in Request, status'[q] = "running"
      PROVE  assigned'[q] \in taskTimer' /\ tasks'[assigned'[q]] = q
  <2>1. status[q] = "running" /\ assigned[q] \notin S
    BY <1>2, <1>3
  <2>2. assigned[q] \in taskTimer /\ tasks[assigned[q]] = q
    BY <2>1 DEF RequestInv
  <2>3. assigned[q] \notin F
    BY <1>1, <2>1, <2>2
  <2> QED BY <1>1, <2>2, <2>3 DEF Forget
<1>4. ASSUME NEW t \in taskTimer'
      PROVE  status'[tasks'[t]] = "running" /\ assigned'[tasks'[t]] = t
  <2>1. t \in taskTimer /\ t \notin S /\ tasks'[t] = tasks[t] /\ tasks[t] \in Request
    BY <1>1
  <2>2. status[tasks[t]] = "running" /\ assigned[tasks[t]] = t
    BY <2>1 DEF RequestInv
  <2> QED BY <1>2, <2>1, <2>2
<1> QED BY <1>3, <1>4 DEF RequestInv

\* A request is taken from pending, or fails, before it has a task.
LEMMA NotRunningYet ==
  ASSUME RequestInv, BrokerTypeOK, NEW q \in Request, status[q] # "running",
         NEW v \in Status \ {"running"},
         status' = status \/ status' = [status EXCEPT ![q] = v],
         UNCHANGED <<tasks, taskTimer, assigned>>
  PROVE  RequestInv'
<1>1. \A p \in Request : status'[p] = "running" <=> status[p] = "running"
  BY DEF BrokerTypeOK
<1>2. \A t \in taskTimer : tasks[t] \in Request
  BY DEF BrokerTypeOK
<1> QED BY <1>1, <1>2 DEF RequestInv

\* Every step of the broker keeps them together.
LEMMA BrokerKeepsRequests ==
  ASSUME TypeIInv, LifeInv, RequestInv, BrokerStep
  PROVE  RequestInv'
<1>1. ChannelTypeOK /\ BrokerTypeOK /\ RunningIsGranted
  BY DEF TypeIInv, TypeOK
<1>2. CASE UNCHANGED <<status, tasks, taskTimer, assigned>>
  BY <1>2 DEF RequestInv
<1>3. ASSUME NEW q \in Request, RequestTask(q) PROVE RequestInv'
  BY <1>1, <1>3, NotRunningYet DEF RequestTask, Status
<1>4. ASSUME NEW q \in Request, RequestTimeout(q) PROVE RequestInv'
  <2>1. CASE status' = status
    BY <1>2, <1>4, <2>1 DEF RequestTimeout
  <2>2. CASE status' # status
    BY <1>1, <1>4, <2>2, NotRunningYet DEF RequestTimeout, Status
  <2> QED BY <2>1, <2>2
<1>5. ASSUME NEW q \in Request, CancelTask(q) PROVE RequestInv'
  <2>1. PICK u \in Offer : u = assigned[q]
    BY <1>1, <1>5 DEF CancelTask, RunningIsGranted, BrokerTypeOK
  <2>2. status[q] = "running" /\ tasks[u] = q
    BY <1>5, <2>1 DEF CancelTask, RequestInv
  <2>3. \A p \in Request : status[p] = "running" /\ assigned[p] \in {u} <=> p = q
    BY <2>1, <2>2 DEF RequestInv
  <2>4. status' = [p \in Request |->
                     IF status[p] = "running" /\ assigned[p] \in {u} THEN "answered" ELSE status[p]]
    BY <1>1, <1>5, <2>3 DEF CancelTask, BrokerTypeOK
  <2>5. Settled({u}) /\ Forget({u}) /\ UNCHANGED assigned
    BY <1>5, <2>1, <2>4 DEF CancelTask, Settled
  <2> QED BY <1>1, <2>5, SettledForgotten
<1>6. ASSUME NEW t \in Offer, TaskTimeout(t) PROVE RequestInv'
  BY <1>1, <1>6, SettledForgotten DEF TaskTimeout
<1>7. ASSUME NEW r \in Runner, Deregister(r) PROVE RequestInv'
  BY <1>1, <1>7, SettledForgotten DEF Deregister
<1>8. ASSUME NEW r \in Runner, HandleAnswer(r) PROVE RequestInv'
  <2>1. PICK m : m = Head(toBroker[r])
    OBVIOUS
  <2>2. PICK u \in Offer : m.task = u /\ m.type \in AtBroker(u)
    <3>1. /\ toBroker[r] # <<>> /\ toBroker' = [toBroker EXCEPT ![r] = Tail(@)]
          /\ BrokerChannels /\ UNCHANGED link
      BY <1>8 DEF HandleAnswer, LifeInv
    <3> QED BY <1>1, <2>1, <3>1, BrokerTakes
  <2>3. CASE m.type = "accepted" /\ accepting[u] # None /\ RunnerAccepts(u)
    <3>1. PICK q \in Request : q = accepting[u]
      BY <1>1, <2>3 DEF BrokerTypeOK
    <3>2. u \notin taskTimer
      <4>1. tasks[u] = None
        BY <2>2, <2>3 DEF LifeInv, LifeOf, Answers
      <4> QED BY <1>1, <4>1 DEF BrokerTypeOK
    <3>3. \/ /\ status[q] = "waiting"
             /\ tasks' = [tasks EXCEPT ![u] = q] /\ taskTimer' = taskTimer \cup {u}
             /\ status' = [status EXCEPT ![q] = "running"]
             /\ assigned' = [assigned EXCEPT ![q] = u]
          \/ UNCHANGED <<status, tasks, taskTimer, assigned>>
          \/ /\ tasks' = [tasks EXCEPT ![u] = q]
             /\ UNCHANGED <<status, taskTimer, assigned>>
      BY <2>3, <3>1 DEF RunnerAccepts
    <3>4. \A t \in taskTimer : tasks[t] \in Request /\ t # u
      BY <1>1, <3>2 DEF BrokerTypeOK
    <3>5. CASE /\ status[q] = "waiting"
               /\ tasks' = [tasks EXCEPT ![u] = q] /\ taskTimer' = taskTimer \cup {u}
               /\ status' = [status EXCEPT ![q] = "running"]
               /\ assigned' = [assigned EXCEPT ![q] = u]
      <4>1. /\ tasks'[u] = q /\ \A t \in Offer : t # u => tasks'[t] = tasks[t]
            /\ status'[q] = "running" /\ assigned'[q] = u
            /\ \A p \in Request : p # q => status'[p] = status[p] /\ assigned'[p] = assigned[p]
        BY <1>1, <3>5 DEF BrokerTypeOK
      <4>2. \A t \in taskTimer : tasks[t] # q /\ t \in Offer
        BY <1>1, <3>5 DEF RequestInv, BrokerTypeOK
      <4>3. ASSUME NEW p \in Request, status'[p] = "running"
            PROVE  assigned'[p] \in taskTimer' /\ tasks'[assigned'[p]] = p
        BY <3>4, <3>5, <4>1, <4>2, <4>3 DEF RequestInv
      <4>4. ASSUME NEW t \in taskTimer'
            PROVE  status'[tasks'[t]] = "running" /\ assigned'[tasks'[t]] = t
        BY <3>4, <3>5, <4>1, <4>2 DEF RequestInv
      <4> QED BY <4>3, <4>4 DEF RequestInv
    <3>6. CASE /\ tasks' = [tasks EXCEPT ![u] = q]
               /\ UNCHANGED <<status, taskTimer, assigned>>
      <4>1. \A t \in taskTimer : t \in Offer /\ tasks'[t] = tasks[t]
        BY <1>1, <3>4, <3>6 DEF BrokerTypeOK
      <4> QED BY <3>6, <4>1 DEF RequestInv
    <3> QED BY <1>2, <3>3, <3>5, <3>6
  <2>4. CASE Settled({u} \ {t \in Offer : tasks[t] = None}) /\ Forget({u}) /\ UNCHANGED assigned
    <3>1. PICK S : S = {u} \ {t \in Offer : tasks[t] = None}
      OBVIOUS
    <3>2. S \in SUBSET {u} /\ (\A t \in {u} \ S : tasks[t] = None) /\ Settled(S)
      BY <2>4, <3>1
    <3> QED BY <1>1, <2>4, <3>2, SettledForgotten
  <2>5. CASE m.type = "ended"
    BY <1>8, <2>1, <2>2, <2>4, <2>5 DEF HandleAnswer
  <2>6. CASE m.type # "ended"
    BY <1>2, <1>8, <2>1, <2>2, <2>3, <2>6 DEF HandleAnswer, GiveUp, Defer
  <2> QED BY <2>5, <2>6
<1>9. ASSUME \/ \E t \in Offer : AcceptTimeout(t)
             \/ \E r \in Runner : HandleOffer(r) \/ Register(r)
             \/ StartDraining
      PROVE  RequestInv'
  BY <1>2, <1>9 DEF AcceptTimeout, GiveUp, HandleOffer, Register, StartDraining, brokerVars
<1> QED BY <1>3, <1>4, <1>5, <1>6, <1>7, <1>8, <1>9 DEF BrokerStep

\* RunningRequestHasItsTask: a call of startTask waits for a result exactly when the
\* broker has its task, with a timeout that will end it, in every reachable state.
THEOREM RunningRequestsAreWatched == Spec => []RunningRequestHasItsTask
<1>1. Init => RequestInv
  BY DEF Init, BrokerInit, RequestInv
<1>2. TypeIInv /\ LifeInv /\ RequestInv /\ [Next]_vars => RequestInv'
  <2> SUFFICES ASSUME TypeIInv, LifeInv, RequestInv, [Next]_vars PROVE RequestInv'
    OBVIOUS
  <2>1. CASE UNCHANGED <<status, tasks, taskTimer, assigned>>
    BY <2>1 DEF RequestInv
  <2> QED BY <2>1, BrokerKeepsRequests DEF Next, vars, brokerVars
<1>3. RequestInv => RunningRequestHasItsTask
  BY DEF RequestInv, RunningRequestHasItsTask
<1> QED BY TypeInit, TypeStep, LifeInit, LifeStep, <1>1, <1>2, <1>3, PTL DEF Spec

=============================================================================
