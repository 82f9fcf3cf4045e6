----------------------- MODULE ConcurrencyControlProofs -----------------------
(***************************************************************************)
(* Proofs about ConcurrencyControl, for every set of reservations and      *)
(* every limit: the counter of a ConcurrencyQueue never drifts from the    *)
(* reservations it stands for, and what follows from that.                 *)
(***************************************************************************)
EXTENDS ConcurrencyControl, SelectionProofs

\* The reservations of a queue that stand at z, and the invariant of one queue,
\* as functions of the capacity, the line and the reservations.
InState(t, s, z) == {c \in Call : s[c] = z /\ t \in QueuesOf(c)}

LineOf(t, q, s) ==
  /\ q \in Seq(Call)
  /\ \A i, j \in 1..Len(q) : i # j => q[i] # q[j]
  /\ \A i \in 1..Len(q) : s[q[i]] = "queued" /\ t \in QueuesOf(q[i])
  /\ \A c \in Call : (s[c] = "queued" /\ t \in QueuesOf(c))
                        => \E i \in 1..Len(q) : q[i] = c

CountsOf(t, cap, q, s) ==
  cap = Limit[t] - Cardinality(InState(t, s, "reserved")) - Len(q)

BoundsOf(t, q, s) ==
  /\ q # <<>> => Cardinality(InState(t, s, "reserved")) >= Limit[t]
  /\ Cardinality(InState(t, s, "reserved"))
       <= Limit[t] + Cardinality(InState(t, s, "dropped"))

QueueInv(t, cap, q, s) ==
  /\ LineOf(t, q, s)
  /\ enabled => CountsOf(t, cap, q, s) /\ BoundsOf(t, q, s)

\* The inductive invariant.  A line and its counter are related only through
\* the reservations, so the invariant speaks of all three together.
IInv ==
  /\ enabled \in BOOLEAN
  /\ capacity \in [Queues -> Int]
  /\ queue \in [Queues -> Seq(Call)]
  /\ slot \in [Call -> SlotState]
  /\ \A t \in Queues : QueueInv(t, capacity[t], queue[t], slot)

-----------------------------------------------------------------------------
(* Lemmas about the definitions                                            *)

\* A mode is limited by at most one queue.
LEMMA OneQueue ==
  ASSUME NEW c \in Call, NEW t \in QueuesOf(c), NEW u \in QueuesOf(c)
  PROVE  t = u /\ t \in Queues
BY DEF QueuesOf, QueuesOfMode, Queues, ProductionModes, EvaluationModes

\* A queue exists only for a limit above zero.
LEMMA LimitType == \A t \in Queues : Limit[t] \in Nat /\ Limit[t] > 0
BY LimitAssumption DEF Queues, Limit, QueueType

\* The numbers of reservations in a state are natural numbers.
LEMMA CountsAreNat ==
  \A t, s, z : IsFiniteSet(InState(t, s, z)) /\ Cardinality(InState(t, s, z)) \in Nat
BY CallAssumption, FS_Subset, FS_CardinalityType DEF InState

\* A reservation that moves to a state is one more there.
LEMMA MoveIn ==
  ASSUME NEW s \in [Call -> SlotState], NEW c \in Call, NEW t \in QueuesOf(c),
         NEW x \in SlotState, NEW r, s[c] # x, r = [s EXCEPT ![c] = x]
  PROVE  Cardinality(InState(t, r, x)) = Cardinality(InState(t, s, x)) + 1
<1>1. InState(t, r, x) = InState(t, s, x) \cup {c} /\ c \notin InState(t, s, x)
  BY DEF InState
<1>2. Cardinality(InState(t, r, x)) = Cardinality(InState(t, s, x)) + 1
  BY <1>1, CountsAreNat, FS_AddElement
<1> QED
  BY <1>2

\* A queue is not concerned with what happens to the reservations of others.
LEMMA Frame ==
  ASSUME NEW t \in Queues, NEW s, NEW r,
         \A c \in Call : t \in QueuesOf(c) => r[c] = s[c]
  PROVE  /\ \A z : InState(t, r, z) = InState(t, s, z)
         /\ \A q : LineOf(t, q, s) => LineOf(t, q, r)
<1>1. \A z : InState(t, r, z) = InState(t, s, z)
  BY DEF InState
<1>2. ASSUME NEW q, LineOf(t, q, s) PROVE LineOf(t, q, r)
  <2>1. \A i \in 1..Len(q) : q[i] \in Call
    BY <1>2 DEF LineOf
  <2> QED
    BY <1>2, <2>1 DEF LineOf
<1> QED
  BY <1>1, <1>2

-----------------------------------------------------------------------------
(* The steps of one queue                                                  *)

\* Letting the next one through keeps the line in step with the reservations,
\* and moves one unit from waiting to held if there was a next one.
LEMMA ResolveNextLine ==
  ASSUME NEW t \in Queues, NEW q, NEW s \in [Call -> SlotState],
         queue \in [Queues -> Seq(Call)],
         LineOf(t, q, s), ResolveNext(t, q, s)
  PROVE  /\ queue' \in [Queues -> Seq(Call)]
         /\ slot' \in [Call -> SlotState]
         /\ \A u \in Queues : u # t => queue'[u] = queue[u]
         /\ \A c \in Call, u \in Queues : u # t /\ u \in QueuesOf(c) => slot'[c] = s[c]
         /\ LineOf(t, queue'[t], slot')
         /\ Cardinality(InState(t, slot', "reserved")) + Len(queue'[t])
              = Cardinality(InState(t, s, "reserved")) + Len(q)
         /\ InState(t, slot', "dropped") = InState(t, s, "dropped")
         /\ Len(queue'[t]) = IF q = <<>> THEN 0 ELSE Len(q) - 1
<1>1. CASE q = <<>>
  <2>1. queue' = [queue EXCEPT ![t] = q] /\ slot' = s
    BY <1>1 DEF ResolveNext
  <2> QED
    BY <1>1, <2>1, CountsAreNat DEF LineOf
<1>2. CASE q # <<>>
  <2> DEFINE h == Head(q)
  <2>1. /\ queue' = [queue EXCEPT ![t] = Tail(q)]
        /\ slot' = [s EXCEPT ![h] = "reserved"]
    BY <1>2 DEF ResolveNext
  <2>2. /\ q \in Seq(Call) /\ Len(q) \in Nat /\ Len(q) > 0
        /\ h = q[1] /\ h \in Call /\ s[h] = "queued" /\ t \in QueuesOf(h)
    BY <1>2 DEF LineOf
  <2>3. /\ Tail(q) \in Seq(Call) /\ Len(Tail(q)) = Len(q) - 1
        /\ \A i \in 1..(Len(q) - 1) : Tail(q)[i] = q[i + 1]
    BY <2>2
  <2>4. /\ slot' \in [Call -> SlotState]
        /\ Cardinality(InState(t, slot', "reserved"))
             = Cardinality(InState(t, s, "reserved")) + 1
        /\ InState(t, slot', "dropped") = InState(t, s, "dropped")
    <3>1. "reserved" \in SlotState /\ s[h] # "reserved"
      BY <2>2 DEF SlotState
    <3> HIDE DEF h
    <3> DEFINE r == [s EXCEPT ![h] = "reserved"]
    <3>0. r = [s EXCEPT ![h] = "reserved"]
      OBVIOUS
    <3> HIDE DEF r
    <3>2. Cardinality(InState(t, r, "reserved")) = Cardinality(InState(t, s, "reserved")) + 1
      BY <2>2, <3>0, <3>1, MoveIn
    <3>3. InState(t, r, "dropped") = InState(t, s, "dropped")
      BY <2>2, <3>0, <3>1 DEF InState
    <3> QED
      BY <2>1, <2>2, <3>0, <3>1, <3>2, <3>3
  <2>5. queue' \in [Queues -> Seq(Call)] /\ queue'[t] = Tail(q)
    BY <2>1, <2>3
  <2>6. \A u \in Queues : u # t => queue'[u] = queue[u]
    BY <2>1
  <2>7. \A c \in Call, u \in Queues : u # t /\ u \in QueuesOf(c) => slot'[c] = s[c]
    BY <2>1, <2>2, OneQueue
  <2>8. LineOf(t, Tail(q), slot')
    <3>1. \A i, j \in 1..Len(Tail(q)) : i # j => Tail(q)[i] # Tail(q)[j]
      BY <2>2, <2>3 DEF LineOf
    <3>2. ASSUME NEW i \in 1..Len(Tail(q))
          PROVE  slot'[Tail(q)[i]] = "queued" /\ t \in QueuesOf(Tail(q)[i])
      <4>1. /\ i + 1 \in 1..Len(q) /\ i + 1 # 1 /\ 1 \in 1..Len(q)
            /\ Tail(q)[i] = q[i + 1] /\ q[i + 1] \in Call
        BY <2>2, <2>3
      <4>2. q[i + 1] # h /\ s[q[i + 1]] = "queued" /\ t \in QueuesOf(q[i + 1])
        BY <4>1, <2>2 DEF LineOf
      <4> QED
        BY <2>1, <4>1, <4>2
    <3>3. ASSUME NEW c \in Call, slot'[c] = "queued", t \in QueuesOf(c)
          PROVE  \E i \in 1..Len(Tail(q)) : Tail(q)[i] = c
      <4>1. c # h /\ s[c] = "queued"
        BY <2>1, <2>2, <3>3
      <4>2. PICK i \in 1..Len(q) : q[i] = c
        BY <3>3, <4>1 DEF LineOf
      <4>3. i # 1
        BY <4>1, <4>2, <2>2
      <4>4. i - 1 \in 1..Len(Tail(q)) /\ Tail(q)[i - 1] = q[i]
        BY <4>3, <2>2, <2>3
      <4> QED
        BY <4>2, <4>4
    <3> QED
      BY <2>3, <3>1, <3>2, <3>3 DEF LineOf
  <2>9. Cardinality(InState(t, slot', "reserved")) + Len(queue'[t])
          = Cardinality(InState(t, s, "reserved")) + Len(q)
    <3>1. Cardinality(InState(t, s, "reserved")) \in Nat
      BY CountsAreNat
    <3> QED
      BY <3>1, <2>2, <2>3, <2>4, <2>5
  <2>10. Len(queue'[t]) = IF q = <<>> THEN 0 ELSE Len(q) - 1
    BY <1>2, <2>3, <2>5
  <2>11. LineOf(t, queue'[t], slot')
    BY <2>5, <2>8
  <2> QED
    BY <2>4, <2>5, <2>6, <2>7, <2>9, <2>10, <2>11
<1> QED
  BY <1>1, <1>2

\* Taking an item out of the line keeps the rest in step.
LEMMA TakeOutLine ==
  ASSUME NEW t \in Queues, NEW q, NEW s \in [Call -> SlotState],
         LineOf(t, q, s), NEW i \in 1..Len(q)
  PROVE  LET r == RemoveAt(q, i)
             d == [s EXCEPT ![q[i]] = "dropped"]
         IN /\ LineOf(t, r, d) /\ Len(r) = Len(q) - 1
            /\ d \in [Call -> SlotState]
            /\ InState(t, d, "reserved") = InState(t, s, "reserved")
            /\ Cardinality(InState(t, d, "dropped"))
                 = Cardinality(InState(t, s, "dropped")) + 1
            /\ \A c \in Call, u \in Queues : u # t /\ u \in QueuesOf(c) => d[c] = s[c]
<1> DEFINE r == RemoveAt(q, i)
           c0 == q[i]
           d == [s EXCEPT ![c0] = "dropped"]
<1>1. q \in Seq(Call) /\ Len(q) \in Nat /\ c0 \in Call /\ s[c0] = "queued" /\ t \in QueuesOf(c0)
  BY DEF LineOf
<1>2. /\ r \in Seq(Call) /\ Len(r) = Len(q) - 1
      /\ \A j \in 1..(Len(q) - 1) : r[j] = IF j < i THEN q[j] ELSE q[j + 1]
  BY <1>1, RemoveAtProperties
<1>3. /\ d \in [Call -> SlotState]
      /\ InState(t, d, "reserved") = InState(t, s, "reserved")
      /\ Cardinality(InState(t, d, "dropped")) = Cardinality(InState(t, s, "dropped")) + 1
  <2>1. "dropped" \in SlotState /\ s[c0] # "dropped" /\ "reserved" # "dropped" /\ "reserved" # s[c0]
    BY <1>1 DEF SlotState
  <2> HIDE DEF c0
  <2>0. d = [s EXCEPT ![c0] = "dropped"]
    OBVIOUS
  <2> HIDE DEF d
  <2>2. Cardinality(InState(t, d, "dropped")) = Cardinality(InState(t, s, "dropped")) + 1
    BY <1>1, <2>0, <2>1, MoveIn
  <2>3. InState(t, d, "reserved") = InState(t, s, "reserved")
    BY <2>0, <2>1, <1>1 DEF InState
  <2> QED
    BY <1>1, <2>0, <2>1, <2>2, <2>3
<1>4. \A c \in Call, u \in Queues : u # t /\ u \in QueuesOf(c) => d[c] = s[c]
  BY <1>1, OneQueue
<1>5. LineOf(t, r, d)
  <2> HIDE DEF r
  <2>1. ASSUME NEW j \in 1..Len(r)
        PROVE  \E k \in 1..Len(q) : /\ k # i /\ r[j] = q[k]
                                    /\ k = IF j < i THEN j ELSE j + 1
    <3>1. CASE j < i
      BY <3>1, <1>1, <1>2
    <3>2. CASE j >= i
      BY <3>2, <1>1, <1>2
    <3>3. j < i \/ j >= i
      BY <1>1, <1>2
    <3> QED
      BY <3>1, <3>2, <3>3
  <2>2. \A j, k \in 1..Len(r) : j # k => r[j] # r[k]
    <3> SUFFICES ASSUME NEW j \in 1..Len(r), NEW k \in 1..Len(r), j # k
                 PROVE  r[j] # r[k]
      OBVIOUS
    <3>1. PICK j1 \in 1..Len(q) : r[j] = q[j1] /\ j1 = IF j < i THEN j ELSE j + 1
      BY <2>1
    <3>2. PICK k1 \in 1..Len(q) : r[k] = q[k1] /\ k1 = IF k < i THEN k ELSE k + 1
      BY <2>1
    <3>3. j1 # k1
      BY <3>1, <3>2, <1>1, <1>2
    <3> QED
      BY <3>1, <3>2, <3>3 DEF LineOf
  <2>3. \A j \in 1..Len(r) : d[r[j]] = "queued" /\ t \in QueuesOf(r[j])
    <3> SUFFICES ASSUME NEW j \in 1..Len(r)
                 PROVE  d[r[j]] = "queued" /\ t \in QueuesOf(r[j])
      OBVIOUS
    <3>1. PICK k \in 1..Len(q) : k # i /\ r[j] = q[k]
      BY <2>1
    <3>2. q[k] # c0 /\ s[q[k]] = "queued" /\ t \in QueuesOf(q[k]) /\ q[k] \in Call
      BY <3>1, <1>1 DEF LineOf
    <3> QED
      BY <3>1, <3>2
  <2>4. ASSUME NEW c \in Call, d[c] = "queued", t \in QueuesOf(c)
        PROVE  \E j \in 1..Len(r) : r[j] = c
    <3>1. c # c0 /\ s[c] = "queued"
      BY <2>4
    <3>2. PICK k \in 1..Len(q) : q[k] = c
      BY <2>4, <3>1 DEF LineOf
    <3>3. k # i
      BY <3>1, <3>2
    <3>4. CASE k < i
      BY <3>2, <3>4, <1>1, <1>2
    <3>5. CASE k > i
      <4>1. k - 1 \in 1..Len(r) /\ ~(k - 1 < i)
        BY <3>5, <1>1, <1>2
      <4>2. r[k - 1] = q[k]
        BY <4>1, <1>1, <1>2
      <4> QED
        BY <3>2, <4>1, <4>2
    <3>6. k < i \/ k > i
      BY <3>3
    <3> QED
      BY <3>4, <3>5, <3>6
  <2> QED
    BY <1>2, <2>2, <2>3, <2>4 DEF LineOf
<1> QED
  BY <1>2, <1>3, <1>4, <1>5

-----------------------------------------------------------------------------
(* The invariant is inductive                                              *)

\* The service starts with its capacity equal to its limit and nobody in line.
LEMMA InitIInv == Init => IInv
<1> SUFFICES ASSUME Init PROVE IInv
  OBVIOUS
<1>1. /\ enabled \in BOOLEAN
      /\ capacity \in [Queues -> Int]
      /\ queue \in [Queues -> Seq(Call)]
      /\ slot \in [Call -> SlotState]
  BY LimitType DEF Init, SlotState
<1>2. ASSUME NEW t \in Queues
      PROVE  QueueInv(t, capacity[t], queue[t], slot)
  <2>1. /\ capacity[t] = Limit[t] /\ queue[t] = <<>> /\ Limit[t] \in Nat
        /\ \A c \in Call : slot[c] = "none"
    BY LimitType DEF Init
  <2>2. InState(t, slot, "reserved") = {} /\ InState(t, slot, "dropped") = {}
    BY <2>1 DEF InState
  <2>3. Cardinality(InState(t, slot, "reserved")) = 0 /\ Cardinality(InState(t, slot, "dropped")) = 0
    BY <2>2, FS_EmptySet
  <2>4. LineOf(t, queue[t], slot)
    BY <2>1 DEF LineOf
  <2>5. CountsOf(t, capacity[t], queue[t], slot) /\ BoundsOf(t, queue[t], slot)
    BY <2>1, <2>3 DEF CountsOf, BoundsOf
  <2> QED
    BY <2>4, <2>5 DEF QueueInv
<1> QED
  BY <1>1, <1>2 DEF IInv

\* It is enough to look at the queue a step is about.
LEMMA OneQueueStep ==
  ASSUME IInv, enabled' \in BOOLEAN, enabled' => enabled,
         NEW t \in Queues,
         capacity' \in [Queues -> Int], queue' \in [Queues -> Seq(Call)],
         slot' \in [Call -> SlotState],
         \A u \in Queues : u # t => capacity'[u] = capacity[u] /\ queue'[u] = queue[u],
         \A c \in Call, u \in Queues : u # t /\ u \in QueuesOf(c) => slot'[c] = slot[c],
         LineOf(t, queue'[t], slot'),
         enabled' => CountsOf(t, capacity'[t], queue'[t], slot') /\ BoundsOf(t, queue'[t], slot')
  PROVE  IInv'
<1>1. ASSUME NEW u \in Queues
      PROVE  QueueInv(u, capacity[u], queue[u], slot)'
  <2>1. CASE u = t
    BY <2>1 DEF QueueInv, LineOf, CountsOf, BoundsOf, InState
  <2>2. CASE u # t
    <3>1. /\ \A z : InState(u, slot', z) = InState(u, slot, z)
          /\ \A q : LineOf(u, q, slot) => LineOf(u, q, slot')
      BY <2>2, Frame
    <3>2. QueueInv(u, capacity[u], queue[u], slot)
      BY DEF IInv
    <3>3. capacity'[u] = capacity[u] /\ queue'[u] = queue[u]
      BY <2>2
    <3> QED
      BY <3>1, <3>2, <3>3 DEF QueueInv, CountsOf, BoundsOf
  <2> QED
    BY <2>1, <2>2
<1> QED
  BY <1>1 DEF IInv

\* What no queue is concerned with changes nothing of the invariant.
LEMMA OffTheQueues ==
  ASSUME IInv, NEW c \in Call, ~IsThrottled(c), NEW x \in SlotState,
         slot[c] # "queued", x # "queued",
         slot' = [slot EXCEPT ![c] = x], UNCHANGED <<enabled, capacity, queue>>
  PROVE  IInv'
<1>1. slot' \in [Call -> SlotState]
  BY DEF IInv
<1>2. ASSUME NEW t \in Queues
      PROVE  QueueInv(t, capacity[t], queue[t], slot)'
  <2>1. QueueInv(t, capacity[t], queue[t], slot)
    BY DEF IInv
  <2>2. CASE enabled
    <3>1. \A d \in Call : t \in QueuesOf(d) => slot'[d] = slot[d]
      BY <2>2 DEF IsThrottled, IInv
    <3>2. /\ \A z : InState(t, slot', z) = InState(t, slot, z)
          /\ \A q : LineOf(t, q, slot) => LineOf(t, q, slot')
      BY <3>1, Frame
    <3> QED
      BY <2>1, <3>2 DEF QueueInv, CountsOf, BoundsOf
  <2>3. CASE ~enabled
    <3>1. LineOf(t, queue[t], slot')
      BY <2>1 DEF QueueInv, LineOf, IInv
    <3> QED
      BY <2>3, <3>1 DEF QueueInv
  <2> QED
    BY <2>2, <2>3
<1> QED
  BY <1>1, <1>2 DEF IInv

\* What leaves the queues and the reservations alone keeps the invariant.
LEMMA QueuesUnchanged ==
  ASSUME IInv, enabled' \in BOOLEAN, enabled' => enabled,
         UNCHANGED <<capacity, queue, slot>>
  PROVE  IInv'
<1>1. ASSUME NEW t \in Queues
      PROVE  QueueInv(t, capacity[t], queue[t], slot)'
  <2>1. QueueInv(t, capacity[t], queue[t], slot)
    BY DEF IInv
  <2> QED
    BY <2>1 DEF QueueInv, LineOf, CountsOf, BoundsOf, InState
<1> QED
  BY <1>1 DEF IInv

\* throttle keeps the invariant, whether it admits or enqueues.
LEMMA ThrottleIInv ==
  ASSUME IInv, NEW c \in Call, Throttle(c)
  PROVE  IInv'
<1>1. slot[c] = "none" /\ enabled' = enabled
  BY DEF Throttle
<1>2. CASE ~IsThrottled(c)
  <2>1. slot' = [slot EXCEPT ![c] = "reserved"] /\ UNCHANGED <<capacity, queue>>
    BY <1>2 DEF Throttle
  <2>2. "reserved" \in SlotState /\ "reserved" # "queued" /\ slot[c] # "queued"
    BY <1>1 DEF SlotState
  <2> QED
    BY <1>1, <1>2, <2>1, <2>2, OffTheQueues
<1>3. CASE IsThrottled(c)
  <2>1. PICK t \in QueuesOf(c) : Enqueue(t, c)
    BY <1>3 DEF Throttle
  <2>2. t \in Queues /\ enabled /\ enabled'
    BY <1>1, <1>3, OneQueue DEF IsThrottled
  <2>3. QueueInv(t, capacity[t], queue[t], slot)
    BY <2>2 DEF IInv
  <2> DEFINE h == Cardinality(InState(t, slot, "reserved"))
             d == Cardinality(InState(t, slot, "dropped"))
  <2>4. /\ capacity[t] \in Int /\ queue[t] \in Seq(Call) /\ slot \in [Call -> SlotState]
        /\ Len(queue[t]) \in Nat /\ h \in Nat /\ d \in Nat /\ Limit[t] \in Nat
        /\ capacity[t] = Limit[t] - h - Len(queue[t])
        /\ queue[t] # <<>> => h >= Limit[t]
        /\ h <= Limit[t] + d
        /\ (queue[t] = <<>>) <=> (Len(queue[t]) = 0)
    BY <2>2, <2>3, CountsAreNat, LimitType DEF IInv, QueueInv, CountsOf, BoundsOf
  <2>5. /\ capacity' = [capacity EXCEPT ![t] = @ - 1]
        /\ capacity' \in [Queues -> Int] /\ capacity'[t] = capacity[t] - 1
        /\ \A u \in Queues : u # t => capacity'[u] = capacity[u]
    BY <2>1, <2>2, <2>4 DEF Enqueue, IInv
  <2>6. CASE capacity[t] - 1 < 0
    <3>1. /\ queue' = [queue EXCEPT ![t] = Append(@, c)]
          /\ slot' = [slot EXCEPT ![c] = "queued"]
      BY <2>1, <2>6 DEF Enqueue
    <3>2. slot' \in [Call -> SlotState] /\ queue' \in [Queues -> Seq(Call)]
      BY <2>2, <2>4, <3>1 DEF IInv, SlotState
    <3>3. queue'[t] = Append(queue[t], c) /\ Len(queue'[t]) = Len(queue[t]) + 1
      BY <2>2, <2>4, <3>1 DEF IInv
    <3>4. InState(t, slot', "reserved") = InState(t, slot, "reserved")
          /\ InState(t, slot', "dropped") = InState(t, slot, "dropped")
      BY <1>1, <2>4, <3>1 DEF InState
    <3>5. LineOf(t, queue'[t], slot')
      <4>1. \A i \in 1..Len(queue[t]) :
              queue[t][i] \in Call /\ queue[t][i] # c /\ slot[queue[t][i]] = "queued"
                /\ t \in QueuesOf(queue[t][i])
        BY <1>1, <2>3, <2>4 DEF QueueInv, LineOf
      <4>2. /\ \A i \in 1..Len(queue[t]) : queue'[t][i] = queue[t][i]
            /\ queue'[t][Len(queue[t]) + 1] = c
        BY <2>4, <3>3
      <4>3. \A i, j \in 1..Len(queue[t]) : i # j => queue[t][i] # queue[t][j]
        BY <2>3 DEF QueueInv, LineOf
      <4>4. \A i, j \in 1..Len(queue'[t]) : i # j => queue'[t][i] # queue'[t][j]
        BY <2>4, <3>3, <4>1, <4>2, <4>3
      <4>5. ASSUME NEW i \in 1..Len(queue'[t])
            PROVE  slot'[queue'[t][i]] = "queued" /\ t \in QueuesOf(queue'[t][i])
        <5>1. CASE i = Len(queue[t]) + 1
          BY <2>1, <2>4, <3>1, <4>2, <5>1
        <5>2. CASE i # Len(queue[t]) + 1
          <6>1. i \in 1..Len(queue[t])
            BY <2>4, <3>3, <5>2
          <6> QED
            BY <2>4, <3>1, <4>1, <4>2, <6>1
        <5> QED
          BY <5>1, <5>2
      <4>6. ASSUME NEW x \in Call, slot'[x] = "queued", t \in QueuesOf(x)
            PROVE  \E i \in 1..Len(queue'[t]) : queue'[t][i] = x
        <5>1. CASE x = c
          BY <2>4, <3>3, <4>2, <5>1
        <5>2. CASE x # c
          <6>1. slot[x] = "queued"
            BY <2>4, <3>1, <4>6, <5>2
          <6>2. PICK i \in 1..Len(queue[t]) : queue[t][i] = x
            BY <2>3, <4>6, <6>1 DEF QueueInv, LineOf
          <6> QED
            BY <2>4, <3>3, <4>2, <6>2
        <5> QED
          BY <5>1, <5>2
      <4> QED
        BY <2>2, <3>2, <4>4, <4>5, <4>6 DEF LineOf
    <3>6. CountsOf(t, capacity'[t], queue'[t], slot') /\ BoundsOf(t, queue'[t], slot')
      BY <2>4, <2>5, <2>6, <3>3, <3>4 DEF CountsOf, BoundsOf
    <3>7. \A u \in Queues : u # t => queue'[u] = queue[u]
      BY <3>1 DEF IInv
    <3>8. \A x \in Call, u \in Queues : u # t /\ u \in QueuesOf(x) => slot'[x] = slot[x]
      BY <2>1, <2>4, <3>1, OneQueue
    <3> QED
      BY <2>2, <2>5, <3>2, <3>5, <3>6, <3>7, <3>8, OneQueueStep
  <2>7. CASE ~(capacity[t] - 1 < 0)
    <3>1. slot' = [slot EXCEPT ![c] = "reserved"] /\ queue' = queue
      BY <2>1, <2>7 DEF Enqueue
    <3>2. slot' \in [Call -> SlotState] /\ queue' \in [Queues -> Seq(Call)]
      BY <3>1 DEF IInv, SlotState
    <3>3. "reserved" \in SlotState /\ slot[c] # "reserved"
      BY <1>1 DEF SlotState
    <3>4. Cardinality(InState(t, slot', "reserved")) = h + 1
      BY <2>1, <2>4, <3>1, <3>3, MoveIn
    <3>5. InState(t, slot', "dropped") = InState(t, slot, "dropped")
      BY <1>1, <2>4, <3>1 DEF InState
    <3>6. LineOf(t, queue'[t], slot')
      BY <1>1, <2>3, <2>4, <3>1 DEF QueueInv, LineOf
    <3> HIDE DEF h, d
    <3>7. queue[t] = <<>> /\ h + 1 <= Limit[t]
      BY <2>4, <2>7
    <3>8. CountsOf(t, capacity'[t], queue'[t], slot') /\ BoundsOf(t, queue'[t], slot')
      BY <2>4, <2>5, <3>1, <3>4, <3>5, <3>7 DEF CountsOf, BoundsOf, d
    <3>9. \A x \in Call, u \in Queues : u # t /\ u \in QueuesOf(x) => slot'[x] = slot[x]
      BY <2>1, <2>4, <3>1, OneQueue
    <3>10. \A u \in Queues : u # t => queue'[u] = queue[u]
      BY <3>1
    <3> QED
      BY <2>2, <2>5, <3>2, <3>6, <3>8, <3>9, <3>10, OneQueueStep
  <2> QED
    BY <2>6, <2>7
<1> QED
  BY <1>2, <1>3

\* The arithmetic of giving a unit back: h held, d dropped and m in line before,
\* hs held and n in line when the next is let through, h1, d1 and k after.
GivenBack(lim, h, d, m, hs, n, h1, d1, k) ==
  /\ lim \in Nat /\ h \in Nat /\ d \in Nat /\ m \in Nat
  /\ hs \in Nat /\ n \in Nat /\ h1 \in Nat /\ d1 \in Nat /\ k \in Nat
  /\ h1 + k = hs + n /\ hs + n = h + m - 1 /\ d1 - d = m - n /\ n <= m
  /\ n = 0 => k = 0
  /\ n # 0 => k = n - 1 /\ m # 0
  /\ m # 0 => h >= lim
  /\ h <= lim + d

\* The bounds of a queue before and after a unit is given back.
LEMMA GiveBackArithmetic ==
  ASSUME NEW lim, NEW h, NEW d, NEW m, NEW hs, NEW n, NEW h1, NEW d1, NEW k,
         GivenBack(lim, h, d, m, hs, n, h1, d1, k)
  PROVE  /\ k # 0 => h1 >= lim
         /\ h1 <= lim + d1
         /\ lim - h - m + 1 = lim - h1 - k
<1>1. CASE n = 0
  BY <1>1 DEF GivenBack
<1>2. CASE n # 0
  BY <1>2 DEF GivenBack
<1> QED
  BY <1>1, <1>2

\* What every end of a step does to a queue: give a unit of capacity back to the
\* line q of the reservations s, and let the next one through.
LEMMA GiveBack ==
  ASSUME IInv, enabled' = enabled, NEW t \in Queues, NEW q, NEW s \in [Call -> SlotState],
         LineOf(t, q, s),
         capacity' = [capacity EXCEPT ![t] = @ + 1], ResolveNext(t, q, s),
         \A c \in Call, u \in Queues : u # t /\ u \in QueuesOf(c) => s[c] = slot[c],
         Cardinality(InState(t, s, "reserved")) + Len(q)
           = Cardinality(InState(t, slot, "reserved")) + Len(queue[t]) - 1,
         Cardinality(InState(t, s, "dropped")) - Cardinality(InState(t, slot, "dropped"))
           = Len(queue[t]) - Len(q),
         Len(q) <= Len(queue[t])
  PROVE  IInv'
<1>1. queue \in [Queues -> Seq(Call)] /\ capacity \in [Queues -> Int]
  BY DEF IInv
<1>2. /\ queue' \in [Queues -> Seq(Call)] /\ slot' \in [Call -> SlotState]
      /\ \A u \in Queues : u # t => queue'[u] = queue[u]
      /\ \A c \in Call, u \in Queues : u # t /\ u \in QueuesOf(c) => slot'[c] = s[c]
      /\ LineOf(t, queue'[t], slot')
      /\ Cardinality(InState(t, slot', "reserved")) + Len(queue'[t])
           = Cardinality(InState(t, s, "reserved")) + Len(q)
      /\ InState(t, slot', "dropped") = InState(t, s, "dropped")
      /\ Len(queue'[t]) = IF q = <<>> THEN 0 ELSE Len(q) - 1
  BY <1>1, ResolveNextLine
<1>3. /\ capacity' \in [Queues -> Int] /\ capacity'[t] = capacity[t] + 1
      /\ \A u \in Queues : u # t => capacity'[u] = capacity[u]
  BY <1>1
<1>4. ASSUME enabled
      PROVE  CountsOf(t, capacity'[t], queue'[t], slot') /\ BoundsOf(t, queue'[t], slot')
  <2> DEFINE h == Cardinality(InState(t, slot, "reserved"))
             d == Cardinality(InState(t, slot, "dropped"))
             h1 == Cardinality(InState(t, slot', "reserved"))
             d1 == Cardinality(InState(t, slot', "dropped"))
             hs == Cardinality(InState(t, s, "reserved"))
             ds == Cardinality(InState(t, s, "dropped"))
  <2>1. /\ Len(q) \in Nat /\ Len(queue[t]) \in Nat /\ Len(queue'[t]) \in Nat
        /\ (q = <<>>) <=> (Len(q) = 0)
        /\ (queue[t] = <<>>) <=> (Len(queue[t]) = 0)
        /\ (queue'[t] = <<>>) <=> (Len(queue'[t]) = 0)
    <3>1. q \in Seq(Call) /\ queue[t] \in Seq(Call) /\ queue'[t] \in Seq(Call)
      BY <1>1, <1>2 DEF LineOf
    <3> QED
      BY <3>1, EmptySeq, LenProperties
  <2>2. h \in Nat /\ d \in Nat /\ hs \in Nat /\ ds \in Nat /\ h1 \in Nat /\ d1 \in Nat
    BY CountsAreNat
  <2>3. /\ capacity[t] = Limit[t] - h - Len(queue[t])
        /\ queue[t] # <<>> => h >= Limit[t]
        /\ h <= Limit[t] + d
    BY <1>4 DEF IInv, QueueInv, CountsOf, BoundsOf
  <2>4. d1 = ds
    BY <1>2
  <2>5. /\ h1 + Len(queue'[t]) = hs + Len(q)
        /\ hs + Len(q) = h + Len(queue[t]) - 1
        /\ ds - d = Len(queue[t]) - Len(q)
        /\ Len(q) = 0 => Len(queue'[t]) = 0
        /\ Len(q) # 0 => Len(queue'[t]) = Len(q) - 1 /\ Len(queue[t]) # 0
        /\ Len(q) <= Len(queue[t])
    BY <1>2, <2>1
  <2> DEFINE m == Len(queue[t])
             n == Len(q)
             k == Len(queue'[t])
             lim == Limit[t]
  <2>6. /\ GivenBack(lim, h, d, m, hs, n, h1, d1, k)
        /\ capacity[t] \in Int /\ capacity[t] = lim - h - m
        /\ queue'[t] # <<>> => k # 0
    <3> HIDE DEF h, d, h1, d1, hs, ds
    <3> QED
      BY <1>1, <2>1, <2>2, <2>3, <2>4, <2>5, LimitType DEF GivenBack
  <2> HIDE DEF h, d, h1, d1, hs, ds, m, n, k, lim
  <2>7. /\ k # 0 => h1 >= lim
        /\ h1 <= lim + d1
        /\ lim - h - m + 1 = lim - h1 - k
    BY <2>6, GiveBackArithmetic
  <2>8. capacity'[t] = lim - h1 - k
    BY <1>3, <2>6, <2>7 DEF GivenBack
  <2> QED
    BY <2>6, <2>7, <2>8 DEF CountsOf, BoundsOf, h1, d1, k, lim
<1>5. \A c \in Call, u \in Queues : u # t /\ u \in QueuesOf(c) => slot'[c] = slot[c]
  BY <1>2
<1>6. enabled' \in BOOLEAN
  BY DEF IInv
<1> QED
  BY <1>2, <1>3, <1>4, <1>5, <1>6, OneQueueStep

\* release keeps the invariant.
LEMMA ReleaseIInv ==
  ASSUME IInv, NEW c \in Call, Release(c)
  PROVE  IInv'
<1> DEFINE s == [slot EXCEPT ![c] = "released"]
<1>1. /\ slot[c] = "reserved" /\ enabled' = enabled
      /\ "released" \in SlotState /\ "released" # "queued" /\ slot \in [Call -> SlotState]
  BY DEF Release, SlotState, IInv
<1>2. CASE ~IsThrottled(c)
  <2>1. slot' = s /\ UNCHANGED <<capacity, queue>>
    BY <1>2 DEF Release
  <2> QED
    BY <1>1, <1>2, <2>1, OffTheQueues
<1>3. CASE IsThrottled(c)
  <2>1. PICK t \in QueuesOf(c) : Dequeue(t, s)
    BY <1>3 DEF Release
  <2>2. t \in Queues /\ LineOf(t, queue[t], slot) /\ queue[t] \in Seq(Call)
    BY <2>1, OneQueue DEF IInv, QueueInv
  <2>3. s \in [Call -> SlotState]
    BY <1>1
  <2>4. capacity' = [capacity EXCEPT ![t] = @ + 1] /\ ResolveNext(t, queue[t], s)
    BY <2>1 DEF Dequeue
  <2>5. LineOf(t, queue[t], s)
    BY <1>1, <2>2 DEF LineOf
  <2>6. s = [slot EXCEPT ![c] = "released"]
    OBVIOUS
  <2> HIDE DEF s
  <2>7. Cardinality(InState(t, s, "reserved")) = Cardinality(InState(t, slot, "reserved")) - 1
    <3>1. /\ InState(t, s, "reserved") = InState(t, slot, "reserved") \ {c}
          /\ c \in InState(t, slot, "reserved")
      BY <1>1, <2>1, <2>6 DEF InState
    <3>2. IsFiniteSet(InState(t, slot, "reserved"))
      BY CountsAreNat
    <3> QED
      BY <3>1, <3>2, FS_RemoveElement
  <2>8. InState(t, s, "dropped") = InState(t, slot, "dropped")
    BY <1>1, <2>6 DEF InState
  <2>9. \A x \in Call, u \in Queues : u # t /\ u \in QueuesOf(x) => s[x] = slot[x]
    BY <1>1, <2>1, <2>6, OneQueue
  <2>10. /\ Cardinality(InState(t, s, "reserved")) + Len(queue[t])
              = Cardinality(InState(t, slot, "reserved")) + Len(queue[t]) - 1
         /\ Cardinality(InState(t, s, "dropped")) - Cardinality(InState(t, slot, "dropped"))
              = Len(queue[t]) - Len(queue[t])
         /\ Len(queue[t]) <= Len(queue[t])
    <3>1. /\ Cardinality(InState(t, slot, "reserved")) \in Nat
          /\ Cardinality(InState(t, slot, "dropped")) \in Nat
          /\ Len(queue[t]) \in Nat
      BY <2>2, CountsAreNat, LenProperties
    <3> QED
      BY <2>7, <2>8, <3>1
  <2> QED
    BY <1>1, <2>2, <2>3, <2>4, <2>5, <2>9, <2>10, GiveBack
<1> QED
  BY <1>2, <1>3

\* remove and the steps of removeAll keep the invariant.
LEMMA RemoveItemIInv ==
  ASSUME IInv, NEW t \in Queues, NEW e, RemoveItem(t, e), enabled' = enabled
  PROVE  IInv'
<1>1. CASE ~InLine(t, e) /\ UNCHANGED <<capacity, queue, slot>>
  BY <1>1, QueuesUnchanged DEF IInv
<1>2. CASE \E i \in 1..Len(queue[t]) :
             /\ capacity' = [capacity EXCEPT ![t] = @ + 1]
             /\ ResolveNext(t, RemoveAt(queue[t], i), [slot EXCEPT ![queue[t][i]] = "dropped"])
  <2>1. PICK i \in 1..Len(queue[t]) :
          /\ capacity' = [capacity EXCEPT ![t] = @ + 1]
          /\ ResolveNext(t, RemoveAt(queue[t], i), [slot EXCEPT ![queue[t][i]] = "dropped"])
    BY <1>2
  <2> DEFINE r == RemoveAt(queue[t], i)
             d == [slot EXCEPT ![queue[t][i]] = "dropped"]
  <2>2. /\ slot \in [Call -> SlotState] /\ LineOf(t, queue[t], slot)
        /\ queue[t] \in Seq(Call)
    BY DEF IInv, QueueInv
  <2>3. /\ LineOf(t, r, d) /\ Len(r) = Len(queue[t]) - 1
        /\ d \in [Call -> SlotState]
        /\ InState(t, d, "reserved") = InState(t, slot, "reserved")
        /\ Cardinality(InState(t, d, "dropped")) = Cardinality(InState(t, slot, "dropped")) + 1
        /\ \A c \in Call, u \in Queues : u # t /\ u \in QueuesOf(c) => d[c] = slot[c]
    BY <2>2, TakeOutLine
  <2>4. /\ capacity' = [capacity EXCEPT ![t] = @ + 1] /\ ResolveNext(t, r, d)
    BY <2>1
  <2> HIDE DEF r, d
  <2>5. /\ Cardinality(InState(t, d, "reserved")) + Len(r)
             = Cardinality(InState(t, slot, "reserved")) + Len(queue[t]) - 1
        /\ Cardinality(InState(t, d, "dropped")) - Cardinality(InState(t, slot, "dropped"))
             = Len(queue[t]) - Len(r)
        /\ Len(r) <= Len(queue[t])
    <3>1. /\ Cardinality(InState(t, slot, "reserved")) \in Nat
          /\ Cardinality(InState(t, slot, "dropped")) \in Nat
          /\ Len(queue[t]) \in Nat
      BY <2>2, CountsAreNat, LenProperties
    <3> QED
      BY <2>3, <3>1
  <2> QED
    BY <2>3, <2>4, <2>5, GiveBack
<1> QED
  BY <1>1, <1>2 DEF RemoveItem

\* Every step keeps the invariant.
LEMMA NextIInv ==
  ASSUME IInv, [Next]_vars
  PROVE  IInv'
<1> USE DEF Idle
<1>1. ASSUME NEW c \in Call, Throttle(c) PROVE IInv'
  BY <1>1, ThrottleIInv
<1>2. ASSUME NEW c \in Call, Release(c) PROVE IInv'
  BY <1>2, ReleaseIInv
<1>3. ASSUME NEW e, NEW mode, RemoveQueued(e, mode) PROVE IInv'
  <2>1. enabled' = enabled /\ QueuesOfMode(mode) \subseteq Queues
    BY <1>3 DEF RemoveQueued, QueuesOfMode
  <2>2. CASE UNCHANGED <<capacity, queue, slot>>
    BY <2>1, <2>2, QueuesUnchanged DEF IInv
  <2>3. ASSUME NEW t \in QueuesOfMode(mode), RemoveItem(t, e) PROVE IInv'
    <3>1. t \in Queues
      BY <2>1
    <3> QED
      BY <2>1, <2>3, <3>1, RemoveItemIInv
  <2> QED
    BY <1>3, <2>2, <2>3 DEF RemoveQueued
<1>4. CASE RemoveAll
  BY <1>4, QueuesUnchanged DEF RemoveAll, IInv
<1>5. CASE RemoveAllNext
  <2>1. enabled' = enabled
    BY <1>5 DEF RemoveAllNext
  <2>2. PICK t \in Queues : RemoveItem(t, removing[1][2])
    BY <1>5 DEF RemoveAllNext
  <2> QED
    BY <2>1, <2>2, RemoveItemIInv
<1>6. CASE Disable
  BY <1>6, QueuesUnchanged DEF Disable, IInv
<1>7. CASE UNCHANGED vars
  BY <1>7, QueuesUnchanged DEF vars, IInv
<1> QED
  BY <1>1, <1>2, <1>3, <1>4, <1>5, <1>6, <1>7 DEF Next

\* The inductive invariant holds of every reachable state.
THEOREM Invariant == Spec => []IInv
<1> QED
  BY InitIInv, NextIInv, PTL DEF Spec

-----------------------------------------------------------------------------
(* What follows from it                                                    *)

\* Type correctness, of what removeAll has still to take out as well: the ids that
\* a line selects once each are ids of executions, whatever waits in it.
THEOREM TypeCorrect == Spec => []TypeOK
<1>1. IInv => AllQueuedIds \in Seq(QueueType \X Execution)
  <2> SUFFICES ASSUME IInv PROVE AllQueuedIds \in Seq(QueueType \X Execution)
    OBVIOUS
  <2>1. ASSUME NEW t \in Queues
        PROVE  QueuedIds(t) \in Seq(QueueType \X Execution)
    <3> DEFINE id == [i \in DOMAIN queue[t] |-> ExecutionOf[queue[t][i]]]
               ids == [i \in DOMAIN id |-> <<t, id[i]>>]
               first == {i \in DOMAIN id : \A j \in 1..(i - 1) : id[j] # id[i]}
    <3>1. queue[t] \in Seq(Call) /\ t \in QueueType
      BY <2>1 DEF IInv, Queues
    <3>2. /\ Len(queue[t]) \in Nat /\ DOMAIN queue[t] = 1..Len(queue[t])
          /\ \A i \in 1..Len(queue[t]) : queue[t][i] \in Call
      BY <3>1, LenProperties, ElementOfSeq
    <3>3. ids \in [1..Len(queue[t]) -> QueueType \X Execution]
      BY <3>1, <3>2, CallAssumption
    <3>4. first \in SUBSET DOMAIN ids
      OBVIOUS
    <3>5. QueuedIds(t) = SelectAt(ids, first)
      BY DEF QueuedIds
    <3> HIDE DEF ids, first
    <3>6. ids \in Seq(QueueType \X Execution)
      BY <3>2, <3>3, SeqDef
    <3> QED
      BY <3>4, <3>5, <3>6, SelectAtType
  <2>2. <<>> \in Seq(QueueType \X Execution)
    OBVIOUS
  <2>3. \A s, u \in Seq(QueueType \X Execution) : s \o u \in Seq(QueueType \X Execution)
    BY ConcatProperties
  <2> QED
    BY <2>1, <2>2, <2>3 DEF AllQueuedIds
<1>2. Init => TypeOK
  BY InitIInv DEF Init, IInv, TypeOK
<1>3. IInv /\ TypeOK /\ [Next]_vars => removing' \in Seq(QueueType \X Execution)
  <2> SUFFICES ASSUME IInv, TypeOK, [Next]_vars
               PROVE  removing' \in Seq(QueueType \X Execution)
    OBVIOUS
  <2>1. CASE RemoveAll
    <3>1. <<>> \in Seq(QueueType \X Execution)
      OBVIOUS
    <3> QED
      BY <1>1, <2>1, <3>1 DEF RemoveAll
  <2>2. CASE RemoveAllNext
    BY <2>2, HeadTailProperties DEF RemoveAllNext, TypeOK
  <2>3. CASE removing' = removing
    BY <2>3 DEF TypeOK
  <2> QED
    BY <2>1, <2>2, <2>3, Zenon DEF Next, Throttle, Release, RemoveQueued, Disable, vars
<1>4. IInv' /\ removing' \in Seq(QueueType \X Execution) => TypeOK'
  BY DEF IInv, TypeOK
<1> QED
  BY <1>2, <1>3, <1>4, Invariant, NextIInv, PTL DEF Spec

\* The lines of the two queues and the throttled reservations never part.
THEOREM LinesNeverDrift == Spec => []LinesAreTheQueuedCalls
<1>1. IInv => LinesAreTheQueuedCalls
  <2> SUFFICES ASSUME IInv, NEW t \in Queues
               PROVE  /\ \A i, j \in 1..Len(queue[t]) : i # j => queue[t][i] # queue[t][j]
                      /\ {queue[t][i] : i \in 1..Len(queue[t])} =
                           {c \in Call : slot[c] = "queued" /\ t \in QueuesOf(c)}
    BY DEF LinesAreTheQueuedCalls
  <2>1. LineOf(t, queue[t], slot)
    BY DEF IInv, QueueInv
  <2>2. \A i \in 1..Len(queue[t]) : queue[t][i] \in Call
    BY <2>1 DEF LineOf
  <2> QED
    BY <2>1, <2>2 DEF LineOf
<1> QED
  BY <1>1, Invariant, PTL

\* The capacity counter of a queue never drifts while control is on.
THEOREM CapacityNeverDrifts == Spec => []CapacityAccounting
<1>1. IInv => CapacityAccounting
  BY DEF IInv, QueueInv, CountsOf, CapacityAccounting, InState, Held
<1> QED
  BY <1>1, Invariant, PTL

\* No reservation waits while capacity is free: no lost wake-up.
THEOREM NoLostWakeUp == Spec => []NoIdleCapacity
<1>1. IInv => NoIdleCapacity
  BY DEF IInv, QueueInv, BoundsOf, NoIdleCapacity, InState, Held
<1> QED
  BY <1>1, Invariant, PTL

\* The limit is exceeded by at most one per reservation taken out of the line.
THEOREM AdmissionIsBounded == Spec => []AdmissionBound
<1>1. IInv => AdmissionBound
  BY DEF IInv, QueueInv, BoundsOf, AdmissionBound, InState, Held, Dropped
<1> QED
  BY <1>1, Invariant, PTL

-----------------------------------------------------------------------------
(* Order of admission                                                      *)

\* Letting the next one through admits only a reservation that was in line.
LEMMA ResolveNextAdmits ==
  ASSUME NEW t \in Queues, NEW q, NEW s \in [Call -> SlotState],
         LineOf(t, q, s), ResolveNext(t, q, s),
         NEW c \in Call, slot'[c] = "reserved"
  PROVE  s[c] # "none"
<1>1. CASE q = <<>>
  BY <1>1 DEF ResolveNext
<1>2. CASE q # <<>>
  <2>1. slot' = [s EXCEPT ![Head(q)] = "reserved"]
    BY <1>2 DEF ResolveNext
  <2>2. Head(q) = q[1] /\ s[q[1]] = "queued"
    BY <1>2 DEF LineOf
  <2> QED
    BY <2>1, <2>2
<1> QED
  BY <1>1, <1>2

\* So does taking one out of the line.
LEMMA RemoveItemAdmits ==
  ASSUME IInv, NEW t \in Queues, NEW e, RemoveItem(t, e),
         NEW c \in Call, slot'[c] = "reserved"
  PROVE  slot[c] # "none"
<1>1. CASE UNCHANGED slot
  BY <1>1
<1>2. CASE \E i \in 1..Len(queue[t]) :
             ResolveNext(t, RemoveAt(queue[t], i), [slot EXCEPT ![queue[t][i]] = "dropped"])
  <2>1. PICK i \in 1..Len(queue[t]) :
          ResolveNext(t, RemoveAt(queue[t], i), [slot EXCEPT ![queue[t][i]] = "dropped"])
    BY <1>2
  <2> DEFINE r == RemoveAt(queue[t], i)
             d == [slot EXCEPT ![queue[t][i]] = "dropped"]
  <2>2. slot \in [Call -> SlotState] /\ LineOf(t, queue[t], slot)
    BY DEF IInv, QueueInv
  <2>3. slot[queue[t][i]] = "queued"
    BY <2>2 DEF LineOf
  <2>4. LineOf(t, r, d) /\ d \in [Call -> SlotState]
    BY <2>2, TakeOutLine
  <2>5. ResolveNext(t, r, d)
    BY <2>1
  <2>6. d[c] # "none" => slot[c] # "none"
    BY <2>2, <2>3
  <2> HIDE DEF r, d
  <2> QED
    BY <2>4, <2>5, <2>6, ResolveNextAdmits
<1> QED
  BY <1>1, <1>2 DEF RemoveItem

\* A newcomer never overtakes the line.
THEOREM NobodyOvertakes == Spec => NoOvertaking
<1>1. ASSUME IInv, [Next]_vars, NEW c \in Call, NEW t \in Queues,
             enabled, t \in QueuesOf(c), slot[c] = "none", slot'[c] = "reserved"
      PROVE  queue[t] = <<>>
  <2>1. ASSUME NEW d \in Call, Throttle(d) PROVE queue[t] = <<>>
    <3>1. d = c
      BY <1>1, <2>1 DEF Throttle, Enqueue, IInv
    <3>2. Enqueue(t, c)
      BY <1>1, <2>1, <3>1, OneQueue DEF Throttle, IsThrottled
    <3>3. capacity[t] - 1 >= 0 /\ capacity[t] \in Int
      BY <1>1, <3>2 DEF Enqueue, IInv
    <3>4. /\ CountsOf(t, capacity[t], queue[t], slot) /\ BoundsOf(t, queue[t], slot)
          /\ queue[t] \in Seq(Call)
      BY <1>1 DEF IInv, QueueInv
    <3>5. Len(queue[t]) \in Nat
      BY <3>4, LenProperties
    <3> QED
      BY <3>3, <3>4, <3>5, CountsAreNat, LimitType DEF CountsOf, BoundsOf
  <2>2. ASSUME NEW d \in Call, Release(d) PROVE FALSE
    <3> DEFINE s == [slot EXCEPT ![d] = "released"]
    <3>1. slot \in [Call -> SlotState] /\ slot[d] = "reserved"
          /\ s \in [Call -> SlotState] /\ s[c] = "none"
      BY <1>1, <2>2 DEF Release, IInv, SlotState
    <3>2. CASE slot' = s
      BY <1>1, <3>1, <3>2
    <3>3. ASSUME NEW u \in QueuesOf(d), Dequeue(u, s) PROVE FALSE
      <4>1. u \in Queues /\ LineOf(u, queue[u], slot)
        BY <1>1, OneQueue DEF IInv, QueueInv
      <4>2. LineOf(u, queue[u], s)
        BY <3>1, <4>1 DEF LineOf
      <4>3. ResolveNext(u, queue[u], s)
        BY <3>3 DEF Dequeue
      <4> HIDE DEF s
      <4> QED
        BY <1>1, <3>1, <4>1, <4>2, <4>3, ResolveNextAdmits
    <3> QED
      BY <2>2, <3>2, <3>3 DEF Release
  <2>3. ASSUME NEW e, NEW mode, RemoveQueued(e, mode) PROVE FALSE
    <3>1. CASE UNCHANGED slot
      BY <1>1, <3>1
    <3>2. ASSUME NEW u \in QueuesOfMode(mode), RemoveItem(u, e) PROVE FALSE
      <4>1. u \in Queues
        BY DEF QueuesOfMode
      <4> QED
        BY <1>1, <3>2, <4>1, RemoveItemAdmits
    <3> QED
      BY <2>3, <3>1, <3>2 DEF RemoveQueued
  <2>4. CASE RemoveAllNext
    <3>1. PICK u \in Queues : RemoveItem(u, removing[1][2])
      BY <2>4 DEF RemoveAllNext
    <3> QED
      BY <1>1, <3>1, RemoveItemAdmits
  <2>5. CASE UNCHANGED slot
    BY <1>1, <2>5
  <2> QED
    BY <1>1, <2>1, <2>2, <2>3, <2>4, <2>5 DEF Next, RemoveAll, Disable, vars
<1>2. IInv /\ [Next]_vars =>
        [\A c \in Call, t \in Queues :
           (enabled /\ t \in QueuesOf(c) /\ slot[c] = "none" /\ slot'[c] = "reserved")
             => queue[t] = <<>>]_vars
  BY <1>1
<1> QED
  BY <1>2, Invariant, PTL DEF Spec, NoOvertaking

\* Once control is off, nobody in line is let through.  No removal can be under way
\* then: removeAll collects nothing when control is off, and its loop is not
\* interrupted by disable.
THEOREM LineRestsOnceDisabled == Spec => NoAdmissionFromLineOnceDisabled
<1> DEFINE Rests == ~enabled => removing = <<>>
<1>1. Init => Rests
  BY DEF Init
<1>2. ASSUME IInv, Rests, [Next]_vars
      PROVE  Rests'
  <2>1. ASSUME enabled' = enabled, enabled \/ removing' = removing
        PROVE  Rests'
    BY <1>2, <2>1
  <2>2. RemoveAll => enabled' = enabled /\ (enabled \/ removing' = <<>>)
    BY DEF RemoveAll
  <2>3. RemoveAllNext => enabled' = enabled /\ enabled
    BY <1>2 DEF RemoveAllNext
  <2>4. Idle /\ Disable => removing' = <<>>
    BY DEF Idle, Disable
  <2>5. ASSUME \/ \E c \in Call : Throttle(c) \/ Release(c)
               \/ \E e, mode : RemoveQueued(e, mode)
               \/ UNCHANGED vars
        PROVE  enabled' = enabled /\ removing' = removing
    BY <2>5 DEF Throttle, Release, RemoveQueued, vars
  <2> QED
    BY <1>2, <2>1, <2>2, <2>3, <2>4, <2>5 DEF Next
<1>3. ASSUME IInv, Rests, [Next]_vars, NEW c \in Call, ~enabled, slot[c] = "queued"
      PROVE  slot'[c] = "queued"
  <2>1. slot \in [Call -> SlotState]
    BY <1>3 DEF IInv
  <2>2. ASSUME NEW d \in Call, Throttle(d)
        PROVE  slot'[c] = "queued"
    BY <1>3, <2>1, <2>2 DEF Throttle, IsThrottled
  <2>3. ASSUME NEW d \in Call, Release(d)
        PROVE  slot'[c] = "queued"
    BY <1>3, <2>1, <2>3 DEF Release, IsThrottled
  <2>4. ASSUME NEW e, NEW mode, RemoveQueued(e, mode)
        PROVE  slot'[c] = "queued"
    BY <1>3, <2>4 DEF RemoveQueued
  <2>5. ~RemoveAllNext
    BY <1>3 DEF RemoveAllNext
  <2> QED
    BY <1>3, <2>2, <2>3, <2>4, <2>5 DEF Next, RemoveAll, Disable, vars
<1>4. IInv /\ Rests /\ [Next]_vars =>
        [\A c \in Call : (~enabled /\ slot[c] = "queued") => slot'[c] = "queued"]_vars
  BY <1>3
<1> QED
  BY <1>1, <1>2, <1>4, Invariant, PTL DEF Spec, NoAdmissionFromLineOnceDisabled

=============================================================================
