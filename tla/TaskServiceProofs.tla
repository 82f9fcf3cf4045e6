------------------------- MODULE TaskServiceProofs -------------------------
(***************************************************************************)
(* TaskRunners implements the safety half of TaskService, for any number   *)
(* of runners, launchers, offers, requests and losses.                     *)
(***************************************************************************)
EXTENDS TaskRunnersProofs

USE ChannelAssumption, ConcurrencyAssumption, NoneAssumption

-----------------------------------------------------------------------------
(* Settings that are under way                                               *)

\* The i-th message that r has not handled carries the settings of q.
SettingsFor(q, r, i) ==
  i \in DOMAIN toRunner[r] /\ toRunner[r][i].type = "settings" /\ toRunner[r][i].request = q

\* Why code runs once: the settings of a request are sent when it is granted a task,
\* which happens once, and there is no second copy; until they are handled it has
\* not run.
OnceInv ==
  /\ \A q \in Request : status[q] \in {"idle", "waiting"} => assigned[q] = None
  /\ \A q \in Request : assigned[q] = None => runs[q] = 0
  /\ \A q \in Request, r \in Runner : \A i \in Nat :
       SettingsFor(q, r, i) => assigned[q] # None /\ runs[q] = 0
  /\ \A q \in Request, r1, r2 \in Runner : \A i1, i2 \in Nat :
       SettingsFor(q, r1, i1) /\ SettingsFor(q, r2, i2) => r1 = r2 /\ i1 = i2

\* The settings in the channel of r were there before, k messages behind.
OldSettings(r, k) ==
  \A i \in DOMAIN toRunner'[r] :
    toRunner'[r][i].type = "settings" =>
      i + k \in DOMAIN toRunner[r] /\ toRunner[r][i + k] = toRunner'[r][i]

NoNewSettings == \A r \in Runner : \E k \in Nat : OldSettings(r, k)

\* The positions of a channel are positive numbers.
LEMMA Positions ==
  ASSUME ChannelTypeOK, NEW r \in Runner
  PROVE  /\ toRunner[r] \in Seq(ToRunner) /\ Len(toRunner[r]) \in Nat
         /\ DOMAIN toRunner[r] = 1..Len(toRunner[r]) /\ DOMAIN toRunner[r] \subseteq Nat
<1>1. toRunner[r] \in Seq(ToRunner)
  BY DEF ChannelTypeOK
<1>2. Len(toRunner[r]) \in Nat /\ DOMAIN toRunner[r] = 1..Len(toRunner[r])
  BY <1>1, LenProperties
<1> QED BY <1>1, <1>2

\* What is posted comes behind.
LEMMA PostedOld ==
  ASSUME ChannelTypeOK, NEW r \in Runner, NEW ms \in Seq(ToRunner),
         \A i \in DOMAIN ms : ms[i].type # "settings",
         toRunner'[r] = Posted(r, ms)
  PROVE  OldSettings(r, 0)
<1>1. /\ toRunner[r] \in Seq(ToRunner) /\ Len(toRunner[r]) \in Nat
      /\ DOMAIN toRunner[r] = 1..Len(toRunner[r])
  BY Positions
<1>2. CASE Posted(r, ms) = toRunner[r]
  BY <1>1, <1>2 DEF OldSettings
<1>3. CASE Posted(r, ms) = toRunner[r] \o ms
  <2> DEFINE s == toRunner[r]
             u == s \o ms
  <2>1. Len(ms) \in Nat /\ DOMAIN ms = 1..Len(ms)
    BY LenProperties
  <2>2. /\ u \in Seq(ToRunner) /\ Len(u) = Len(s) + Len(ms)
        /\ \A i \in 1..(Len(s) + Len(ms)) : u[i] = IF i <= Len(s) THEN s[i] ELSE ms[i - Len(s)]
    BY <1>1, ConcatProperties
  <2>3. DOMAIN u = 1..(Len(s) + Len(ms))
    BY <2>2, LenProperties
  <2>4. ASSUME NEW i \in DOMAIN u, u[i].type = "settings"
        PROVE  i + 0 \in DOMAIN s /\ s[i + 0] = u[i]
    <3>1. CASE i <= Len(s)
      BY <1>1, <2>2, <2>3, <3>1
    <3>2. CASE ~(i <= Len(s))
      <4>1. i - Len(s) \in 1..Len(ms) /\ u[i] = ms[i - Len(s)]
        BY <1>1, <2>1, <2>2, <2>3, <3>2
      <4> QED BY <2>1, <2>4, <4>1
    <3> QED BY <3>1, <3>2
  <2> QED BY <1>3, <2>4 DEF OldSettings
<1> QED BY <1>2, <1>3 DEF Posted

\* What is handled leaves the channel at its front.
LEMMA HandledOld ==
  ASSUME ChannelTypeOK, NEW r \in Runner, toRunner[r] # <<>>, Handled(r)
  PROVE  OldSettings(r, 1) /\ \A x \in Runner \ {r} : toRunner'[x] = toRunner[x]
<1>1. /\ toRunner[r] \in Seq(ToRunner) /\ Len(toRunner[r]) \in Nat
      /\ DOMAIN toRunner[r] = 1..Len(toRunner[r])
  BY Positions
<1>2. toRunner'[r] = Tail(toRunner[r]) /\ \A x \in Runner \ {r} : toRunner'[x] = toRunner[x]
  BY DEF Handled, ChannelTypeOK
<1> DEFINE s == toRunner[r]
<1>3. /\ Tail(s) \in Seq(ToRunner) /\ Len(Tail(s)) = Len(s) - 1
      /\ \A i \in 1..Len(Tail(s)) : Tail(s)[i] = s[i + 1]
  BY <1>1, HeadTailProperties
<1>4. DOMAIN Tail(s) = 1..(Len(s) - 1)
  BY <1>3, LenProperties
<1>5. \A i \in DOMAIN Tail(s) : i + 1 \in DOMAIN s /\ Tail(s)[i] = s[i + 1]
  BY <1>1, <1>3, <1>4
<1> QED BY <1>2, <1>5 DEF OldSettings

\* Nothing new when a channel stays as it is.
LEMMA SameOld ==
  ASSUME ChannelTypeOK, NEW r \in Runner, toRunner'[r] = toRunner[r]
  PROVE  OldSettings(r, 0)
<1>1. DOMAIN toRunner[r] \subseteq Nat
  BY Positions
<1> QED BY <1>1 DEF OldSettings

\* Handling a message sends no settings.
LEMMA HandledQuiet ==
  ASSUME ChannelTypeOK, NEW r \in Runner, NEW type, Receives(r, type), Handled(r)
  PROVE  NoNewSettings
<1>1. OldSettings(r, 1) /\ \A x \in Runner \ {r} : toRunner'[x] = toRunner[x]
  BY HandledOld DEF Receives
<1>2. \A x \in Runner \ {r} : OldSettings(x, 0)
  BY <1>1, SameOld
<1>3. 0 \in Nat /\ 1 \in Nat
  OBVIOUS
<1> QED BY <1>1, <1>2, <1>3 DEF NoNewSettings

\* Neither does a message of another type.
LEMMA TellRunnerQuiet ==
  ASSUME ChannelTypeOK, NEW r \in Runner, NEW m \in ToRunner, m.type # "settings", TellRunner(r, m)
  PROVE  NoNewSettings
<1>1. toRunner'[r] = Posted(r, <<m>>) /\ \A x \in Runner \ {r} : toRunner'[x] = toRunner[x]
  BY DEF TellRunner, ChannelTypeOK
<1>2. <<m>> \in Seq(ToRunner) /\ \A i \in DOMAIN <<m>> : <<m>>[i].type # "settings"
  OBVIOUS
<1>3. OldSettings(r, 0)
  BY <1>1, <1>2, PostedOld
<1>4. \A x \in Runner \ {r} : OldSettings(x, 0)
  BY <1>1, SameOld
<1>5. 0 \in Nat
  OBVIOUS
<1> QED BY <1>3, <1>4, <1>5 DEF NoNewSettings

\* Nor does settleTasks, which only asks runners to accept.
LEMMA SettleQuiet ==
  ASSUME ChannelTypeOK, NEW offers \in Seq(Offer), NEW requests \in Seq(Request),
         Settle(offers, requests)
  PROVE  NoNewSettings
<1>1. PICK matched \in Seq(Offer) : toRunner' = [r \in Runner |-> Posted(r, Accepts(r, matched))]
  <2>1. PICK expired \in SUBSET {t \in ToSet(offers) : t[1] \notin Launcher} :
      LET valid == SelectAt(offers, {i \in DOMAIN offers : offers[i] \notin expired})
          free == Unmatched(requests)
          n == IF Len(valid) < Len(free) THEN Len(valid) ELSE Len(free)
          matched == SubSeq(valid, 1, n)
      IN toRunner' = [r \in Runner |-> Posted(r, Accepts(r, matched))]
    BY DEF Settle
  <2> DEFINE valid == SelectAt(offers, {i \in DOMAIN offers : offers[i] \notin expired})
             free == Unmatched(requests)
             n == IF Len(valid) < Len(free) THEN Len(valid) ELSE Len(free)
  <2>2. valid \in Seq(Offer)
    BY SelectAtType
  <2>3. free \in Seq(Request)
    BY SelectAtType DEF Unmatched
  <2> HIDE DEF valid, free
  <2>4. n \in Nat /\ n <= Len(valid) /\ Len(valid) \in Nat
    BY <2>2, <2>3, LenProperties
  <2>5. SubSeq(valid, 1, n) \in Seq(Offer)
    BY <2>2, <2>4, SubSeqProperties
  <2> QED BY <2>1, <2>5 DEF valid, free
<1>2. ASSUME NEW r \in Runner PROVE OldSettings(r, 0)
  <2>1. toRunner'[r] = Posted(r, Accepts(r, matched))
    BY <1>1
  <2>2. /\ Accepts(r, matched) \in Seq(ToRunner)
        /\ \A k \in DOMAIN Accepts(r, matched) : Accepts(r, matched)[k].type # "settings"
    BY AcceptsType
  <2> QED BY <2>1, <2>2, PostedOld
<1>3. 0 \in Nat
  OBVIOUS
<1> QED BY <1>2, <1>3 DEF NoNewSettings

\* Settings that were there before are still the only ones of their request.
LEMMA OldSettingsOnce ==
  ASSUME OnceInv, NoNewSettings
  PROVE  /\ \A q \in Request, r \in Runner :
              \E k \in Nat : \A i \in Nat : SettingsFor(q, r, i)' => SettingsFor(q, r, i + k)
         /\ \A q \in Request, r1, r2 \in Runner : \A i1, i2 \in Nat :
              SettingsFor(q, r1, i1)' /\ SettingsFor(q, r2, i2)' => r1 = r2 /\ i1 = i2
<1>1. ASSUME NEW q \in Request, NEW r \in Runner
      PROVE  \E k \in Nat : \A i \in Nat : SettingsFor(q, r, i)' => SettingsFor(q, r, i + k)
  BY DEF NoNewSettings, OldSettings, SettingsFor
<1>2. ASSUME NEW q \in Request, NEW r1 \in Runner, NEW r2 \in Runner, NEW i1 \in Nat, NEW i2 \in Nat,
             SettingsFor(q, r1, i1)', SettingsFor(q, r2, i2)'
      PROVE  r1 = r2 /\ i1 = i2
  <2>1. PICK k1 \in Nat : \A i \in Nat : SettingsFor(q, r1, i)' => SettingsFor(q, r1, i + k1)
    BY <1>1
  <2>2. PICK k2 \in Nat : \A i \in Nat : SettingsFor(q, r2, i)' => SettingsFor(q, r2, i + k2)
    BY <1>1
  <2>3. i1 + k1 \in Nat /\ i2 + k2 \in Nat /\ i2 + k1 \in Nat
    OBVIOUS
  <2>4. SettingsFor(q, r1, i1 + k1) /\ SettingsFor(q, r2, i2 + k2)
    BY <1>2, <2>1, <2>2
  <2>5. r1 = r2
    BY <2>3, <2>4 DEF OnceInv
  <2>6. SettingsFor(q, r1, i2 + k1)
    BY <1>2, <2>1, <2>5
  <2>7. i1 + k1 = i2 + k1
    BY <2>3, <2>4, <2>6 DEF OnceInv
  <2> QED BY <2>5, <2>7
<1> QED BY <1>1, <1>2

\* A step that sends no settings, grants nothing and runs nothing keeps OnceInv.
LEMMA QuietKeepsOnce ==
  ASSUME OnceInv, NoNewSettings, UNCHANGED <<assigned, runs>>,
         \A q \in Request : status'[q] \in {"idle", "waiting"} => status[q] \in {"idle", "waiting"}
  PROVE  OnceInv'
<1>1. ASSUME NEW q \in Request, NEW r \in Runner, NEW i \in Nat, SettingsFor(q, r, i)'
      PROVE  assigned[q] # None /\ runs[q] = 0
  <2>1. PICK k \in Nat : SettingsFor(q, r, i + k)
    BY <1>1, OldSettingsOnce
  <2>2. i + k \in Nat
    OBVIOUS
  <2> QED BY <2>1, <2>2 DEF OnceInv
<1> QED BY <1>1, OldSettingsOnce DEF OnceInv

-----------------------------------------------------------------------------
(* Every step is one of TaskService                                          *)

Granted == {q \in Request : assigned[q] # None}

\* Some requests are answered, or none is.
LEMMA AnswerStep ==
  ASSUME status \in [Request -> Status], NEW Q \in SUBSET Request,
         \A q \in Q : status[q] \in {"waiting", "running"},
         status' = [q \in Request |-> IF q \in Q THEN "answered" ELSE status[q]],
         UNCHANGED <<assigned, runs>>
  PROVE  [Service!Next]_(Service!vars)
<1>1. Granted' = Granted
  BY DEF Granted
<1>2. CASE Q = {}
  <2>1. status' = status
    BY <1>2
  <2> QED BY <2>1, <1>1 DEF Service!vars, Granted
<1>3. CASE Q # {}
  <2>1. Service!Answer(Q)
    BY <1>1, <1>3 DEF Service!Answer, Granted
  <2> QED BY <2>1 DEF Service!Next
<1> QED BY <1>2, <1>3

\* taskDone and taskError answer the requests whose tasks have ended.
LEMMA SettledStep ==
  ASSUME status \in [Request -> Status], NEW ts, Settled(ts), UNCHANGED <<assigned, runs>>
  PROVE  [Service!Next]_(Service!vars)
<1> DEFINE Q == {q \in Request : status[q] = "running" /\ assigned[q] \in ts}
<1>1. status' = [q \in Request |-> IF q \in Q THEN "answered" ELSE status[q]]
  BY DEF Settled
<1> QED BY <1>1, AnswerStep

\* What TaskService does not see.
LEMMA Unseen ==
  ASSUME UNCHANGED <<status, assigned, runs>>
  PROVE  [Service!Next]_(Service!vars)
<1>1. Granted' = Granted
  BY DEF Granted
<1> QED BY <1>1 DEF Service!vars, Granted

\* The runner has accepted: the request is granted its task and its settings are sent.
LEMMA GrantStep ==
  ASSUME TypeIInv, ChannelTypeOK', OnceInv, UNCHANGED runs,
         NEW t \in Offer, NEW q \in Request, status[q] = "waiting",
         status' = [status EXCEPT ![q] = "running"],
         assigned' = [assigned EXCEPT ![q] = t],
         TellRunner(t[1], [type |-> "settings", task |-> t, request |-> q])
  PROVE  OnceInv' /\ [Service!Next]_(Service!vars)
<1>1. ChannelTypeOK /\ BrokerTypeOK /\ RunnerTypeOK
  BY DEF TypeIInv, TypeOK
<1>2. t[1] \in Runner /\ t # None /\ assigned[q] = None /\ runs[q] = 0
  BY OfferElements DEF OnceInv
<1>3. \A p \in Request : /\ p # q => assigned'[p] = assigned[p] /\ status'[p] = status[p]
                         /\ p = q => assigned'[p] = t /\ status'[p] = "running"
  BY <1>1 DEF BrokerTypeOK
<1> DEFINE m == [type |-> "settings", task |-> t, request |-> q]
           x == t[1]
           n == Len(toRunner[x])
<1>4. \A r \in Runner : r # x => toRunner'[r] = toRunner[r]
  BY <1>1 DEF TellRunner, ChannelTypeOK
<1>5. toRunner'[x] = toRunner[x] \/ toRunner'[x] = toRunner[x] \o <<m>>
  BY <1>1, <1>2 DEF TellRunner, Posted, ChannelTypeOK
<1>6. toRunner[x] \in Seq(ToRunner) /\ n \in Nat /\ DOMAIN toRunner[x] = 1..n
  BY <1>1, <1>2, Positions
<1>7. ASSUME NEW p \in Request, NEW r \in Runner, NEW i \in Nat, SettingsFor(p, r, i)'
      PROVE  SettingsFor(p, r, i) \/ (p = q /\ r = x /\ i = n + 1)
  <2>1. CASE toRunner'[r] = toRunner[r]
    BY <1>7, <2>1 DEF SettingsFor
  <2>2. CASE r = x /\ toRunner'[x] = toRunner[x] \o <<m>>
    <3> DEFINE u == toRunner[x] \o <<m>>
    <3>1. m \in ToRunner
      BY ToRunnerMessages
    <3>2. <<m>> \in Seq(ToRunner) /\ Len(<<m>>) = 1 /\ <<m>>[1] = m
      BY <3>1
    <3>3. /\ u \in Seq(ToRunner) /\ Len(u) = n + 1
          /\ \A j \in 1..(n + 1) : u[j] = IF j <= n THEN toRunner[x][j] ELSE <<m>>[j - n]
      <4> HIDE DEF m
      <4> QED BY <1>6, <3>2, ConcatProperties
    <3>4. DOMAIN u = 1..(n + 1)
      BY <3>3, LenProperties
    <3>5. i \in 1..(n + 1) /\ u[i].type = "settings" /\ u[i].request = p
      BY <1>7, <2>2, <3>4 DEF SettingsFor
    <3>6. CASE i <= n
      <4>1. u[i] = toRunner[x][i] /\ i \in DOMAIN toRunner[x]
        BY <1>6, <3>3, <3>5, <3>6
      <4> QED BY <2>2, <3>5, <4>1 DEF SettingsFor
    <3>7. CASE ~(i <= n)
      <4>1. i = n + 1 /\ i - n = 1
        BY <1>6, <3>5, <3>7
      <4>2. u[i] = m
        BY <3>2, <3>3, <3>5, <3>7, <4>1
      <4> QED BY <2>2, <3>5, <4>1, <4>2
    <3> QED BY <3>6, <3>7
  <2> QED BY <1>4, <1>5, <2>1, <2>2
<1>8. \A r \in Runner, i \in Nat : ~SettingsFor(q, r, i)
  BY <1>2 DEF OnceInv
<1> HIDE DEF m, n, x
<1>9. ASSUME NEW p \in Request, NEW r \in Runner, NEW i \in Nat, SettingsFor(p, r, i)'
      PROVE  assigned'[p] # None /\ runs'[p] = 0
  <2>1. CASE p = q
    BY <2>1, <1>2, <1>3
  <2>2. CASE p # q
    BY <2>2, <1>3, <1>7, <1>9 DEF OnceInv
  <2> QED BY <2>1, <2>2
<1>10. ASSUME NEW p \in Request, NEW r1 \in Runner, NEW r2 \in Runner, NEW i1 \in Nat, NEW i2 \in Nat,
              SettingsFor(p, r1, i1)', SettingsFor(p, r2, i2)'
       PROVE  r1 = r2 /\ i1 = i2
  <2>1. CASE p = q
    BY <2>1, <1>7, <1>8, <1>10
  <2>2. CASE p # q
    <3>1. SettingsFor(p, r1, i1) /\ SettingsFor(p, r2, i2)
      BY <2>2, <1>7, <1>10
    <3> QED BY <3>1 DEF OnceInv
  <2> QED BY <2>1, <2>2
<1>11. OnceInv'
  <2>1. /\ \A p \in Request : status'[p] \in {"idle", "waiting"} => assigned'[p] = None
        /\ \A p \in Request : assigned'[p] = None => runs'[p] = 0
    BY <1>2, <1>3 DEF OnceInv
  <2> QED BY <2>1, <1>9, <1>10 DEF OnceInv
<1>12. Granted' = Granted \cup {q}
  BY <1>2, <1>3 DEF Granted
<1>13. Service!Grant(q)
  BY <1>12 DEF Service!Grant, Granted
<1> QED BY <1>11, <1>13 DEF Service!Next

\* Every step of the broker keeps OnceInv, and is a step of TaskService or unseen.
LEMMA BrokerServes ==
  ASSUME TypeIInv, ChannelTypeOK', OnceInv, BrokerStep, UNCHANGED runnerVars
  PROVE  OnceInv' /\ [Service!Next]_(Service!vars)
<1>1. ChannelTypeOK /\ BrokerTypeOK /\ RunnerTypeOK /\ RunningIsGranted
  BY DEF TypeIInv, TypeOK
<1>2. UNCHANGED runs
  BY DEF runnerVars
<1>3. ASSUME NoNewSettings, UNCHANGED <<status, assigned>>
      PROVE  OnceInv' /\ [Service!Next]_(Service!vars)
  BY <1>2, <1>3, QuietKeepsOnce, Unseen
<1>4. ASSUME NoNewSettings, UNCHANGED assigned, NEW ts, Settled(ts)
      PROVE  OnceInv' /\ [Service!Next]_(Service!vars)
  <2>1. \A q \in Request : status'[q] \in {"idle", "waiting"} => status[q] \in {"idle", "waiting"}
    BY <1>4 DEF Settled
  <2> QED BY <1>1, <1>2, <1>4, <2>1, QuietKeepsOnce, SettledStep DEF BrokerTypeOK
<1>5. ASSUME UNCHANGED toRunner PROVE NoNewSettings
  <2>1. 0 \in Nat
    OBVIOUS
  <2> QED BY <1>1, <1>5, <2>1, SameOld DEF NoNewSettings
<1>6. ASSUME NEW t \in Offer PROVE
        /\ [type |-> "cancel", task |-> t] \in ToRunner
        /\ TellRunner(t[1], [type |-> "cancel", task |-> t]) => NoNewSettings
  <2>1. t[1] \in Runner /\ [type |-> "cancel", task |-> t] \in ToRunner
    BY OfferElements, ToRunnerMessages
  <2> QED BY <1>1, <2>1, TellRunnerQuiet
<1>7. ASSUME NEW q \in Request, RequestTask(q) PROVE OnceInv' /\ [Service!Next]_(Service!vars)
  <2>1. Granted' = Granted /\ UNCHANGED assigned /\ status[q] = "idle"
    BY <1>7 DEF RequestTask, Granted
  <2>2. CASE isDraining
    <3>1. NoNewSettings /\ status' = [status EXCEPT ![q] = "answered"]
      BY <1>5, <1>7, <2>2 DEF RequestTask
    <3>2. \A p \in Request : status'[p] \in {"idle", "waiting"} => status[p] \in {"idle", "waiting"}
      BY <1>1, <3>1 DEF BrokerTypeOK
    <3>3. Service!Refuse(q)
      BY <1>2, <2>1, <3>1 DEF Service!Refuse, Granted
    <3> QED BY <1>1, <1>2, <2>1, <3>1, <3>2, <3>3, QuietKeepsOnce DEF Service!Next
  <2>3. CASE ~isDraining
    <3>1. /\ Settle(pendingTaskOffers, Append(pendingTaskRequests, q))
          /\ status' = [status EXCEPT ![q] = "waiting"]
      BY <1>7, <2>3 DEF RequestTask
    <3>2. Append(pendingTaskRequests, q) \in Seq(Request) /\ pendingTaskOffers \in Seq(Offer)
      BY <1>1, AppendProperties DEF BrokerTypeOK
    <3>3. NoNewSettings
      BY <1>1, <3>1, <3>2, SettleQuiet
    <3>4. \A p \in Request : status'[p] \in {"idle", "waiting"} => status[p] \in {"idle", "waiting"}
      BY <1>1, <2>1, <3>1 DEF BrokerTypeOK
    <3>5. Service!Ask(q)
      BY <1>2, <2>1, <3>1 DEF Service!Ask, Granted
    <3> QED BY <1>1, <1>2, <2>1, <3>3, <3>4, <3>5, QuietKeepsOnce DEF Service!Next
  <2> QED BY <2>2, <2>3
<1>8. ASSUME NEW q \in Request, CancelTask(q) PROVE OnceInv' /\ [Service!Next]_(Service!vars)
  <2> DEFINE t == assigned[q]
  <2>1. status[q] = "running" /\ status' = [status EXCEPT ![q] = "answered"] /\ UNCHANGED assigned
    BY <1>8 DEF CancelTask
  <2>2. t \in Offer
    BY <1>1, <2>1 DEF RunningIsGranted, BrokerTypeOK
  <2>3. UNCHANGED toRunner \/ TellRunner(t[1], [type |-> "cancel", task |-> t])
    BY <1>8 DEF CancelTask
  <2>4. NoNewSettings
    BY <1>5, <1>6, <2>2, <2>3
  <2>5. \A p \in Request : status'[p] \in {"idle", "waiting"} => status[p] \in {"idle", "waiting"}
    BY <1>1, <2>1 DEF BrokerTypeOK
  <2>6. status' = [p \in Request |-> IF p \in {q} THEN "answered" ELSE status[p]]
    BY <1>1, <2>1 DEF BrokerTypeOK
  <2>7. [Service!Next]_(Service!vars)
    BY <1>1, <1>2, <2>1, <2>6, AnswerStep DEF BrokerTypeOK
  <2> QED BY <1>1, <1>2, <2>1, <2>4, <2>5, <2>7, QuietKeepsOnce
<1>9. ASSUME NEW q \in Request, RequestTimeout(q) PROVE OnceInv' /\ [Service!Next]_(Service!vars)
  <2>1. NoNewSettings /\ UNCHANGED assigned
    BY <1>5, <1>9 DEF RequestTimeout, channelVars
  <2>2. CASE UNCHANGED status
    BY <1>3, <2>1, <2>2
  <2>3. CASE status[q] = "waiting" /\ status' = [status EXCEPT ![q] = "answered"]
    <3>1. \A p \in Request : status'[p] \in {"idle", "waiting"} => status[p] \in {"idle", "waiting"}
      BY <1>1, <2>3 DEF BrokerTypeOK
    <3>2. status' = [p \in Request |-> IF p \in {q} THEN "answered" ELSE status[p]]
      BY <1>1, <2>3 DEF BrokerTypeOK
    <3>3. [Service!Next]_(Service!vars)
      BY <1>1, <1>2, <2>1, <2>3, <3>2, AnswerStep DEF BrokerTypeOK
    <3> QED BY <1>1, <1>2, <2>1, <3>1, <3>3, QuietKeepsOnce
  <2> QED BY <1>9, <2>2, <2>3 DEF RequestTimeout
<1>10. ASSUME NEW t \in Offer, AcceptTimeout(t) PROVE OnceInv' /\ [Service!Next]_(Service!vars)
  BY <1>3, <1>5, <1>10 DEF AcceptTimeout, GiveUp
<1>11. ASSUME NEW t \in Offer, TaskTimeout(t) PROVE OnceInv' /\ [Service!Next]_(Service!vars)
  BY <1>4, <1>6, <1>11 DEF TaskTimeout
<1>12. ASSUME NEW r \in Runner, HandleAnswer(r) PROVE OnceInv' /\ [Service!Next]_(Service!vars)
  <2>1. toBroker[r] \in Seq(ToBroker) /\ toBroker[r] # <<>>
    BY <1>1, <1>12 DEF HandleAnswer, ChannelTypeOK
  <2>2. PICK t \in Offer : t = Head(toBroker[r]).task
    BY <2>1, HeadTailProperties, ToBrokerMessages
  <2>3. \/ accepting[t] # None /\ RunnerAccepts(t)
        \/ UNCHANGED <<toRunner, status, assigned>>
        \/ Settled({t} \ {u \in Offer : tasks[u] = None}) /\ UNCHANGED <<toRunner, assigned>>
    BY <1>12, <2>2 DEF HandleAnswer, GiveUp, Defer
  <2>4. CASE accepting[t] # None /\ RunnerAccepts(t)
    <3>1. PICK q \in Request : q = accepting[t]
      BY <1>1, <2>2, <2>4 DEF BrokerTypeOK
    <3>2. \/ /\ status[q] = "waiting" /\ status' = [status EXCEPT ![q] = "running"]
             /\ assigned' = [assigned EXCEPT ![q] = t]
             /\ TellRunner(t[1], [type |-> "settings", task |-> t, request |-> q])
          \/ TellRunner(t[1], [type |-> "cancel", task |-> t]) /\ UNCHANGED <<status, assigned>>
          \/ UNCHANGED <<toRunner, status, assigned>>
      BY <2>4, <3>1 DEF RunnerAccepts
    <3> QED BY <1>2, <1>3, <1>5, <1>6, <2>2, <3>1, <3>2, GrantStep
  <2> QED BY <1>3, <1>4, <1>5, <2>3, <2>4
<1>13. ASSUME NEW r \in Runner, HandleOffer(r) PROVE OnceInv' /\ [Service!Next]_(Service!vars)
  <2> DEFINE t == Head(toBroker[r]).task
  <2>1. toBroker[r] \in Seq(ToBroker) /\ toBroker[r] # <<>>
    BY <1>1, <1>13 DEF HandleOffer, ChannelTypeOK
  <2>2. t \in Offer
    BY <2>1, HeadTailProperties, ToBrokerMessages
  <2>3. Append(pendingTaskOffers, t) \in Seq(Offer) /\ pendingTaskRequests \in Seq(Request)
    BY <1>1, <2>2, AppendProperties DEF BrokerTypeOK
  <2>4. Settle(Append(pendingTaskOffers, t), pendingTaskRequests) /\ UNCHANGED <<status, assigned>>
    BY <1>13 DEF HandleOffer
  <2> HIDE DEF t
  <2> QED BY <1>1, <1>3, <2>3, <2>4, SettleQuiet
<1>14. ASSUME NEW r \in Runner, Register(r) PROVE OnceInv' /\ [Service!Next]_(Service!vars)
  <2>1. toRunner' = [toRunner EXCEPT ![r] = <<[type |-> "registered"]>>] /\ UNCHANGED <<status, assigned>>
    BY <1>14 DEF Register, brokerVars
  <2>2. ASSUME NEW x \in Runner PROVE OldSettings(x, 0)
    <3>1. CASE x = r
      BY <1>1, <2>1, <3>1 DEF OldSettings, ChannelTypeOK
    <3>2. CASE x # r
      BY <1>1, <2>1, <3>2, SameOld DEF ChannelTypeOK
    <3> QED BY <3>1, <3>2
  <2>3. 0 \in Nat
    OBVIOUS
  <2> QED BY <1>3, <2>1, <2>2, <2>3 DEF NoNewSettings
<1>15. ASSUME NEW r \in Runner, Deregister(r) PROVE OnceInv' /\ [Service!Next]_(Service!vars)
  <2>1. TellRunner(r, [type |-> "close"]) /\ UNCHANGED assigned /\ \E ts : Settled(ts)
    BY <1>15 DEF Deregister
  <2>2. NoNewSettings
    BY <1>1, <2>1, ToRunnerMessages, TellRunnerQuiet
  <2> QED BY <1>4, <2>1, <2>2
<1>16. ASSUME StartDraining PROVE OnceInv' /\ [Service!Next]_(Service!vars)
  <2>1. <<[type |-> "drain"]>> \in Seq(ToRunner)
    BY ToRunnerMessages
  <2>2. ASSUME NEW r \in Runner PROVE OldSettings(r, 0)
    <3>1. toRunner'[r] = Posted(r, <<[type |-> "drain"]>>)
      BY <1>16 DEF StartDraining
    <3>2. \A i \in DOMAIN <<[type |-> "drain"]>> : <<[type |-> "drain"]>>[i].type # "settings"
      OBVIOUS
    <3> QED BY <1>1, <2>1, <3>1, <3>2, PostedOld
  <2>3. 0 \in Nat
    OBVIOUS
  <2> QED BY <1>3, <1>16, <2>2, <2>3 DEF NoNewSettings, StartDraining
<1> QED BY <1>7, <1>8, <1>9, <1>10, <1>11, <1>12, <1>13, <1>14, <1>15, <1>16 DEF BrokerStep

\* The settings come, and the code begins to run, if its task still waits for them.
LEMMA ReceivedSettingsServes ==
  ASSUME TypeIInv, OnceInv, UNCHANGED brokerVars, NEW r \in Runner, ReceivedSettings(r)
  PROVE  OnceInv' /\ [Service!Next]_(Service!vars)
<1> DEFINE m == Head(toRunner[r])
<1>1. ChannelTypeOK /\ RunnerTypeOK /\ UNCHANGED <<status, assigned>>
  BY DEF TypeIInv, TypeOK, brokerVars
<1>2. Receives(r, "settings") /\ Handled(r)
  BY DEF ReceivedSettings
<1>3. toRunner[r] \in Seq(ToRunner) /\ toRunner[r] # <<>> /\ m.type = "settings"
  BY <1>1, <1>2 DEF Receives, ChannelTypeOK
<1>4. m \in ToRunner /\ m = toRunner[r][1] /\ 1 \in DOMAIN toRunner[r]
  BY <1>3, HeadTailProperties, LenProperties, EmptySeq
<1>5. PICK q \in Request : q = m.request /\ SettingsFor(q, r, 1)
  BY <1>3, <1>4, ToRunnerElements DEF SettingsFor
<1>6. assigned[q] # None /\ runs[q] = 0
  BY <1>5 DEF OnceInv
<1>7. NoNewSettings
  BY <1>1, <1>2, HandledQuiet
<1>8. CASE UNCHANGED runs
  BY <1>1, <1>7, <1>8, QuietKeepsOnce, Unseen
<1>9. CASE runs' = [runs EXCEPT ![q] = @ + 1]
  <2>1. runs' = [runs EXCEPT ![q] = 1]
    BY <1>5, <1>6, <1>9
  <2>2. \A p \in Request : p # q => runs'[p] = runs[p]
    BY <1>1, <2>1 DEF RunnerTypeOK
  <2>3. \A x \in Runner, i \in Nat : ~SettingsFor(q, x, i)'
    <3> SUFFICES ASSUME NEW x \in Runner, NEW i \in Nat, SettingsFor(q, x, i)' PROVE FALSE
      OBVIOUS
    <3>1. OldSettings(r, 1) /\ \A y \in Runner \ {r} : toRunner'[y] = toRunner[y]
      BY <1>1, <1>2, <1>3, HandledOld
    <3>2. CASE x = r
      <4>1. SettingsFor(q, r, i + 1)
        BY <3>1, <3>2 DEF OldSettings, SettingsFor
      <4>2. i + 1 = 1
        <5>1. i + 1 \in Nat /\ 1 \in Nat
          OBVIOUS
        <5> QED BY <1>5, <4>1, <5>1 DEF OnceInv
      <4>3. 0 \in DOMAIN toRunner'[r]
        BY <3>2, <4>2 DEF SettingsFor
      <4>4. toRunner'[r] = Tail(toRunner[r])
        BY <1>1, <1>2 DEF Handled, ChannelTypeOK
      <4>5. Tail(toRunner[r]) \in Seq(ToRunner)
        BY <1>3, HeadTailProperties
      <4>6. DOMAIN Tail(toRunner[r]) = 1..Len(Tail(toRunner[r]))
        BY <4>5, LenProperties
      <4> QED BY <4>3, <4>4, <4>6
    <3>3. CASE x # r
      <4>1. SettingsFor(q, x, i)
        BY <3>1, <3>3 DEF SettingsFor
      <4>2. 1 \in Nat
        OBVIOUS
      <4> QED BY <1>5, <3>3, <4>1, <4>2 DEF OnceInv
    <3> QED BY <3>2, <3>3
  <2>4. ASSUME NEW p \in Request, NEW x \in Runner, NEW i \in Nat, SettingsFor(p, x, i)'
        PROVE  assigned'[p] # None /\ runs'[p] = 0
    <3>1. p # q
      BY <2>3, <2>4
    <3>2. PICK k \in Nat : SettingsFor(p, x, i + k)
      BY <1>7, <2>4, OldSettingsOnce
    <3>3. i + k \in Nat
      OBVIOUS
    <3>4. assigned[p] # None /\ runs[p] = 0
      BY <3>2, <3>3 DEF OnceInv
    <3> QED BY <1>1, <2>2, <3>1, <3>4
  <2>5. OnceInv'
    <3>1. /\ \A p \in Request : status'[p] \in {"idle", "waiting"} => assigned'[p] = None
          /\ \A p \in Request : assigned'[p] = None => runs'[p] = 0
      BY <1>1, <1>6, <2>2 DEF OnceInv
    <3> QED BY <1>7, <2>4, <3>1, OldSettingsOnce DEF OnceInv
  <2>6. Granted' = Granted /\ q \in Granted
    BY <1>1, <1>5, <1>6 DEF Granted
  <2>7. Service!Execute(q)
    BY <1>1, <1>6, <2>1, <2>6 DEF Service!Execute, Granted
  <2> QED BY <1>5, <2>5, <2>7 DEF Service!Next
<1> QED BY <1>5, <1>8, <1>9 DEF ReceivedSettings

\* Every step of a runner keeps OnceInv, and is a step of TaskService or unseen.
LEMMA RunnerServes ==
  ASSUME TypeIInv, OnceInv, UNCHANGED brokerVars, NEW r \in Runner, RunnerStep(r)
  PROVE  OnceInv' /\ [Service!Next]_(Service!vars)
<1>1. ChannelTypeOK /\ UNCHANGED <<status, assigned>>
  BY DEF TypeIInv, TypeOK, brokerVars
<1>2. ASSUME NoNewSettings, UNCHANGED runs PROVE OnceInv' /\ [Service!Next]_(Service!vars)
  BY <1>1, <1>2, QuietKeepsOnce, Unseen
<1>3. ASSUME UNCHANGED toRunner PROVE NoNewSettings
  <2>1. 0 \in Nat
    OBVIOUS
  <2> QED BY <1>1, <1>3, <2>1, SameOld DEF NoNewSettings
<1>4. CASE StartOrStopOffers(r) \/ OfferAccepted(r) \/ TaskCancelled(r) \/ LauncherDefers(r)
  <2>1. UNCHANGED runs /\ Handled(r) /\ \E type : Receives(r, type)
    BY <1>4 DEF StartOrStopOffers, OfferAccepted, TaskCancelled, LauncherDefers
  <2> QED BY <1>1, <1>2, <2>1, HandledQuiet
<1>5. CASE ReceivedSettings(r)
  BY <1>5, ReceivedSettingsServes
<1>6. CASE OfferTick(r) \/ LauncherOffers(r)
  BY <1>2, <1>3, <1>6 DEF OfferTick, LauncherOffers
<1>7. CASE Crash(r)
  <2>1. toRunner' = [toRunner EXCEPT ![r] = <<>>] /\ UNCHANGED runs
    BY <1>7 DEF Crash
  <2>2. ASSUME NEW x \in Runner PROVE OldSettings(x, 0)
    <3>1. CASE x = r
      BY <1>1, <2>1, <3>1 DEF OldSettings, ChannelTypeOK
    <3>2. CASE x # r
      BY <1>1, <2>1, <3>2, SameOld DEF ChannelTypeOK
    <3> QED BY <3>1, <3>2
  <2>3. 0 \in Nat
    OBVIOUS
  <2> QED BY <1>2, <2>1, <2>2, <2>3 DEF NoNewSettings
<1>8. ASSUME NEW t \in Offer, ExecutionEnds(t) \/ TaskTimedOut(t)
      PROVE  OnceInv' /\ [Service!Next]_(Service!vars)
  BY <1>2, <1>3, <1>8 DEF ExecutionEnds, TaskTimedOut
<1> QED BY <1>4, <1>5, <1>6, <1>7, <1>8 DEF RunnerStep, RunnerHandles

\* At first nothing is granted and no settings are under way.
LEMMA OnceInit == Init => OnceInv /\ Service!Init
<1> SUFFICES ASSUME Init PROVE OnceInv /\ Service!Init
  OBVIOUS
<1>1. /\ toRunner = [r \in Runner |-> <<>>] /\ assigned = [q \in Request |-> None]
      /\ status = [q \in Request |-> "idle"] /\ runs = [q \in Request |-> 0]
  BY DEF Init, ChannelInit, BrokerInit, RunnerInit
<1>2. \A q \in Request, r \in Runner, i \in Nat : ~SettingsFor(q, r, i)
  BY <1>1 DEF SettingsFor
<1>3. {q \in Request : assigned[q] # None} = {}
  BY <1>1
<1> QED BY <1>1, <1>2, <1>3 DEF OnceInv, Service!Init

\* ServesAtMostOnce: the broker and the runners implement the safety half of
\* TaskService: code runs once at most and for a granted request only, whichever
\* offers go stale, answers come late, runners die or requests are deferred.
THEOREM ImplementsSafety == Spec => ServesAtMostOnce
<1> DEFINE I == TypeIInv /\ OnceInv
<1>1. Init => I /\ Service!Init
  BY TypeInit, OnceInit
<1>2. I /\ [Next]_vars => I' /\ [Service!Next]_(Service!vars)
  <2> SUFFICES ASSUME TypeIInv, OnceInv, [Next]_vars
               PROVE  TypeIInv' /\ OnceInv' /\ [Service!Next]_(Service!vars)
    OBVIOUS
  <2>1. TypeIInv' /\ ChannelTypeOK /\ ChannelTypeOK'
    <3>1. TypeIInv'
      BY TypeStep
    <3> QED BY <3>1 DEF TypeIInv, TypeOK
  <2>2. CASE BrokerStep /\ UNCHANGED runnerVars
    BY <2>1, <2>2, BrokerServes
  <2>3. CASE \E r \in Runner : RunnerStep(r) /\ UNCHANGED brokerVars
    BY <2>1, <2>3, RunnerServes
  <2>4. CASE UNCHANGED vars
    <3>1. UNCHANGED <<toRunner, status, assigned, runs>>
      BY <2>4 DEF vars, channelVars, brokerVars, runnerVars
    <3>2. OnceInv'
      BY <3>1 DEF OnceInv, SettingsFor
    <3> QED BY <2>1, <3>1, <3>2, Unseen
  <2> QED BY <2>2, <2>3, <2>4 DEF Next
<1> QED BY <1>1, <1>2, PTL DEF Spec, ServesAtMostOnce, Service!Safety

=============================================================================
