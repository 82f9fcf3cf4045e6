------------------------ MODULE MultiMainSetupProofs ------------------------
(***************************************************************************)
(* Proofs about MultiMainSetup, for any number of processes and host ids,  *)
(* of commands under way and of lapses of the key.                         *)
(***************************************************************************)
EXTENDS MultiMainSetup, FiniteSetTheorems, TLAPS

-----------------------------------------------------------------------------
(* Sequences                                                                 *)

\* What a queue holds after something joins it,
LEMMA AppendToSet ==
  ASSUME NEW S, NEW s \in Seq(S), NEW x \in S
  PROVE  /\ Append(s, x) \in Seq(S) /\ Append(s, x) # <<>>
         /\ ToSet(Append(s, x)) = ToSet(s) \cup {x}
<1>1. /\ Append(s, x) \in Seq(S)
      /\ Len(Append(s, x)) = Len(s) + 1
      /\ DOMAIN Append(s, x) = 1..Len(s) + 1
      /\ \A i \in 1..Len(s) : Append(s, x)[i] = s[i]
      /\ Append(s, x)[Len(s) + 1] = x
      /\ Len(s) \in Nat /\ DOMAIN s = 1..Len(s)
  OBVIOUS
<1>2. Append(s, x) # <<>>
  BY <1>1
<1>3. ToSet(s) \cup {x} \subseteq ToSet(Append(s, x))
  BY <1>1 DEF ToSet
<1>4. ToSet(Append(s, x)) \subseteq ToSet(s) \cup {x}
  <2> SUFFICES ASSUME NEW i \in 1..Len(s) + 1
               PROVE  Append(s, x)[i] \in ToSet(s) \cup {x}
    BY <1>1 DEF ToSet
  <2>1. i \in 1..Len(s) \/ i = Len(s) + 1
    BY <1>1
  <2> QED
    BY <1>1, <2>1 DEF ToSet
<1> QED
  BY <1>1, <1>2, <1>3, <1>4

\* and after its head has left it.
LEMMA TailToSet ==
  ASSUME NEW S, NEW s \in Seq(S), s # <<>>
  PROVE  /\ Tail(s) \in Seq(S) /\ ToSet(Tail(s)) \subseteq ToSet(s)
         /\ Head(s) \in ToSet(s) /\ Head(s) \in S
         /\ DOMAIN Tail(s) = 1..Len(s) - 1
         /\ \A i \in DOMAIN Tail(s) : i + 1 \in DOMAIN s /\ Tail(s)[i] = s[i + 1]
         /\ 1 \in DOMAIN s /\ Head(s) = s[1]
<1>1. /\ Tail(s) \in Seq(S)
      /\ DOMAIN Tail(s) = 1..Len(s) - 1
      /\ \A i \in 1..Len(s) - 1 : Tail(s)[i] = s[i + 1]
      /\ Len(s) \in Nat \ {0} /\ DOMAIN s = 1..Len(s)
      /\ Head(s) = s[1] /\ Head(s) \in S
  OBVIOUS
<1>2. \A i \in DOMAIN Tail(s) : i + 1 \in DOMAIN s /\ Tail(s)[i] = s[i + 1]
  BY <1>1
<1>3. ToSet(Tail(s)) \subseteq ToSet(s)
  BY <1>2 DEF ToSet
<1>4. 1 \in DOMAIN s /\ Head(s) \in ToSet(s)
  BY <1>1 DEF ToSet
<1> QED
  BY <1>1, <1>2, <1>3, <1>4

\* A queue of one.
LEMMA SingletonToSet ==
  ASSUME NEW x
  PROVE  ToSet(<<x>>) = {x} /\ Tail(<<x>>) = <<>> /\ Head(<<x>>) = x
<1>1. DOMAIN <<x>> = 1..1 /\ <<x>>[1] = x
  OBVIOUS
<1>2. ToSet(<<x>>) = {x}
  BY <1>1 DEF ToSet
<1> QED
  BY <1>2

\* The key is cleared at most once by the commands under way.
OneDel(s) == \A i, j \in DOMAIN s : s[i] = "del" /\ s[j] = "del" => i = j

\* This holds on when a command is executed, none being left once the key is cleared;
LEMMA TailOneDel ==
  ASSUME NEW s \in Seq(Command), s # <<>>, OneDel(s)
  PROVE  OneDel(Tail(s)) /\ (Head(s) = "del" => "del" \notin ToSet(Tail(s)))
<1>1. \A i \in DOMAIN Tail(s) : /\ i \in Nat \ {0}
                                /\ i + 1 \in DOMAIN s /\ Tail(s)[i] = s[i + 1]
  BY TailToSet, Len(s) \in Nat
<1>2. 1 \in DOMAIN s /\ Head(s) = s[1]
  BY TailToSet
<1>3. OneDel(Tail(s))
  <2> SUFFICES ASSUME NEW i \in DOMAIN Tail(s), NEW j \in DOMAIN Tail(s),
                      Tail(s)[i] = "del", Tail(s)[j] = "del"
               PROVE  i = j
    BY DEF OneDel
  <2>1. i + 1 = j + 1
    BY <1>1 DEF OneDel
  <2> QED
    BY <1>1, <2>1
<1>4. Head(s) = "del" => "del" \notin ToSet(Tail(s))
  <2> SUFFICES ASSUME Head(s) = "del", NEW i \in DOMAIN Tail(s), Tail(s)[i] = "del"
               PROVE  FALSE
    BY DEF ToSet
  <2>1. i + 1 = 1
    BY <1>1, <1>2 DEF OneDel
  <2> QED
    BY <1>1, <2>1
<1> QED
  BY <1>3, <1>4

\* and when one is sent, if it is not the second to clear the key.
LEMMA AppendOneDel ==
  ASSUME NEW s \in Seq(Command), OneDel(s), NEW c \in Command,
         c = "del" => "del" \notin ToSet(s)
  PROVE  OneDel(Append(s, c))
<1>1. /\ DOMAIN Append(s, c) = 1..Len(s) + 1
      /\ \A i \in 1..Len(s) : Append(s, c)[i] = s[i]
      /\ Append(s, c)[Len(s) + 1] = c
      /\ Len(s) \in Nat /\ DOMAIN s = 1..Len(s)
  OBVIOUS
<1> SUFFICES ASSUME NEW i \in 1..Len(s) + 1, NEW j \in 1..Len(s) + 1,
                    Append(s, c)[i] = "del", Append(s, c)[j] = "del"
             PROVE  i = j
  BY <1>1 DEF OneDel
<1>2. \A k \in 1..Len(s) + 1 : k \in 1..Len(s) \/ k = Len(s) + 1
  BY <1>1
<1>3. CASE c = "del"
  <2>1. \A k \in 1..Len(s) : Append(s, c)[k] # "del"
    BY <1>1, <1>3 DEF ToSet
  <2> QED
    BY <1>2, <2>1
<1>4. CASE c # "del"
  <2>1. i \in 1..Len(s) /\ j \in 1..Len(s)
    BY <1>1, <1>2, <1>4
  <2> QED
    BY <1>1, <2>1 DEF OneDel
<1> QED
  BY <1>3, <1>4

USE MainAssumption

-----------------------------------------------------------------------------
(* The inductive invariant                                                   *)

\* m lives, or has left commands behind.
Active(m) == Living(m) \/ wire[m] # <<>>

\* What m has sent and what it has got: nothing reaches a dead process, one that
\* boots awaits the answer to its first command only, and only one that has stopped
\* its timer clears the key, once.
Protocol(m) ==
  /\ ~Living(m) => replies[m] = <<>>
  /\ phase[m] = "off" => wire[m] = <<>>
  /\ phase[m] = "electing" =>
       \/ wire[m] = <<"setnx">> /\ replies[m] = <<>>
       \/ wire[m] = <<>> /\ \E taken \in BOOLEAN : replies[m] = <<<<taken, "setnx">>>>
  /\ OneDel(wire[m])
  /\ (Checking(m) \/ phase[m] = "electing") => "del" \notin ToSet(wire[m])

\* A restart waits until nothing of its predecessor is left.
OnePerHost ==
  \A m, n \in Main : HostOf[m] = HostOf[n] /\ Active(m) /\ Active(n) => m = n

\* m leads, is about to learn that it does, or is about to clear the key.
Claims(m) ==
  \/ Checking(m) /\ \/ role[m] = "leader"
                    \/ <<TRUE, "setnx">> \in ToSet(replies[m])
                    \/ <<HostOf[m], "get">> \in ToSet(replies[m])
  \/ phase[m] = "electing" /\ <<TRUE, "setnx">> \in ToSet(replies[m])
  \/ "del" \in ToSet(wire[m])

\* As long as no key has lapsed, who claims the key holds it.
LeaseInv == lapses = 0 => \A m \in Main : Claims(m) => key = HostOf[m]

ElectionIInv ==
  /\ ElectionTypeOK
  /\ \A m \in Main : Protocol(m)
  /\ OnePerHost
  /\ LeaseInv

-----------------------------------------------------------------------------
(* What the actions share                                                    *)

\* Nothing changes for n.
Untouched(n) ==
  /\ phase'[n] = phase[n] /\ role'[n] = role[n]
  /\ wire'[n] = wire[n] /\ replies'[n] = replies[n]

\* A process for which nothing changes keeps its part of the invariant.
LEMMA Frame ==
  ASSUME NEW n \in Main, Untouched(n)
  PROVE  /\ Protocol(n) => Protocol(n)'
         /\ Claims(n)' <=> Claims(n)
         /\ Active(n)' <=> Active(n)
<1> USE DEF Untouched, Living, Checking
<1>1. Protocol(n) => Protocol(n)'
  BY DEF Protocol, OneDel
<1>2. Claims(n)' <=> Claims(n)
  BY DEF Claims
<1>3. Active(n)' <=> Active(n)
  BY DEF Active
<1> QED
  BY <1>1, <1>2, <1>3

\* A step of m keeps the invariant if it keeps the part of m, brings m to life only
\* where its host has no other process, leaves the key to whoever claims it, and
\* lets m claim nothing but a key of its own.
LEMMA StepOfOne ==
  ASSUME ElectionIInv, NEW m \in Main, ElectionTypeOK', Protocol(m)',
         \A n \in Main \ {m} : Untouched(n),
         Active(m)' => \/ Active(m)
                       \/ \A n \in Main \ {m} : HostOf[n] = HostOf[m] => ~Active(n),
         lapses' = 0 => /\ lapses = 0
                        /\ \A n \in Main \ {m} : Claims(n) => key' = key
                        /\ Claims(m)' => key' = HostOf[m]
  PROVE  ElectionIInv'
<1>1. \A n \in Main : Protocol(n)'
  BY Frame DEF ElectionIInv
<1>2. OnePerHost'
  <2> SUFFICES ASSUME NEW a \in Main, NEW b \in Main, HostOf[a] = HostOf[b],
                      Active(a)', Active(b)', a # b
               PROVE  FALSE
    BY DEF OnePerHost
  <2>1. CASE a # m /\ b # m
    BY <2>1, Frame DEF ElectionIInv, OnePerHost
  <2>2. CASE a = m
    BY <2>2, Frame DEF ElectionIInv, OnePerHost
  <2>3. CASE b = m
    BY <2>3, Frame DEF ElectionIInv, OnePerHost
  <2> QED
    BY <2>1, <2>2, <2>3
<1>3. LeaseInv'
  <2> SUFFICES ASSUME lapses' = 0, NEW n \in Main, Claims(n)'
               PROVE  key' = HostOf[n]
    BY DEF LeaseInv
  <2>1. CASE n = m
    BY <2>1
  <2>2. CASE n # m
    BY <2>2, Frame DEF ElectionIInv, LeaseInv
  <2> QED
    BY <2>1, <2>2
<1> QED
  BY <1>1, <1>2, <1>3 DEF ElectionIInv

\* The types of one process.
LEMMA TypesOf ==
  ASSUME ElectionTypeOK, NEW m \in Main
  PROVE  /\ phase[m] \in Phase /\ role[m] \in {"unset", "leader", "follower"}
         /\ wire[m] \in Seq(Command) /\ replies[m] \in Seq(Reply)
         /\ HostOf[m] \in Host
BY DEF ElectionTypeOK

\* A reply that is handled is the first of those that have come.
LEMMA FirstReplyIsHead ==
  ASSUME ElectionIInv, NEW m \in Main, FirstReply(m)[2] \in {"get", "setnx", "del"}
  PROVE  /\ replies[m] # <<>> /\ FirstReply(m) = Head(replies[m])
         /\ FirstReply(m) \in ToSet(replies[m]) /\ FirstReply(m) \in Reply
         /\ Tail(replies[m]) \in Seq(Reply)
         /\ ToSet(Tail(replies[m])) \subseteq ToSet(replies[m])
         /\ Living(m)
<1>1. replies[m] # <<>> /\ FirstReply(m) = Head(replies[m])
  BY DEF FirstReply
<1>2. replies[m] \in Seq(Reply)
  BY TypesOf DEF ElectionIInv
<1>3. Living(m)
  BY <1>1 DEF ElectionIInv, Protocol
<1> QED
  BY <1>1, <1>2, <1>3, TailToSet

-----------------------------------------------------------------------------
(* Redis                                                                     *)

\* A key that is set was vacant, so nobody else claims it.
LEMMA ExecuteSetInv ==
  ASSUME ElectionIInv, NEW m \in Main, ExecuteSet(m)
  PROVE  ElectionIInv'
<1> DEFINE reply == <<key = None, "setnx">>
<1>1. /\ phase[m] \in Phase /\ wire[m] \in Seq(Command) /\ replies[m] \in Seq(Reply)
      /\ key \in Host \cup {None} /\ HostOf[m] \in Host
  BY TypesOf DEF ElectionIInv, ElectionTypeOK
<1>2. /\ phase' = phase /\ role' = role /\ lapses' = lapses
      /\ key' = IF key = None THEN HostOf[m] ELSE key
      /\ wire' = [wire EXCEPT ![m] = Tail(@)]
      /\ replies' = IF Living(m) THEN [replies EXCEPT ![m] = Append(@, reply)] ELSE replies
      /\ wire[m] # <<>> /\ Head(wire[m]) = "setnx"
  BY DEF ExecuteSet, Answer
<1>3. reply \in Reply
  BY DEF Reply
<1> HIDE DEF reply
<1>4. /\ wire'[m] = Tail(wire[m])
      /\ replies'[m] = IF Living(m) THEN Append(replies[m], reply) ELSE replies[m]
      /\ \A n \in Main \ {m} : Untouched(n)
  BY <1>2 DEF Untouched, ElectionIInv, ElectionTypeOK
<1>5. /\ Append(replies[m], reply) \in Seq(Reply)
      /\ ToSet(Append(replies[m], reply)) = ToSet(replies[m]) \cup {reply}
  BY <1>1, <1>3, AppendToSet
<1>6. /\ Tail(wire[m]) \in Seq(Command) /\ ToSet(Tail(wire[m])) \subseteq ToSet(wire[m])
  BY <1>1, <1>2, TailToSet
<1>7. ElectionTypeOK'
  BY <1>1, <1>2, <1>5, <1>6 DEF ElectionIInv, ElectionTypeOK
<1>8. Protocol(m)'
  <2>1. (~Living(m))' => replies'[m] = <<>>
    BY <1>2, <1>4 DEF ElectionIInv, Protocol, Living
  <2>2. phase'[m] # "off"
    BY <1>2 DEF ElectionIInv, Protocol
  <2>3. phase'[m] = "electing" =>
          wire'[m] = <<>> /\ \E taken \in BOOLEAN : replies'[m] = <<<<taken, "setnx">>>>
    <3> SUFFICES ASSUME phase[m] = "electing"
                 PROVE  wire'[m] = <<>> /\ replies'[m] = <<reply>>
      BY <1>2 DEF reply
    <3>1. wire[m] = <<"setnx">> /\ replies[m] = <<>> /\ Living(m)
      BY <1>2 DEF ElectionIInv, Protocol, Living
    <3> QED
      BY <3>1, <1>4
  <2>4. OneDel(wire'[m])
    BY <1>1, <1>2, <1>4, TailOneDel DEF ElectionIInv, Protocol
  <2>5. (Checking(m)' \/ phase'[m] = "electing") => "del" \notin ToSet(wire'[m])
    BY <1>2, <1>4, <1>6 DEF ElectionIInv, Protocol, Checking
  <2> QED
    BY <2>1, <2>2, <2>3, <2>4, <2>5 DEF Protocol, OneDel
<1>9. Active(m)' => Active(m)
  BY <1>2 DEF Active
<1>10. ASSUME lapses' = 0
       PROVE  /\ lapses = 0
              /\ \A n \in Main \ {m} : Claims(n) => key' = key
              /\ Claims(m)' => key' = HostOf[m]
  <2>1. lapses = 0
    BY <1>2, <1>10
  <2>2. CASE key = None
    <3>1. \A n \in Main : ~Claims(n)
      BY <2>1, <2>2, TypesOf DEF ElectionIInv, LeaseInv
    <3> QED
      BY <2>1, <2>2, <3>1, <1>2
  <2>3. CASE key # None
    <3>1. key' = key
      BY <2>3, <1>2
    <3>2. Claims(m)' => Claims(m)
      <4>1. reply \notin {<<TRUE, "setnx">>, <<HostOf[m], "get">>}
        BY <2>3 DEF reply
      <4> QED
        BY <4>1, <1>2, <1>4, <1>5, <1>6 DEF Claims, Checking
    <3> QED
      BY <2>1, <3>1, <3>2 DEF ElectionIInv, LeaseInv
  <2> QED
    BY <2>2, <2>3
<1> QED
  BY <1>4, <1>7, <1>8, <1>9, <1>10, StepOfOne

\* Who clears the key claims it, and is the last of its host to.
LEMMA ExecuteDelInv ==
  ASSUME ElectionIInv, NEW m \in Main, ExecuteDel(m)
  PROVE  /\ ElectionIInv'
         /\ lapses = 0 => key = HostOf[m]
<1> DEFINE reply == <<None, "del">>
<1>1. /\ phase[m] \in Phase /\ wire[m] \in Seq(Command) /\ replies[m] \in Seq(Reply)
  BY TypesOf DEF ElectionIInv
<1>2. /\ phase' = phase /\ role' = role /\ lapses' = lapses /\ key' = None
      /\ wire' = [wire EXCEPT ![m] = Tail(@)]
      /\ replies' = IF Living(m) THEN [replies EXCEPT ![m] = Append(@, reply)] ELSE replies
      /\ wire[m] # <<>> /\ Head(wire[m]) = "del"
  BY DEF ExecuteDel, Answer
<1>3. reply \in Reply
  BY DEF Reply
<1> HIDE DEF reply
<1>4. /\ wire'[m] = Tail(wire[m])
      /\ replies'[m] = IF Living(m) THEN Append(replies[m], reply) ELSE replies[m]
      /\ \A n \in Main \ {m} : Untouched(n)
  BY <1>2 DEF Untouched, ElectionIInv, ElectionTypeOK
<1>5. /\ Append(replies[m], reply) \in Seq(Reply)
  BY <1>1, <1>3, AppendToSet
<1>6. /\ Tail(wire[m]) \in Seq(Command)
      /\ "del" \in ToSet(wire[m]) /\ "del" \notin ToSet(Tail(wire[m]))
      /\ OneDel(Tail(wire[m]))
  BY <1>1, <1>2, TailToSet, TailOneDel DEF ElectionIInv, Protocol
<1>7. ~Checking(m) /\ phase[m] \notin {"off", "electing"}
  BY <1>2, <1>6 DEF ElectionIInv, Protocol
<1>8. ElectionTypeOK'
  BY <1>1, <1>2, <1>5, <1>6 DEF ElectionIInv, ElectionTypeOK
<1>9. Protocol(m)'
  BY <1>2, <1>4, <1>6, <1>7 DEF ElectionIInv, Protocol, OneDel, Checking, Living
<1>10. Claims(m)
  BY <1>6 DEF Claims
<1>11. lapses = 0 => key = HostOf[m]
  BY <1>10 DEF ElectionIInv, LeaseInv
<1>12. Active(m)' => Active(m)
  BY <1>2 DEF Active
<1>13. ~Claims(m)'
  BY <1>2, <1>4, <1>6, <1>7 DEF Claims, Checking
<1>14. lapses = 0 => \A n \in Main \ {m} : ~Claims(n)
  <2> SUFFICES ASSUME lapses = 0, NEW n \in Main \ {m}, Claims(n)
               PROVE  FALSE
    OBVIOUS
  <2>1. HostOf[n] = HostOf[m]
    BY <1>11 DEF ElectionIInv, LeaseInv
  <2>2. Active(m)
    BY <1>2 DEF Active
  <2>3. Active(n)
    <3>1. Checking(n) \/ phase[n] = "electing" => Living(n)
      BY DEF Checking, Living
    <3>2. "del" \in ToSet(wire[n]) => wire[n] # <<>>
      BY DEF ToSet
    <3> QED
      BY <3>1, <3>2 DEF Claims, Active
  <2> QED
    BY <2>1, <2>2, <2>3 DEF ElectionIInv, OnePerHost
<1> QED
  BY <1>2, <1>4, <1>8, <1>9, <1>11, <1>12, <1>13, <1>14, StepOfOne

\* A key that is claimed is held, so it does not expire;
LEMMA ExpireInv ==
  ASSUME ElectionIInv, Expire
  PROVE  ElectionIInv'
<1>1. /\ key' = None /\ \A m \in Main : ~Holds(m)
      /\ UNCHANGED <<lapses, phase, role, wire, replies>>
  BY DEF Expire
<1>2. ElectionTypeOK'
  BY <1>1 DEF ElectionIInv, ElectionTypeOK
<1>3. \A m \in Main : Untouched(m)
  BY <1>1 DEF Untouched
<1>4. (\A m \in Main : Protocol(m)') /\ OnePerHost'
  BY <1>3, Frame DEF ElectionIInv, OnePerHost
<1>5. LeaseInv'
  <2> SUFFICES ASSUME lapses' = 0, NEW m \in Main, Claims(m)'
               PROVE  FALSE
    BY DEF LeaseInv
  <2>1. Claims(m) /\ key = HostOf[m]
    BY <1>1, <1>3, Frame DEF ElectionIInv, LeaseInv
  <2>2. ~Checking(m) /\ wire[m] = <<>>
    BY <1>1, <2>1 DEF Holds
  <2>3. "del" \notin ToSet(wire[m])
    BY <2>2 DEF ToSet
  <2>4. phase[m] = "electing" /\ <<TRUE, "setnx">> \in ToSet(replies[m])
    BY <2>1, <2>2, <2>3 DEF Claims
  <2>5. PICK taken \in BOOLEAN : replies[m] = <<<<taken, "setnx">>>>
    BY <2>2, <2>4 DEF ElectionIInv, Protocol
  <2>6. replies[m] = <<<<TRUE, "setnx">>>>
    <3>1. ToSet(replies[m]) = {<<taken, "setnx">>}
      BY <2>5, SingletonToSet
    <3> QED
      BY <2>4, <2>5, <3>1
  <2> QED
    BY <1>1, <2>1, <2>4, <2>6 DEF Holds
<1> QED
  BY <1>2, <1>4, <1>5 DEF ElectionIInv

\* if it goes nevertheless, that is a lapse.
LEMMA LapseInv ==
  ASSUME ElectionIInv, Lapse
  PROVE  ElectionIInv'
<1>1. /\ key' = None /\ lapses' = lapses + 1 /\ lapses < MaxLapses
      /\ UNCHANGED <<phase, role, wire, replies>>
  BY DEF Lapse
<1>2. lapses' \in 0..MaxLapses /\ lapses' # 0
  BY <1>1 DEF ElectionIInv, ElectionTypeOK
<1>3. ElectionTypeOK'
  BY <1>1, <1>2 DEF ElectionIInv, ElectionTypeOK
<1>4. \A m \in Main : Untouched(m)
  BY <1>1 DEF Untouched
<1>5. (\A m \in Main : Protocol(m)') /\ OnePerHost'
  BY <1>4, Frame DEF ElectionIInv, OnePerHost
<1> QED
  BY <1>2, <1>3, <1>5 DEF ElectionIInv, LeaseInv

-----------------------------------------------------------------------------
(* MultiMainSetup                                                            *)

\* The first command of a process claims nothing yet.
LEMMA StartInv ==
  ASSUME ElectionIInv, NEW m \in Main, Start(m)
  PROVE  ElectionIInv'
<1>1. /\ phase[m] = "off" /\ phase' = [phase EXCEPT ![m] = "electing"]
      /\ \A n \in Main \ {m} : HostOf[n] = HostOf[m] => ~Active(n)
      /\ wire' = [wire EXCEPT ![m] = Append(@, "setnx")]
      /\ UNCHANGED <<key, lapses, role, replies>>
  BY DEF Start, Send, Active
<1>2. wire[m] = <<>> /\ replies[m] = <<>>
  BY <1>1 DEF ElectionIInv, Protocol, Living
<1>3. /\ phase'[m] = "electing" /\ wire'[m] = <<"setnx">> /\ replies'[m] = <<>>
      /\ \A n \in Main \ {m} : Untouched(n)
  BY <1>1, <1>2 DEF Untouched, ElectionIInv, ElectionTypeOK
<1>4. ToSet(wire'[m]) = {"setnx"} /\ ToSet(replies'[m]) = {}
  BY <1>3, SingletonToSet DEF ToSet
<1>5. ElectionTypeOK'
  <2>1. wire' = [wire EXCEPT ![m] = <<"setnx">>] /\ <<"setnx">> \in Seq(Command)
    BY <1>1, <1>2 DEF Command
  <2> QED
    BY <1>1, <2>1 DEF ElectionIInv, ElectionTypeOK, Phase
<1>6. Protocol(m)'
  BY <1>3, <1>4 DEF Protocol, OneDel, Checking, Living
<1>7. ~Claims(m)'
  BY <1>3, <1>4 DEF Claims, Checking
<1> QED
  BY <1>1, <1>3, <1>5, <1>6, <1>7, StepOfOne

\* What a check reads is true when it is read.
LEMMA CheckInv ==
  ASSUME ElectionIInv, NEW m \in Main, Check(m)
  PROVE  ElectionIInv'
<1> DEFINE reply == <<key, "get">>
<1>1. /\ Checking(m)
      /\ replies' = [replies EXCEPT ![m] = Append(@, reply)]
      /\ UNCHANGED <<key, lapses, phase, role, wire>>
  BY DEF Check
<1>2. reply \in Reply /\ replies[m] \in Seq(Reply)
  BY TypesOf DEF Reply, ElectionIInv, ElectionTypeOK
<1>3. reply # <<TRUE, "setnx">> /\ (reply = <<HostOf[m], "get">> => key = HostOf[m])
  OBVIOUS
<1> HIDE DEF reply
<1>4. replies'[m] = Append(replies[m], reply) /\ \A n \in Main \ {m} : Untouched(n)
  BY <1>1 DEF Untouched, ElectionIInv, ElectionTypeOK
<1>5. /\ Append(replies[m], reply) \in Seq(Reply)
      /\ ToSet(Append(replies[m], reply)) = ToSet(replies[m]) \cup {reply}
  BY <1>2, AppendToSet
<1>6. ElectionTypeOK'
  BY <1>1, <1>5 DEF ElectionIInv, ElectionTypeOK
<1>7. Protocol(m)'
  BY <1>1 DEF ElectionIInv, Protocol, OneDel, Checking, Living
<1>8. Claims(m)' => Claims(m) \/ key = HostOf[m]
  BY <1>1, <1>3, <1>4, <1>5 DEF Claims, Checking
<1>9. Active(m)' => Active(m)
  BY <1>1 DEF Active, Living
<1> QED
  BY <1>1, <1>4, <1>6, <1>7, <1>8, <1>9, StepOfOne DEF ElectionIInv, LeaseInv

\* A process that handles a get is not booting.
LEMMA GetIsNotFirst ==
  ASSUME ElectionIInv, NEW m \in Main, FirstReply(m)[2] \in {"get", "del"}
  PROVE  phase[m] \notin {"off", "electing", "down"}
<1>1. replies[m] # <<>> /\ FirstReply(m) = Head(replies[m]) /\ Living(m)
  BY FirstReplyIsHead
<1>2. phase[m] # "electing"
  <2> SUFFICES ASSUME phase[m] = "electing"
               PROVE  FALSE
    OBVIOUS
  <2>1. PICK taken \in BOOLEAN : replies[m] = <<<<taken, "setnx">>>>
    BY <1>1 DEF ElectionIInv, Protocol
  <2>2. FirstReply(m) = <<taken, "setnx">>
    BY <1>1, <2>1, SingletonToSet
  <2> QED
    BY <2>2
<1> QED
  BY <1>1, <1>2 DEF Living

\* A process leads only on a reply that lets it.
LEMMA FindSelfInv ==
  ASSUME ElectionIInv, NEW m \in Main, FindSelf(m)
  PROVE  ElectionIInv'
<1>1. /\ FirstReply(m) = <<HostOf[m], "get">>
      /\ role' = [role EXCEPT ![m] = "leader"]
      /\ replies' = [replies EXCEPT ![m] = Tail(@)]
      /\ UNCHANGED <<key, lapses, phase, wire>>
  BY DEF FindSelf, Handled
<1>2. /\ Living(m) /\ phase[m] \notin {"off", "electing", "down"}
      /\ FirstReply(m) \in ToSet(replies[m]) /\ Tail(replies[m]) \in Seq(Reply)
      /\ ToSet(Tail(replies[m])) \subseteq ToSet(replies[m])
  <2>1. FirstReply(m)[2] = "get"
    BY <1>1
  <2> QED
    BY <2>1, FirstReplyIsHead, GetIsNotFirst
<1>3. replies'[m] = Tail(replies[m]) /\ \A n \in Main \ {m} : Untouched(n)
  BY <1>1 DEF Untouched, ElectionIInv, ElectionTypeOK
<1>4. ElectionTypeOK'
  BY <1>1, <1>2 DEF ElectionIInv, ElectionTypeOK
<1>5. Protocol(m)'
  BY <1>1, <1>2 DEF ElectionIInv, Protocol, OneDel, Checking, Living
<1>6. Claims(m)' => Claims(m)
  BY <1>1, <1>2, <1>3 DEF Claims, Checking
<1>7. Active(m)' => Active(m)
  BY <1>1 DEF Active, Living
<1> QED
  BY <1>1, <1>3, <1>4, <1>5, <1>6, <1>7, StepOfOne DEF ElectionIInv, LeaseInv

\* Who finds another in the key does not lead.
LEMMA FindOtherInv ==
  ASSUME ElectionIInv, NEW m \in Main, FindOther(m)
  PROVE  ElectionIInv'
<1>1. /\ FirstReply(m)[2] = "get"
      /\ role' = IF role[m] = "leader" THEN [role EXCEPT ![m] = "follower"] ELSE role
      /\ replies' = [replies EXCEPT ![m] = Tail(@)]
      /\ UNCHANGED <<key, lapses, phase, wire>>
  BY DEF FindOther, Handled
<1>2. /\ Living(m) /\ phase[m] \notin {"off", "electing", "down"}
      /\ Tail(replies[m]) \in Seq(Reply)
      /\ ToSet(Tail(replies[m])) \subseteq ToSet(replies[m])
  BY <1>1, FirstReplyIsHead, GetIsNotFirst
<1>3. /\ replies'[m] = Tail(replies[m]) /\ role'[m] # "leader"
      /\ \A n \in Main \ {m} : Untouched(n)
  BY <1>1 DEF Untouched, ElectionIInv, ElectionTypeOK
<1>4. ElectionTypeOK'
  BY <1>1, <1>2 DEF ElectionIInv, ElectionTypeOK
<1>5. Protocol(m)'
  BY <1>1, <1>2 DEF ElectionIInv, Protocol, OneDel, Checking, Living
<1>6. Claims(m)' => Claims(m)
  BY <1>1, <1>2, <1>3 DEF Claims, Checking
<1>7. Active(m)' => Active(m)
  BY <1>1 DEF Active, Living
<1> QED
  BY <1>1, <1>3, <1>4, <1>5, <1>6, <1>7, StepOfOne DEF ElectionIInv, LeaseInv

\* Who finds the key vacant does not lead, but tries to.
LEMMA FindVacantInv ==
  ASSUME ElectionIInv, NEW m \in Main, FindVacant(m)
  PROVE  ElectionIInv'
<1>1. /\ FirstReply(m)[2] = "get"
      /\ role' = [role EXCEPT ![m] = "follower"]
      /\ wire' = [wire EXCEPT ![m] = Append(@, "setnx")]
      /\ replies' = [replies EXCEPT ![m] = Tail(@)]
      /\ UNCHANGED <<key, lapses, phase>>
  BY DEF FindVacant, Handled, Send
<1>2. /\ Living(m) /\ phase[m] \notin {"off", "electing", "down"}
      /\ Tail(replies[m]) \in Seq(Reply)
      /\ ToSet(Tail(replies[m])) \subseteq ToSet(replies[m])
  BY <1>1, FirstReplyIsHead, GetIsNotFirst
<1>3. wire[m] \in Seq(Command) /\ "setnx" \in Command
  BY TypesOf DEF ElectionIInv, Command
<1>4. /\ Append(wire[m], "setnx") \in Seq(Command)
      /\ ToSet(Append(wire[m], "setnx")) = ToSet(wire[m]) \cup {"setnx"}
  BY <1>3, AppendToSet
<1>5. OneDel(Append(wire[m], "setnx"))
  BY <1>3, AppendOneDel DEF ElectionIInv, Protocol
<1>6. /\ replies'[m] = Tail(replies[m]) /\ wire'[m] = Append(wire[m], "setnx")
      /\ role'[m] = "follower" /\ \A n \in Main \ {m} : Untouched(n)
  BY <1>1 DEF Untouched, ElectionIInv, ElectionTypeOK
<1>7. ElectionTypeOK'
  BY <1>1, <1>2, <1>4 DEF ElectionIInv, ElectionTypeOK
<1>8. Protocol(m)'
  <2>1. "del" \in ToSet(wire'[m]) => "del" \in ToSet(wire[m])
    BY <1>4, <1>6
  <2>2. phase'[m] = phase[m] /\ OneDel(wire'[m])
    BY <1>1, <1>5, <1>6
  <2> QED
    BY <1>2, <2>1, <2>2 DEF ElectionIInv, Protocol, OneDel, Checking, Living
<1>9. Claims(m)' => Claims(m)
  BY <1>1, <1>2, <1>4, <1>6 DEF Claims, Checking
<1>10. Active(m)
  BY <1>2 DEF Active
<1> QED
  BY <1>1, <1>6, <1>7, <1>8, <1>9, <1>10, StepOfOne DEF ElectionIInv, LeaseInv

\* Who leads after its attempt was told so.
LEMMA TryReplyInv ==
  ASSUME ElectionIInv, NEW m \in Main, TryReply(m)
  PROVE  ElectionIInv'
<1>1. /\ FirstReply(m)[2] = "setnx"
      /\ role' = [role EXCEPT ![m] = IF FirstReply(m)[1] THEN "leader" ELSE "follower"]
      /\ phase' = IF phase[m] = "electing" THEN [phase EXCEPT ![m] = "up"] ELSE phase
      /\ replies' = [replies EXCEPT ![m] = Tail(@)]
      /\ UNCHANGED <<key, lapses, wire>>
  BY DEF TryReply, Handled
<1>2. /\ Living(m) /\ replies[m] # <<>> /\ FirstReply(m) \in Reply
      /\ FirstReply(m) \in ToSet(replies[m]) /\ Tail(replies[m]) \in Seq(Reply)
      /\ ToSet(Tail(replies[m])) \subseteq ToSet(replies[m])
  BY <1>1, FirstReplyIsHead
<1>3. PICK taken \in BOOLEAN : FirstReply(m) = <<taken, "setnx">>
  BY <1>1, <1>2 DEF Reply
<1>4. /\ replies'[m] = Tail(replies[m]) /\ wire'[m] = wire[m]
      /\ role'[m] = IF taken THEN "leader" ELSE "follower"
      /\ phase'[m] = IF phase[m] = "electing" THEN "up" ELSE phase[m]
      /\ \A n \in Main \ {m} : Untouched(n)
  BY <1>1, <1>3 DEF Untouched, ElectionIInv, ElectionTypeOK
<1>5. ElectionTypeOK'
  <2>1. phase[m] \notin {"off", "down"}
    BY <1>2 DEF Living
  <2>2. role' \in [Main -> {"unset", "leader", "follower"}]
    BY <1>1, <1>3 DEF ElectionIInv, ElectionTypeOK
  <2>3. phase' \in [Main -> Phase]
    BY <1>1 DEF ElectionIInv, ElectionTypeOK, Phase
  <2>4. replies' \in [Main -> Seq(Reply)]
    BY <1>1, <1>2 DEF ElectionIInv, ElectionTypeOK
  <2>5. ASSUME NEW n \in Main
        PROVE  role'[n] = "unset" <=> phase'[n] \in {"off", "electing", "down"}
    <3>1. CASE n = m
      BY <3>1, <2>1, <1>4
    <3>2. CASE n # m
      BY <3>2, <1>4 DEF Untouched, ElectionIInv, ElectionTypeOK
    <3> QED
      BY <3>1, <3>2
  <2> QED
    BY <1>1, <2>2, <2>3, <2>4, <2>5 DEF ElectionIInv, ElectionTypeOK
<1>6. Protocol(m)'
  <2>1. Living(m)' /\ phase'[m] # "electing" /\ phase'[m] # "off"
    BY <1>2, <1>4 DEF Living
  <2>2. Checking(m)' => "del" \notin ToSet(wire'[m])
    BY <1>4 DEF ElectionIInv, Protocol, Checking
  <2> QED
    BY <1>4, <2>1, <2>2 DEF ElectionIInv, Protocol, OneDel
<1>7. Claims(m)' => Claims(m)
  <2>1. CASE phase[m] = "electing"
    <3>1. PICK t \in BOOLEAN : replies[m] = <<<<t, "setnx">>>>
      BY <1>2, <2>1 DEF ElectionIInv, Protocol
    <3>2. ToSet(replies'[m]) = {}
      BY <1>4, <3>1, SingletonToSet DEF ToSet
    <3> QED
      BY <1>2, <1>3, <1>4, <2>1, <3>2 DEF Claims, Checking
  <2>2. CASE phase[m] # "electing"
    BY <1>2, <1>3, <1>4, <2>2 DEF Claims, Checking
  <2> QED
    BY <2>1, <2>2
<1>8. Active(m)
  BY <1>2 DEF Active
<1> QED
  BY <1>1, <1>4, <1>5, <1>6, <1>7, <1>8, StepOfOne DEF ElectionIInv, LeaseInv

\* A process that stops goes on to check until it has resigned.
LEMMA StopInv ==
  ASSUME ElectionIInv, NEW m \in Main, Stop(m)
  PROVE  ElectionIInv'
<1>1. /\ phase[m] = "up" /\ phase' = [phase EXCEPT ![m] = "stopping"]
      /\ UNCHANGED <<key, lapses, role, wire, replies>>
  BY DEF Stop
<1>2. phase'[m] = "stopping" /\ \A n \in Main \ {m} : Untouched(n)
  BY <1>1 DEF Untouched, ElectionIInv, ElectionTypeOK
<1>3. ElectionTypeOK'
  BY <1>1 DEF ElectionIInv, ElectionTypeOK, Phase
<1>4. Protocol(m)'
  BY <1>1, <1>2 DEF ElectionIInv, Protocol, OneDel, Checking, Living
<1>5. Claims(m)' => Claims(m)
  BY <1>1, <1>2 DEF Claims, Checking
<1>6. Active(m)
  BY <1>1 DEF Active, Living
<1> QED
  BY <1>1, <1>2, <1>3, <1>4, <1>5, <1>6, StepOfOne DEF ElectionIInv, LeaseInv

\* Of a process that ends only what it has sent is left.
LEMMA EndInv ==
  ASSUME ElectionIInv, NEW m \in Main, Living(m), End(m)
  PROVE  ElectionIInv'
<1>1. /\ phase' = [phase EXCEPT ![m] = "down"] /\ role' = [role EXCEPT ![m] = "unset"]
      /\ replies' = [replies EXCEPT ![m] = <<>>]
      /\ UNCHANGED <<key, lapses, wire>>
  BY DEF End
<1>2. /\ phase'[m] = "down" /\ replies'[m] = <<>>
      /\ \A n \in Main \ {m} : Untouched(n)
  BY <1>1 DEF Untouched, ElectionIInv, ElectionTypeOK
<1>3. ElectionTypeOK'
  BY <1>1 DEF ElectionIInv, ElectionTypeOK, Phase
<1>4. Protocol(m)'
  BY <1>1, <1>2 DEF ElectionIInv, Protocol, OneDel, Checking, Living
<1>5. Claims(m)' => Claims(m)
  BY <1>1, <1>2 DEF Claims, Checking
<1>6. Active(m)
  BY DEF Active
<1> QED
  BY <1>1, <1>2, <1>3, <1>4, <1>5, <1>6, StepOfOne DEF ElectionIInv, LeaseInv

\* A leader that resigns goes on to claim the key until it is cleared.
LEMMA ResignInv ==
  ASSUME ElectionIInv, NEW m \in Main, Resign(m)
  PROVE  ElectionIInv'
<1>1. phase[m] = "stopping"
  BY DEF Resign
<1>2. CASE role[m] # "leader"
  BY <1>1, <1>2, EndInv DEF Resign, Living
<1>3. CASE role[m] = "leader"
  <2>1. /\ phase' = [phase EXCEPT ![m] = "resigned"]
        /\ wire' = [wire EXCEPT ![m] = Append(@, "del")]
        /\ UNCHANGED <<key, lapses, role, replies>>
    BY <1>3 DEF Resign, Send
  <2>2. wire[m] \in Seq(Command) /\ "del" \in Command
    BY TypesOf DEF ElectionIInv, Command
  <2>3. /\ Append(wire[m], "del") \in Seq(Command)
        /\ "del" \notin ToSet(wire[m]) /\ OneDel(Append(wire[m], "del"))
    BY <1>1, <2>2, AppendOneDel, AppendToSet DEF ElectionIInv, Protocol, Checking
  <2>4. /\ phase'[m] = "resigned" /\ wire'[m] = Append(wire[m], "del")
        /\ \A n \in Main \ {m} : Untouched(n)
    BY <2>1 DEF Untouched, ElectionIInv, ElectionTypeOK
  <2>5. ElectionTypeOK'
    BY <1>1, <2>1, <2>3 DEF ElectionIInv, ElectionTypeOK, Phase
  <2>6. Protocol(m)'
    <3>1. OneDel(wire'[m])
      BY <2>3, <2>4
    <3> QED
      BY <2>4, <3>1 DEF Protocol, OneDel, Checking, Living
  <2>7. Claims(m) /\ Active(m)
    BY <1>1, <1>3 DEF Claims, Checking, Active, Living
  <2> QED
    BY <2>1, <2>4, <2>5, <2>6, <2>7, StepOfOne DEF ElectionIInv, LeaseInv
<1> QED
  BY <1>2, <1>3

-----------------------------------------------------------------------------
(* The theorems                                                              *)

\* The invariant holds before anything has started,
LEMMA ElectionInitInv == ElectionInit => ElectionIInv
<1> SUFFICES ASSUME ElectionInit
             PROVE  ElectionIInv
  OBVIOUS
<1>1. ElectionTypeOK
  BY DEF ElectionInit, ElectionTypeOK, Phase
<1>2. \A m \in Main : ToSet(wire[m]) = {}
  BY DEF ElectionInit, ToSet
<1>3. \A m \in Main : Protocol(m) /\ ~Active(m) /\ ~Claims(m)
  BY <1>2 DEF ElectionInit, Protocol, Active, Claims, OneDel, Living, Checking
<1> QED
  BY <1>1, <1>3 DEF ElectionIInv, OnePerHost, LeaseInv

\* and after every step.
LEMMA ElectionNextInv == ElectionIInv /\ [ElectionNext]_electionVars => ElectionIInv'
<1> SUFFICES ASSUME ElectionIInv, [ElectionNext]_electionVars
             PROVE  ElectionIInv'
  OBVIOUS
<1>1. ASSUME NEW m \in Main, Start(m)
      PROVE  ElectionIInv'
  BY <1>1, StartInv
<1>2. ASSUME NEW m \in Main, Check(m)
      PROVE  ElectionIInv'
  BY <1>2, CheckInv
<1>3. ASSUME NEW m \in Main, Execute(m)
      PROVE  ElectionIInv'
  BY <1>3, ExecuteSetInv, ExecuteDelInv DEF Execute
<1>4. ASSUME NEW m \in Main, Handle(m)
      PROVE  ElectionIInv'
  BY <1>4, FindSelfInv, FindOtherInv, FindVacantInv, TryReplyInv DEF Handle
<1>5. ASSUME NEW m \in Main, Stop(m)
      PROVE  ElectionIInv'
  BY <1>5, StopInv
<1>6. ASSUME NEW m \in Main, Resign(m)
      PROVE  ElectionIInv'
  BY <1>6, ResignInv
<1>7. ASSUME NEW m \in Main, Exit(m)
      PROVE  ElectionIInv'
  BY <1>7, FirstReplyIsHead, EndInv DEF Exit
<1>8. ASSUME NEW m \in Main, Crash(m)
      PROVE  ElectionIInv'
  BY <1>8, EndInv DEF Crash
<1>9. ASSUME Expire
      PROVE  ElectionIInv'
  BY <1>9, ExpireInv
<1>10. ASSUME Lapse
       PROVE  ElectionIInv'
  BY <1>10, LapseInv
<1>11. ASSUME UNCHANGED electionVars
       PROVE  ElectionIInv'
  <2>1. UNCHANGED <<key, lapses, phase, role, wire, replies>>
    BY <1>11 DEF electionVars
  <2>2. \A n \in Main : Untouched(n)
    BY <2>1 DEF Untouched
  <2>3. (\A m \in Main : Protocol(m)') /\ OnePerHost' /\ LeaseInv'
    BY <2>1, <2>2, Frame DEF ElectionIInv, OnePerHost, LeaseInv
  <2>4. ElectionTypeOK'
    BY <2>1 DEF ElectionIInv, ElectionTypeOK
  <2> QED
    BY <2>3, <2>4 DEF ElectionIInv
<1> QED
  BY <1>1, <1>2, <1>3, <1>4, <1>5, <1>6, <1>7, <1>8, <1>9, <1>10, <1>11
  DEF ElectionNext

\* Every behaviour keeps the invariant.
LEMMA ElectionInvariant == ElectionSpec => []ElectionIInv
<1>1. ElectionInit => ElectionIInv
  BY ElectionInitInv
<1>2. ElectionIInv /\ [ElectionNext]_electionVars => ElectionIInv'
  BY ElectionNextInv
<1> QED
  BY <1>1, <1>2, PTL DEF ElectionSpec

\* The variables keep their types, and a process that has booted leads or follows.
THEOREM TypeCorrect == ElectionSpec => []ElectionTypeOK
<1>1. ElectionIInv => ElectionTypeOK
  BY DEF ElectionIInv
<1> QED
  BY <1>1, ElectionInvariant, PTL

\* While no key lapses under a living leader, there are never two leaders, however
\* many processes start, crash, restart under the same host id and shut down.
THEOREM AtMostOneLeader == ElectionSpec => []OneLeaderUnlessLapsed
<1>1. ElectionIInv => OneLeaderUnlessLapsed
  <2> SUFFICES ASSUME ElectionIInv, lapses = 0
               PROVE  Cardinality(Leaders) <= 1
    BY DEF OneLeaderUnlessLapsed
  <2>1. \A m, n \in Leaders : m = n
    <3> SUFFICES ASSUME NEW m \in Leaders, NEW n \in Leaders
                 PROVE  m = n
      OBVIOUS
    <3>1. /\ m \in Main /\ Claims(m) /\ Active(m)
          /\ n \in Main /\ Claims(n) /\ Active(n)
      BY DEF Leaders, Claims, Active, Checking, Living
    <3> QED
      BY <3>1 DEF ElectionIInv, LeaseInv, OnePerHost
  <2>2. CASE Leaders = {}
    BY <2>2, FS_EmptySet
  <2>3. CASE Leaders # {}
    <3>1. PICK m \in Leaders : TRUE
      BY <2>3
    <3>2. Leaders = {m}
      BY <2>1
    <3>3. Cardinality({m}) = 1
      BY FS_Singleton
    <3> QED
      BY <3>2, <3>3
  <2> QED
    BY <2>2, <2>3
<1> QED
  BY <1>1, ElectionInvariant, PTL

\* As long as no key has lapsed, a leader that shuts down clears its own key.
THEOREM ResignsItsOwn == ElectionSpec => ResignClearsOwnKey
<1>1. ElectionIInv /\ [ElectionNext]_electionVars =>
        [\A m \in Main : (ExecuteDel(m) /\ lapses = 0) => key = HostOf[m]]_electionVars
  BY ExecuteDelInv
<1> QED
  BY <1>1, ElectionInvariant, PTL DEF ElectionSpec, ResignClearsOwnKey

=============================================================================
