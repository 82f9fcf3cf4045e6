---------------------------- MODULE TaskService ----------------------------
(***************************************************************************)
(* What a Code node is promised when it hands its code to the task runners *)
(* (TaskRequester.startTask): the code runs at most once, and only after   *)
(* the request was granted a task, whatever becomes of runners, offers and *)
(* timeouts; and it is answered, once, with a result or an error.          *)
(***************************************************************************)
EXTENDS Naturals

CONSTANT Request

VARIABLES
  status,   \* [Request -> "idle", "waiting", "running" or "answered"]
  granted,  \* requests that were granted a task
  runs      \* [Request -> how often its code has begun to run]

vars == <<status, granted, runs>>

Init ==
  /\ status = [q \in Request |-> "idle"]
  /\ granted = {}
  /\ runs = [q \in Request |-> 0]

Ask(q) ==
  /\ status[q] = "idle"
  /\ status' = [status EXCEPT ![q] = "waiting"]
  /\ UNCHANGED <<granted, runs>>

Refuse(q) ==
  /\ status[q] = "idle"
  /\ status' = [status EXCEPT ![q] = "answered"]
  /\ UNCHANGED <<granted, runs>>

Grant(q) ==
  /\ status[q] = "waiting"
  /\ status' = [status EXCEPT ![q] = "running"]
  /\ granted' = granted \cup {q}
  /\ UNCHANGED runs

\* The code may begin to run when the request has just been cancelled.
Execute(q) ==
  /\ q \in granted /\ runs[q] = 0
  /\ runs' = [runs EXCEPT ![q] = 1]
  /\ UNCHANGED <<status, granted>>

\* The requests of a runner that ends are answered together.
Answer(Q) ==
  /\ Q # {} /\ \A q \in Q : status[q] \in {"waiting", "running"}
  /\ status' = [q \in Request |-> IF q \in Q THEN "answered" ELSE status[q]]
  /\ UNCHANGED <<granted, runs>>

Next ==
  \/ \E q \in Request : Ask(q) \/ Refuse(q) \/ Grant(q) \/ Execute(q)
  \/ \E Q \in SUBSET Request : Answer(Q)

Safety == Init /\ [][Next]_vars

\* Every request that was asked for is answered.
Spec ==
  /\ Safety
  /\ \A q \in Request : WF_vars(Answer({q}))

=============================================================================
