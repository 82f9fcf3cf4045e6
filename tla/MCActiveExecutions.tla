-------------------------- MODULE MCActiveExecutions --------------------------
(* Small instances of ActiveExecutions.                                       *)
EXTENDS ActiveExecutions, TLC

CONSTANTS n1, n2, r1, r2, b1, e1, e2

\* A new execution that may wait, two callers that try to resume it, and a row
\* that an earlier process left enqueued.
ResumeCall == {n1, r1, r2, b1}
ResumeExecutionOf == n1 :> e1 @@ r1 :> e1 @@ r2 :> e1 @@ b1 :> e2
ResumeOrigin == n1 :> "new" @@ r1 :> "resume" @@ r2 :> "resume" @@ b1 :> "boot"
ResumeStatus == e1 :> "none" @@ e2 :> "new"

\* Two new executions, of which the limit lets one run.
NewCall == {n1, n2}
NewExecution == {e1, e2}
NewExecutionOf == n1 :> e1 @@ n2 :> e2
NewOrigin == [c \in NewCall |-> "new"]

\* A row left by an earlier process, and a new execution.
BootCall == {b1, n2}
BootExecutionOf == b1 :> e1 @@ n2 :> e2
BootOrigin == b1 :> "boot" @@ n2 :> "new"
BootStatus == e1 :> "new" @@ e2 :> "none"

AllWebhook == [c \in Call |-> "webhook"]
NoRows == [e \in Execution |-> "none"]
Unlimited == -1

=============================================================================
