------------------------ MODULE MCConcurrencyControl ------------------------
(* A small instance of ConcurrencyControl: four production reservations, two *)
(* of them resumes of one execution, one evaluation and one manual.          *)
EXTENDS ConcurrencyControl, TLC

CONSTANTS c1, c2, c3, c4, c5, c6, e1, e2, e3, e4, e5

MCCall == {c1, c2, c3, c4, c5, c6}
MCExecution == {e1, e2, e3, e4, e5}
MCExecutionOf ==
  c1 :> e1 @@ c2 :> e2 @@ c3 :> e2 @@ c4 :> e3 @@ c5 :> e4 @@ c6 :> e5
MCModeOf == c1 :> "webhook" @@ c2 :> "trigger" @@ c3 :> "webhook"
              @@ c4 :> "webhook" @@ c5 :> "evaluation" @@ c6 :> "manual"

\* A configured limit below -1, which the constructor takes as unlimited.
MCBelowUnlimited == -2

=============================================================================
