-------------------------- MODULE MCMultiMainSetup --------------------------
(* Two main processes and a third one that restarts the first under its host *)
(* id, as a container with a fixed host name does.                           *)
EXTENDS MultiMainSetup, TLC

CONSTANTS m1, m2, m3, h1, h2

MCMain == {m1, m2, m3}
MCHost == {h1, h2}
MCMaxOutstanding == [m \in MCMain |-> 2]
MCHostOf == m1 :> h1 @@ m2 :> h2 @@ m3 :> h1

=============================================================================
