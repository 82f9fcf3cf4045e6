---------------------------- MODULE MCWaitTracker ----------------------------
(* Small instances of WaitTracker: two main processes and a third one that    *)
(* restarts the first under its host id, or two of them, or one.             *)
EXTENDS WaitTracker, TLC

CONSTANTS m1, m2, m3, h1, h2, e1

ThreeMains == {m1, m2, m3}
TwoMains == {m1, m2}
OneMain == {m1}
MCHostOf == m1 :> h1 @@ m2 :> h2 @@ m3 :> h1
TwoHosts == m1 :> h1 @@ m2 :> h2
SameHost == m1 :> h1 @@ m2 :> h1
OneHost == m1 :> h1
SlowFirst == [m \in Main |-> IF m = m1 THEN 2 ELSE 1]
OneEach == [m \in Main |-> 1]
MCHost == {h1, h2}
MCExecution == {e1}

=============================================================================
