--------------------------- MODULE MCTaskRunners ---------------------------
(* A launcher that makes one offer, and a runner that makes two.             *)
EXTENDS TaskRunners, TLC

CONSTANTS launcher, runner, q1, q2

MCMaxOffers == [r \in Runner |-> IF r \in Launcher THEN 1 ELSE 2]

MCSymmetry == Permutations(Request)

=============================================================================
