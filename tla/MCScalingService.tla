-------------------------- MODULE MCScalingService --------------------------
(* Two mains and two workers.                                                *)
EXTENDS ScalingService, TLC

CONSTANTS m1, m2, w1, w2, e1, e2

MCSymmetry == Permutations(Worker) \cup Permutations(Main)

=============================================================================
