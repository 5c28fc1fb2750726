---------------------------- MODULE MCStreamTasks ----------------------------
(* Instances of StreamTasks for TLC. *)
EXTENDS StreamTasks

CONSTANTS s1, s2, d1, t1, t2

LiveSpec == Spec /\ Fairness

=============================================================================
