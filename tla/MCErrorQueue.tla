---------------------------- MODULE MCErrorQueue ----------------------------
(* Instances of ErrorQueue for TLC. *)
EXTENDS ErrorQueue

CONSTANTS w1, w2, r1, big

\* A server that performs an operation it is asked for again and again.
LiveSpec ==
    /\ Spec /\ Fairness
    /\ \A o \in Ops : SF_vars(AttemptSucceeds /\ op = o)

=============================================================================
