--------------------------- MODULE MCStreamSession ---------------------------
(* Instances of StreamSession for TLC.  v1 and v2 are two values of one CRC *)
(* (the string of a number and the number), v3 is another.                  *)
EXTENDS StreamSession

CONSTANTS v1, v2, v3

TextCrc == [v \in Values \cup {NoValue} |->
              IF v = NoValue THEN 0 ELSE IF v = v3 THEN 2 ELSE 1]

LiveSpec == Spec /\ Fairness

=============================================================================
