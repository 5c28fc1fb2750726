--------------------------- MODULE MCTokenExpiry ---------------------------
(* A minute is 2 units, the pre-refresh interval 5, an hour 10.            *)
EXTENDS TokenExpiry

AnswerLifetimes == {10}

SketchIntervals == {0, 1, 12}
=============================================================================
