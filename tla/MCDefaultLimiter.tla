--------------------------- MODULE MCDefaultLimiter ---------------------------
(* Instances of DefaultLimiter for TLC. *)
EXTENDS DefaultLimiter

CONSTANTS p1, p2

TwoProcs  == {p1, p2}
\* An algorithm may estimate 0, which the strategy turns into 1.
ZeroToTwo == 0 .. 2
=============================================================================
