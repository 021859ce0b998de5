---------------------------- MODULE MCWindowedLimit ----------------------------
(* Instances of WindowedLimit for TLC; one unit of time is 100 ms. *)
EXTENDS WindowedLimit

Times     == {0, 2, 5}
ZeroToTwo == 0 .. 2
\* below, at and above the smallest window size that the constructor accepts
Loads     == {9, 10, 11}
=============================================================================
