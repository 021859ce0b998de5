-------------------------- MODULE MCBlockingLimiter --------------------------
(* Instances of BlockingLimiter for TLC. *)
EXTENDS BlockingLimiter

CONSTANTS p1, p2, c1, c2, c3, c4

TwoProcs      == {p1, p2}
FourChannels  == {c1, c2, c3, c4}
OneOrTwo      == {1, 2}
=============================================================================
