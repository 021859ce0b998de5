--------------------------- MODULE MCSettableLimit ---------------------------
(* Instances of SettableLimit for TLC. *)
EXTENDS SettableLimit

CONSTANTS s1, s2, c1, c2

TwoSetters   == {s1, s2}
TwoListeners == {c1, c2}
OneToFour    == 1 .. 4
=============================================================================
