-------------------------- MODULE MCMetricRegistry --------------------------
(* Instances of MetricRegistry for TLC. *)
EXTENDS MetricRegistry

CONSTANTS c1, c2, p1, p2

TwoClients == {c1, c2}
OneClient  == {c1}
TwoPollers == {p1, p2}
TwoNames   == {"read", "write"}
=============================================================================
