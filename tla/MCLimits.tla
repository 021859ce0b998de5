------------------------------- MODULE MCLimits -------------------------------
(* An instance of Limits for TLC.  One unit of the windows' time is 100 ms. *)
EXTENDS Limits, TLC

CONSTANTS c1, c2, p1, p2

Times     == {0, 2, 5}
ZeroToTwo == 0 .. 2
\* at and above the smallest window size that the constructor accepts
Loads     == {10, 11}

\* The RTTs include 0, which MinimumMeasurement takes for "none yet".
JittersUsed      == {2, 3}
PowersAndZero    == {0, 1, 2, 8}
LowAndHigh       == {2, 6}
ZeroToThree      == 0 .. 3
LowMediumHigh    == {1, 3, 6}
ZeroOneThree     == {0, 1, 3}
OneAndSix        == {1, 6}

\* c1 registers a supplier without a value, c2 one with a value.
TwoClients   == {c1, c2}
WithoutValue == {c1}
TwoNames     == {"read", "write"}
TwoPollers   == {p1, p2}

\* Two IDs of the same name, and one whose name is that of another's timing.
ThreeIDs     == {"api.rtt", "api_rtt", "api.rtt.ms"}
SanitizedIDs == ("api.rtt" :> "api_rtt") @@ ("api_rtt" :> "api_rtt") @@
                ("api.rtt.ms" :> "api_rtt_ms")
ForeignNames == {"api_rtt", "api_rtt_ms"}
OthersAlike  == {<<"api.rtt", "timing">>, <<"api.rtt.ms", "distribution">>, <<"api_rtt", "gauge">>}

\* The systems that do not run need not start in more than one way.
MCInit ==
    /\ LimitsInit
    /\ kind # "vegas" => vegasJitter = 2
    /\ kind # "gradient" => gradCountdown = 4

MCSpec == MCInit /\ [][LimitsNext]_limitsVars /\ registry!Fairness
=============================================================================
