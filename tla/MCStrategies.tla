----------------------------- MODULE MCStrategies -----------------------------
(* Instances of Strategies for TLC. *)
EXTENDS Strategies, TLC

CONSTANTS c1, c2, c3, r1, r2, r3, r4, r5, r6, r7, live, batch, write, read, any

ThreeCallers    == {c1, c2, c3}
ZeroToThree     == 0 .. 3
SevenRequests   == {r1, r2, r3, r4, r5, r6, r7}
ThreeRequests   == {r1, r2, r3}
FourRequests    == {r1, r2, r3, r4}
ThreePartitions == {live, batch, Unknown}
Percentages     == (live :> 2) @@ (batch :> 1) @@ (Unknown :> 0)
TwoNames        == {"live", "other"}
OneName         == {"live"}
LiveOnly        == [n \in OneName |-> live]
One             == {1}
ZeroAndThree    == {0, 3}

\* Half of the limit for writes, a quarter for reads, and a partition of 0%
\* whose predicate overlaps the other two.
WriteReadAny    == {write, read, any}
PredPercentages == (write :> 2) @@ (read :> 1) @@ (any :> 0)
TwoContexts     == {"w", "r"}
Overlapping     == (write :> {"w"}) @@ (read :> {"r"}) @@ (any :> {"w", "r"})
WriteThenAny    == <<write, any>>

\* The strategies that are not in use need not start in more than one way.
MCInit ==
    /\ StrategiesInit
    /\ kind # "simple" => simpleLimit = 1
    /\ kind # "precise" => preciseLimit = 1

MCSpec == MCInit /\ [][StrategiesNext]_allVars
=============================================================================
