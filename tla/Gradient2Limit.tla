---------------------------- MODULE Gradient2Limit ----------------------------
(***************************************************************************)
(* limit/gradient2.go: the estimate follows the ratio of a long-term       *)
(* average RTT (measurements/exponential_average.go) to the last RTT       *)
(* (measurements/single.go).  OnSample runs under l.mu and notifies before *)
(* it returns, so it is one step.  It does not look at didDrop.            *)
(*                                                                         *)
(* float64 values are fixed-point numbers here: the estimate is a multiple *)
(* of 1/Unit, rounded down, and the average a multiple of 1/Unit, rounded  *)
(* up: like its float64 it is 0 only if every sample was.  An RTT of 0 is  *)
(* the average of a window of drops.                                       *)
(***************************************************************************)
EXTENDS Integers, FiniteSetsExt

CONSTANTS InitialLimit, MinLimit, MaxLimit,
          Unit,                   \* units in a value of 1
          SmoothNum, SmoothDen,   \* the smoothing, a fraction
          QueueSize,              \* what queueSizeFunc returns
          LongWindow,             \* the window of the average
          WarmupWindow,           \* 10 in the constructor
          RTTs, InFlights         \* the arguments of OnSample

VARIABLES estimate,  \* l.estimatedLimit, in units, or NaN
          notified,  \* the last value the listeners were given
          long,      \* l.longRTT: its value, in units, ...
          sum,       \* ... the sum of its warm-up samples ...
          count,     \* ... and their number
          seen       \* history: the RTTs of all samples

vars == <<estimate, notified, long, sum, count, seen>>

Larger(a, b)  == IF a < b THEN b ELSE a
Smaller(a, b) == IF b < a THEN b ELSE a
CeilDiv(a, b) == (a + b - 1) \div b

\* no estimate is negative
NaN == -1

\* int(NaN) depends on the processor: the smallest integer or 0
SmallestInt == -1000
IntOf(v) == IF v = NaN THEN {SmallestInt, 0} ELSE {v \div Unit}

Init ==
    /\ estimate = InitialLimit * Unit /\ notified = InitialLimit
    /\ long = 0 /\ sum = 0 /\ count = 0
    /\ seen = {}

-----------------------------------------------------------------------------
(* ExponentialAverageMeasurement *)

\* Fault: the average is an integer.
FaultAdded(rtt) ==
    IF count < WarmupWindow THEN Unit * ((sum + rtt) \div (count + 1))
    ELSE CeilDiv(long * (LongWindow - 1) + 2 * Unit * rtt, LongWindow + 1)

\* Add: the plain average of the first samples, then a factor of
\* 2 / (LongWindow + 1) for each new one
Added(rtt) ==
    IF count < WarmupWindow THEN CeilDiv(Unit * (sum + rtt), count + 1)
    ELSE CeilDiv(long * (LongWindow - 1) + 2 * Unit * rtt, LongWindow + 1)

\* Fault: an average above the last RTT is halved.
FaultReduced(avg, rtt) == IF avg > Unit * rtt THEN CeilDiv(avg, 2) ELSE avg

\* Update: an average more than twice the last RTT is reduced by a tenth; one
\* of zeros is left alone, since 0/0 > 2 is false
Reduced(avg, rtt) == IF avg > 2 * Unit * rtt THEN CeilDiv(avg * 9, 10) ELSE avg

-----------------------------------------------------------------------------
\* estimate * max(0.5, min(1.0, avg / rtt)); avg/0 is +Inf, but 0/0 NaN
Scaled(avg, rtt) ==
    IF avg >= Unit * rtt THEN estimate
    ELSE IF 2 * avg <= Unit * rtt THEN estimate \div 2
    ELSE (estimate * avg) \div (Unit * rtt)

Smoothed(new) == (estimate * (SmoothDen - SmoothNum) + new * SmoothNum) \div SmoothDen

\* Fault: the minimum is not applied.
FaultBounded(new) == Smaller(Unit * MaxLimit, new)

Bounded(new) == Larger(Unit * MinLimit, Smaller(Unit * MaxLimit, new))

\* NaN goes through every operation, math.Max and math.Min included
NewEstimate(avg, rtt) ==
    IF estimate = NaN \/ (avg = 0 /\ rtt = 0) THEN NaN
    ELSE Bounded(Smoothed(Scaled(avg, rtt) + Unit * QueueSize))

\* false for an estimate of NaN
AppLimited(inFlight) == estimate # NaN /\ 2 * Unit * inFlight < estimate

\* OnSample.  The average that is compared and used is the one before its
\* reduction.
OnSample(rtt, inFlight) ==
    /\ long' = Reduced(Added(rtt), rtt)
    /\ sum' = IF count < WarmupWindow THEN sum + rtt ELSE sum
    /\ count' = IF count < WarmupWindow THEN count + 1 ELSE count
    /\ seen' = seen \cup {rtt}
    /\ IF AppLimited(inFlight) THEN UNCHANGED <<estimate, notified>>
       ELSE /\ estimate' = NewEstimate(Added(rtt), rtt)
            /\ notified' \in IntOf(estimate')

Next == \E rtt \in RTTs, inFlight \in InFlights : OnSample(rtt, inFlight)

Spec == Init /\ [][Next]_vars

-----------------------------------------------------------------------------
SmallestLimit == Smaller(InitialLimit, MinLimit)
LargestLimit  == Larger(InitialLimit, MaxLimit)

\* Whatever the samples, a numeric estimate stays between the smaller of the
\* initial and the minimum limit and the larger of the initial and the maximum
\* one, and the listeners know its integer part.
LimitBounded ==
    estimate # NaN =>
        /\ estimate >= Unit * SmallestLimit
        /\ estimate <= Unit * LargestLimit
        /\ notified = estimate \div Unit

\* Only windows of drops from the very start can turn the estimate into NaN,
\* for good: one RTT above 0, at any time before, keeps it a number.
NaNOnlyFromStart ==
    [][estimate # NaN /\ estimate' = NaN => seen \subseteq {0}]_vars

\* The long-term RTT stays among the RTTs that were measured, through the end
\* of the warm-up and however often it is reduced.
LongWithinSeen ==
    seen # {} => long \in Unit * Min(seen) .. Unit * Max(seen)
=============================================================================
