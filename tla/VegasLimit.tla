------------------------------ MODULE VegasLimit ------------------------------
(***************************************************************************)
(* limit/vegas.go: the limit follows the queue that a sample's RTT shows   *)
(* against the RTT without load, which is the minimum measured since the   *)
(* last probe (measurements/minimum.go).  OnSample runs under l.mu and     *)
(* notifies before it returns, so it is one step.                          *)
(*                                                                         *)
(* With the default functions and smoothing every value of estimatedLimit  *)
(* below 1000 is an integer.  RTTs are 0 or powers of two, so that their   *)
(* quotients are exact in float64 and math.Ceil has nothing to round.      *)
(***************************************************************************)
EXTENDS Integers, FiniteSetsExt

CONSTANTS InitialLimit, MaxLimit,
          ProbeMultiplier,
          Jitters,          \* values of probeJitter, in units of 1/4
          RTTs, InFlights   \* the arguments of OnSample

VARIABLES limit,       \* l.estimatedLimit
          notified,    \* the last value the listeners were given
          noLoad,      \* the value of l.rttNoLoad; 0 when there is none
          probeJitter, \* l.probeJitter
          probeCount,  \* l.probeCount
          seen         \* history: the RTTs since the last probe, its own included

vars == <<limit, notified, noLoad, probeJitter, probeCount, seen>>

Larger(a, b)  == IF a < b THEN b ELSE a
Smaller(a, b) == IF b < a THEN b ELSE a

Init ==
    /\ limit = InitialLimit /\ notified = InitialLimit
    /\ noLoad = 0
    /\ probeJitter \in Jitters
    /\ probeCount = 0
    /\ seen = {}

-----------------------------------------------------------------------------
\* the table of int(log10(i)), at least 1, for i < 1000
Log10Lookup(i) == IF i < 100 THEN 1 ELSE 2

\* MinimumMeasurement.Add
AddMinimum(value, s) == IF value = 0 \/ s < value THEN s ELSE value

\* shouldProbe, once probeCount has been incremented
ShouldProbe == (probeJitter * ProbeMultiplier * limit) \div 4 <= probeCount + 1

\* ceil(limit * (1 - noLoad / rtt))
QueueSize(rtt) == limit - (limit * noLoad) \div rtt

\* Fault: the bounds are not applied.
FaultBounded(l) == l

Bounded(l) == Larger(1, Smaller(MaxLimit, l))

\* The limit that updateEstimatedLimit computes: with the default functions
\* alpha, beta and threshold are 3, 6 and 1 times the logarithm, and the steps
\* are by one logarithm.  {} when it returns early.
NewLimit(rtt, inFlight, didDrop) ==
    LET log == Log10Lookup(limit)
    IN  IF didDrop THEN {limit - log}
        ELSE IF inFlight * 2 < limit THEN {}
        ELSE IF QueueSize(rtt) < log THEN {limit + 6 * log}
        ELSE IF QueueSize(rtt) < 3 * log THEN {limit + log}
        ELSE IF QueueSize(rtt) > 6 * log THEN {limit - log}
        ELSE {}

\* updateEstimatedLimit, with a smoothing of 1
UpdateEstimatedLimit(rtt, inFlight, didDrop) ==
    IF NewLimit(rtt, inFlight, didDrop) = {} THEN UNCHANGED <<limit, notified>>
    ELSE \E l \in NewLimit(rtt, inFlight, didDrop) :
            limit' = Bounded(l) /\ notified' = limit'

\* Fault: the probe adds its RTT to the measurement of the period before.
FaultProbe(rtt) ==
    /\ ShouldProbe
    /\ probeJitter' \in Jitters
    /\ probeCount' = 0
    /\ noLoad' = AddMinimum(noLoad, rtt)
    /\ seen' = {rtt}
    /\ UNCHANGED <<limit, notified>>

\* OnSample that probes: this RTT is the new minimum, whatever the old one;
\* a drop is not looked at
Probe(rtt) ==
    /\ ShouldProbe
    /\ probeJitter' \in Jitters
    /\ probeCount' = 0
    /\ noLoad' = AddMinimum(0, rtt)
    /\ seen' = {rtt}
    /\ UNCHANGED <<limit, notified>>

\* the first RTT, or a smaller one, only updates the minimum
Baseline(rtt) ==
    /\ ~ShouldProbe
    /\ noLoad = 0 \/ rtt < noLoad
    /\ noLoad' = AddMinimum(noLoad, rtt)
    /\ probeCount' = probeCount + 1
    /\ seen' = seen \cup {rtt}
    /\ UNCHANGED <<limit, notified, probeJitter>>

\* any other sample may move the limit
Update(rtt, inFlight, didDrop) ==
    /\ ~ShouldProbe
    /\ noLoad # 0 /\ rtt >= noLoad
    /\ UpdateEstimatedLimit(rtt, inFlight, didDrop)
    /\ probeCount' = probeCount + 1
    /\ seen' = seen \cup {rtt}
    /\ UNCHANGED <<noLoad, probeJitter>>

OnSample(rtt, inFlight, didDrop) ==
    Probe(rtt) \/ Baseline(rtt) \/ Update(rtt, inFlight, didDrop)

Next == \E rtt \in RTTs, inFlight \in InFlights, didDrop \in BOOLEAN :
            OnSample(rtt, inFlight, didDrop)

Spec == Init /\ [][Next]_vars

-----------------------------------------------------------------------------
LargestLimit == Larger(InitialLimit, MaxLimit)

\* Whatever the samples, the limit stays between 1 and the larger of its
\* initial value and the maximum, and listeners (the strategy) know it.
LimitBounded ==
    /\ limit \in 1 .. LargestLimit
    /\ notified = limit

\* The RTT without load is the smallest RTT since the last probe, and not of
\* any earlier period; only a measured 0, which reads as "none yet", can make
\* it start again.  The probe cannot be put off for ever: shrinking limits
\* bring it nearer, and growing ones delay it to a fixed number of samples.
BaselineFresh ==
    /\ noLoad \in seen \cup {0}
    /\ seen # {} /\ 0 \notin seen => noLoad = Min(seen)
    /\ probeCount < ProbeMultiplier * LargestLimit
=============================================================================
