----------------------------- MODULE GradientLimit -----------------------------
(***************************************************************************)
(* limit/gradient.go: the estimate follows the ratio of the RTT without    *)
(* load, a minimum that is forgotten at every probe, to the sample's RTT.  *)
(* OnSample runs under l.mu and notifies before it returns, so it is one   *)
(* step.                                                                   *)
(*                                                                         *)
(* The float64 estimate is a fixed-point number here: a multiple of        *)
(* 1/Unit, rounded down.  The bounds, the queue size and the RTTs are      *)
(* integers and exact.  An RTT of 0 is the average of a window of drops,   *)
(* which WindowedLimit reports as a drop, so the quotient of an RTT of 0   *)
(* is computed but not used.                                               *)
(***************************************************************************)
EXTENDS Integers, FiniteSetsExt

CONSTANTS InitialLimit, MinLimit, MaxLimit,
          Unit,                   \* units in an estimate of 1
          SmoothNum, SmoothDen,   \* the smoothing, a fraction
          Tolerance,              \* rttTolerance
          Baseline,               \* of SqrtRootFunction
          ProbeInterval,          \* or ProbeDisabled
          RTTs, InFlights         \* the arguments of OnSample

VARIABLES estimate,   \* l.estimatedLimit, in units
          notified,   \* the last value the listeners were given
          noLoad,     \* the value of l.rttNoLoadMeasurement; 0 when there is none
          countdown,  \* l.resetRTTCounter
          seen        \* history: the RTTs measured since the last probe

vars == <<estimate, notified, noLoad, countdown, seen>>

ProbeDisabled == -1

Larger(a, b)  == IF a < b THEN b ELSE a
Smaller(a, b) == IF b < a THEN b ELSE a

\* nextProbeCountdown: the interval plus rand.Intn of it
NextProbeCountdown == IF ProbeInterval = ProbeDisabled THEN {ProbeDisabled}
                      ELSE ProbeInterval .. 2 * ProbeInterval - 1

Init ==
    /\ estimate = InitialLimit * Unit /\ notified = InitialLimit
    /\ noLoad = 0
    /\ countdown \in NextProbeCountdown
    /\ seen = {}

\* the square root table, at least 1, and the baseline of SqrtRootFunction
SqrtRoot(i)   == Max({1} \cup {k \in 1 .. i : k * k <= i})
QueueSize     == Larger(Baseline, SqrtRoot(estimate \div Unit))

\* MinimumMeasurement.Add
AddMinimum(value, s) == IF value = 0 \/ s < value THEN s ELSE value

ShouldProbe == ProbeInterval # ProbeDisabled /\ countdown - 1 <= 0

Counted == IF ProbeInterval = ProbeDisabled THEN countdown ELSE countdown - 1

\* OnSample that probes: the estimate restarts at the queue size, the minimum
\* is forgotten, and the sample is not looked at
Probe ==
    /\ ShouldProbe
    /\ countdown' \in NextProbeCountdown
    /\ estimate' = Unit * Larger(MinLimit, QueueSize)
    /\ notified' = Larger(MinLimit, QueueSize)
    /\ noLoad' = 0
    /\ seen' = {}

\* estimate * max(0.5, min(1.0, tolerance * noLoad / rtt))
Scaled(base, rtt) ==
    IF Tolerance * base >= rtt THEN estimate
    ELSE IF 2 * Tolerance * base <= rtt THEN estimate \div 2
    ELSE (estimate * Tolerance * base) \div rtt

\* Fault: the minimum is not applied to the smoothed estimate.
FaultSmoothed(new) ==
    IF new >= estimate THEN new
    ELSE (estimate * (SmoothDen - SmoothNum) + new * SmoothNum) \div SmoothDen

\* downward smoothing with a minimum of minLimit
Smoothed(new) ==
    IF new >= estimate THEN new
    ELSE Larger(Unit * MinLimit,
                (estimate * (SmoothDen - SmoothNum) + new * SmoothNum) \div SmoothDen)

Bounded(new) == Larger(Unit * QueueSize, Smaller(Unit * MaxLimit, new))

\* a drop halves the estimate before the smoothing; otherwise the gradient
\* scales it and the queue is added
Raw(base, rtt, didDrop) ==
    IF didDrop THEN estimate \div 2 ELSE Scaled(base, rtt) + Unit * QueueSize

AppLimited(inFlight) == 2 * Unit * inFlight < estimate

\* any other sample: the minimum is updated also when the estimate is not
Update(rtt, inFlight, didDrop) ==
    /\ ~ShouldProbe
    /\ noLoad' = AddMinimum(noLoad, rtt)
    /\ IF ~didDrop /\ AppLimited(inFlight) THEN UNCHANGED <<estimate, notified>>
       ELSE /\ estimate' = Bounded(Smoothed(Raw(noLoad', rtt, didDrop)))
            /\ notified' = estimate' \div Unit
    /\ countdown' = Counted
    /\ seen' = seen \cup {rtt}

OnSample(rtt, inFlight, didDrop) == Probe \/ Update(rtt, inFlight, didDrop)

Next == \E rtt \in RTTs, inFlight \in InFlights, didDrop \in BOOLEAN :
            (rtt = 0 => didDrop) /\ OnSample(rtt, inFlight, didDrop)

Spec == Init /\ [][Next]_vars

-----------------------------------------------------------------------------
SmallestLimit == Smaller(InitialLimit, Smaller(MinLimit, MaxLimit))
LargestLimit  == Larger(Larger(InitialLimit, Baseline), Larger(MinLimit, MaxLimit))

\* Whatever the samples, drops and probes, the estimate stays between the
\* smallest and the largest of the initial, the minimum and the maximum limit
\* (or the baseline of the queue, which the maximum does not restrain), and
\* the listeners know its integer part.
LimitBounded ==
    /\ estimate >= Unit * SmallestLimit
    /\ estimate <= Unit * LargestLimit
    /\ notified = estimate \div Unit

\* The RTT without load is the smallest one since the last probe, unless a
\* window of drops has made the measurement start again; a probe is at most
\* two intervals away.
BaselineFresh ==
    /\ noLoad \in seen \cup {0}
    /\ seen # {} /\ 0 \notin seen => noLoad = Min(seen)
    /\ ProbeInterval # ProbeDisabled => countdown \in 1 .. 2 * ProbeInterval - 1
=============================================================================
