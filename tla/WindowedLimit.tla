----------------------------- MODULE WindowedLimit -----------------------------
(***************************************************************************)
(* limit/windowed.go over limit/aimd.go: samples are collected in a window *)
(* and the delegate is consulted when a sample ends after nextUpdateTime.  *)
(* OnSample runs under l.mu.  Samples of concurrent requests arrive in any *)
(* order, so a start time may lie before that of an earlier sample.        *)
(***************************************************************************)
EXTENDS AIMDLimit, Sequences, FiniteSetsExt

CONSTANTS MinWindowTime, MaxWindowTime, WindowSize, MinRTTThreshold,
          MaxInt64,     \* math.MaxInt64
          StartTimes, RTTs, InFlights,  \* the arguments of OnSample
          MaxSamples    \* bound: the samples in a window

ASSUME WindowedAssumptions ==
    /\ MinWindowTime \in Nat \ {0} /\ MaxWindowTime \in Nat \ {0}
    /\ WindowSize \in Nat /\ MinRTTThreshold \in Int
    /\ MaxInt64 \in Nat
    /\ StartTimes \subseteq Nat /\ RTTs \subseteq Nat /\ InFlights \subseteq Nat
    /\ \A r \in RTTs : r < MaxInt64
    /\ MaxSamples \in Nat

VARIABLES sample,          \* l.sample
          nextUpdateTime,  \* l.nextUpdateTime
          samples,         \* history: what the window was made from
          demand           \* history: the largest inFlight ever reported

vars == <<aimdVars, sample, nextUpdateTime, samples, demand>>

window == INSTANCE SampleWindow

Init ==
    /\ AIMDInit
    /\ sample = window!EmptyWindow
    /\ nextUpdateTime = 0
    /\ samples = <<>>
    /\ demand = 0

Arguments == [startTime : StartTimes, rtt : RTTs, inFlight : InFlights,
              didDrop : BOOLEAN]

EndTime(a) == a.startTime + a.rtt

\* l.sample.AddDroppedSample or l.sample.AddSample
Added(a) == IF a.didDrop THEN window!AddDroppedSample(sample, a.inFlight)
            ELSE window!AddSample(sample, a.rtt, a.inFlight)

\* endTime > l.nextUpdateTime && l.isWindowReady(rtt, inFlight)
Ready(a) == /\ EndTime(a) > nextUpdateTime
            /\ a.rtt < MaxInt64 /\ a.inFlight > WindowSize

\* int64 addition of the candidate RTT to itself: MaxInt64, the RTT of a
\* window without successes, wraps to -2
Doubled(rtt) == IF 2 * rtt > MaxInt64 THEN 2 * rtt - 2 * (MaxInt64 + 1) ELSE 2 * rtt

\* Fault: the pause has no lower bound.
FaultPause(w) == Smaller(Doubled(w.minRTT), MaxWindowTime)

Pause(w) == Smaller(Larger(Doubled(w.minRTT), MinWindowTime), MaxWindowTime)

\* OnSample returns early: a sample below the RTT threshold, dropped or not,
\* changes nothing
Discard(a) == a.rtt < MinRTTThreshold /\ UNCHANGED vars

\* OnSample that only collects
Collect(a) ==
    /\ Len(samples) < MaxSamples
    /\ a.rtt >= MinRTTThreshold
    /\ ~Ready(a)
    /\ sample' = Added(a)
    /\ samples' = Append(samples, [rtt |-> a.rtt, inFlight |-> a.inFlight,
                                   didDrop |-> a.didDrop])
    /\ UNCHANGED <<aimdVars, nextUpdateTime, demand>>

\* OnSample that closes the window and consults the delegate.  The delegate
\* gets the window's largest inFlight, and didDrop of this one sample.
Report(a) ==
    /\ a.rtt >= MinRTTThreshold
    /\ Ready(a)
    /\ sample' = window!EmptyWindow
    /\ nextUpdateTime' = EndTime(a) + Pause(Added(a))
    /\ AIMDOnSample(Added(a).maxInFlight, a.didDrop)
    /\ samples' = <<>>
    /\ demand' = Larger(demand, Added(a).maxInFlight)

Next == \E a \in Arguments : Discard(a) \/ Collect(a) \/ Report(a)

Spec == Init /\ [][Next]_vars

-----------------------------------------------------------------------------
\* Types of the limits' fields; the window's counts stay naturals.
TypeOK ==
    /\ limit \in Int /\ notified \in Int
    /\ sample \in window!WindowType
    /\ nextUpdateTime \in Nat
    /\ demand \in Nat

\* The limit does not run away from its use, and never falls below 1: it is
\* the initial one, or at most one increment above the largest number of
\* requests ever seen in flight.
LimitFollowsDemand ==
    /\ limit <= Larger(InitialLimit, demand + IncreaseBy)
    /\ limit >= Smaller(InitialLimit, 1)

\* Listeners know the limit: whatever path changed it, the last value they
\* were given is the one EstimatedLimit returns.
ListenersUpToDate == notified = limit

\* Updates are spaced by the window time also for windows without a success,
\* whose candidate RTT overflows when it is doubled.
UpdatesSpaced ==
    [][nextUpdateTime' # nextUpdateTime =>
        nextUpdateTime' > nextUpdateTime + Smaller(MinWindowTime, MaxWindowTime)]_vars

Successes == {i \in DOMAIN samples : ~samples[i].didDrop}

\* The immutable window, built sample by sample, is what its definition says:
\* count and sum over the successes, the largest inFlight and the drop flag over
\* all samples since the last report; and unless an RTT of 0 was measured, which
\* reads as "none yet", the minimum is that of the successes and the average that
\* the delegate gets no less than it.
WindowFaithful ==
    /\ sample.sampleCount = Cardinality(Successes)
    /\ sample.sum = SumFunctionOnSet([i \in Successes |-> samples[i].rtt], Successes)
    /\ sample.maxInFlight = Max({samples[i].inFlight : i \in DOMAIN samples} \cup {0})
    /\ sample.didDrop = (Successes # DOMAIN samples)
    /\ (\A i \in Successes : samples[i].rtt # 0) =>
        /\ sample.minRTT = Min({samples[i].rtt : i \in Successes} \cup {MaxInt64})
        /\ Successes # {} => window!AverageRTT(sample) >= sample.minRTT

\* AIMDLimit "does an additive increment as long as there are no errors": a
\* window with a drop in it does not raise the limit.
DropNeverRaises ==
    [][limit' > limit => Successes = DOMAIN samples]_vars
=============================================================================
