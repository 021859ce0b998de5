----------------------------- MODULE SampleWindow -----------------------------
(***************************************************************************)
(* measurements/immutable_sample_window.go: the window of samples that     *)
(* DefaultLimiter and WindowedLimit collect before they consult the limit  *)
(* algorithm.  Operators only; the start time is recorded and never read.  *)
(***************************************************************************)
EXTENDS Integers

CONSTANT MaxInt64   \* an RTT larger than every measured one

\* NewImmutableSampleWindow: a minimum of 0 means "none yet"
NewWindow(minRTT, sum, maxInFlight, sampleCount, didDrop) ==
    [minRTT      |-> IF minRTT = 0 THEN MaxInt64 ELSE minRTT,
     sum         |-> sum,
     maxInFlight |-> maxInFlight,
     sampleCount |-> sampleCount,
     didDrop     |-> didDrop]

WindowType == [minRTT : Int, sum : Int, maxInFlight : Nat, sampleCount : Nat,
               didDrop : BOOLEAN]

\* NewDefaultImmutableSampleWindow, and the reset after a limit update
EmptyWindow == NewWindow(0, 0, 0, 0, FALSE)

Larger(a, b)  == IF a < b THEN b ELSE a
Smaller(a, b) == IF b < a THEN b ELSE a

\* Fault: a sample replaces the in-flight maximum.
FaultAddSample(w, rtt, inFlight) ==
    NewWindow(Smaller(w.minRTT, rtt), w.sum + rtt, inFlight,
              w.sampleCount + 1, w.didDrop)

AddSample(w, rtt, inFlight) ==
    NewWindow(Smaller(w.minRTT, rtt), w.sum + rtt,
              Larger(inFlight, w.maxInFlight), w.sampleCount + 1, w.didDrop)

\* A dropped sample has no RTT and does not count as an observed one.
AddDroppedSample(w, inFlight) ==
    NewWindow(w.minRTT, w.sum, Larger(inFlight, w.maxInFlight),
              w.sampleCount, TRUE)

AverageRTT(w) == IF w.sampleCount = 0 THEN 0 ELSE w.sum \div w.sampleCount
=============================================================================
