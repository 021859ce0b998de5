-------------------------- MODULE WindowedLimitProofs --------------------------
(***************************************************************************)
(* Proofs about WindowedLimit over AIMDLimit, for every window, ratio and  *)
(* increment, and for samples that arrive in any order.                    *)
(***************************************************************************)
EXTENDS WindowedLimit, SumTheorems, SequenceTheorems

USE DEF Larger, Smaller

\* The arguments of OnSample are natural numbers and a flag.
LEMMA ArgumentType ==
    ASSUME NEW a \in Arguments
    PROVE  /\ a.startTime \in Nat /\ a.rtt \in Nat /\ a.inFlight \in Nat
           /\ a.didDrop \in BOOLEAN /\ EndTime(a) \in Nat
<1>1. /\ a.startTime \in StartTimes /\ a.rtt \in RTTs /\ a.inFlight \in InFlights
      /\ a.didDrop \in BOOLEAN
      BY DEF Arguments
<1>2. a.startTime \in Nat /\ a.rtt \in Nat /\ a.inFlight \in Nat
      BY <1>1, WindowedAssumptions
<1> QED BY <1>1, <1>2 DEF EndTime

\* The windows that the measurement operators build are well typed.
LEMMA WindowTypes ==
    /\ window!EmptyWindow \in window!WindowType
    /\ \A w \in window!WindowType, r \in Int, n \in Nat :
        window!AddSample(w, r, n) \in window!WindowType
    /\ \A w \in window!WindowType, n \in Nat :
        window!AddDroppedSample(w, n) \in window!WindowType
  BY WindowedAssumptions
     DEF window!WindowType, window!EmptyWindow, window!NewWindow, window!AddSample,
         window!AddDroppedSample, window!Larger, window!Smaller

\* A sample makes a well-typed window of a well-typed window.
LEMMA AddedType ==
    ASSUME sample \in window!WindowType, NEW a \in Arguments
    PROVE  /\ Added(a) \in window!WindowType
           /\ Added(a).maxInFlight \in Nat /\ Added(a).minRTT \in Int
<1>1. Added(a) \in window!WindowType
      BY WindowTypes, ArgumentType DEF Added
<1> QED BY <1>1 DEF window!WindowType

\* Backing off gives a limit of at least 1, and less than a limit above 1.
LEMMA BackOffType ==
    ASSUME limit \in Int
    PROVE  BackOff \in Int /\ BackOff >= 1 /\ (limit >= 2 => BackOff < limit)
           /\ (BackOff <= limit \/ BackOff = 1)
<1>1. limit * RatioNum \in Int
      BY AIMDAssumptions
<1>2. (limit * RatioNum) \div RatioDen \in Int
      BY <1>1, AIMDAssumptions
<1> QED BY <1>2 DEF BackOff

\* What one OnSample of the delegate does to its limit.
LEMMA DelegateStep ==
    ASSUME limit \in Int, NEW inFlight \in Nat, NEW didDrop \in BOOLEAN,
           AIMDOnSample(inFlight, didDrop)
    PROVE  /\ limit' \in Int
           /\ limit' <= limit \/ limit' = 1 \/ limit' <= inFlight + IncreaseBy
           /\ limit' >= limit \/ limit' >= 1
           /\ notified' = limit' \/ (notified' = notified /\ limit' = limit)
<1>1. CASE didDrop
      BY <1>1, BackOffType DEF AIMDOnSample
<1>2. CASE ~didDrop /\ inFlight >= limit
      BY <1>2, AIMDAssumptions DEF AIMDOnSample
<1>3. CASE ~didDrop /\ ~(inFlight >= limit)
      BY <1>3 DEF AIMDOnSample, aimdVars
<1> QED BY <1>1, <1>2, <1>3

\* A limit within the bound for an old demand, or justified by a load m, is
\* within the bound for a demand that covers both.
LEMMA BoundMoves ==
    ASSUME NEW init \in Int, NEW inc \in Nat, inc >= 1, NEW d \in Nat, NEW e \in Nat,
           NEW m \in Nat, e >= d, e >= m, NEW l \in Int, NEW k \in Int,
           l <= Larger(init, d + inc), k <= l \/ k = 1 \/ k <= m + inc
    PROVE  k <= Larger(init, e + inc)
  OBVIOUS

\* The pause after an update is never shorter than the smaller window time,
\* whatever doubling the RTT gave.
LEMMA PauseType ==
    ASSUME NEW w, w.minRTT \in Int
    PROVE  Pause(w) \in Nat /\ Pause(w) >= Smaller(MinWindowTime, MaxWindowTime)
<1>1. Doubled(w.minRTT) \in Int
      BY WindowedAssumptions DEF Doubled
<1> QED BY <1>1, WindowedAssumptions DEF Pause

IInv == TypeOK /\ LimitFollowsDemand /\ ListenersUpToDate

\* The constructors establish the invariant.
LEMMA InitInvariant == Init => IInv
  BY AIMDAssumptions, WindowTypes
     DEF Init, AIMDInit, IInv, TypeOK, LimitFollowsDemand, ListenersUpToDate

\* Every call of OnSample keeps it.
LEMMA StepInvariant == IInv /\ [Next]_vars => IInv'
<1> SUFFICES ASSUME IInv, [Next]_vars PROVE IInv'
    OBVIOUS
<1> USE DEF IInv, TypeOK, LimitFollowsDemand, ListenersUpToDate
<1>1. ASSUME NEW a \in Arguments, Collect(a) PROVE IInv'
      BY <1>1, AddedType DEF Collect, aimdVars
<1>2. ASSUME NEW a \in Arguments, Report(a) PROVE IInv'
  <2> DEFINE m == Added(a).maxInFlight
  <2>1. m \in Nat /\ a.didDrop \in BOOLEAN /\ EndTime(a) \in Nat
        BY AddedType, ArgumentType
  <2>2. AIMDOnSample(m, a.didDrop) /\ demand' = Larger(demand, m)
        BY <1>2 DEF Report
  <2>3. /\ limit' \in Int
        /\ limit' <= limit \/ limit' = 1 \/ limit' <= m + IncreaseBy
        /\ limit' >= limit \/ limit' >= 1
        /\ notified' = limit'
        BY <2>1, <2>2, DelegateStep
  <2>4. demand' \in Nat /\ demand' >= demand /\ demand' >= m
        BY <2>1, <2>2
  <2>5. LimitFollowsDemand' /\ ListenersUpToDate'
    <3> HIDE DEF m
    <3>0. InitialLimit \in Int /\ IncreaseBy \in Nat /\ IncreaseBy >= 1
          BY AIMDAssumptions
    <3>1. limit' <= Larger(InitialLimit, demand' + IncreaseBy)
          BY <3>0, <2>1, <2>3, <2>4, BoundMoves
    <3>2. limit' >= Smaller(InitialLimit, 1)
          BY <2>3, AIMDAssumptions
    <3> QED BY <3>1, <3>2, <2>3
  <2>6. nextUpdateTime' \in Nat
    <3>1. Pause(Added(a)) \in Nat
          BY AddedType, PauseType
    <3> QED BY <3>1, <2>1, <1>2 DEF Report
  <2>7. sample' \in window!WindowType
        BY <1>2, WindowTypes DEF Report
  <2> QED BY <2>3, <2>4, <2>5, <2>6, <2>7
<1>3. CASE UNCHANGED vars
      BY <1>3 DEF vars, aimdVars
<1> QED BY <1>1, <1>2, <1>3 DEF Next, Discard

\* The invariant holds in every state.
LEMMA Invariance == Spec => []IInv
  BY InitInvariant, StepInvariant, PTL DEF Spec

\* The fields of the limits keep their types.
THEOREM TypeCorrect == Spec => []TypeOK
  BY Invariance, PTL DEF IInv

\* AIMD's limit neither outruns the load it has seen by more than one
\* increment nor falls below 1, for every ratio and increment.
THEOREM LimitIsBounded == Spec => []LimitFollowsDemand
  BY Invariance, PTL DEF IInv

\* The listeners always know the current limit.
THEOREM ListenersAreUpToDate == Spec => []ListenersUpToDate
  BY Invariance, PTL DEF IInv

\* Two consultations of the delegate are at least a window apart, whatever
\* the order of the samples' start times.
THEOREM UpdatesAreSpaced == Spec => UpdatesSpaced
<1>1. IInv /\ [Next]_vars =>
        [nextUpdateTime' # nextUpdateTime =>
          nextUpdateTime' > nextUpdateTime + Smaller(MinWindowTime, MaxWindowTime)]_vars
  <2> SUFFICES ASSUME IInv, [Next]_vars, nextUpdateTime' # nextUpdateTime
               PROVE  nextUpdateTime' > nextUpdateTime
                                        + Smaller(MinWindowTime, MaxWindowTime)
      OBVIOUS
  <2>1. PICK a \in Arguments : Report(a)
        BY DEF Next, Discard, Collect, vars
  <2>2. EndTime(a) \in Nat /\ EndTime(a) > nextUpdateTime
        BY <2>1, ArgumentType DEF Report, Ready
  <2>3. /\ Pause(Added(a)) \in Nat
        /\ Pause(Added(a)) >= Smaller(MinWindowTime, MaxWindowTime)
        BY AddedType, PauseType DEF IInv, TypeOK
  <2> QED BY <2>1, <2>2, <2>3, WindowedAssumptions DEF Report, IInv, TypeOK
<1> QED BY <1>1, Invariance, PTL DEF Spec, UpdatesSpaced
-----------------------------------------------------------------------------
(* The window is what its samples make it. *)

\* The RTTs of the successes and the concurrency of all samples since the last
\* report, and whether an RTT of 0 is among them.
SuccessRTTs == {samples[i].rtt : i \in Successes}
Loads       == {samples[i].inFlight : i \in DOMAIN samples}
NoZero      == \A i \in Successes : samples[i].rtt # 0

\* The average is no less than the minimum, as a product.
AverageAboveMin == sample.sampleCount * sample.minRTT <= sample.sum

\* What WindowFaithful needs to be inductive: the types of the samples, and the
\* average, compared as a product.
WindowInv ==
    /\ TypeOK
    /\ samples \in Seq([rtt : Nat, inFlight : Nat, didDrop : BOOLEAN])
    /\ sample.sampleCount = Cardinality(Successes)
    /\ sample.sum = SumFunctionOnSet([i \in Successes |-> samples[i].rtt], Successes)
    /\ sample.maxInFlight = Max(Loads \cup {0})
    /\ sample.didDrop = (Successes # DOMAIN samples)
    /\ NoZero => sample.minRTT = Min(SuccessRTTs \cup {MaxInt64})
    /\ NoZero /\ Successes # {} => AverageAboveMin

\* The state after a report.
NoSamples == TypeOK /\ sample = window!EmptyWindow /\ samples = <<>>

\* A window without samples is empty.
LEMMA EmptyFaithful == NoSamples => WindowInv
<1> SUFFICES ASSUME NoSamples PROVE WindowInv
    OBVIOUS
<1> USE DEF NoSamples
<1>1. DOMAIN samples = {} /\ Successes = {} /\ SuccessRTTs = {} /\ Loads = {}
      BY DEF Successes, SuccessRTTs, Loads
<1>2. /\ sample.sampleCount = 0 /\ sample.sum = 0 /\ sample.maxInFlight = 0
      /\ sample.minRTT = MaxInt64 /\ sample.didDrop = FALSE
      BY DEF window!EmptyWindow, window!NewWindow
<1>3. Max({} \cup {0}) = 0 /\ Min({} \cup {MaxInt64}) = MaxInt64
  <2>1. {} \cup {0} = {0} /\ {} \cup {MaxInt64} = {MaxInt64} /\ 0 \in Int /\ MaxInt64 \in Int
        BY WindowedAssumptions
  <2>2. Max({0}) = 0
        BY <2>1, MaxMinSingle
  <2>3. Min({MaxInt64}) = MaxInt64
        BY <2>1, MaxMinSingle
  <2> QED BY <2>1, <2>2, <2>3
<1>4. SumFunctionOnSet([i \in Successes |-> samples[i].rtt], Successes) = 0
      BY <1>1, SumEmpty
<1>5. Cardinality(Successes) = 0
      BY <1>1, FS_EmptySet
<1>6. samples \in Seq([rtt : Nat, inFlight : Nat, didDrop : BOOLEAN])
      BY EmptySeq
<1>7. sample.didDrop = (Successes # DOMAIN samples)
      BY <1>1, <1>2
<1>8. Max(Loads \cup {0}) = 0 /\ Min(SuccessRTTs \cup {MaxInt64}) = MaxInt64
      BY <1>1, <1>3
<1> QED BY <1>1, <1>2, <1>4, <1>5, <1>6, <1>7, <1>8 DEF WindowInv

\* The samples of a window are finitely many.
LEMMA SamplesFinite ==
    ASSUME WindowInv
    PROVE  /\ Len(samples) \in Nat /\ DOMAIN samples = 1 .. Len(samples)
           /\ IsFiniteSet(DOMAIN samples) /\ IsFiniteSet(Successes)
           /\ Successes \subseteq DOMAIN samples
           /\ IsFiniteSet(SuccessRTTs) /\ IsFiniteSet(Loads)
           /\ \A i \in DOMAIN samples : samples[i].rtt \in Nat /\ samples[i].inFlight \in Nat
           /\ \A x \in SuccessRTTs : x \in Nat
           /\ \A x \in Loads : x \in Nat
<1>1. Len(samples) \in Nat /\ DOMAIN samples = 1 .. Len(samples)
      BY LenProperties DEF WindowInv
<1>2. IsFiniteSet(DOMAIN samples) /\ IsFiniteSet(Successes) /\ Successes \subseteq DOMAIN samples
  <2>1. IsFiniteSet(1 .. Len(samples))
        BY <1>1, FS_Interval
  <2>2. Successes \subseteq DOMAIN samples
        BY DEF Successes
  <2> QED BY <1>1, <2>1, <2>2, FS_Subset
<1>3. \A i \in DOMAIN samples : samples[i] \in [rtt : Nat, inFlight : Nat, didDrop : BOOLEAN]
      BY <1>1, ElementOfSeq DEF WindowInv
<1>4. \A i \in DOMAIN samples : samples[i].rtt \in Nat /\ samples[i].inFlight \in Nat
      BY <1>3
<1>5. IsFiniteSet(SuccessRTTs) /\ IsFiniteSet(Loads)
  <2> DEFINE f == [i \in DOMAIN samples |-> samples[i].rtt]
             g == [i \in DOMAIN samples |-> samples[i].inFlight]
  <2>1. SuccessRTTs = {f[i] : i \in Successes} /\ Loads = {g[i] : i \in DOMAIN samples}
        BY <1>2 DEF SuccessRTTs, Loads
  <2> HIDE DEF f, g
  <2> QED BY <1>2, <2>1, FiniteImage
<1> QED BY <1>1, <1>2, <1>4, <1>5 DEF SuccessRTTs, Loads

\* What one more sample does to the samples since the last report.
LEMMA OneMoreSample ==
    ASSUME WindowInv, NEW a \in Arguments, Collect(a)
    PROVE  /\ samples' \in Seq([rtt : Nat, inFlight : Nat, didDrop : BOOLEAN])
           /\ DOMAIN samples' = DOMAIN samples \cup {Len(samples) + 1}
           /\ Len(samples) + 1 \notin DOMAIN samples
           /\ \A i \in DOMAIN samples : samples'[i] = samples[i]
           /\ samples'[Len(samples) + 1] =
                [rtt |-> a.rtt, inFlight |-> a.inFlight, didDrop |-> a.didDrop]
           /\ Successes' = Successes \cup (IF a.didDrop THEN {} ELSE {Len(samples) + 1})
           /\ Loads' = Loads \cup {a.inFlight}
           /\ SuccessRTTs' = SuccessRTTs \cup (IF a.didDrop THEN {} ELSE {a.rtt})
           /\ NoZero' <=> NoZero /\ (a.didDrop \/ a.rtt # 0)
<1> DEFINE e == [rtt |-> a.rtt, inFlight |-> a.inFlight, didDrop |-> a.didDrop]
           n == Len(samples) + 1
           R == [rtt : Nat, inFlight : Nat, didDrop : BOOLEAN]
<1>1. e \in R /\ samples' = Append(samples, e) /\ samples \in Seq(R)
      BY ArgumentType DEF Collect, WindowInv
<1>2. e.rtt = a.rtt /\ e.inFlight = a.inFlight /\ e.didDrop = a.didDrop
      OBVIOUS
<1>3. Len(samples) \in Nat /\ DOMAIN samples = 1 .. Len(samples)
      BY SamplesFinite
<1>4. /\ samples' \in Seq(R) /\ Len(samples') = n
      /\ samples'[n] = e /\ \A i \in 1 .. Len(samples) : samples'[i] = samples[i]
  <2> HIDE DEF e, R
  <2> QED BY <1>1, AppendProperties
<1>5. DOMAIN samples' = 1 .. n
      BY <1>4, LenProperties
<1>6. 1 .. n = (1 .. Len(samples)) \cup {n} /\ n \notin 1 .. Len(samples)
      BY <1>3
<1>7. DOMAIN samples' = DOMAIN samples \cup {n} /\ n \notin DOMAIN samples
      BY <1>3, <1>5, <1>6
<1>8. \A i \in DOMAIN samples : samples'[i] = samples[i]
      BY <1>3, <1>4
<1>9. samples'[n] = e
      BY <1>4
<1> HIDE DEF e, n
<1>10. Successes' = Successes \cup (IF a.didDrop THEN {} ELSE {n})
      BY <1>2, <1>7, <1>8, <1>9 DEF Successes
<1>11. Loads' = Loads \cup {a.inFlight}
      BY <1>2, <1>7, <1>8, <1>9 DEF Loads
<1>12. Successes \subseteq DOMAIN samples /\ samples'[n].rtt = a.rtt
      BY <1>2, <1>9 DEF Successes
<1>13. SuccessRTTs' = SuccessRTTs \cup (IF a.didDrop THEN {} ELSE {a.rtt})
      BY <1>8, <1>10, <1>12 DEF SuccessRTTs
<1>14. NoZero' <=> NoZero /\ (a.didDrop \/ a.rtt # 0)
      BY <1>8, <1>10, <1>12 DEF NoZero
<1> QED BY <1>4, <1>7, <1>8, <1>9, <1>10, <1>11, <1>13, <1>14 DEF e, n, R

\* The largest load and the smallest RTT after one more sample.
LEMMA ExtremesMove ==
    ASSUME WindowInv, NEW a \in Arguments, Collect(a)
    PROVE  /\ Max(Loads' \cup {0}) = Larger(a.inFlight, Max(Loads \cup {0}))
           /\ Min(SuccessRTTs \cup {MaxInt64}) \in Int
           /\ ~a.didDrop => Min(SuccessRTTs' \cup {MaxInt64}) =
                              Smaller(Min(SuccessRTTs \cup {MaxInt64}), a.rtt)
<1>0. a.rtt \in Int /\ a.inFlight \in Int /\ 0 \in Int /\ MaxInt64 \in Int
      BY ArgumentType, WindowedAssumptions
<1> DEFINE S == Loads \cup {0}
           T == SuccessRTTs \cup {MaxInt64}
<1>1. /\ IsFiniteSet(S) /\ S # {} /\ \A x \in S : x \in Int
      /\ IsFiniteSet(T) /\ T # {} /\ \A x \in T : x \in Int
  <2>1. IsFiniteSet(S) /\ IsFiniteSet(T)
        BY SamplesFinite, FS_AddElement
  <2>2. S # {} /\ T # {}
        OBVIOUS
  <2>3. (\A x \in S : x \in Int) /\ (\A x \in T : x \in Int)
        BY <1>0, SamplesFinite
  <2> QED BY <2>1, <2>2, <2>3
<1>2. Loads' \cup {0} = S \cup {a.inFlight}
      BY OneMoreSample
<1>3. ~a.didDrop => SuccessRTTs' \cup {MaxInt64} = T \cup {a.rtt}
      BY OneMoreSample
<1> HIDE DEF S, T
<1>4. /\ Max(S) \in S /\ Min(T) \in T
      /\ Max(S \cup {a.inFlight}) = IF Max(S) < a.inFlight THEN a.inFlight ELSE Max(S)
      /\ Min(T \cup {a.rtt}) = IF a.rtt < Min(T) THEN a.rtt ELSE Min(T)
      BY <1>0, <1>1, MaxMinFacts, MaxMinAdd
<1>5. Max(S) \in Int /\ Min(T) \in Int
      BY <1>1, <1>4
<1>6. Max(S \cup {a.inFlight}) = Larger(a.inFlight, Max(S))
      BY <1>0, <1>4, <1>5
<1>7. Min(T \cup {a.rtt}) = Smaller(Min(T), a.rtt)
      BY <1>4
<1> QED BY <1>2, <1>3, <1>5, <1>6, <1>7 DEF S, T

\* Count and sum after a success.
LEMMA SuccessCounts ==
    ASSUME WindowInv, NEW a \in Arguments, Collect(a), ~a.didDrop
    PROVE  /\ Cardinality(Successes') = Cardinality(Successes) + 1
           /\ SumFunctionOnSet([i \in Successes' |-> samples'[i].rtt], Successes') =
                SumFunctionOnSet([i \in Successes |-> samples[i].rtt], Successes) + a.rtt
<1> DEFINE n == Len(samples) + 1
           f == [i \in Successes |-> samples[i].rtt]
           g == [i \in Successes' |-> samples'[i].rtt]
<1>1. Successes' = Successes \cup {n} /\ n \notin Successes /\ IsFiniteSet(Successes)
      BY OneMoreSample, SamplesFinite
<1>2. Cardinality(Successes') = Cardinality(Successes) + 1
      BY <1>1, FS_AddElement
<1>3. \A i \in Successes : f[i] \in Int /\ g[i] = f[i]
  <2>1. \A i \in Successes : samples[i].rtt \in Int
        BY SamplesFinite
  <2>2. \A i \in Successes : samples'[i] = samples[i]
        BY OneMoreSample, SamplesFinite
  <2> QED BY <1>1, <2>1, <2>2
<1>4. g[n] = a.rtt /\ g[n] \in Int
  <2>1. samples'[n] = [rtt |-> a.rtt, inFlight |-> a.inFlight, didDrop |-> a.didDrop]
        BY OneMoreSample
  <2>2. g[n] = samples'[n].rtt
        BY <1>1
  <2>3. a.rtt \in Int
        BY ArgumentType
  <2> HIDE DEF g, n
  <2> QED BY <2>1, <2>2, <2>3
<1> HIDE DEF f, g, n
<1>5. SumFunctionOnSet(g, Successes \cup {n}) = SumFunctionOnSet(f, Successes) + g[n]
  <2>1. Grows(f, g, Successes, n)
        BY <1>1, <1>3, <1>4 DEF Grows
  <2> QED BY <1>1, <2>1, SumAdd
<1> QED BY <1>1, <1>2, <1>4, <1>5 DEF f, g

\* One more RTT, no smaller than the new minimum, keeps the average above it.
LEMMA AverageAbove ==
    ASSUME NEW c \in Nat, NEW m \in Int, NEW sum \in Int, NEW r \in Int, NEW k \in Int,
           k <= m, k <= r, c * m <= sum \/ (c = 0 /\ sum = 0)
    PROVE  (c + 1) * k <= sum + r
<1>1. c * k <= c * m /\ c * k \in Int /\ c * m \in Int
      OBVIOUS
<1>2. (c + 1) * k = c * k + k
      OBVIOUS
<1>3. c * k <= sum
  <2>1. CASE c * m <= sum
        BY <1>1, <2>1
  <2>2. CASE c = 0 /\ sum = 0
        BY <2>2
  <2> QED BY <2>1, <2>2
<1> QED BY <1>1, <1>2, <1>3

\* Collecting a sample keeps the window faithful.
LEMMA CollectFaithful ==
    ASSUME WindowInv, TypeOK', NEW a \in Arguments, Collect(a)
    PROVE  WindowInv'
<1>0. /\ a.rtt \in Nat /\ a.inFlight \in Nat /\ sample \in window!WindowType
      /\ MaxInt64 \in Int /\ a.rtt < MaxInt64
  <2>1. a.rtt \in RTTs
        BY DEF Arguments
  <2> QED BY <2>1, ArgumentType, WindowedAssumptions DEF WindowInv, TypeOK
<1>1. /\ sample.minRTT \in Int /\ sample.sum \in Int /\ sample.maxInFlight \in Nat
      /\ sample.sampleCount \in Nat /\ sample.didDrop \in BOOLEAN
      BY <1>0 DEF window!WindowType
<1>2. samples' \in Seq([rtt : Nat, inFlight : Nat, didDrop : BOOLEAN])
      BY OneMoreSample
<1>3. sample'.maxInFlight = Max(Loads' \cup {0})
  <2>1. sample'.maxInFlight = Larger(a.inFlight, sample.maxInFlight)
        BY DEF Collect, Added, window!AddSample, window!AddDroppedSample, window!NewWindow,
               window!Larger
  <2> QED BY <2>1, ExtremesMove DEF WindowInv
<1>4. CASE a.didDrop
  <2>1. /\ sample'.sampleCount = sample.sampleCount /\ sample'.sum = sample.sum
        /\ sample'.didDrop = TRUE
        /\ sample'.minRTT = IF sample.minRTT = 0 THEN MaxInt64 ELSE sample.minRTT
        BY <1>4 DEF Collect, Added, window!AddDroppedSample, window!NewWindow
  <2>2. Successes' = Successes /\ SuccessRTTs' = SuccessRTTs /\ (NoZero' <=> NoZero)
        BY <1>4, OneMoreSample
  <2>3. [i \in Successes' |-> samples'[i].rtt] = [i \in Successes |-> samples[i].rtt]
        BY <2>2, OneMoreSample, SamplesFinite
  <2>4. Successes' # DOMAIN samples'
        BY <2>2, OneMoreSample, SamplesFinite
  <2>5. NoZero => sample'.minRTT = sample.minRTT
    <3> SUFFICES ASSUME NoZero, sample.minRTT = 0 PROVE MaxInt64 = 0
        BY <2>1
    <3>1. 0 = Min(SuccessRTTs \cup {MaxInt64})
          BY DEF WindowInv
    <3>2. 0 \notin SuccessRTTs
          BY DEF NoZero, SuccessRTTs
    <3>3. Min(SuccessRTTs \cup {MaxInt64}) \in SuccessRTTs \cup {MaxInt64}
      <4> DEFINE T == SuccessRTTs \cup {MaxInt64}
      <4>1. IsFiniteSet(T)
            BY SamplesFinite, FS_AddElement
      <4>2. T # {} /\ \A x \in T : x \in Int
            BY <1>0, SamplesFinite
      <4> HIDE DEF T
      <4>3. Min(T) \in T
            BY <4>1, <4>2, MaxMinFacts
      <4> QED BY <4>3 DEF T
    <3> QED BY <3>1, <3>2, <3>3
  <2>6. NoZero' /\ Successes' # {} => AverageAboveMin'
    <3>1. NoZero /\ Successes # {} => AverageAboveMin
          BY DEF WindowInv
    <3> QED BY <2>1, <2>2, <2>5, <3>1 DEF AverageAboveMin
  <2> QED BY <1>2, <1>3, <2>1, <2>2, <2>3, <2>4, <2>5, <2>6 DEF WindowInv
<1>5. CASE ~a.didDrop
  <2> DEFINE k == Smaller(sample.minRTT, a.rtt)
  <2>1. /\ sample'.sampleCount = sample.sampleCount + 1 /\ sample'.sum = sample.sum + a.rtt
        /\ sample'.didDrop = sample.didDrop
        /\ sample'.minRTT = IF k = 0 THEN MaxInt64 ELSE k
        BY <1>5 DEF Collect, Added, window!AddSample, window!NewWindow, window!Smaller
  <2>2. sample'.sampleCount = Cardinality(Successes')
        BY <1>5, <2>1, SuccessCounts DEF WindowInv
  <2>3. sample'.sum = SumFunctionOnSet([i \in Successes' |-> samples'[i].rtt], Successes')
        BY <1>5, <2>1, SuccessCounts DEF WindowInv
  <2>4. sample'.didDrop = (Successes' # DOMAIN samples')
    <3> DEFINE n == Len(samples) + 1
    <3>1. /\ Successes' = Successes \cup {n} /\ DOMAIN samples' = DOMAIN samples \cup {n}
          /\ n \notin DOMAIN samples /\ Successes \subseteq DOMAIN samples
          BY <1>5, OneMoreSample, SamplesFinite
    <3> HIDE DEF n
    <3>2. Successes' = DOMAIN samples' <=> Successes = DOMAIN samples
          BY <3>1
    <3> QED BY <2>1, <3>2 DEF WindowInv
  <2>5. ASSUME NoZero'
        PROVE  /\ sample'.minRTT = Min(SuccessRTTs' \cup {MaxInt64})
               /\ AverageAboveMin'
    <3>1. NoZero /\ a.rtt # 0
          BY <1>5, <2>5, OneMoreSample
    <3>2. sample.minRTT = Min(SuccessRTTs \cup {MaxInt64})
          BY <3>1 DEF WindowInv
    <3>3. k = Min(SuccessRTTs' \cup {MaxInt64})
          BY <1>5, <3>2, ExtremesMove
    <3>4. k # 0
      <4>1. sample.minRTT # 0
        <5>1. 0 \notin SuccessRTTs /\ MaxInt64 # 0
              BY <1>0, <3>1 DEF NoZero, SuccessRTTs
        <5> DEFINE T == SuccessRTTs \cup {MaxInt64}
        <5>2. IsFiniteSet(T)
              BY SamplesFinite, FS_AddElement
        <5>3. T # {} /\ 0 \notin T /\ \A x \in T : x \in Int
              BY <1>0, <5>1, SamplesFinite
        <5>4. sample.minRTT = Min(T)
              BY <3>2
        <5> HIDE DEF T
        <5> QED BY <5>2, <5>3, <5>4, MaxMinFacts
      <4> QED BY <3>1, <4>1
    <3>5. AverageAboveMin \/ (sample.sampleCount = 0 /\ sample.sum = 0)
      <4>1. CASE Successes = {}
        <5>1. Cardinality(Successes) = 0
              BY <4>1, FS_EmptySet
        <5>2. SumFunctionOnSet([i \in Successes |-> samples[i].rtt], Successes) = 0
              BY <4>1, SumEmpty
        <5> QED BY <5>1, <5>2 DEF WindowInv
      <4>2. CASE Successes # {}
        <5>1. NoZero /\ Successes # {} => AverageAboveMin
              BY DEF WindowInv
        <5> QED BY <3>1, <4>2, <5>1
      <4> QED BY <4>1, <4>2
    <3>6. k \in Int /\ k <= sample.minRTT /\ k <= a.rtt /\ a.rtt \in Int
          BY <1>0, <1>1
    <3> HIDE DEF k
    <3>7. (sample.sampleCount + 1) * k <= sample.sum + a.rtt
          BY <1>1, <3>5, <3>6, AverageAbove DEF AverageAboveMin
    <3>8. sample'.minRTT = k
          BY <2>1, <3>4
    <3>9. AverageAboveMin'
          BY <2>1, <3>7, <3>8 DEF AverageAboveMin
    <3> QED BY <3>3, <3>8, <3>9
  <2> QED BY <1>2, <1>3, <2>2, <2>3, <2>4, <2>5 DEF WindowInv
<1> QED BY <1>4, <1>5

\* The window that WindowedLimit keeps says of the samples since the last report
\* what its fields are named for, in whatever order they arrive, for every window
\* size, threshold and number of samples.
THEOREM WindowIsFaithful == Spec => []WindowFaithful
<1>1. Init => NoSamples
      BY InitInvariant DEF Init, IInv, NoSamples
<1>2. WindowInv /\ TypeOK' /\ [Next]_vars => WindowInv' \/ NoSamples'
  <2> SUFFICES ASSUME WindowInv, TypeOK', [Next]_vars PROVE WindowInv' \/ NoSamples'
      OBVIOUS
  <2>1. ASSUME NEW a \in Arguments, Collect(a) PROVE WindowInv'
        BY <2>1, CollectFaithful
  <2>2. ASSUME NEW a \in Arguments, Report(a) PROVE NoSamples'
        BY <2>2 DEF Report, NoSamples
  <2>3. CASE UNCHANGED vars
        BY <2>3 DEF vars, WindowInv, Successes, SuccessRTTs, Loads, NoZero,
                     AverageAboveMin
  <2> QED BY <2>1, <2>2, <2>3 DEF Next, Discard
<1>3. WindowInv => WindowFaithful
  <2> SUFFICES ASSUME WindowInv PROVE WindowFaithful
      OBVIOUS
  <2>1. ASSUME NoZero, Successes # {}
        PROVE  window!AverageRTT(sample) >= sample.minRTT
    <3>1. sample.sum \in Int /\ sample.minRTT \in Int /\ sample.sampleCount \in Nat
          BY DEF WindowInv, TypeOK, window!WindowType
    <3>2. sample.sampleCount # 0
          BY <2>1, SamplesFinite, FS_EmptySet DEF WindowInv
    <3>3. sample.sampleCount * sample.minRTT <= sample.sum
          BY <2>1 DEF WindowInv, AverageAboveMin
    <3> QED BY <3>1, <3>2, <3>3, DivBound DEF window!AverageRTT
  <2> QED BY <2>1 DEF WindowInv, WindowFaithful, SuccessRTTs, Loads, NoZero
<1> QED BY <1>1, <1>2, <1>3, EmptyFaithful, TypeCorrect, PTL DEF Spec
=============================================================================
