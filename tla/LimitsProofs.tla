----------------------------- MODULE LimitsProofs -----------------------------
(***************************************************************************)
(* Proofs about VegasLimit, GradientLimit, Gradient2Limit and the          *)
(* Prometheus registry as Limits composes them, for all the values that    *)
(* their constructors accept.                                              *)
(***************************************************************************)
EXTENDS Limits, SumTheorems

\* The systems that do not run keep their state.
LEMMA OneRuns ==
    ASSUME [LimitsNext]_limitsVars
    PROVE  /\ [Next]_vars
           /\ [vegas!Next]_(vegas!vars)
           /\ [gradient!Next]_(gradient!vars)
           /\ [gradient2!Next]_(gradient2!vars)
           /\ [prometheus!Next]_(prometheus!vars)
<1> USE DEF limitsVars, vegasVars, gradVars, g2Vars, promVars,
            vegas!vars, gradient!vars, gradient2!vars, prometheus!vars
<1>1. CASE UNCHANGED limitsVars
      BY <1>1
<1>2. CASE Next /\ UNCHANGED <<vegasVars, gradVars, g2Vars, registryVars, promVars>>
      BY <1>2
<1>3. CASE vegas!Next /\ UNCHANGED <<vars, gradVars, g2Vars, registryVars, promVars>>
      BY <1>3
<1>4. CASE gradient!Next /\ UNCHANGED <<vars, vegasVars, g2Vars, registryVars, promVars>>
      BY <1>4
<1>5. CASE gradient2!Next /\ UNCHANGED <<vars, vegasVars, gradVars, registryVars, promVars>>
      BY <1>5
<1>6. CASE UNCHANGED <<vars, vegasVars, gradVars, g2Vars, promVars>>
      BY <1>6
<1>7. CASE prometheus!Next /\ UNCHANGED <<vars, vegasVars, gradVars, g2Vars, registryVars>>
      BY <1>7
<1> QED BY <1>1, <1>2, <1>3, <1>4, <1>5, <1>6, <1>7 DEF LimitsNext

-----------------------------------------------------------------------------
(* The minimum that VegasLimit and GradientLimit measure against. *)

\* What noLoad is of the RTTs since the last probe: one of them, and their minimum
\* unless a 0 among them has made it start again.
Fresh(noLoad, seen) ==
    /\ IsFiniteSet(seen) /\ \A x \in seen : x \in Nat
    /\ noLoad \in seen \cup {0}
    /\ seen # {} /\ 0 \notin seen => noLoad = Min(seen)

\* What MinimumMeasurement makes of one more RTT.
LessOf(value, s) == IF value = 0 \/ s < value THEN s ELSE value

\* Nothing has been measured.
LEMMA FreshEmpty == Fresh(0, {})
  BY FS_EmptySet DEF Fresh

\* Adding an RTT to the measurement adds it to what the minimum is of.
LEMMA FreshAdd ==
    ASSUME NEW noLoad, NEW seen, Fresh(noLoad, seen), NEW rtt \in Nat
    PROVE  Fresh(LessOf(noLoad, rtt), seen \cup {rtt}) /\ noLoad \in Nat
<1> USE DEF Fresh
<1> DEFINE T == seen \cup {rtt}
           m == LessOf(noLoad, rtt)
<1>1. IsFiniteSet(T) /\ \A x \in T : x \in Nat
      BY FS_AddElement
<1>2. noLoad \in Nat /\ m \in T \cup {0}
      BY DEF LessOf
<1>3. ASSUME 0 \notin T PROVE m = Min(T)
  <2>1. CASE seen = {}
    <3>1. T = {rtt} /\ noLoad = 0
          BY <2>1
    <3>2. Min({rtt}) = rtt
          BY MaxMinSingle
    <3> QED BY <3>1, <3>2 DEF LessOf
  <2>2. CASE seen # {}
    <3>1. noLoad = Min(seen) /\ \A x \in seen : x \in Int
          BY <1>3, <2>2
    <3>2. Min(seen) \in seen /\ rtt \in Int
          BY <2>2, <3>1, MaxMinFacts
    <3>3. Min(T) = IF rtt < Min(seen) THEN rtt ELSE Min(seen)
          BY <2>2, <3>1, <3>2, MaxMinAdd
    <3>4. noLoad # 0
          BY <1>3, <3>1, <3>2
    <3> QED BY <3>1, <3>3, <3>4 DEF LessOf
  <2> QED BY <2>1, <2>2
<1> HIDE DEF T, m
<1>4. Fresh(m, T)
      BY <1>1, <1>2, <1>3
<1> QED BY <1>2, <1>4 DEF T, m

-----------------------------------------------------------------------------
(* VegasLimit *)

VegasInv ==
    /\ vegasLimit \in Int /\ vegas!LimitBounded
    /\ vegasJitter \in Jitters
    /\ Fresh(vegasNoLoad, vegasSeen)
    /\ vegasCount \in Nat /\ vegasCount < ProbeMultiplier * vegas!LargestLimit

\* The bounds contain 1 and every limit that updateEstimatedLimit sets.
LEMMA VegasBounds ==
    /\ vegas!LargestLimit \in Nat \ {0} /\ VegasInitial <= vegas!LargestLimit
    /\ ProbeMultiplier * vegas!LargestLimit \in Nat \ {0}
    /\ \A l \in Int : /\ vegas!Bounded(l) \in 1 .. vegas!LargestLimit
                      /\ vegas!Bounded(l) \in Int
<1>1. vegas!LargestLimit \in Nat \ {0} /\ VegasInitial <= vegas!LargestLimit
      BY VegasAssumptions DEF vegas!LargestLimit, vegas!Larger
<1>2. \A l \in Int : vegas!Bounded(l) \in 1 .. vegas!LargestLimit /\ vegas!Bounded(l) \in Int
      BY VegasAssumptions DEF vegas!LargestLimit, vegas!Bounded, vegas!Larger, vegas!Smaller
<1>3. \A k \in Nat \ {0} : ProbeMultiplier * k \in Nat \ {0}
      BY VegasAssumptions
<1> QED BY <1>1, <1>2, <1>3

\* A sample that does not probe leaves the count below its bound.
LEMMA VegasCount ==
    ASSUME VegasInv, ~vegas!ShouldProbe
    PROVE  vegasCount + 1 < ProbeMultiplier * vegas!LargestLimit
<1> DEFINE M == ProbeMultiplier
           L == vegasLimit
           G == vegas!LargestLimit
<1>1. /\ M \in Nat /\ L \in Nat /\ G \in Nat /\ L <= G /\ vegasCount \in Nat
      /\ vegasJitter \in 2 .. 3
      BY VegasBounds, VegasAssumptions DEF VegasInv, vegas!LimitBounded
<1>2. (vegasJitter * M * L) \div 4 > vegasCount + 1
      BY <1>1 DEF vegas!ShouldProbe
<1> HIDE DEF M, L, G
<1>3. M * L \in Nat /\ M * G \in Nat /\ M * L <= M * G
      BY <1>1
<1>4. vegasJitter * M * L <= 4 * (M * L) /\ vegasJitter * M * L \in Nat
      BY <1>1, <1>3
<1>5. (vegasJitter * M * L) \div 4 <= M * L
      BY <1>3, <1>4
<1>6. vegasCount + 1 < M * G
      BY <1>1, <1>2, <1>3, <1>4, <1>5
<1> QED BY <1>6 DEF M, G

\* The limits that updateEstimatedLimit computes are integers.
LEMMA VegasNewLimit ==
    ASSUME VegasInv, NEW rtt, NEW inFlight, NEW didDrop,
           vegas!UpdateEstimatedLimit(rtt, inFlight, didDrop)
    PROVE  vegasLimit' \in Int /\ vegas!LimitBounded'
<1>1. \A l \in vegas!NewLimit(rtt, inFlight, didDrop) : l \in Int
      BY DEF vegas!NewLimit, vegas!Log10Lookup, VegasInv
<1>2. CASE vegas!NewLimit(rtt, inFlight, didDrop) = {}
      BY <1>2 DEF vegas!UpdateEstimatedLimit, VegasInv, vegas!LimitBounded, vegas!LargestLimit
<1>3. CASE vegas!NewLimit(rtt, inFlight, didDrop) # {}
  <2>1. PICK l \in Int : vegasLimit' = vegas!Bounded(l) /\ vegasNotified' = vegasLimit'
        BY <1>1, <1>3 DEF vegas!UpdateEstimatedLimit
  <2> QED BY <2>1, VegasBounds DEF vegas!LimitBounded
<1> QED BY <1>2, <1>3

\* The constructor establishes the invariant.
LEMMA VegasInit == vegas!Init => VegasInv
<1> SUFFICES ASSUME vegas!Init PROVE VegasInv
    OBVIOUS
<1> QED BY VegasBounds, VegasAssumptions, FreshEmpty
        DEF vegas!Init, VegasInv, vegas!LimitBounded

\* OnSample keeps it.
LEMMA VegasStep == VegasInv /\ [vegas!Next]_(vegas!vars) => VegasInv'
<1> SUFFICES ASSUME VegasInv, [vegas!Next]_(vegas!vars) PROVE VegasInv'
    OBVIOUS
<1>0. vegas!LargestLimit' = vegas!LargestLimit
      BY DEF vegas!LargestLimit
<1>1. ASSUME NEW rtt \in Nat, vegas!Probe(rtt) PROVE VegasInv'
  <2>1. Fresh(LessOf(0, rtt), {} \cup {rtt})
        BY FreshAdd, FreshEmpty
  <2>2. vegasNoLoad' = LessOf(0, rtt) /\ vegasSeen' = {} \cup {rtt}
        BY <1>1 DEF vegas!Probe, vegas!AddMinimum, LessOf
  <2> QED BY <1>0, <1>1, <2>1, <2>2, VegasBounds DEF vegas!Probe, VegasInv, vegas!LimitBounded
<1>2. ASSUME NEW rtt \in Nat, vegas!Baseline(rtt) PROVE VegasInv'
  <2>1. Fresh(LessOf(vegasNoLoad, rtt), vegasSeen \cup {rtt})
        BY FreshAdd DEF VegasInv
  <2>2. vegasNoLoad' = LessOf(vegasNoLoad, rtt) /\ vegasSeen' = vegasSeen \cup {rtt}
        BY <1>2 DEF vegas!Baseline, vegas!AddMinimum, LessOf
  <2>3. vegasCount + 1 < ProbeMultiplier * vegas!LargestLimit
        BY <1>2, VegasCount DEF vegas!Baseline
  <2> QED BY <1>0, <1>2, <2>1, <2>2, <2>3 DEF vegas!Baseline, VegasInv, vegas!LimitBounded
<1>3. ASSUME NEW rtt \in Nat, NEW inFlight, NEW didDrop, vegas!Update(rtt, inFlight, didDrop)
      PROVE  VegasInv'
  <2>1. Fresh(LessOf(vegasNoLoad, rtt), vegasSeen \cup {rtt}) /\ vegasNoLoad \in Nat
        BY FreshAdd DEF VegasInv
  <2>2. vegasNoLoad' = LessOf(vegasNoLoad, rtt) /\ vegasSeen' = vegasSeen \cup {rtt}
        BY <1>3, <2>1 DEF vegas!Update, LessOf
  <2>3. vegasCount + 1 < ProbeMultiplier * vegas!LargestLimit
        BY <1>3, VegasCount DEF vegas!Update
  <2>4. vegasLimit' \in Int /\ vegas!LimitBounded'
        BY <1>3, VegasNewLimit DEF vegas!Update
  <2>5. vegasCount' = vegasCount + 1 /\ vegasJitter' = vegasJitter
        BY <1>3 DEF vegas!Update
  <2>6. Fresh(vegasNoLoad, vegasSeen)'
        BY <2>1, <2>2
  <2>7. vegasCount' \in Nat /\ vegasCount' < (ProbeMultiplier * vegas!LargestLimit)'
        BY <1>0, <2>3, <2>5 DEF VegasInv
  <2> QED BY <2>4, <2>5, <2>6, <2>7 DEF VegasInv
<1>4. CASE UNCHANGED vegas!vars
      BY <1>0, <1>4 DEF vegas!vars, VegasInv, vegas!LimitBounded
<1>5. \A rtt \in VegasRTTs : rtt \in Nat
      BY VegasAssumptions
<1> QED BY <1>1, <1>2, <1>3, <1>4, <1>5 DEF vegas!Next, vegas!OnSample

-----------------------------------------------------------------------------
(* Fixed-point numbers: multiples of 1/u. *)

\* The integer part of an integer.
LEMMA WholePart ==
    ASSUME NEW u \in Nat \ {0}, NEW x \in Int
    PROVE  u * x \in Int /\ (u * x) \div u = x
<1> DEFINE q == (u * x) \div u
<1>1. u * x \in Int /\ q \in Int /\ u * q <= u * x /\ u * x < u * (q + 1)
      OBVIOUS
<1> HIDE DEF q
<1>2. q <= x
      BY <1>1
<1>3. x < q + 1
      BY <1>1
<1> QED BY <1>1, <1>2, <1>3 DEF q

\* What division rounds down to is no more than a factor of more.
LEMMA DivUpper ==
    ASSUME NEW s \in Int, NEW c \in Nat \ {0}, NEW m \in Int, s <= c * m
    PROVE  s \div c \in Int /\ s \div c <= m
<1> DEFINE q == s \div c
<1>1. q \in Int /\ c * q <= s /\ c * q \in Int /\ c * m \in Int
      OBVIOUS
<1> HIDE DEF q
<1>2. c * q <= c * m
      BY <1>1
<1>3. q <= m
      BY <1>1, <1>2
<1> QED BY <1>1, <1>3 DEF q

\* Multiplying keeps the order.
LEMMA TimesMonotone ==
    ASSUME NEW u \in Nat, NEW a \in Int, NEW b \in Int, a <= b
    PROVE  u * a \in Int /\ u * b \in Int /\ u * a <= u * b
OBVIOUS

\* A quotient of integers by a positive one is an integer.
LEMMA DivInt == ASSUME NEW s \in Int, NEW c \in Nat \ {0} PROVE s \div c \in Int
OBVIOUS

-----------------------------------------------------------------------------
(* GradientLimit *)

GradInv ==
    /\ gradEstimate \in Int /\ gradient!LimitBounded
    /\ Fresh(gradNoLoad, gradSeen)
    /\ gradCountdown \in Int
    /\ ProbeInterval # -1 => gradCountdown \in 1 .. 2 * ProbeInterval - 1

\* The bounds are in order.
LEMMA GradBounds ==
    /\ gradient!SmallestLimit \in Nat \ {0} /\ gradient!LargestLimit \in Nat \ {0}
    /\ \A l \in {GradInitial, GradMin, GradMax} :
          gradient!SmallestLimit <= l /\ l <= gradient!LargestLimit /\ l \in Int
    /\ GradBaseline <= gradient!LargestLimit
BY GradientAssumptions
   DEF gradient!SmallestLimit, gradient!LargestLimit, gradient!Larger, gradient!Smaller

\* The table of square roots answers with at least 1 and no more than its argument.
LEMMA SqrtBounds ==
    ASSUME NEW i \in Int
    PROVE  gradient!SqrtRoot(i) \in Nat \ {0} /\ gradient!SqrtRoot(i) <= gradient!Larger(1, i)
<1> DEFINE S == {k \in 1 .. i : k * k <= i}
           T == S \cup {1}
<1>1. IsFiniteSet(S)
  <2>1. IsFiniteSet(1 .. i) /\ S \in SUBSET (1 .. i)
        BY FS_Interval
  <2> HIDE DEF S
  <2> QED BY <2>1, FS_Subset
<1>2. IsFiniteSet(T) /\ T # {} /\ \A k \in T : k \in Int
      BY <1>1, FS_AddElement
<1>3. \A k \in T : k \in Nat \ {0} /\ k <= gradient!Larger(1, i)
      BY DEF gradient!Larger
<1>4. {1} \cup S = T
      OBVIOUS
<1> HIDE DEF T
<1>5. Max(T) \in T
      BY <1>2, MaxMinFacts
<1>6. gradient!SqrtRoot(i) = Max({1} \cup S)
      BY DEF gradient!SqrtRoot, gradient!Max, Max
<1> HIDE DEF S
<1> QED BY <1>3, <1>4, <1>5, <1>6

\* The queue that the estimate leaves room for is within the bounds.
LEMMA QueueBounds ==
    ASSUME GradInv
    PROVE  gradient!QueueSize \in Nat \ {0} /\ gradient!QueueSize <= gradient!LargestLimit
<1> DEFINE i == gradEstimate \div Unit
<1>1. i \in Int /\ i <= gradient!LargestLimit
      BY DivUpper, GradBounds, GradientAssumptions DEF GradInv, gradient!LimitBounded
<1> HIDE DEF i
<1>2. gradient!SqrtRoot(i) \in Nat \ {0} /\ gradient!SqrtRoot(i) <= gradient!Larger(1, i)
      BY <1>1, SqrtBounds
<1>3. gradient!QueueSize = gradient!Larger(GradBaseline, gradient!SqrtRoot(i))
      BY DEF gradient!QueueSize, i
<1> QED BY <1>1, <1>2, <1>3, GradBounds, GradientAssumptions DEF gradient!Larger

\* The gradient scales the estimate to a number, also in the last case, where the RTT
\* is above the tolerated one and so not 0.
LEMMA ScaledInt ==
    ASSUME GradInv, NEW base \in Nat, NEW rtt \in Nat
    PROVE  gradient!Scaled(base, rtt) \in Int
<1>1. gradEstimate \in Int /\ Tolerance \in Nat /\ Tolerance * base \in Nat
      BY GradientAssumptions DEF GradInv
<1>2. gradEstimate * Tolerance * base \in Int
      BY <1>1
<1>3. CASE Tolerance * base >= rtt
      BY <1>1, <1>3 DEF gradient!Scaled
<1>4. CASE ~(Tolerance * base >= rtt)
  <2>1. rtt \in Nat \ {0}
        BY <1>1, <1>4
  <2>2. (gradEstimate * Tolerance * base) \div rtt \in Int
        BY <1>2, <2>1, DivInt
  <2>3. gradEstimate \div 2 \in Int
        BY <1>1
  <2> QED BY <1>4, <2>2, <2>3 DEF gradient!Scaled
<1> QED BY <1>3, <1>4

\* Smoothing does not go below the bounds.
LEMMA SmoothedBounds ==
    ASSUME GradInv, NEW new \in Int
    PROVE  /\ gradient!Smoothed(new) \in Int
           /\ Unit * gradient!SmallestLimit <= gradient!Smoothed(new)
<1> DEFINE low == Unit * gradient!SmallestLimit
           min == Unit * GradMin
           mix == (gradEstimate * (SmoothDen - SmoothNum) + new * SmoothNum) \div SmoothDen
<1>1. low \in Int /\ min \in Int /\ low <= min
      BY TimesMonotone, GradBounds, GradientAssumptions
<1>2. gradEstimate \in Int /\ low <= gradEstimate
      BY DEF GradInv, gradient!LimitBounded
<1>3. mix \in Int
  <2>1. gradEstimate * (SmoothDen - SmoothNum) + new * SmoothNum \in Int
        BY <1>2, GradientAssumptions
  <2> QED BY <2>1, DivInt, GradientAssumptions
<1>4. gradient!Smoothed(new) = IF new >= gradEstimate THEN new ELSE gradient!Larger(min, mix)
      BY DEF gradient!Smoothed
<1> HIDE DEF low, min, mix
<1>5. gradient!Smoothed(new) \in Int /\ low <= gradient!Smoothed(new)
      BY <1>1, <1>2, <1>3, <1>4 DEF gradient!Larger
<1> QED BY <1>5 DEF low

\* The estimate that an update sets is within the bounds.
LEMMA GradBounded ==
    ASSUME GradInv, NEW new \in Int, Unit * gradient!SmallestLimit <= new
    PROVE  /\ gradient!Bounded(new) \in Int
           /\ Unit * gradient!SmallestLimit <= gradient!Bounded(new)
           /\ gradient!Bounded(new) <= Unit * gradient!LargestLimit
<1> DEFINE low == Unit * gradient!SmallestLimit
           high == Unit * gradient!LargestLimit
           max == Unit * GradMax
           queue == Unit * gradient!QueueSize
<1>1. low \in Int /\ max \in Int /\ low <= max
      BY TimesMonotone, GradBounds, GradientAssumptions
<1>2. high \in Int /\ max <= high
      BY TimesMonotone, GradBounds, GradientAssumptions
<1>3. queue \in Int /\ queue <= high
      BY TimesMonotone, GradBounds, QueueBounds, GradientAssumptions
<1>4. gradient!Bounded(new) = gradient!Larger(queue, gradient!Smaller(max, new))
      BY DEF gradient!Bounded
<1>5. low <= new
      OBVIOUS
<1> HIDE DEF low, high, max, queue
<1>6. /\ gradient!Bounded(new) \in Int /\ low <= gradient!Bounded(new)
      /\ gradient!Bounded(new) <= high
      BY <1>1, <1>2, <1>3, <1>4, <1>5 DEF gradient!Larger, gradient!Smaller
<1> QED BY <1>6 DEF low, high

\* The constructor establishes the invariant.
LEMMA GradInit == gradient!Init => GradInv
<1> SUFFICES ASSUME gradient!Init PROVE GradInv
    OBVIOUS
<1>1. /\ Unit * gradient!SmallestLimit <= Unit * GradInitial
      /\ Unit * GradInitial <= Unit * gradient!LargestLimit
      /\ Unit * GradInitial \in Int
      /\ (Unit * GradInitial) \div Unit = GradInitial
      BY TimesMonotone, WholePart, GradBounds, GradientAssumptions
<1>2. GradInitial * Unit = Unit * GradInitial
      BY GradientAssumptions
<1>3. gradient!LimitBounded /\ gradEstimate \in Int
      BY <1>1, <1>2 DEF gradient!Init, gradient!LimitBounded
<1>4. gradCountdown \in Int /\ (ProbeInterval # -1 => gradCountdown \in 1 .. 2 * ProbeInterval - 1)
      BY GradientAssumptions DEF gradient!Init, gradient!NextProbeCountdown, gradient!ProbeDisabled
<1> QED BY <1>3, <1>4, FreshEmpty DEF gradient!Init, GradInv

\* A probe keeps it.
LEMMA GradProbe == ASSUME GradInv, gradient!Probe PROVE GradInv'
<1> DEFINE l == gradient!Larger(GradMin, gradient!QueueSize)
<1>1. gradEstimate' = Unit * l /\ gradNotified' = l /\ gradNoLoad' = 0 /\ gradSeen' = {}
      BY DEF gradient!Probe
<1>2. l \in Int /\ gradient!SmallestLimit <= l /\ l <= gradient!LargestLimit
      BY QueueBounds, GradBounds DEF gradient!Larger
<1> HIDE DEF l
<1>3. /\ Unit * gradient!SmallestLimit <= Unit * l
      /\ Unit * l <= Unit * gradient!LargestLimit
      /\ Unit * l \in Int /\ (Unit * l) \div Unit = l
      BY <1>2, TimesMonotone, WholePart, GradBounds, GradientAssumptions
<1>4. gradient!SmallestLimit' = gradient!SmallestLimit /\ gradient!LargestLimit' = gradient!LargestLimit
      BY DEF gradient!SmallestLimit, gradient!LargestLimit
<1>5. gradEstimate' \in Int /\ gradient!LimitBounded'
      BY <1>1, <1>3, <1>4 DEF gradient!LimitBounded
<1>6. /\ gradCountdown' \in Int
      /\ ProbeInterval # -1 => gradCountdown' \in 1 .. 2 * ProbeInterval - 1
      BY GradientAssumptions DEF gradient!Probe, gradient!NextProbeCountdown, gradient!ProbeDisabled
<1>7. Fresh(gradNoLoad, gradSeen)'
      BY <1>1, FreshEmpty
<1> QED BY <1>5, <1>6, <1>7 DEF GradInv

\* Any other sample keeps it.
LEMMA GradUpdate ==
    ASSUME GradInv, NEW rtt \in Nat, NEW inFlight, NEW didDrop,
           gradient!Update(rtt, inFlight, didDrop)
    PROVE  GradInv'
<1>1. Fresh(LessOf(gradNoLoad, rtt), gradSeen \cup {rtt}) /\ gradNoLoad \in Nat
      BY FreshAdd DEF GradInv
<1>2. gradNoLoad' = LessOf(gradNoLoad, rtt) /\ gradSeen' = gradSeen \cup {rtt}
      BY DEF gradient!Update, gradient!AddMinimum, LessOf
<1>3. Fresh(gradNoLoad, gradSeen)' /\ gradNoLoad' \in Nat
      BY <1>1, <1>2 DEF LessOf
<1>4. gradient!SmallestLimit' = gradient!SmallestLimit /\ gradient!LargestLimit' = gradient!LargestLimit
      BY DEF gradient!SmallestLimit, gradient!LargestLimit
<1>5. gradEstimate' \in Int /\ gradient!LimitBounded'
  <2>1. CASE UNCHANGED <<gradEstimate, gradNotified>>
        BY <1>4, <2>1 DEF GradInv, gradient!LimitBounded
  <2>2. CASE /\ gradEstimate' = gradient!Bounded(gradient!Smoothed(gradient!Raw(gradNoLoad', rtt, didDrop)))
             /\ gradNotified' = gradEstimate' \div Unit
    <3> DEFINE raw == gradient!Raw(gradNoLoad', rtt, didDrop)
    <3>1. gradEstimate \in Int /\ gradEstimate \div 2 \in Int
          BY DEF GradInv
    <3>2. \A base \in Nat : gradient!Scaled(base, rtt) \in Int
          BY ScaledInt
    <3>3. Unit * gradient!QueueSize \in Int
          BY QueueBounds, GradientAssumptions
    <3>4. gradient!Scaled(gradNoLoad', rtt) \in Int
          BY <1>3, <3>2
    <3>5. raw \in Int
          BY <3>1, <3>3, <3>4 DEF gradient!Raw
    <3> HIDE DEF raw
    <3>6. /\ gradient!Smoothed(raw) \in Int
          /\ Unit * gradient!SmallestLimit <= gradient!Smoothed(raw)
          BY <3>5, SmoothedBounds
    <3>7. gradEstimate' = gradient!Bounded(gradient!Smoothed(raw))
          BY <2>2 DEF raw
    <3>8. /\ gradEstimate' \in Int /\ Unit * gradient!SmallestLimit <= gradEstimate'
          /\ gradEstimate' <= Unit * gradient!LargestLimit
          BY <3>6, <3>7, GradBounded
    <3>9. gradEstimate' >= Unit * gradient!SmallestLimit
          BY <3>8, GradBounds, GradientAssumptions
    <3> QED BY <1>4, <2>2, <3>8, <3>9 DEF gradient!LimitBounded
  <2> QED BY <2>1, <2>2 DEF gradient!Update
<1>6. /\ gradCountdown' \in Int
      /\ ProbeInterval # -1 => gradCountdown' \in 1 .. 2 * ProbeInterval - 1
      BY GradientAssumptions
      DEF GradInv, gradient!Update, gradient!ShouldProbe, gradient!Counted, gradient!ProbeDisabled
<1> QED BY <1>3, <1>5, <1>6 DEF GradInv

\* OnSample keeps the invariant.
LEMMA GradStep == GradInv /\ [gradient!Next]_(gradient!vars) => GradInv'
<1> SUFFICES ASSUME GradInv, [gradient!Next]_(gradient!vars) PROVE GradInv'
    OBVIOUS
<1>1. CASE UNCHANGED gradient!vars
      BY <1>1 DEF gradient!vars, GradInv, gradient!LimitBounded, gradient!SmallestLimit, gradient!LargestLimit
<1>2. CASE gradient!Next
  <2>1. PICK rtt \in GradRTTs, inFlight \in GradInFlights, didDrop \in BOOLEAN :
           gradient!Probe \/ gradient!Update(rtt, inFlight, didDrop)
        BY <1>2 DEF gradient!Next, gradient!OnSample
  <2>2. rtt \in Nat
        BY GradientAssumptions
  <2> QED BY <2>1, <2>2, GradProbe, GradUpdate
<1> QED BY <1>1, <1>2

-----------------------------------------------------------------------------
(* Gradient2Limit: the estimate *)

G2Inv ==
    /\ g2Estimate \in Int /\ gradient2!LimitBounded
    /\ g2Long \in Int /\ g2Sum \in Nat /\ g2Count \in 0 .. WarmupWindow

\* The bounds are in order.
LEMMA G2Bounds ==
    /\ gradient2!SmallestLimit \in Nat /\ gradient2!LargestLimit \in Nat
    /\ G2Initial \in Int /\ G2Min \in Int /\ G2Max \in Int
    /\ gradient2!SmallestLimit <= G2Initial /\ gradient2!SmallestLimit <= G2Min
    /\ \A l \in {G2Initial, G2Min, G2Max} : l <= gradient2!LargestLimit
BY Gradient2Assumptions
   DEF gradient2!SmallestLimit, gradient2!LargestLimit, gradient2!Larger, gradient2!Smaller

\* The average is a number, whatever its window.
LEMMA AddedInt ==
    ASSUME G2Inv, NEW rtt \in Nat
    PROVE  gradient2!Added(rtt) \in Int /\ gradient2!Reduced(gradient2!Added(rtt), rtt) \in Int
<1>1. /\ g2Sum \in Nat /\ g2Count \in Nat /\ g2Long \in Int
      /\ LongWindow \in Nat /\ Unit \in Nat
      BY Gradient2Assumptions, GradientAssumptions DEF G2Inv
<1>2. \A a \in Int, b \in Nat \ {0} : gradient2!CeilDiv(a, b) \in Int
      BY DivInt DEF gradient2!CeilDiv
<1>3. Unit * (g2Sum + rtt) \in Int /\ g2Count + 1 \in Nat \ {0}
      BY <1>1
<1>4. g2Long * (LongWindow - 1) + 2 * Unit * rtt \in Int /\ LongWindow + 1 \in Nat \ {0}
      BY <1>1
<1>5. gradient2!Added(rtt) \in Int
      BY <1>2, <1>3, <1>4 DEF gradient2!Added
<1>6. \A avg \in Int : gradient2!Reduced(avg, rtt) \in Int
  <2>1. \A avg \in Int : avg * 9 \in Int
        OBVIOUS
  <2> QED BY <1>2, <2>1 DEF gradient2!Reduced
<1> QED BY <1>5, <1>6

\* The gradient scales the estimate to a number, also in the last case, where the RTT
\* is above the average and less than twice it, so not 0.
LEMMA G2ScaledInt ==
    ASSUME G2Inv, NEW avg \in Int, NEW rtt \in Nat
    PROVE  gradient2!Scaled(avg, rtt) \in Int
<1> DEFINE d == Unit * rtt
<1>1. g2Estimate \in Int /\ d \in Nat /\ g2Estimate * avg \in Int /\ g2Estimate \div 2 \in Int
      BY GradientAssumptions DEF G2Inv
<1>2. gradient2!Scaled(avg, rtt) = IF avg >= d THEN g2Estimate
                                   ELSE IF 2 * avg <= d THEN g2Estimate \div 2
                                   ELSE (g2Estimate * avg) \div d
      BY DEF gradient2!Scaled
<1> HIDE DEF d
<1>3. ASSUME ~(avg >= d), ~(2 * avg <= d) PROVE (g2Estimate * avg) \div d \in Int
  <2>1. d \in Nat \ {0}
        BY <1>1, <1>3
  <2> QED BY <1>1, <2>1, DivInt
<1> QED BY <1>1, <1>2, <1>3

\* A new estimate is NaN or within the bounds of the configuration.
LEMMA NewEstimateBounds ==
    ASSUME G2Inv, NEW avg \in Int, NEW rtt \in Nat
    PROVE  \/ /\ gradient2!NewEstimate(avg, rtt) = -1
              /\ g2Estimate = -1 \/ (avg = 0 /\ rtt = 0)
           \/ /\ gradient2!NewEstimate(avg, rtt) \in Nat
              /\ Unit * gradient2!SmallestLimit <= gradient2!NewEstimate(avg, rtt)
              /\ gradient2!NewEstimate(avg, rtt) <= Unit * gradient2!LargestLimit
<1> DEFINE raw == gradient2!Scaled(avg, rtt) + Unit * G2QueueSize
           new == gradient2!Smoothed(raw)
           low == Unit * gradient2!SmallestLimit
           high == Unit * gradient2!LargestLimit
           min == Unit * G2Min
           max == Unit * G2Max
<1>1. raw \in Int
  <2>1. Unit * G2QueueSize \in Int
        BY GradientAssumptions, Gradient2Assumptions
  <2> QED BY <2>1, G2ScaledInt
<1>2. new \in Int
  <2> HIDE DEF raw
  <2>1. g2Estimate * (SmoothDen - SmoothNum) + raw * SmoothNum \in Int
        BY <1>1, GradientAssumptions DEF G2Inv
  <2> QED BY <2>1, DivInt, GradientAssumptions DEF gradient2!Smoothed
<1>3. low \in Int /\ min \in Nat /\ low <= min
      BY TimesMonotone, G2Bounds, GradientAssumptions, Gradient2Assumptions
<1>4. high \in Int /\ max \in Int /\ max <= high /\ min <= high
      BY TimesMonotone, G2Bounds, GradientAssumptions, Gradient2Assumptions
<1>5. gradient2!NewEstimate(avg, rtt) =
        IF g2Estimate = -1 \/ (avg = 0 /\ rtt = 0) THEN -1
        ELSE gradient2!Larger(min, gradient2!Smaller(max, new))
      BY DEF gradient2!NewEstimate, gradient2!NaN, gradient2!Bounded
<1> HIDE DEF raw, new, low, high, min, max
<1> DEFINE e == gradient2!NewEstimate(avg, rtt)
<1>6. \/ e = -1 /\ (g2Estimate = -1 \/ (avg = 0 /\ rtt = 0))
      \/ e \in Nat /\ low <= e /\ e <= high
      BY <1>2, <1>3, <1>4, <1>5 DEF gradient2!Larger, gradient2!Smaller
<1> QED BY <1>6 DEF low, high

\* The constructor establishes the invariant.
LEMMA G2Init == gradient2!Init => G2Inv
<1> SUFFICES ASSUME gradient2!Init PROVE G2Inv
    OBVIOUS
<1>1. /\ Unit * gradient2!SmallestLimit <= Unit * G2Initial
      /\ Unit * G2Initial <= Unit * gradient2!LargestLimit
      /\ Unit * G2Initial \in Int
      /\ (Unit * G2Initial) \div Unit = G2Initial
      BY TimesMonotone, WholePart, G2Bounds, GradientAssumptions
<1>2. G2Initial * Unit = Unit * G2Initial
      BY GradientAssumptions, Gradient2Assumptions
<1>3. gradient2!LimitBounded /\ g2Estimate \in Int
      BY <1>1, <1>2 DEF gradient2!Init, gradient2!LimitBounded
<1> QED BY <1>3, Gradient2Assumptions DEF gradient2!Init, G2Inv

\* A sample keeps it.
LEMMA G2Sample ==
    ASSUME G2Inv, NEW rtt \in Nat, NEW inFlight, gradient2!OnSample(rtt, inFlight)
    PROVE  G2Inv'
<1> DEFINE avg == gradient2!Added(rtt)
           e == gradient2!NewEstimate(avg, rtt)
<1>1. avg \in Int /\ gradient2!Reduced(avg, rtt) \in Int
      BY AddedInt
<1>2. g2Long' \in Int /\ g2Sum' \in Nat /\ g2Count' \in 0 .. WarmupWindow
      BY <1>1, Gradient2Assumptions DEF gradient2!OnSample, G2Inv
<1>3. gradient2!SmallestLimit' = gradient2!SmallestLimit /\ gradient2!LargestLimit' = gradient2!LargestLimit
      BY DEF gradient2!SmallestLimit, gradient2!LargestLimit
<1>4. CASE UNCHANGED <<g2Estimate, g2Notified>>
      BY <1>2, <1>3, <1>4 DEF G2Inv, gradient2!LimitBounded, gradient2!NaN
<1>5. CASE g2Estimate' = e /\ g2Notified' \in gradient2!IntOf(g2Estimate')
  <2> HIDE DEF avg
  <2>1. \/ e = -1
        \/ e \in Nat /\ Unit * gradient2!SmallestLimit <= e /\ e <= Unit * gradient2!LargestLimit
        BY <1>1, NewEstimateBounds
  <2> HIDE DEF e
  <2>2. CASE e = -1
        BY <1>2, <1>5, <2>2 DEF G2Inv, gradient2!LimitBounded, gradient2!NaN
  <2>3. CASE e # -1
    <3>1. g2Estimate' \in Nat /\ g2Notified' = g2Estimate' \div Unit
          BY <1>5, <2>1, <2>3 DEF gradient2!IntOf, gradient2!NaN
    <3>2. Unit * gradient2!SmallestLimit \in Int
          BY G2Bounds, GradientAssumptions
    <3>3. g2Estimate' >= Unit * gradient2!SmallestLimit
          BY <1>5, <2>1, <2>3, <3>1, <3>2
    <3>4. gradient2!LimitBounded'
          BY <1>3, <1>5, <2>1, <2>3, <3>1, <3>3 DEF gradient2!LimitBounded
    <3> QED BY <1>2, <3>1, <3>4 DEF G2Inv
  <2> QED BY <2>2, <2>3
<1> QED BY <1>4, <1>5 DEF gradient2!OnSample

\* OnSample keeps the invariant.
LEMMA G2Step == G2Inv /\ [gradient2!Next]_(gradient2!vars) => G2Inv'
<1> SUFFICES ASSUME G2Inv, [gradient2!Next]_(gradient2!vars) PROVE G2Inv'
    OBVIOUS
<1>1. CASE UNCHANGED gradient2!vars
      BY <1>1 DEF gradient2!vars, G2Inv, gradient2!LimitBounded, gradient2!SmallestLimit,
                  gradient2!LargestLimit, gradient2!NaN
<1>2. CASE gradient2!Next
  <2>1. PICK rtt \in G2RTTs, inFlight \in G2InFlights : gradient2!OnSample(rtt, inFlight)
        BY <1>2 DEF gradient2!Next
  <2> QED BY <2>1, G2Sample, Gradient2Assumptions
<1> QED BY <1>1, <1>2

-----------------------------------------------------------------------------
(* Gradient2Limit: the long-term RTT *)

\* A quotient rounded up lies between the integers that its dividend lies between.
LEMMA CeilBounds ==
    ASSUME NEW a \in Int, NEW b \in Nat \ {0}, NEW p \in Int, NEW q \in Int,
           b * p <= a, a <= b * q
    PROVE  gradient2!CeilDiv(a, b) \in Int /\ p <= gradient2!CeilDiv(a, b) /\ gradient2!CeilDiv(a, b) <= q
<1> DEFINE c == a + b - 1
           d == c \div b
<1>1. c \in Int /\ b * p <= c
  <2>1. b * p \in Int
        OBVIOUS
  <2> QED BY <2>1
<1>2. d \in Int /\ d >= p
  <2> HIDE DEF c
  <2> QED BY <1>1, DivBound
<1>3. b * d <= c
  <2> HIDE DEF c
  <2> QED BY <1>1
<1>4. c < b * (q + 1)
  <2>1. b * (q + 1) = b * q + b /\ b * q \in Int
        OBVIOUS
  <2> QED BY <2>1
<1> HIDE DEF d
<1>5. b * d \in Int /\ b * (q + 1) \in Int
      BY <1>2
<1> HIDE DEF c
<1>6. b * d < b * (q + 1)
      BY <1>1, <1>3, <1>4, <1>5
<1>7. d < q + 1
      BY <1>2, <1>6
<1>8. gradient2!CeilDiv(a, b) = d
      BY DEF gradient2!CeilDiv, d, c
<1> QED BY <1>2, <1>7, <1>8

\* Rounding up makes a positive number at least 1.
LEMMA CeilPositive ==
    ASSUME NEW a \in Nat \ {0}, NEW b \in Nat \ {0}
    PROVE  gradient2!CeilDiv(a, b) \in Nat \ {0}
<1>1. a + b - 1 \in Int /\ b * 1 <= a + b - 1
      OBVIOUS
<1>2. (a + b - 1) \div b \in Int /\ (a + b - 1) \div b >= 1
      BY <1>1, DivBound
<1> QED BY <1>2 DEF gradient2!CeilDiv

\* A plain average stays between the bounds of its samples.
LEMMA MeanBounds ==
    ASSUME NEW u \in Nat, NEW total \in Nat, NEW n \in Nat, NEW rtt \in Nat,
           NEW lo \in Nat, NEW hi \in Nat,
           n * lo <= total, total <= n * hi, lo <= rtt, rtt <= hi
    PROVE  /\ (n + 1) * lo <= total + rtt /\ total + rtt <= (n + 1) * hi
           /\ (n + 1) * (u * lo) <= u * (total + rtt)
           /\ u * (total + rtt) <= (n + 1) * (u * hi)
<1>1. (n + 1) * lo = n * lo + lo /\ (n + 1) * hi = n * hi + hi /\ n * lo \in Nat /\ n * hi \in Nat
      OBVIOUS
<1>2. (n + 1) * lo <= total + rtt /\ total + rtt <= (n + 1) * hi
      BY <1>1
<1>3. (n + 1) * lo \in Int /\ (n + 1) * hi \in Int /\ total + rtt \in Int
      BY <1>1
<1>4. u * ((n + 1) * lo) <= u * (total + rtt) /\ u * (total + rtt) <= u * ((n + 1) * hi)
      BY <1>2, <1>3, TimesMonotone
<1>5. u * ((n + 1) * lo) = (n + 1) * (u * lo) /\ u * ((n + 1) * hi) = (n + 1) * (u * hi)
      OBVIOUS
<1> QED BY <1>2, <1>4, <1>5

\* An exponential average with a window of at least 1 too.
LEMMA AverageBounds ==
    ASSUME NEW n \in Nat, NEW long \in Nat, NEW r \in Nat, NEW p \in Nat, NEW q \in Nat,
           p <= long, long <= q, p <= r, r <= q
    PROVE  (n + 2) * p <= long * n + 2 * r /\ long * n + 2 * r <= (n + 2) * q
<1>1. n * p <= n * long /\ n * long <= n * q /\ n * p \in Int /\ n * long \in Int /\ n * q \in Int
      BY TimesMonotone
<1>2. /\ (n + 2) * p = n * p + 2 * p /\ (n + 2) * q = n * q + 2 * q
      /\ long * n = n * long
      OBVIOUS
<1> QED BY <1>1, <1>2

\* A tenth off an average that is above twice the last RTT keeps it above the bounds.
LEMMA ReducedBounds ==
    ASSUME NEW avg \in Nat, NEW rtt \in Nat, NEW p \in Nat, NEW q \in Nat,
           p <= avg, avg <= q, p <= Unit * rtt
    PROVE  /\ gradient2!Reduced(avg, rtt) \in Nat
           /\ p <= gradient2!Reduced(avg, rtt) /\ gradient2!Reduced(avg, rtt) <= q
<1> DEFINE r == Unit * rtt
<1>1. r \in Nat /\ p <= r
      BY GradientAssumptions
<1>2. 2 * Unit * rtt = 2 * r
      BY GradientAssumptions
<1>3. gradient2!Reduced(avg, rtt) = IF avg > 2 * r THEN gradient2!CeilDiv(avg * 9, 10) ELSE avg
      BY <1>2 DEF gradient2!Reduced
<1> HIDE DEF r
<1>4. CASE ~(avg > 2 * r)
      BY <1>3, <1>4
<1>5. CASE avg > 2 * r
  <2>1. 10 * p <= avg * 9 /\ avg * 9 <= 10 * q /\ avg * 9 \in Int /\ 10 \in Nat \ {0}
        BY <1>1, <1>5
  <2>2. /\ gradient2!CeilDiv(avg * 9, 10) \in Int
        /\ p <= gradient2!CeilDiv(avg * 9, 10) /\ gradient2!CeilDiv(avg * 9, 10) <= q
        BY <2>1, CeilBounds
  <2> QED BY <1>3, <1>5, <2>2
<1> QED BY <1>4, <1>5

\* Bounds of the RTTs are bounds of what the average is made of.
Within(lo, hi) ==
    /\ g2Count * lo <= g2Sum /\ g2Sum <= g2Count * hi
    /\ g2Count # 0 => Unit * lo <= g2Long /\ g2Long <= Unit * hi

\* lo and hi are bounds of a set of RTTs.
BoundsOf(lo, hi, set) == \A x \in set : lo <= x /\ x <= hi

LongInv ==
    /\ IsFiniteSet(g2Seen) /\ \A x \in g2Seen : x \in Nat
    /\ g2Long \in Nat /\ g2Sum \in Nat /\ g2Count \in 0 .. WarmupWindow
    /\ g2Seen # {} => g2Count # 0
    /\ \A lo, hi \in Nat : BoundsOf(lo, hi, g2Seen) => Within(lo, hi)

\* The constructor establishes the invariant.
LEMMA LongInit == gradient2!Init => LongInv
<1> SUFFICES ASSUME gradient2!Init PROVE LongInv
    OBVIOUS
<1>1. IsFiniteSet(g2Seen)
      BY FS_EmptySet DEF gradient2!Init
<1> QED BY <1>1, Gradient2Assumptions DEF gradient2!Init, LongInv, Within

\* The average of a sample and what came before it lies between bounds of both.
LEMMA AddedWithin ==
    ASSUME LongInv, LongWindow >= 1, NEW rtt \in Nat, NEW lo \in Nat, NEW hi \in Nat,
           lo <= rtt, rtt <= hi, Within(lo, hi)
    PROVE  /\ gradient2!Added(rtt) \in Nat
           /\ Unit * lo <= gradient2!Added(rtt) /\ gradient2!Added(rtt) <= Unit * hi
<1> DEFINE p == Unit * lo
           q == Unit * hi
           r == Unit * rtt
<1>1. /\ Unit \in Nat \ {0} /\ g2Long \in Nat /\ g2Sum \in Nat /\ g2Count \in 0 .. WarmupWindow
      /\ WarmupWindow \in Nat \ {0} /\ LongWindow \in Nat \ {0}
      BY Gradient2Assumptions, GradientAssumptions DEF LongInv
<1>2. p \in Nat /\ q \in Nat /\ r \in Nat /\ p <= r /\ r <= q
      BY <1>1, TimesMonotone
<1>3. CASE g2Count < WarmupWindow
  <2> DEFINE a == Unit * (g2Sum + rtt)
             b == g2Count + 1
  <2>1. b * p <= a /\ a <= b * q /\ a \in Int /\ b \in Nat \ {0}
        BY <1>1, MeanBounds DEF Within
  <2>2. gradient2!Added(rtt) = gradient2!CeilDiv(a, b)
        BY <1>3 DEF gradient2!Added
  <2> HIDE DEF a, b, p, q
  <2>3. gradient2!CeilDiv(a, b) \in Int /\ p <= gradient2!CeilDiv(a, b) /\ gradient2!CeilDiv(a, b) <= q
        BY <1>2, <2>1, CeilBounds
  <2>4. gradient2!Added(rtt) \in Nat /\ p <= gradient2!Added(rtt) /\ gradient2!Added(rtt) <= q
        BY <1>2, <2>2, <2>3
  <2> QED BY <2>4 DEF p, q
<1>4. CASE ~(g2Count < WarmupWindow)
  <2> DEFINE n == LongWindow - 1
             a == g2Long * n + 2 * r
             b == n + 2
  <2>1. n \in Nat /\ p <= g2Long /\ g2Long <= q /\ b \in Nat \ {0}
        BY <1>1, <1>4 DEF Within
  <2>2. 2 * Unit * rtt = 2 * r /\ LongWindow + 1 = b
        BY <1>1
  <2>3. gradient2!Added(rtt) = gradient2!CeilDiv(a, b)
        BY <1>4, <2>2 DEF gradient2!Added
  <2> HIDE DEF n, p, q, r
  <2>4. b * p <= a /\ a <= b * q /\ a \in Int
        BY <1>1, <1>2, <2>1, AverageBounds
  <2> HIDE DEF a, b
  <2>5. gradient2!CeilDiv(a, b) \in Int /\ p <= gradient2!CeilDiv(a, b) /\ gradient2!CeilDiv(a, b) <= q
        BY <1>2, <2>1, <2>4, CeilBounds
  <2>6. gradient2!Added(rtt) \in Nat /\ p <= gradient2!Added(rtt) /\ gradient2!Added(rtt) <= q
        BY <1>2, <2>3, <2>5
  <2> QED BY <2>6 DEF p, q
<1> QED BY <1>3, <1>4

\* A sample keeps the invariant, if the window of the average is not 0.
LEMMA LongSample ==
    ASSUME LongInv, LongWindow >= 1, NEW rtt \in Nat, NEW inFlight,
           gradient2!OnSample(rtt, inFlight)
    PROVE  LongInv'
<1> DEFINE avg == gradient2!Added(rtt)
<1>1. /\ g2Long' = gradient2!Reduced(avg, rtt)
      /\ g2Sum' = IF g2Count < WarmupWindow THEN g2Sum + rtt ELSE g2Sum
      /\ g2Count' = IF g2Count < WarmupWindow THEN g2Count + 1 ELSE g2Count
      /\ g2Seen' = g2Seen \cup {rtt}
      BY DEF gradient2!OnSample
<1>2. /\ g2Sum \in Nat /\ g2Count \in 0 .. WarmupWindow /\ WarmupWindow \in Nat \ {0}
      /\ Unit \in Nat \ {0}
      BY Gradient2Assumptions, GradientAssumptions DEF LongInv
<1>3. IsFiniteSet(g2Seen') /\ \A x \in g2Seen' : x \in Nat
      BY <1>1, FS_AddElement DEF LongInv
<1>4. g2Sum' \in Nat /\ g2Count' \in 0 .. WarmupWindow /\ g2Count' # 0
      BY <1>1, <1>2
<1> HIDE DEF avg
<1>5. ASSUME NEW lo \in Nat, NEW hi \in Nat, BoundsOf(lo, hi, g2Seen')
      PROVE  g2Long' \in Nat /\ Within(lo, hi)'
  <2>1. BoundsOf(lo, hi, g2Seen) /\ lo <= rtt /\ rtt <= hi
        BY <1>1, <1>5 DEF BoundsOf
  <2>2. Within(lo, hi)
        BY <2>1 DEF LongInv
  <2>3. avg \in Nat /\ Unit * lo <= avg /\ avg <= Unit * hi
        BY <2>1, <2>2, AddedWithin DEF avg
  <2>4. Unit * lo \in Nat /\ Unit * hi \in Nat /\ Unit * lo <= Unit * rtt
        BY <1>2, <2>1, TimesMonotone
  <2>5. g2Long' \in Nat /\ Unit * lo <= g2Long' /\ g2Long' <= Unit * hi
        BY <1>1, <2>3, <2>4, ReducedBounds
  <2>6. g2Count' * lo <= g2Sum' /\ g2Sum' <= g2Count' * hi
    <3>1. CASE g2Count < WarmupWindow
      <4>1. (g2Count + 1) * lo <= g2Sum + rtt /\ g2Sum + rtt <= (g2Count + 1) * hi
            BY <1>2, <2>1, <2>2, MeanBounds DEF Within
      <4> QED BY <1>1, <3>1, <4>1
    <3>2. CASE ~(g2Count < WarmupWindow)
          BY <1>1, <2>2, <3>2 DEF Within
    <3> QED BY <3>1, <3>2
  <2> QED BY <2>5, <2>6 DEF Within
<1>6. g2Long' \in Nat
  <2>1. Max(g2Seen') \in Nat /\ Min(g2Seen') \in Nat /\ BoundsOf(Min(g2Seen'), Max(g2Seen'), g2Seen')
    <3>1. g2Seen' # {} /\ \A x \in g2Seen' : x \in Int
          BY <1>1, <1>3
    <3> QED BY <1>3, <3>1, MaxMinFacts DEF BoundsOf
  <2> QED BY <1>5, <2>1
<1> QED BY <1>3, <1>4, <1>5, <1>6 DEF LongInv

\* OnSample keeps it.
LEMMA LongStep ==
    ASSUME LongWindow >= 1 PROVE LongInv /\ [gradient2!Next]_(gradient2!vars) => LongInv'
<1> SUFFICES ASSUME LongInv, [gradient2!Next]_(gradient2!vars) PROVE LongInv'
    OBVIOUS
<1>1. CASE UNCHANGED gradient2!vars
      BY <1>1 DEF gradient2!vars, LongInv, Within
<1>2. CASE gradient2!Next
  <2>1. PICK rtt \in G2RTTs, inFlight \in G2InFlights : gradient2!OnSample(rtt, inFlight)
        BY <1>2 DEF gradient2!Next
  <2> QED BY <2>1, LongSample, Gradient2Assumptions
<1> QED BY <1>1, <1>2

\* The invariant, for the smallest and the largest of the RTTs.
LEMMA LongIsWithin == LongInv => gradient2!LongWithinSeen
<1> SUFFICES ASSUME LongInv, g2Seen # {}
             PROVE  g2Long \in Unit * Min(g2Seen) .. Unit * Max(g2Seen)
  <2>1. gradient2!Min(g2Seen) = Min(g2Seen) /\ gradient2!Max(g2Seen) = Max(g2Seen)
        BY DEF gradient2!Min, gradient2!Max, Min, Max
  <2> QED BY <2>1 DEF gradient2!LongWithinSeen
<1>1. /\ Max(g2Seen) \in Nat /\ Min(g2Seen) \in Nat
      /\ BoundsOf(Min(g2Seen), Max(g2Seen), g2Seen)
  <2>1. \A x \in g2Seen : x \in Int
        BY DEF LongInv
  <2> QED BY <2>1, MaxMinFacts DEF LongInv, BoundsOf
<1>2. Within(Min(g2Seen), Max(g2Seen)) /\ g2Count # 0 /\ g2Long \in Nat
      BY <1>1 DEF LongInv
<1>3. Unit * Min(g2Seen) \in Int /\ Unit * Max(g2Seen) \in Int
      BY <1>1, GradientAssumptions
<1> QED BY <1>2, <1>3 DEF Within

-----------------------------------------------------------------------------
(* Gradient2Limit: NaN *)

\* One RTT above 0 keeps the average above 0.
NaNInv ==
    /\ LongInv
    /\ (\E x \in g2Seen : x # 0) =>
          g2Long # 0 /\ (g2Count < WarmupWindow => g2Sum # 0)

\* An average of samples that are not all 0 is positive, if the window of the average
\* is at least 2: one of 1 forgets everything but the last sample.
LEMMA AddedPositive ==
    ASSUME NaNInv, LongWindow >= 2, NEW rtt \in Nat, rtt # 0 \/ \E x \in g2Seen : x # 0
    PROVE  gradient2!Added(rtt) \in Nat \ {0}
<1>1. /\ Unit \in Nat \ {0} /\ g2Long \in Nat /\ g2Sum \in Nat /\ g2Count \in Nat
      /\ LongWindow \in Nat /\ LongWindow >= 2
      BY Gradient2Assumptions, GradientAssumptions DEF NaNInv, LongInv
<1>2. \A a, b \in Nat \ {0} : a * b \in Nat \ {0}
      OBVIOUS
<1>3. \A a, b \in Nat : a * b \in Nat
      OBVIOUS
<1>4. CASE g2Count < WarmupWindow
  <2>1. g2Sum + rtt \in Nat \ {0} /\ g2Count + 1 \in Nat \ {0}
        BY <1>1, <1>4 DEF NaNInv
  <2>2. Unit * (g2Sum + rtt) \in Nat \ {0}
        BY <1>1, <1>2, <2>1
  <2> QED BY <1>4, <2>1, <2>2, CeilPositive DEF gradient2!Added
<1>5. CASE ~(g2Count < WarmupWindow)
  <2>1. LongWindow - 1 \in Nat \ {0} /\ LongWindow + 1 \in Nat \ {0} /\ 2 * Unit \in Nat \ {0}
        BY <1>1
  <2>2. g2Long * (LongWindow - 1) \in Nat /\ 2 * Unit * rtt \in Nat
        BY <1>1, <1>3, <2>1
  <2>3. g2Long * (LongWindow - 1) # 0 \/ 2 * Unit * rtt # 0
        BY <1>1, <1>2, <2>1 DEF NaNInv
  <2>4. g2Long * (LongWindow - 1) + 2 * Unit * rtt \in Nat \ {0}
        BY <2>2, <2>3
  <2> QED BY <1>5, <2>1, <2>4, CeilPositive DEF gradient2!Added
<1> QED BY <1>4, <1>5

\* OnSample keeps the invariant.
LEMMA NaNStep ==
    ASSUME LongWindow >= 2 PROVE NaNInv /\ [gradient2!Next]_(gradient2!vars) => NaNInv'
<1> SUFFICES ASSUME NaNInv, [gradient2!Next]_(gradient2!vars) PROVE NaNInv'
    OBVIOUS
<1>0. LongWindow >= 1
      BY Gradient2Assumptions
<1>1. CASE UNCHANGED gradient2!vars
      BY <1>1 DEF gradient2!vars, NaNInv, LongInv, Within
<1>2. CASE gradient2!Next
  <2>1. PICK rtt \in G2RTTs, inFlight \in G2InFlights : gradient2!OnSample(rtt, inFlight)
        BY <1>2 DEF gradient2!Next
  <2>2. rtt \in Nat
        BY Gradient2Assumptions
  <2>3. LongInv'
        BY <1>0, <2>1, <2>2, LongSample DEF NaNInv
  <2>4. ASSUME \E x \in g2Seen' : x # 0
        PROVE  g2Long' # 0 /\ (g2Count' < WarmupWindow => g2Sum' # 0)
    <3>1. rtt # 0 \/ \E x \in g2Seen : x # 0
          BY <2>1, <2>4 DEF gradient2!OnSample
    <3>2. gradient2!Added(rtt) \in Nat \ {0}
          BY <2>2, <3>1, AddedPositive
    <3>3. \A avg \in Nat \ {0} : gradient2!Reduced(avg, rtt) # 0
      <4>1. \A avg \in Nat \ {0} : gradient2!CeilDiv(avg * 9, 10) \in Nat \ {0}
        <5>1. \A avg \in Nat \ {0} : avg * 9 \in Nat \ {0}
              OBVIOUS
        <5>2. 10 \in Nat \ {0}
              OBVIOUS
        <5> QED BY <5>1, <5>2, CeilPositive
      <4> QED BY <4>1 DEF gradient2!Reduced
    <3>4. g2Long' # 0
          BY <2>1, <3>2, <3>3 DEF gradient2!OnSample
    <3>5. ASSUME g2Count' < WarmupWindow PROVE g2Sum' # 0
      <4>1. /\ g2Sum \in Nat /\ g2Count \in Nat /\ WarmupWindow \in Nat
            /\ (\E x \in g2Seen : x # 0) => (g2Count < WarmupWindow => g2Sum # 0)
            BY Gradient2Assumptions DEF NaNInv, LongInv
      <4>2. g2Count < WarmupWindow /\ g2Sum' = g2Sum + rtt
            BY <2>1, <3>5, <4>1 DEF gradient2!OnSample
      <4> QED BY <2>2, <3>1, <4>1, <4>2
    <3> QED BY <3>4, <3>5
  <2> QED BY <2>3, <2>4 DEF NaNInv
<1> QED BY <1>1, <1>2

\* A step that makes the estimate NaN is one of a window of drops after others.
LEMMA NaNAction ==
    ASSUME LongWindow >= 2, G2Inv, NaNInv, [gradient2!Next]_(gradient2!vars)
    PROVE  [g2Estimate # gradient2!NaN /\ g2Estimate' = gradient2!NaN => g2Seen \subseteq {0}]_(gradient2!vars)
<1> SUFFICES ASSUME gradient2!Next, g2Estimate # -1, g2Estimate' = -1, NEW x \in g2Seen, x # 0
             PROVE  FALSE
    BY DEF gradient2!NaN
<1>1. PICK rtt \in G2RTTs, inFlight \in G2InFlights : gradient2!OnSample(rtt, inFlight)
      BY DEF gradient2!Next
<1> DEFINE avg == gradient2!Added(rtt)
<1>2. rtt \in Nat
      BY Gradient2Assumptions
<1>3. avg \in Nat \ {0}
      BY <1>2, AddedPositive
<1>4. g2Estimate' = gradient2!NewEstimate(avg, rtt)
      BY <1>1 DEF gradient2!OnSample
<1> HIDE DEF avg
<1> DEFINE e == gradient2!NewEstimate(avg, rtt)
<1>5. avg \in Int /\ avg # 0
      BY <1>3
<1>6. (e = -1 /\ (g2Estimate = -1 \/ (avg = 0 /\ rtt = 0))) \/ e \in Nat
      BY <1>2, <1>5, NewEstimateBounds
<1> QED BY <1>4, <1>5, <1>6

-----------------------------------------------------------------------------
(* PrometheusRegistry *)

\* Each of the entries has a name of its own.
Exported(names, entries) ==
    /\ names = {prometheus!Name(e[1], e[2]) : e \in entries}
    /\ IsFiniteSet(names) /\ IsFiniteSet(entries)
    /\ Cardinality(names) = Cardinality(entries)

PromInv ==
    /\ promListeners \in [IDs -> {None, "distribution", "timing", "count"}]
    /\ Exported(promOurs, prometheus!Entries)
    /\ promOurs \cap promForeign = {}
    /\ promAlike \subseteq Alike
    /\ \A m \in promAlike : prometheus!Name(m[1], m[2]) \in promOurs => m \in prometheus!Entries

\* Nothing is registered.
LEMMA ExportedEmpty == Exported({}, {})
BY FS_EmptySet DEF Exported

\* One more entry under one more name.
LEMMA ExportedAdd ==
    ASSUME NEW names, NEW entries, Exported(names, entries), NEW id, NEW type,
           <<id, type>> \notin entries, prometheus!Name(id, type) \notin names
    PROVE  Exported(names \cup {prometheus!Name(id, type)}, entries \cup {<<id, type>>})
<1> DEFINE N == names \cup {prometheus!Name(id, type)}
           E == entries \cup {<<id, type>>}
<1>1. N = {prometheus!Name(e[1], e[2]) : e \in E}
      BY DEF Exported
<1>2. IsFiniteSet(N) /\ Cardinality(N) = Cardinality(names) + 1
      BY FS_AddElement DEF Exported
<1>3. IsFiniteSet(E) /\ Cardinality(E) = Cardinality(entries) + 1
      BY FS_AddElement DEF Exported
<1>4. Cardinality(names) = Cardinality(entries)
      BY DEF Exported
<1> HIDE DEF N, E
<1>5. Exported(N, E)
      BY <1>1, <1>2, <1>3, <1>4 DEF Exported
<1> QED BY <1>5 DEF N, E

\* The registry starts empty.
LEMMA PromInit == prometheus!Init => PromInv
<1> SUFFICES ASSUME prometheus!Init PROVE PromInv
    OBVIOUS
<1>1. prometheus!Entries = {}
      BY DEF prometheus!Init, prometheus!Entries
<1> QED BY <1>1, ExportedEmpty DEF prometheus!Init, PromInv

\* Every registration keeps the invariant, those that panic included.
LEMMA PromStep == PromInv /\ [prometheus!Next]_(prometheus!vars) => PromInv'
<1> SUFFICES ASSUME PromInv, [prometheus!Next]_(prometheus!vars) PROVE PromInv'
    OBVIOUS
<1>0. ASSUME UNCHANGED <<promListeners, promGauges>> PROVE prometheus!Entries' = prometheus!Entries
      BY <1>0 DEF prometheus!Entries
<1>1. CASE UNCHANGED prometheus!vars
      BY <1>0, <1>1 DEF prometheus!vars, PromInv
<1>2. ASSUME NEW id \in IDs, NEW type \in {"distribution", "timing", "count"},
             promListeners[id] = None, prometheus!MustRegister(id, type),
             promListeners' = [promListeners EXCEPT ![id] = type],
             UNCHANGED <<promGauges, promForeign, promAlike>>
      PROVE  PromInv'
  <2>1. <<id, type>> \notin prometheus!Entries
        BY <1>2, PrometheusAssumption DEF prometheus!Entries
  <2>2. prometheus!Entries' = prometheus!Entries \cup {<<id, type>>}
        BY <1>2, PrometheusAssumption DEF prometheus!Entries, PromInv
  <2>3. Exported(promOurs', prometheus!Entries')
        BY <1>2, <2>1, <2>2, ExportedAdd DEF PromInv, prometheus!MustRegister, prometheus!Taken
  <2>4. promListeners' \in [IDs -> {None, "distribution", "timing", "count"}]
        BY <1>2 DEF PromInv
  <2>5. promOurs' \cap promForeign' = {}
        BY <1>2 DEF PromInv, prometheus!MustRegister, prometheus!Taken
  <2>6. \A m \in promAlike' : /\ m \in Alike
                              /\ prometheus!Name(m[1], m[2]) \in promOurs' => m \in prometheus!Entries'
        BY <1>2, <2>2 DEF PromInv, prometheus!MustRegister, prometheus!Taken
  <2> QED BY <2>3, <2>4, <2>5, <2>6 DEF PromInv
<1>3. ASSUME NEW id \in IDs, id \notin promGauges,
             prometheus!MustRegister(id, "gauge"),
             promGauges' = promGauges \cup {id},
             UNCHANGED <<promListeners, promForeign, promAlike>>
      PROVE  PromInv'
  <2>1. <<id, "gauge">> \notin prometheus!Entries
        BY <1>3, PrometheusAssumption DEF prometheus!Entries, PromInv
  <2>2. prometheus!Entries' = prometheus!Entries \cup {<<id, "gauge">>}
        BY <1>3 DEF prometheus!Entries
  <2>3. Exported(promOurs', prometheus!Entries')
        BY <1>3, <2>1, <2>2, ExportedAdd DEF PromInv, prometheus!MustRegister, prometheus!Taken
  <2>4. promOurs' \cap promForeign' = {}
        BY <1>3 DEF PromInv, prometheus!MustRegister, prometheus!Taken
  <2>5. \A m \in promAlike' : /\ m \in Alike
                              /\ prometheus!Name(m[1], m[2]) \in promOurs' => m \in prometheus!Entries'
        BY <1>3, <2>2 DEF PromInv, prometheus!MustRegister, prometheus!Taken
  <2> QED BY <1>3, <2>3, <2>4, <2>5 DEF PromInv
<1>4. ASSUME NEW name \in Foreign, prometheus!RegisterForeign(name) PROVE PromInv'
      BY <1>0, <1>4 DEF prometheus!RegisterForeign, PromInv
<1>5. CASE UNCHANGED <<promListeners, promGauges, promOurs, promForeign, promAlike>>
      BY <1>0, <1>5 DEF PromInv
<1>6. ASSUME NEW id \in IDs, NEW type \in {"distribution", "timing", "count"},
             prometheus!Register(id, type)
      PROVE  PromInv'
      BY <1>2, <1>5, <1>6 DEF prometheus!Register, prometheus!Panics, prometheus!vars
<1>7. ASSUME NEW id \in IDs, prometheus!RegisterGauge(id) PROVE PromInv'
      BY <1>3, <1>5, <1>7 DEF prometheus!RegisterGauge, prometheus!Panics, prometheus!vars
<1>8. ASSUME NEW m \in Alike, prometheus!RegisterAlike(m) PROVE PromInv'
  <2>1. prometheus!Entries' = prometheus!Entries
        BY <1>0, <1>8 DEF prometheus!RegisterAlike
  <2>2. prometheus!Name(m[1], m[2]) \in promOurs => m \in prometheus!Entries
        BY <1>8 DEF prometheus!RegisterAlike, PromInv, Exported
  <2> QED BY <1>8, <2>1, <2>2 DEF prometheus!RegisterAlike, PromInv
<1> QED BY <1>1, <1>4, <1>6, <1>7, <1>8 DEF prometheus!Next

-----------------------------------------------------------------------------
\* vegas.go, gradient.go and gradient2.go keep their estimates within bounds, and
\* the strategies that listen know them, for every configuration that the
\* constructors accept and whatever the samples.
THEOREM EstimatesAreBounded == LimitsSpec => []EstimatesBounded
<1>1. LimitsInit => VegasInv /\ GradInv /\ G2Inv
      BY VegasInit, GradInit, G2Init DEF LimitsInit
<1>2. VegasInv /\ GradInv /\ G2Inv /\ [LimitsNext]_limitsVars => VegasInv' /\ GradInv' /\ G2Inv'
      BY VegasStep, GradStep, G2Step, OneRuns
<1>3. VegasInv /\ GradInv /\ G2Inv => EstimatesBounded
      BY DEF VegasInv, GradInv, G2Inv, EstimatesBounded
<1> QED BY <1>1, <1>2, <1>3, PTL DEF LimitsSpec

\* The RTT without load of vegas.go and gradient.go is the minimum since the last
\* probe, and the next probe is a bounded number of samples away.
THEOREM BaselinesAreFresh == LimitsSpec => []BaselinesFresh
<1>1. LimitsInit => VegasInv /\ GradInv
      BY VegasInit, GradInit DEF LimitsInit
<1>2. VegasInv /\ GradInv /\ [LimitsNext]_limitsVars => VegasInv' /\ GradInv'
      BY VegasStep, GradStep, OneRuns
<1>3. VegasInv /\ GradInv => BaselinesFresh
  <2>1. /\ vegas!Min(vegasSeen) = Min(vegasSeen)
        /\ gradient!Min(gradSeen) = Min(gradSeen)
        BY DEF vegas!Min, gradient!Min, Min
  <2>2. VegasInv => vegas!BaselineFresh
        BY <2>1 DEF VegasInv, Fresh, vegas!BaselineFresh
  <2>3. GradInv => gradient!BaselineFresh
        BY <2>1 DEF GradInv, Fresh, gradient!BaselineFresh, gradient!ProbeDisabled
  <2> QED BY <2>2, <2>3 DEF BaselinesFresh
<1> QED BY <1>1, <1>2, <1>3, PTL DEF LimitsSpec

\* The long-term RTT of gradient2.go never leaves the range of the RTTs measured,
\* if the window of its average is at least 1.
THEOREM LongStaysWithinSeen ==
    ASSUME LongWindow >= 1 PROVE LimitsSpec => []LongWithinSeen
<1>1. LimitsInit => LongInv
      BY LongInit DEF LimitsInit
<1>2. LongInv /\ [LimitsNext]_limitsVars => LongInv'
      BY LongStep, OneRuns
<1>3. LongInv => LongWithinSeen
      BY LongIsWithin DEF LongWithinSeen
<1> QED BY <1>1, <1>2, <1>3, PTL DEF LimitsSpec

\* Only windows of drops from the very start turn the estimate of gradient2.go into
\* NaN, if the window of its average is at least 2.
THEOREM NaNComesOnlyFromStart ==
    ASSUME LongWindow >= 2 PROVE LimitsSpec => NaNOnlyFromStart
<1>1. LimitsInit => G2Inv /\ NaNInv
      BY G2Init, LongInit DEF LimitsInit, NaNInv, gradient2!Init
<1>2. G2Inv /\ NaNInv /\ [LimitsNext]_limitsVars =>
        /\ G2Inv' /\ NaNInv'
        /\ [g2Estimate # gradient2!NaN /\ g2Estimate' = gradient2!NaN => g2Seen \subseteq {0}]_(gradient2!vars)
      BY G2Step, NaNStep, NaNAction, OneRuns
<1> QED BY <1>1, <1>2, PTL DEF LimitsSpec, NaNOnlyFromStart, gradient2!NaNOnlyFromStart

\* The Prometheus registry exports every entry it keeps under a name of its own,
\* whatever the IDs, how they are sanitized, and what other code registers.
THEOREM EntriesAreExported == LimitsSpec => []EntriesExported
<1>1. LimitsInit => PromInv
      BY PromInit DEF LimitsInit
<1>2. PromInv /\ [LimitsNext]_limitsVars => PromInv'
      BY PromStep, OneRuns
<1>3. PromInv => EntriesExported
  <2>1. \A S : prometheus!Cardinality(S) = Cardinality(S)
        BY DEF Cardinality, prometheus!Cardinality
  <2> QED BY <2>1 DEF PromInv, Exported, EntriesExported, prometheus!EntriesExported
<1> QED BY <1>1, <1>2, <1>3, PTL DEF LimitsSpec

\* The systems do not interfere: what is proved of one of them alone holds of it in
\* Limits.
THEOREM LimitsAreIndependent ==
    LimitsSpec => Spec /\ vegas!Spec /\ gradient!Spec /\ gradient2!Spec /\ prometheus!Spec
<1>1. LimitsInit => Init /\ vegas!Init /\ gradient!Init /\ gradient2!Init /\ prometheus!Init
      BY DEF LimitsInit
<1>2. [LimitsNext]_limitsVars =>
        /\ [Next]_vars /\ [vegas!Next]_(vegas!vars) /\ [gradient!Next]_(gradient!vars)
        /\ [gradient2!Next]_(gradient2!vars) /\ [prometheus!Next]_(prometheus!vars)
      BY OneRuns
<1> QED BY <1>1, <1>2, PTL
        DEF LimitsSpec, Spec, vegas!Spec, gradient!Spec, gradient2!Spec, prometheus!Spec
=============================================================================
