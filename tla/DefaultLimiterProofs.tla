------------------------- MODULE DefaultLimiterProofs -------------------------
(***************************************************************************)
(* For any number of goroutines, any limit algorithm and any window        *)
(* parameters: DefaultLimiter's counters do not drift, it implements       *)
(* CoreLimiter, and its limit updates are spaced.  The bounds on the clock *)
(* play no part but in the last theorem: no window is reported twice if no *)
(* listener's method takes longer than half a window.                      *)
(***************************************************************************)
EXTENDS DefaultLimiter, FiniteSetTheorems, TLAPS

\* The goroutine in Acquire's critical section holds the lock, alone.
LockInv == \A p \in Procs : pc[p] \in {"add", "record"} => mu = p

\* Between the strategy's test and its addition there is room, and after the
\* addition the limit is still respected: others can only make more room.
RoomInv == \A p \in Procs : /\ pc[p] = "add" => busy < limit
                            /\ pc[p] = "record" => busy <= limit

\* The limit is one the algorithm estimated, clamped.
LimitInv == limit \in {Clamp(e) : e \in Estimates}

\* The inductive invariant.
IInv == TypeOK /\ LockInv /\ RoomInv /\ LimitInv /\ CountersAgree

\* The windows that the measurement operators build are well typed.
LEMMA WindowTypes ==
  /\ EmptyWindow \in WindowType
  /\ \A w \in WindowType, r \in Int, n \in Nat : AddSample(w, r, n) \in WindowType
  /\ \A w \in WindowType, n \in Nat : AddDroppedSample(w, n) \in WindowType
BY WindowAssumption
   DEF WindowType, EmptyWindow, NewWindow, AddSample, AddDroppedSample,
       Larger, Smaller

\* Returning from a listener's method leaves well-typed locals behind.
LEMMA ReturnTypes ==
  ASSUME TypeOK, NEW p \in Procs, Return(p)
  PROVE  /\ pc' \in [Procs -> {"idle", "add", "record", "held", "measure",
                               "addSample", "addDropped", "stamp", "update"}
                              \cup Outcomes]
         /\ listener' \in [Procs -> ListenerType]
         /\ current' \in [Procs -> WindowType]
         /\ endTime' \in [Procs -> Nat]
<1>1. NoListener \in ListenerType
  BY DEF NoListener, ListenerType
<1> QED BY <1>1, WindowTypes DEF Return, Goto, TypeOK

\* The pause after an update is at least minWindowTime.
LEMMA PauseBound == \A w \in WindowType : Pause(w) \in Nat /\ Pause(w) >= MinWindowTime
BY WindowAssumption DEF Pause, Larger, Smaller, WindowType

\* SimpleStrategy.SetLimit stores a positive limit.
LEMMA ClampPositive == \A e \in Int : Clamp(e) \in Nat \ {0}
BY DEF Clamp

\* Adding a goroutine to, or removing it from, a set it counts changes the
\* count by one.
LEMMA CountOne ==
  ASSUME NEW S \in SUBSET Procs, NEW p \in Procs
  PROVE  /\ Cardinality(S) \in Nat
         /\ p \notin S => Cardinality(S \cup {p}) = Cardinality(S) + 1
         /\ p \in S => Cardinality(S \ {p}) = Cardinality(S) - 1 /\ Cardinality(S) > 0
<1>1. IsFiniteSet(S)
  BY FS_Subset, ProcsAssumption
<1>2. Cardinality(S) \in Nat /\ IsFiniteSet(S \ {p})
  BY <1>1, FS_CardinalityType, FS_RemoveElement
<1>3. p \notin S => Cardinality(S \cup {p}) = Cardinality(S) + 1
  BY <1>1, FS_AddElement
<1>4. p \in S => Cardinality(S \ {p}) = Cardinality(S) - 1
  BY <1>1, FS_RemoveElement
<1>5. Cardinality(S \ {p}) \in Nat
  BY <1>2, FS_CardinalityType
<1> QED BY <1>2, <1>3, <1>4, <1>5

\* How each step changes the sets that the two counters count.
LEMMA CountedSets ==
  ASSUME TypeOK, NEW p \in Procs
  PROVE  /\ CheckLimit(p) => WithToken' = WithToken /\ InFlightOf' = InFlightOf
         /\ AddBusy(p) => /\ p \notin WithToken /\ WithToken' = WithToken \cup {p}
                          /\ InFlightOf' = InFlightOf
         /\ NewListener(p) => /\ WithToken' = WithToken
                              /\ p \notin InFlightOf
                              /\ InFlightOf' = InFlightOf \cup {p}
         /\ \A o \in Outcomes : Complete(p, o) =>
                              /\ WithToken' = WithToken
                              /\ p \in InFlightOf
                              /\ InFlightOf' = InFlightOf \ {p}
         /\ ReleaseToken(p) => /\ p \in WithToken /\ WithToken' = WithToken \ {p}
                               /\ InFlightOf' = InFlightOf
         /\ (\/ Measure(p) \/ AddSuccess(p) \/ AddDrop(p) \/ StampDrop(p)
             \/ ApplyLimit(p) \/ SkipUpdate(p))
              => WithToken' = WithToken /\ InFlightOf' = InFlightOf
<1> USE DEF TypeOK, WithToken, InFlightOf, Goto, Outcomes
<1>1. CheckLimit(p) => WithToken' = WithToken /\ InFlightOf' = InFlightOf
  BY DEF CheckLimit
<1>2. AddBusy(p) => /\ p \notin WithToken /\ WithToken' = WithToken \cup {p}
                    /\ InFlightOf' = InFlightOf
  BY DEF AddBusy
<1>3. NewListener(p) => /\ WithToken' = WithToken
                        /\ p \notin InFlightOf
                        /\ InFlightOf' = InFlightOf \cup {p}
  BY DEF NewListener
<1>4. \A o \in Outcomes : Complete(p, o) =>
                        /\ WithToken' = WithToken
                        /\ p \in InFlightOf
                        /\ InFlightOf' = InFlightOf \ {p}
  BY DEF Complete
<1>5. ReleaseToken(p) => /\ p \in WithToken /\ WithToken' = WithToken \ {p}
                         /\ InFlightOf' = InFlightOf
  BY DEF ReleaseToken, Return
<1>6. (\/ Measure(p) \/ AddSuccess(p) \/ AddDrop(p) \/ StampDrop(p)
       \/ ApplyLimit(p) \/ SkipUpdate(p))
        => WithToken' = WithToken /\ InFlightOf' = InFlightOf
  BY DEF Measure, AddSuccess, AddDrop, UpdateAndGetSample, StampDrop, ApplyLimit,
         SkipUpdate, Return
<1> QED BY <1>1, <1>2, <1>3, <1>4, <1>5, <1>6

\* Both counted sets are sets of goroutines.
LEMMA CountedSubsets == WithToken \in SUBSET Procs /\ InFlightOf \in SUBSET Procs
BY DEF WithToken, InFlightOf

\* NewDefaultLimiter establishes the invariant.
LEMMA InitInv == Init => IInv
<1> SUFFICES ASSUME Init PROVE IInv
  OBVIOUS
<1>1. TypeOK
  BY WindowTypes, ClampPositive, EstimatesAssumption
     DEF Init, TypeOK, ListenerType, NoListener
<1>2. LockInv /\ RoomInv /\ LimitInv
  BY DEF Init, LockInv, RoomInv, LimitInv
<1>3. WithToken = {} /\ InFlightOf = {}
  BY DEF Init, WithToken, InFlightOf, Outcomes
<1>4. CountersAgree
  BY <1>3, FS_EmptySet DEF Init, CountersAgree
<1> QED BY <1>1, <1>2, <1>4 DEF IInv

\* Acquire's three steps preserve the invariant.
LEMMA AcquireInv ==
  ASSUME IInv, NEW p \in Procs, CheckLimit(p) \/ AddBusy(p) \/ NewListener(p)
  PROVE  IInv'
<1> USE DEF IInv, Goto, stratVars, limVars, locVars, histVars
<1>1. CASE CheckLimit(p)
  <2>1. TypeOK'
    BY <1>1 DEF CheckLimit, TypeOK
  <2>2. LockInv' /\ RoomInv' /\ LimitInv'
    BY <1>1, ProcsAssumption DEF CheckLimit, TypeOK, LockInv, RoomInv, LimitInv
  <2>3. CountersAgree'
    BY <1>1, CountedSets DEF CheckLimit, CountersAgree
  <2> QED BY <2>1, <2>2, <2>3
<1>2. CASE AddBusy(p)
  <2>1. TypeOK'
    BY <1>2 DEF AddBusy, TypeOK
  <2>2. LockInv' /\ RoomInv' /\ LimitInv'
    BY <1>2 DEF AddBusy, TypeOK, LockInv, RoomInv, LimitInv
  <2>3. CountersAgree'
    BY <1>2, CountedSets, CountedSubsets, CountOne DEF AddBusy, CountersAgree
  <2> QED BY <2>1, <2>2, <2>3
<1>3. CASE NewListener(p)
  <2>1. TypeOK'
    BY <1>3 DEF NewListener, TypeOK, ListenerType
  <2>2. LockInv' /\ RoomInv' /\ LimitInv'
    BY <1>3, ProcsAssumption DEF NewListener, TypeOK, LockInv, RoomInv, LimitInv
  <2>3. CountersAgree'
    BY <1>3, CountedSets, CountedSubsets, CountOne DEF NewListener, CountersAgree
  <2> QED BY <2>1, <2>2, <2>3
<1> QED BY <1>1, <1>2, <1>3

\* Giving back the in-flight count and then the token preserves it.
LEMMA ReleaseInv ==
  ASSUME IInv, NEW p \in Procs,
         (\E o \in Outcomes : Complete(p, o)) \/ ReleaseToken(p)
  PROVE  IInv'
<1> USE DEF IInv, Goto, stratVars, limVars, locVars, histVars
<1>1. ASSUME NEW o \in Outcomes, Complete(p, o) PROVE IInv'
  <2>1. p \in InFlightOf /\ Cardinality(InFlightOf) > 0
    BY <1>1, CountedSets, CountedSubsets, CountOne
  <2>2. inFlight' \in Nat
    BY <1>1, <2>1 DEF Complete, TypeOK, CountersAgree
  <2>3. TypeOK'
    BY <1>1, <2>2 DEF Complete, TypeOK
  <2>4. LockInv' /\ RoomInv' /\ LimitInv'
    BY <1>1 DEF Complete, TypeOK, LockInv, RoomInv, LimitInv, Outcomes
  <2>5. CountersAgree'
    BY <1>1, CountedSets, CountedSubsets, CountOne DEF Complete, CountersAgree
  <2> QED BY <2>3, <2>4, <2>5
<1>2. CASE ReleaseToken(p)
  <2>1. p \in WithToken /\ Cardinality(WithToken) > 0
    BY <1>2, CountedSets, CountedSubsets, CountOne
  <2>2. busy' \in Nat /\ busy' = busy - 1
    BY <1>2, <2>1 DEF ReleaseToken, TypeOK, CountersAgree
  <2>3. TypeOK'
    <3>1. CASE Return(p)
      BY <1>2, <2>2, <3>1, ReturnTypes DEF ReleaseToken, TypeOK
    <3>2. CASE ~Return(p)
      BY <1>2, <2>2, <3>2 DEF ReleaseToken, TypeOK
    <3> QED BY <3>1, <3>2
  <2>4. LockInv' /\ RoomInv' /\ LimitInv'
    BY <1>2, <2>2
       DEF ReleaseToken, Return, TypeOK, LockInv, RoomInv, LimitInv, Outcomes
  <2>5. CountersAgree'
    BY <1>2, CountedSets, CountedSubsets, CountOne DEF ReleaseToken, CountersAgree
  <2> QED BY <2>3, <2>4, <2>5
<1> QED BY <1>1, <1>2

\* Sampling and updating the limit preserve it: the limit moves only while
\* nobody is inside Acquire.
LEMMA UpdateInv ==
  ASSUME IInv, NEW p \in Procs,
         \/ Measure(p) \/ AddSuccess(p) \/ AddDrop(p) \/ StampDrop(p)
         \/ ApplyLimit(p) \/ SkipUpdate(p)
  PROVE  IInv'
<1> USE DEF IInv, Goto, stratVars, limVars, locVars, histVars
<1>1. CountersAgree'
  BY CountedSets
     DEF CountersAgree, Measure, AddSuccess, AddDrop, UpdateAndGetSample,
         StampDrop, ApplyLimit, SkipUpdate
<1>2. TypeOK'
  <2> USE DEF TypeOK
  <2>1. CASE Measure(p)
    <3>1. CASE Return(p)
      BY <2>1, <3>1, ReturnTypes DEF Measure
    <3>2. CASE ~Return(p)
      BY <2>1, <3>2 DEF Measure
    <3> QED BY <3>1, <3>2
  <2>2. CASE AddSuccess(p)
    <3>1. AddSample(sample, endTime[p] - listener[p].startTime,
                    listener[p].currentMaxInFlight) \in WindowType
      <4>1. /\ listener[p].currentMaxInFlight \in Nat
            /\ endTime[p] - listener[p].startTime \in Int
        BY DEF ListenerType
      <4> QED BY <4>1, WindowTypes
    <3> QED BY <2>2, <3>1 DEF AddSuccess, UpdateAndGetSample
  <2>3. CASE AddDrop(p)
    <3>1. AddDroppedSample(sample, listener[p].currentMaxInFlight) \in WindowType
      <4>1. listener[p].currentMaxInFlight \in Nat
        BY DEF ListenerType
      <4> QED BY <4>1, WindowTypes
    <3> QED BY <2>3, <3>1 DEF AddDrop, UpdateAndGetSample
  <2>4. CASE StampDrop(p)
    BY <2>4 DEF StampDrop
  <2>5. CASE ApplyLimit(p)
    <3>1. limit' \in Nat \ {0}
      BY <2>5, ClampPositive, EstimatesAssumption DEF ApplyLimit
    <3>2. nextUpdateTime' \in Nat
      BY <2>5, PauseBound DEF ApplyLimit
    <3> QED BY <2>5, <3>1, <3>2, WindowTypes, ReturnTypes DEF ApplyLimit
  <2>6. CASE SkipUpdate(p)
    BY <2>6, ReturnTypes DEF SkipUpdate
  <2> QED BY <2>1, <2>2, <2>3, <2>4, <2>5, <2>6
<1>3. LockInv' /\ RoomInv' /\ LimitInv'
  <2>1. CASE ApplyLimit(p)
    BY <2>1, ProcsAssumption
       DEF ApplyLimit, Return, TypeOK, LockInv, RoomInv, LimitInv
  <2>2. CASE ~ApplyLimit(p)
    BY <2>2
       DEF Measure, AddSuccess, AddDrop, UpdateAndGetSample, StampDrop,
           SkipUpdate, Return, TypeOK, LockInv, RoomInv, LimitInv
  <2> QED BY <2>1, <2>2
<1> QED BY <1>1, <1>2, <1>3

\* Every step preserves the invariant.
LEMMA NextInv == IInv /\ [Next]_vars => IInv'
<1> SUFFICES ASSUME IInv, [Next]_vars PROVE IInv'
  OBVIOUS
<1>1. CASE Tick
  BY <1>1 DEF Tick, IInv, TypeOK, LockInv, RoomInv, LimitInv, CountersAgree,
              WithToken, InFlightOf, stratVars, limVars, locVars, histVars
<1>2. CASE UNCHANGED vars
  BY <1>2 DEF vars, IInv, TypeOK, LockInv, RoomInv, LimitInv, CountersAgree,
              WithToken, InFlightOf, stratVars, limVars, locVars, histVars
<1>3. ASSUME NEW p \in Procs, Step(p) PROVE IInv'
  BY <1>3, AcquireInv, ReleaseInv, UpdateInv DEF Step
<1> QED BY <1>1, <1>2, <1>3 DEF Next

\* The invariant holds in every reachable state.
LEMMA Invariance == Spec => []IInv
BY InitInv, NextInv, PTL DEF Spec

\* Every reachable state of DefaultLimiter is well typed; in particular the
\* limit in force is at least 1 and no counter falls below 0.
THEOREM TypeCorrect == Spec => []TypeOK
BY Invariance, PTL DEF IInv

\* The limiter's and the strategy's counters never drift (Acquire and the
\* three listener methods in limiter/default.go).
THEOREM CountersNeverDrift == Spec => []CountersAgree
BY Invariance, PTL DEF IInv

\* Limit updates are at least minWindowTime apart (the second test in
\* updateLimit, limiter/default.go).
THEOREM UpdatesAreSpaced == Spec => UpdatesSpaced
<1>1. IInv /\ [Next]_vars =>
        (nextUpdateTime' # nextUpdateTime
            => nextUpdateTime' > nextUpdateTime + MinWindowTime)
  <2> SUFFICES ASSUME IInv, [Next]_vars, nextUpdateTime' # nextUpdateTime
               PROVE  nextUpdateTime' > nextUpdateTime + MinWindowTime
    OBVIOUS
  <2>1. PICK p \in Procs : ApplyLimit(p)
    BY DEF Next, Step, vars, stratVars, limVars, locVars, histVars, Tick,
           CheckLimit, AddBusy, NewListener, Complete, ReleaseToken, Measure,
           AddSuccess, AddDrop, UpdateAndGetSample, StampDrop, SkipUpdate
  <2>2. /\ endTime[p] \in Nat /\ nextUpdateTime \in Nat
        /\ Pause(current[p]) \in Nat /\ Pause(current[p]) >= MinWindowTime
    BY PauseBound DEF IInv, TypeOK
  <2> QED BY <2>1, <2>2, WindowAssumption DEF ApplyLimit, Due
<1> QED BY <1>1, Invariance, PTL DEF Spec, UpdatesSpaced

\* The in-flight count that a sample carries is within the limit in force
\* when its request was admitted (Acquire, limiter/default.go): the count is
\* that of the holders, and the new one has its token already.
THEOREM SamplesWithinLimit == Spec => SampledWithinLimit
<1>1. IInv /\ [Next]_vars =>
        (\A p \in Procs : pc[p] = "record" /\ pc'[p] = "held"
            => listener'[p].currentMaxInFlight \in 1 .. limit)
  <2> SUFFICES ASSUME IInv, [Next]_vars, NEW p \in Procs,
                      pc[p] = "record", pc'[p] = "held"
               PROVE  listener'[p].currentMaxInFlight \in 1 .. limit
    OBVIOUS
  <2>1. NewListener(p)
    <3>1. ASSUME NEW q \in Procs, q # p, Step(q) PROVE FALSE
      BY <3>1
         DEF Step, CheckLimit, AddBusy, NewListener, Complete, ReleaseToken,
             Measure, AddSuccess, AddDrop, UpdateAndGetSample, StampDrop,
             ApplyLimit, SkipUpdate, Return, Goto, IInv, TypeOK
    <3>2. Step(p)
      BY <3>1 DEF Next, Tick, vars
    <3> QED
      BY <3>2
         DEF Step, CheckLimit, AddBusy, Complete, ReleaseToken, Measure,
             AddSuccess, AddDrop, UpdateAndGetSample, StampDrop, ApplyLimit,
             SkipUpdate, Outcomes
  <2>2. listener'[p].currentMaxInFlight = inFlight + 1
    BY <2>1 DEF NewListener, IInv, TypeOK
  <2>3. inFlight + 1 <= busy
    <3>1. /\ p \notin InFlightOf /\ InFlightOf \cup {p} \in SUBSET WithToken
          /\ InFlightOf \in SUBSET Procs
          /\ IsFiniteSet(WithToken)
      BY FS_Subset, ProcsAssumption DEF InFlightOf, WithToken
    <3>2. Cardinality(InFlightOf \cup {p}) = Cardinality(InFlightOf) + 1
      BY <3>1, CountOne
    <3>3. Cardinality(InFlightOf \cup {p}) <= Cardinality(WithToken)
      BY <3>1, FS_Subset
    <3> QED BY <3>2, <3>3 DEF IInv, CountersAgree
  <2>4. busy <= limit
    BY DEF IInv, RoomInv
  <2> QED BY <2>2, <2>3, <2>4 DEF IInv, TypeOK
<1> QED BY <1>1, Invariance, PTL DEF Spec, SampledWithinLimit

\* The abstract limiter counts with the same Cardinality.
LEMMA SameCardinality == \A S : core!Cardinality(S) = Cardinality(S)
BY DEF core!Cardinality, Cardinality

\* Every step of DefaultLimiter is a step of the abstract limiter or changes
\* nothing that it can see.
LEMMA StepSimulation ==
  ASSUME IInv, [Next]_vars
  PROVE  [core!CoreNext]_(core!coreVars)
<1> USE DEF core!coreVars, core!CoreNext
<1>1. CASE UNCHANGED vars \/ Tick
  BY <1>1 DEF Tick, vars, stratVars, limVars, locVars, histVars, WithToken
<1>2. ASSUME NEW p \in Procs, AddBusy(p) PROVE [core!CoreNext]_(core!coreVars)
  <2>1. Cardinality(WithToken) < limit
    BY <1>2 DEF AddBusy, IInv, RoomInv, CountersAgree
  <2>2. core!Acquire(p)
    BY <1>2, <2>1, CountedSets, SameCardinality
       DEF core!Acquire, core!HasCapacity, AddBusy, IInv
  <2> QED BY <2>2
<1>3. ASSUME NEW p \in Procs, ReleaseToken(p) PROVE [core!CoreNext]_(core!coreVars)
  <2>1. core!Release(p)
    BY <1>3, CountedSets DEF core!Release, ReleaseToken, IInv
  <2> QED BY <2>1
<1>4. ASSUME NEW p \in Procs, ApplyLimit(p) PROVE [core!CoreNext]_(core!coreVars)
  <2>1. \E l \in {Clamp(e) : e \in Estimates} : core!SetLimit(l)
    BY <1>4, CountedSets DEF core!SetLimit, ApplyLimit, IInv
  <2> QED BY <2>1
<1>5. ASSUME NEW p \in Procs,
             \/ CheckLimit(p) \/ NewListener(p) \/ Measure(p) \/ AddSuccess(p)
             \/ AddDrop(p) \/ StampDrop(p) \/ SkipUpdate(p)
             \/ \E o \in Outcomes : Complete(p, o)
      PROVE  [core!CoreNext]_(core!coreVars)
  <2>1. WithToken' = WithToken
    BY <1>5, CountedSets DEF IInv
  <2>2. limit' = limit
    BY <1>5 DEF CheckLimit, NewListener, Measure, AddSuccess, AddDrop,
                UpdateAndGetSample, StampDrop, SkipUpdate, Complete, stratVars
  <2> QED BY <2>1, <2>2
<1> QED BY <1>1, <1>2, <1>3, <1>4, <1>5 DEF Next, Step

\* DefaultLimiter implements core.Limiter's contract: although the strategy
\* tests and adds in two steps, no request is admitted above the limit in
\* force, and every token is given back once.
THEOREM Refinement == Spec => ImplementsCore
<1>1. Init => core!CoreInit
  BY DEF Init, core!CoreInit, WithToken, Outcomes
<1>2. IInv /\ [Next]_vars => [core!CoreNext]_(core!coreVars)
  BY StepSimulation
<1> QED BY <1>1, <1>2, Invariance, PTL DEF Spec, ImplementsCore, core!CoreSpec

-----------------------------------------------------------------------------
(* A window is reported once, if no listener's method takes longer than half a *)
(* window. *)

\* How long goroutine p has been inside a listener's method, and when its operation
\* ended; a window that was reset since p read it is followed by a pause that p's
\* method does not outlast.
Timed(p) ==
  /\ pc[p] \notin {"idle", "add", "record", "held"}
       => calledAt[p] <= now /\ now <= calledAt[p] + MaxStall
  /\ pc[p] \in {"addSample", "update"}
       => calledAt[p] <= endTime[p] /\ endTime[p] <= calledAt[p] + MaxStall
  /\ p \in stale => pc[p] \in {"stamp", "update"}
                    /\ calledAt[p] + MaxStall <= nextUpdateTime

StallInv == calledAt \in [Procs -> Nat] /\ \A p \in Procs : Timed(p)

\* The step is one of goroutine p, and does not change the limit's window.
Alone(p) ==
  /\ UNCHANGED <<now, nextUpdateTime>>
  /\ \A q \in Procs \ {p} : /\ pc'[q] = pc[q] /\ calledAt'[q] = calledAt[q]
                            /\ endTime'[q] = endTime[q]
                            /\ q \in stale' => q \in stale

\* All the steps but updates of the limit are such.
LEMMA StepAlone ==
  ASSUME TypeOK, StallInv, NEW p \in Procs, Step(p), ~ApplyLimit(p)
  PROVE  Alone(p) /\ calledAt' \in [Procs -> Nat]
<1> USE DEF TypeOK, StallInv, Alone, Goto, limVars, locVars, histVars, stratVars
<1>1. CASE CheckLimit(p) \/ AddBusy(p) \/ NewListener(p)
  BY <1>1 DEF CheckLimit, AddBusy, NewListener
<1>2. CASE \E o \in Outcomes : Complete(p, o)
  BY <1>2 DEF Complete
<1>3. CASE ReleaseToken(p)
  BY <1>3 DEF ReleaseToken, Return
<1>4. CASE Measure(p)
  BY <1>4 DEF Measure, Return
<1>5. CASE AddSuccess(p) \/ AddDrop(p) \/ StampDrop(p)
  BY <1>5 DEF AddSuccess, AddDrop, StampDrop, UpdateAndGetSample
<1>6. CASE SkipUpdate(p)
  BY <1>6 DEF SkipUpdate, Return
<1> QED BY <1>1, <1>2, <1>3, <1>4, <1>5, <1>6 DEF Step

\* They keep the goroutine's own times in order.
LEMMA StepTimed ==
  ASSUME TypeOK, StallInv, NEW p \in Procs, Step(p), ~ApplyLimit(p)
  PROVE  Timed(p)'
<1>1. /\ calledAt[p] \in Nat /\ now \in Nat /\ MaxStall \in Nat /\ nextUpdateTime \in Nat
      /\ pc \in [Procs -> {"idle", "add", "record", "held", "measure", "addSample",
                           "addDropped", "stamp", "update"} \cup Outcomes]
      /\ endTime \in [Procs -> Nat] /\ calledAt \in [Procs -> Nat]
      /\ Timed(p)
  BY WindowAssumption DEF TypeOK, StallInv
<1> USE DEF Timed, Goto, limVars, locVars, histVars, stratVars, Outcomes
<1>2. CASE CheckLimit(p) \/ AddBusy(p) \/ NewListener(p)
  BY <1>1, <1>2 DEF CheckLimit, AddBusy, NewListener
<1>3. CASE \E o \in Outcomes : Complete(p, o)
  BY <1>1, <1>3 DEF Complete
<1>4. CASE ReleaseToken(p)
  BY <1>1, <1>4 DEF ReleaseToken, Return
<1>5. CASE Measure(p)
  BY <1>1, <1>5 DEF Measure, Return
<1>6. CASE AddSuccess(p) \/ AddDrop(p) \/ StampDrop(p)
  BY <1>1, <1>6 DEF AddSuccess, AddDrop, StampDrop, UpdateAndGetSample
<1>7. CASE SkipUpdate(p)
  BY <1>1, <1>7 DEF SkipUpdate, Return
<1> QED BY <1>2, <1>3, <1>4, <1>5, <1>6, <1>7 DEF Step

\* After an update the goroutines that read the window before it have no time left
\* for another.
LEMMA ApplyTimed ==
  ASSUME 2 * MaxStall <= MinWindowTime, TypeOK, StallInv, NEW p \in Procs, ApplyLimit(p)
  PROVE  StallInv'
<1>1. /\ now \in Nat /\ MaxStall \in Nat /\ MinWindowTime \in Nat
      /\ endTime \in [Procs -> Nat] /\ calledAt \in [Procs -> Nat]
      /\ \A q \in Procs : pc[q] \in {"idle", "add", "record", "held", "measure", "addSample",
                           "addDropped", "stamp", "update"} \cup Outcomes
      /\ DOMAIN pc = Procs
      /\ \A q \in Procs : Timed(q)
  BY WindowAssumption DEF TypeOK, StallInv
<1>2. Pause(current[p]) \in Nat /\ Pause(current[p]) >= MinWindowTime
  BY PauseBound DEF TypeOK
<1>3. /\ nextUpdateTime' = endTime[p] + Pause(current[p]) /\ now' = now
      /\ stale' = {q \in Procs \ {p} : pc[q] \in {"stamp", "update"}}
      /\ pc' = [pc EXCEPT ![p] = "idle"]
      /\ endTime' = [endTime EXCEPT ![p] = 0]
      /\ calledAt' = [calledAt EXCEPT ![p] = 0]
      /\ pc[p] = "update"
  BY DEF ApplyLimit, Return, Goto
<1>4. now + MaxStall <= nextUpdateTime' /\ nextUpdateTime' \in Nat
  <2>1. now <= calledAt[p] + MaxStall /\ calledAt[p] <= endTime[p]
    BY <1>1, <1>3 DEF Timed
  <2>2. calledAt[p] \in Nat /\ endTime[p] \in Nat
    BY <1>1
  <2> QED BY <1>1, <1>2, <1>3, <2>1, <2>2
<1>5. ASSUME NEW q \in Procs PROVE Timed(q)'
  <2>1. CASE q = p
    BY <1>1, <1>3, <2>1 DEF Timed
  <2>2. CASE q # p
    <3>1. pc'[q] = pc[q] /\ calledAt'[q] = calledAt[q] /\ endTime'[q] = endTime[q]
      BY <1>1, <1>3, <2>2
    <3>2. ASSUME q \in stale'
          PROVE  pc'[q] \in {"stamp", "update"} /\ calledAt'[q] + MaxStall <= nextUpdateTime'
      <4>1. pc[q] \in {"stamp", "update"}
        BY <1>3, <3>2
      <4>2. calledAt[q] <= now /\ calledAt[q] \in Nat
        BY <1>1, <4>1 DEF Timed
      <4> QED BY <1>1, <1>4, <3>1, <4>1, <4>2
    <3> QED BY <1>1, <1>3, <3>1, <3>2 DEF Timed
  <2> QED BY <2>1, <2>2
<1>6. calledAt' \in [Procs -> Nat]
  BY <1>1, <1>3
<1> QED BY <1>5, <1>6 DEF StallInv

\* Every step keeps the times in order.
LEMMA StallStep ==
  ASSUME 2 * MaxStall <= MinWindowTime
  PROVE  IInv /\ StallInv /\ [Next]_vars => StallInv'
<1> SUFFICES ASSUME TypeOK, StallInv, [Next]_vars PROVE StallInv'
  BY DEF IInv
<1>1. CASE UNCHANGED vars
  BY <1>1 DEF vars, limVars, locVars, histVars, StallInv, Timed
<1>2. CASE Tick
  <2>1. /\ now \in Nat /\ MaxStall \in Nat /\ calledAt \in [Procs -> Nat] /\ now' = now + 1
        /\ UNCHANGED <<pc, calledAt, endTime, stale, nextUpdateTime>>
    BY <1>2, WindowAssumption DEF Tick, TypeOK, StallInv, limVars, locVars, histVars
  <2>2. ASSUME NEW p \in Procs PROVE Timed(p)'
    <3>1. calledAt[p] \in Nat /\ Timed(p)
      BY <2>1 DEF StallInv
    <3>2. pc[p] \notin {"idle", "add", "record", "held"} => now - calledAt[p] < MaxStall
      BY <1>2 DEF Tick, Returning
    <3> QED BY <2>1, <3>1, <3>2 DEF Timed
  <2> QED BY <2>1, <2>2 DEF StallInv
<1>3. ASSUME NEW p \in Procs, Step(p), ~ApplyLimit(p) PROVE StallInv'
  <2>1. Alone(p) /\ calledAt' \in [Procs -> Nat] /\ Timed(p)'
    BY <1>3, StepAlone, StepTimed
  <2>2. ASSUME NEW q \in Procs, q # p PROVE Timed(q)'
    <3>1. Timed(q)
      BY DEF StallInv
    <3> QED BY <2>1, <2>2, <3>1 DEF Alone, Timed
  <2> QED BY <2>1, <2>2 DEF StallInv
<1> QED BY <1>1, <1>2, <1>3, ApplyTimed DEF Next

\* No window is reported twice (updateLimit, limiter/default.go), for any number of
\* goroutines, as long as a listener's method takes at most half of minWindowTime.
THEOREM NoWindowIsReportedTwice ==
  ASSUME 2 * MaxStall <= MinWindowTime PROVE Spec => NoStaleReport
<1>1. Init => StallInv
  BY DEF Init, StallInv, Timed
<1>2. IInv /\ StallInv /\ [Next]_vars => StallInv'
  BY StallStep
<1>3. IInv /\ StallInv /\ [Next]_vars =>
        (\A p \in Procs : (pc[p] = "update" /\ nextUpdateTime' # nextUpdateTime
                             /\ pc'[p] = "idle") => p \notin stale)
  <2> SUFFICES ASSUME TypeOK, StallInv, [Next]_vars, NEW p \in Procs, pc[p] = "update",
                      nextUpdateTime' # nextUpdateTime, pc'[p] = "idle", p \in stale
               PROVE  FALSE
    BY DEF IInv
  <2>1. PICK q \in Procs : ApplyLimit(q)
    BY DEF Next, Step, vars, stratVars, limVars, locVars, histVars, Tick,
           CheckLimit, AddBusy, NewListener, Complete, ReleaseToken, Measure,
           AddSuccess, AddDrop, UpdateAndGetSample, StampDrop, SkipUpdate
  <2>2. q = p
    BY <2>1 DEF ApplyLimit, Return, Goto, TypeOK
  <2>3. endTime[p] > nextUpdateTime
    BY <2>1, <2>2 DEF ApplyLimit, Due
  <2>4. /\ endTime[p] <= calledAt[p] + MaxStall /\ calledAt[p] + MaxStall <= nextUpdateTime
        /\ calledAt[p] \in Nat /\ endTime[p] \in Nat /\ nextUpdateTime \in Nat
        /\ MaxStall \in Nat
    BY WindowAssumption DEF StallInv, Timed, TypeOK
  <2> QED BY <2>3, <2>4
<1> QED BY <1>1, <1>2, <1>3, Invariance, PTL DEF Spec, NoStaleReport
=============================================================================
