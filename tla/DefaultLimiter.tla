---------------------------- MODULE DefaultLimiter ----------------------------
(***************************************************************************)
(* limiter/default.go with strategy/simple.go under it: a limiter whose    *)
(* limit follows an algorithm fed with windows of latency samples.         *)
(*                                                                         *)
(* Acquire runs under l.mu.  A listener's method does not: it decrements   *)
(* the limiter's and the strategy's counters atomically, adds its sample   *)
(* in one critical section and updates the limit in another.               *)
(*                                                                         *)
(* The limit algorithm is any function: a window may move the estimate to  *)
(* any of Estimates.  Time is a clock that all goroutines read.            *)
(***************************************************************************)
EXTENDS SampleWindow, FiniteSets

CONSTANTS Procs,            \* the goroutines that use the limiter
          None,             \* nobody holds l.mu
          Estimates,        \* what limit.EstimatedLimit() may return
          MinWindowTime, MaxWindowTime,
          MinRTTThreshold,
          WindowSize,
          MaxTime,          \* bound: the clock stops here
          MaxStall          \* bound: how long a listener's method may take

ASSUME ProcsAssumption     == IsFiniteSet(Procs) /\ None \notin Procs
ASSUME EstimatesAssumption == Estimates \subseteq Int
ASSUME WindowAssumption    ==
    /\ MinWindowTime \in Nat \ {0}
    /\ MaxWindowTime \in Nat /\ MaxWindowTime >= MinWindowTime
    /\ MinRTTThreshold \in Int
    /\ WindowSize \in Nat
    /\ MaxTime \in Nat /\ MaxStall \in Nat
    /\ MaxInt64 \in Nat /\ MaxInt64 > MaxTime

VARIABLES busy,            \* SimpleStrategy.inFlight
          limit,           \* SimpleStrategy.limit
          inFlight,        \* DefaultLimiter.inFlight
          sample,          \* DefaultLimiter.sample
          nextUpdateTime,  \* DefaultLimiter.nextUpdateTime
          mu,              \* the goroutine inside Acquire's critical section
          now,             \* the clock
          pc,              \* where each goroutine is in the code
          listener,        \* each goroutine's DefaultListener
          current,         \* local: the window updateAndGetSample returned
          endTime,         \* local: when the operation ended
          calledAt,        \* history: when the listener's method was called
          stale            \* history: goroutines whose `current` is of a
                           \* window that has been reset since

stratVars == <<busy, limit>>
limVars   == <<inFlight, sample, nextUpdateTime, mu>>
locVars   == <<listener, current, endTime>>
histVars  == <<calledAt, stale>>
vars      == <<stratVars, limVars, now, pc, locVars, histVars>>

Goto(p, label) == pc' = [pc EXCEPT ![p] = label]

\* SimpleStrategy.SetLimit: at least 1
Clamp(l) == IF l < 1 THEN 1 ELSE l

NoListener == [currentMaxInFlight |-> 0, startTime |-> 0, nextUpdateTime |-> 0]

\* NewDefaultLimiter sets the strategy's limit from the algorithm's estimate
Init ==
    /\ busy = 0
    /\ limit \in {Clamp(e) : e \in Estimates}
    /\ inFlight = 0
    /\ sample = EmptyWindow
    /\ nextUpdateTime = 0
    /\ mu = None
    /\ now = 1
    /\ pc = [p \in Procs |-> "idle"]
    /\ listener = [p \in Procs |-> NoListener]
    /\ current = [p \in Procs |-> EmptyWindow]
    /\ endTime = [p \in Procs |-> 0]
    /\ calledAt = [p \in Procs |-> 0]
    /\ stale = {}

-----------------------------------------------------------------------------
(* Acquire, under l.mu *)

\* Fault: Acquire runs without the lock, so that checks overlap.
FaultCheckUnlocked(p) ==
    /\ pc[p] = "idle"
    /\ busy < limit
    /\ Goto(p, "add")
    /\ UNCHANGED <<stratVars, limVars, now, locVars, histVars>>

\* l.mu.Lock(), and strategy.TryAcquire compares its counter with its limit;
\* a refusal changes nothing ...
CheckLimit(p) ==
    /\ pc[p] = "idle"
    /\ mu = None
    /\ busy < limit
    /\ mu' = p
    /\ Goto(p, "add")
    /\ UNCHANGED <<stratVars, inFlight, sample, nextUpdateTime, now, locVars,
                   histVars>>

\* ... and it adds to the counter in a second atomic operation
AddBusy(p) ==
    /\ pc[p] = "add"
    /\ busy' = busy + 1
    /\ Goto(p, "record")
    /\ UNCHANGED <<limit, limVars, now, locVars, histVars>>

\* the listener is made and the lock released
NewListener(p) ==
    /\ pc[p] = "record"
    /\ inFlight' = inFlight + 1
    /\ listener' = [listener EXCEPT ![p] =
                        [currentMaxInFlight |-> inFlight + 1,
                         startTime          |-> now,
                         nextUpdateTime     |-> nextUpdateTime]]
    /\ mu' = None
    /\ Goto(p, "held")
    /\ UNCHANGED <<stratVars, sample, nextUpdateTime, now, current, endTime,
                   histVars>>

-----------------------------------------------------------------------------
(* OnSuccess, OnIgnore, OnDropped *)

Outcomes == {"success", "ignore", "drop"}

\* Fault: an ignored request stays in the limiter's count.
FaultIgnoreCounted(p, outcome) ==
    /\ pc[p] = "held"
    /\ inFlight' = IF outcome = "ignore" THEN inFlight ELSE inFlight - 1
    /\ calledAt' = [calledAt EXCEPT ![p] = now]
    /\ Goto(p, outcome)
    /\ UNCHANGED <<stratVars, sample, nextUpdateTime, mu, now, locVars, stale>>

\* atomic.AddInt64(l.inFlight, -1)
Complete(p, outcome) ==
    /\ pc[p] = "held"
    /\ inFlight' = inFlight - 1
    /\ calledAt' = [calledAt EXCEPT ![p] = now]
    /\ Goto(p, outcome)
    /\ UNCHANGED <<stratVars, sample, nextUpdateTime, mu, now, locVars, stale>>

\* The method returns and its locals die.
Return(p) ==
    /\ Goto(p, "idle")
    /\ listener' = [listener EXCEPT ![p] = NoListener]
    /\ current'  = [current EXCEPT ![p] = EmptyWindow]
    /\ endTime'  = [endTime EXCEPT ![p] = 0]
    /\ calledAt' = [calledAt EXCEPT ![p] = 0]

\* Fault: a dropped request keeps its token.
FaultDropKeepsToken(p) ==
    /\ pc[p] \in Outcomes
    /\ busy' = IF pc[p] = "drop" THEN busy ELSE busy - 1
    /\ \/ pc[p] = "ignore" /\ Return(p)
       \/ pc[p] = "success" /\ Goto(p, "measure") /\ UNCHANGED <<locVars, calledAt>>
       \/ pc[p] = "drop" /\ Goto(p, "addDropped") /\ UNCHANGED <<locVars, calledAt>>
    /\ UNCHANGED <<limit, limVars, now, stale>>

\* l.token.Release(): atomic.AddInt32(ref, -1)
ReleaseToken(p) ==
    /\ pc[p] \in Outcomes
    /\ busy' = busy - 1
    /\ \/ pc[p] = "ignore" /\ Return(p)
       \/ pc[p] = "success" /\ Goto(p, "measure") /\ UNCHANGED <<locVars, calledAt>>
       \/ pc[p] = "drop" /\ Goto(p, "addDropped") /\ UNCHANGED <<locVars, calledAt>>
    /\ UNCHANGED <<limit, limVars, now, stale>>

\* OnSuccess reads the clock before it adds its sample, and ignores an RTT
\* below the threshold
Measure(p) ==
    /\ pc[p] = "measure"
    /\ IF now - listener[p].startTime < MinRTTThreshold
       THEN Return(p)
       ELSE /\ endTime' = [endTime EXCEPT ![p] = now]
            /\ Goto(p, "addSample")
            /\ UNCHANGED <<listener, current, calledAt>>
    /\ UNCHANGED <<stratVars, limVars, now, stale>>

\* updateAndGetSample, under l.mu
UpdateAndGetSample(p, window, next) ==
    /\ mu = None
    /\ sample' = window
    /\ current' = [current EXCEPT ![p] = window]
    /\ Goto(p, next)
    /\ UNCHANGED <<stratVars, inFlight, nextUpdateTime, mu, now, listener,
                   endTime, histVars>>

AddSuccess(p) ==
    /\ pc[p] = "addSample"
    /\ UpdateAndGetSample(p, AddSample(sample, endTime[p] - listener[p].startTime,
                                       listener[p].currentMaxInFlight), "update")

\* OnDropped adds its sample first and reads the clock afterwards
AddDrop(p) ==
    /\ pc[p] = "addDropped"
    /\ UpdateAndGetSample(p, AddDroppedSample(sample, listener[p].currentMaxInFlight),
                          "stamp")

StampDrop(p) ==
    /\ pc[p] = "stamp"
    /\ endTime' = [endTime EXCEPT ![p] = now]
    /\ Goto(p, "update")
    /\ UNCHANGED <<stratVars, limVars, now, listener, current, histVars>>

\* isWindowReady
WindowReady(w) == w.minRTT < MaxInt64 /\ w.sampleCount > WindowSize

\* The pause until the next update: twice the best RTT, within the bounds.
Pause(w) == Smaller(MaxWindowTime, Larger(MinWindowTime, 2 * w.minRTT))

\* updateLimit's two looks at the clock's value: the listener's snapshot
\* first, the limiter's own field under the lock
Due(p) == endTime[p] > listener[p].nextUpdateTime /\ endTime[p] > nextUpdateTime

\* Fault: only the snapshot is tested.
FaultNoDoubleCheck(p) ==
    /\ pc[p] = "update"
    /\ mu = None
    /\ endTime[p] > listener[p].nextUpdateTime
    /\ WindowReady(current[p])
    /\ sample' = EmptyWindow
    /\ nextUpdateTime' = endTime[p] + Pause(current[p])
    /\ \E e \in Estimates : limit' = Clamp(e)
    /\ stale' = {q \in Procs \ {p} : pc[q] \in {"stamp", "update"}}
    /\ Return(p)
    /\ UNCHANGED <<busy, inFlight, mu, now>>

\* updateLimit with a window that is due and ready: the window is reset, the
\* algorithm consulted (limit.OnSample) and the strategy's limit set
ApplyLimit(p) ==
    /\ pc[p] = "update"
    /\ mu = None
    /\ Due(p)
    /\ WindowReady(current[p])
    /\ sample' = EmptyWindow
    /\ nextUpdateTime' = endTime[p] + Pause(current[p])
    /\ \E e \in Estimates : limit' = Clamp(e)
    /\ stale' = {q \in Procs \ {p} : pc[q] \in {"stamp", "update"}}
    /\ Return(p)
    /\ UNCHANGED <<busy, inFlight, mu, now>>

\* updateLimit with one that is not
SkipUpdate(p) ==
    /\ pc[p] = "update"
    /\ endTime[p] > listener[p].nextUpdateTime => mu = None
    /\ ~(Due(p) /\ WindowReady(current[p]))
    /\ stale' = stale \ {p}
    /\ Return(p)
    /\ UNCHANGED <<stratVars, limVars, now>>

\* The goroutines inside a listener's method.
Returning == {p \in Procs : pc[p] \notin {"idle", "add", "record", "held"}}

\* Time passes, though a listener's method takes no longer than MaxStall.
Tick ==
    /\ now < MaxTime
    /\ \A p \in Returning : now - calledAt[p] < MaxStall
    /\ now' = now + 1
    /\ UNCHANGED <<stratVars, limVars, pc, locVars, histVars>>

Step(p) ==
    \/ CheckLimit(p) \/ AddBusy(p) \/ NewListener(p)
    \/ \E outcome \in Outcomes : Complete(p, outcome)
    \/ ReleaseToken(p)
    \/ Measure(p) \/ AddSuccess(p)
    \/ AddDrop(p) \/ StampDrop(p)
    \/ ApplyLimit(p) \/ SkipUpdate(p)

Next == Tick \/ \E p \in Procs : Step(p)

Spec == Init /\ [][Next]_vars

-----------------------------------------------------------------------------
WithToken  == {p \in Procs : pc[p] \in {"record", "held"} \cup Outcomes}
InFlightOf == {p \in Procs : pc[p] = "held"}

ListenerType == [currentMaxInFlight : Nat, startTime : Nat, nextUpdateTime : Nat]

\* Types of the limiter's fields and of every goroutine's position and locals.
TypeOK ==
    /\ busy \in Nat /\ inFlight \in Nat
    /\ limit \in Nat \ {0}
    /\ sample \in WindowType
    /\ nextUpdateTime \in Nat
    /\ mu \in Procs \cup {None}
    /\ now \in Nat
    /\ pc \in [Procs -> {"idle", "add", "record", "held", "measure", "addSample",
                         "addDropped", "stamp", "update"} \cup Outcomes]
    /\ listener \in [Procs -> ListenerType]
    /\ current \in [Procs -> WindowType]
    /\ endTime \in [Procs -> Nat]

\* The two counters never drift: each is the number of goroutines between
\* its increment and its decrement, on every path through the three listener
\* methods.
CountersAgree ==
    /\ busy = Cardinality(WithToken)
    /\ inFlight = Cardinality(InFlightOf)

\* SimpleStrategy tests and adds in two steps; under l.mu the pair never
\* admits a request above the limit in force.
core == INSTANCE CoreLimiter
          WITH holders <- WithToken, Limits <- {Clamp(e) : e \in Estimates}

ImplementsCore == core!CoreSpec

\* What a sample reports as in-flight never exceeds the limit at admission:
\* the limiter's count falls before the strategy's token is returned.
SampledWithinLimit ==
    [][\A p \in Procs : pc[p] = "record" /\ pc'[p] = "held"
            => listener'[p].currentMaxInFlight \in 1 .. limit]_vars

\* Limit updates are spaced: each postpones the next by at least
\* minWindowTime, although several listeners pass the first test with
\* snapshots taken before the same update.
UpdatesSpaced ==
    [][nextUpdateTime' # nextUpdateTime
            => nextUpdateTime' > nextUpdateTime + MinWindowTime]_vars

\* No window is reported twice: a goroutine that updates the limit does so
\* with a window that nobody has reset since it was read (provided that no
\* listener's method takes longer than half a window).
NoStaleReport ==
    [][\A p \in Procs : (pc[p] = "update" /\ nextUpdateTime' # nextUpdateTime
                            /\ pc'[p] = "idle")
            => p \notin stale]_vars
=============================================================================
