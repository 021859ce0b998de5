---------------------------- MODULE PreciseStrategy ----------------------------
(***************************************************************************)
(* strategy/precise.go: the counter of SimpleStrategy behind a mutex.      *)
(* TryAcquire's test and increment are two steps inside one critical       *)
(* section; release and SetLimit enter it in one step each.                *)
(***************************************************************************)
EXTENDS Integers, FiniteSets

CONSTANTS Procs,      \* the goroutines that use the strategy
          None,       \* nobody holds s.mu
          Requested   \* the integers that SetLimit and the constructor get

VARIABLES inFlight,  \* s.inFlight
          limit,     \* s.limit
          mu,        \* the goroutine that holds s.mu
          pc         \* where each goroutine is in the code

vars == <<inFlight, limit, mu, pc>>

Goto(p, label) == pc' = [pc EXCEPT ![p] = label]

\* limits below 1 become 1
Clamp(l) == IF l < 1 THEN 1 ELSE l

Init ==
    /\ inFlight = 0
    /\ \E r \in Requested : limit = Clamp(r)
    /\ mu = None
    /\ pc = [p \in Procs |-> "idle"]

\* Fault: the lock is taken only after the test.
FaultTestUnlocked(p) ==
    /\ pc[p] = "idle"
    /\ inFlight < limit
    /\ Goto(p, "inc")
    /\ UNCHANGED <<inFlight, limit, mu>>

\* s.mu.Lock() and the test; a refusal unlocks again and changes nothing
TestLimit(p) ==
    /\ pc[p] = "idle"
    /\ mu = None
    /\ inFlight < limit
    /\ mu' = p
    /\ Goto(p, "inc")
    /\ UNCHANGED <<inFlight, limit>>

\* s.inFlight++ and the deferred Unlock
Increment(p) ==
    /\ pc[p] = "inc"
    /\ inFlight' = inFlight + 1
    /\ mu' = None
    /\ Goto(p, "held")
    /\ UNCHANGED limit

\* Fault: the release handler does not wait for the lock, and its decrement
\* overlaps the increment of another goroutine and is lost.
FaultReleaseUnlocked(p) ==
    /\ pc[p] = "held"
    /\ inFlight' = IF mu = None THEN inFlight - 1 ELSE inFlight
    /\ Goto(p, "idle")
    /\ UNCHANGED <<limit, mu>>

\* the token's releaseHandler
ReleaseHandler(p) ==
    /\ pc[p] = "held"
    /\ mu = None
    /\ inFlight' = inFlight - 1
    /\ Goto(p, "idle")
    /\ UNCHANGED <<limit, mu>>

SetLimit(r) ==
    /\ mu = None
    /\ limit' = Clamp(r)
    /\ UNCHANGED <<inFlight, mu, pc>>

Next ==
    \/ \E p \in Procs : TestLimit(p) \/ Increment(p) \/ ReleaseHandler(p)
    \/ \E r \in Requested : SetLimit(r)

Spec == Init /\ [][Next]_vars

-----------------------------------------------------------------------------
Holding == {p \in Procs : pc[p] = "held"}

\* The counter is the number of tokens outstanding.
CountExact == inFlight = Cardinality(Holding)

core == INSTANCE CoreLimiter
          WITH holders <- Holding, Limits <- {Clamp(r) : r \in Requested}

\* "Precise": no token is granted above the limit in force, also while the
\* limit moves and other tokens are returned.
ImplementsCore == core!CoreSpec
=============================================================================
