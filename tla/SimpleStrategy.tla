---------------------------- MODULE SimpleStrategy ----------------------------
(***************************************************************************)
(* strategy/simple.go used by several goroutines at once.  DefaultLimiter  *)
(* calls TryAcquire under its own lock (see DefaultLimiter.tla); a program *)
(* that shares the strategy between limiters, or calls it directly, gets   *)
(* what is modelled here: three atomic operations per TryAcquire, with     *)
(* releases and limit changes in between.                                  *)
(*                                                                         *)
(* A granted token outlives the call that obtained it, so callers are      *)
(* goroutines inside TryAcquire and tokens are only counted.               *)
(***************************************************************************)
EXTENDS Integers, FiniteSets

CONSTANTS Callers,    \* the goroutines that call TryAcquire
          NewLimits,  \* the arguments of SetLimit and of the constructor
          MaxLimit    \* the largest limit that NewLimits lead to

\* strategy/simple.go:27 and :63: limits below 1 become 1
Clamp(l) == IF l < 1 THEN 1 ELSE l

ASSUME CallersAssumption   == IsFiniteSet(Callers)
ASSUME NewLimitsAssumption ==
    /\ NewLimits \subseteq Int
    /\ MaxLimit \in Nat
    /\ \A r \in NewLimits : Clamp(r) <= MaxLimit

VARIABLES inFlight,     \* *s.inFlight
          simpleLimit,  \* *s.limit
          pc,           \* where each caller is in TryAcquire
          seen,         \* local: the value of inFlight that TryAcquire loaded
          tokens        \* the tokens granted and not released

simpleVars == <<inFlight, simpleLimit, pc, seen, tokens>>

Goto(c, label) == pc' = [pc EXCEPT ![c] = label]

SimpleInit ==
    /\ inFlight = 0
    /\ \E r \in NewLimits : simpleLimit = Clamp(r)
    /\ pc = [c \in Callers |-> "idle"]
    /\ seen = [c \in Callers |-> 0]
    /\ tokens = 0

\* inFlight := atomic.LoadInt32(s.inFlight)
LoadInFlight(c) ==
    /\ pc[c] = "idle"
    /\ seen' = [seen EXCEPT ![c] = inFlight]
    /\ Goto(c, "compare")
    /\ UNCHANGED <<inFlight, simpleLimit, tokens>>

\* Fault: the comparison lets one more request in.
FaultCompareOffByOne(c) ==
    /\ pc[c] = "compare"
    /\ Goto(c, IF seen[c] > simpleLimit THEN "idle" ELSE "add")
    /\ UNCHANGED <<inFlight, simpleLimit, seen, tokens>>

\* if inFlight >= atomic.LoadInt32(s.limit) the caller is refused
CompareLimit(c) ==
    /\ pc[c] = "compare"
    /\ Goto(c, IF seen[c] >= simpleLimit THEN "idle" ELSE "add")
    /\ UNCHANGED <<inFlight, simpleLimit, seen, tokens>>

\* Fault: the loaded value is stored back instead of added to.
FaultStoreSeen(c) ==
    /\ pc[c] = "add"
    /\ inFlight' = seen[c] + 1
    /\ tokens' = tokens + 1
    /\ Goto(c, "idle")
    /\ UNCHANGED <<simpleLimit, seen>>

\* atomic.AddInt32(s.inFlight, 1), whatever inFlight has become
AddInFlight(c) ==
    /\ pc[c] = "add"
    /\ inFlight' = inFlight + 1
    /\ tokens' = tokens + 1
    /\ Goto(c, "idle")
    /\ UNCHANGED <<simpleLimit, seen>>

\* StrategyToken.Release, once per token
SimpleRelease ==
    /\ tokens > 0
    /\ inFlight' = inFlight - 1
    /\ tokens' = tokens - 1
    /\ UNCHANGED <<simpleLimit, pc, seen>>

SimpleSetLimit(r) ==
    /\ simpleLimit' = Clamp(r)
    /\ UNCHANGED <<inFlight, pc, seen, tokens>>

SimpleNext ==
    \/ \E c \in Callers : LoadInFlight(c) \/ CompareLimit(c) \/ AddInFlight(c)
    \/ SimpleRelease
    \/ \E r \in NewLimits : SimpleSetLimit(r)

SimpleSpec == SimpleInit /\ [][SimpleNext]_simpleVars

-----------------------------------------------------------------------------
\* Types of the strategy's counters and of the callers' locals; the limit is
\* never below 1.
SimpleTypeOK ==
    /\ inFlight \in Nat /\ tokens \in Nat
    /\ simpleLimit \in 1 .. MaxLimit
    /\ pc \in [Callers -> {"idle", "compare", "add"}]
    /\ seen \in [Callers -> Nat]

\* The counter is exact although callers act on stale reads of it: it is the
\* number of tokens granted and not yet released.
CountExact == inFlight = tokens

\* The overshoot of the unlocked check is bounded: the callers that passed it
\* on the same stale value exceed the largest limit by at most one each, less
\* the one who was entitled to it.
OvershootBounded == tokens <= MaxLimit + Cardinality(Callers) - 1

\* The callers who may still add to the counter.
Admitted == {c \in Callers : \/ pc[c] = "add"
                             \/ pc[c] = "compare" /\ seen[c] < MaxLimit}

\* The inductive form of OvershootBounded: the tokens granted and the grants
\* under way together stay within the bound.
OvershootInv ==
    /\ CountExact
    /\ tokens + Cardinality(Admitted) <= MaxLimit + Cardinality(Callers) - 1
=============================================================================
