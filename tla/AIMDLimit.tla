------------------------------- MODULE AIMDLimit -------------------------------
(***************************************************************************)
(* limit/aimd.go: additive increase, multiplicative decrease.  OnSample    *)
(* runs under l.mu and calls the change listeners before it returns, so it *)
(* is one step; `notified` is what a listener registered at construction   *)
(* was last told.                                                          *)
(***************************************************************************)
EXTENDS Integers

CONSTANTS InitialLimit,
          RatioNum, RatioDen,  \* backOffRatio, a fraction exact in float64
          IncreaseBy

ASSUME AIMDAssumptions ==
    /\ InitialLimit \in Int
    /\ RatioNum \in Nat /\ RatioDen \in Nat \ {0}
    /\ IncreaseBy \in Nat \ {0}   \* the constructor turns others into 1

VARIABLES limit,     \* l.limit
          notified   \* the last value the listeners were given

aimdVars == <<limit, notified>>

AIMDInit == limit = InitialLimit /\ notified = InitialLimit

Larger(a, b)  == IF a < b THEN b ELSE a
Smaller(a, b) == IF b < a THEN b ELSE a

\* Fault: the floor of 1 is forgotten.
FaultBackOff == Smaller(limit - 1, (limit * RatioNum) \div RatioDen)

\* int(max(1, min(limit - 1, limit * backOffRatio)))
BackOff == Larger(1, Smaller(limit - 1, (limit * RatioNum) \div RatioDen))

\* Fault: listeners are not told of a back-off.
FaultDropIsSilent(inFlight, didDrop) ==
    /\ limit' = IF didDrop THEN BackOff
                ELSE IF inFlight >= limit THEN limit + IncreaseBy ELSE limit
    /\ notified' = IF didDrop THEN notified ELSE limit'

\* OnSample: back off on a drop, grow when the limit was in use
AIMDOnSample(inFlight, didDrop) ==
    IF didDrop
    THEN limit' = BackOff /\ notified' = limit'
    ELSE IF inFlight >= limit
    THEN limit' = limit + IncreaseBy /\ notified' = limit'
    ELSE UNCHANGED aimdVars
=============================================================================
