-------------------------- MODULE PartitionedStrategy --------------------------
(***************************************************************************)
(* What strategy/lookup_partition.go and strategy/predicate_partition.go   *)
(* have in common: a total counter and limit, partitions with a share of   *)
(* it, and tokens that remember the partition they were taken from.  Every *)
(* operation runs under s.mu, so each is one step.                         *)
(*                                                                         *)
(* Percentages are multiples of 1/4: exact in float64, so that math.Ceil   *)
(* of the product is the rounded-up quotient.                              *)
(***************************************************************************)
EXTENDS Integers, FiniteSetsExt

CONSTANTS Requests,    \* the requests that take and return tokens
          Partitions,  \* the partition objects (*LookupPartition, ...)
          Nothing,     \* no partition
          Quarters,    \* each partition's percent, in units of 1/4
          Requested    \* the arguments of SetLimit

ASSUME PartitionAssumptions ==
    /\ IsFiniteSet(Requests)
    /\ Nothing \notin Partitions
    /\ Quarters \in [Partitions -> 0 .. 4]
    /\ Requested \subseteq Int

VARIABLES busy,    \* s.busy
          limit,   \* s.limit
          pBusy,   \* p.busy of every partition object
          pLimit,  \* p.limit of every partition object
          taken    \* the partition each request's token was taken from

stratVars == <<busy, limit, pBusy, pLimit, taken>>

AtLeastOne(l) == IF l < 1 THEN 1 ELSE l

\* Fault: the share is rounded down.
FaultShare(total, p) == AtLeastOne((total * Quarters[p]) \div 4)

\* UpdateLimit: the share of a total limit, rounded up and at least 1
Share(total, p) == AtLeastOne((total * Quarters[p] + 3) \div 4)

\* IsLimitExceeded
IsLimitExceeded(p) == pBusy[p] >= pLimit[p]

\* Fault: a full partition still gets one token more.
FaultMayAcquire(p) == busy < limit \/ pBusy[p] <= pLimit[p]

\* TryAcquire's test: capacity is left over in total or in the partition
MayAcquire(p) == ~(busy >= limit /\ IsLimitExceeded(p))

\* s.busy++; partition.Acquire(); the token keeps the partition
Grant(r, p) ==
    /\ taken[r] = Nothing
    /\ MayAcquire(p)
    /\ busy' = busy + 1
    /\ pBusy' = [pBusy EXCEPT ![p] = @ + 1]
    /\ taken' = [taken EXCEPT ![r] = p]
    /\ UNCHANGED <<limit, pLimit>>

\* the closure of releasePartition
ReleasePartition(r) ==
    /\ taken[r] # Nothing
    /\ busy' = busy - 1
    /\ pBusy' = [pBusy EXCEPT ![taken[r]] = @ - 1]
    /\ taken' = [taken EXCEPT ![r] = Nothing]
    /\ UNCHANGED <<limit, pLimit>>

\* Fault: the partitions hear only of a limit that grows.
FaultSetLimitOf(members, l) ==
    /\ limit' = AtLeastOne(l)
    /\ pLimit' = IF limit' <= limit THEN pLimit
                 ELSE [p \in Partitions |-> IF p \in members THEN Share(limit', p)
                                            ELSE pLimit[p]]
    /\ UNCHANGED <<busy, pBusy, taken>>

\* SetLimit: a limit that did not change leaves the partitions alone
SetLimitOf(members, l) ==
    /\ limit' = AtLeastOne(l)
    /\ pLimit' = IF limit' = limit THEN pLimit
                 ELSE [p \in Partitions |-> IF p \in members THEN Share(limit', p)
                                            ELSE pLimit[p]]
    /\ UNCHANGED <<busy, pBusy, taken>>

\* Nothing is in flight when the strategy is built.
NoTokens ==
    /\ busy = 0
    /\ pBusy = [p \in Partitions |-> 0]
    /\ taken = [r \in Requests |-> Nothing]

-----------------------------------------------------------------------------
Taking(p) == {r \in Requests : taken[r] = p}
InFlight  == {r \in Requests : taken[r] # Nothing}

\* Types of the counters, the limits and the outstanding tokens.
StrategyTypeOK ==
    /\ busy \in Nat
    /\ limit \in Int
    /\ pBusy \in [Partitions -> Nat]
    /\ pLimit \in [Partitions -> Nat \ {0}]
    /\ taken \in [Requests -> Partitions \cup {Nothing}]

\* No counter drifts while partitions come and go: the total is the number of
\* outstanding tokens, and every partition, removed ones included, counts
\* exactly the tokens that were taken from it.
BusyExact ==
    /\ busy = Cardinality(InFlight)
    /\ \A p \in Partitions : pBusy[p] = Cardinality(Taking(p))
=============================================================================
