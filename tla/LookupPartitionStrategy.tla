------------------------ MODULE LookupPartitionStrategy ------------------------
(***************************************************************************)
(* strategy/lookup_partition.go: partitions under names, and one for the   *)
(* requests whose name is not in the map.                                  *)
(***************************************************************************)
EXTENDS PartitionedStrategy

CONSTANTS Names,        \* what lookupFunc may return
          Unknown,      \* s.unknownPartition
          InitialNames, \* the map the constructor is given: names ...
          InitialMap,   \* ... and their partitions
          CtorLimits    \* the limit arguments of the constructors

ASSUME LookupAssumptions ==
    /\ Unknown \in Partitions /\ Quarters[Unknown] = 0
    /\ InitialNames \subseteq Names /\ InitialNames # {}
    /\ InitialMap \in [InitialNames -> Partitions \ {Unknown}]
    /\ CtorLimits \subseteq Int

\* A program makes finitely many partitions, and its limits are machine integers.
ASSUME FiniteAssumption ==
    IsFiniteSet(Partitions) /\ IsFiniteSet(Requested) /\ IsFiniteSet(CtorLimits)

\* the constructor's check of the sum of percentages
ASSUME PercentAssumption ==
    SumFunctionOnSet([n \in InitialNames |-> Quarters[InitialMap[n]]], InitialNames) <= 4

VARIABLE partitions   \* s.partitions

vars == <<stratVars, partitions>>

Members == {partitions[n] : n \in DOMAIN partitions}

\* The constructor updates the limits of the partitions it is given; the
\* unknown partition takes the whole limit, and the partitions that are added
\* later were constructed with a limit of their own.
Init ==
    /\ NoTokens
    /\ limit \in CtorLimits
    /\ partitions = InitialMap
    /\ \E ctor \in [Partitions -> CtorLimits] :
        pLimit = [p \in Partitions |-> IF p \in Members THEN Share(limit, p)
                                       ELSE AtLeastOne(IF p = Unknown THEN limit
                                                       ELSE ctor[p])]

\* The partition of a name.
Lookup(n) == IF n \in DOMAIN partitions THEN partitions[n] ELSE Unknown

TryAcquire(r, n) == Grant(r, Lookup(n)) /\ UNCHANGED partitions

\* Fault: a token whose partition has been removed is returned to the
\* unknown partition.
FaultReleaseUnknown(r) ==
    /\ taken[r] # Nothing
    /\ busy' = busy - 1
    /\ LET p == IF taken[r] \in Members THEN taken[r] ELSE Unknown
       IN  pBusy' = [pBusy EXCEPT ![p] = @ - 1]
    /\ taken' = [taken EXCEPT ![r] = Nothing]
    /\ UNCHANGED <<limit, pLimit, partitions>>

Release(r) == ReleasePartition(r) /\ UNCHANGED partitions

SetLimit(l) == SetLimitOf(Members, l) /\ UNCHANGED partitions

\* AddPartition refuses a name that is taken, and leaves the limit of the
\* partition as it is
AddPartition(n, p) ==
    /\ n \notin DOMAIN partitions
    /\ partitions' = [m \in DOMAIN partitions \cup {n} |->
                        IF m = n THEN p ELSE partitions[m]]
    /\ UNCHANGED stratVars

RemovePartition(n) ==
    /\ n \in DOMAIN partitions
    /\ partitions' = [m \in DOMAIN partitions \ {n} |-> partitions[m]]
    /\ UNCHANGED stratVars

Next ==
    \/ \E r \in Requests, n \in Names : TryAcquire(r, n)
    \/ \E r \in Requests : Release(r)
    \/ \E l \in Requested : SetLimit(l)
    \/ \E n \in Names, p \in Partitions \ {Unknown} : AddPartition(n, p)
    \/ \E n \in Names : RemovePartition(n)

Spec == Init /\ [][Next]_vars

-----------------------------------------------------------------------------
\* Types of the counters, the limits and the map; no limit that a partition
\* was given falls below 1.
TypeOK ==
    /\ StrategyTypeOK
    /\ DOMAIN partitions \subseteq Names
    /\ Members \subseteq Partitions \ {Unknown}

\* The limits that the strategy, and a partition, can ever have.
Totals    == {AtLeastOne(l) : l \in Requested} \cup CtorLimits
Shares(p) == {AtLeastOne(l) : l \in CtorLimits} \cup {Share(l, p) : l \in Totals}

LargestTotal == Max({AtLeastOne(l) : l \in Totals})
LargestShare == [p \in Partitions |-> Max(Shares(p))]

\* Borrowing is bounded: however partitions borrow, return, move and change
\* their limits, the tokens outstanding stay below the largest total limit
\* plus the largest shares.
BorrowingBounded == busy < LargestTotal + SumFunctionOnSet(LargestShare, Partitions)

\* The tokens of each partition that its own share covers.
Covered == [p \in Partitions |-> IF pBusy[p] < LargestShare[p] THEN pBusy[p]
                                 ELSE LargestShare[p]]

\* The inductive form of BorrowingBounded: the tokens that no share covers were
\* granted below the total limit.
BorrowingInv ==
    /\ limit \in Totals
    /\ \A p \in Partitions : pLimit[p] \in Shares(p)
    /\ busy < LargestTotal + SumFunctionOnSet(Covered, Partitions)

\* l covers the percentage of the total and at least one token, and with one token
\* less it would not.
IsShare(l, total, p) ==
    /\ l >= 1 /\ 4 * l >= total * Quarters[p]
    /\ l = 1 \/ 4 * (l - 1) < total * Quarters[p]

\* The partitions whose limit is not their share of the limit in force.
Stale == {p \in Members : ~IsShare(pLimit[p], limit, p)}

\* Every partition in use has the smallest limit that covers its percentage and
\* one token, also at small limits and at 0%.  It has the share of an outdated
\* limit, or of none, only from the time it was added until the limit next
\* changes: SetLimit's early return for an unchanged limit, and partitions that
\* come and go, never leave one that was current behind.
SharesStayCurrent ==
    [][/\ Stale' \subseteq Stale \cup (Members' \ Members)
       /\ limit' # limit => Stale' = {}]_vars

\* "Any requests not identified ... may only use excess capacity": above the
\* total limit, no token is taken from the unknown partition.
UnknownOnlyExcess ==
    [][pBusy'[Unknown] > pBusy[Unknown] => busy < limit]_vars
=============================================================================
