---------------------- MODULE PredicatePartitionStrategy ----------------------
(***************************************************************************)
(* strategy/predicate_partition.go: a list of partitions, each with a      *)
(* predicate on the request's context.  The first one that matches serves  *)
(* the request; without a match it is refused.                             *)
(***************************************************************************)
EXTENDS PartitionedStrategy, SequencesExt

CONSTANTS Contexts,    \* the contexts of requests, as the predicates see them
          Matches,     \* the contexts each partition's predicate accepts
          InitialList, \* the partitions the constructor is given, not empty
                       \* and of at most 4/4 in all
          CtorLimits   \* the limit argument of the constructor

VARIABLES partitions,  \* s.partitions
          asked        \* history: the context of the latest request granted

vars == <<stratVars, partitions, asked>>

Members == ToSet(partitions)

\* The constructor updates the limits of the partitions it is given; one that
\* is added later has a limit of 1.
Init ==
    /\ NoTokens
    /\ limit \in CtorLimits
    /\ partitions = InitialList
    /\ asked = Nothing
    /\ pLimit = [p \in Partitions |-> IF p \in Members THEN Share(limit, p) ELSE 1]

\* Fault: every partition that matches serves the request, not only the first.
FaultServes(ctx, p) == p \in Members /\ ctx \in Matches[p]

\* TryAcquire's loop reaches p and p matches
Serves(ctx, p) ==
    \E i \in DOMAIN partitions :
        /\ partitions[i] = p /\ ctx \in Matches[p]
        /\ \A j \in 1 .. i - 1 : ctx \notin Matches[partitions[j]]

TryAcquire(r, ctx) ==
    /\ \E p \in Partitions : Serves(ctx, p) /\ Grant(r, p)
    /\ asked' = ctx
    /\ UNCHANGED partitions

\* Fault: the token of a removed partition only leaves the total.
FaultReleaseRemoved(r) ==
    /\ taken[r] # Nothing
    /\ busy' = busy - 1
    /\ pBusy' = IF taken[r] \in Members THEN [pBusy EXCEPT ![taken[r]] = @ - 1]
                ELSE pBusy
    /\ taken' = [taken EXCEPT ![r] = Nothing]
    /\ UNCHANGED <<limit, pLimit, partitions, asked>>

Release(r) == ReleasePartition(r) /\ UNCHANGED <<partitions, asked>>

SetLimit(l) == SetLimitOf(Members, l) /\ UNCHANGED <<partitions, asked>>

\* AddPartition compares pointers, and leaves the limit of p as it is
AddPartition(p) ==
    /\ p \notin Members
    /\ partitions' = Append(partitions, p)
    /\ UNCHANGED <<stratVars, asked>>

\* a removal that matches nothing changes nothing
RemovePartitionsMatching(ctx) ==
    /\ partitions' = SelectSeq(partitions, LAMBDA p : ctx \notin Matches[p])
    /\ UNCHANGED <<stratVars, asked>>

Next ==
    \/ \E r \in Requests, ctx \in Contexts : TryAcquire(r, ctx)
    \/ \E r \in Requests : Release(r)
    \/ \E l \in Requested : SetLimit(l)
    \/ \E p \in Partitions : AddPartition(p)
    \/ \E ctx \in Contexts : RemovePartitionsMatching(ctx)

Spec == Init /\ [][Next]_vars

-----------------------------------------------------------------------------
\* The partitions of the list that are tried before the one at position i.
Ahead(i) == {partitions[j] : j \in 1 .. i - 1}

\* A request is charged to the first partition that accepts its context, as the
\* list is at that moment, and to no other: a partition whose counter grows
\* accepts the context of the request, and none ahead of it does.
FirstMatchCharged ==
    [][\A p \in Partitions : pBusy'[p] > pBusy[p] =>
        /\ asked' \in Matches[p]
        /\ \E i \in DOMAIN partitions :
            /\ partitions[i] = p
            /\ \A q \in Ahead(i) : asked' \notin Matches[q]]_vars
=============================================================================
