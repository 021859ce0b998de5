--------------------------- MODULE StrategiesProofs ---------------------------
(***************************************************************************)
(* Proofs about the strategies, for every set of callers, requests, names, *)
(* partitions and limits: SimpleStrategy, LookupPartitionStrategy, and     *)
(* PreciseStrategy and PredicatePartitionStrategy as Strategies uses them. *)
(***************************************************************************)
EXTENDS Strategies, SumTheorems

(* SimpleStrategy: types, the exact count and the bound on the overshoot. *)

\* NewSimpleStrategy starts with well-typed counters.
LEMMA SimpleInitTypes == SimpleInit => SimpleTypeOK
  BY CallersAssumption, NewLimitsAssumption DEF SimpleInit, SimpleTypeOK, Clamp

\* Every atomic operation of the strategy keeps TypeOK and the exact count.
LEMMA SimpleStepTypes == SimpleTypeOK /\ CountExact /\ [SimpleNext]_simpleVars => SimpleTypeOK' /\ CountExact'
<1> SUFFICES ASSUME SimpleTypeOK, CountExact, [SimpleNext]_simpleVars
             PROVE  SimpleTypeOK' /\ CountExact'
    OBVIOUS
<1> USE DEF SimpleTypeOK, CountExact
<1>1. ASSUME NEW c \in Callers, LoadInFlight(c) PROVE SimpleTypeOK' /\ CountExact'
      BY <1>1 DEF LoadInFlight, Goto
<1>2. ASSUME NEW c \in Callers, CompareLimit(c) PROVE SimpleTypeOK' /\ CountExact'
      BY <1>2 DEF CompareLimit, Goto
<1>3. ASSUME NEW c \in Callers, AddInFlight(c) PROVE SimpleTypeOK' /\ CountExact'
      BY <1>3 DEF AddInFlight, Goto
<1>4. CASE SimpleRelease
      BY <1>4 DEF SimpleRelease
<1>5. ASSUME NEW r \in NewLimits, SimpleSetLimit(r) PROVE SimpleTypeOK' /\ CountExact'
      BY <1>5, NewLimitsAssumption DEF SimpleSetLimit, Clamp
<1>6. CASE UNCHANGED simpleVars
      BY <1>6 DEF simpleVars
<1> QED BY <1>1, <1>2, <1>3, <1>4, <1>5, <1>6 DEF SimpleNext

\* The strategy's counters keep their types and the limit stays at least 1.
THEOREM SimpleTypeCorrect == SimpleSpec => []SimpleTypeOK
<1>1. SimpleInit => SimpleTypeOK /\ CountExact
      BY SimpleInitTypes DEF SimpleInit, CountExact
<1> QED BY <1>1, SimpleStepTypes, PTL DEF SimpleSpec

\* AddInt32 by stale callers never loses or invents a token.
THEOREM CounterIsExact == SimpleSpec => []CountExact
<1>1. SimpleInit => SimpleTypeOK /\ CountExact
      BY SimpleInitTypes DEF SimpleInit, CountExact
<1> QED BY <1>1, SimpleStepTypes, PTL DEF SimpleSpec

-----------------------------------------------------------------------------
\* The callers that may still add to the counter are a finite set, no larger
\* than the set of callers.
LEMMA AdmittedFinite ==
    /\ IsFiniteSet(Admitted) /\ Cardinality(Admitted) \in Nat
    /\ Cardinality(Callers) \in Nat
    /\ Cardinality(Admitted) <= Cardinality(Callers)
<1>1. Admitted \subseteq Callers
      BY DEF Admitted
<1> QED BY <1>1, CallersAssumption, FS_Subset, FS_CardinalityType

\* No caller has been let through before the first call.
LEMMA InitOvershoot == SimpleInit => OvershootInv
<1> SUFFICES ASSUME SimpleInit PROVE OvershootInv
    OBVIOUS
<1>1. Admitted = {}
      BY DEF SimpleInit, Admitted
<1>2. Cardinality(Admitted) = 0
      BY <1>1, FS_EmptySet
<1>3. MaxLimit >= 1
      BY NewLimitsAssumption DEF SimpleInit, Clamp
<1> QED BY <1>2, <1>3, AdmittedFinite, NewLimitsAssumption
        DEF SimpleInit, OvershootInv, CountExact

\* A step that lets no new caller through and grants no token keeps the bound.
LEMMA ShrinkKeeps ==
    ASSUME SimpleTypeOK, OvershootInv, Admitted' \subseteq Admitted, tokens' \in Nat,
           tokens' <= tokens, CountExact'
    PROVE  OvershootInv'
<1>1. Cardinality(Admitted') \in Nat /\ Cardinality(Admitted') <= Cardinality(Admitted)
      BY AdmittedFinite, FS_Subset, FS_CardinalityType
<1>2. tokens + Cardinality(Admitted) <= MaxLimit + Cardinality(Callers) - 1
      BY DEF OvershootInv
<1> QED BY <1>1, <1>2, AdmittedFinite, NewLimitsAssumption DEF SimpleTypeOK, OvershootInv

\* Every atomic operation keeps the bound on granted and pending tokens.
LEMMA StepOvershoot == SimpleTypeOK /\ OvershootInv /\ [SimpleNext]_simpleVars => OvershootInv'
<1> SUFFICES ASSUME SimpleTypeOK, OvershootInv, [SimpleNext]_simpleVars
             PROVE  OvershootInv'
    OBVIOUS
<1>0. SimpleTypeOK' /\ CountExact /\ CountExact'
      BY SimpleStepTypes DEF OvershootInv
<1>t. tokens \in Nat /\ tokens' \in Nat /\ MaxLimit \in Nat
      BY <1>0, NewLimitsAssumption DEF SimpleTypeOK
<1>1. ASSUME NEW c \in Callers, LoadInFlight(c) PROVE OvershootInv'
  <2>1. CASE inFlight < MaxLimit
    <3>1. Admitted' \subseteq Callers
          BY DEF Admitted
    <3>2. /\ Cardinality(Admitted') \in Nat
          /\ Cardinality(Admitted') <= Cardinality(Callers)
          BY <3>1, CallersAssumption, FS_Subset, FS_CardinalityType
    <3>3. tokens' = tokens /\ tokens < MaxLimit
          BY <2>1, <1>0, <1>1 DEF LoadInFlight, CountExact
    <3> QED BY <3>2, <3>3, <1>0, <1>t, AdmittedFinite DEF OvershootInv
  <2>2. CASE ~(inFlight < MaxLimit)
    <3>1. Admitted' \subseteq Admitted
          BY <2>2, <1>1 DEF LoadInFlight, Goto, Admitted, SimpleTypeOK
    <3> QED BY <3>1, <1>0, <1>1, <1>t, ShrinkKeeps DEF LoadInFlight
  <2> QED BY <2>1, <2>2
<1>2. ASSUME NEW c \in Callers, CompareLimit(c) PROVE OvershootInv'
  <2>1. Admitted' \subseteq Admitted
        BY <1>2, <1>t DEF CompareLimit, Goto, Admitted, SimpleTypeOK
  <2> QED BY <2>1, <1>0, <1>2, <1>t, ShrinkKeeps DEF CompareLimit
<1>3. ASSUME NEW c \in Callers, AddInFlight(c) PROVE OvershootInv'
  <2>1. c \in Admitted /\ Admitted' = Admitted \ {c}
        BY <1>3 DEF AddInFlight, Goto, Admitted, SimpleTypeOK
  <2>2. Cardinality(Admitted') = Cardinality(Admitted) - 1
        BY <2>1, AdmittedFinite, FS_RemoveElement
  <2>3. tokens' = tokens + 1
        BY <1>3 DEF AddInFlight
  <2> QED BY <2>2, <2>3, <1>0, <1>t, AdmittedFinite DEF OvershootInv
<1>4. CASE SimpleRelease
  <2>1. Admitted' = Admitted
        BY <1>4 DEF SimpleRelease, Admitted
  <2>2. tokens' <= tokens
        BY <1>4, <1>t DEF SimpleRelease
  <2> QED BY <2>1, <2>2, <1>0, <1>t, ShrinkKeeps
<1>5. ASSUME NEW r \in NewLimits, SimpleSetLimit(r) PROVE OvershootInv'
  <2>1. Admitted' = Admitted /\ tokens' = tokens
        BY <1>5 DEF SimpleSetLimit, Admitted
  <2> QED BY <2>1, <1>0, <1>t, ShrinkKeeps
<1>6. CASE UNCHANGED simpleVars
  <2>1. Admitted' = Admitted /\ tokens' = tokens
        BY <1>6 DEF simpleVars, Admitted
  <2> QED BY <2>1, <1>0, <1>t, ShrinkKeeps
<1> QED BY <1>1, <1>2, <1>3, <1>4, <1>5, <1>6 DEF SimpleNext

\* Unlocked callers exceed the limit by less than their number, for every
\* number of callers and whatever limits are set meanwhile.
THEOREM OvershootIsBounded == SimpleSpec => []OvershootBounded
<1>1. SimpleTypeOK /\ OvershootInv => OvershootBounded
  <2> SUFFICES ASSUME SimpleTypeOK, OvershootInv PROVE OvershootBounded
      OBVIOUS
  <2> QED BY AdmittedFinite, NewLimitsAssumption
          DEF SimpleTypeOK, OvershootInv, OvershootBounded
<1> QED BY <1>1, SimpleTypeCorrect, InitOvershoot, StepOvershoot, PTL DEF SimpleSpec

-----------------------------------------------------------------------------
(* LookupPartitionStrategy: types, and counters that never drift while partitions
   are added and removed under the tokens taken from them. *)

\* The requests whose token is out, and those whose token was taken from q, when
\* t tells for every request in R the partition that it holds a token of.
Out(t, R, N)  == {x \in R : t[x] # N}
From(t, R, q) == {x \in R : t[x] = q}

\* From t to u the request r is granted a token and nothing else changes.
Charged(t, u, R, N, r) ==
    r \in R /\ t[r] = N /\ u[r] # N /\ \A x \in R \ {r} : u[x] = t[x]

\* Charging the token of r to a partition adds one to the tokens outstanding and
\* to those of the partition.
LEMMA TokenCharged ==
  ASSUME NEW R, IsFiniteSet(R), NEW N, NEW t, NEW u, NEW r, Charged(t, u, R, N, r)
  PROVE  /\ Cardinality(Out(t, R, N)) \in Nat
         /\ Cardinality(Out(u, R, N)) = Cardinality(Out(t, R, N)) + 1
         /\ \A q : q # N =>
              /\ Cardinality(From(t, R, q)) \in Nat
              /\ Cardinality(From(u, R, q)) =
                   Cardinality(From(t, R, q)) + (IF q = u[r] THEN 1 ELSE 0)
<1> USE DEF Out, From, Charged
<1>1. \A S : S \subseteq R => IsFiniteSet(S) /\ Cardinality(S) \in Nat
      BY FS_Subset, FS_CardinalityType
<1>2. Out(u, R, N) = Out(t, R, N) \cup {r}
      OBVIOUS
<1>3. Cardinality(Out(u, R, N)) = Cardinality(Out(t, R, N)) + 1
      BY <1>1, <1>2, FS_AddElement
<1>4. ASSUME NEW q, q = u[r]
      PROVE  Cardinality(From(u, R, q)) = Cardinality(From(t, R, q)) + 1
  <2>1. From(u, R, q) = From(t, R, q) \cup {r}
        BY <1>4
  <2>2. r \notin From(t, R, q)
        BY <1>4
  <2> QED BY <1>1, <2>1, <2>2, FS_AddElement
<1>5. ASSUME NEW q, q # N, q # u[r]
      PROVE  From(u, R, q) = From(t, R, q)
      BY <1>5
<1>6. \A q : Cardinality(From(t, R, q)) \in Nat
      BY <1>1
<1>7. ASSUME NEW q, q # N
      PROVE  Cardinality(From(u, R, q)) =
               Cardinality(From(t, R, q)) + (IF q = u[r] THEN 1 ELSE 0)
  <2> HIDE DEF From
  <2>1. CASE q = u[r]
        BY <1>4, <2>1
  <2>2. CASE q # u[r]
        BY <1>5, <1>6, <1>7, <2>2
  <2> QED BY <2>1, <2>2
<1>8. Cardinality(Out(t, R, N)) \in Nat
      BY <1>1
<1> QED BY <1>3, <1>6, <1>7, <1>8

\* Every share is at least 1.
LEMMA ShareType ==
    ASSUME NEW total \in Int, NEW p \in Partitions
    PROVE  Share(total, p) \in Nat \ {0} /\ AtLeastOne(total) \in Nat \ {0}
<1>1. Quarters[p] \in Int
      BY PartitionAssumptions
<1>2. total * Quarters[p] + 3 \in Int
      BY <1>1
<1>3. (total * Quarters[p] + 3) \div 4 \in Int
      BY <1>2
<1> QED BY <1>3 DEF Share, AtLeastOne

\* The sets that BusyExact counts, before and after a step.
LEMMA TokenSets ==
    /\ InFlight = Out(taken, Requests, Nothing)
    /\ InFlight' = Out(taken', Requests, Nothing)
    /\ \A q : /\ Taking(q) = From(taken, Requests, q)
             /\ Taking(q)' = From(taken', Requests, q)
  BY DEF InFlight, Taking, Out, From

\* Granting a token adds it to the total and to its partition, and to no other.
LEMMA GrantExact ==
    ASSUME StrategyTypeOK, BusyExact, NEW r \in Requests, NEW p \in Partitions,
           Grant(r, p)
    PROVE  StrategyTypeOK' /\ BusyExact'
<1>1. StrategyTypeOK'
      BY DEF StrategyTypeOK, Grant
<1>2. taken'[r] = p /\ Charged(taken, taken', Requests, Nothing, r)
      BY PartitionAssumptions DEF StrategyTypeOK, Grant, Charged
<1>3. /\ Cardinality(InFlight') = Cardinality(InFlight) + 1
      /\ \A q : q # Nothing =>
           /\ Cardinality(Taking(q)) \in Nat
           /\ Cardinality(Taking(q)') = Cardinality(Taking(q)) + (IF q = p THEN 1 ELSE 0)
      BY <1>2, TokenCharged, TokenSets, PartitionAssumptions
<1>4. BusyExact'
      BY <1>3, PartitionAssumptions DEF BusyExact, Grant, StrategyTypeOK
<1> QED BY <1>1, <1>4

\* Returning one takes it from both.
LEMMA ReleaseExact ==
    ASSUME StrategyTypeOK, BusyExact, NEW r \in Requests, ReleasePartition(r)
    PROVE  StrategyTypeOK' /\ BusyExact'
<1> DEFINE p == taken[r]
<1>1. /\ p \in Partitions
      /\ Charged(taken', taken, Requests, Nothing, r)
      BY DEF StrategyTypeOK, ReleasePartition, Charged
<1>2. /\ Cardinality(InFlight') \in Nat
      /\ Cardinality(InFlight) = Cardinality(InFlight') + 1
      /\ \A q : q # Nothing =>
           /\ Cardinality(Taking(q)') \in Nat
           /\ Cardinality(Taking(q)) = Cardinality(Taking(q)') + (IF q = p THEN 1 ELSE 0)
      BY <1>1, TokenCharged, TokenSets, PartitionAssumptions
<1>3. busy' = Cardinality(InFlight')
      BY <1>2 DEF BusyExact, ReleasePartition
<1>4. ASSUME NEW q \in Partitions PROVE pBusy'[q] = Cardinality(Taking(q)')
      BY <1>1, <1>2, PartitionAssumptions DEF BusyExact, ReleasePartition, StrategyTypeOK
<1>5. BusyExact'
      BY <1>3, <1>4 DEF BusyExact
<1>6. pBusy' \in [Partitions -> Nat]
  <2>1. \A q \in Partitions : pBusy'[q] \in Nat
        BY <1>2, <1>4, PartitionAssumptions
  <2>2. pBusy' = [q \in Partitions |-> pBusy'[q]]
        BY DEF ReleasePartition, StrategyTypeOK
  <2> QED BY <2>1, <2>2
<1>7. StrategyTypeOK'
      BY <1>2, <1>3, <1>6 DEF StrategyTypeOK, ReleasePartition
<1> QED BY <1>5, <1>7

\* A step that touches neither counters nor tokens keeps the counters exact.
LEMMA QuietExact ==
    ASSUME BusyExact, UNCHANGED <<busy, pBusy, taken>>
    PROVE  BusyExact'
  BY DEF BusyExact, InFlight, Taking

\* The constructor builds a well-typed strategy with no token out.
LEMMA LookupInitExact == Init => TypeOK /\ BusyExact
<1> SUFFICES ASSUME Init PROVE TypeOK /\ BusyExact
    OBVIOUS
<1>1. Members \subseteq Partitions \ {Unknown} /\ DOMAIN partitions \subseteq Names
      BY LookupAssumptions DEF Init, Members
<1>2. limit \in Int
      BY LookupAssumptions DEF Init
<1>3. pLimit \in [Partitions -> Nat \ {0}]
  <2>1. PICK ctor \in [Partitions -> CtorLimits] :
          pLimit = [p \in Partitions |-> IF p \in Members THEN Share(limit, p)
                                         ELSE AtLeastOne(IF p = Unknown THEN limit
                                                         ELSE ctor[p])]
        BY DEF Init
  <2>2. \A p \in Partitions : ctor[p] \in Int
        BY LookupAssumptions
  <2>3. \A p \in Partitions : pLimit[p] \in Nat \ {0}
        BY <2>1, <2>2, <1>2, ShareType
  <2> QED BY <2>1, <2>3
<1>4. InFlight = {} /\ \A p \in Partitions : Taking(p) = {}
      BY PartitionAssumptions DEF Init, NoTokens, InFlight, Taking
<1> QED BY <1>1, <1>2, <1>3, <1>4, FS_EmptySet
        DEF Init, NoTokens, TypeOK, StrategyTypeOK, BusyExact

\* Every operation of the strategy keeps types and counters.
LEMMA LookupStepExact == TypeOK /\ BusyExact /\ [Next]_vars => TypeOK' /\ BusyExact'
<1> SUFFICES ASSUME TypeOK, BusyExact, [Next]_vars
             PROVE  TypeOK' /\ BusyExact'
    OBVIOUS
<1> USE DEF TypeOK
<1>1. ASSUME NEW r \in Requests, NEW n \in Names, TryAcquire(r, n)
      PROVE  TypeOK' /\ BusyExact'
  <2>1. Lookup(n) \in Partitions
        BY LookupAssumptions DEF Lookup, Members
  <2>2. StrategyTypeOK' /\ BusyExact'
        BY <1>1, <2>1, GrantExact DEF TryAcquire
  <2> QED BY <1>1, <2>2 DEF TryAcquire, Members
<1>2. ASSUME NEW r \in Requests, Release(r) PROVE TypeOK' /\ BusyExact'
  <2>1. StrategyTypeOK' /\ BusyExact'
        BY <1>2, ReleaseExact DEF Release
  <2> QED BY <1>2, <2>1 DEF Release, Members
<1>3. ASSUME NEW l \in Requested, SetLimit(l) PROVE TypeOK' /\ BusyExact'
  <2>0. l \in Int
        BY PartitionAssumptions
  <2>1. limit' \in Int
        BY <1>3, <2>0 DEF SetLimit, SetLimitOf, AtLeastOne
  <2>2. pLimit' \in [Partitions -> Nat \ {0}]
        BY <1>3, <2>1, ShareType DEF SetLimit, SetLimitOf, StrategyTypeOK
  <2>3. StrategyTypeOK'
        BY <1>3, <2>1, <2>2 DEF SetLimit, SetLimitOf, StrategyTypeOK
  <2>4. BusyExact'
        BY <1>3, QuietExact DEF SetLimit, SetLimitOf
  <2> QED BY <1>3, <2>3, <2>4 DEF SetLimit, Members
<1>4. ASSUME NEW n \in Names, NEW p \in Partitions \ {Unknown}, AddPartition(n, p)
      PROVE  TypeOK' /\ BusyExact'
  <2>1. BusyExact' /\ StrategyTypeOK'
        BY <1>4, QuietExact DEF AddPartition, stratVars, StrategyTypeOK
  <2>2. DOMAIN partitions' \subseteq Names /\ Members' \subseteq Members \cup {p}
        BY <1>4 DEF AddPartition, Members
  <2> QED BY <2>1, <2>2
<1>5. ASSUME NEW n \in Names, RemovePartition(n) PROVE TypeOK' /\ BusyExact'
  <2>1. BusyExact' /\ StrategyTypeOK'
        BY <1>5, QuietExact DEF RemovePartition, stratVars, StrategyTypeOK
  <2>2. DOMAIN partitions' \subseteq Names /\ Members' \subseteq Members
        BY <1>5 DEF RemovePartition, Members
  <2> QED BY <2>1, <2>2
<1>6. CASE UNCHANGED vars
  <2>1. BusyExact' /\ StrategyTypeOK'
        BY <1>6, QuietExact DEF vars, stratVars, StrategyTypeOK
  <2> QED BY <1>6, <2>1 DEF vars, Members
<1> QED BY <1>1, <1>2, <1>3, <1>4, <1>5, <1>6 DEF Next

\* The strategy's fields keep their types; no partition's limit is below 1.
THEOREM LookupTypeCorrect == Spec => []TypeOK
  BY LookupInitExact, LookupStepExact, PTL DEF Spec

\* Tokens taken from a partition are counted there until they are returned,
\* also when it has been removed, or put under another name, in between.
THEOREM LookupCountersNeverDrift == Spec => []BusyExact
  BY LookupInitExact, LookupStepExact, PTL DEF Spec
-----------------------------------------------------------------------------
\* What SharesStayCurrent says of one step.
SharesStep ==
    /\ Stale' \subseteq Stale \cup (Members' \ Members)
    /\ limit' # limit => Stale' = {}

\* A step that touches neither the limit nor the shares makes none stale: the
\* members that are stale afterwards were so before, or were not members.
LEMMA QuietShares ==
    ASSUME UNCHANGED <<limit, pLimit>>
    PROVE  SharesStep
  BY DEF SharesStep, Stale, IsShare

\* UpdateLimit computes the smallest limit that covers the percentage.
LEMMA ShareIsSmallest ==
    ASSUME NEW total \in Int, NEW p \in Partitions
    PROVE  IsShare(Share(total, p), total, p)
<1> DEFINE x == total * Quarters[p]
<1>1. x \in Int
      BY PartitionAssumptions
<1> HIDE DEF x
<1>2. /\ (x + 3) \div 4 \in Int
      /\ 4 * ((x + 3) \div 4) >= x /\ 4 * ((x + 3) \div 4 - 1) < x
      BY <1>1
<1>3. Share(total, p) = AtLeastOne((x + 3) \div 4)
      BY DEF Share, x
<1>4. IsShare(Share(total, p), total, p) <=>
        /\ Share(total, p) >= 1 /\ 4 * Share(total, p) >= x
        /\ Share(total, p) = 1 \/ 4 * (Share(total, p) - 1) < x
      BY DEF IsShare, x
<1> QED BY <1>1, <1>2, <1>3, <1>4 DEF AtLeastOne

\* SetLimit updates the share of every member, unless the limit is the same.
LEMMA SetLimitShares ==
    ASSUME TypeOK, NEW l \in Requested, SetLimit(l)
    PROVE  SharesStep
<1>1. Members' = Members /\ Members \subseteq Partitions
      BY DEF SetLimit, Members, TypeOK
<1>2. CASE limit' = limit
  <2>1. UNCHANGED <<limit, pLimit>>
        BY <1>2 DEF SetLimit, SetLimitOf
  <2> QED BY <2>1, QuietShares
<1>3. CASE limit' # limit
  <2>1. \A p \in Members : pLimit'[p] = Share(limit', p)
        BY <1>1, <1>3 DEF SetLimit, SetLimitOf
  <2>2. limit' \in Int
        BY PartitionAssumptions DEF SetLimit, SetLimitOf, AtLeastOne
  <2>3. \A p \in Members : IsShare(pLimit'[p], limit', p)
        BY <1>1, <2>1, <2>2, ShareIsSmallest
  <2>4. Stale' = {}
        BY <1>1, <2>3 DEF Stale, IsShare
  <2> QED BY <2>4 DEF SharesStep
<1> QED BY <1>2, <1>3

\* Only AddPartition brings in a partition whose limit is not its share, and
\* the next change of the limit corrects it, for every set of partitions.
THEOREM SharesFollowLimit == Spec => SharesStayCurrent
<1>1. TypeOK /\ [Next]_vars => [SharesStep]_vars
  <2> SUFFICES ASSUME TypeOK, Next PROVE SharesStep
      OBVIOUS
  <2>1. ASSUME NEW r \in Requests, NEW n \in Names, TryAcquire(r, n) PROVE SharesStep
        BY <2>1, QuietShares DEF TryAcquire, Grant
  <2>2. ASSUME NEW r \in Requests, Release(r) PROVE SharesStep
        BY <2>2, QuietShares DEF Release, ReleasePartition
  <2>3. ASSUME NEW l \in Requested, SetLimit(l) PROVE SharesStep
        BY <2>3, SetLimitShares
  <2>4. ASSUME NEW n \in Names, NEW p \in Partitions \ {Unknown}, AddPartition(n, p)
        PROVE  SharesStep
        BY <2>4, QuietShares DEF AddPartition, stratVars
  <2>5. ASSUME NEW n \in Names, RemovePartition(n) PROVE SharesStep
        BY <2>5, QuietShares DEF RemovePartition, stratVars
  <2> QED BY <2>1, <2>2, <2>3, <2>4, <2>5 DEF Next
<1> QED BY <1>1, LookupTypeCorrect, PTL DEF Spec, SharesStayCurrent, SharesStep
-----------------------------------------------------------------------------
(* The bound on borrowing. *)

\* There are finitely many limits to choose the largest from.
LEMMA LimitsFinite ==
    /\ IsFiniteSet(Totals) /\ Totals \subseteq Int
    /\ IsFiniteSet({AtLeastOne(l) : l \in Totals})
    /\ \A p \in Partitions : /\ IsFiniteSet(Shares(p))
                             /\ \A s \in Shares(p) : s \in Nat \ {0}
<1> DEFINE clamp == [l \in Int |-> AtLeastOne(l)]
<1>1. \A S : S \subseteq Int => {AtLeastOne(l) : l \in S} = {clamp[l] : l \in S}
      OBVIOUS
<1> HIDE DEF clamp
<1>2. ASSUME NEW S, S \subseteq Int, IsFiniteSet(S)
      PROVE  IsFiniteSet({AtLeastOne(l) : l \in S})
  <2>1. {AtLeastOne(l) : l \in S} = {clamp[l] : l \in S}
        BY <1>1, <1>2
  <2>2. IsFiniteSet({clamp[l] : l \in S})
        BY <1>2, FiniteImage
  <2> QED BY <2>1, <2>2
<1>3. Requested \subseteq Int /\ CtorLimits \subseteq Int
      BY PartitionAssumptions, LookupAssumptions
<1>4. \A l \in Int : AtLeastOne(l) \in Nat \ {0}
      BY DEF AtLeastOne
<1> DEFINE clamped == {AtLeastOne(l) : l \in Requested}
<1>5. IsFiniteSet(Totals) /\ Totals \subseteq Int
  <2>1. IsFiniteSet(clamped)
        BY <1>2, <1>3, FiniteAssumption
  <2>2. clamped \subseteq Int
        BY <1>3, <1>4
  <2>3. Totals = clamped \cup CtorLimits
        BY DEF Totals
  <2> HIDE DEF clamped
  <2> QED BY <1>3, <2>1, <2>2, <2>3, FiniteAssumption, FS_Union
<1>6. ASSUME NEW p \in Partitions
      PROVE  IsFiniteSet(Shares(p)) /\ \A s \in Shares(p) : s \in Nat \ {0}
  <2> DEFINE share == [l \in Int |-> Share(l, p)]
  <2>1. \A l \in Totals : Share(l, p) = share[l]
        BY <1>5
  <2> HIDE DEF share
  <2>2. IsFiniteSet({Share(l, p) : l \in Totals})
    <3>1. {Share(l, p) : l \in Totals} = {share[l] : l \in Totals}
          BY <2>1
    <3> QED BY <1>5, <3>1, FiniteImage
  <2>3. \A l \in Totals : Share(l, p) \in Nat \ {0}
        BY <1>5, ShareType
  <2> QED BY <1>2, <1>3, <1>4, <2>2, <2>3, FiniteAssumption, FS_Union DEF Shares
<1> QED BY <1>2, <1>5, <1>6

\* The largest limits bound the others and are at least 1.
LEMMA LargestFacts ==
    ASSUME NEW l \in Totals
    PROVE  /\ LargestTotal \in Nat \ {0} /\ l <= LargestTotal /\ l \in Int
           /\ \A p \in Partitions : /\ LargestShare[p] \in Nat \ {0}
                                    /\ \A s \in Shares(p) : s <= LargestShare[p]
<1>1. \A k \in Int : AtLeastOne(k) \in Nat \ {0} /\ k <= AtLeastOne(k)
      BY DEF AtLeastOne
<1>2. LargestTotal \in Nat \ {0} /\ l <= LargestTotal /\ l \in Int
  <2> DEFINE S == {AtLeastOne(k) : k \in Totals}
  <2>1. IsFiniteSet(S) /\ S # {} /\ \A x \in S : x \in Int
        BY <1>1, LimitsFinite
  <2>2. AtLeastOne(l) \in S /\ \A x \in S : x \in Nat \ {0}
        BY <1>1, LimitsFinite
  <2> HIDE DEF S
  <2>3. Max(S) \in S /\ \A x \in S : x <= Max(S)
        BY <2>1, MaxMinFacts
  <2>4. LargestTotal = Max(S)
        BY DEF LargestTotal, S
  <2>5. l \in Int
        BY LimitsFinite
  <2> QED BY <1>1, <2>2, <2>3, <2>4, <2>5
<1>3. ASSUME NEW p \in Partitions
      PROVE  LargestShare[p] \in Nat \ {0} /\ \A s \in Shares(p) : s <= LargestShare[p]
  <2>1. Shares(p) # {} /\ IsFiniteSet(Shares(p)) /\ \A s \in Shares(p) : s \in Nat \ {0}
    <3>1. Share(l, p) \in Shares(p)
          BY DEF Shares
    <3> QED BY <3>1, LimitsFinite
  <2>2. \A s \in Shares(p) : s \in Int
        BY <2>1
  <2>3. Max(Shares(p)) \in Shares(p) /\ \A s \in Shares(p) : s <= Max(Shares(p))
        BY <2>1, <2>2, MaxMinFacts
  <2>4. LargestShare[p] = Max(Shares(p))
        BY DEF LargestShare
  <2> QED BY <2>1, <2>3, <2>4
<1> QED BY <1>2, <1>3


\* The part of each counter that a partition's own limit pays for is a natural
\* number, before and after a step.
LEMMA CoveredFacts ==
    ASSUME TypeOK, limit \in Totals
    PROVE  /\ \A p \in Partitions : /\ Covered[p] \in Int /\ Covered[p] \in Nat
                                    /\ LargestShare[p] \in Int
                                    /\ Covered[p] <= LargestShare[p]
           /\ SumFunctionOnSet(Covered, Partitions) \in Nat
<1>1. \A p \in Partitions : /\ Covered[p] \in Int /\ Covered[p] \in Nat
                            /\ LargestShare[p] \in Int
                            /\ Covered[p] <= LargestShare[p]
      BY LargestFacts DEF Covered, TypeOK, StrategyTypeOK
<1> QED BY <1>1, SumType, FiniteAssumption

\* The constructor starts below the bound.
LEMMA BorrowingInit == Init => BorrowingInv
<1> SUFFICES ASSUME Init PROVE BorrowingInv
    OBVIOUS
<1>1. limit \in Totals /\ limit \in CtorLimits
      BY DEF Init, Totals
<1>2. \A p \in Partitions : pLimit[p] \in Shares(p)
      BY <1>1 DEF Init, Shares
<1>3. SumFunctionOnSet(Covered, Partitions) \in Nat /\ LargestTotal \in Nat \ {0}
      BY <1>1, LookupInitExact, CoveredFacts, LargestFacts
<1> QED BY <1>1, <1>2, <1>3 DEF BorrowingInv, Init, NoTokens

\* A step that leaves the tokens alone and picks its limits from those that the
\* strategy is given keeps the bound.
LEMMA QuietBorrowing ==
    ASSUME BorrowingInv, UNCHANGED <<busy, pBusy>>, limit' \in Totals,
           \A p \in Partitions : pLimit'[p] \in Shares(p)
    PROVE  BorrowingInv'
<1>1. Covered' = Covered
      BY DEF Covered
<1> QED BY <1>1 DEF BorrowingInv

\* A token beyond the total limit is paid for by its partition, so the next one
\* stays below the bound.
LEMMA GrantBorrowing ==
    ASSUME TypeOK, TypeOK', BorrowingInv, NEW r \in Requests, NEW p \in Partitions,
           Grant(r, p)
    PROVE  BorrowingInv'
<1> DEFINE C == Covered
           D == Covered'
           sumC == SumFunctionOnSet(C, Partitions)
           sumD == SumFunctionOnSet(D, Partitions)
           rest == SumFunctionOnSet(D, Partitions \ {p})
<1>1. limit \in Totals /\ limit' = limit /\ pLimit' = pLimit
      BY DEF BorrowingInv, Grant
<1>2. /\ \A q \in Partitions : C[q] \in Int /\ D[q] \in Int /\ D[q] \in Nat
      /\ sumC \in Nat /\ sumD \in Nat
  <2>1. \A q \in Partitions : C[q] \in Int
        BY <1>1, CoveredFacts
  <2>2. \A q \in Partitions : D[q] \in Int /\ D[q] \in Nat
        BY <1>1, LargestFacts DEF Covered, TypeOK, StrategyTypeOK
  <2> HIDE DEF C, D
  <2> QED BY <2>1, <2>2, SumType, FiniteAssumption, <1>1, CoveredFacts DEF C
<1>3. \A q \in Partitions \ {p} : D[q] = C[q]
      BY DEF Covered, Grant, TypeOK, StrategyTypeOK
<1>4. /\ LargestTotal \in Nat \ {0} /\ limit <= LargestTotal /\ limit \in Int
      /\ LargestShare[p] \in Nat \ {0} /\ pLimit[p] <= LargestShare[p]
      BY <1>1, LargestFacts DEF BorrowingInv
<1>5. /\ C[p] = IF pBusy[p] < LargestShare[p] THEN pBusy[p] ELSE LargestShare[p]
      /\ D[p] = IF pBusy[p] + 1 < LargestShare[p] THEN pBusy[p] + 1 ELSE LargestShare[p]
      BY DEF Covered, Grant, TypeOK, StrategyTypeOK
<1>6. busy' = busy + 1 /\ busy < LargestTotal + sumC /\ busy \in Nat
      BY DEF Grant, BorrowingInv, TypeOK, StrategyTypeOK
<1>7. pBusy[p] \in Nat /\ pLimit[p] \in Nat /\ (busy < limit \/ pBusy[p] < pLimit[p])
      BY DEF Grant, MayAcquire, IsLimitExceeded, TypeOK, StrategyTypeOK
<1> HIDE DEF C, D
<1>8. sumD = sumC - C[p] + D[p]
      BY <1>2, <1>3, SumChange, FiniteAssumption
<1>9. sumD = D[p] + rest /\ rest \in Nat
  <2>1. IsFiniteSet(Partitions \ {p})
        BY FS_Subset, FiniteAssumption
  <2> QED BY <1>2, <2>1, SumAny, SumType, FiniteAssumption
<1>10. busy' < LargestTotal + sumD
  <2> HIDE DEF sumC, sumD, rest
  <2>1. CASE pBusy[p] < LargestShare[p]
    <3>1. D[p] = C[p] + 1
          BY <1>4, <1>5, <1>7, <2>1
    <3>2. C[p] \in Int
          BY <1>2
    <3> QED BY <1>2, <1>4, <1>6, <1>8, <3>1, <3>2
  <2>2. CASE ~(pBusy[p] < LargestShare[p])
    <3>1. D[p] >= 1 /\ D[p] \in Int
          BY <1>4, <1>5, <1>7, <2>2
    <3>2. busy < limit
          BY <1>4, <1>7, <2>2
    <3> QED BY <1>4, <1>6, <1>9, <3>1, <3>2
  <2> QED BY <2>1, <2>2
<1> QED BY <1>1, <1>10 DEF BorrowingInv, D, Shares, Totals

\* A returned token is taken from the total, and from what its partition pays
\* for at most.
LEMMA ReleaseBorrowing ==
    ASSUME TypeOK, TypeOK', BorrowingInv, NEW r \in Requests, ReleasePartition(r)
    PROVE  BorrowingInv'
<1> DEFINE p == taken[r]
           C == Covered
           D == Covered'
           sumC == SumFunctionOnSet(C, Partitions)
           sumD == SumFunctionOnSet(D, Partitions)
<1>0. p \in Partitions
      BY DEF ReleasePartition, TypeOK, StrategyTypeOK
<1>1. limit \in Totals /\ limit' = limit /\ pLimit' = pLimit
      BY DEF BorrowingInv, ReleasePartition
<1>2. \A q \in Partitions : C[q] \in Int /\ D[q] \in Int
  <2>1. \A q \in Partitions : C[q] \in Int
        BY <1>1, CoveredFacts
  <2>2. \A q \in Partitions : D[q] \in Int
        BY <1>1, LargestFacts DEF Covered, TypeOK, StrategyTypeOK
  <2> QED BY <2>1, <2>2
<1>3. \A q \in Partitions \ {p} : D[q] = C[q]
      BY <1>0 DEF Covered, ReleasePartition, TypeOK, StrategyTypeOK
<1>4. LargestTotal \in Nat \ {0} /\ LargestShare[p] \in Nat \ {0}
      BY <1>0, <1>1, LargestFacts
<1>5. /\ C[p] = IF pBusy[p] < LargestShare[p] THEN pBusy[p] ELSE LargestShare[p]
      /\ D[p] = IF pBusy[p] - 1 < LargestShare[p] THEN pBusy[p] - 1 ELSE LargestShare[p]
      BY <1>0 DEF Covered, ReleasePartition, TypeOK, StrategyTypeOK
<1>6. busy' = busy - 1 /\ busy < LargestTotal + sumC /\ busy \in Nat /\ pBusy[p] \in Nat
      BY <1>0 DEF ReleasePartition, BorrowingInv, TypeOK, StrategyTypeOK
<1>7. D[p] >= C[p] - 1
      BY <1>4, <1>5, <1>6
<1>8. C[p] \in Int /\ D[p] \in Int
      BY <1>0, <1>2
<1> HIDE DEF C, D, p
<1>9. sumD = sumC - C[p] + D[p] /\ sumC \in Int
      BY <1>0, <1>2, <1>3, SumChange, SumType, FiniteAssumption
<1> HIDE DEF sumC, sumD
<1>10. busy' < LargestTotal + sumD
      BY <1>4, <1>6, <1>7, <1>8, <1>9
<1> QED BY <1>1, <1>10 DEF BorrowingInv, D, sumD, Shares, Totals

\* Every operation keeps the bound.
LEMMA BorrowingStep == TypeOK /\ BorrowingInv /\ TypeOK' /\ [Next]_vars => BorrowingInv'
<1> SUFFICES ASSUME TypeOK, BorrowingInv, TypeOK', [Next]_vars PROVE BorrowingInv'
    OBVIOUS
<1>1. ASSUME NEW r \in Requests, NEW n \in Names, TryAcquire(r, n) PROVE BorrowingInv'
  <2>1. Lookup(n) \in Partitions
        BY LookupAssumptions DEF Lookup, TypeOK, Members
  <2> QED BY <1>1, <2>1, GrantBorrowing DEF TryAcquire
<1>2. ASSUME NEW r \in Requests, Release(r) PROVE BorrowingInv'
      BY <1>2, ReleaseBorrowing DEF Release
<1>3. ASSUME NEW l \in Requested, SetLimit(l) PROVE BorrowingInv'
  <2>1. limit' \in Totals
        BY <1>3 DEF SetLimit, SetLimitOf, Totals
  <2>2. \A p \in Partitions : pLimit'[p] \in Shares(p)
        BY <1>3, <2>1 DEF SetLimit, SetLimitOf, Shares, BorrowingInv
  <2> QED BY <1>3, <2>1, <2>2, QuietBorrowing DEF SetLimit, SetLimitOf
<1>4. CASE UNCHANGED stratVars
      BY <1>4, QuietBorrowing DEF stratVars, BorrowingInv
<1> QED BY <1>1, <1>2, <1>3, <1>4 DEF Next, AddPartition, RemovePartition, vars

\* Partitions that borrow from each other push the tokens outstanding past the
\* total limit by less than what the partitions' own limits allow, whatever
\* limits are set and partitions added and removed meanwhile.
THEOREM BorrowingIsBounded == Spec => []BorrowingBounded
<1>1. TypeOK /\ BorrowingInv => BorrowingBounded
  <2> SUFFICES ASSUME TypeOK, BorrowingInv PROVE BorrowingBounded
      OBVIOUS
  <2>1. limit \in Totals
        BY DEF BorrowingInv
  <2>2. SumFunctionOnSet(Covered, Partitions) <= SumFunctionOnSet(LargestShare, Partitions)
        BY <2>1, CoveredFacts, SumMonotone, FiniteAssumption
  <2>3. /\ SumFunctionOnSet(Covered, Partitions) \in Nat
        /\ SumFunctionOnSet(LargestShare, Partitions) \in Int
        BY <2>1, CoveredFacts, SumType, FiniteAssumption
  <2>4. LargestTotal \in Nat /\ busy \in Nat
        BY <2>1, LargestFacts DEF TypeOK, StrategyTypeOK
  <2> QED BY <2>2, <2>3, <2>4 DEF BorrowingInv, BorrowingBounded
<1> QED BY <1>1, LookupTypeCorrect, BorrowingInit, BorrowingStep, PTL DEF Spec
-----------------------------------------------------------------------------
(* PreciseStrategy: the mutex makes test and increment one step. *)

\* The mutex is held exactly between a passed test and its increment, and until
\* then the limit that was tested stays in force.
PreciseInv ==
    /\ preciseInFlight \in Int
    /\ preciseLimit \in Int
    /\ precisePc \in [Callers -> {"idle", "inc", "held"}]
    /\ preciseMu \in Callers \cup {None}
    /\ \A p \in Callers : precisePc[p] = "inc" <=> preciseMu = p
    /\ \A p \in Callers : precisePc[p] = "inc" => preciseInFlight < preciseLimit
    /\ preciseInFlight = Cardinality(precise!Holding)

\* The sets of the instances are counted by the Cardinality of this module.
LEMMA SameCardinality ==
    ASSUME NEW S
    PROVE  /\ precise!Cardinality(S) = Cardinality(S)
           /\ precise!core!Cardinality(S) = Cardinality(S)
           /\ predicate!Cardinality(S) = Cardinality(S)
  BY DEF Cardinality, precise!Cardinality, precise!core!Cardinality, predicate!Cardinality

\* The strategies that are not in use keep their state.
LEMMA OneInUse ==
    ASSUME [StrategiesNext]_allVars
    PROVE  /\ [SimpleNext]_simpleVars
           /\ [precise!Next]_(precise!vars)
           /\ [Next]_vars
           /\ [predicate!Next]_(predicate!vars)
<1> USE DEF allVars, preciseVars, predVars, precise!vars, predicate!vars, predicate!stratVars
<1>1. CASE UNCHANGED allVars
      BY <1>1
<1>2. CASE SimpleNext /\ UNCHANGED <<preciseVars, vars, predVars>>
      BY <1>2
<1>3. CASE precise!Next /\ UNCHANGED <<simpleVars, vars, predVars>>
      BY <1>3
<1>4. CASE Next /\ UNCHANGED <<simpleVars, preciseVars, predVars>>
      BY <1>4
<1>5. CASE predicate!Next /\ UNCHANGED <<simpleVars, preciseVars, vars>>
      BY <1>5
<1> QED BY <1>1, <1>2, <1>3, <1>4, <1>5 DEF StrategiesNext

\* NewPreciseStrategy starts with the mutex free and no token out.
LEMMA PreciseInvInit == precise!Init => PreciseInv /\ precise!core!CoreInit
<1> SUFFICES ASSUME precise!Init PROVE PreciseInv /\ precise!core!CoreInit
    OBVIOUS
<1>1. precise!Holding = {}
      BY DEF precise!Init, precise!Holding
<1>2. preciseLimit \in {precise!Clamp(r) : r \in NewLimits} /\ preciseLimit \in Int
      BY NewLimitsAssumption DEF precise!Init, precise!Clamp
<1>3. PreciseInv
      BY <1>1, <1>2, FS_EmptySet, PreciseAssumption DEF precise!Init, PreciseInv
<1>4. precise!core!CoreInit
      BY <1>1, <1>2 DEF precise!core!CoreInit
<1> QED BY <1>3, <1>4

\* The tokens outstanding are finitely many.
LEMMA HoldingFinite ==
    /\ IsFiniteSet(precise!Holding) /\ Cardinality(precise!Holding) \in Nat
    /\ precise!Holding \subseteq Callers
<1>1. precise!Holding \subseteq Callers
      BY DEF precise!Holding
<1> QED BY <1>1, CallersAssumption, FS_Subset, FS_CardinalityType

\* Every operation keeps the invariant and is a step of the limiter contract.
LEMMA PreciseStep ==
    PreciseInv /\ [precise!Next]_(precise!vars) =>
        PreciseInv' /\ [precise!core!CoreNext]_(precise!core!coreVars)
<1> DEFINE Kept == PreciseInv' /\ [precise!core!CoreNext]_(precise!core!coreVars)
<1> SUFFICES ASSUME PreciseInv, [precise!Next]_(precise!vars) PROVE Kept
    OBVIOUS
<1> USE DEF precise!core!coreVars, precise!core!CoreNext
<1>1. ASSUME NEW p \in Callers, precise!TestLimit(p) PROVE Kept
  <2>1. precise!Holding' = precise!Holding
        BY <1>1 DEF precise!TestLimit, precise!Goto, precise!Holding, PreciseInv
  <2>2. PreciseInv'
        BY <1>1, <2>1, PreciseAssumption DEF precise!TestLimit, precise!Goto, PreciseInv
  <2> QED BY <1>1, <2>1, <2>2 DEF precise!TestLimit
<1>2. ASSUME NEW p \in Callers, precise!Increment(p) PROVE Kept
  <2>1. p \notin precise!Holding /\ precise!Holding' = precise!Holding \cup {p}
        BY <1>2 DEF precise!Increment, precise!Goto, precise!Holding, PreciseInv
  <2>2. Cardinality(precise!Holding') = Cardinality(precise!Holding) + 1
        BY <2>1, HoldingFinite, FS_AddElement
  <2>3. \A q \in Callers : precisePc'[q] # "inc"
        BY <1>2 DEF precise!Increment, precise!Goto, PreciseInv
  <2>4. preciseMu' = None /\ preciseInFlight' = preciseInFlight + 1 /\ preciseLimit' = preciseLimit
        BY <1>2 DEF precise!Increment
  <2>5. precisePc' \in [Callers -> {"idle", "inc", "held"}]
        BY <1>2 DEF precise!Increment, precise!Goto, PreciseInv
  <2>6. PreciseInv'
        BY <2>2, <2>3, <2>4, <2>5, PreciseAssumption DEF PreciseInv
  <2>7. Cardinality(precise!Holding) < preciseLimit
        BY <1>2 DEF precise!Increment, PreciseInv
  <2>8. precise!core!Acquire(p)
        BY <2>1, <2>4, <2>7, SameCardinality DEF precise!core!Acquire, precise!core!HasCapacity
  <2> QED BY <2>6, <2>8
<1>3. ASSUME NEW p \in Callers, precise!ReleaseHandler(p) PROVE Kept
  <2>1. p \in precise!Holding /\ precise!Holding' = precise!Holding \ {p}
        BY <1>3 DEF precise!ReleaseHandler, precise!Goto, precise!Holding, PreciseInv
  <2>2. Cardinality(precise!Holding') = Cardinality(precise!Holding) - 1
        BY <2>1, HoldingFinite, FS_RemoveElement
  <2>3. \A q \in Callers : precisePc'[q] # "inc"
        BY <1>3, PreciseAssumption DEF precise!ReleaseHandler, precise!Goto, PreciseInv
  <2>4. preciseMu' = None /\ preciseInFlight' = preciseInFlight - 1 /\ preciseLimit' = preciseLimit
        BY <1>3 DEF precise!ReleaseHandler
  <2>5. precisePc' \in [Callers -> {"idle", "inc", "held"}]
        BY <1>3 DEF precise!ReleaseHandler, precise!Goto, PreciseInv
  <2>6. PreciseInv'
        BY <2>2, <2>3, <2>4, <2>5, PreciseAssumption DEF PreciseInv
  <2>7. precise!core!Release(p)
        BY <2>1, <2>4 DEF precise!core!Release
  <2> QED BY <2>6, <2>7
<1>4. ASSUME NEW r \in NewLimits, precise!SetLimit(r) PROVE Kept
  <2>1. precise!Holding' = precise!Holding
        BY <1>4 DEF precise!SetLimit, precise!Holding
  <2>2. preciseLimit' = precise!Clamp(r) /\ preciseLimit' \in Int
        BY <1>4, NewLimitsAssumption DEF precise!SetLimit, precise!Clamp
  <2>3. PreciseInv'
        BY <1>4, <2>1, <2>2, PreciseAssumption DEF precise!SetLimit, PreciseInv
  <2>4. \E l \in {precise!Clamp(k) : k \in NewLimits} : precise!core!SetLimit(l)
        BY <2>1, <2>2 DEF precise!core!SetLimit
  <2> QED BY <2>3, <2>4
<1>5. CASE UNCHANGED precise!vars
      BY <1>5 DEF precise!vars, precise!Holding, PreciseInv
<1> QED BY <1>1, <1>2, <1>3, <1>4, <1>5 DEF precise!Next

\* precise.go grants no token above the limit in force, for every number of
\* goroutines and while the limit moves: each of its steps is a step of the
\* limiter contract or changes nothing the contract sees.
THEOREM PreciseRefinesCore == StrategiesSpec => PreciseImplementsCore
<1>1. StrategiesInit => PreciseInv /\ precise!core!CoreInit
      BY PreciseInvInit DEF StrategiesInit
<1>2. PreciseInv /\ [StrategiesNext]_allVars =>
        PreciseInv' /\ [precise!core!CoreNext]_(precise!core!coreVars)
      BY PreciseStep, OneInUse
<1> QED BY <1>1, <1>2, PTL
        DEF StrategiesSpec, PreciseImplementsCore, precise!ImplementsCore, precise!core!CoreSpec
-----------------------------------------------------------------------------
(* PredicatePartitionStrategy: exact counters, and the first match charged. *)

\* Types and exact counters, as in LookupPartitionStrategy.
PredicateInv == predicate!StrategyTypeOK /\ predicate!BusyExact

\* The sets that BusyExact counts, before and after a step.
LEMMA PredicateTokenSets ==
    /\ predicate!InFlight = Out(predTaken, PredRequests, Nothing)
    /\ predicate!InFlight' = Out(predTaken', PredRequests, Nothing)
    /\ \A q : /\ predicate!Taking(q) = From(predTaken, PredRequests, q)
              /\ predicate!Taking(q)' = From(predTaken', PredRequests, q)
  BY DEF predicate!InFlight, predicate!Taking, Out, From

\* BusyExact in terms of the Cardinality of this module.
LEMMA PredicateBusyExact ==
    /\ predicate!BusyExact <=>
        /\ predBusy = Cardinality(predicate!InFlight)
        /\ \A p \in PredPartitions : predPBusy[p] = Cardinality(predicate!Taking(p))
    /\ predicate!BusyExact' <=>
        /\ predBusy' = Cardinality(predicate!InFlight')
        /\ \A p \in PredPartitions : predPBusy'[p] = Cardinality(predicate!Taking(p)')
  BY SameCardinality DEF predicate!BusyExact

\* Every share is at least 1.
LEMMA PredicateShareType ==
    ASSUME NEW total \in Int, NEW p \in PredPartitions
    PROVE  predicate!Share(total, p) \in Nat \ {0} /\ predicate!AtLeastOne(total) \in Nat \ {0}
<1>1. PredQuarters[p] \in Int
      BY PredicateAssumptions
<1>2. total * PredQuarters[p] + 3 \in Int
      BY <1>1
<1>3. (total * PredQuarters[p] + 3) \div 4 \in Int
      BY <1>2
<1> QED BY <1>3 DEF predicate!Share, predicate!AtLeastOne

\* The constructor starts with no token out.
LEMMA PredicateInvInit == predicate!Init => PredicateInv
<1> SUFFICES ASSUME predicate!Init PROVE PredicateInv
    OBVIOUS
<1>1. predLimit \in Int
      BY LookupAssumptions DEF predicate!Init
<1>2. predPLimit \in [PredPartitions -> Nat \ {0}]
      BY <1>1, PredicateShareType DEF predicate!Init
<1>3. predicate!InFlight = {} /\ \A p \in PredPartitions : predicate!Taking(p) = {}
      BY PredicateAssumptions
      DEF predicate!Init, predicate!NoTokens, predicate!InFlight, predicate!Taking
<1>4. predicate!BusyExact
      BY <1>3, FS_EmptySet, PredicateBusyExact DEF predicate!Init, predicate!NoTokens
<1> QED BY <1>1, <1>2, <1>4
        DEF PredicateInv, predicate!Init, predicate!NoTokens, predicate!StrategyTypeOK

\* Granting a token adds it to the total and to its partition, and to no other.
LEMMA PredicateGrantExact ==
    ASSUME PredicateInv, NEW r \in PredRequests, NEW p \in PredPartitions,
           predicate!Grant(r, p)
    PROVE  PredicateInv'
<1>1. predicate!StrategyTypeOK'
      BY DEF PredicateInv, predicate!StrategyTypeOK, predicate!Grant
<1>2. predTaken'[r] = p /\ Charged(predTaken, predTaken', PredRequests, Nothing, r)
      BY PredicateAssumptions DEF PredicateInv, predicate!StrategyTypeOK, predicate!Grant, Charged
<1>3. /\ Cardinality(predicate!InFlight') = Cardinality(predicate!InFlight) + 1
      /\ \A q : q # Nothing =>
           /\ Cardinality(predicate!Taking(q)) \in Nat
           /\ Cardinality(predicate!Taking(q)') =
                Cardinality(predicate!Taking(q)) + (IF q = p THEN 1 ELSE 0)
      BY <1>2, TokenCharged, PredicateTokenSets, PredicateAssumptions
<1>4. predBusy' = Cardinality(predicate!InFlight')
      BY <1>3, PredicateBusyExact DEF PredicateInv, predicate!Grant
<1>5. ASSUME NEW q \in PredPartitions PROVE predPBusy'[q] = Cardinality(predicate!Taking(q)')
  <2>1. predPBusy'[q] = predPBusy[q] + (IF q = p THEN 1 ELSE 0) /\ predPBusy[q] \in Nat
        BY DEF PredicateInv, predicate!Grant, predicate!StrategyTypeOK
  <2>2. predPBusy[q] = Cardinality(predicate!Taking(q))
        BY PredicateBusyExact DEF PredicateInv
  <2>3. q # Nothing
        BY PredicateAssumptions
  <2> QED BY <1>3, <2>1, <2>2, <2>3
<1> QED BY <1>1, <1>4, <1>5, PredicateBusyExact DEF PredicateInv

\* Returning one takes it from both, also when the partition was removed.
LEMMA PredicateReleaseExact ==
    ASSUME PredicateInv, NEW r \in PredRequests, predicate!ReleasePartition(r)
    PROVE  PredicateInv'
<1> DEFINE p == predTaken[r]
<1>1. p \in PredPartitions /\ Charged(predTaken', predTaken, PredRequests, Nothing, r)
      BY DEF PredicateInv, predicate!StrategyTypeOK, predicate!ReleasePartition, Charged
<1>2. /\ Cardinality(predicate!InFlight') \in Nat
      /\ Cardinality(predicate!InFlight) = Cardinality(predicate!InFlight') + 1
      /\ \A q : q # Nothing =>
           /\ Cardinality(predicate!Taking(q)') \in Nat
           /\ Cardinality(predicate!Taking(q)) =
                Cardinality(predicate!Taking(q)') + (IF q = p THEN 1 ELSE 0)
      BY <1>1, TokenCharged, PredicateTokenSets, PredicateAssumptions
<1>3. predBusy' = Cardinality(predicate!InFlight')
      BY <1>2, PredicateBusyExact DEF PredicateInv, predicate!ReleasePartition
<1>4. ASSUME NEW q \in PredPartitions PROVE predPBusy'[q] = Cardinality(predicate!Taking(q)')
  <2>1. predPBusy'[q] = predPBusy[q] - (IF q = p THEN 1 ELSE 0) /\ predPBusy[q] \in Nat
        BY <1>1 DEF PredicateInv, predicate!ReleasePartition, predicate!StrategyTypeOK
  <2>2. predPBusy[q] = Cardinality(predicate!Taking(q))
        BY PredicateBusyExact DEF PredicateInv
  <2>3. q # Nothing
        BY PredicateAssumptions
  <2> HIDE DEF p
  <2> QED BY <1>2, <2>1, <2>2, <2>3
<1>5. predPBusy' \in [PredPartitions -> Nat]
  <2>1. \A q \in PredPartitions : predPBusy'[q] \in Nat
        BY <1>2, <1>4, PredicateAssumptions
  <2>2. predPBusy' = [q \in PredPartitions |-> predPBusy'[q]]
        BY DEF PredicateInv, predicate!ReleasePartition, predicate!StrategyTypeOK
  <2> QED BY <2>1, <2>2
<1>6. predicate!StrategyTypeOK'
      BY <1>2, <1>3, <1>5
      DEF PredicateInv, predicate!StrategyTypeOK, predicate!ReleasePartition
<1> QED BY <1>3, <1>4, <1>6, PredicateBusyExact DEF PredicateInv

\* A step that touches neither counters nor tokens keeps the counters exact.
LEMMA PredicateQuietExact ==
    ASSUME PredicateInv, UNCHANGED <<predBusy, predPBusy, predTaken>>,
           predLimit' \in Int, predPLimit' \in [PredPartitions -> Nat \ {0}]
    PROVE  PredicateInv'
  BY DEF PredicateInv, predicate!StrategyTypeOK, predicate!BusyExact, predicate!InFlight,
         predicate!Taking

\* What FirstMatchCharged says of one step.
FirstMatchStep ==
    \A p \in PredPartitions : predPBusy'[p] > predPBusy[p] =>
        /\ predAsked' \in Matches[p]
        /\ \E i \in DOMAIN predPartitions :
            /\ predPartitions[i] = p
            /\ \A q \in predicate!Ahead(i) : predAsked' \notin Matches[q]

\* Every operation keeps types and counters, and charges only the first match.
LEMMA PredicateStep ==
    PredicateInv /\ [predicate!Next]_(predicate!vars) =>
        PredicateInv' /\ (UNCHANGED predicate!vars \/ FirstMatchStep)
<1> DEFINE Kept == PredicateInv' /\ (UNCHANGED predicate!vars \/ FirstMatchStep)
<1> SUFFICES ASSUME PredicateInv, [predicate!Next]_(predicate!vars) PROVE Kept
    OBVIOUS
<1>0. /\ \A p \in PredPartitions : predPBusy[p] \in Int
      /\ predLimit \in Int /\ predPLimit \in [PredPartitions -> Nat \ {0}]
      BY DEF PredicateInv, predicate!StrategyTypeOK
<1>q. UNCHANGED predPBusy => FirstMatchStep
      BY <1>0 DEF FirstMatchStep
<1>1. ASSUME NEW r \in PredRequests, NEW ctx \in Contexts, predicate!TryAcquire(r, ctx)
      PROVE  Kept
  <2>1. PICK p \in PredPartitions : predicate!Serves(ctx, p) /\ predicate!Grant(r, p)
        BY <1>1 DEF predicate!TryAcquire
  <2>2. PredicateInv'
        BY <2>1, PredicateGrantExact
  <2>3. PICK i \in DOMAIN predPartitions :
          /\ predPartitions[i] = p /\ ctx \in Matches[p]
          /\ \A j \in 1 .. i - 1 : ctx \notin Matches[predPartitions[j]]
        BY <2>1 DEF predicate!Serves
  <2>4. \A q \in PredPartitions \ {p} : ~(predPBusy'[q] > predPBusy[q])
        BY <1>0, <2>1 DEF predicate!Grant, PredicateInv, predicate!StrategyTypeOK
  <2>5. predAsked' = ctx
        BY <1>1 DEF predicate!TryAcquire
  <2>6. \A q \in predicate!Ahead(i) : ctx \notin Matches[q]
        BY <2>3 DEF predicate!Ahead
  <2>7. FirstMatchStep
        BY <2>3, <2>4, <2>5, <2>6 DEF FirstMatchStep
  <2> QED BY <2>2, <2>7
<1>2. ASSUME NEW r \in PredRequests, predicate!Release(r) PROVE Kept
  <2>1. PredicateInv'
        BY <1>2, PredicateReleaseExact DEF predicate!Release
  <2>2. \A q \in PredPartitions : ~(predPBusy'[q] > predPBusy[q])
        BY <1>0, <1>2
        DEF predicate!Release, predicate!ReleasePartition, PredicateInv, predicate!StrategyTypeOK
  <2> QED BY <2>1, <2>2 DEF FirstMatchStep
<1>3. ASSUME NEW l \in Requested, predicate!SetLimit(l) PROVE Kept
  <2>1. predLimit' \in Int
        BY <1>3, PartitionAssumptions
        DEF predicate!SetLimit, predicate!SetLimitOf, predicate!AtLeastOne
  <2>2. predPLimit' \in [PredPartitions -> Nat \ {0}]
        BY <1>0, <1>3, <2>1, PredicateShareType DEF predicate!SetLimit, predicate!SetLimitOf
  <2> QED BY <1>3, <1>q, <2>1, <2>2, PredicateQuietExact
          DEF predicate!SetLimit, predicate!SetLimitOf
<1>4. ASSUME NEW p \in PredPartitions, predicate!AddPartition(p) PROVE Kept
      BY <1>0, <1>4, <1>q, PredicateQuietExact DEF predicate!AddPartition, predicate!stratVars
<1>5. ASSUME NEW ctx \in Contexts, predicate!RemovePartitionsMatching(ctx) PROVE Kept
      BY <1>0, <1>5, <1>q, PredicateQuietExact
      DEF predicate!RemovePartitionsMatching, predicate!stratVars
<1>6. CASE UNCHANGED predicate!vars
      BY <1>0, <1>6, PredicateQuietExact DEF predicate!vars, predicate!stratVars
<1> QED BY <1>1, <1>2, <1>3, <1>4, <1>5, <1>6 DEF predicate!Next

\* The counters behind a mutex equal the tokens outstanding, for every number of
\* goroutines, requests, contexts and partitions, and while partitions are removed
\* and added again under their holders.
THEOREM LockedCountersAreExact == StrategiesSpec => []LockedCountersExact
<1>1. StrategiesInit => PreciseInv /\ PredicateInv
      BY PreciseInvInit, PredicateInvInit DEF StrategiesInit
<1>2. PreciseInv /\ PredicateInv /\ [StrategiesNext]_allVars => PreciseInv' /\ PredicateInv'
      BY PreciseStep, PredicateStep, OneInUse
<1>3. PreciseInv /\ PredicateInv => LockedCountersExact
      BY SameCardinality DEF PreciseInv, PredicateInv, LockedCountersExact, precise!CountExact
<1> QED BY <1>1, <1>2, <1>3, PTL DEF StrategiesSpec

\* TryAcquire charges the first partition of the list that accepts the request's
\* context, and no other, whatever the predicates accept and however the list changes.
THEOREM FirstMatchIsCharged == StrategiesSpec => FirstMatchCharged
<1>1. StrategiesInit => PredicateInv
      BY PredicateInvInit DEF StrategiesInit
<1>2. PredicateInv /\ [StrategiesNext]_allVars =>
        PredicateInv' /\ [FirstMatchStep]_(predicate!vars)
      BY PredicateStep, OneInUse
<1> QED BY <1>1, <1>2, PTL
        DEF StrategiesSpec, FirstMatchCharged, predicate!FirstMatchCharged, FirstMatchStep

\* Every theorem of this module about a single strategy holds of it in Strategies:
\* the strategies that are not in use do not interfere.
THEOREM StrategiesAreIndependent ==
    StrategiesSpec => SimpleSpec /\ precise!Spec /\ Spec /\ predicate!Spec
<1>1. StrategiesInit => SimpleInit /\ precise!Init /\ Init /\ predicate!Init
      BY DEF StrategiesInit
<1>2. [StrategiesNext]_allVars =>
        /\ [SimpleNext]_simpleVars /\ [precise!Next]_(precise!vars)
        /\ [Next]_vars /\ [predicate!Next]_(predicate!vars)
      BY OneInUse
<1> QED BY <1>1, <1>2, PTL DEF StrategiesSpec, SimpleSpec, Spec, precise!Spec, predicate!Spec
=============================================================================
