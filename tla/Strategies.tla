------------------------------ MODULE Strategies ------------------------------
(***************************************************************************)
(* The strategies: SimpleStrategy and PreciseStrategy, used directly by    *)
(* several goroutines, LookupPartitionStrategy and                         *)
(* PredicatePartitionStrategy.  The program picks one; the others keep     *)
(* their initial state.                                                    *)
(***************************************************************************)
EXTENDS SimpleStrategy, LookupPartitionStrategy, Sequences

CONSTANTS None,            \* nobody holds the mutex of PreciseStrategy
          PredRequests,    \* the requests, the partitions and the percentages
          PredPartitions,  \* that PredicatePartitionStrategy is used with
          PredQuarters,
          Contexts,        \* the contexts of requests, as the predicates see them
          Matches,         \* the contexts each partition's predicate accepts
          InitialList      \* the partitions its constructor is given

ASSUME PreciseAssumption == None \notin Callers

ASSUME PredicateAssumptions ==
    /\ IsFiniteSet(PredRequests)
    /\ Nothing \notin PredPartitions
    /\ PredQuarters \in [PredPartitions -> 0 .. 4]
    /\ Matches \in [PredPartitions -> SUBSET Contexts]
    /\ InitialList \in Seq(PredPartitions) \ {<<>>}

VARIABLES kind,                                       \* the strategy in use
          preciseInFlight, preciseLimit,              \* the fields of
          preciseMu, precisePc,                       \* PreciseStrategy
          predBusy, predLimit, predPBusy, predPLimit, \* the fields of
          predTaken, predPartitions, predAsked        \* PredicatePartitionStrategy

precise == INSTANCE PreciseStrategy
             WITH Procs <- Callers, Requested <- NewLimits,
                  inFlight <- preciseInFlight, limit <- preciseLimit,
                  mu <- preciseMu, pc <- precisePc

predicate == INSTANCE PredicatePartitionStrategy
  WITH Requests <- PredRequests, Partitions <- PredPartitions,
       Quarters <- PredQuarters,
       busy <- predBusy, limit <- predLimit, pBusy <- predPBusy,
       pLimit <- predPLimit, taken <- predTaken, partitions <- predPartitions,
       asked <- predAsked

preciseVars == <<preciseInFlight, preciseLimit, preciseMu, precisePc>>
predVars    == <<predBusy, predLimit, predPBusy, predPLimit, predTaken, predPartitions,
                 predAsked>>
allVars     == <<simpleVars, preciseVars, vars, predVars, kind>>

StrategiesInit ==
    /\ kind \in {"simple", "precise", "lookup", "predicate"}
    /\ SimpleInit /\ precise!Init /\ Init /\ predicate!Init

StrategiesNext ==
    /\ \/ kind = "simple" /\ SimpleNext
          /\ UNCHANGED <<preciseVars, vars, predVars>>
       \/ kind = "precise" /\ precise!Next
          /\ UNCHANGED <<simpleVars, vars, predVars>>
       \/ kind = "lookup" /\ Next
          /\ UNCHANGED <<simpleVars, preciseVars, predVars>>
       \/ kind = "predicate" /\ predicate!Next
          /\ UNCHANGED <<simpleVars, preciseVars, vars>>
    /\ UNCHANGED kind

StrategiesSpec == StrategiesInit /\ [][StrategiesNext]_allVars

-----------------------------------------------------------------------------
\* The mutex keeps the plain counters of precise.go and predicate_partition.go
\* equal to the tokens outstanding, while limits move and partitions are removed
\* and added again under their holders.
LockedCountersExact == precise!CountExact /\ predicate!BusyExact

\* precise.go implements the limiter contract: no token above the limit in
\* force, also while the limit moves and other tokens are returned.
PreciseImplementsCore == precise!ImplementsCore

\* TryAcquire of predicate_partition.go charges the first partition that
\* accepts the request's context and no other, however the list has changed.
FirstMatchCharged == predicate!FirstMatchCharged
=============================================================================
