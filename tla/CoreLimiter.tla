----------------------------- MODULE CoreLimiter -----------------------------
(***************************************************************************)
(* What core.Limiter promises (core/limit.go): a call of Acquire obtains a *)
(* token only while fewer tokens are outstanding than the current limit,   *)
(* and every outstanding token can be given back once, by one of the three *)
(* Listener methods.  Giving a token back may change the limit.            *)
(*                                                                         *)
(* The wrappers (BlockingLimiter, DeadlineLimiter, QueueBlockingLimiter)   *)
(* use these actions for their delegate; DefaultLimiter is shown to        *)
(* implement them.                                                         *)
(***************************************************************************)
EXTENDS Integers, FiniteSets

CONSTANTS Procs,   \* the goroutines that call the limiter
          Limits   \* the values the limit may take

VARIABLES holders, \* the goroutines that own an unreleased token
          limit    \* the concurrency limit in force

coreVars == <<holders, limit>>

\* The limiter is below its limit: Acquire would succeed.
HasCapacity == Cardinality(holders) < limit

CoreInit == holders = {} /\ limit \in Limits

\* A successful Acquire.
Acquire(p) ==
    /\ p \notin holders
    /\ HasCapacity
    /\ holders' = holders \cup {p}
    /\ UNCHANGED limit

\* Acquire returns a nil listener: the limit has been reached.
Refuse(p) == ~HasCapacity /\ UNCHANGED coreVars

\* OnSuccess, OnIgnore and OnDropped all give the token back first ...
Release(p) ==
    /\ p \in holders
    /\ holders' = holders \ {p}
    /\ UNCHANGED limit

\* ... and OnSuccess and OnDropped may then move the limit.
SetLimit(l) == limit' = l /\ UNCHANGED holders

CoreNext == \/ \E p \in Procs : Acquire(p) \/ Release(p)
            \/ \E l \in Limits : SetLimit(l)

CoreSpec == CoreInit /\ [][CoreNext]_coreVars
=============================================================================
