-------------------------- MODULE PrometheusRegistry --------------------------
(***************************************************************************)
(* metric_registry/prometheus: listeners and gauges are looked up by their *)
(* ID, but the client library knows them by a name made from it, and       *)
(* MustRegister panics when that name is taken.  Every Register method     *)
(* runs under r.mu with a deferred unlock, so it is one step, also when it *)
(* panics.  Start and Stop do nothing.                                     *)
(*                                                                         *)
(* The library lets metrics share a name if they have the same help text   *)
(* and other values of the same labels.  The help text names the ID and    *)
(* the kind of metric, and this registry registers an ID of a kind once,   *)
(* so its own metrics never share a name, whatever their tags; one of      *)
(* another registry of this package, for the same ID with other tag        *)
(* values, does share it.                                                  *)
(***************************************************************************)
EXTENDS Sequences, FiniteSets

CONSTANTS IDs,           \* the IDs that limits and strategies register
          sanitizeName,  \* the name of each ID: dots become underscores
          Foreign,       \* names that other code may register
          Alike,         \* metrics, as pairs of an ID and a kind, that other
                         \* registries may register with other tag values
          None           \* no listener

VARIABLES listeners,  \* r.registeredListeners: the type of an ID's listener
          gauges,     \* the keys of r.registeredGauges
          ours,       \* the names that this registry has in the registerer
          foreign,    \* the names that other code has there, and
          alike       \* the metrics of other registries of this package

vars == <<listeners, gauges, ours, foreign, alike>>

Suffix == [distribution |-> "", timing |-> "_ms", count |-> "_total", gauge |-> ""]

Name(id, type) == sanitizeName[id] \o Suffix[type]

Init ==
    /\ listeners = [id \in IDs |-> None]
    /\ gauges = {}
    /\ ours = {}
    /\ foreign = {}
    /\ alike = {}

\* The name is taken by a metric that this one cannot share it with.
Taken(id, type) ==
    \/ Name(id, type) \in ours \cup foreign
    \/ \E m \in alike \ {<<id, type>>} : Name(m[1], m[2]) = Name(id, type)

\* MustRegister goes through
MustRegister(id, type) ==
    /\ ~Taken(id, type)
    /\ ours' = ours \cup {Name(id, type)}

\* MustRegister panics
Panics(id, type) == Taken(id, type) /\ UNCHANGED ours

\* Fault: the listener is remembered before its summary is registered.
FaultRegister(id, type) ==
    \/ listeners[id] # None /\ UNCHANGED vars
    \/ /\ listeners[id] = None
       /\ MustRegister(id, type) \/ Panics(id, type)
       /\ listeners' = [listeners EXCEPT ![id] = type]
       /\ UNCHANGED <<gauges, foreign, alike>>

\* RegisterDistribution, RegisterTiming, RegisterCount: an ID that is known
\* gets its listener, whatever its type; a panic leaves the map as it was
Register(id, type) ==
    \/ listeners[id] # None /\ UNCHANGED vars
    \/ /\ listeners[id] = None
       /\ MustRegister(id, type)
       /\ listeners' = [listeners EXCEPT ![id] = type]
       /\ UNCHANGED <<gauges, foreign, alike>>
    \/ /\ listeners[id] = None
       /\ Panics(id, type)
       /\ UNCHANGED <<listeners, gauges, foreign, alike>>

RegisterGauge(id) ==
    \/ id \in gauges /\ UNCHANGED vars
    \/ /\ id \notin gauges
       /\ MustRegister(id, "gauge")
       /\ gauges' = gauges \cup {id}
       /\ UNCHANGED <<listeners, foreign, alike>>
    \/ /\ id \notin gauges
       /\ Panics(id, "gauge")
       /\ UNCHANGED <<listeners, gauges, foreign, alike>>

\* The metrics that this registry keeps
Entries == {<<id, listeners[id]>> : id \in {i \in IDs : listeners[i] # None}}
             \cup {<<id, "gauge">> : id \in gauges}

\* other code registers with the same prometheus.Registerer, ...
RegisterForeign(name) ==
    /\ name \notin ours \cup foreign /\ \A m \in alike : Name(m[1], m[2]) # name
    /\ foreign' = foreign \cup {name}
    /\ UNCHANGED <<listeners, gauges, ours, alike>>

\* ... or another registry of this package does
RegisterAlike(m) ==
    /\ Name(m[1], m[2]) \notin foreign
    /\ \A e \in Entries \cup alike : Name(e[1], e[2]) = Name(m[1], m[2]) => e = m
    /\ alike' = alike \cup {m}
    /\ UNCHANGED <<listeners, gauges, ours, foreign>>

Next ==
    \/ \E id \in IDs, type \in {"distribution", "timing", "count"} : Register(id, type)
    \/ \E id \in IDs : RegisterGauge(id)
    \/ \E name \in Foreign : RegisterForeign(name)
    \/ \E m \in Alike : RegisterAlike(m)

Spec == Init /\ [][Next]_vars

-----------------------------------------------------------------------------
\* Every listener and gauge that the registry hands out or keeps is exported
\* under a name of its own: different IDs of one name do not share it, with this
\* registry or another, and a registration that panicked half-way leaves nothing
\* that is not exported.
EntriesExported ==
    /\ ours = {Name(e[1], e[2]) : e \in Entries}
    /\ Cardinality(ours) = Cardinality(Entries)
    /\ ours \cap foreign = {}
    /\ \A m \in alike : Name(m[1], m[2]) \in ours => m \in Entries
=============================================================================
