---------------------------- MODULE MetricRegistry ----------------------------
(***************************************************************************)
(* metric_registry/datadog and metric_registry/gometrics, which are built  *)
(* alike: goroutines that poll the registered gauges, and the constructors *)
(* of limits that register a gauge and three sample listeners with it      *)
(* (core.NewCommonMetricSampler).                                          *)
(*                                                                         *)
(* A gauge's supplier is a limit's EstimatedLimit, which waits while       *)
(* OnSample holds the limit's mutex; the poller waits for it with the      *)
(* registry's mutex held.  The map of listeners is used without the mutex. *)
(* Listeners of one ID are interchangeable (they hold the client or the    *)
(* instrument, the ID and its type), so the map is the set of its keys.    *)
(***************************************************************************)
EXTENDS Integers, FiniteSets

CONSTANTS Clients,  \* the goroutines that build limits, start and stop
          Silent,   \* those whose supplier is not a limit of the library and
                    \* answers "not ok"
          Names,    \* the names of limits
          Pollers,  \* bound: the goroutines that Start may spawn
          None      \* nobody, nothing

VARIABLES mu,         \* the goroutine that holds r.mu
          started,    \* r.started
          stopper,    \* r.stopper holds a message
          gauges,     \* r.registeredGauges: the supplier (its limit) of a name
          listeners,  \* the keys of r.registeredListeners
          pc,         \* where each client is
          building,   \* the name of the limit a client builds or has built ...
          metric,     \* ... and the metric it registers
          poller,     \* where each goroutine of Start is in run
          left,       \* local: the gauges still to be polled in this round
          sampling,   \* the limits whose mutex OnSample holds
          aborted,    \* the runtime has stopped the process
          flushed     \* history: the suppliers flushed in the round under way

vars == <<mu, started, stopper, gauges, listeners, pc, building, metric, poller,
          left, sampling, aborted, flushed>>

clientVars   == <<pc, building, metric>>
pollerVars   == <<poller, left, flushed>>
registryVars == <<started, stopper, gauges, listeners>>

Goto(c, label) == pc' = [pc EXCEPT ![c] = label]

\* the listeners of CommonMetricSampler, in the order of their registration
NextMetric == [rtt |-> "dropped", dropped |-> "inflight", inflight |-> "end"]

Live == {p \in Pollers : poller[p] # "none"}

Init ==
    /\ mu = None /\ started = FALSE /\ stopper = FALSE
    /\ gauges = [n \in Names |-> None]
    /\ listeners = {}
    /\ pc = [c \in Clients |-> "idle"]
    /\ building = [c \in Clients |-> None] /\ metric = [c \in Clients |-> "end"]
    /\ poller = [p \in Pollers |-> "none"] /\ left = [p \in Pollers |-> {}]
    /\ sampling = {} /\ aborted = FALSE
    /\ flushed = {}

-----------------------------------------------------------------------------
(* Start and Stop *)

CallStart(c) ==
    /\ pc[c] = "idle"
    /\ Cardinality(Live \cup {d \in Clients : pc[d] = "start"}) < Cardinality(Pollers)
    /\ Goto(c, "start")
    /\ UNCHANGED <<mu, registryVars, building, metric, pollerVars, sampling>>

\* Start: wg.Add(1) and go run(), unless started, which nothing sets
Start(c) ==
    /\ pc[c] = "start" /\ mu = None
    /\ IF started THEN UNCHANGED poller
       ELSE \E p \in Pollers \ Live : poller' = [poller EXCEPT ![p] = "select"]
    /\ Goto(c, "idle")
    /\ UNCHANGED <<mu, registryVars, building, metric, left, flushed, sampling>>

CallStop(c) ==
    /\ pc[c] = "idle"
    /\ Goto(c, "stop")
    /\ UNCHANGED <<mu, registryVars, building, metric, pollerVars, sampling>>

StopLock(c) ==
    /\ pc[c] = "stop" /\ mu = None
    /\ mu' = c
    /\ Goto(c, "stopping")
    /\ UNCHANGED <<registryVars, building, metric, pollerVars, sampling>>

\* With r.mu held: nothing if the registry was not started, else r.stopper <- true,
\* which waits while the channel holds a message, and then r.wg.Wait().
StopUnlock(c) ==
    /\ pc[c] \in {"stopping", "waiting"}
    /\ IF pc[c] = "stopping" /\ started
       THEN /\ ~stopper /\ stopper' = TRUE
            /\ Goto(c, "waiting")
            /\ UNCHANGED <<mu, started>>
       ELSE /\ pc[c] = "waiting" => Live = {}
            /\ started' = FALSE
            /\ mu' = None
            /\ Goto(c, "idle")
            /\ UNCHANGED stopper
    /\ UNCHANGED <<gauges, listeners, building, metric, pollerVars, sampling>>

-----------------------------------------------------------------------------
(* run *)

\* the select: a tick, or a message in r.stopper, after which the goroutine ends
Select(p) ==
    /\ poller[p] = "select"
    /\ \E next \in {"lock"} \cup (IF stopper THEN {"none"} ELSE {}) :
        /\ poller' = [poller EXCEPT ![p] = next]
        /\ stopper' = (stopper /\ next = "lock")
    /\ UNCHANGED <<mu, started, gauges, listeners, clientVars, left, flushed, sampling>>

\* r.mu.Lock() and the start of the loop over the gauges
PollLock(p) ==
    /\ poller[p] = "lock" /\ mu = None
    /\ mu' = p
    /\ poller' = [poller EXCEPT ![p] = "poll"]
    /\ left' = [left EXCEPT ![p] = {n \in Names : gauges[n] # None}]
    /\ UNCHANGED <<registryVars, clientVars, flushed, sampling>>

\* Fault: a supplier without a value ends the round.
FaultPollGauge(p) ==
    /\ poller[p] = "poll"
    /\ \E n \in left[p] :
        /\ gauges[n] \notin sampling
        /\ left' = [left EXCEPT ![p] = IF gauges[n] \in Silent THEN {} ELSE @ \ {n}]
        /\ flushed' = flushed \cup ({gauges[n]} \ Silent)
    /\ UNCHANGED <<mu, registryVars, clientVars, poller, sampling>>

\* g.poll(), in the map's arbitrary order; a value that is not ok is skipped
PollGauge(p) ==
    /\ poller[p] = "poll"
    /\ \E n \in left[p] :
        /\ gauges[n] \notin sampling
        /\ left' = [left EXCEPT ![p] = @ \ {n}]
        /\ flushed' = flushed \cup ({gauges[n]} \ Silent)
    /\ UNCHANGED <<mu, registryVars, clientVars, poller, sampling>>

\* Fault: a round that found no value to flush returns before the unlock.
FaultPollUnlock(p) ==
    /\ poller[p] = "poll" /\ left[p] = {}
    /\ mu' = IF flushed = {} /\ \E n \in Names : gauges[n] # None THEN mu ELSE None
    /\ poller' = [poller EXCEPT ![p] = "select"]
    /\ flushed' = {}
    /\ UNCHANGED <<registryVars, clientVars, left, sampling>>

PollUnlock(p) ==
    /\ poller[p] = "poll" /\ left[p] = {}
    /\ mu' = None
    /\ poller' = [poller EXCEPT ![p] = "select"]
    /\ flushed' = {}
    /\ UNCHANGED <<registryVars, clientVars, left, sampling>>

-----------------------------------------------------------------------------
(* The constructor of a limit: core.NewCommonMetricSampler *)

\* bound: each client builds one limit
CallNewLimit(c, n) ==
    /\ pc[c] = "idle" /\ building[c] = None
    /\ building' = [building EXCEPT ![c] = n]
    /\ metric' = [metric EXCEPT ![c] = "rtt"]
    /\ Goto(c, "gauge")
    /\ UNCHANGED <<mu, registryVars, pollerVars, sampling>>

\* RegisterGauge: a name that is taken keeps its first supplier
RegisterGauge(c) ==
    /\ pc[c] = "gauge" /\ mu = None
    /\ gauges' = IF gauges[building[c]] # None THEN gauges
                 ELSE [gauges EXCEPT ![building[c]] = c]
    /\ Goto(c, "check")
    /\ UNCHANGED <<mu, started, stopper, listeners, building, metric, pollerVars,
                   sampling>>

\* the next registration of the constructor, or its return
Registered(c) ==
    /\ metric' = [metric EXCEPT ![c] = NextMetric[@]]
    /\ Goto(c, IF metric'[c] = "end" THEN "idle" ELSE "check")

ID(c) == <<building[c], metric[c]>>

\* RegisterTiming, RegisterCount, RegisterDistribution: the look-up ...
CheckListener(c) ==
    /\ pc[c] = "check"
    /\ IF ID(c) \in listeners THEN Registered(c)
       ELSE Goto(c, "insert") /\ UNCHANGED metric
    /\ UNCHANGED <<mu, registryVars, building, pollerVars, sampling>>

\* ... and the assignment
InsertListener(c) ==
    /\ pc[c] = "insert"
    /\ listeners' = listeners \cup {ID(c)}
    /\ Registered(c)
    /\ UNCHANGED <<mu, started, stopper, gauges, building, pollerVars, sampling>>

\* An assignment to the map while another goroutine reads or writes it: the
\* runtime may notice ("concurrent map writes") and stop the process.
Abort(c, d) ==
    /\ c # d /\ pc[c] = "insert" /\ pc[d] \in {"check", "insert"}
    /\ aborted' = TRUE
    /\ UNCHANGED <<mu, registryVars, clientVars, pollerVars, sampling>>

\* OnSample of c's limit: CommonMetricSampler.Sample adds to the listeners, which
\* take no lock of the registry, under the limit's mutex
BeginSample(c) ==
    /\ c \notin sampling /\ \E n \in Names : gauges[n] = c
    /\ pc[c] \notin {"check", "insert"}
    /\ sampling' = sampling \cup {c}
    /\ UNCHANGED <<mu, registryVars, clientVars, pollerVars>>

EndSample(c) ==
    /\ c \in sampling
    /\ sampling' = sampling \ {c}
    /\ UNCHANGED <<mu, registryVars, clientVars, pollerVars>>

-----------------------------------------------------------------------------
\* the steps of a call under way; some of them wait for r.mu
ClientStep(c) ==
    \/ Start(c) \/ StopLock(c) \/ StopUnlock(c)
    \/ RegisterGauge(c) \/ CheckListener(c) \/ InsertListener(c)

PollerStep(p) == Select(p) \/ PollLock(p) \/ PollGauge(p) \/ PollUnlock(p)

Step ==
    \/ \E c \in Clients :
        \/ CallStart(c) \/ CallStop(c) \/ \E n \in Names : CallNewLimit(c, n)
        \/ ClientStep(c)
        \/ BeginSample(c) \/ EndSample(c)
    \/ \E p \in Pollers : PollerStep(p)

Next ==
    \/ ~aborted /\ Step /\ UNCHANGED aborted
    \/ ~aborted /\ \E c, d \in Clients : Abort(c, d)
    \/ aborted /\ UNCHANGED vars

Spec == Init /\ [][Next]_vars

Running(A) == ~aborted /\ A /\ UNCHANGED aborted

\* The scheduler runs every goroutine inside the registry.  sync.Mutex and
\* sync.RWMutex do not starve a waiter, ticks keep coming, and OnSample ends.
Fairness ==
    /\ \A c \in Clients : SF_vars(Running(ClientStep(c))) /\ WF_vars(Running(EndSample(c)))
    /\ \A p \in Pollers : SF_vars(Running(PollerStep(p)))

FairSpec == Spec /\ Fairness

-----------------------------------------------------------------------------
\* Nobody waits for ever in the registry: whatever the pollers do with r.mu
\* held, and however long their suppliers wait for the limits, every Start,
\* Stop and registration returns, unless the runtime ends the process.
CallsReturn == \A c \in Clients : pc[c] # "idle" ~> pc[c] = "idle" \/ aborted

\* While a goroutine polls, every gauge with a value is flushed again and
\* again, in round after round: no other gauge, supplier or call keeps it from
\* being reported.
GaugesPublished ==
    \A n \in Names :
        gauges[n] \notin Silent \cup {None} /\ Live # {}
            ~> gauges[n] \in flushed \/ aborted

\* "Stop will gracefully stop the registry": when it returns, no goroutine
\* polls any more.
StopEndsPolling ==
    [][\A c \in Clients :
        pc[c] \in {"stopping", "waiting"} /\ pc'[c] = "idle" => Live' = {}]_vars
=============================================================================
