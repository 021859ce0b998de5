-------------------------------- MODULE Limits --------------------------------
(***************************************************************************)
(* The limit algorithms and the registries they report to: an AIMDLimit    *)
(* behind a WindowedLimit, a VegasLimit, a GradientLimit, a Gradient2Limit,*)
(* limits that register with a polling registry (Datadog, go-metrics), or  *)
(* with the Prometheus one.  Each is a system of its own: one of them      *)
(* runs, the others keep their initial state.                              *)
(***************************************************************************)
EXTENDS WindowedLimit

CONSTANTS None,
          VegasInitial, VegasMax, ProbeMultiplier, Jitters,    \* VegasLimit
          VegasRTTs, VegasInFlights,
          Unit, SmoothNum, SmoothDen,                          \* both gradients
          GradInitial, GradMin, GradMax, Tolerance,            \* GradientLimit
          GradBaseline, ProbeInterval, GradRTTs, GradInFlights,
          G2Initial, G2Min, G2Max, G2QueueSize,                \* Gradient2Limit
          LongWindow, WarmupWindow, G2RTTs, G2InFlights,
          Clients, Silent, Names, Pollers,                     \* MetricRegistry
          IDs, sanitizeName, Foreign, Alike                    \* PrometheusRegistry

\* The constructors replace what they do not accept; jitters are in units of 1/4.
ASSUME VegasAssumptions ==
    /\ VegasInitial \in Nat \ {0} /\ VegasMax \in Nat
    /\ ProbeMultiplier \in Nat \ {0} /\ Jitters \subseteq 2 .. 3
    /\ VegasRTTs \subseteq Nat

\* The smoothing is a fraction; ProbeDisabled is -1.
ASSUME GradientAssumptions ==
    /\ Unit \in Nat \ {0} /\ SmoothDen \in Nat \ {0} /\ SmoothNum \in 0 .. SmoothDen
    /\ GradInitial \in Nat \ {0} /\ GradMin \in Nat \ {0} /\ GradMax \in Nat \ {0}
    /\ Tolerance \in Nat /\ GradBaseline \in Int
    /\ ProbeInterval \in (Nat \ {0}) \cup {-1}
    /\ GradRTTs \subseteq Nat /\ GradInFlights \subseteq Nat

\* The constructor refuses a minimum above the maximum, but not a long window of
\* 0 or 1.
ASSUME Gradient2Assumptions ==
    /\ G2Initial \in Nat \ {0} /\ G2Min \in Nat \ {0} /\ G2Max \in Nat \ {0}
    /\ G2Min <= G2Max
    /\ G2QueueSize \in Int
    /\ LongWindow \in Nat /\ WarmupWindow \in Nat \ {0}
    /\ G2RTTs \subseteq Nat /\ G2InFlights \subseteq Nat

ASSUME PrometheusAssumption ==
    /\ None \notin {"distribution", "timing", "count"}
    /\ Alike \subseteq IDs \X {"distribution", "timing", "count", "gauge"}

VARIABLES kind,                                   \* the system that runs
          vegasLimit, vegasNotified, vegasNoLoad, \* the fields of VegasLimit,
          vegasJitter, vegasCount, vegasSeen,
          gradEstimate, gradNotified, gradNoLoad, \* of GradientLimit,
          gradCountdown, gradSeen,
          g2Estimate, g2Notified, g2Long,         \* of Gradient2Limit,
          g2Sum, g2Count, g2Seen,
          mu, started, stopper, gauges, listeners, pc,  \* of MetricRegistry
          building, metric, poller, left, sampling,
          aborted, flushed,
          promListeners, promGauges, promOurs,          \* and Prometheus
          promForeign, promAlike

vegasVars == <<vegasLimit, vegasNotified, vegasNoLoad, vegasJitter, vegasCount,
               vegasSeen>>
gradVars  == <<gradEstimate, gradNotified, gradNoLoad, gradCountdown, gradSeen>>
g2Vars    == <<g2Estimate, g2Notified, g2Long, g2Sum, g2Count, g2Seen>>
registryVars == <<mu, started, stopper, gauges, listeners, pc, building, metric,
                  poller, left, sampling, aborted, flushed>>
promVars  == <<promListeners, promGauges, promOurs, promForeign, promAlike>>
limitsVars == <<vars, vegasVars, gradVars, g2Vars, registryVars, promVars, kind>>

vegas == INSTANCE VegasLimit
  WITH InitialLimit <- VegasInitial, MaxLimit <- VegasMax,
       RTTs <- VegasRTTs, InFlights <- VegasInFlights,
       limit <- vegasLimit, notified <- vegasNotified, noLoad <- vegasNoLoad,
       probeJitter <- vegasJitter, probeCount <- vegasCount, seen <- vegasSeen

gradient == INSTANCE GradientLimit
  WITH InitialLimit <- GradInitial, MinLimit <- GradMin, MaxLimit <- GradMax,
       Baseline <- GradBaseline, RTTs <- GradRTTs, InFlights <- GradInFlights,
       estimate <- gradEstimate, notified <- gradNotified, noLoad <- gradNoLoad,
       countdown <- gradCountdown, seen <- gradSeen

gradient2 == INSTANCE Gradient2Limit
  WITH InitialLimit <- G2Initial, MinLimit <- G2Min, MaxLimit <- G2Max,
       QueueSize <- G2QueueSize, RTTs <- G2RTTs, InFlights <- G2InFlights,
       estimate <- g2Estimate, notified <- g2Notified, long <- g2Long,
       sum <- g2Sum, count <- g2Count, seen <- g2Seen

registry == INSTANCE MetricRegistry

prometheus == INSTANCE PrometheusRegistry
  WITH listeners <- promListeners, gauges <- promGauges,
       ours <- promOurs, foreign <- promForeign, alike <- promAlike

LimitsInit ==
    /\ kind \in {"windowed", "vegas", "gradient", "gradient2", "registry", "prometheus"}
    /\ Init /\ vegas!Init /\ gradient!Init /\ gradient2!Init
    /\ registry!Init /\ prometheus!Init

LimitsNext ==
    /\ \/ kind = "windowed" /\ Next
          /\ UNCHANGED <<vegasVars, gradVars, g2Vars, registryVars, promVars>>
       \/ kind = "vegas" /\ vegas!Next
          /\ UNCHANGED <<vars, gradVars, g2Vars, registryVars, promVars>>
       \/ kind = "gradient" /\ gradient!Next
          /\ UNCHANGED <<vars, vegasVars, g2Vars, registryVars, promVars>>
       \/ kind = "gradient2" /\ gradient2!Next
          /\ UNCHANGED <<vars, vegasVars, gradVars, registryVars, promVars>>
       \/ kind = "registry" /\ registry!Next
          /\ UNCHANGED <<vars, vegasVars, gradVars, g2Vars, promVars>>
       \/ kind = "prometheus" /\ prometheus!Next
          /\ UNCHANGED <<vars, vegasVars, gradVars, g2Vars, registryVars>>
    /\ UNCHANGED kind

LimitsSpec ==
    /\ LimitsInit
    /\ [][LimitsNext]_limitsVars
    /\ registry!Fairness

-----------------------------------------------------------------------------
\* vegas.go, gradient.go and gradient2.go keep their estimate within its bounds
\* whatever the samples, drops and probes, and their listeners know it.
EstimatesBounded ==
    vegas!LimitBounded /\ gradient!LimitBounded /\ gradient2!LimitBounded

\* vegas.go and gradient.go measure queues against the smallest RTT since the
\* last probe, and probe again after a bounded number of samples.
BaselinesFresh == vegas!BaselineFresh /\ gradient!BaselineFresh

\* The estimate of gradient2.go becomes NaN only by windows of drops that come
\* before any other sample.
NaNOnlyFromStart == gradient2!NaNOnlyFromStart

\* The long-term RTT of gradient2.go stays within the RTTs measured.
LongWithinSeen == gradient2!LongWithinSeen

\* Every Start, Stop and registration of the polling registries returns, also
\* while a goroutine of run polls with the mutex held.
RegistryCallsReturn == registry!CallsReturn

\* While a goroutine of run polls, every gauge that has a value is flushed
\* again and again, whatever the suppliers of the others answer.
GaugesPublished == registry!GaugesPublished

\* The Prometheus registry exports every listener and gauge it keeps under a
\* name of its own, also after a panic of MustRegister.
EntriesExported == prometheus!EntriesExported
=============================================================================
