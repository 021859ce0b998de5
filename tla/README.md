# Verification of go-concurrency-limits

TLA+ models of the limiters, strategies, limit algorithms, integrations and
metric registries of this repository, TLC configurations that check them on small instances, and TLAPS
proofs of the safety properties, and of the refinements, for every instance.
`PROJECT.json` holds the machine-readable index: components, runs, the map
from definitions to source lines, the mutants, findings, hazards and theorems.

    tlc -workers 2 -config MCBroadcast.cfg MCBroadcastLimiter   # one run
    tlapm QueueBlockingLimiterProofs.tla                        # one module of proofs

## 1. The system

A *limiter* hands out tokens (`core.Listener`) to goroutines and takes them
back when the caller reports how its request ended: `OnSuccess`, `OnIgnore` or
`OnDropped`. A *strategy* counts the tokens against a limit. A *limit
algorithm* moves the limit according to latencies and drops. Blocking limiters
wrap another limiter and make a refused caller wait.

| part | state | operations | interacts with |
|---|---|---|---|
| `limiter/default.go` | `inFlight`, `sample`, `nextUpdateTime`, `mu` | `Acquire`; listener `OnSuccess/OnIgnore/OnDropped`, `updateLimit` | calls the strategy (`TryAcquire`, `SetLimit`, token `Release`) and the limit (`OnSample`, `EstimatedLimit`) |
| `limiter/blocking.go` | the `notify` channel, `timeout` | `Acquire` (capture, try, select, loop), `broadcastRelease` | wraps a limiter; `delegate_listener.go` calls back after every completion |
| `limiter/deadline.go` | the `notify` channel, `deadline` | as above, with the deadline checked before each attempt | as above |
| `limiter/queue_blocking.go` (`fifo_`, `lifo_`) | backlog list, `mu`, configuration | `Acquire` (try, push, select, evict), `unblock` after every completion | wraps a limiter; hands listeners over an unbuffered channel |
| `strategy/simple.go`, `precise.go` | counter, limit | `TryAcquire`, `Release`, `SetLimit` | used by the default limiter or directly |
| `strategy/lookup_partition.go`, `predicate_partition.go` | total and per-partition counters and limits, the map or list of partitions | the same, `AddPartition`, `RemovePartition(sMatching)` | `matchers` classify requests |
| `measurements/immutable_sample_window.go` | one window | `AddSample`, `AddDroppedSample`, averages | built by the default limiter and the windowed limit |
| `limit/windowed.go`, `aimd.go`, `settable.go` | window, limit, listeners | `OnSample`, `SetLimit`, `NotifyOnChange` | windowed wraps any limit |
| `limit/vegas.go`, `measurements/minimum.go` | the limit, the RTT without load, probe counter and jitter | `OnSample` | behind the default limiter |
| `limit/gradient.go`, `measurements/minimum.go`, `functions/square_root.go` | the estimate, the RTT without load, the probe countdown | `OnSample` | behind the default limiter or a window |
| `limit/gradient2.go`, `measurements/exponential_average.go`, `single.go` | the estimate, a long-term and a last RTT | `OnSample` | behind the default limiter or a window |
| `limit/fixed.go`, `traced.go`, other `measurements` | none, or a float64 filter | `OnSample` | `traced` wraps any limit; the other measurements are unused |
| `grpc`, `http` | configuration (limiters, classifiers) | acquire, wrapped call, classify, report | clients of limiters; nest through handlers, transports and invokers |
| `patterns/pool` | none of its own | `Acquire` | builds and wraps a blocking or queue limiter |
| `metric_registry/datadog`, `gometrics`, `core/metric_registry.go` | gauges and listeners by ID, `started`, `stopper`, the goroutines of `Start` | register, `Start`, `Stop`, `run` | constructors of limits, strategies and limiters register; `run` calls back the gauges' suppliers (`EstimatedLimit`) under `r.mu` |
| `metric_registry/prometheus` | gauges and listeners by ID | register | a `prometheus.Registerer` shared with other code |

What is hard here, and what would be correct:

- *Blocking and waking.* A caller is refused and goes to sleep while another
  goroutine releases. Correct: no wake-up is lost, no channel is closed twice
  (a panic), free capacity reaches a waiter, timeouts, deadlines and
  cancellation end a call.
- *The hand-over of the queue limiter.* A release acquires on behalf of a
  waiter that may be timing out. Correct: every token has exactly one owner
  and is given back once, the backlog is bounded and holds only live waiters,
  releases never block.
- *Counting without a common lock.* The default limiter's listeners change two
  counters outside the lock of `Acquire`. Correct: the counters never drift and
  the limit in force is never exceeded by an admission.
- *Stale snapshots.* `updateLimit` acts on a window and a time it read before
  it took the lock. Correct: updates are spaced and a window is used once.
- *Partitions that come and go under their tokens.* Correct: each counter is
  the number of its tokens, borrowing is bounded.
- *Interceptors that nest.* A handler that holds a token makes limited calls,
  perhaps through the same limiter or one that blocks, and may panic. Correct:
  every path returns the token to the limiter it came from, and goroutines that
  nest limiters in one order do not wait for each other.
- *A moving baseline.* Vegas measures queues against the smallest RTT since
  the last probe. Correct: probes keep coming and replace it.
- *A poller that calls back.* The goroutine of a metric registry asks every
  limit for its value with the registry's mutex held, while limits are built,
  sampled and the registry started and stopped. Correct: nobody waits for ever,
  every gauge keeps being flushed, and Stop stops.
- *Numeric edges.* Windows of drops have an RTT of 0, and the ratio of two
  zeros is NaN; estimates meet a minimum, a maximum and a queue size at once.
  The candidate RTT of a window of drops is `MaxInt64`, and
  doubled it overflows; shares are rounded up and at least 1; back-off
  truncates.

## 2. The modules

`CoreLimiter` is the abstract specification: a set of token holders, a limit,
`Acquire` below the limit, `Refuse` at it, `Release`, `SetLimit`. It is what
the blocking limiters assume of their delegate (they INSTANCE it) and what
`DefaultLimiter` and `PreciseStrategy` are shown to implement.

| module | code | how state and actions correspond |
|---|---|---|
| `ReleaseBroadcast` | shared by `blocking.go`, `deadline.go`, `delegate_listener.go` | `pc` is the position in `tryAcquire` or in the listener's method; `chan[p]` is the local channel; channels are drawn from a finite pool and reused once nobody references them. `SwapNotify` and `CloseOld` are two steps because `close` runs after the unlock |
| `BlockingLimiter` | `blocking.go` | adds the per-attempt timer; `hasTimeout` is `l.timeout > 0` |
| `DeadlineLimiter` | `deadline.go` | adds `passed` (the deadline has passed) and `late` (goroutines that began a round of the loop after it, by a call or by a wake-up) |
| `QueueBlockingLimiter` | `queue_blocking.go` | `backlog` is the list, front first; `mu`/`target` are the goroutine in `unblock` and the element it serves; `config` is the configuration. Peek, delegate acquire, evict and send are separate steps under `limiter.mu`, because pushes and evictions take only the queue's own lock |
| `DefaultLimiter` | `default.go` over `simple.go` | one action per lock section or atomic operation. The algorithm is arbitrary: an update may choose any of `Estimates` |
| `SampleWindow` | `immutable_sample_window.go` | operators on records |
| `SimpleStrategy` | `simple.go` used without a lock | load, compare, add are three actions |
| `PreciseStrategy` | `precise.go` | test and increment are two steps under `mu` |
| `PartitionedStrategy`, `LookupPartitionStrategy`, `PredicatePartitionStrategy` | the partition strategies | every operation runs under `s.mu` and is one action; `taken[r]` is the partition a request's token came from, and `asked` the context of the latest request granted by a predicate |
| `AIMDLimit`, `WindowedLimit` | `aimd.go` behind `windowed.go` | `OnSample` is one of `Discard`, `Collect`, `Report` |
| `VegasLimit` | `vegas.go`, `minimum.go`, the logarithm table | `OnSample` is one of `Probe`, `Baseline`, `Update`; with the default functions and a smoothing of 1 the estimate is an integer below 1000 |
| `GradientLimit` | `gradient.go`, `minimum.go`, the square root table | `OnSample` is `Probe` or `Update`. The float64 estimate is a fixed-point number, a multiple of 1/`Unit`, rounded down; an RTT of 0 comes only with a drop, as behind a `WindowedLimit` |
| `Gradient2Limit` | `gradient2.go`, `exponential_average.go`, `single.go` | `OnSample` is one action; fixed point as above, with `NaN` as a value that every operation hands on. The average is rounded up, so that it is 0 only if every sample was, like its float64 |
| `MetricRegistry` | `datadog/registry.go`, `gometrics/registry.go`, `core/metric_registry.go` | `pc[c]` is a goroutine in `Start`, `Stop` or the constructor of a limit (a gauge, then three listeners), `poller[p]` a goroutine of `run`; `mu` is `r.mu`, and `sampling` holds the limits whose own mutex `OnSample` has. The look-up and the assignment in the map of listeners are two unlocked steps, and `Abort` is the runtime noticing two of them at once |
| `PrometheusRegistry` | `prometheus/registry.go` | every registration is one step under `r.mu`, with the panic of `MustRegister` as one of its outcomes. `foreign` are the names that other code has in the `Registerer`, `alike` the metrics of other registries of this package, which share a name if ID and kind are the same and the tags differ |
| `Interceptors` | `http`, `grpc` | `stack[p]` is the nest of wrapped calls a goroutine is in, `calling[p]` the interceptor at its `Acquire`; results are classes of status codes or errors. `lost` counts the tokens of calls that panicked or were classified as none of the three types. A limiter of `config.waiting` makes its callers wait at the limit, until a token is free or it gives up (`Refused`); `Rank` is an order of the limiters and no state of the code |
| `SettableLimit` | `settable.go` | the atomic store and the notification under the lock are two steps |
| `Strategies` | the four strategies | composes them: the program picks one at the start (`kind`), the others keep their initial state |
| `Limits` | the windowed, Vegas and gradient limits and the registries | composes them in the same way |

`Strategies` and `Limits` are where the theorems about their components are
stated; `StrategiesAreIndependent` and `LimitsAreIndependent` prove that the
composition takes nothing from a component and adds nothing to it. The `MC*` modules fix the
constants. `MCBroadcastLimiter` runs the blocking or the deadline limiter, and
`MCStrategies` and `MCLimits` instantiate the two compositions; `MCLimits` starts
the limits that do not run with one jitter and one countdown instead of all.
`SumTheorems` holds the facts about sums and extrema of finite sets that the
proofs share. The operators named `Fault...`
are plausible bugs; `PROJECT.json` says which property each one breaks. They
are used by no specification.

## 3. The runs

| run | checks | instance |
|---|---|---|
| `broadcast_limiters` | `NoDoubleClose`, `NoLostWakeup`, `NoGrantAfterDeadline`; `CapacityReachesWaiter`, `CancelEndsCall`, `DeadlineEndsCall` | blocking (with and without timeout) or deadline limiter; 2 goroutines, limits 1 and 2 |
| `blocking_timeout` | `TimeoutEndsCall` **fails** | blocking limiter, 2 goroutines |
| `queue` | `TypeOK`, `TokensAccounted`, `BacklogBounded`, `BacklogAlive`, `ServesOldest`; `AcquireReturns`, `ReleaseReturns`, `DoneContextEndsWait` | 3 goroutines, one token; FIFO with timeout and backlog 2, LIFO with done-context eviction and backlog 1 |
| `queue_stranded` | `NoStrandedWaiter` **fails** | FIFO |
| `default_limiter` | `CountersAgree`, `ImplementsCore`, `SampledWithinLimit`, `UpdatesSpaced`, `NoStaleReport` | 2 goroutines, estimates 0 to 2, 5 ticks |
| `strategies` | `CountExact`, `OvershootBounded` for simple; `PreciseImplementsCore`; `BusyExact`, `BorrowingBounded`, `SharesStayCurrent` for lookup; `FirstMatchCharged` for predicate; `LockedCountersExact` for precise and predicate | simple and precise: 3 goroutines, limits 1 to 3; 7 requests over 3 lookup partitions; 4 requests over 3 predicates |
| `partition_unknown` | `UnknownOnlyExcess` **fails** | 3 requests |
| `limits_and_registries` | `LimitFollowsDemand`, `ListenersUpToDate`, `WindowFaithful`, `UpdatesSpaced` for AIMD behind a window; `EstimatesBounded` for Vegas and the gradients; `BaselinesFresh` for Vegas and Gradient; `NaNOnlyFromStart`, `LongWithinSeen` for Gradient2; `RegistryCallsReturn`, `GaugesPublished` for the polling registries; `EntriesExported` for Prometheus | windows of up to 3 samples around the window size; Vegas from 8 up to 12, estimates of 2 to 12; 2 goroutines that build limits, start and stop, and 2 that poll; 3 IDs of which two have one name |
| `registry_stop` | `StopEndsPolling` **fails** | the same registry |
| `windowed_drop` | `DropNeverRaises` **fails** | the same windows |
| `settable` | `LastNoticeIsCurrent` **fails** | 2 setters, 2 listeners |
| `interceptors` | `TokensAccounted`, `NoCircularWait` | 2 goroutines, 2 interceptors deep; separate limiters and default classifiers, or one limiter and custom classifiers; limiters that refuse or that wait |

Bounds, and why they are enough:

- Two goroutines are a waiter and a releaser, or two overlapping releasers;
  the safety properties of the broadcast limiters are proved for any number.
  The queue needs three: a waiter, a releaser that serves it, and another
  caller or releaser between them.
- `Channels` and `Elements` are pools with reuse. Each is larger than the
  number of references there can be, so that a fresh one always exists.
- `MaxTime` (the clock) and `MaxStall` (how long a listener's method may run)
  bound `DefaultLimiter`. `WindowSize` is scaled down from the constructor's
  minimum of 10 to 1: two successes make a window ready. `NoStaleReport`
  needs `2 * MaxStall <= MinWindowTime`; with `MaxStall = 2` TLC finds a
  goroutine that stalls for a whole window and reports it a second time. The
  theorems do not depend on these bounds, but for the one about `NoStaleReport`.
- `MaxInt64` is a small number; doubling it wraps exactly as int64 does.
- Percentages are multiples of 1/4 and back-off ratios fractions exact in
  float64, so that `math.Ceil` and truncation of the float products are the
  integer quotients. `BorrowingBounded` needs seven requests: the bound is
  seven, and its mutant reaches it.
- `MaxSamples` bounds the window of `WindowedLimit`.
- Vegas: limits 1 to 12 reach both bounds and every branch. RTTs of 0, 1, 2
  and 8 make all quotients exact; 0 is there because the minimum takes it for
  "none yet". A probe multiplier of 3 instead of 30 keeps probes frequent. It
  is the smallest that works: with 1 or 2 every sample at a limit of 1 is a
  probe, and the limit stays 1.
- The gradient estimates are multiples of 1/4 with a smoothing of 1/2. The
  instance of `GradientLimit` starts above its maximum, and its queue size is
  at times above and at times below the minimum; that of `Gradient2Limit` has
  the constructor's warm-up of 10 samples and goes on after it. Rounding
  changes the values of the estimate by less than a unit and none of the
  bounds, which are integers.
- `Pollers` bounds the goroutines that repeated calls of `Start` leave behind,
  and each goroutine builds one limit. Two names make one gauge shared by two
  limits, or two gauges of which one has no value.
- `MaxDepth` of 2 is a handler and the call it makes, through the same limiter
  or another; with limits of 1 and 2 the inner call meets a limiter that the
  outer one has used up, or that lost tokens have. Two goroutines with two
  limiters already wait crosswise, and one goroutine with one limiter waits for
  itself: both states are reached, so `NoCircularWait` is not empty, and
  neither is its exception for lost tokens.

Fairness. The blocking runs assume weak fairness of every goroutine that is
inside the limiter: the Go scheduler runs it. Callers are not fair: a holder
may keep its token for ever, contexts need not be cancelled, the deadline need
not pass. In the queue, `LockAndPeek` is strongly fair, because `sync.Mutex`
hands the lock to a goroutine that has waited for a millisecond (starvation
mode). In the registries, goroutines that wait for `r.mu` are strongly fair for the
same reason as in the queue, ticks keep coming, and `OnSample` of a limit ends;
nobody has to call anything.

### What the failing runs show

Each states what a doc or comment promises and is refuted by the code:

- `blocking_timeout`: the pools say a call blocks "until acquisition or the
  configured timeout has expired"; `blocking.go:103` starts another attempt.
- `queue_stranded`: a release between a caller's failed attempt
  (`queue_blocking.go:294`) and its push (`:302`) finds an empty backlog. The
  caller then waits, with capacity free, until somebody else releases or its
  timeout fires. A refused hand-over (`:173`) has the same effect, since
  `OnIgnore` of the delegate unblocks nobody.
- `partition_unknown`: `lookup_partition.go:156` builds the unknown partition
  with the whole limit, so requests of no partition use more than excess
  capacity.
- `windowed_drop`: `windowed.go:136` passes on the last sample's drop flag, so
  a window with a drop may raise an AIMD limit.
- `settable`: `settable.go:66-69` stores and notifies without a common lock,
  so the listeners may be left with an overwritten value.
- `registry_stop`: `Start` (`datadog/registry.go:122`, `gometrics/registry.go:101`)
  never sets `started`, so `Stop` returns at once and the goroutines poll on.
  Setting the flag is not enough: `Stop` would then wait for the goroutines
  with `r.mu` held, which a goroutine at its next tick waits for. TLC finds
  that deadlock when `started' = TRUE` is added to `Start`.

Other divergences met while modelling, which the models follow and no run
states. In the limiters, strategies and interceptors: a refused hand-over need not mean that the waiter expired, as
`queue_blocking.go:48` has it (it may not have reached its select);
`AddPartition` does not update the new partition's limit; a predicate
partition of 0% still gets one token (`predicate_partition.go:68`);
`windowed.go:148` compares in-flight requests, not samples, with `windowSize`;
`SendMsg` asks `recvLimiter` (`grpc_streaming.go:42`), so the limiter given to
`WithStreamSendLimiter` "for SendMsg" (`option_streaming.go:118`) is never
used, and the stream classifiers never see a call without error; the tokens of
a call that panics are not returned (`http.go:41`, `grpc_unary.go:23`); a drop
that probes or lowers the minimum does not reduce a Vegas limit
(`vegas.go:226-240`), although `vegas.go:254` treats "any drop" as reason to.

In the gradient limits: a `Gradient2Limit` whose first windows hold only drops
(RTT 0) has the estimate NaN for good, which `int` turns into a limit of 1 or
less (`gradient2.go:219`); `didDrop` is not looked at. A probe of
`GradientLimit` sets the estimate to the larger of minimum and queue size,
where the comment (`gradient.go:153`) speaks of cutting it "in half"; a window
of drops erases the RTT without load, since `minimum.go:19` takes 0 for "none
yet". Called without a window, an RTT of 0 that is no drop would make the
estimate NaN. A probe interval below -1 panics in `rand.Intn`. The reduction of
the long-term RTT has no effect during the warm-up, which computes the average
anew (`exponential_average.go:37`).

In the registries: listeners are registered without the mutex that "only add
once" needs (`datadog/registry.go:175`). Gauges and listeners are known by ID
alone, so that of the partitions, which all use one ID and differ in their tags
(`lookup_partition.go:46`), only the first has its limit published, and so for
two strategies that share a registry. Prometheus panics on two IDs that differ
only in `.` and `_`, whatever their tags: the help text names the ID, and the
client library shares a name only among metrics with the same help text.

In unused measurements: `WindowlessMovingPercentile.Reset` "as if no samples
were ever added" leaves `delta` and its state (`windowless_moving_percentile.go:102`).

## 4. The proofs

For every set of goroutines, requests, partitions and limiters, every limit and
every configuration allowed by the ASSUMEs of the modules. All invariants,
action properties and refinements that the passing runs check are proved; what
is left to TLC alone is liveness.

| module | theorems | the inductive invariant |
|---|---|---|
| `ReleaseBroadcastProofs` | `BlockingTypeCorrect`, `BlockingLosesNoWakeup`, `BlockingNeverClosesTwice`, the same three for `Deadline`; `LateCallsGetNothing` | `NoLostWakeup` alone is not inductive: it also takes that a channel about to be closed is open, replaced and has one closer (`CloserInv`), and that a captured channel is closed, current or about to be closed (`CapturedInv`). Each step of the protocol preserves `BroadcastInv`, whichever limiter takes it; for the deadline, rounds begun late never get past the check |
| `QueueBlockingLimiterProofs` | `QueueTypeCorrect`, `QueueTokensAccounted`, `QueueBacklogBounded`, `QueueBacklogAlive`, `QueueServesOldest` | `QueueInv`: the properties themselves, and what the goroutine in `unblock` relies on. The element it evicted stays out of the backlog until the hand-over, and with FIFO the one it peeked is still the oldest unless its owner evicted it (`TargetInv`); only a waiting goroutine owns an element (`OwnersWait`) |
| `DefaultLimiterProofs` | `TypeCorrect`, `CountersNeverDrift`, `UpdatesAreSpaced`, `SamplesWithinLimit`, `NoWindowIsReportedTwice`, `Refinement` | the goroutine in `Acquire` is alone under the lock (`LockInv`), and there is room from its test until its addition (`RoomInv`): others can only release, since a limit update needs the lock. For the windows (`StallInv`): a goroutine's end time lies within `MaxStall` of its call, and a window that was reset since it was read is followed by a pause that the reader's method does not outlast |
| `StrategiesProofs` | simple: `SimpleTypeCorrect`, `CounterIsExact`, `OvershootIsBounded`; lookup: `LookupTypeCorrect`, `LookupCountersNeverDrift`, `SharesFollowLimit`, `BorrowingIsBounded`; precise and predicate: `PreciseRefinesCore`, `LockedCountersAreExact`, `FirstMatchIsCharged`; `StrategiesAreIndependent` | tokens plus admitted callers stay below the limit plus the callers (`OvershootInv`); the tokens that no share covers were granted below the total limit (`BorrowingInv`); the mutex of the precise strategy is held exactly between a passed test and its increment, with the tested limit in force (`PreciseInv`); types and exact counters (`PredicateInv`). `SharesFollowLimit` rests on `ShareIsSmallest`: the rounded quotient is the least number that covers the percentage and 1 |
| `WindowedLimitProofs` | `TypeCorrect`, `LimitIsBounded`, `ListenersAreUpToDate`, `UpdatesAreSpaced`, `WindowIsFaithful` | the first three together; for the window, `WindowFaithful` with the average compared as a product (`WindowInv`) |
| `LimitsProofs` | `EstimatesAreBounded`, `BaselinesAreFresh`, `LongStaysWithinSeen`, `NaNComesOnlyFromStart`, `EntriesAreExported`, `LimitsAreIndependent` | `VegasInv`, `GradInv`, `G2Inv`: an integer estimate in its bounds, a fresh minimum, and how far the next probe is away (the queue of Gradient is within the bounds because the square root of an estimate is not above it). `LongInv`: whatever bounds all RTTs seen also bounds the warm-up sum, per sample, and the average. `NaNInv`: once an RTT above 0 was seen, the average is above 0, and so is the sum while it is still used. `PromInv`: as many names as entries, and a name shared with another registry is that of the same ID and kind |
| `InterceptorsProofs` | `TokensAreAccounted`, `NoCircularWaits` | the types of counters and stacks (`TypeInv`); each action changes the token count of one limiter and the stack of one goroutine alike. `NoCircularWait` follows from the account: of goroutines that wait for each other in order, one asks the lowest limiter. It is at its limit, which lost tokens do not reach, so one of these goroutines holds a token of it and asks a lower limiter still |
| `SumTheorems` | lemmas | sums over a set and its largest and smallest element, when one element is added, removed or changed. A fold over a set is a recursive function behind a CHOOSE; the finite induction is done by looking at a smallest set for which a fact fails (`MinSubset`) |

`Refinement` shows that `DefaultLimiter` implements `CoreLimiter` under the
mapping holders = goroutines between the strategy's addition and its release;
`PreciseRefinesCore` does so for `PreciseStrategy`, where a token is held from
the increment until the release.

What the theorems assume beyond the types of the constants:

- Goroutines, requests, partitions and the limits that are ever set are finite
  sets (`FiniteAssumption`, `PredicateAssumptions` and others): counters and
  bounds are taken over them.
- The constants of `Limits` are what the constructors of `vegas.go`,
  `gradient.go` and `gradient2.go` let through. `GradientLimit` accepts a minimum
  above its maximum and an initial limit outside both, so its bounds are the
  smallest and the largest of the three, and the queue's baseline;
  `Gradient2Limit` refuses such a minimum. Tolerances are integers.
- `LongStaysWithinSeen` is proved for a long window of at least 1 and
  `NaNComesOnlyFromStart` for one of at least 2, which the constructor does not
  enforce (`gradient2.go:123` replaces only negative ones). With 0 the factor is 2 and the
  average oscillates beyond its samples; with 1 the average is the last
  sample, so that after the warm-up one window of drops makes the estimate NaN
  whatever came before. The default is 600.
- The proofs are about the models: in `VegasLimit` the table of logarithms is that
  of limits below 1000, and float64 rounding is that of fixed-point numbers.

- `NoWindowIsReportedTwice` is proved for `2 * MaxStall <= MinWindowTime`: a
  goroutine that is not scheduled for a whole window can report it again.

Type invariants are proved for these modules and therefore left out of their
runs, except the queue's. Only model-checked, because the prover does not
handle fairness: `CapacityReachesWaiter`, `CancelEndsCall`, `DeadlineEndsCall`,
`AcquireReturns`, `ReleaseReturns`, `DoneContextEndsWait`,
`RegistryCallsReturn` and `GaugesPublished`. The properties of the failing runs
are refuted, and `SettableLimit` and `MetricRegistry` have no others but
liveness.

## 5. Not modelled

The moving average, variance and percentile (float64 filters that no code of
the library uses); the fixed and traced limits, which add no behaviour; pools
(constructors that pick a modelled limiter and forward `Acquire` to it);
matchers; examples. The reason for each is in `PROJECT.json`. Vegas is modelled
for a smoothing of 1, its default, and the lookup tables below 1000. float64
rounding is not modelled, only NaN and the order of the operations.
A limiter that blocks is one step in `Interceptors`, admission or refusal at any
time, and not the blocking limiter's or the queue's own steps. The models also leave out user
callbacks that call back into the limit that notifies them, which would
deadlock on its mutex.

## 6. Plan

Done: the modules above, in this order: `CoreLimiter`, the broadcast limiters,
the queue, the default limiter, the strategies, the limits, the interceptors,
the gradient limits, the registries.

1. Proofs: the safety that the liveness of the registries rests on (who may
   hold `r.mu`, and that nobody waits for it while holding a limit's mutex),
   and of the queue (every caller that waits is in the backlog or has a
   hand-over or a timeout to come).
2. `WindowedLimit` over Vegas and the gradients instead of AIMD, which makes
   the RTTs of windows of drops an outcome and not an input.
3. Interceptors over the queue and blocking limiters (composition instead of
   `CoreLimiter`), and the pools.
