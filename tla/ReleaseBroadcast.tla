-------------------------- MODULE ReleaseBroadcast ---------------------------
(***************************************************************************)
(* The code that BlockingLimiter and DeadlineLimiter have in common: the   *)
(* context check at the head of tryAcquire's loop, the attempt on the      *)
(* delegate, the notify channel (currentNotify, broadcastRelease) and the  *)
(* DelegateListener whose callback broadcasts after every completion.      *)
(* When a caller gives up differs between the two limiters and is in their *)
(* own modules, which EXTEND this one.                                     *)
(*                                                                         *)
(* The notify channel carries no values; it is closed once, and replaced,  *)
(* at every release.  Channels come from make(chan struct{}) and are       *)
(* collected when nobody references them, so a finite pool with reuse      *)
(* stands for them: besides the current channel at most one per goroutine  *)
(* is referenced.                                                          *)
(***************************************************************************)
EXTENDS Integers, FiniteSets

CONSTANTS Procs,     \* the goroutines that use the limiter
          Limits,    \* the values the delegate's limit may take
          Channels,  \* the pool that notify channels are drawn from
          NoChannel  \* a local channel variable that is dead

ASSUME ProcsAssumption    == IsFiniteSet(Procs)
ASSUME LimitsAssumption   == Limits \subseteq Nat \ {0}
ASSUME ChannelsAssumption ==
    /\ IsFiniteSet(Channels)
    /\ Cardinality(Channels) > Cardinality(Procs) + 1
    /\ NoChannel \notin Channels

VARIABLES holders,   \* the delegate: goroutines that own a token
          limit,     \* the delegate: the limit in force
          pc,        \* where each goroutine is in the code
          notify,    \* l.notify, the current channel
          closed,    \* the channels that have been closed
          chan,      \* each goroutine's local: `notify` in tryAcquire,
                     \* `old` in broadcastRelease
          done       \* the goroutines whose context is cancelled

bcastVars == <<holders, limit, pc, notify, closed, chan, done>>

delegate == INSTANCE CoreLimiter

HasCapacity == delegate!HasCapacity

Goto(p, label) == pc' = [pc EXCEPT ![p] = label]

\* The goroutine is inside Acquire, of either limiter.
InAcquire(p) ==
    pc[p] \in {"ctx", "deadline", "capture", "try", "refused", "select"}

BroadcastInit ==
    /\ delegate!CoreInit
    /\ pc = [p \in Procs |-> "idle"]
    /\ notify = CHOOSE c \in Channels : TRUE
    /\ closed = {}
    /\ chan = [p \in Procs |-> NoChannel]
    /\ done = {}

-----------------------------------------------------------------------------
(* The acquiring side. *)

\* Acquire(ctx), with a context that may already be cancelled
CallAcquire(p) ==
    /\ pc[p] = "idle"
    /\ Goto(p, "ctx")
    /\ done' \in {done \ {p}, done \cup {p}}
    /\ UNCHANGED <<holders, limit, notify, closed, chan>>

\* The caller's context is cancelled, or reaches its own deadline.
CancelContext(p) ==
    /\ p \notin done
    /\ done' = done \cup {p}
    /\ UNCHANGED <<holders, limit, pc, notify, closed, chan>>

\* Fault: the loop does not look at the context again after a wake-up.
FaultNoContextCheck(p, next) ==
    /\ pc[p] = "ctx"
    /\ Goto(p, next)
    /\ UNCHANGED <<holders, limit, notify, closed, chan, done>>

\* if err := ctx.Err(); err != nil { return nil, false }
CheckContext(p, next) ==
    /\ pc[p] = "ctx"
    /\ Goto(p, IF p \in done THEN "idle" ELSE next)
    /\ UNCHANGED <<holders, limit, notify, closed, chan, done>>

\* notify := l.currentNotify(), under l.mu
CurrentNotify(p) ==
    /\ pc[p] = "capture"
    /\ chan' = [chan EXCEPT ![p] = notify]
    /\ Goto(p, "try")
    /\ UNCHANGED <<holders, limit, notify, closed, done>>

\* l.delegate.Acquire(ctx) returns a listener, and so does Acquire, ...
TryAcquired(p) ==
    /\ pc[p] = "try"
    /\ delegate!Acquire(p)
    /\ Goto(p, "held")
    /\ chan' = [chan EXCEPT ![p] = NoChannel]
    /\ UNCHANGED <<notify, closed, done>>

\* ... or it refuses, and tryAcquire goes on to `next`
TryRefused(p, next) ==
    /\ pc[p] = "try"
    /\ delegate!Refuse(p)
    /\ Goto(p, next)
    /\ UNCHANGED <<notify, closed, chan, done>>

\* The goroutine leaves its wait: the local channel variable dies.
LeaveWait(p, next) ==
    /\ Goto(p, next)
    /\ chan' = [chan EXCEPT ![p] = NoChannel]
    /\ UNCHANGED <<holders, limit, notify, closed, done>>

\* case <-ctx.Done(): return nil, false
SelectDone(p) ==
    /\ pc[p] = "select"
    /\ p \in done
    /\ LeaveWait(p, "idle")

\* case <-notify: the captured channel is closed, loop and retry
SelectNotified(p) ==
    /\ pc[p] = "select"
    /\ chan[p] \in closed
    /\ LeaveWait(p, "ctx")

-----------------------------------------------------------------------------
(* The releasing side: DelegateListener's methods, then broadcastRelease.   *)

\* OnSuccess and OnDropped: the delegate takes its token back, and will look
\* at its limit before it returns
OnCompleted(p) ==
    /\ pc[p] = "held"
    /\ delegate!Release(p)
    /\ Goto(p, "adjust")
    /\ UNCHANGED <<notify, closed, chan, done>>

\* Fault: OnIgnore does not run the onRelease callback.
FaultIgnoreIsSilent(p) ==
    /\ pc[p] = "held"
    /\ delegate!Release(p)
    /\ Goto(p, "idle")
    /\ UNCHANGED <<notify, closed, chan, done>>

\* OnIgnore: the delegate takes its token back and does nothing else
OnIgnore(p) ==
    /\ pc[p] = "held"
    /\ delegate!Release(p)
    /\ Goto(p, "swap")
    /\ UNCHANGED <<notify, closed, chan, done>>

\* the rest of the delegate's OnSuccess or OnDropped: a new limit, or (its
\* sample window is not ready) the old one
AdjustLimit(p) ==
    /\ pc[p] = "adjust"
    /\ \E l \in Limits : delegate!SetLimit(l)
    /\ Goto(p, "swap")
    /\ UNCHANGED <<notify, closed, chan, done>>

\* A channel nobody references, as make(chan struct{}) returns.
FreshChannel == CHOOSE c \in Channels :
                    c # notify /\ \A q \in Procs : chan[q] # c

\* Fault: the channel is closed but stays the current one.
FaultSwapKeepsOld(p) ==
    /\ pc[p] = "swap"
    /\ chan' = [chan EXCEPT ![p] = notify]
    /\ Goto(p, "close")
    /\ UNCHANGED <<holders, limit, notify, closed, done>>

\* old := l.notify; l.notify = make(chan struct{}), under l.mu
SwapNotify(p) ==
    /\ pc[p] = "swap"
    /\ chan' = [chan EXCEPT ![p] = notify]
    /\ notify' = FreshChannel
    /\ closed' = closed \ {FreshChannel}
    /\ Goto(p, "close")
    /\ UNCHANGED <<holders, limit, done>>

\* close(old), outside the lock
CloseOld(p) ==
    /\ pc[p] = "close"
    /\ closed' = closed \cup {chan[p]}
    /\ chan' = [chan EXCEPT ![p] = NoChannel]
    /\ Goto(p, "idle")
    /\ UNCHANGED <<holders, limit, notify, done>>

\* The holder completes its listener ...
Complete(p) == OnCompleted(p) \/ OnIgnore(p)

\* ... and the call of the listener's method runs to its end.
ReleaseStep(p) == AdjustLimit(p) \/ SwapNotify(p) \/ CloseOld(p)

-----------------------------------------------------------------------------
(* What the protocol guarantees, for either limiter. *)

\* The types of the delegate, the channel pool and the local variables.
BroadcastTypeOK ==
    /\ holders \subseteq Procs
    /\ limit \in Limits
    /\ notify \in Channels
    /\ closed \subseteq Channels
    /\ chan \in [Procs -> Channels \cup {NoChannel}]
    /\ done \subseteq Procs

\* close(old) never closes a channel twice (a panic in Go), although the swap
\* and the close are two steps and releases overlap.
NoDoubleClose ==
    \A p \in Procs : pc[p] = "close" =>
        /\ chan[p] \notin closed
        /\ \A q \in Procs \ {p} : pc[q] = "close" => chan[q] # chan[p]

\* The labels of either limiter.
Labels == {"idle", "ctx", "deadline", "capture", "try", "refused", "select",
           "held", "adjust", "swap", "close"}

\* Goroutine q is in a release that will still close channel c.
WillClose(q, c) == \/ pc[q] \in {"adjust", "swap"} /\ c = notify
                   \/ pc[q] = "close" /\ chan[q] = c

\* No lost wake-up (the race that the comment on BlockingLimiter is about):
\* a goroutine that was refused and blocks, or is about to block, on a
\* channel still open while the delegate has capacity, has a releaser under
\* way that will close that very channel.
NoLostWakeup ==
    \A p \in Procs :
        /\ pc[p] \in {"refused", "select"}
        /\ chan[p] \notin closed
        /\ HasCapacity
        => \E q \in Procs : WillClose(q, chan[p])

\* Capacity reaches a blocked caller: a caller cannot stay blocked in the
\* select of tryAcquire for ever while the delegate could admit it.
CapacityReachesWaiter ==
    \A p \in Procs :
        (pc[p] = "select" /\ HasCapacity) ~> (pc[p] # "select" \/ ~HasCapacity)

\* A cancelled context ends the call of Acquire, with or without a token, even
\* when releases keep waking the caller.
CancelEndsCall ==
    \A p \in Procs : (InAcquire(p) /\ p \in done) ~> ~InAcquire(p)

(* What makes NoLostWakeup inductive. *)

\* A goroutine that is about to close a channel is the only one, the channel
\* is open and has been replaced.
CloserInv ==
    \A p \in Procs : pc[p] = "close" =>
        /\ chan[p] \in Channels \ closed
        /\ chan[p] # notify
        /\ \A q \in Procs \ {p} : pc[q] = "close" => chan[q] # chan[p]

\* A captured channel is closed, or still the current one, or a releaser has
\* replaced it and is about to close it.
CapturedInv ==
    \A p \in Procs : pc[p] \in {"try", "refused", "select"} =>
        /\ chan[p] \in Channels
        /\ \/ chan[p] \in closed
           \/ chan[p] = notify
           \/ \E q \in Procs : pc[q] = "close" /\ chan[q] = chan[p]

\* The inductive invariant of the protocol.
BroadcastInv ==
    /\ BroadcastTypeOK
    /\ pc \in [Procs -> Labels]
    /\ notify \notin closed
    /\ CloserInv
    /\ CapturedInv
    /\ NoLostWakeup
=============================================================================
