------------------------- MODULE QueueBlockingLimiter -------------------------
(***************************************************************************)
(* limiter/queue_blocking.go: a limiter that queues the callers its        *)
(* delegate refuses.  A release takes the next element of the backlog,     *)
(* acquires from the delegate on its behalf and hands the listener over an *)
(* unbuffered channel; the send succeeds only if the element's owner is    *)
(* blocked in its select at that moment.                                   *)
(*                                                                         *)
(* An element is queued once.  Elements come from a finite pool with       *)
(* reuse: besides one per waiting goroutine, only the one goroutine that   *)
(* holds l.limiter.mu in unblock references an element.                    *)
(***************************************************************************)
EXTENDS Integers, FiniteSets, SequencesExt

CONSTANTS Procs,        \* the goroutines that use the limiter
          Limits,       \* the values the delegate's limit may take
          Elements,     \* the pool that queue elements are drawn from
          None,         \* no element, no goroutine
          Configs       \* the configurations the limiter is built with

ASSUME QueueAssumptions ==
    /\ IsFiniteSet(Procs) /\ IsFiniteSet(Elements)
    /\ Cardinality(Elements) > Cardinality(Procs)
    /\ None \notin Elements \cup Procs
    /\ Limits \subseteq Nat \ {0}
    /\ Configs \subseteq [maxBacklogSize : Nat \ {0},
                          fifo           : BOOLEAN,   \* OrderingFIFO, not OrderingLIFO
                          hasTimeout     : BOOLEAN,   \* maxBacklogTimeout > 0
                          evictDoneCtx   : BOOLEAN]   \* backlogconfig.evictDoneCtx

VARIABLES holders,  \* the delegate: goroutines that own a token
          limit,    \* the delegate: the limit in force
          pc,       \* where each goroutine is in the code
          backlog,  \* the list, front (newest) first
          elem,     \* the element each goroutine waits on
          mu,       \* the goroutine that holds limiter.mu
          target,   \* nextEvent, the element the holder of mu serves
          done,     \* the goroutines whose context is done
          config    \* the configuration of this limiter

queueVars == <<holders, limit, pc, backlog, elem, mu, target, done>>

vars == <<queueVars, config>>

delegate == INSTANCE CoreLimiter

HasCapacity == delegate!HasCapacity

Goto(p, label) == pc' = [pc EXCEPT ![p] = label]

Init ==
    /\ delegate!CoreInit
    /\ pc = [p \in Procs |-> "idle"]
    /\ backlog = <<>>
    /\ elem = [p \in Procs |-> None]
    /\ mu = None
    /\ target = None
    /\ done = {}
    /\ config \in Configs

-----------------------------------------------------------------------------
(* Acquire *)

Call(p) ==
    /\ pc[p] = "idle"
    /\ Goto(p, "try")
    /\ done' = done \ {p}
    /\ UNCHANGED <<holders, limit, backlog, elem, mu, target>>

\* The context is cancelled; tryAcquire looks at it in its select, and only if
\* backlogEvictDoneCtx is set.
CancelContext(p) ==
    /\ config.evictDoneCtx
    /\ pc[p] \in {"queued", "select"}
    /\ p \notin done
    /\ done' = done \cup {p}
    /\ UNCHANGED <<holders, limit, pc, backlog, elem, mu, target>>

\* listener, ok := l.delegate.Acquire(ctx)
TryDelegate(p) ==
    /\ pc[p] = "try"
    /\ \/ delegate!Acquire(p) /\ Goto(p, "held")
       \/ delegate!Refuse(p) /\ Goto(p, "push")
    /\ UNCHANGED <<backlog, elem, mu, target, done>>

\* An element nobody references, as &queueElement{...} returns.
FreshElement == CHOOSE e \in Elements :
                    e # target /\ \A q \in Procs : elem[q] # e

\* Fault: the capacity test is off by one.
FaultPushOneTooMany(p) ==
    /\ pc[p] = "push"
    /\ IF Len(backlog) > config.maxBacklogSize
       THEN Goto(p, "idle") /\ UNCHANGED <<backlog, elem>>
       ELSE /\ backlog' = <<FreshElement>> \o backlog
            /\ elem' = [elem EXCEPT ![p] = FreshElement]
            /\ Goto(p, "queued")
    /\ UNCHANGED <<holders, limit, mu, target, done>>

\* Fault: the element is appended at the wrong end of the list.
FaultPushBack(p) ==
    /\ pc[p] = "push"
    /\ IF Len(backlog) >= config.maxBacklogSize
       THEN Goto(p, "idle") /\ UNCHANGED <<backlog, elem>>
       ELSE /\ backlog' = Append(backlog, FreshElement)
            /\ elem' = [elem EXCEPT ![p] = FreshElement]
            /\ Goto(p, "queued")
    /\ UNCHANGED <<holders, limit, mu, target, done>>

\* l.backlog.pushWithCapacity: a full backlog ends the call
PushWithCapacity(p) ==
    /\ pc[p] = "push"
    /\ IF Len(backlog) >= config.maxBacklogSize
       THEN Goto(p, "idle") /\ UNCHANGED <<backlog, elem>>
       ELSE /\ backlog' = <<FreshElement>> \o backlog
            /\ elem' = [elem EXCEPT ![p] = FreshElement]
            /\ Goto(p, "queued")
    /\ UNCHANGED <<holders, limit, mu, target, done>>

\* the channels and the timer are set up: the goroutine blocks in its select
EnterSelect(p) ==
    /\ pc[p] = "queued"
    /\ Goto(p, "select")
    /\ UNCHANGED <<holders, limit, backlog, elem, mu, target, done>>

\* Fault: the select has no timeout case.
FaultNoTimeoutCase(p) ==
    /\ pc[p] = "select"
    /\ p \in done
    /\ Goto(p, "expired")
    /\ UNCHANGED <<holders, limit, backlog, elem, mu, target, done>>

\* Fault: the select does not look at the context.
FaultNoContextCase(p) ==
    /\ pc[p] = "select"
    /\ config.hasTimeout
    /\ Goto(p, "expired")
    /\ UNCHANGED <<holders, limit, backlog, elem, mu, target, done>>

\* case <-backlogTimeout, case <-ctxDone
SelectExpired(p) ==
    /\ pc[p] = "select"
    /\ config.hasTimeout \/ p \in done
    /\ Goto(p, "expired")
    /\ UNCHANGED <<holders, limit, backlog, elem, mu, target, done>>

\* Fault: an expired waiter leaves its element in the backlog.
FaultNoEvict(p) ==
    /\ pc[p] = "expired"
    /\ elem' = [elem EXCEPT ![p] = None]
    /\ Goto(p, "idle")
    /\ UNCHANGED <<holders, limit, backlog, mu, target, done>>

\* evict(); return nil.  Removing an element that unblock has already taken
\* out of the list does nothing.
EvictOwn(p) ==
    /\ pc[p] = "expired"
    /\ backlog' = RemoveFirst(backlog, elem[p])
    /\ elem' = [elem EXCEPT ![p] = None]
    /\ Goto(p, "idle")
    /\ UNCHANGED <<holders, limit, mu, target, done>>

AcquireStep(p) == \/ TryDelegate(p) \/ PushWithCapacity(p) \/ EnterSelect(p)
                  \/ SelectExpired(p) \/ EvictOwn(p)

-----------------------------------------------------------------------------
(* QueueBlockingListener.On*: the delegate's method, then unblock *)

\* OnSuccess and OnDropped of the delegate may go on to move the limit,
\* OnIgnore does not
Complete(p) ==
    /\ pc[p] = "held"
    /\ delegate!Release(p)
    /\ \/ Goto(p, "adjust")
       \/ Goto(p, "unblock")
    /\ UNCHANGED <<backlog, elem, mu, target, done>>

AdjustLimit(p) ==
    /\ pc[p] = "adjust"
    /\ \E l \in Limits : delegate!SetLimit(l)
    /\ Goto(p, "unblock")
    /\ UNCHANGED <<backlog, elem, mu, target, done>>

\* The element that peek returns: the back of the list is the oldest.
Peek == IF config.fifo THEN Last(backlog) ELSE Head(backlog)

\* Fault: the return for an empty backlog keeps the lock.
FaultEmptyKeepsLock(p) ==
    /\ pc[p] = "unblock"
    /\ mu = None
    /\ mu' = p
    /\ IF backlog = <<>>
       THEN Goto(p, "idle") /\ UNCHANGED target
       ELSE Goto(p, "serve") /\ target' = Peek
    /\ UNCHANGED <<holders, limit, backlog, elem, done>>

\* unblock takes limiter.mu and peeks; an empty backlog ends it
LockAndPeek(p) ==
    /\ pc[p] = "unblock"
    /\ mu = None
    /\ IF backlog = <<>>
       THEN Goto(p, "idle") /\ UNCHANGED <<mu, target>>
       ELSE Goto(p, "serve") /\ mu' = p /\ target' = Peek
    /\ UNCHANGED <<holders, limit, backlog, elem, done>>

\* unblock returns: the deferred Unlock
Unlock(p) == mu' = None /\ target' = None /\ Goto(p, "idle")

\* listener, ok := l.limiter.delegate.Acquire(nextEvent.ctx)
AcquireForNext(p) ==
    /\ pc[p] = "serve"
    /\ \/ delegate!Acquire(p) /\ Goto(p, "evict") /\ UNCHANGED <<mu, target>>
       \/ delegate!Refuse(p) /\ Unlock(p)
    /\ UNCHANGED <<backlog, elem, done>>

\* evict()
EvictNext(p) ==
    /\ pc[p] = "evict"
    /\ backlog' = RemoveFirst(backlog, target)
    /\ Goto(p, "hand")
    /\ UNCHANGED <<holders, limit, elem, mu, target, done>>

\* The owner of the served element is blocked in its select.
Receivers == {w \in Procs : pc[w] = "select" /\ elem[w] = target}

\* nextEvent.setListener(listener): the non-blocking send succeeds, and the
\* owner returns with the listener that p acquired for it ...
ListenerAccepted(p) ==
    /\ pc[p] = "hand"
    /\ \E w \in Receivers :
        /\ holders' = (holders \ {p}) \cup {w}
        /\ pc' = [pc EXCEPT ![p] = "idle", ![w] = "held"]
        /\ elem' = [elem EXCEPT ![w] = None]
    /\ mu' = None /\ target' = None
    /\ UNCHANGED <<limit, backlog, done>>

\* Fault: the send blocks until there is a receiver.
FaultBlockingSend(p) == pc[p] = "hand" /\ FALSE

\* Fault: the listener that nobody accepted is dropped.
FaultDropListener(p) ==
    /\ pc[p] = "hand"
    /\ Receivers = {}
    /\ Unlock(p)
    /\ UNCHANGED <<holders, limit, backlog, elem, done>>

\* ... or there is no receiver, and the listener's OnIgnore gives the
\* delegate its token back
ListenerRefused(p) ==
    /\ pc[p] = "hand"
    /\ Receivers = {}
    /\ delegate!Release(p)
    /\ Unlock(p)
    /\ UNCHANGED <<backlog, elem, done>>

UnblockStep(p) ==
    \/ AdjustLimit(p)
    \/ LockAndPeek(p)
    \/ AcquireForNext(p)
    \/ EvictNext(p)
    \/ ListenerAccepted(p)
    \/ ListenerRefused(p)

Next == /\ \E p \in Procs : \/ Call(p) \/ CancelContext(p) \/ AcquireStep(p)
                            \/ Complete(p) \/ UnblockStep(p)
        /\ UNCHANGED config

Spec == Init /\ [][Next]_vars

\* The scheduler runs every goroutine inside the limiter, and sync.Mutex
\* hands limiter.mu to a starving waiter: unblock's lock step is strongly fair.
FairSpec ==
    /\ Spec
    /\ \A p \in Procs : /\ WF_queueVars(AcquireStep(p))
                        /\ WF_queueVars(UnblockStep(p))
                        /\ SF_queueVars(LockAndPeek(p))

-----------------------------------------------------------------------------
\* Types of the limiter's fields and of every goroutine's position; the lock
\* of unblock is held exactly while it serves an element.
TypeOK ==
    /\ holders \subseteq Procs
    /\ limit \in Limits
    /\ pc \in [Procs -> {"idle", "try", "push", "queued", "select", "expired",
                         "held", "adjust", "unblock", "serve", "evict", "hand"}]
    /\ backlog \in Seq(Elements)
    /\ elem \in [Procs -> Elements \cup {None}]
    /\ mu \in Procs \cup {None}
    /\ target \in Elements \cup {None} /\ (target = None <=> mu = None)
    /\ done \subseteq Procs
    /\ config \in Configs

InAcquire(p) == pc[p] \in {"try", "push", "queued", "select", "expired"}
InRelease(p) == pc[p] \in {"adjust", "unblock", "serve", "evict", "hand"}

\* No token leaks in a hand-over: each is owned by a caller with a listener
\* or by the one goroutine that is handing it over, under limiter.mu.
TokensAccounted ==
    /\ holders = {p \in Procs : pc[p] \in {"held", "evict", "hand"}}
    /\ \A p \in Procs : pc[p] \in {"serve", "evict", "hand"} => mu = p

\* The backlog never exceeds maxBacklogSize, although callers test and push
\* concurrently with evictions.
BacklogBounded == Len(backlog) <= config.maxBacklogSize

\* The backlog has no dead elements: every element is queued once and its
\* owner is still inside Acquire, so an expired waiter frees its place before
\* its call returns and no release is spent on a caller that is gone.
BacklogAlive ==
    /\ IsInjective(backlog)
    /\ \A e \in ToSet(backlog) :
        \E p \in Procs : elem[p] = e /\ pc[p] \in {"queued", "select", "expired"}

\* What the goroutine that holds limiter.mu relies on between the peek and the
\* hand-over: the element it evicted is gone, and with OrderingFIFO the one it
\* peeked is still the oldest, unless its owner has evicted it.
TargetInv ==
    \A p \in Procs :
        /\ pc[p] = "hand" => target \notin ToSet(backlog)
        /\ config.fifo /\ pc[p] \in {"serve", "evict"} /\ target \in ToSet(backlog)
           => target = Last(backlog)

\* Only a goroutine that waits owns an element.
OwnersWait ==
    \A p \in Procs : elem[p] # None => pc[p] \in {"queued", "select", "expired"}

\* The inductive invariant.
QueueInv == /\ TypeOK
            /\ TokensAccounted
            /\ BacklogBounded
            /\ BacklogAlive
            /\ TargetInv
            /\ OwnersWait

\* With OrderingFIFO, first in, first out: the element that unblock evicts to
\* serve it is the oldest in the backlog, also when others were queued or
\* expired since the peek.
ServesOldest ==
    [][config.fifo => \A p \in Procs :
        pc[p] = "evict" /\ pc'[p] = "hand" /\ target \in ToSet(backlog)
            => backlog' = Front(backlog)]_vars

\* Every call of Acquire returns once its backlog timeout has expired, even
\* if nothing is ever released to it.
AcquireReturns ==
    \A p \in Procs : (InAcquire(p) /\ config.hasTimeout) ~> ~InAcquire(p)

\* A done context ends the wait of a queued caller when backlogconfig.evictDoneCtx
\* is set, with or without a timeout.
DoneContextEndsWait ==
    \A p \in Procs : (pc[p] \in {"queued", "select"} /\ p \in done)
                     ~> pc[p] \notin {"queued", "select", "expired"}

\* Every call of a Listener method returns: releases serve each other's
\* waiters under limiter.mu and never block on one that is gone.
ReleaseReturns == \A p \in Procs : InRelease(p) ~> ~InRelease(p)

\* A caller is blocked only because the limit has been reached: a waiter in
\* the backlog with capacity free has a releaser under way.
NoStrandedWaiter ==
    (backlog # <<>> /\ HasCapacity) => \E p \in Procs : InRelease(p)
=============================================================================
