--------------------------- MODULE BlockingLimiter ---------------------------
(***************************************************************************)
(* limiter/blocking.go: a limiter that blocks the caller until its         *)
(* delegate grants a token or the caller's context is done.  A positive    *)
(* timeout bounds one attempt, not the call: the loop goes round again.    *)
(***************************************************************************)
EXTENDS ReleaseBroadcast

VARIABLE hasTimeout   \* l.timeout > 0, fixed by NewBlockingLimiter

blockingVars == <<bcastVars, hasTimeout>>

\* case <-timer.C: the attempt has timed out, loop and check the context
SelectAttemptTimer(p) ==
    /\ pc[p] = "select"
    /\ hasTimeout
    /\ LeaveWait(p, "ctx")

\* select { <-ctx.Done() | <-notify | <-timer.C }
Select(p) == SelectDone(p) \/ SelectNotified(p) \/ SelectAttemptTimer(p)

\* Fault: the attempt comes first and the channel is captured after it, as
\* with a condition variable that is not tied to the attempt.
FaultTryThenCapture(p) ==
    \/ CheckContext(p, "capture")
    \/ /\ pc[p] = "capture"
       /\ \/ delegate!Acquire(p) /\ Goto(p, "held")
          \/ delegate!Refuse(p) /\ Goto(p, "try")
       /\ UNCHANGED <<notify, closed, chan, done>>
    \/ /\ pc[p] = "try"
       /\ chan' = [chan EXCEPT ![p] = notify]
       /\ Goto(p, "select")
       /\ UNCHANGED <<holders, limit, notify, closed, done>>
    \/ Select(p)

\* One round of the loop in tryAcquire, step by step.
BlockingAcquireStep(p) ==
    \/ CheckContext(p, "capture")
    \/ CurrentNotify(p)
    \/ TryAcquired(p)
    \/ TryRefused(p, "select")
    \/ Select(p)

BlockingInit == BroadcastInit /\ hasTimeout \in BOOLEAN

BlockingNext ==
    /\ \E p \in Procs : \/ CallAcquire(p)
                        \/ InAcquire(p) /\ CancelContext(p)
                        \/ BlockingAcquireStep(p)
                        \/ Complete(p)
                        \/ ReleaseStep(p)
    /\ UNCHANGED hasTimeout

BlockingSpec == BlockingInit /\ [][BlockingNext]_blockingVars

\* The scheduler runs every goroutine that is inside the limiter.  Nothing
\* is assumed of the callers: one may keep its token for ever.
BlockingFairSpec ==
    /\ BlockingSpec
    /\ \A p \in Procs : /\ WF_bcastVars(BlockingAcquireStep(p))
                        /\ WF_bcastVars(ReleaseStep(p))

-----------------------------------------------------------------------------
\* Types of the limiter's fields and of every goroutine's position.
BlockingTypeOK ==
    /\ BroadcastTypeOK
    /\ pc \in [Procs -> {"idle", "ctx", "capture", "try", "select", "held",
                         "adjust", "swap", "close"}]
    /\ hasTimeout \in BOOLEAN

\* What the pools say of the limiter they configure with a timeout: a call
\* ends, by acquisition or because the timeout has expired.
TimeoutEndsCall ==
    \A p \in Procs : (InAcquire(p) /\ hasTimeout) ~> ~InAcquire(p)
=============================================================================
