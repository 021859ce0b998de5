--------------------------- MODULE DeadlineLimiter ---------------------------
(***************************************************************************)
(* limiter/deadline.go: blocks the caller until its delegate grants a      *)
(* token, the caller's context is done, or one deadline fixed at           *)
(* construction has passed.  Time matters only as before or after that     *)
(* deadline.                                                               *)
(***************************************************************************)
EXTENDS ReleaseBroadcast

VARIABLES passed,  \* time.Until(l.deadline) <= 0
          late     \* history: goroutines that began a round of the loop, by a
                   \* call or by a wake-up, after the deadline

vars == <<bcastVars, passed, late>>

clockVars == <<passed, late>>

Init == BroadcastInit /\ passed = FALSE /\ late = {}

DeadlinePasses == ~passed /\ passed' = TRUE /\ UNCHANGED <<bcastVars, late>>

\* A round of the loop in tryAcquire begins.
BeginRound(p) ==
    /\ late' = IF passed THEN late \cup {p} ELSE late
    /\ UNCHANGED passed

Call(p) == CallAcquire(p) /\ BeginRound(p)

\* Fault: the deadline is not looked at before the attempt.
FaultNoDeadlineCheck(p) ==
    /\ pc[p] = "deadline"
    /\ Goto(p, "capture")
    /\ UNCHANGED <<holders, limit, notify, closed, chan, done, clockVars>>

\* if remaining <= 0 { return nil, false }, at the head of the loop
CheckDeadline(p) ==
    /\ pc[p] = "deadline"
    /\ Goto(p, IF passed THEN "idle" ELSE "capture")
    /\ UNCHANGED <<holders, limit, notify, closed, chan, done, clockVars>>

\* the same test once the delegate has refused; past it the timer is armed
RecheckDeadline(p) ==
    /\ pc[p] = "refused"
    /\ IF passed THEN LeaveWait(p, "idle")
       ELSE /\ Goto(p, "select")
            /\ UNCHANGED <<holders, limit, notify, closed, chan, done>>
    /\ UNCHANGED clockVars

\* Fault: the select has no timer case.
FaultNoTimer(p) == FALSE

\* case <-timer.C: return nil, false
SelectTimer(p) ==
    /\ pc[p] = "select"
    /\ passed
    /\ LeaveWait(p, "idle")
    /\ UNCHANGED clockVars

\* One round of the loop in tryAcquire, step by step.
AcquireStep(p) ==
    \/ /\ \/ CheckContext(p, "deadline")
          \/ CurrentNotify(p)
          \/ TryAcquired(p)
          \/ TryRefused(p, "refused")
          \/ SelectDone(p)
       /\ UNCHANGED clockVars
    \/ SelectNotified(p) /\ BeginRound(p)
    \/ CheckDeadline(p)
    \/ RecheckDeadline(p)
    \/ SelectTimer(p)

Next == \/ DeadlinePasses
        \/ \E p \in Procs :
            \/ Call(p)
            \/ InAcquire(p) /\ CancelContext(p) /\ UNCHANGED clockVars
            \/ AcquireStep(p)
            \/ Complete(p) /\ UNCHANGED clockVars
            \/ ReleaseStep(p) /\ UNCHANGED clockVars

Spec == Init /\ [][Next]_vars

\* The scheduler runs every goroutine that is inside the limiter; callers may
\* keep their tokens, and the deadline may be arbitrarily far away.
FairSpec ==
    /\ Spec
    /\ \A p \in Procs : /\ WF_vars(AcquireStep(p))
                        /\ WF_vars(ReleaseStep(p) /\ UNCHANGED clockVars)

-----------------------------------------------------------------------------
\* Types of the limiter's fields and of every goroutine's position.
TypeOK ==
    /\ BroadcastTypeOK
    /\ passed \in BOOLEAN
    /\ late \subseteq Procs
    /\ pc \in [Procs -> {"idle", "ctx", "deadline", "capture", "try",
                         "refused", "select", "held", "adjust", "swap",
                         "close"}]

\* No round that begins after the deadline obtains a token, however much capacity
\* there is: neither a call made then nor one that was refused before the deadline
\* and is woken by a release after it.  (An attempt under way when the deadline
\* passes may still succeed.)
NoGrantAfterDeadline == \A p \in late : pc[p] \notin {"try", "held"}

\* Once the deadline has passed every call ends, although no token is ever
\* released and no context cancelled.
DeadlineEndsCall ==
    \A p \in Procs : (passed /\ InAcquire(p)) ~> ~InAcquire(p)
=============================================================================
