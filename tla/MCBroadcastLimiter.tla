-------------------------- MODULE MCBroadcastLimiter --------------------------
(***************************************************************************)
(* A limiter that wakes its waiters by closing a channel: either a         *)
(* DeadlineLimiter or a BlockingLimiter, over the same delegate.  What     *)
(* only the other one has keeps its initial value.                         *)
(***************************************************************************)
EXTENDS BlockingLimiter, DeadlineLimiter

CONSTANTS p1, p2, c1, c2, c3, c4

VARIABLE kind   \* the limiter in use

TwoProcs      == {p1, p2}
FourChannels  == {c1, c2, c3, c4}
OneOrTwo      == {1, 2}

LimiterInit ==
    /\ Init
    /\ \/ kind = "deadline" /\ hasTimeout = FALSE
       \/ kind = "blocking" /\ BlockingInit

LimiterNext ==
    /\ \/ kind = "deadline" /\ Next         /\ UNCHANGED hasTimeout
       \/ kind = "blocking" /\ BlockingNext /\ UNCHANGED clockVars
    /\ UNCHANGED kind

\* The scheduler runs every goroutine that is inside the limiter; its steps
\* there are those of the limiter in use.
Acquiring(p) ==
    /\ \/ kind = "deadline" /\ AcquireStep(p)
       \/ kind = "blocking" /\ BlockingAcquireStep(p) /\ UNCHANGED clockVars
    /\ UNCHANGED <<kind, hasTimeout>>

Releasing(p) == ReleaseStep(p) /\ UNCHANGED <<kind, hasTimeout, clockVars>>

allVars == <<vars, kind, hasTimeout>>

FairLimiterSpec ==
    /\ LimiterInit /\ [][LimiterNext]_allVars
    /\ \A p \in Procs : WF_allVars(Acquiring(p)) /\ WF_allVars(Releasing(p))
=============================================================================
