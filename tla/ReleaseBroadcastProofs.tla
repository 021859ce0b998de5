----------------------- MODULE ReleaseBroadcastProofs ------------------------
(***************************************************************************)
(* Every step that BlockingLimiter and DeadlineLimiter share preserves     *)
(* BroadcastInv, one lemma per kind of step; then the two limiters, whose  *)
(* proofs cite these lemmas.                                               *)
(***************************************************************************)
EXTENDS BlockingLimiter, DeadlineLimiter, FiniteSetTheorems, TLAPS

\* The pool is large enough: FreshChannel is a channel nobody references.
LEMMA FreshChannelExists ==
  ASSUME BroadcastTypeOK
  PROVE  /\ FreshChannel \in Channels
         /\ FreshChannel # notify
         /\ \A q \in Procs : chan[q] # FreshChannel
<1> DEFINE local == {chan[q] : q \in Procs}
           used  == local \cup {notify}
<1>1. IsFiniteSet(local) /\ Cardinality(local) <= Cardinality(Procs)
  <2>1. chan \in Surjection(Procs, local)
    BY DEF BroadcastTypeOK, Surjection
  <2> HIDE DEF local
  <2> QED BY <2>1, FS_Surjection, ProcsAssumption
<1>2. IsFiniteSet(used) /\ Cardinality(used) <= Cardinality(local) + 1
  <2> HIDE DEF local
  <2>1. Cardinality(local) \in Nat
    BY <1>1, FS_CardinalityType
  <2>2. /\ IsFiniteSet(local \cup {notify})
        /\ Cardinality(local \cup {notify}) =
             IF notify \in local THEN Cardinality(local) ELSE Cardinality(local) + 1
    BY <1>1, FS_AddElement
  <2> QED BY <2>1, <2>2
<1>3. ~(Channels \subseteq used)
  <2> HIDE DEF used, local
  <2>1. /\ Cardinality(Procs) \in Nat /\ Cardinality(local) \in Nat
        /\ Cardinality(used) \in Nat /\ Cardinality(Channels) \in Nat
    BY <1>1, <1>2, FS_CardinalityType, ProcsAssumption, ChannelsAssumption
  <2>2. Cardinality(used) < Cardinality(Channels)
    BY <1>1, <1>2, <2>1, ChannelsAssumption
  <2> QED BY <1>2, <2>1, <2>2, FS_Subset
<1>4. \E c \in Channels : c # notify /\ \A q \in Procs : chan[q] # c
  BY <1>3
<1> QED BY <1>4 DEF FreshChannel

\* The delegate counts its holders with the same Cardinality.
LEMMA SameCardinality == \A S : delegate!Cardinality(S) = Cardinality(S)
BY DEF delegate!Cardinality, Cardinality

\* HasCapacity compares the number of holders with the limit, in both states.
LEMMA CapacityMeans ==
  /\ HasCapacity <=> Cardinality(holders) < limit
  /\ HasCapacity' <=> Cardinality(holders') < limit'
BY SameCardinality DEF HasCapacity, delegate!HasCapacity

\* Admitting a goroutine does not create capacity.
LEMMA AcquireKeepsFull ==
  ASSUME BroadcastTypeOK, NEW p \in Procs, delegate!Acquire(p), HasCapacity'
  PROVE  HasCapacity
<1>1. IsFiniteSet(holders)
  BY FS_Subset, ProcsAssumption DEF BroadcastTypeOK
<1>2. holders' = holders \cup {p} /\ p \notin holders /\ limit' = limit
  BY DEF delegate!Acquire
<1>3. Cardinality(holders') = Cardinality(holders) + 1
  BY <1>1, <1>2, FS_AddElement
<1>4. Cardinality(holders) \in Nat /\ limit \in Nat
  BY <1>1, FS_CardinalityType, LimitsAssumption DEF BroadcastTypeOK
<1> QED BY <1>2, <1>3, <1>4, CapacityMeans

\* A step that moves a goroutine between labels outside the wait, or into the
\* select, and touches nothing else but contexts preserves the invariant.
LEMMA QuietStep ==
  ASSUME BroadcastInv, NEW p \in Procs,
         NEW l \in {"idle", "ctx", "deadline", "capture", "select"},
         \/ pc[p] \in {"idle", "ctx", "deadline", "capture"} /\ l # "select"
         \/ pc[p] = "refused" /\ l = "select",
         Goto(p, l),
         UNCHANGED <<holders, limit, notify, closed, chan>>,
         done' \subseteq Procs
  PROVE  BroadcastInv'
<1> USE DEF BroadcastInv, BroadcastTypeOK, Goto, Labels
<1>1. HasCapacity' <=> HasCapacity
  BY CapacityMeans
<1>2. BroadcastTypeOK' /\ pc' \in [Procs -> Labels] /\ (notify \notin closed)'
  OBVIOUS
<1>3. CloserInv'
  BY DEF CloserInv
<1>4. CapturedInv'
  BY DEF CapturedInv
<1>5. NoLostWakeup'
  BY <1>1 DEF NoLostWakeup, WillClose
<1> QED BY <1>2, <1>3, <1>4, <1>5

\* Stuttering, and a context's cancellation, preserve the invariant.
LEMMA ContextStep ==
  ASSUME BroadcastInv, UNCHANGED <<holders, limit, pc, notify, closed, chan>>,
         done' \subseteq Procs
  PROVE  BroadcastInv'
<1>1. HasCapacity' <=> HasCapacity
  BY CapacityMeans
<1> QED
  BY <1>1 DEF BroadcastInv, BroadcastTypeOK, CloserInv, CapturedInv,
              NoLostWakeup, WillClose

\* Capturing the current channel preserves the invariant.
LEMMA CurrentNotifyStep ==
  ASSUME BroadcastInv, NEW p \in Procs, CurrentNotify(p)
  PROVE  BroadcastInv'
<1> USE DEF BroadcastInv, BroadcastTypeOK, Goto, Labels, CurrentNotify
<1>1. HasCapacity' <=> HasCapacity
  BY CapacityMeans
<1>2. BroadcastTypeOK' /\ pc' \in [Procs -> Labels] /\ (notify \notin closed)'
  OBVIOUS
<1>3. CloserInv'
  BY DEF CloserInv
<1>4. CapturedInv'
  BY DEF CapturedInv
<1>5. NoLostWakeup'
  BY <1>1 DEF NoLostWakeup, WillClose
<1> QED BY <1>2, <1>3, <1>4, <1>5

\* A successful attempt takes capacity away and preserves the invariant.
LEMMA TryAcquiredStep ==
  ASSUME BroadcastInv, NEW p \in Procs, TryAcquired(p)
  PROVE  BroadcastInv'
<1> USE DEF BroadcastInv, BroadcastTypeOK, Goto, Labels, TryAcquired
<1>1. HasCapacity' => HasCapacity
  BY AcquireKeepsFull
<1>2. BroadcastTypeOK' /\ pc' \in [Procs -> Labels] /\ (notify \notin closed)'
  BY DEF delegate!Acquire
<1>3. CloserInv'
  BY DEF CloserInv
<1>4. CapturedInv'
  BY DEF CapturedInv
<1>5. NoLostWakeup'
  BY <1>1 DEF NoLostWakeup, WillClose
<1> QED BY <1>2, <1>3, <1>4, <1>5

\* A refusal happens only without capacity: the goroutine starts its wait
\* with nothing to be woken for.
LEMMA TryRefusedStep ==
  ASSUME BroadcastInv, NEW p \in Procs, NEW l \in {"refused", "select"},
         TryRefused(p, l)
  PROVE  BroadcastInv'
<1> USE DEF BroadcastInv, BroadcastTypeOK, Goto, Labels, TryRefused
<1>1. ~HasCapacity /\ (HasCapacity' <=> HasCapacity)
  BY CapacityMeans DEF delegate!Refuse, delegate!coreVars, HasCapacity
<1>2. BroadcastTypeOK' /\ pc' \in [Procs -> Labels] /\ (notify \notin closed)'
  BY DEF delegate!Refuse, delegate!coreVars
<1>3. CloserInv'
  BY DEF CloserInv
<1>4. CapturedInv'
  BY DEF CapturedInv
<1>5. NoLostWakeup'
  BY <1>1 DEF NoLostWakeup
<1> QED BY <1>2, <1>3, <1>4, <1>5

\* Leaving the wait, to retry or to give up, preserves the invariant.
LEMMA LeaveWaitStep ==
  ASSUME BroadcastInv, NEW p \in Procs, NEW l \in {"idle", "ctx"},
         pc[p] \in {"refused", "select"}, LeaveWait(p, l)
  PROVE  BroadcastInv'
<1> USE DEF BroadcastInv, BroadcastTypeOK, Goto, Labels, LeaveWait
<1>1. HasCapacity' <=> HasCapacity
  BY CapacityMeans
<1>2. BroadcastTypeOK' /\ pc' \in [Procs -> Labels] /\ (notify \notin closed)'
  OBVIOUS
<1>3. CloserInv'
  BY DEF CloserInv
<1>4. CapturedInv'
  BY DEF CapturedInv
<1>5. NoLostWakeup'
  BY <1>1 DEF NoLostWakeup, WillClose
<1> QED BY <1>2, <1>3, <1>4, <1>5

\* Giving a token back creates capacity, but the releaser is then on its way
\* to close the current channel; those who captured an older one have
\* another releaser, by CapturedInv.
LEMMA CompleteStep ==
  ASSUME BroadcastInv, NEW p \in Procs, Complete(p)
  PROVE  BroadcastInv'
<1> USE DEF BroadcastInv, BroadcastTypeOK, Goto, Labels, Complete,
            OnCompleted, OnIgnore
<1>1. /\ pc[p] = "held" /\ pc'[p] \in {"adjust", "swap"}
      /\ \A q \in Procs \ {p} : pc'[q] = pc[q]
      /\ UNCHANGED <<notify, closed, chan>>
  OBVIOUS
<1>2. BroadcastTypeOK' /\ pc' \in [Procs -> Labels] /\ (notify \notin closed)'
  BY DEF delegate!Release
<1>3. CloserInv'
  BY <1>1 DEF CloserInv
<1>4. CapturedInv'
  BY <1>1 DEF CapturedInv
<1>5. NoLostWakeup'
  BY <1>1, <1>4 DEF NoLostWakeup, WillClose, CapturedInv
<1> QED BY <1>2, <1>3, <1>4, <1>5

\* So is a goroutine that has just moved the limit, possibly up.
LEMMA AdjustLimitStep ==
  ASSUME BroadcastInv, NEW p \in Procs, AdjustLimit(p)
  PROVE  BroadcastInv'
<1> USE DEF BroadcastInv, BroadcastTypeOK, Goto, Labels, AdjustLimit
<1>1. /\ pc[p] = "adjust" /\ pc'[p] = "swap"
      /\ \A q \in Procs \ {p} : pc'[q] = pc[q]
      /\ UNCHANGED <<notify, closed, chan>>
  OBVIOUS
<1>2. BroadcastTypeOK' /\ pc' \in [Procs -> Labels] /\ (notify \notin closed)'
  BY DEF delegate!SetLimit
<1>3. CloserInv'
  BY <1>1 DEF CloserInv
<1>4. CapturedInv'
  BY <1>1 DEF CapturedInv
<1>5. NoLostWakeup'
  BY <1>1, <1>4 DEF NoLostWakeup, WillClose, CapturedInv
<1> QED BY <1>2, <1>3, <1>4, <1>5

\* Replacing the channel hands the duty to wake its waiters from all the
\* releasers that have not yet swapped to the one that has.
LEMMA SwapNotifyStep ==
  ASSUME BroadcastInv, NEW p \in Procs, SwapNotify(p)
  PROVE  BroadcastInv'
<1> DEFINE fresh == FreshChannel
<1>1. /\ fresh \in Channels /\ fresh # notify
      /\ \A q \in Procs : chan[q] # fresh
  BY FreshChannelExists DEF BroadcastInv
<1>2. /\ pc[p] = "swap" /\ pc' = [pc EXCEPT ![p] = "close"]
      /\ chan' = [chan EXCEPT ![p] = notify]
      /\ notify' = fresh /\ closed' = closed \ {fresh}
      /\ UNCHANGED <<holders, limit, done>>
  BY DEF SwapNotify, Goto
<1> HIDE DEF fresh
<1> USE DEF BroadcastInv, BroadcastTypeOK, Labels
<1>3. HasCapacity' <=> HasCapacity
  BY <1>2, CapacityMeans
<1>4. BroadcastTypeOK' /\ pc' \in [Procs -> Labels] /\ (notify \notin closed)'
  BY <1>1, <1>2
<1>5. CloserInv'
  BY <1>1, <1>2 DEF CloserInv
<1>6. CapturedInv'
  <2> SUFFICES ASSUME NEW w \in Procs, pc'[w] \in {"try", "refused", "select"}
               PROVE  /\ chan'[w] \in Channels
                      /\ \/ chan'[w] \in closed'
                         \/ chan'[w] = notify'
                         \/ \E q \in Procs : pc'[q] = "close" /\ chan'[q] = chan'[w]
    BY DEF CapturedInv
  <2>1. w # p /\ pc'[w] = pc[w] /\ chan'[w] = chan[w] /\ chan[w] \in Channels
    BY <1>2 DEF CapturedInv
  <2>2. CASE chan[w] \in closed
    BY <1>1, <1>2, <2>1, <2>2
  <2>3. CASE chan[w] = notify
    BY <1>2, <2>1, <2>3
  <2>4. CASE \E q \in Procs : pc[q] = "close" /\ chan[q] = chan[w]
    BY <1>2, <2>1, <2>4
  <2> QED BY <2>1, <2>2, <2>3, <2>4 DEF CapturedInv
<1>7. NoLostWakeup'
  <2> SUFFICES ASSUME NEW w \in Procs, pc'[w] \in {"refused", "select"},
                      chan'[w] \notin closed', HasCapacity'
               PROVE  \E q \in Procs : WillClose(q, chan[w])'
    BY <1>2, <1>3 DEF NoLostWakeup, WillClose
  <2>1. w # p /\ pc'[w] = pc[w] /\ chan'[w] = chan[w] /\ chan[w] \notin closed
    BY <1>1, <1>2
  <2>2. PICK q \in Procs : WillClose(q, chan[w])
    BY <1>3, <2>1 DEF NoLostWakeup
  <2>3. CASE chan[w] = notify
    BY <1>2, <2>1, <2>3 DEF WillClose
  <2>4. CASE chan[w] # notify
    BY <1>2, <2>1, <2>2, <2>4 DEF WillClose
  <2> QED BY <2>3, <2>4
<1> QED BY <1>4, <1>5, <1>6, <1>7

\* Closing a channel discharges the duty to its waiters and to no others.
LEMMA CloseOldStep ==
  ASSUME BroadcastInv, NEW p \in Procs, CloseOld(p)
  PROVE  BroadcastInv'
<1>1. /\ pc[p] = "close" /\ pc' = [pc EXCEPT ![p] = "idle"]
      /\ closed' = closed \cup {chan[p]}
      /\ chan' = [chan EXCEPT ![p] = NoChannel]
      /\ UNCHANGED <<holders, limit, notify, done>>
  BY DEF CloseOld, Goto
<1> USE DEF BroadcastInv, BroadcastTypeOK, Labels
<1>2. HasCapacity' <=> HasCapacity
  BY <1>1, CapacityMeans
<1>3. BroadcastTypeOK' /\ pc' \in [Procs -> Labels] /\ (notify \notin closed)'
  BY <1>1 DEF CloserInv
<1>4. CloserInv'
  BY <1>1 DEF CloserInv
<1>5. CapturedInv'
  BY <1>1 DEF CapturedInv
<1>6. NoLostWakeup'
  <2> SUFFICES ASSUME NEW w \in Procs, pc'[w] \in {"refused", "select"},
                      chan'[w] \notin closed', HasCapacity'
               PROVE  \E q \in Procs : WillClose(q, chan[w])'
    BY DEF NoLostWakeup, WillClose
  <2>1. /\ w # p /\ pc'[w] = pc[w] /\ chan'[w] = chan[w]
        /\ chan[w] \notin closed /\ chan[w] # chan[p]
    BY <1>1
  <2>2. PICK q \in Procs : WillClose(q, chan[w])
    BY <1>2, <2>1 DEF NoLostWakeup
  <2> QED BY <1>1, <2>1, <2>2 DEF WillClose
<1> QED BY <1>3, <1>4, <1>5, <1>6

\* The initial state satisfies the invariant.
LEMMA BroadcastInitInv == BroadcastInit => BroadcastInv
<1> SUFFICES ASSUME BroadcastInit PROVE BroadcastInv
  OBVIOUS
<1>1. Channels # {}
  <2>1. Cardinality(Procs) \in Nat /\ Cardinality(Channels) # 0
    BY FS_CardinalityType, ProcsAssumption, ChannelsAssumption
  <2> QED BY <2>1, FS_EmptySet
<1> QED
  BY <1>1 DEF BroadcastInit, delegate!CoreInit, BroadcastInv, BroadcastTypeOK,
              Labels, CloserInv, CapturedInv, NoLostWakeup

\* The invariant contains the two properties about the channels.
LEMMA BroadcastInvImplies == BroadcastInv => NoDoubleClose /\ NoLostWakeup
BY DEF BroadcastInv, CloserInv, NoDoubleClose

-----------------------------------------------------------------------------
(***************************************************************************)
(* For any number of goroutines, any delegate limit and with or without    *)
(* the timeout: BlockingLimiter loses no wake-up and closes no channel     *)
(* twice.                                                                  *)
(***************************************************************************)

\* The inductive invariant: the protocol's, and this limiter's labels.
BlockingIInv == BroadcastInv /\ BlockingTypeOK

\* The initial state (NewBlockingLimiter) satisfies it.
LEMMA BlockingInitInv == BlockingInit => BlockingIInv
BY BroadcastInitInv DEF BlockingInit, BlockingIInv, BlockingTypeOK, BroadcastInv, BroadcastInit

\* Every step of tryAcquire preserves the protocol's invariant.
LEMMA BlockingAcquireStepInv ==
  ASSUME BlockingIInv, NEW p \in Procs, BlockingAcquireStep(p)
  PROVE  BroadcastInv'
<1> USE DEF BlockingIInv
<1>1. CASE CheckContext(p, "capture")
  BY <1>1, QuietStep DEF CheckContext, BroadcastInv, BroadcastTypeOK
<1>2. CASE CurrentNotify(p)
  BY <1>2, CurrentNotifyStep
<1>3. CASE TryAcquired(p)
  BY <1>3, TryAcquiredStep
<1>4. CASE TryRefused(p, "select")
  BY <1>4, TryRefusedStep
<1>5. CASE Select(p)
  BY <1>5, LeaveWaitStep DEF Select, SelectDone, SelectNotified, SelectAttemptTimer
<1> QED BY <1>1, <1>2, <1>3, <1>4, <1>5 DEF BlockingAcquireStep

\* Every step of the limiter and of its environment preserves it.
LEMMA BlockingNextInv == BlockingIInv /\ [BlockingNext]_blockingVars => BlockingIInv'
<1> SUFFICES ASSUME BlockingIInv, [BlockingNext]_blockingVars PROVE BlockingIInv'
  OBVIOUS
<1> USE DEF BlockingIInv
<1>1. BroadcastInv'
  <2>1. CASE UNCHANGED blockingVars
    BY <2>1, ContextStep DEF blockingVars, bcastVars, BroadcastInv, BroadcastTypeOK
  <2>2. ASSUME NEW p \in Procs, CallAcquire(p) PROVE BroadcastInv'
    BY <2>2, QuietStep DEF CallAcquire, BroadcastInv, BroadcastTypeOK
  <2>3. ASSUME NEW p \in Procs, CancelContext(p) PROVE BroadcastInv'
    BY <2>3, ContextStep DEF CancelContext, BroadcastInv, BroadcastTypeOK
  <2>4. ASSUME NEW p \in Procs, BlockingAcquireStep(p) PROVE BroadcastInv'
    BY <2>4, BlockingAcquireStepInv
  <2>5. ASSUME NEW p \in Procs, Complete(p) PROVE BroadcastInv'
    BY <2>5, CompleteStep
  <2>6. ASSUME NEW p \in Procs, ReleaseStep(p) PROVE BroadcastInv'
    BY <2>6, AdjustLimitStep, SwapNotifyStep, CloseOldStep DEF ReleaseStep
  <2> QED BY <2>1, <2>2, <2>3, <2>4, <2>5, <2>6 DEF BlockingNext
<1>2. (pc \in [Procs -> {"idle", "ctx", "capture", "try", "select", "held",
                         "adjust", "swap", "close"}])'
  BY DEF BlockingTypeOK, BlockingNext, blockingVars, bcastVars, Goto, CallAcquire, CancelContext,
         BlockingAcquireStep, CheckContext, CurrentNotify, TryAcquired, TryRefused,
         Select, SelectDone, SelectNotified, SelectAttemptTimer, LeaveWait, Complete,
         OnCompleted, OnIgnore, ReleaseStep, AdjustLimit, SwapNotify, CloseOld
<1>3. (hasTimeout \in BOOLEAN)'
  BY DEF BlockingTypeOK, BlockingNext, blockingVars
<1> QED BY <1>1, <1>2, <1>3 DEF BlockingTypeOK, BroadcastInv

\* The invariant holds in every reachable state.
LEMMA BlockingInvariance == BlockingSpec => []BlockingIInv
BY BlockingInitInv, BlockingNextInv, PTL DEF BlockingSpec

\* Every reachable state of BlockingLimiter is well typed.
THEOREM BlockingTypeCorrect == BlockingSpec => []BlockingTypeOK
BY BlockingInvariance, PTL DEF BlockingIInv

\* No wake-up is lost between the failed attempt and the select, however the
\* releases of other goroutines interleave with it (tryAcquire and
\* broadcastRelease in limiter/blocking.go).
THEOREM BlockingLosesNoWakeup == BlockingSpec => []NoLostWakeup
<1>1. BlockingIInv => NoLostWakeup
  BY DEF BlockingIInv, BroadcastInv
<1> QED BY <1>1, BlockingInvariance, PTL

\* Overlapping releases never close one channel twice (broadcastRelease in
\* limiter/blocking.go swaps under the lock and closes outside it).
THEOREM BlockingNeverClosesTwice == BlockingSpec => []NoDoubleClose
<1>1. BlockingIInv => NoDoubleClose
  BY BroadcastInvImplies DEF BlockingIInv
<1> QED BY <1>1, BlockingInvariance, PTL

-----------------------------------------------------------------------------
(***************************************************************************)
(* For any number of goroutines and any delegate limit: DeadlineLimiter    *)
(* loses no wake-up, closes no channel twice, and grants nothing to a      *)
(* round of tryAcquire's loop that begins after its deadline.              *)
(***************************************************************************)

\* A goroutine whose round began too late gets no further than the deadline check.
LateInv == \A p \in late : passed /\ pc[p] \in {"idle", "ctx", "deadline"}

\* The inductive invariant.
DeadlineIInv == BroadcastInv /\ TypeOK /\ LateInv

\* The initial state (NewDeadlineLimiter) satisfies it.
LEMMA DeadlineInitInv == Init => DeadlineIInv
BY BroadcastInitInv
   DEF Init, DeadlineIInv, TypeOK, LateInv, BroadcastInv, BroadcastInit

\* Every step of tryAcquire preserves the protocol's invariant.
LEMMA DeadlineAcquireStepInv ==
  ASSUME DeadlineIInv, NEW p \in Procs, AcquireStep(p)
  PROVE  BroadcastInv'
<1> USE DEF DeadlineIInv
<1>1. CASE CheckContext(p, "deadline")
  BY <1>1, QuietStep DEF CheckContext, BroadcastInv, BroadcastTypeOK
<1>2. CASE CurrentNotify(p)
  BY <1>2, CurrentNotifyStep
<1>3. CASE TryAcquired(p)
  BY <1>3, TryAcquiredStep
<1>4. CASE TryRefused(p, "refused")
  BY <1>4, TryRefusedStep
<1>5. CASE SelectDone(p) \/ SelectNotified(p) \/ SelectTimer(p)
  BY <1>5, LeaveWaitStep DEF SelectDone, SelectNotified, SelectTimer
<1>6. CASE CheckDeadline(p)
  BY <1>6, QuietStep DEF CheckDeadline, BroadcastInv, BroadcastTypeOK
<1>7. CASE RecheckDeadline(p)
  <2>1. CASE passed
    BY <1>7, <2>1, LeaveWaitStep DEF RecheckDeadline
  <2>2. CASE ~passed
    BY <1>7, <2>2, QuietStep DEF RecheckDeadline, BroadcastInv, BroadcastTypeOK
  <2> QED BY <2>1, <2>2
<1> QED BY <1>1, <1>2, <1>3, <1>4, <1>5, <1>6, <1>7 DEF AcquireStep

\* Every step of the limiter and of its environment preserves the protocol's
\* invariant.
LEMMA DeadlineProtocolInv == DeadlineIInv /\ [Next]_vars => BroadcastInv'
<1> SUFFICES ASSUME DeadlineIInv, [Next]_vars PROVE BroadcastInv'
  OBVIOUS
<1> USE DEF DeadlineIInv
<1>1. CASE UNCHANGED vars \/ DeadlinePasses
  BY <1>1, ContextStep
     DEF vars, bcastVars, DeadlinePasses, BroadcastInv, BroadcastTypeOK
<1>2. ASSUME NEW p \in Procs, Call(p) PROVE BroadcastInv'
  BY <1>2, QuietStep DEF Call, CallAcquire, BroadcastInv, BroadcastTypeOK
<1>3. ASSUME NEW p \in Procs, CancelContext(p) PROVE BroadcastInv'
  BY <1>3, ContextStep DEF CancelContext, BroadcastInv, BroadcastTypeOK
<1>4. ASSUME NEW p \in Procs, AcquireStep(p) PROVE BroadcastInv'
  BY <1>4, DeadlineAcquireStepInv
<1>5. ASSUME NEW p \in Procs, Complete(p) PROVE BroadcastInv'
  BY <1>5, CompleteStep
<1>6. ASSUME NEW p \in Procs, ReleaseStep(p) PROVE BroadcastInv'
  BY <1>6, AdjustLimitStep, SwapNotifyStep, CloseOldStep DEF ReleaseStep
<1> QED BY <1>1, <1>2, <1>3, <1>4, <1>5, <1>6 DEF Next

\* Every step preserves the labels' and the clock's part of the invariant.
LEMMA DeadlineNextInv == DeadlineIInv /\ [Next]_vars => DeadlineIInv'
<1> SUFFICES ASSUME DeadlineIInv, [Next]_vars PROVE DeadlineIInv'
  OBVIOUS
<1> USE DEF DeadlineIInv
<1>1. BroadcastInv'
  BY DeadlineProtocolInv
<1>2. TypeOK' /\ LateInv'
  <2> USE DEF TypeOK, LateInv, Goto, clockVars
  <2>1. CASE UNCHANGED vars
    BY <1>1, <2>1 DEF vars, bcastVars, BroadcastInv
  <2>2. CASE DeadlinePasses
    BY <1>1, <2>2 DEF DeadlinePasses, bcastVars, BroadcastInv
  <2>3. ASSUME NEW p \in Procs, Call(p) PROVE TypeOK' /\ LateInv'
    BY <1>1, <2>3 DEF Call, BeginRound, CallAcquire, BroadcastInv
  <2>4. ASSUME NEW p \in Procs, CancelContext(p), UNCHANGED clockVars
        PROVE  TypeOK' /\ LateInv'
    BY <1>1, <2>4 DEF CancelContext, BroadcastInv
  <2>5. ASSUME NEW p \in Procs, AcquireStep(p) PROVE TypeOK' /\ LateInv'
    BY <1>1, <2>5
       DEF AcquireStep, CheckContext, CurrentNotify, TryAcquired, TryRefused,
           SelectDone, SelectNotified, SelectTimer, CheckDeadline,
           RecheckDeadline, LeaveWait, BeginRound, BroadcastInv
  <2>6. ASSUME NEW p \in Procs, Complete(p) \/ ReleaseStep(p), UNCHANGED clockVars
        PROVE  TypeOK' /\ LateInv'
    BY <1>1, <2>6
       DEF Complete, OnCompleted, OnIgnore, ReleaseStep, AdjustLimit,
           SwapNotify, CloseOld, BroadcastInv
  <2> QED BY <2>1, <2>2, <2>3, <2>4, <2>5, <2>6 DEF Next
<1> QED BY <1>1, <1>2

\* The invariant holds in every reachable state.
LEMMA DeadlineInvariance == Spec => []DeadlineIInv
BY DeadlineInitInv, DeadlineNextInv, PTL DEF Spec

\* Every reachable state of DeadlineLimiter is well typed.
THEOREM DeadlineTypeCorrect == Spec => []TypeOK
BY DeadlineInvariance, PTL DEF DeadlineIInv

\* No wake-up is lost between the failed attempt and the select (tryAcquire
\* and broadcastRelease in limiter/deadline.go).
THEOREM DeadlineLosesNoWakeup == Spec => []NoLostWakeup
<1>1. DeadlineIInv => NoLostWakeup
  BY DEF DeadlineIInv, BroadcastInv
<1> QED BY <1>1, DeadlineInvariance, PTL

\* Overlapping releases never close one channel twice.
THEOREM DeadlineNeverClosesTwice == Spec => []NoDoubleClose
<1>1. DeadlineIInv => NoDoubleClose
  BY BroadcastInvImplies DEF DeadlineIInv
<1> QED BY <1>1, DeadlineInvariance, PTL

\* Neither a call of Acquire made after the deadline nor one woken after it
\* obtains a token.
THEOREM LateCallsGetNothing == Spec => []NoGrantAfterDeadline
<1>1. DeadlineIInv => NoGrantAfterDeadline
  BY DEF DeadlineIInv, LateInv, NoGrantAfterDeadline
<1> QED BY <1>1, DeadlineInvariance, PTL
=============================================================================
