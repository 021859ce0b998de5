---------------------- MODULE QueueBlockingLimiterProofs ----------------------
(***************************************************************************)
(* QueueInv is inductive for QueueBlockingLimiter: whatever the number of  *)
(* goroutines, the limits and the configuration, tokens are accounted for  *)
(* through the hand-over, the backlog is bounded and holds only elements   *)
(* whose owner waits, and with OrderingFIFO the oldest is served.          *)
(***************************************************************************)
EXTENDS QueueBlockingLimiter, FiniteSetTheorems, SequenceTheorems, TLAPS

\* What list.Remove does to a list without duplicates: position k goes and
\* the elements behind it move up.
LEMMA RemoveFirstAt ==
  ASSUME NEW S, NEW s \in Seq(S), IsInjective(s), NEW k \in 1 .. Len(s)
  PROVE  LET r == RemoveFirst(s, s[k]) IN
         /\ r \in Seq(S)
         /\ Len(r) = Len(s) - 1
         /\ \A i \in 1 .. Len(s) - 1 : r[i] = IF i < k THEN s[i] ELSE s[i + 1]
<1> DEFINE a == SubSeq(s, 1, k - 1)
           b == SubSeq(s, k + 1, Len(s))
<1>1. {i \in 1 .. Len(s) : s[i] = s[k]} = {k}
  BY DEF IsInjective
<1>2. Min({k}) = k
  BY DEF Min
<1>3. RemoveFirst(s, s[k]) = a \o b
  BY <1>1, <1>2 DEF RemoveFirst, RemoveAt, SelectInSeq
<1>4. /\ a \in Seq(S) /\ Len(a) = k - 1
      /\ \A i \in 1 .. k - 1 : a[i] = s[i]
  <2>1. \A i \in 1 .. k - 1 : s[i] \in S
    OBVIOUS
  <2> QED BY <2>1, SubSeqProperties
<1>5. /\ b \in Seq(S) /\ Len(b) = Len(s) - k
      /\ \A i \in 1 .. Len(s) - k : b[i] = s[k + i]
  <2>1. \A i \in k + 1 .. Len(s) : s[i] \in S
    OBVIOUS
  <2>2. /\ SubSeq(s, k + 1, Len(s)) \in Seq(S)
        /\ Len(SubSeq(s, k + 1, Len(s))) =
             IF k + 1 <= Len(s) THEN Len(s) - (k + 1) + 1 ELSE 0
        /\ \A i \in 1 .. Len(s) - (k + 1) + 1 :
             SubSeq(s, k + 1, Len(s))[i] = s[(k + 1) + i - 1]
    BY <2>1, SubSeqProperties
  <2> QED BY <2>2
<1> HIDE DEF a, b
<1>6. /\ a \o b \in Seq(S)
      /\ Len(a \o b) = Len(a) + Len(b)
      /\ \A i \in 1 .. Len(a) + Len(b) :
           (a \o b)[i] = IF i <= Len(a) THEN a[i] ELSE b[i - Len(a)]
  BY <1>4, <1>5, ConcatProperties
<1> QED BY <1>3, <1>4, <1>5, <1>6

\* Removing an element that is not in the list does nothing.
LEMMA RemoveFirstAbsent ==
  ASSUME NEW S, NEW s \in Seq(S), NEW e, e \notin ToSet(s)
  PROVE  RemoveFirst(s, e) = s
BY DEF RemoveFirst, ToSet

\* What the limiter needs of list.Remove: nothing but e goes, the list does
\* not grow, and its last element stays unless it is e.
LEMMA RemoveFirstFacts ==
  ASSUME NEW S, NEW s \in Seq(S), IsInjective(s), NEW e
  PROVE  LET r == RemoveFirst(s, e) IN
         /\ r \in Seq(S)
         /\ Len(r) <= Len(s)
         /\ IsInjective(r)
         /\ \A x : x \in ToSet(r) => x \in ToSet(s) /\ x # e
         /\ \A x \in ToSet(r) : x = Last(s) => x = Last(r)
         /\ e \in ToSet(s) /\ e = Last(s) => r = Front(s)
<1> DEFINE r == RemoveFirst(s, e)
<1>1. CASE e \notin ToSet(s)
  BY <1>1, RemoveFirstAbsent
<1>2. CASE e \in ToSet(s)
  <2>1. PICK k \in 1 .. Len(s) : s[k] = e
    BY <1>2 DEF ToSet
  <2>2. /\ r \in Seq(S)
        /\ Len(r) = Len(s) - 1
        /\ \A i \in 1 .. Len(s) - 1 : r[i] = IF i < k THEN s[i] ELSE s[i + 1]
    BY <2>1, RemoveFirstAt
  <2> HIDE DEF r
  <2>3. DOMAIN r = 1 .. Len(s) - 1 /\ DOMAIN s = 1 .. Len(s)
    BY <2>2
  <2>4. IsInjective(r)
    <3>1. ASSUME NEW i \in 1 .. Len(s) - 1, NEW j \in 1 .. Len(s) - 1, r[i] = r[j]
          PROVE  i = j
      <4> DEFINE at(n) == IF n < k THEN n ELSE n + 1
      <4>1. at(i) \in DOMAIN s /\ at(j) \in DOMAIN s
        BY <2>3
      <4>2. s[at(i)] = r[i] /\ s[at(j)] = r[j]
        BY <2>2
      <4>3. at(i) = at(j)
        BY <3>1, <4>1, <4>2 DEF IsInjective
      <4> QED BY <4>3
    <3> QED BY <2>3, <3>1 DEF IsInjective
  <2>5. ASSUME NEW x \in ToSet(r)
        PROVE  x \in ToSet(s) /\ x # e
    <3>1. PICK i \in 1 .. Len(s) - 1 : x = r[i]
      BY <2>3 DEF ToSet
    <3>2. CASE i < k
      <4>1. i \in 1 .. Len(s) /\ i # k /\ x = s[i]
        BY <2>2, <3>1, <3>2
      <4> QED BY <2>1, <2>3, <4>1 DEF ToSet, IsInjective
    <3>3. CASE ~(i < k)
      <4>1. i + 1 \in 1 .. Len(s) /\ i + 1 # k /\ x = s[i + 1]
        BY <2>2, <3>1, <3>3
      <4> QED BY <2>1, <2>3, <4>1 DEF ToSet, IsInjective
    <3> QED BY <3>2, <3>3
  <2>6. ASSUME NEW x \in ToSet(r), x = Last(s)
        PROVE  x = Last(r)
    <3>1. k # Len(s)
      BY <2>1, <2>5, <2>6 DEF Last
    <3> QED BY <2>2, <2>6, <3>1 DEF Last
  <2>7. ASSUME e = Last(s)
        PROVE  r = Front(s)
    <3>1. k = Len(s)
      <4>1. Len(s) \in DOMAIN s /\ k \in DOMAIN s /\ s[k] = s[Len(s)]
        BY <2>1, <2>3, <2>7 DEF Last
      <4> QED BY <4>1 DEF IsInjective
    <3>3. /\ Front(s) \in Seq(S)
          /\ Len(Front(s)) = Len(s) - 1
          /\ \A i \in 1 .. Len(s) - 1 : Front(s)[i] = s[i]
      <4> DEFINE n == Len(s) - 1
                 f == SubSeq(s, 1, n)
      <4>1. n \in Nat /\ \A i \in 1 .. n : s[i] \in S
        BY <2>1
      <4>2. Front(s) = f
        BY DEF Front
      <4> HIDE DEF n
      <4>3. /\ f \in Seq(S)
            /\ Len(f) = IF 1 <= n THEN n - 1 + 1 ELSE 0
            /\ \A i \in 1 .. n - 1 + 1 : f[i] = s[1 + i - 1]
        BY <4>1, SubSeqProperties
      <4> HIDE DEF f
      <4>4. Len(f) = n /\ \A i \in 1 .. n : f[i] = s[i]
        BY <4>1, <4>3
      <4> QED BY <4>2, <4>3, <4>4 DEF n
    <3> HIDE DEF Front
    <3>4. \A i \in 1 .. Len(r) : r[i] = Front(s)[i]
      BY <2>2, <3>1, <3>3
    <3> QED BY <2>2, <3>3, <3>4, SeqEqual
  <2> QED BY <2>2, <2>4, <2>5, <2>6, <2>7 DEF r
<1> QED BY <1>1, <1>2

\* What l.list.PushFront does: the new element is in front, the rest keeps
\* its order and its back.
LEMMA PushFrontFacts ==
  ASSUME NEW S, NEW s \in Seq(S), IsInjective(s), NEW e \in S, e \notin ToSet(s)
  PROVE  LET r == <<e>> \o s IN
         /\ r \in Seq(S)
         /\ Len(r) = Len(s) + 1
         /\ IsInjective(r)
         /\ ToSet(r) = ToSet(s) \cup {e}
         /\ s # <<>> => Last(r) = Last(s)
<1> DEFINE r == <<e>> \o s
<1>1. /\ r \in Seq(S)
      /\ Len(r) = Len(s) + 1
      /\ \A i \in 1 .. Len(s) + 1 : r[i] = IF i = 1 THEN e ELSE s[i - 1]
  OBVIOUS
<1> HIDE DEF r
<1>2. DOMAIN r = 1 .. Len(s) + 1 /\ DOMAIN s = 1 .. Len(s)
  BY <1>1
<1>3. IsInjective(r)
  BY <1>1, <1>2 DEF IsInjective, ToSet
<1>4. ToSet(r) = ToSet(s) \cup {e}
  <2>1. ToSet(r) \subseteq ToSet(s) \cup {e}
    BY <1>1, <1>2 DEF ToSet
  <2>2. ASSUME NEW x \in ToSet(s) PROVE x \in ToSet(r)
    <3>1. PICK i \in 1 .. Len(s) : x = s[i]
      BY <1>2 DEF ToSet
    <3>2. i + 1 \in DOMAIN r /\ r[i + 1] = x
      BY <1>1, <1>2, <3>1
    <3> QED BY <3>2 DEF ToSet
  <2>3. e \in ToSet(r)
    BY <1>1, <1>2 DEF ToSet
  <2> QED BY <2>1, <2>2, <2>3
<1>5. s # <<>> => Last(r) = Last(s)
  BY <1>1 DEF Last
<1> QED BY <1>1, <1>3, <1>4, <1>5 DEF r

\* The pool is large enough: FreshElement is an element nobody references.
LEMMA FreshElementExists ==
  ASSUME TypeOK, NEW p \in Procs, elem[p] = None
  PROVE  /\ FreshElement \in Elements
         /\ FreshElement # target
         /\ \A q \in Procs : elem[q] # FreshElement
<1> DEFINE local == {elem[q] : q \in Procs}
           owned == local \ {None}
           used  == owned \cup {target}
<1>1. IsFiniteSet(local) /\ Cardinality(local) <= Cardinality(Procs)
  <2>1. elem \in Surjection(Procs, local)
    BY DEF TypeOK, Surjection
  <2> HIDE DEF local
  <2> QED BY <2>1, FS_Surjection, QueueAssumptions
<1>2. IsFiniteSet(owned) /\ Cardinality(owned) = Cardinality(local) - 1
  <2>1. None \in local
    OBVIOUS
  <2> HIDE DEF local
  <2> QED BY <1>1, <2>1, FS_RemoveElement
<1>3. IsFiniteSet(used) /\ Cardinality(used) <= Cardinality(owned) + 1
  <2> HIDE DEF owned, local
  <2>1. Cardinality(owned) \in Nat
    BY <1>2, FS_CardinalityType
  <2>2. /\ IsFiniteSet(owned \cup {target})
        /\ Cardinality(owned \cup {target}) =
             IF target \in owned THEN Cardinality(owned) ELSE Cardinality(owned) + 1
    BY <1>2, FS_AddElement
  <2> QED BY <2>1, <2>2
<1>4. ~(Elements \subseteq used)
  <2> HIDE DEF used, owned, local
  <2>1. /\ Cardinality(Procs) \in Nat /\ Cardinality(local) \in Nat
        /\ Cardinality(owned) \in Nat
        /\ Cardinality(used) \in Nat /\ Cardinality(Elements) \in Nat
    BY <1>1, <1>2, <1>3, FS_CardinalityType, QueueAssumptions
  <2>2. Cardinality(used) < Cardinality(Elements)
    BY <1>1, <1>2, <1>3, <2>1, QueueAssumptions
  <2> QED BY <1>3, <2>1, <2>2, FS_Subset
<1>5. \E e \in Elements : e # target /\ \A q \in Procs : elem[q] # e
  BY <1>4, QueueAssumptions
<1> QED BY <1>5 DEF FreshElement

-----------------------------------------------------------------------------
\* The initial states satisfy the invariant.
LEMMA QueueInvInit == Init => QueueInv
<1> SUFFICES ASSUME Init PROVE QueueInv
  OBVIOUS
<1> USE QueueAssumptions DEF Init, delegate!CoreInit
<1>1. TypeOK
  BY DEF TypeOK
<1>2. TokensAccounted /\ BacklogBounded /\ OwnersWait
  BY DEF TokensAccounted, BacklogBounded, OwnersWait
<1>3. BacklogAlive
  BY DEF BacklogAlive, IsInjective, ToSet
<1>4. TargetInv
  BY DEF TargetInv
<1> QED BY <1>1, <1>2, <1>3, <1>4 DEF QueueInv

\* A goroutine that moves between labels outside the token's path, or leaves
\* a wait it keeps its element for, changes nothing the invariant is about.
LEMMA QuietStep ==
  ASSUME QueueInv, NEW p \in Procs,
         NEW l \in {"idle", "try", "push", "select", "expired", "unblock"},
         Goto(p, l), UNCHANGED <<backlog, elem, mu, target, config, holders>>,
         \/ pc[p] \in {"idle", "try", "push", "adjust", "unblock"}
         \/ pc[p] \in {"queued", "select"} /\ l \in {"select", "expired"},
         limit' \in Limits, done' \subseteq Procs
  PROVE  QueueInv'
<1> USE DEF QueueInv, TypeOK, Goto
<1>1. TypeOK'
  OBVIOUS
<1>2. TokensAccounted' /\ BacklogBounded' /\ OwnersWait'
  BY DEF TokensAccounted, BacklogBounded, OwnersWait
<1>3. BacklogAlive'
  BY DEF BacklogAlive
<1>4. TargetInv'
  BY DEF TargetInv
<1> QED BY <1>1, <1>2, <1>3, <1>4

\* Stuttering, and a context's cancellation.
LEMMA ContextStep ==
  ASSUME QueueInv, done' \subseteq Procs,
         UNCHANGED <<holders, limit, pc, backlog, elem, mu, target, config>>
  PROVE  QueueInv'
BY DEF QueueInv, TypeOK, TokensAccounted, BacklogBounded, BacklogAlive,
       TargetInv, OwnersWait

\* A goroutine obtains a token for itself, or gives its own back.
LEMMA OwnTokenStep ==
  ASSUME QueueInv, NEW p \in Procs,
         \/ pc[p] = "try" /\ delegate!Acquire(p) /\ Goto(p, "held")
         \/ /\ pc[p] = "held" /\ delegate!Release(p)
            /\ Goto(p, "adjust") \/ Goto(p, "unblock"),
         UNCHANGED <<backlog, elem, mu, target, done, config>>
  PROVE  QueueInv'
<1> USE DEF QueueInv, TypeOK, Goto, delegate!Acquire, delegate!Release
<1>1. TypeOK'
  OBVIOUS
<1>2. TokensAccounted'
  BY DEF TokensAccounted
<1>3. BacklogBounded' /\ OwnersWait'
  BY DEF BacklogBounded, OwnersWait
<1>4. BacklogAlive'
  BY DEF BacklogAlive
<1>5. TargetInv'
  BY DEF TargetInv
<1> QED BY <1>1, <1>2, <1>3, <1>4, <1>5

\* A queued element is fresh, so no list element and no served element is it.
LEMMA PushStep ==
  ASSUME QueueInv, NEW p \in Procs, PushWithCapacity(p), UNCHANGED config
  PROVE  QueueInv'
<1>1. CASE Len(backlog) >= config.maxBacklogSize
  BY <1>1, QuietStep DEF PushWithCapacity, QueueInv, TypeOK
<1>2. CASE ~(Len(backlog) >= config.maxBacklogSize)
  <2> DEFINE e == FreshElement
  <2>1. /\ pc[p] = "push"
        /\ backlog' = <<e>> \o backlog
        /\ elem' = [elem EXCEPT ![p] = e]
        /\ pc' = [pc EXCEPT ![p] = "queued"]
        /\ UNCHANGED <<holders, limit, mu, target, done, config>>
    BY <1>2 DEF PushWithCapacity, Goto
  <2>2. elem[p] = None
    BY <2>1 DEF QueueInv, OwnersWait
  <2>3. e \in Elements /\ e # target /\ \A q \in Procs : elem[q] # e
    BY <2>2, FreshElementExists DEF QueueInv
  <2> HIDE DEF e
  <2>4. e \notin ToSet(backlog) /\ IsInjective(backlog) /\ backlog \in Seq(Elements)
    BY <2>3 DEF QueueInv, BacklogAlive, TypeOK
  <2>5. /\ backlog' \in Seq(Elements)
        /\ Len(backlog') = Len(backlog) + 1
        /\ IsInjective(backlog')
        /\ ToSet(backlog') = ToSet(backlog) \cup {e}
        /\ backlog # <<>> => Last(backlog') = Last(backlog)
    BY <2>1, <2>3, <2>4, PushFrontFacts
  <2>6. TypeOK'
    BY <2>1, <2>3, <2>5 DEF QueueInv, TypeOK
  <2>7. TokensAccounted' /\ OwnersWait'
    BY <2>1 DEF QueueInv, TypeOK, TokensAccounted, OwnersWait
  <2>8. BacklogBounded'
    <3>1. Len(backlog) \in Nat /\ config.maxBacklogSize \in Nat
      BY <2>4, QueueAssumptions DEF QueueInv, TypeOK
    <3> QED BY <1>2, <2>1, <2>5, <3>1 DEF BacklogBounded
  <2>9. BacklogAlive'
    <3> SUFFICES ASSUME NEW x \in ToSet(backlog')
                 PROVE  \E q \in Procs : /\ elem'[q] = x
                                         /\ pc'[q] \in {"queued", "select", "expired"}
      BY <2>5 DEF BacklogAlive
    <3>1. CASE x = e
      BY <2>1, <3>1 DEF QueueInv, TypeOK
    <3>2. CASE x \in ToSet(backlog)
      <4>1. PICK q \in Procs : elem[q] = x /\ pc[q] \in {"queued", "select", "expired"}
        BY <3>2 DEF QueueInv, BacklogAlive
      <4>2. q # p
        BY <2>1, <4>1
      <4> QED BY <2>1, <4>1, <4>2 DEF QueueInv, TypeOK
    <3> QED BY <2>5, <3>1, <3>2
  <2>10. TargetInv'
    <3>1. ToSet(backlog) # {} => backlog # <<>>
      BY <2>4 DEF ToSet
    <3> QED BY <2>1, <2>3, <2>5, <3>1 DEF QueueInv, TypeOK, TargetInv
  <2> QED BY <2>6, <2>7, <2>8, <2>9, <2>10 DEF QueueInv
<1> QED BY <1>1, <1>2

\* Removing any element keeps the list short, without duplicates, and the
\* element that unblock has peeked at its back.
LEMMA RemoveStep ==
  ASSUME QueueInv, NEW e, backlog' = RemoveFirst(backlog, e)
  PROVE  /\ backlog' \in Seq(Elements)
         /\ Len(backlog') <= Len(backlog)
         /\ IsInjective(backlog')
         /\ \A x : x \in ToSet(backlog') => x \in ToSet(backlog) /\ x # e
         /\ \A x \in ToSet(backlog') : x = Last(backlog) => x = Last(backlog')
         /\ e \in ToSet(backlog) /\ e = Last(backlog) => backlog' = Front(backlog)
         /\ Len(backlog') \in Nat /\ Len(backlog) \in Nat
<1>1. backlog \in Seq(Elements) /\ IsInjective(backlog)
  BY DEF QueueInv, TypeOK, BacklogAlive
<1>2. /\ backlog' \in Seq(Elements)
      /\ Len(backlog') <= Len(backlog)
      /\ IsInjective(backlog')
      /\ \A x : x \in ToSet(backlog') => x \in ToSet(backlog) /\ x # e
      /\ \A x \in ToSet(backlog') : x = Last(backlog) => x = Last(backlog')
      /\ e \in ToSet(backlog) /\ e = Last(backlog) => backlog' = Front(backlog)
  BY <1>1, RemoveFirstFacts
<1>3. Len(backlog') \in Nat /\ Len(backlog) \in Nat
  BY <1>1, <1>2
<1> QED BY <1>2, <1>3

\* An expired waiter takes its own element away, wherever unblock is.
LEMMA EvictOwnStep ==
  ASSUME QueueInv, NEW p \in Procs, EvictOwn(p), UNCHANGED config
  PROVE  QueueInv'
<1> USE DEF QueueInv, TypeOK, EvictOwn, Goto
<1> DEFINE e == elem[p]
<1>1. /\ backlog' \in Seq(Elements)
      /\ Len(backlog') <= Len(backlog)
      /\ IsInjective(backlog')
      /\ \A x : x \in ToSet(backlog') => x \in ToSet(backlog) /\ x # e
      /\ \A x \in ToSet(backlog') : x = Last(backlog) => x = Last(backlog')
      /\ Len(backlog') \in Nat /\ Len(backlog) \in Nat
  BY RemoveStep
<1>2. TypeOK'
  BY <1>1
<1>3. TokensAccounted' /\ OwnersWait'
  BY DEF TokensAccounted, OwnersWait
<1>4. BacklogBounded'
  BY <1>1, QueueAssumptions DEF BacklogBounded
<1>5. BacklogAlive'
  <2> SUFFICES ASSUME NEW x \in ToSet(backlog')
               PROVE  \E q \in Procs : /\ elem'[q] = x
                                       /\ pc'[q] \in {"queued", "select", "expired"}
    BY <1>1 DEF BacklogAlive
  <2>1. PICK q \in Procs : elem[q] = x /\ pc[q] \in {"queued", "select", "expired"}
    BY <1>1 DEF BacklogAlive
  <2>2. q # p
    BY <1>1, <2>1
  <2> QED BY <2>1, <2>2
<1>6. TargetInv'
  BY <1>1 DEF TargetInv
<1> QED BY <1>2, <1>3, <1>4, <1>5, <1>6

\* peek returns an element of the list, with OrderingFIFO the oldest.
LEMMA PeekFacts ==
  ASSUME QueueInv, backlog # <<>>
  PROVE  /\ Peek \in ToSet(backlog) /\ Peek \in Elements
         /\ config.fifo => Peek = Last(backlog)
<1>1. backlog \in Seq(Elements)
  BY DEF QueueInv, TypeOK
<1>2. Len(backlog) \in DOMAIN backlog /\ 1 \in DOMAIN backlog
  BY <1>1
<1>3. Head(backlog) = backlog[1]
  BY <1>1
<1> QED BY <1>1, <1>2, <1>3 DEF Peek, Last, ToSet

\* The lock is taken with an element to serve, or not at all.
LEMMA LockAndPeekStep ==
  ASSUME QueueInv, NEW p \in Procs, LockAndPeek(p), UNCHANGED config
  PROVE  QueueInv'
<1>1. CASE backlog = <<>>
  BY <1>1, QuietStep DEF LockAndPeek, QueueInv, TypeOK
<1>2. CASE backlog # <<>>
  <2> USE DEF QueueInv, TypeOK, LockAndPeek, Goto
  <2>1. /\ Peek \in Elements
        /\ config.fifo => Peek = Last(backlog)
    BY <1>2, PeekFacts
  <2>2. TypeOK'
    BY <1>2, <2>1, QueueAssumptions
  <2>3. TokensAccounted' /\ BacklogBounded' /\ OwnersWait'
    BY <1>2, QueueAssumptions DEF TokensAccounted, BacklogBounded, OwnersWait
  <2>4. BacklogAlive'
    BY <1>2 DEF BacklogAlive
  <2>5. TargetInv'
    BY <1>2, <2>1, QueueAssumptions DEF TokensAccounted, TargetInv
  <2> QED BY <2>2, <2>3, <2>4, <2>5
<1> QED BY <1>1, <1>2

\* The holder of the lock takes a token for the element, or gives up.
LEMMA AcquireForNextStep ==
  ASSUME QueueInv, NEW p \in Procs, AcquireForNext(p), UNCHANGED config
  PROVE  QueueInv'
<1> USE DEF QueueInv, TypeOK, AcquireForNext, Goto, Unlock, delegate!Acquire,
            delegate!Refuse, delegate!coreVars
<1>1. TypeOK'
  BY QueueAssumptions
<1>2. TokensAccounted'
  BY QueueAssumptions DEF TokensAccounted
<1>3. BacklogBounded' /\ OwnersWait'
  BY DEF BacklogBounded, OwnersWait
<1>4. BacklogAlive'
  BY DEF BacklogAlive
<1>5. TargetInv'
  BY QueueAssumptions DEF TokensAccounted, TargetInv
<1> QED BY <1>1, <1>2, <1>3, <1>4, <1>5

\* unblock evicts the element it serves.
LEMMA EvictNextStep ==
  ASSUME QueueInv, NEW p \in Procs, EvictNext(p), UNCHANGED config
  PROVE  QueueInv'
<1> USE DEF QueueInv, TypeOK, EvictNext, Goto
<1>1. /\ backlog' \in Seq(Elements)
      /\ Len(backlog') <= Len(backlog)
      /\ IsInjective(backlog')
      /\ \A x : x \in ToSet(backlog') => x \in ToSet(backlog) /\ x # target
      /\ Len(backlog') \in Nat /\ Len(backlog) \in Nat
  BY RemoveStep
<1>2. TypeOK'
  BY <1>1
<1>3. TokensAccounted' /\ OwnersWait'
  BY DEF TokensAccounted, OwnersWait
<1>4. BacklogBounded'
  BY <1>1, QueueAssumptions DEF BacklogBounded
<1>5. BacklogAlive'
  BY <1>1 DEF BacklogAlive
<1>6. TargetInv'
  BY <1>1 DEF TargetInv
<1> QED BY <1>2, <1>3, <1>4, <1>5, <1>6

\* The listener passes to the owner of the served element, which the list no
\* longer holds.
LEMMA ListenerAcceptedStep ==
  ASSUME QueueInv, NEW p \in Procs, ListenerAccepted(p), UNCHANGED config
  PROVE  QueueInv'
<1> USE DEF QueueInv, TypeOK, ListenerAccepted
<1>1. PICK w \in Procs :
        /\ pc[w] = "select" /\ elem[w] = target
        /\ holders' = (holders \ {p}) \cup {w}
        /\ pc' = [pc EXCEPT ![p] = "idle", ![w] = "held"]
        /\ elem' = [elem EXCEPT ![w] = None]
  BY DEF Receivers
<1>2. w # p /\ target \notin ToSet(backlog)
  BY <1>1 DEF TargetInv
<1>3. TypeOK'
  BY <1>1, QueueAssumptions
<1>4. TokensAccounted'
  BY <1>1, <1>2, QueueAssumptions DEF TokensAccounted
<1>5. BacklogBounded' /\ OwnersWait'
  BY <1>1, <1>2 DEF BacklogBounded, OwnersWait
<1>6. BacklogAlive'
  <2> SUFFICES ASSUME NEW x \in ToSet(backlog)
               PROVE  \E q \in Procs : /\ elem'[q] = x
                                       /\ pc'[q] \in {"queued", "select", "expired"}
    BY DEF BacklogAlive
  <2>1. PICK q \in Procs : elem[q] = x /\ pc[q] \in {"queued", "select", "expired"}
    BY DEF BacklogAlive
  <2>2. q # w /\ q # p
    BY <1>1, <1>2, <2>1
  <2> QED BY <1>1, <2>1, <2>2
<1>7. TargetInv'
  BY <1>1, <1>2, QueueAssumptions DEF TokensAccounted, TargetInv
<1> QED BY <1>3, <1>4, <1>5, <1>6, <1>7

\* A listener nobody receives is given back to the delegate.
LEMMA ListenerRefusedStep ==
  ASSUME QueueInv, NEW p \in Procs, ListenerRefused(p), UNCHANGED config
  PROVE  QueueInv'
<1> USE DEF QueueInv, TypeOK, ListenerRefused, Goto, Unlock, delegate!Release
<1>1. TypeOK'
  BY QueueAssumptions
<1>2. TokensAccounted'
  BY QueueAssumptions DEF TokensAccounted
<1>3. BacklogBounded' /\ OwnersWait'
  BY DEF BacklogBounded, OwnersWait
<1>4. BacklogAlive'
  BY DEF BacklogAlive
<1>5. TargetInv'
  BY QueueAssumptions DEF TokensAccounted, TargetInv
<1> QED BY <1>1, <1>2, <1>3, <1>4, <1>5

\* Every step of the limiter preserves the invariant.
LEMMA QueueInvNext == QueueInv /\ [Next]_vars => QueueInv'
<1> SUFFICES ASSUME QueueInv, [Next]_vars PROVE QueueInv'
  OBVIOUS
<1>1. CASE UNCHANGED vars
  BY <1>1, ContextStep DEF vars, queueVars, QueueInv, TypeOK
<1>2. CASE Next
  <2>1. UNCHANGED config
    BY <1>2 DEF Next
  <2>2. PICK p \in Procs : \/ Call(p) \/ CancelContext(p) \/ AcquireStep(p)
                           \/ Complete(p) \/ UnblockStep(p)
    BY <1>2 DEF Next
  <2>3. CASE Call(p)
    BY <2>1, <2>3, QuietStep DEF Call, QueueInv, TypeOK
  <2>4. CASE CancelContext(p)
    BY <2>1, <2>4, ContextStep DEF CancelContext, QueueInv, TypeOK
  <2>5. CASE TryDelegate(p)
    <3>1. CASE delegate!Acquire(p) /\ Goto(p, "held")
      BY <2>1, <2>5, <3>1, OwnTokenStep DEF TryDelegate
    <3>2. CASE delegate!Refuse(p) /\ Goto(p, "push")
      BY <2>1, <2>5, <3>2, QuietStep
         DEF TryDelegate, delegate!Refuse, delegate!coreVars, QueueInv, TypeOK
    <3> QED BY <2>5, <3>1, <3>2 DEF TryDelegate
  <2>6. CASE PushWithCapacity(p)
    BY <2>1, <2>6, PushStep
  <2>7. CASE EnterSelect(p)
    BY <2>1, <2>7, QuietStep DEF EnterSelect, QueueInv, TypeOK
  <2>8. CASE SelectExpired(p)
    BY <2>1, <2>8, QuietStep DEF SelectExpired, QueueInv, TypeOK
  <2>9. CASE EvictOwn(p)
    BY <2>1, <2>9, EvictOwnStep
  <2>10. CASE Complete(p)
    BY <2>1, <2>10, OwnTokenStep DEF Complete
  <2>11. CASE AdjustLimit(p)
    BY <2>1, <2>11, QuietStep DEF AdjustLimit, delegate!SetLimit, QueueInv, TypeOK
  <2>12. CASE LockAndPeek(p)
    BY <2>1, <2>12, LockAndPeekStep
  <2>13. CASE AcquireForNext(p)
    BY <2>1, <2>13, AcquireForNextStep
  <2>14. CASE EvictNext(p)
    BY <2>1, <2>14, EvictNextStep
  <2>15. CASE ListenerAccepted(p)
    BY <2>1, <2>15, ListenerAcceptedStep
  <2>16. CASE ListenerRefused(p)
    BY <2>1, <2>16, ListenerRefusedStep
  <2> QED
    BY <2>2, <2>3, <2>4, <2>5, <2>6, <2>7, <2>8, <2>9, <2>10, <2>11, <2>12,
       <2>13, <2>14, <2>15, <2>16 DEF AcquireStep, UnblockStep
<1> QED BY <1>1, <1>2

\* QueueInv holds in every reachable state.
LEMMA QueueInvariant == Spec => []QueueInv
BY QueueInvInit, QueueInvNext, PTL DEF Spec

\* The types of the limiter's fields, and limiter.mu is held exactly while an
\* element is being served: no path of unblock returns with it.
THEOREM QueueTypeCorrect == Spec => []TypeOK
<1>1. QueueInv => TypeOK
  BY DEF QueueInv
<1> QED BY <1>1, QueueInvariant, PTL

\* No token leaks in unblock's hand-over: each is owned by a caller that has
\* the listener or by the one goroutine that is handing it over.
THEOREM QueueTokensAccounted == Spec => []TokensAccounted
<1>1. QueueInv => TokensAccounted
  BY DEF QueueInv
<1> QED BY <1>1, QueueInvariant, PTL

\* The backlog never exceeds maxBacklogSize.
THEOREM QueueBacklogBounded == Spec => []BacklogBounded
<1>1. QueueInv => BacklogBounded
  BY DEF QueueInv
<1> QED BY <1>1, QueueInvariant, PTL

\* Every element of the backlog is queued once and its owner is inside Acquire.
THEOREM QueueBacklogAlive == Spec => []BacklogAlive
<1>1. QueueInv => BacklogAlive
  BY DEF QueueInv
<1> QED BY <1>1, QueueInvariant, PTL

\* With OrderingFIFO the element that unblock evicts to serve it is the oldest,
\* whatever was queued or expired since the peek.
THEOREM QueueServesOldest == Spec => ServesOldest
<1>1. ASSUME QueueInv, [Next]_vars
      PROVE  [config.fifo => \A p \in Procs :
                pc[p] = "evict" /\ pc'[p] = "hand" /\ target \in ToSet(backlog)
                  => backlog' = Front(backlog)]_vars
  <2> SUFFICES ASSUME Next, config.fifo, NEW p \in Procs, pc[p] = "evict",
                      pc'[p] = "hand", target \in ToSet(backlog)
               PROVE  backlog' = Front(backlog)
    BY <1>1
  <2>1. target = Last(backlog)
    BY <1>1 DEF QueueInv, TargetInv
  <2>2. DOMAIN pc = Procs
    BY <1>1 DEF QueueInv, TypeOK
  <2>3. PICK q \in Procs : \/ Call(q) \/ CancelContext(q) \/ AcquireStep(q)
                           \/ Complete(q) \/ UnblockStep(q)
    BY DEF Next
  <2>4. ListenerAccepted(q) => pc'[p] # "hand"
    BY <2>2 DEF ListenerAccepted, Receivers
  <2>5. EvictNext(q)
    BY <2>2, <2>3, <2>4
       DEF Call, CancelContext, AcquireStep, TryDelegate, PushWithCapacity,
           EnterSelect, SelectExpired, EvictOwn, Complete, UnblockStep,
           AdjustLimit, LockAndPeek, AcquireForNext, ListenerRefused, Unlock, Goto
  <2> QED BY <1>1, <2>1, <2>5, RemoveStep DEF EvictNext
<1> QED BY <1>1, QueueInvariant, PTL DEF Spec, ServesOldest
=============================================================================
