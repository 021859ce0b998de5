-------------------------- MODULE InterceptorsProofs --------------------------
(***************************************************************************)
(* Proofs about the interceptors of http/ and grpc/, for every number of   *)
(* goroutines and limiters, every configuration and every depth.           *)
(***************************************************************************)
EXTENDS Interceptors, SumTheorems, SequenceTheorems

\* Types of the limiters' counters and of the goroutines' places in the code.
TypeInv ==
    /\ config \in Configs
    /\ tokens \in [Limiters -> Int]
    /\ lost \in [Limiters -> Int]
    /\ limit \in [Limiters -> Limits]
    /\ calling \in [Procs -> Interceptor \cup {None}]
    /\ stack \in [Procs -> Seq(Interceptor)]

\* The tokens of limiter l that calls under way will return.
Held(l) == SumFunctionOnSet([p \in Procs |-> Charged(stack[p], l)], Procs)

\* Every interceptor asks one of the program's limiters.
LEMMA LimiterType ==
    ASSUME TypeInv, NEW i \in Interceptor
    PROVE  LimiterOf(i) \in Limiters
<1>1. config \in [httpServer  : HttpConfigs,  httpClient  : HttpConfigs,
                  unaryServer : UnaryConfigs, unaryClient : UnaryConfigs,
                  stream      : StreamConfigs,
                  waiting     : SUBSET Limiters]
      BY InterceptorAssumptions DEF TypeInv
<1>2. config.stream.recvLimiter \in Limiters
      BY <1>1 DEF StreamConfigs
<1>3. /\ config.httpServer.limiter \in Limiters /\ config.httpClient.limiter \in Limiters
      /\ config.unaryServer.limiter \in Limiters /\ config.unaryClient.limiter \in Limiters
      BY <1>1 DEF HttpConfigs, UnaryConfigs
<1>4. CASE i \in {"recv", "send"}
      BY <1>2, <1>4 DEF LimiterOf
<1>5. CASE i \notin {"recv", "send"}
  <2>1. LimiterOf(i) = config[i].limiter
        BY <1>5 DEF LimiterOf
  <2>2. i = "httpServer" \/ i = "httpClient" \/ i = "unaryServer" \/ i = "unaryClient"
        BY <1>5 DEF Interceptor
  <2> QED BY <1>3, <2>1, <2>2
<1> QED BY <1>4, <1>5

\* A stack holds a natural number of tokens, ...
LEMMA ChargedType ==
    ASSUME NEW s \in Seq(Interceptor), NEW l
    PROVE  /\ Charged(s, l) \in Nat /\ Charged(s, l) \in Int
           /\ IsFiniteSet({k \in 1 .. Len(s) : LimiterOf(s[k]) = l})
<1>1. IsFiniteSet(1 .. Len(s))
      BY FS_Interval, LenProperties
<1>2. {k \in 1 .. Len(s) : LimiterOf(s[k]) = l} \subseteq 1 .. Len(s)
      OBVIOUS
<1>3. IsFiniteSet({k \in 1 .. Len(s) : LimiterOf(s[k]) = l})
      BY <1>1, <1>2, FS_Subset
<1> QED BY <1>3, FS_CardinalityType DEF Charged

\* ... an interceptor that is admitted adds one of its limiter, ...
LEMMA ChargedAppend ==
    ASSUME NEW s \in Seq(Interceptor), NEW i \in Interceptor, NEW l
    PROVE  Charged(Append(s, i), l) = Charged(s, l) + (IF LimiterOf(i) = l THEN 1 ELSE 0)
<1> DEFINE t == Append(s, i)
           S == {k \in 1 .. Len(s) : LimiterOf(s[k]) = l}
           T == {k \in 1 .. Len(t) : LimiterOf(t[k]) = l}
<1>1. /\ Len(t) = Len(s) + 1 /\ t[Len(s) + 1] = i /\ Len(s) \in Nat
      /\ \A k \in 1 .. Len(s) : t[k] = s[k]
      BY AppendProperties, LenProperties
<1> HIDE DEF t
<1>2. 1 .. Len(t) = (1 .. Len(s)) \cup {Len(s) + 1} /\ Len(s) + 1 \notin 1 .. Len(s)
      BY <1>1
<1>3. T = S \cup (IF LimiterOf(i) = l THEN {Len(s) + 1} ELSE {})
      BY <1>1, <1>2
<1>4. IsFiniteSet(S) /\ Cardinality(S) \in Nat /\ Len(s) + 1 \notin S
      BY <1>2, ChargedType, FS_CardinalityType
<1>5. Charged(t, l) = Cardinality(T) /\ Charged(s, l) = Cardinality(S)
      BY DEF Charged
<1> HIDE DEF S, T
<1>6. Cardinality(T) = Cardinality(S) + (IF LimiterOf(i) = l THEN 1 ELSE 0)
  <2>1. CASE LimiterOf(i) = l
        BY <1>3, <1>4, <2>1, FS_AddElement
  <2>2. CASE LimiterOf(i) # l
        BY <1>3, <1>4, <2>2
  <2> QED BY <2>1, <2>2
<1> QED BY <1>5, <1>6 DEF t

\* ... and one that ends takes one away.
LEMMA ChargedFront ==
    ASSUME NEW s \in Seq(Interceptor), s # <<>>, NEW l
    PROVE  /\ Front(s) \in Seq(Interceptor)
           /\ s[Len(s)] \in Interceptor
           /\ Charged(Front(s), l) =
                Charged(s, l) - (IF LimiterOf(s[Len(s)]) = l THEN 1 ELSE 0)
<1> DEFINE f == Front(s)
           i == s[Len(s)]
<1>1. f \in Seq(Interceptor) /\ i \in Interceptor /\ s = Append(f, i)
  <2>1. Len(s) \in Nat /\ Len(s) # 0 /\ DOMAIN s = 1 .. Len(s)
        BY EmptySeq, LenProperties
  <2>2. i \in Interceptor
        BY <2>1, ElementOfSeq
  <2>3. f \in Seq(Interceptor) /\ Len(f) = Len(s) - 1
        /\ \A k \in 1 .. Len(s) - 1 : f[k] = s[k]
        BY <2>1, SubSeqProperties DEF Front
  <2> HIDE DEF f, i
  <2>4. /\ Append(f, i) \in Seq(Interceptor) /\ Len(Append(f, i)) = Len(s)
        /\ Append(f, i)[Len(s)] = i /\ \A k \in 1 .. Len(s) - 1 : Append(f, i)[k] = f[k]
    <3>1. /\ Append(f, i) \in Seq(Interceptor) /\ Len(Append(f, i)) = Len(f) + 1
          /\ Append(f, i)[Len(f) + 1] = i /\ \A k \in 1 .. Len(f) : Append(f, i)[k] = f[k]
          BY <2>2, <2>3, AppendProperties
    <3>2. Len(f) + 1 = Len(s)
          BY <2>1, <2>3
    <3> QED BY <2>3, <3>1, <3>2
  <2>5. \A k \in 1 .. Len(s) : Append(f, i)[k] = s[k]
        BY <2>1, <2>3, <2>4 DEF i
  <2> QED BY <2>2, <2>3, <2>4, <2>5, SeqEqual
<1> HIDE DEF f, i
<1>2. Charged(s, l) = Charged(f, l) + (IF LimiterOf(i) = l THEN 1 ELSE 0)
      BY <1>1, ChargedAppend
<1>3. Charged(f, l) \in Int
      BY <1>1, ChargedType
<1>4. Charged(f, l) = Charged(s, l) - (IF LimiterOf(i) = l THEN 1 ELSE 0)
      BY <1>2, <1>3
<1> QED BY <1>1, <1>4 DEF f, i

\* The tokens held change by those of the stack that changes.
LEMMA HeldChange ==
    ASSUME TypeInv, NEW p \in Procs, NEW s \in Seq(Interceptor),
           stack' = [stack EXCEPT ![p] = s], config' = config, NEW l
    PROVE  /\ Held(l) \in Int
           /\ Held(l)' = Held(l) - Charged(stack[p], l) + Charged(s, l)
<1> DEFINE f == [q \in Procs |-> Charged(stack[q], l)]
           g == [q \in Procs |-> Charged(stack'[q], l)]
<1>1. stack' \in [Procs -> Seq(Interceptor)] /\ stack'[p] = s
      /\ \A q \in Procs \ {p} : stack'[q] = stack[q]
      BY DEF TypeInv
<1>2. \A x, y : Charged(x, y)' = Charged(x, y)
      BY DEF Charged, LimiterOf
<1>3. Held(l) = SumFunctionOnSet(f, Procs)
      BY DEF Held
<1>4. Held(l)' = SumFunctionOnSet(g, Procs)
      BY DEF Held, Charged, LimiterOf
<1>5. \A q \in Procs : f[q] \in Int /\ g[q] \in Int
      BY <1>1, ChargedType DEF TypeInv
<1>6. \A q \in Procs \ {p} : g[q] = f[q]
      BY <1>1
<1>7. f[p] = Charged(stack[p], l) /\ g[p] = Charged(s, l)
      BY <1>1
<1> HIDE DEF f, g
<1>f. IsFiniteSet(Procs)
      BY InterceptorAssumptions
<1>8. SumFunctionOnSet(g, Procs) = SumFunctionOnSet(f, Procs) - f[p] + g[p]
      BY <1>5, <1>6, <1>f, SumChange
<1>9. SumFunctionOnSet(f, Procs) \in Int
      BY <1>5, <1>f, SumType
<1> QED BY <1>3, <1>4, <1>7, <1>8, <1>9

\* No token is out before the first call.
LEMMA InitAccounted == Init => TypeInv /\ TokensAccounted
<1> SUFFICES ASSUME Init PROVE TypeInv /\ TokensAccounted
    OBVIOUS
<1>1. TypeInv
      BY DEF Init, TypeInv
<1>2. ASSUME NEW l \in Limiters PROVE Held(l) = 0
  <2> DEFINE f == [p \in Procs |-> Charged(stack[p], l)]
  <2>1. \A p \in Procs : f[p] = 0
    <3>1. {k \in 1 .. Len(<<>>) : LimiterOf(<<>>[k]) = l} = {}
          OBVIOUS
    <3>2. Charged(<<>>, l) = 0
          BY <3>1, FS_EmptySet DEF Charged
    <3> QED BY <3>2 DEF Init
  <2> HIDE DEF f
  <2>2. SumFunctionOnSet(f, Procs) = 0
        BY <2>1, SumZero, InterceptorAssumptions
  <2> QED BY <2>2 DEF Held, f
<1>3. TokensAccounted
      BY <1>2 DEF Init, TokensAccounted, Held
<1> QED BY <1>1, <1>3

\* A step that changes no token and no stack loses none.
LEMMA QuietAccounted ==
    ASSUME TokensAccounted, UNCHANGED <<config, tokens, stack, lost>>
    PROVE  TokensAccounted'
  BY DEF TokensAccounted, Charged, LimiterOf

\* A limiter that admits a call has given its token to that call.
LEMMA AdmittedAccounted ==
    ASSUME TypeInv, TokensAccounted, NEW p \in Procs, Admitted(p)
    PROVE  TypeInv' /\ TokensAccounted'
<1> DEFINE i == calling[p]
           m == LimiterOf(i)
           s == Append(stack[p], i)
<1>1. i \in Interceptor /\ m \in Limiters /\ stack[p] \in Seq(Interceptor)
      BY LimiterType DEF Admitted, TypeInv
<1>2. s \in Seq(Interceptor) /\ stack' = [stack EXCEPT ![p] = s]
      BY <1>1, AppendProperties DEF Admitted, TypeInv
<1>3. /\ config' = config /\ lost' = lost
      /\ calling' = [calling EXCEPT ![p] = None]
      /\ tokens' = [tokens EXCEPT ![m] = @ + 1] /\ limit' = limit
      BY DEF Admitted
<1>4. TypeInv'
      BY <1>1, <1>2, <1>3 DEF TypeInv
<1>5. ASSUME NEW l \in Limiters PROVE tokens'[l] = lost'[l] + Held(l)'
  <2>1. Held(l) \in Int /\ Held(l)' = Held(l) - Charged(stack[p], l) + Charged(s, l)
        BY <1>2, <1>3, HeldChange
  <2>2. Charged(s, l) = Charged(stack[p], l) + (IF m = l THEN 1 ELSE 0)
        BY <1>1, ChargedAppend
  <2>3. Charged(stack[p], l) \in Int
        BY <1>1, ChargedType
  <2>4. tokens[l] = lost[l] + Held(l) /\ tokens[l] \in Int /\ lost[l] \in Int
        BY DEF TokensAccounted, Held, TypeInv
  <2>5. tokens'[l] = tokens[l] + (IF m = l THEN 1 ELSE 0)
        BY <1>1, <1>3 DEF TypeInv
  <2> HIDE DEF m, s
  <2> QED BY <1>3, <2>1, <2>2, <2>3, <2>4, <2>5
<1> QED BY <1>4, <1>5 DEF TokensAccounted, Held

\* The end of an interceptor returns its token, or loses it to a type that its
\* switch does not list.
LEMMA ReportAccounted ==
    ASSUME TypeInv, TokensAccounted, NEW p \in Procs, NEW i \in Interceptor, NEW type,
           Report(p, i, type)
    PROVE  TypeInv' /\ TokensAccounted'
<1> DEFINE m == LimiterOf(i)
           s == Front(stack[p])
<1>1. /\ m \in Limiters /\ stack[p] \in Seq(Interceptor) /\ stack[p] # <<>>
      /\ stack[p][Len(stack[p])] = i
      BY LimiterType DEF Report, Running, TypeInv
<1>2. s \in Seq(Interceptor)
      BY <1>1, ChargedFront
<1>3. /\ config' = config /\ calling' = calling
      /\ stack' = [stack EXCEPT ![p] = s]
      /\ \/ tokens' = [tokens EXCEPT ![m] = @ - 1] /\ lost' = lost
         \/ tokens' = tokens /\ lost' = [lost EXCEPT ![m] = @ + 1]
      BY DEF Report
<1>l. limit' \in [Limiters -> Limits]
      BY DEF Report, TypeInv
<1>4. TypeInv'
      BY <1>1, <1>2, <1>3, <1>l DEF TypeInv
<1>5. ASSUME NEW l \in Limiters PROVE tokens'[l] = lost'[l] + Held(l)'
  <2>1. Held(l) \in Int /\ Held(l)' = Held(l) - Charged(stack[p], l) + Charged(s, l)
        BY <1>2, <1>3, HeldChange
  <2>2. Charged(s, l) = Charged(stack[p], l) - (IF m = l THEN 1 ELSE 0)
        BY <1>1, ChargedFront
  <2>3. Charged(stack[p], l) \in Int
        BY <1>1, ChargedType
  <2>4. tokens[l] = lost[l] + Held(l) /\ tokens[l] \in Int /\ lost[l] \in Int
        BY DEF TokensAccounted, Held, TypeInv
  <2>5. tokens'[l] - lost'[l] = tokens[l] - lost[l] - (IF m = l THEN 1 ELSE 0)
        BY <1>1, <1>3, <2>4 DEF TypeInv
  <2>6. tokens'[l] \in Int /\ lost'[l] \in Int
        BY <1>4 DEF TypeInv
  <2> HIDE DEF m, s
  <2> QED BY <2>1, <2>2, <2>3, <2>4, <2>5, <2>6
<1> QED BY <1>4, <1>5 DEF TokensAccounted, Held

\* Every way in which a wrapped call returns is a report of its interceptor.
LEMMA ReturnAccounted ==
    ASSUME TypeInv, TokensAccounted, NEW p \in Procs, Return(p)
    PROVE  TypeInv' /\ TokensAccounted'
<1>1. \E i \in Interceptor : \E type : Report(p, i, type)
      BY DEF Return, ServerMiddleware, RoundTrip, UnaryServer, UnaryClient, RecvMsg, SendMsg,
             Interceptor
<1> QED BY <1>1, ReportAccounted

\* A panic moves the tokens of the frames it unwinds to those lost.
LEMMA PanicAccounted ==
    ASSUME TypeInv, TokensAccounted, NEW p \in Procs, Panic(p)
    PROVE  TypeInv' /\ TokensAccounted'
<1>1. PICK keep \in 0 .. Len(stack[p]) - 1 :
        /\ stack' = [stack EXCEPT ![p] = SubSeq(stack[p], 1, keep)]
        /\ lost' = [l \in Limiters |-> lost[l] + Charged(stack[p], l)
                                                - Charged(stack'[p], l)]
      BY DEF Panic, Charged, LimiterOf
<1> DEFINE s == SubSeq(stack[p], 1, keep)
<1>2. stack[p] \in Seq(Interceptor) /\ Len(stack[p]) \in Nat
      BY LenProperties DEF TypeInv
<1>3. s \in Seq(Interceptor)
  <2>1. \A k \in 1 .. keep : stack[p][k] \in Interceptor
        BY <1>2, ElementOfSeq
  <2> QED BY <2>1, SubSeqProperties
<1>4. /\ stack' = [stack EXCEPT ![p] = s] /\ stack'[p] = s
      /\ config' = config /\ calling' = calling /\ tokens' = tokens /\ limit' = limit
      BY <1>1 DEF Panic, TypeInv
<1> HIDE DEF s
<1>5. \A l \in Limiters : /\ lost'[l] = lost[l] + Charged(stack[p], l) - Charged(s, l)
                          /\ Charged(stack[p], l) \in Int /\ Charged(s, l) \in Int
      BY <1>1, <1>2, <1>3, <1>4, ChargedType
<1>6. lost' \in [Limiters -> Int]
  <2>1. \A l \in Limiters : lost[l] \in Int
        BY DEF TypeInv
  <2>2. \A l \in Limiters : lost'[l] \in Int
        BY <1>5, <2>1
  <2> QED BY <1>1, <2>2
<1>7. TypeInv'
      BY <1>3, <1>4, <1>6 DEF TypeInv
<1>8. ASSUME NEW l \in Limiters PROVE tokens'[l] = lost'[l] + Held(l)'
  <2>1. Held(l) \in Int /\ Held(l)' = Held(l) - Charged(stack[p], l) + Charged(s, l)
        BY <1>3, <1>4, HeldChange
  <2>2. tokens[l] = lost[l] + Held(l) /\ tokens[l] \in Int /\ lost[l] \in Int
        BY DEF TokensAccounted, Held, TypeInv
  <2> QED BY <1>4, <1>5, <2>1, <2>2
<1> QED BY <1>7, <1>8 DEF TokensAccounted, Held

\* Every step of every goroutine keeps the account.
LEMMA StepAccounted ==
    TypeInv /\ TokensAccounted /\ [Next]_vars => TypeInv' /\ TokensAccounted'
<1> SUFFICES ASSUME TypeInv, TokensAccounted, [Next]_vars
             PROVE  TypeInv' /\ TokensAccounted'
    OBVIOUS
<1>1. ASSUME NEW p \in Procs, NEW i \in Interceptor, Call(p, i)
      PROVE  TypeInv' /\ TokensAccounted'
      BY <1>1, QuietAccounted DEF Call, TypeInv
<1>2. ASSUME NEW p \in Procs, Admitted(p) PROVE TypeInv' /\ TokensAccounted'
      BY <1>2, AdmittedAccounted
<1>3. ASSUME NEW p \in Procs, Refused(p) PROVE TypeInv' /\ TokensAccounted'
      BY <1>3, QuietAccounted DEF Refused, TypeInv
<1>4. ASSUME NEW p \in Procs, Return(p) PROVE TypeInv' /\ TokensAccounted'
      BY <1>4, ReturnAccounted
<1>5. ASSUME NEW p \in Procs, Panic(p) PROVE TypeInv' /\ TokensAccounted'
      BY <1>5, PanicAccounted
<1>6. CASE UNCHANGED vars
      BY <1>6, QuietAccounted DEF vars, TypeInv
<1> QED BY <1>1, <1>2, <1>3, <1>4, <1>5, <1>6 DEF Next

\* No path through the interceptors loses a token but a panic and a classifier's
\* answer that the switch does not list: for every number of goroutines, whatever
\* limiters they share, and at every depth of nesting.
THEOREM TokensAreAccounted == Spec => []TokensAccounted
  BY InitAccounted, StepAccounted, PTL DEF Spec

-----------------------------------------------------------------------------
(* Waiting limiters *)

\* A stack with tokens of a limiter holds that limiter.
LEMMA ChargedHolds ==
    ASSUME TypeInv, NEW p \in Procs, NEW l, ~Holds(p, l)
    PROVE  Charged(stack[p], l) = 0
<1>1. {k \in 1 .. Len(stack[p]) : LimiterOf(stack[p][k]) = l} = {}
      BY DEF Holds
<1> QED BY <1>1, FS_EmptySet DEF Charged

\* A limiter whose tokens are not all lost is held by a goroutine.
LEMMA SomebodyHolds ==
    ASSUME TypeInv, TokensAccounted, NEW l \in Limiters, tokens[l] > lost[l]
    PROVE  \E q \in Procs : Holds(q, l)
<1> SUFFICES ASSUME \A q \in Procs : ~Holds(q, l) PROVE FALSE
    OBVIOUS
<1> DEFINE f == [p \in Procs |-> Charged(stack[p], l)]
<1>1. \A p \in Procs : f[p] = 0
      BY ChargedHolds
<1>2. tokens[l] = lost[l] + SumFunctionOnSet(f, Procs)
      BY DEF TokensAccounted
<1> HIDE DEF f
<1>3. SumFunctionOnSet(f, Procs) = 0
      BY <1>1, SumZero, InterceptorAssumptions
<1> QED BY <1>2, <1>3 DEF TypeInv

\* Of some goroutines, one asks a limiter of the lowest rank.
LEMMA LowestAsked ==
    ASSUME TypeInv, NEW S \in SUBSET Procs, S # {}, \A p \in S : calling[p] # None
    PROVE  \E p \in S : \A q \in S :
               Rank[LimiterOf(calling[p])] <= Rank[LimiterOf(calling[q])]
<1> DEFINE r == [p \in S |-> Rank[LimiterOf(calling[p])]]
           R == {r[p] : p \in S}
<1>1. \A p \in S : r[p] \in Int /\ r[p] = Rank[LimiterOf(calling[p])]
  <2> SUFFICES ASSUME NEW p \in S PROVE Rank[LimiterOf(calling[p])] \in Int
      OBVIOUS
  <2>1. calling[p] \in Interceptor
        BY DEF TypeInv
  <2>2. LimiterOf(calling[p]) \in Limiters
        BY <2>1, LimiterType
  <2> QED BY <2>2, InterceptorAssumptions
<1> HIDE DEF r
<1>2. IsFiniteSet(S)
      BY FS_Subset, InterceptorAssumptions
<1>3. IsFiniteSet(R) /\ R # {} /\ \A x \in R : x \in Int
      BY <1>1, <1>2, FiniteImage
<1> HIDE DEF R
<1>4. Min(R) \in R /\ \A x \in R : Min(R) <= x
      BY <1>3, MaxMinFacts
<1>5. PICK p \in S : r[p] = Min(R)
      BY <1>4 DEF R
<1>6. \A q \in S : r[p] <= r[q]
      BY <1>4, <1>5 DEF R
<1> QED BY <1>1, <1>6

\* The goroutine of a circular wait that asks the lowest limiter asks one that
\* is full, so a goroutine of the wait holds it; if that one is in order, it
\* asks a lower limiter still.
LEMMA AccountedNoCircularWait == TypeInv /\ TokensAccounted => NoCircularWait
<1> SUFFICES ASSUME TypeInv, TokensAccounted,
                    NEW S \in SUBSET Procs, CircularWait(S),
                    \A p \in S : InOrder(p) /\ ~(lost[LimiterOf(calling[p])]
                                                 >= limit[LimiterOf(calling[p])])
             PROVE  FALSE
    BY DEF NoCircularWait
<1>1. S # {} /\ \A p \in S : Waits(p) /\ calling[p] # None
      BY DEF CircularWait, Waits
<1>2. PICK p \in S : \A q \in S :
        Rank[LimiterOf(calling[p])] <= Rank[LimiterOf(calling[q])]
      BY <1>1, LowestAsked
<1> DEFINE l == LimiterOf(calling[p])
<1>3. \A q \in S : LimiterOf(calling[q]) \in Limiters
      BY <1>1, LimiterType DEF TypeInv
<1>4. tokens[l] >= limit[l] /\ ~(lost[l] >= limit[l])
      BY <1>1 DEF Waits
<1>l. l \in Limiters /\ l = LimiterOf(calling[p])
      BY <1>3
<1> HIDE DEF l
<1>5. tokens[l] \in Int /\ lost[l] \in Int /\ limit[l] \in Int
  <2>1. tokens[l] \in Int /\ lost[l] \in Int /\ limit[l] \in Limits
        BY <1>l DEF TypeInv
  <2>2. \A x \in Limits : x \in Int
        BY InterceptorAssumptions
  <2> QED BY ONLY <2>1, <2>2
<1>6. tokens[l] > lost[l]
      BY <1>4, <1>5
<1>7. PICK q \in Procs : Holds(q, l)
      BY <1>l, <1>6, SomebodyHolds
<1>8. q \in S
      BY <1>7, <1>l DEF CircularWait
<1>9. Rank[LimiterOf(calling[q])] < Rank[l]
      BY <1>l, <1>7, <1>8 DEF InOrder
<1>10. Rank[l] \in Int /\ Rank[LimiterOf(calling[q])] \in Int
      BY <1>3, <1>l, <1>8, InterceptorAssumptions
<1> QED BY <1>2, <1>l, <1>8, <1>9, <1>10

\* Interceptors nested in an order of their limiters never wait for each other,
\* unless a limit is used up by tokens that were lost: for every number of
\* goroutines, every order, and however limits move.
THEOREM NoCircularWaits == Spec => []NoCircularWait
  BY InitAccounted, StepAccounted, AccountedNoCircularWait, PTL DEF Spec
=============================================================================
