----------------------------- MODULE Interceptors -----------------------------
(***************************************************************************)
(* http/ and grpc/: interceptors that take a token from a limiter, let the *)
(* wrapped call run, classify its result and report it, which returns the  *)
(* token.  Interceptors nest: the handler behind a server interceptor      *)
(* makes calls through client interceptors, round-trippers and invokers    *)
(* are chained, and WithLimiter may give several of them one limiter.      *)
(*                                                                         *)
(* A limiter admits below its limit, as CoreLimiter promises.  At it, the  *)
(* default limiter refuses; one that blocks (BlockingLimiter, a queue) lets *)
(* the caller wait, as long as the caller's context and its own timeout    *)
(* allow, which may be for ever.                                           *)
(***************************************************************************)
EXTENDS Integers, SequencesExt

CONSTANTS Procs,     \* the goroutines that serve or make requests
          Limiters,  \* the limiters of the program
          Limits,    \* the values their limits may take
          Configs,   \* the configurations that the options lead to
          Rank,      \* an order of the limiters: inner calls ask lower ones
          MaxDepth,  \* bound: interceptors nested in one goroutine
          None       \* no call under way

\* applyDefaults and the options of http: a limiter, and classifiers that are
\* the package's or the program's
HttpConfigs == [limiter : Limiters, custom : BOOLEAN]

\* defaults and the options of grpc's unary interceptors
UnaryConfigs == [limiter : Limiters, custom : BOOLEAN]

\* streamDefaults and the options of grpc's stream interceptor
StreamConfigs == [recvLimiter : Limiters, sendLimiter : Limiters, custom : BOOLEAN]

ASSUME InterceptorAssumptions ==
    /\ IsFiniteSet(Procs) /\ IsFiniteSet(Limiters)
    /\ Limits \subseteq Nat \ {0}
    /\ Rank \in [Limiters -> Nat]
    /\ MaxDepth \in Nat
    /\ Configs \subseteq [httpServer  : HttpConfigs,  httpClient  : HttpConfigs,
                          unaryServer : UnaryConfigs, unaryClient : UnaryConfigs,
                          stream      : StreamConfigs,
                          waiting     : SUBSET Limiters]

VARIABLES config,   \* every interceptor's configuration, and the limiters that
                    \* make a caller wait at their limit
          tokens,   \* the tokens each limiter has given out
          limit,    \* each limiter's limit
          calling,  \* the interceptor a goroutine is calling, at its Acquire
          stack,    \* the interceptors whose wrapped calls a goroutine is in
          lost      \* history: the tokens that nobody can return any more

vars == <<config, tokens, limit, calling, stack, lost>>

Interceptor == {"httpServer", "httpClient", "unaryServer", "unaryClient", "recv", "send"}

\* The limiter an interceptor asks.  Both methods of the stream wrapper ask
\* recvLimiter.
LimiterOf(i) == IF i \in {"recv", "send"} THEN config.stream.recvLimiter
                ELSE config[i].limiter

IsCustom(i) == IF i \in {"recv", "send"} THEN config.stream.custom
               ELSE config[i].custom

Init ==
    /\ config \in Configs
    /\ tokens = [l \in Limiters |-> 0]
    /\ limit \in [Limiters -> Limits]
    /\ calling = [p \in Procs |-> None]
    /\ stack = [p \in Procs |-> <<>>]
    /\ lost = [l \in Limiters |-> 0]

-----------------------------------------------------------------------------
(* Acquire *)

\* A goroutine, or the wrapped call it is in, calls an interceptor.
Call(p, i) ==
    /\ calling[p] = None
    /\ Len(stack[p]) < MaxDepth
    /\ calling' = [calling EXCEPT ![p] = i]
    /\ UNCHANGED <<config, tokens, limit, stack, lost>>

\* Acquire returns a token: on to the handler, transport, invoker or stream
Admitted(p) ==
    /\ calling[p] # None
    /\ LET l == LimiterOf(calling[p])
       IN  /\ tokens[l] < limit[l]
           /\ tokens' = [tokens EXCEPT ![l] = @ + 1]
    /\ stack' = [stack EXCEPT ![p] = Append(@, calling[p])]
    /\ calling' = [calling EXCEPT ![p] = None]
    /\ UNCHANGED <<config, limit, lost>>

\* if !ok: the limit-exceeded handler or classifier answers, and the caller
\* goes on with its answer.  A limiter that waits says so when the context is
\* done or its time is up, at its limit or not.
Refused(p) ==
    /\ calling[p] # None
    /\ LET l == LimiterOf(calling[p])
       IN  tokens[l] >= limit[l] \/ l \in config.waiting
    /\ calling' = [calling EXCEPT ![p] = None]
    /\ UNCHANGED <<config, tokens, limit, stack, lost>>

-----------------------------------------------------------------------------
(* Classification.  A result is a class of status codes, an error, or no    *)
(* response at all; a custom classifier may answer anything, a value that   *)
(* is none of the three ResponseTypes included.                             *)

\* What ResponseWriter may have recorded: the last status the handler wrote, or
\* 200 when it wrote none.
StatusWritten == {"2xx", "4xx", "429", "5xx"}

ClassifyStatusCode(result) ==
    CASE result \in {"429", "5xx"} -> "dropped"
      [] result = "4xx"            -> "ignore"
      [] OTHER                     -> "success"

\* the server classifier is called with the status written and no error
HttpServerClassifier(result) == ClassifyStatusCode(result)

HttpClientClassifier(result) ==
    CASE result = "error" -> "dropped"
      [] result = "nil"   -> "ignore"
      [] OTHER            -> ClassifyStatusCode(result)

UnaryClassifier(result) == IF result = "error" THEN "dropped" ELSE "success"

\* called with errors only
StreamClassifier(result) == IF result = "error" THEN "dropped" ELSE "success"

Types(i, default) == IF IsCustom(i) THEN {"success", "ignore", "dropped", "other"}
                     ELSE {default}

-----------------------------------------------------------------------------
(* The wrapped call returns. *)

Running(p, i) == /\ calling[p] = None /\ stack[p] # <<>>
                 /\ stack[p][Len(stack[p])] = i

\* Fault: the type "ignore" has no case.
FaultReport(p, i, type) ==
    LET l == LimiterOf(i) IN
    /\ Running(p, i)
    /\ stack' = [stack EXCEPT ![p] = Front(@)]
    /\ tokens' = [tokens EXCEPT ![l] = IF type \in {"success", "dropped"} THEN @ - 1 ELSE @]
    /\ lost' = [lost EXCEPT ![l] = IF type = "other" THEN @ + 1 ELSE @]
    /\ UNCHANGED <<config, limit, calling>>

\* The end of interceptor i: OnSuccess and OnDropped return the token and may
\* move the limit, OnIgnore only returns it; a switch without a matching case
\* returns nothing.
Report(p, i, type) ==
    LET l == LimiterOf(i) IN
    /\ Running(p, i)
    /\ stack' = [stack EXCEPT ![p] = Front(@)]
    /\ \/ /\ type \in {"success", "dropped"}
          /\ tokens' = [tokens EXCEPT ![l] = @ - 1]
          /\ \E new \in Limits : limit' = [limit EXCEPT ![l] = new]
          /\ UNCHANGED lost
       \/ /\ type = "ignore"
          /\ tokens' = [tokens EXCEPT ![l] = @ - 1]
          /\ UNCHANGED <<limit, lost>>
       \/ /\ type = "other"
          /\ lost' = [lost EXCEPT ![l] = @ + 1]
          /\ UNCHANGED <<tokens, limit>>
    /\ UNCHANGED <<config, calling>>

\* next.ServeHTTP(rw, r)
ServerMiddleware(p) ==
    \E result \in StatusWritten :
        \E type \in Types("httpServer", HttpServerClassifier(result)) :
            Report(p, "httpServer", type)

\* c.base.RoundTrip(r)
RoundTrip(p) ==
    \E result \in StatusWritten \cup {"error", "nil"} :
        \E type \in Types("httpClient", HttpClientClassifier(result)) :
            Report(p, "httpClient", type)

\* handler(ctx, req)
UnaryServer(p) ==
    \E result \in {"ok", "error"} :
        \E type \in Types("unaryServer", UnaryClassifier(result)) :
            Report(p, "unaryServer", type)

\* invoker(ctx, method, req, reply, cc, opts...)
UnaryClient(p) ==
    \E result \in {"ok", "error"} :
        \E type \in Types("unaryClient", UnaryClassifier(result)) :
            Report(p, "unaryClient", type)

\* Fault: the path without an error forgets the token.
FaultRecvMsg(p) ==
    \/ /\ Running(p, "recv")
       /\ stack' = [stack EXCEPT ![p] = Front(@)]
       /\ UNCHANGED <<config, tokens, limit, calling, lost>>
    \/ \E type \in Types("recv", StreamClassifier("error")) : Report(p, "recv", type)

\* s.ServerStream.RecvMsg(m): the classifier sees errors only
RecvMsg(p) ==
    \/ Report(p, "recv", "success")
    \/ \E type \in Types("recv", StreamClassifier("error")) : Report(p, "recv", type)

\* s.ServerStream.SendMsg(m), likewise
SendMsg(p) ==
    \/ Report(p, "send", "success")
    \/ \E type \in Types("send", StreamClassifier("error")) : Report(p, "send", type)

Return(p) ==
    \/ ServerMiddleware(p) \/ RoundTrip(p)
    \/ UnaryServer(p) \/ UnaryClient(p)
    \/ RecvMsg(p) \/ SendMsg(p)

\* The number of interceptors of s that hold tokens of limiter l.
Charged(s, l) == Cardinality({k \in 1 .. Len(s) : LimiterOf(s[k]) = l})

\* A wrapped call or a classifier panics.  The tokens are not returned by
\* deferred calls, so those of every frame that the panic unwinds, up to the
\* one whose code recovers (or to net/http's server), are lost.
Panic(p) ==
    /\ calling[p] = None
    /\ \E keep \in 0 .. Len(stack[p]) - 1 :
        /\ stack' = [stack EXCEPT ![p] = SubSeq(@, 1, keep)]
        /\ lost' = [l \in Limiters |-> lost[l] + Charged(stack[p], l)
                                                - Charged(stack'[p], l)]
    /\ UNCHANGED <<config, tokens, limit, calling>>

Next == \E p \in Procs :
    \/ \E i \in Interceptor : Call(p, i)
    \/ Admitted(p) \/ Refused(p)
    \/ Return(p)
    \/ Panic(p)

Spec == Init /\ [][Next]_vars

-----------------------------------------------------------------------------
\* No token goes missing on any path through the interceptors, nested and
\* sharing limiters or not: what a limiter has given out is in the hands of
\* a call under way, or was lost to a panic or to a classifier's answer that
\* the switch does not list.
TokensAccounted ==
    \A l \in Limiters :
        tokens[l] = lost[l] + SumFunctionOnSet([p \in Procs |-> Charged(stack[p], l)], Procs)

\* The goroutine is in the Acquire of a limiter that makes it wait for a token.
Waits(p) ==
    /\ calling[p] # None
    /\ LET l == LimiterOf(calling[p])
       IN  l \in config.waiting /\ tokens[l] >= limit[l]

Holds(p, l) == \E k \in 1 .. Len(stack[p]) : LimiterOf(stack[p][k]) = l

\* Goroutines that all wait, each for tokens that only these goroutines can
\* return: none of them goes on before a context is done.
CircularWait(S) ==
    /\ S # {}
    /\ \A p \in S : /\ Waits(p)
                    /\ \A q \in Procs : Holds(q, LimiterOf(calling[p])) => q \in S

\* The goroutine holds no token of the limiter that it calls, nor of a lower one.
InOrder(p) ==
    \A l \in Limiters : Holds(p, l) => Rank[LimiterOf(calling[p])] < Rank[l]

\* The interceptors wait for each other only if the program nests them through
\* limiters that wait in no order, as in a handler that calls out through its
\* own limiter, or if tokens lost to panics and unlisted types have used up a
\* limit: every other token is held by a goroutine that will return it.
NoCircularWait ==
    \A S \in SUBSET Procs : CircularWait(S) =>
        \E p \in S : LET l == LimiterOf(calling[p])
                    IN  ~InOrder(p) \/ lost[l] >= limit[l]
=============================================================================
