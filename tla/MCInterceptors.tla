---------------------------- MODULE MCInterceptors ----------------------------
(* Instances of Interceptors for TLC. *)
EXTENDS Interceptors, TLC

CONSTANTS p1, p2, a, b

TwoProcs    == {p1, p2}
TwoLimiters == {a, b}
OneOrTwo    == {1, 2}

Uses(l, custom) == [limiter |-> l, custom |-> custom]

\* A limiter for the servers and one for the clients, with the classifiers of
\* the packages ...
Separate == [httpServer  |-> Uses(a, FALSE), httpClient  |-> Uses(b, FALSE),
             unaryServer |-> Uses(a, FALSE), unaryClient |-> Uses(b, FALSE),
             stream |-> [recvLimiter |-> a, sendLimiter |-> b, custom |-> FALSE]]

\* ... and one limiter for everything, with the program's classifiers.
Shared == [httpServer  |-> Uses(a, TRUE), httpClient  |-> Uses(a, TRUE),
           unaryServer |-> Uses(a, TRUE), unaryClient |-> Uses(a, TRUE),
           stream |-> [recvLimiter |-> a, sendLimiter |-> a, custom |-> TRUE]]

\* Each with limiters that refuse at once and with limiters that wait.
FourConfigs == {[waiting |-> w] @@ c : w \in {{}, TwoLimiters}, c \in {Separate, Shared}}

\* Servers' limiters before clients'
ServersFirst == (a :> 1) @@ (b :> 0)
=============================================================================
