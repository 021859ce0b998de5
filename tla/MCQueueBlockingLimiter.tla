------------------------ MODULE MCQueueBlockingLimiter ------------------------
(* Instances of QueueBlockingLimiter for TLC. *)
EXTENDS QueueBlockingLimiter

CONSTANTS p1, p2, p3, e1, e2, e3, e4

ThreeProcs   == {p1, p2, p3}
FourElements == {e1, e2, e3, e4}
OneOrTwo     == {1, 2}
OnlyOne      == {1}

Config(size, fifo, timeout, evict) ==
    [maxBacklogSize |-> size, fifo |-> fifo, hasTimeout |-> timeout,
     evictDoneCtx |-> evict]

\* FIFO with a timeout; and LIFO with a backlog that fills up, whose waits
\* only a done context ends.
TwoConfigs == {Config(2, TRUE, TRUE, FALSE), Config(1, FALSE, FALSE, TRUE)}

FIFOConfig == {Config(2, TRUE, TRUE, FALSE)}
=============================================================================
