----------------------------- MODULE SettableLimit -----------------------------
(***************************************************************************)
(* limit/settable.go: a limit that the program sets, and its listeners.    *)
(* SetLimit stores atomically, outside l.mu, and then calls the listeners  *)
(* under l.mu.  Values fit in int32.                                       *)
(***************************************************************************)
EXTENDS Integers

CONSTANTS Setters,    \* the goroutines that call SetLimit
          Listeners,  \* the callbacks that may be registered
          Values,     \* the arguments of SetLimit
          Unset       \* a listener that was never called

VARIABLES limit,      \* l.limit
          listeners,  \* l.listeners
          heard,      \* what each listener was last called with
          pending     \* the argument of each SetLimit under way

vars == <<limit, listeners, heard, pending>>

Init ==
    /\ limit \in Values
    /\ listeners = {}
    /\ heard = [c \in Listeners |-> Unset]
    /\ pending = [s \in Setters |-> Unset]

\* l.listeners = append(l.listeners, consumer), under l.mu
NotifyOnChange(c) ==
    /\ c \notin listeners
    /\ listeners' = listeners \cup {c}
    /\ UNCHANGED <<limit, heard, pending>>

\* SetLimit: atomic.StoreInt32(&l.limit, ...)
Store(s, v) ==
    /\ pending[s] = Unset
    /\ limit' = v
    /\ pending' = [pending EXCEPT ![s] = v]
    /\ UNCHANGED <<listeners, heard>>

\* l.notifyListeners(limit): every listener gets the argument of this call
NotifyListeners(s) ==
    /\ pending[s] # Unset
    /\ heard' = [c \in Listeners |-> IF c \in listeners THEN pending[s] ELSE heard[c]]
    /\ pending' = [pending EXCEPT ![s] = Unset]
    /\ UNCHANGED <<limit, listeners>>

Next ==
    \/ \E c \in Listeners : NotifyOnChange(c)
    \/ \E s \in Setters : (\E v \in Values : Store(s, v)) \/ NotifyListeners(s)

Spec == Init /\ [][Next]_vars

-----------------------------------------------------------------------------
\* "A callback method to receive a notification whenever the limit is updated
\* to a new value": when no SetLimit is under way, a listener that was called
\* was last called with the limit in force.
LastNoticeIsCurrent ==
    (\A s \in Setters : pending[s] = Unset)
        => \A c \in Listeners : heard[c] \in {Unset, limit}
=============================================================================
