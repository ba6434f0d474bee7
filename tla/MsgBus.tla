------------------------------- MODULE MsgBus -------------------------------
(***************************************************************************)
(* What calling another script promises, whatever its queue, its lock and  *)
(* its event do: a mailbox per script that keeps the order of acceptance,  *)
(* a handler that runs at most once per call, and a caller that is told    *)
(* "ok" only when its own call has been handled.  Nothing is promised to   *)
(* a call that was refused, timed out, or reached a script that ended.     *)
(***************************************************************************)
EXTENDS Integers, Sequences

CONSTANTS Scripts, CallId

VARIABLES
    acc,        \* per script, the accepted calls in order
    taken,      \* per script, how many of them its thread has begun
    handled,    \* calls whose handler has run to its end
    res         \* what each caller was told

vars == <<acc, taken, handled, res>>

Accepted == UNION {{acc[t][i] : i \in 1 .. Len(acc[t])} : t \in Scripts}

Init ==
    /\ acc = [t \in Scripts |-> <<>>]
    /\ taken = [t \in Scripts |-> 0]
    /\ handled = {}
    /\ res = [c \in CallId |-> "none"]

\* A call that is neither answered nor in a mailbox enters one, at its end.
Accept(t, c) ==
    /\ res[c] = "none" /\ c \notin Accepted /\ c \notin handled
    /\ acc' = [acc EXCEPT ![t] = Append(@, c)]
    /\ UNCHANGED <<taken, handled, res>>

\* The script begins the oldest call it has not begun.
Take(t) ==
    /\ taken[t] < Len(acc[t])
    /\ taken' = [taken EXCEPT ![t] = @ + 1]
    /\ UNCHANGED <<acc, handled, res>>

\* The handler of the call begun last ends; it ends once.
Handle(t) ==
    /\ taken[t] > 0
    /\ acc[t][taken[t]] \notin handled
    /\ handled' = handled \cup {acc[t][taken[t]]}
    /\ UNCHANGED <<acc, taken, res>>

\* A call that never entered a mailbox: turned away, or run by its caller.
Refuse(c) ==
    /\ res[c] = "none" /\ c \notin Accepted /\ c \notin handled
    /\ res' = [res EXCEPT ![c] = "refused"]
    /\ UNCHANGED <<acc, taken, handled>>

Direct(c) ==
    /\ res[c] = "none" /\ c \notin Accepted /\ c \notin handled
    /\ handled' = handled \cup {c}
    /\ \E r \in {"ok", "sent"} : res' = [res EXCEPT ![c] = r]
    /\ UNCHANGED <<acc, taken>>

\* The caller of an accepted call is told: that it was sent, that it was
\* handled, or that it was not handled in time.
Tell(c) ==
    /\ res[c] = "none" /\ c \in Accepted
    /\ \E r \in {"sent", "timeout"} \cup (IF c \in handled THEN {"ok"} ELSE {}) :
          res' = [res EXCEPT ![c] = r]
    /\ UNCHANGED <<acc, taken, handled>>

Next ==
    \/ \E t \in Scripts : Take(t) \/ Handle(t) \/ \E c \in CallId : Accept(t, c)
    \/ \E c \in CallId : Refuse(c) \/ Direct(c) \/ Tell(c)

Spec == Init /\ [][Next]_vars
=============================================================================
