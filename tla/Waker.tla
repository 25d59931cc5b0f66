------------------------------- MODULE Waker -------------------------------
(***************************************************************************)
(* Waiting in crossbeam-channel: the Contexts of the threads (context.rs), *)
(* on which one Selected is decided by compare_exchange per wait, and the  *)
(* lists of entries (waker.rs) through which others find a Context.  An    *)
(* entry is a record with the fields cx (the thread), oper and packet.     *)
(* `sel` is Context's select of every thread.                              *)
(***************************************************************************)
EXTENDS Integers, Sequences, SequencesExt

Waiting      == <<"waiting">>
Aborted      == <<"aborted">>
Disconnected == <<"disconnected">>

\* Context::try_select: only the first choice of a wait counts.
Choose(sel, t, s) == IF sel[t] = Waiting THEN [sel EXCEPT ![t] = s] ELSE sel

\* Waker::try_select, seen from thread t: the first entry of another thread
\* that is still waiting, 0 if there is none.
FirstWaiting(q, sel, t) ==
    LET can == {i \in DOMAIN q : q[i].cx # t /\ sel[q[i].cx] = Waiting}
    IN IF can = {} THEN 0 ELSE CHOOSE i \in can : \A j \in can : i <= j

\* Waker::can_select.
CanSelect(q, sel, t) == FirstWaiting(q, sel, t) # 0

\* Waker::unregister removes the first entry of the operation.
Registered(q, o) == \E i \in DOMAIN q : q[i].oper = o
Unregistered(q, o) ==
    IF Registered(q, o)
    THEN RemoveAt(q, CHOOSE i \in DOMAIN q : q[i].oper = o /\ \A j \in 1..i - 1 : q[j].oper # o)
    ELSE q

\* Waker::disconnect: every waiting thread in the list.
WaitingIn(q, sel) == {q[i].cx : i \in {j \in DOMAIN q : sel[q[j].cx] = Waiting}}
============================================================================
