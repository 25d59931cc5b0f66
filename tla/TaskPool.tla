------------------------------ MODULE TaskPool ------------------------------
(***************************************************************************)
(* What the work-stealing deques promise: a sequence of tasks per worker,  *)
(* from which every task is taken once.  The owner pushes at the back and  *)
(* pops at the end its flavor names; thieves take from the front, and a    *)
(* batch is on its way for a while before its owner's deque has it.        *)
(***************************************************************************)
EXTENDS Integers, Sequences, FiniteSets, SequencesExt

CONSTANTS Workers, Tasks, Values

VARIABLES
    flavor,  \* "fifo" or "lifo", of each worker's deque
    q,       \* the tasks of each worker, front first
    limbo,   \* the tasks of a batch on its way to each worker
    from,    \* the worker that the batch was taken from, or w itself
    out      \* how often each task was taken out

vars == <<flavor, q, limbo, from, out>>

Obtain(x) == out' = [out EXCEPT ![x] = @ + 1]

Init ==
    /\ flavor \in [Workers -> {"fifo", "lifo"}]
    /\ q \in [Workers -> Seq(Tasks)]
    /\ limbo = [w \in Workers |-> << >>]
    /\ from = [w \in Workers |-> w]
    /\ out = [x \in Values |-> 0]

Push(w, x) ==
    /\ q' = [q EXCEPT ![w] = Append(@, x)]
    /\ UNCHANGED <<flavor, limbo, from, out>>

Pop(w) ==
    /\ q[w] # << >>
    /\ q' = [q EXCEPT ![w] = IF flavor[w] = "fifo" THEN Tail(@) ELSE Front(@)]
    /\ Obtain(IF flavor[w] = "fifo" THEN Head(q[w]) ELSE Last(q[w]))
    /\ UNCHANGED <<flavor, limbo, from>>

Steal(w, v) ==
    /\ q[v] # << >>
    /\ q' = [q EXCEPT ![v] = Tail(@)]
    /\ Obtain(Head(q[v]))
    /\ UNCHANGED <<flavor, limbo, from>>

\* Some tasks leave the front of v's deque together.
Take(w, v) ==
    /\ limbo[w] = << >> \/ from[w] = v
    /\ \E n \in 1..Len(q[v]) :
          /\ q' = [q EXCEPT ![v] = SubSeq(@, n + 1, Len(@))]
          /\ limbo' = [limbo EXCEPT ![w] = @ \o SubSeq(q[v], 1, n)]
    /\ from' = [from EXCEPT ![w] = v]
    /\ UNCHANGED <<flavor, out>>

\* The batch in the order in which the worker it came from would have popped.
Order(w) == IF flavor[from[w]] = "fifo" THEN limbo[w] ELSE Reverse(limbo[w])

\* The batch arrives: its new owner pops it in that order.
Arrive(w, batch) ==
    /\ q' = [q EXCEPT ![w] = @ \o IF flavor[w] = "fifo" THEN batch ELSE Reverse(batch)]
    /\ limbo' = [limbo EXCEPT ![w] = << >>]
    /\ from' = [from EXCEPT ![w] = w]
    /\ UNCHANGED flavor

Publish(w) == limbo[w] # << >> /\ Arrive(w, Order(w)) /\ UNCHANGED out

\* The first of the batch is popped at once.
PublishAndPop(w) ==
    /\ limbo[w] # << >>
    /\ Arrive(w, Tail(Order(w)))
    /\ Obtain(Head(Order(w)))

Discard(w) ==
    /\ q' = [q EXCEPT ![w] = << >>]
    /\ out' = [x \in Values |-> out[x] + Cardinality({k \in DOMAIN q[w] : q[w][k] = x})]
    /\ UNCHANGED <<flavor, limbo, from>>

Next ==
    \E w \in Workers :
        \/ \E x \in Tasks : Push(w, x)
        \/ Pop(w) \/ Publish(w) \/ PublishAndPop(w) \/ Discard(w)
        \/ \E v \in Workers \ {w} : Steal(w, v) \/ Take(w, v)

Spec == Init /\ [][Next]_vars
=============================================================================
