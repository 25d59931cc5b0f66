---------------------------- MODULE BoundedQueue ----------------------------
(***************************************************************************)
(* What ArrayQueue promises: a FIFO queue of at most Cap values on which   *)
(* push, force_push and pop take effect at one moment each.                *)
(***************************************************************************)
EXTENDS Integers, Sequences

CONSTANTS Threads, Cap, Values

VARIABLES buf,    \* the values in the queue, oldest first
          result  \* of each thread's call, "pending" before it takes effect

vars == <<buf, result>>

NoValue == 0
Result(k, v) == [kind |-> k, val |-> v]
Returns(t, k, v) == /\ result[t].kind = "pending"
                    /\ result' = [result EXCEPT ![t] = Result(k, v)]

Init == buf = << >> /\ result = [t \in Threads |-> Result("none", NoValue)]

Begin(t) ==
    /\ result[t].kind # "pending"
    /\ result' = [result EXCEPT ![t] = Result("pending", NoValue)]
    /\ UNCHANGED buf

Push(t, v) == Len(buf) < Cap /\ buf' = Append(buf, v) /\ Returns(t, "pushed", v)
PushFull(t) == Len(buf) = Cap /\ Returns(t, "full", NoValue) /\ UNCHANGED buf

\* The oldest value makes room and is handed back.
Replace(t, v) ==
    /\ Len(buf) = Cap
    /\ buf' = Append(Tail(buf), v)
    /\ Returns(t, "replaced", Head(buf))

Pop(t) == buf # << >> /\ buf' = Tail(buf) /\ Returns(t, "popped", Head(buf))
PopNone(t) == buf = << >> /\ Returns(t, "empty", NoValue) /\ UNCHANGED buf

\* The observers return something; ArrayQueue!ObserversAgree says what.
Observe(t, n) == Returns(t, "observed", n) /\ UNCHANGED buf

\* &mut self: a push or pop outside any concurrent call.
PushMut(v) == Len(buf) < Cap /\ buf' = Append(buf, v) /\ UNCHANGED result
PopMut == buf # << >> /\ buf' = Tail(buf) /\ UNCHANGED result

Drop ==
    /\ \A t \in Threads : result[t].kind # "pending"
    /\ buf' = << >>
    /\ UNCHANGED result

Next ==
    \/ \E t \in Threads :
          \/ Begin(t) \/ PushFull(t) \/ Pop(t) \/ PopNone(t)
          \/ \E v \in Values : Push(t, v) \/ Replace(t, v)
          \/ \E n \in 0..Cap : Observe(t, n)
    \/ \E v \in Values : PushMut(v)
    \/ PopMut \/ Drop

Spec == Init /\ [][Next]_vars
=============================================================================
