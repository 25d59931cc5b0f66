------------------------------ MODULE Channel -------------------------------
(***************************************************************************)
(* What a bounded channel of crossbeam-channel promises to its users: a    *)
(* FIFO buffer of at most Cap messages, seen through the results of the    *)
(* calls.  Every call takes effect at one moment between its beginning and *)
(* its end.                                                                *)
(***************************************************************************)
EXTENDS Integers, Sequences

CONSTANTS Senders, Receivers, Cap, Messages

VARIABLES buf,           \* the messages in the channel, oldest first
          disconnected,  \* one side is gone
          live,          \* the receivers that still exist
          result         \* of each thread's call, or how far it got

vars == <<buf, disconnected, live, result>>

Threads == Senders \cup Receivers
Result(k, m) == [kind |-> k, msg |-> m]
NoMsg == << >>

\* A call has begun and has no effect yet; "late" if the channel was
\* disconnected before it began.
Pending(t) == result[t].kind \in {"early", "late"}
Returns(t, k, m) == Pending(t) /\ result' = [result EXCEPT ![t] = Result(k, m)]

Init ==
    /\ buf = << >>
    /\ disconnected = FALSE
    /\ live = Receivers
    /\ result = [t \in Threads |-> Result("none", NoMsg)]

Begin(t) ==
    /\ ~ Pending(t)
    /\ result' = [result EXCEPT ![t] = Result(IF disconnected THEN "late" ELSE "early", NoMsg)]
    /\ UNCHANGED <<buf, disconnected, live>>

Send(s, m) ==
    /\ ~ disconnected
    /\ Len(buf) < Cap
    /\ buf' = Append(buf, m)
    /\ Returns(s, "sent", m)
    /\ UNCHANGED <<disconnected, live>>

\* A call that overlaps the disconnection may still be told "full" after the
\* messages were discarded: it could have been told so before.
SendFull(s) ==
    /\ \/ Len(buf) = Cap
       \/ disconnected /\ live = {} /\ result[s].kind = "early"
    /\ Returns(s, "full", NoMsg)
    /\ UNCHANGED <<buf, disconnected, live>>

SendDisconnected(s) ==
    /\ disconnected
    /\ Returns(s, "disconnected", NoMsg)
    /\ UNCHANGED <<buf, disconnected, live>>

Recv(r) ==
    /\ buf # << >>
    /\ buf' = Tail(buf)
    /\ Returns(r, "got", Head(buf))
    /\ UNCHANGED <<disconnected, live>>

RecvEmpty(r) ==
    /\ buf = << >> /\ ~ disconnected
    /\ Returns(r, "empty", NoMsg)
    /\ UNCHANGED <<buf, disconnected, live>>

\* The remaining messages are received before the disconnection is reported.
RecvDisconnected(r) ==
    /\ buf = << >> /\ disconnected
    /\ Returns(r, "disconnected", NoMsg)
    /\ UNCHANGED <<buf, disconnected, live>>

Timeout(t) ==
    /\ Returns(t, "timeout", NoMsg)
    /\ UNCHANGED <<buf, disconnected, live>>

Disconnect ==
    /\ ~ disconnected
    /\ disconnected' = TRUE
    /\ UNCHANGED <<buf, live, result>>

DropReceiver(r) ==
    /\ r \in live /\ ~ Pending(r)
    /\ live' = live \ {r}
    /\ UNCHANGED <<buf, disconnected, result>>

\* Messages are discarded only after the last receiver is gone.
Discard ==
    /\ live = {} /\ disconnected
    /\ \E n \in 1..Len(buf) : buf' = SubSeq(buf, n + 1, Len(buf))
    /\ UNCHANGED <<disconnected, live, result>>

Next ==
    \/ \E t \in Threads : Begin(t) \/ Timeout(t)
    \/ \E s \in Senders : (\E m \in Messages : Send(s, m)) \/ SendFull(s) \/ SendDisconnected(s)
    \/ \E r \in Receivers : Recv(r) \/ RecvEmpty(r) \/ RecvDisconnected(r) \/ DropReceiver(r)
    \/ Disconnect \/ Discard

Spec == Init /\ [][Next]_vars
=============================================================================
