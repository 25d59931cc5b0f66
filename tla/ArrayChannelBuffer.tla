------------------------- MODULE ArrayChannelBuffer -------------------------
(***************************************************************************)
(* ArrayChannel implements Channel: the messages from head to tail are its *)
(* buffer.                                                                 *)
(***************************************************************************)
EXTENDS ArrayChannel

\* The number of positions from head to tail, and the i-th of them.
Count == ((tail \div OneLap) - (head \div OneLap)) * Cap + Index(tail) - Index(head)
At(i) == LET n == Index(head) + i
         IN Lap(head) + (n \div Cap) * OneLap + (n % Cap)

\* A position is filled, or its sender has reserved it and is about to write.
MsgAt(x) ==
    IF stamp[Index(x)] = x + 1 THEN slot[Index(x)]
    ELSE Msg(CHOOSE s \in Senders : pc[s] = "access" /\ pos[s] = x)

Buffer == LET b == [i \in 1..Count |-> MsgAt(At(i - 1))]
          IN SelectSeq(b, LAMBDA m : m \notin dropped)

\* A receiver that has moved the head has received the message already.
ResultOf(t) ==
    IF t \in Receivers /\ pc[t] = "access" THEN Result("got", slot[Index(pos[t])])
    ELSE result[t]

Abstract == INSTANCE Channel WITH
    buf <- Buffer,
    disconnected <- marked,
    live <- {r \in Receivers : pc[r] \notin {"mark", "disconnect", "discard", "destroy", "done"}},
    result <- [t \in Threads |-> ResultOf(t)]

\* Every call on the array channel takes effect atomically on a FIFO buffer of
\* Cap messages, with the result that buffer calls for.
ImplementsChannel == Abstract!Spec
=============================================================================
