----------------------------- MODULE EpochQueue -----------------------------
(***************************************************************************)
(* The Michael-Scott queue of crossbeam-epoch (sync/queue.rs) that holds   *)
(* the sealed bags of garbage.  Node 0 is the first sentinel and node v    *)
(* the one that value v is pushed with.  A node that is popped is retired  *)
(* (defer_destroy): from then on no thread may find it in the queue.       *)
(***************************************************************************)
EXTENDS Integers, Sequences, FiniteSets

CONSTANTS Threads,
          MaxPushes  \* a bound: values pushed

Values == 1..MaxPushes
Null   == MaxPushes + 1

VARIABLES head, tail,
          next,     \* the next pointer of each node
          retired,  \* nodes that were retired, as a sequence
          dropped,  \* the queue itself was dropped
          fresh,    \* the next value to push
          th,       \* what each thread is doing, with the pointers it has loaded
          result,   \* result of each thread's last call
          content   \* history: the values in the queue

queue == <<head, tail, next, retired, dropped>>
vars  == <<queue, fresh, th, result, content>>

Result(k, v) == [kind |-> k, val |-> v]
Idle == [pc |-> "idle", op |-> "none", onto |-> Null, nx |-> Null, val |-> 0]

Init ==
    /\ head = 0 /\ tail = 0
    /\ next = [n \in 0..MaxPushes |-> Null]
    /\ retired = << >> /\ dropped = FALSE
    /\ fresh = 1
    /\ th = [t \in Threads |-> Idle]
    /\ result = [t \in Threads |-> Result("none", 0)]
    /\ content = << >>

At(t, l)   == th[t].pc = l
Goto(t, l) == th' = [th EXCEPT ![t].pc = l]
Return(t, k, v) == /\ th' = [th EXCEPT ![t] = Idle]
                   /\ result' = [result EXCEPT ![t] = Result(k, v)]

Begin(t) ==
    /\ ~ dropped /\ At(t, "idle")
    /\ \/ /\ fresh <= MaxPushes /\ fresh' = fresh + 1
          /\ th' = [th EXCEPT ![t] = [Idle EXCEPT !.pc = "push", !.op = "push", !.val = fresh]]
       \/ /\ \E o \in {"try_pop", "try_pop_if"} :
                th' = [th EXCEPT ![t] = [Idle EXCEPT !.pc = "pop", !.op = o]]
          /\ UNCHANGED fresh
    /\ result' = [result EXCEPT ![t] = Result("pending", 0)]
    /\ UNCHANGED <<queue, content>>

-----------------------------------------------------------------------------
\* push: the tail is loaded ...
LoadTail(t) ==
    /\ At(t, "push")
    /\ th' = [th EXCEPT ![t].pc = "push_next", ![t].onto = tail]
    /\ UNCHANGED <<queue, fresh, result, content>>

\* ... and push_internal looks whether it is the last node.
PushNext(t) ==
    /\ At(t, "push_next")
    /\ LET n == next[th[t].onto]
       IN th' = [th EXCEPT ![t].pc = IF n = Null THEN "link" ELSE "help", ![t].nx = n]
    /\ UNCHANGED <<queue, fresh, result, content>>

MoveTail(from, to) == tail' = IF tail = from THEN to ELSE tail

HelpTail(t) ==
    /\ At(t, "help")
    /\ MoveTail(th[t].onto, th[t].nx)
    /\ Goto(t, "push")
    /\ UNCHANGED <<head, next, retired, dropped, fresh, result, content>>

LinkNode(t) ==
    /\ At(t, "link")
    /\ \/ /\ next[th[t].onto] = Null
          /\ next' = [next EXCEPT ![th[t].onto] = th[t].val]
          /\ content' = Append(content, th[t].val)
          /\ Goto(t, "linked")
       \/ /\ next[th[t].onto] # Null
          /\ Goto(t, "push")
          /\ UNCHANGED <<next, content>>
    /\ UNCHANGED <<head, tail, retired, dropped, fresh, result>>

AdvanceTail(t) ==
    /\ At(t, "linked")
    /\ MoveTail(th[t].onto, th[t].val)
    /\ Return(t, "pushed", th[t].val)
    /\ UNCHANGED <<head, next, retired, dropped, fresh, content>>

-----------------------------------------------------------------------------
\* pop_internal and pop_if_internal: head and its successor are loaded ...
LoadHead(t) ==
    /\ At(t, "pop")
    /\ th' = [th EXCEPT ![t].pc = "pop_next", ![t].onto = head]
    /\ UNCHANGED <<queue, fresh, result, content>>

\* ... the condition, if any, may refuse the value (a bag that has not expired) ...
PopNext(t) ==
    /\ At(t, "pop_next")
    /\ LET n == next[th[t].onto]
       IN \/ n = Null /\ Return(t, "empty", 0)
          \/ n # Null /\ th[t].op = "try_pop_if" /\ Return(t, "observed", 0)
          \/ /\ n # Null
             /\ th' = [th EXCEPT ![t].pc = "take", ![t].nx = n]
             /\ UNCHANGED result
    /\ UNCHANGED <<queue, fresh, content>>

\* ... and the head moves on to the successor, which becomes the sentinel.
TakeHead(t) ==
    /\ At(t, "take")
    /\ \/ /\ head = th[t].onto
          /\ head' = th[t].nx
          /\ content' = Tail(content)
          /\ Goto(t, "taken")
       \/ head # th[t].onto /\ Goto(t, "pop") /\ UNCHANGED <<head, content>>
    /\ UNCHANGED <<tail, next, retired, dropped, fresh, result>>

\* A tail that is left behind is moved along before the node is retired.
CheckTail(t) ==
    /\ At(t, "taken")
    /\ Goto(t, IF tail = th[t].onto THEN "pull" ELSE "retire")
    /\ UNCHANGED <<queue, fresh, result, content>>

PullTail(t) ==
    /\ At(t, "pull")
    /\ MoveTail(th[t].onto, th[t].nx)
    /\ Goto(t, "retire")
    /\ UNCHANGED <<head, next, retired, dropped, fresh, result, content>>

Retire(t) ==
    /\ At(t, "retire")
    /\ retired' = Append(retired, th[t].onto)
    /\ Return(t, "popped", th[t].nx)
    /\ UNCHANGED <<head, tail, next, dropped, fresh, content>>

\* The nodes from n on.
From(n) ==
    LET upTo[k \in 0..MaxPushes + 1] ==
            IF k = 0 THEN {n}
            ELSE LET fewer == upTo[k - 1] IN fewer \cup {next[m] : m \in fewer \ {Null}}
    IN upTo[MaxPushes + 1] \ {Null}

\* Drop: what is left is popped, then the sentinel is freed.
DropQueue ==
    /\ ~ dropped /\ \A t \in Threads : At(t, "idle")
    /\ dropped' = TRUE
    /\ retired' = retired \o [i \in 1..Len(content) + 1 |-> IF i = 1 THEN head ELSE content[i - 1]]
    /\ content' = << >>
    /\ UNCHANGED <<head, tail, next, fresh, th, result>>

Terminated == dropped /\ UNCHANGED vars

Next ==
    \/ \E t \in Threads :
          \/ Begin(t) \/ LoadTail(t) \/ PushNext(t) \/ HelpTail(t) \/ LinkNode(t) \/ AdvanceTail(t)
          \/ LoadHead(t) \/ PopNext(t) \/ TakeHead(t) \/ CheckTail(t) \/ PullTail(t) \/ Retire(t)
    \/ DropQueue \/ Terminated

Spec == Init /\ [][Next]_vars

-----------------------------------------------------------------------------
\* The variables are of their types.
TypeOK ==
    /\ head \in 0..MaxPushes /\ tail \in 0..MaxPushes
    /\ next \in [0..MaxPushes -> 1..Null]
    /\ retired \in Seq(0..MaxPushes) /\ dropped \in BOOLEAN /\ fresh \in 1..MaxPushes + 1
    /\ \A t \in Threads : th[t].onto \in 0..Null /\ th[t].nx \in 1..Null /\ th[t].val \in 0..MaxPushes
    /\ content \in Seq(Values)

Retired == {retired[i] : i \in DOMAIN retired}

\* No retired node can be reached from head or tail ("Advance the tail so that we
\* don't retire a pointer to a reachable node"), and none is retired twice; when
\* the queue is dropped every node has been.
RetiredUnreachable ==
    /\ Cardinality(Retired) = Len(retired)
    /\ ~ dropped => Retired \cap (From(head) \cup From(tail)) = {}
    /\ dropped => Retired = 0..fresh - 1

\* Calls that have taken effect but not returned yet.
Abstract == INSTANCE BoundedQueue WITH
    Cap <- MaxPushes + 1,
    buf <- content,
    result <- [t \in Threads |->
                  CASE At(t, "linked") -> Result("pushed", th[t].val)
                    [] th[t].pc \in {"taken", "pull", "retire"} -> Result("popped", th[t].nx)
                    [] OTHER -> result[t]]

\* push, try_pop and try_pop_if take effect at one moment each, in FIFO order.
ImplementsQueue == Abstract!Spec

=============================================================================
