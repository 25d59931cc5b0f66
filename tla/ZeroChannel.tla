---------------------------- MODULE ZeroChannel ----------------------------
(***************************************************************************)
(* Zero-capacity channels (flavors/zero.rs): a sender and a receiver meet. *)
(* The one that comes first registers with a packet, on its stack or, when *)
(* it waits in a select, on the heap; the other decides its Context's      *)
(* selection, takes its entry and passes the message through that packet.  *)
(* The lists of waiting threads are behind the channel's mutex; contexts   *)
(* and packets are not.  Select adds the threads that wait in several.     *)
(***************************************************************************)
EXTENDS Waker, FiniteSets, TLC

CONSTANTS Threads,
          Chans,    \* the zero-capacity channels
          Scripts   \* for every thread, the calls it makes: kind "direct", "select"
                    \* or "ready", mode "try", "block" or "timeout", and the
                    \* operations, each a direction and a channel

None == <<"none">>

VARIABLES
    waker,     \* Inner's senders and receivers: selectors and observers
    closed,    \* the channels that are disconnected
    ctx,       \* the Context of each thread: select and packet
    permit,    \* the park token of each thread
    packets,   \* the packet of each entry: where it is, its message, ready
    todo,      \* the calls that each thread has still to make, with this one
    th,        \* what each thread is doing
    received,  \* history: how often each message was received
    outcome    \* history: whether the call that was to send it said so

shared == <<waker, closed, ctx, permit, packets>>
local  == <<todo, received, outcome>>
vars   == <<shared, th, local>>

Other(d)  == IF d = "send" THEN "recv" ELSE "send"
Call(t)   == todo[t][1]
Msg(t)    == <<t, Len(todo[t])>>
Oper(t)   == th[t].ops[th[t].k]
Messages  == UNION {{<<t, n>> : n \in 1..Len(todo[t])} : t \in Threads}

NoPacket == [place |-> "none", msg |-> None, ready |-> FALSE]
Packet(place, m) == [place |-> place, msg |-> m, ready |-> FALSE]

Idle == [pc |-> "idle", ops |-> << >>, k |-> 0, cnt |-> 0, sel |-> Waiting, hit |-> 0,
         tok |-> None]

Calls == 0..2

Init ==
    /\ waker = [w \in Chans \X {"send", "recv"} |-> [sel |-> << >>, obs |-> << >>]]
    /\ closed = {}
    /\ ctx = [t \in Threads |-> [select |-> Waiting, packet |-> None]]
    /\ permit = [t \in Threads |-> FALSE]
    /\ packets = [p \in Threads \X Calls |-> NoPacket]
    /\ todo \in Scripts
    /\ th = [t \in Threads |-> Idle]
    /\ received = [m \in Messages \cup {None} |-> 0]
    /\ outcome = [m \in Messages |-> "none"]

At(t, l)   == th[t].pc = l
Goto(t, l) == th' = [th EXCEPT ![t].pc = l]

Return(t, r) ==
    /\ th' = [th EXCEPT ![t] = Idle]
    /\ todo' = [todo EXCEPT ![t] = Tail(@)]
    /\ outcome' = [outcome EXCEPT ![Msg(t)] = r]

\* A thread that has selected another holds the mutex until it has told it.
Unlocked(c) == \A u \in Threads : At(u, "hand_over") => Oper(u).c # c

Sel == [t \in Threads |-> ctx[t].select]
Chosen(sel) == [t \in Threads |-> [ctx[t] EXCEPT !.select = sel[t]]]

\* Waker::notify: the observers are selected and the list is emptied.
Notify(sel, q) ==
    [t \in Threads |->
        LET mine == {i \in DOMAIN q : q[i].cx = t}
        IN IF sel[t] = Waiting /\ mine # {}
           THEN q[CHOOSE i \in mine : \A j \in mine : i <= j].oper ELSE sel[t]]
Awake(sel) == [t \in Threads |-> permit[t] \/ sel[t] # ctx[t].select]

-----------------------------------------------------------------------------
(***************************************************************************)
(* start_send and start_recv, write and read.                              *)
(***************************************************************************)
\* Waker::try_select on the other side: the first other thread that still
\* waits is selected, its entry removed and its packet the token.
Pair(t) ==
    LET o == Oper(t)
        w == <<o.c, Other(o.dir)>>
        i == FirstWaiting(waker[w].sel, Sel, t)
    IN /\ Unlocked(o.c) /\ i # 0
       /\ LET e == waker[w].sel[i]
          IN /\ ctx' = [ctx EXCEPT ![e.cx].select = e.oper]
             /\ th' = [th EXCEPT ![t].pc = "hand_over", ![t].tok = e.oper]
       /\ waker' = [waker EXCEPT ![w].sel = RemoveAt(@, i)]
       /\ UNCHANGED <<closed, permit, packets, local>>

\* store_packet and unpark, then the mutex is released.
HandOver(t) ==
    /\ At(t, "hand_over")
    /\ LET u == th[t].tok[1]
       IN /\ ctx' = [ctx EXCEPT ![u].packet = th[t].tok]
          /\ permit' = [permit EXCEPT ![u] = TRUE]
    /\ Goto(t, "complete")
    /\ UNCHANGED <<waker, closed, packets, local>>

\* Nobody to pair with.
Alone(t) ==
    LET o == Oper(t) IN Unlocked(o.c) /\ ~ CanSelect(waker[<<o.c, Other(o.dir)>>].sel, Sel, t)

\* write: a null token means that the channel is disconnected.
Write(t) ==
    /\ At(t, "complete") /\ Oper(t).dir = "send"
    /\ packets' = IF th[t].tok = None THEN packets
                  ELSE [packets EXCEPT ![th[t].tok].msg = Msg(t), ![th[t].tok].ready = TRUE]
    /\ Return(t, IF th[t].tok = None THEN "failed" ELSE "sent")
    /\ UNCHANGED <<waker, closed, ctx, permit, received>>

Receive(m) == received' = [received EXCEPT ![m] = @ + 1]

\* read: a packet on its sender's stack has the message already and is left to
\* the sender; one on the heap has to be waited for, and is freed.
Read(t) ==
    /\ At(t, "complete") /\ Oper(t).dir = "recv"
    /\ LET p == th[t].tok
       IN \/ /\ p = None
             /\ UNCHANGED <<packets, received>>
          \/ /\ p # None /\ packets[p].place = "stack"
             /\ Receive(packets[p].msg)
             /\ packets' = [packets EXCEPT ![p].msg = None, ![p].ready = TRUE]
          \/ /\ p # None /\ packets[p].place = "heap" /\ packets[p].ready
             /\ Receive(packets[p].msg)
             /\ packets' = [packets EXCEPT ![p] = NoPacket]
    /\ Return(t, "failed")
    /\ UNCHANGED <<waker, closed, ctx, permit>>

-----------------------------------------------------------------------------
(***************************************************************************)
(* send, recv, try_send, try_recv and their timeouts.                      *)
(***************************************************************************)
DirectPair(t) == At(t, "direct") /\ Pair(t)

\* Nobody waits: disconnected, or full or empty for a try.
DirectFails(t) ==
    /\ At(t, "direct") /\ Alone(t)
    /\ Oper(t).c \in closed \/ Call(t).mode = "try"
    /\ Return(t, "failed")
    /\ UNCHANGED <<shared, received>>

\* Otherwise the thread registers with a packet on its stack and those that
\* watch the other side are told.
DirectRegister(t) ==
    /\ At(t, "direct") /\ Alone(t)
    /\ Oper(t).c \notin closed /\ Call(t).mode # "try"
    /\ LET o     == Oper(t)
           other == <<o.c, Other(o.dir)>>
           sel   == Notify([Sel EXCEPT ![t] = Waiting], waker[other].obs)
       IN /\ waker' = [waker EXCEPT ![<<o.c, o.dir>>].sel = Append(@, [cx |-> t, oper |-> <<t, 0>>]),
                                    ![other].obs = << >>]
          /\ packets' = [packets EXCEPT ![<<t, 0>>] =
                            Packet("stack", IF o.dir = "send" THEN Msg(t) ELSE None)]
          /\ permit' = Awake(sel)
          /\ ctx' = [Chosen(sel) EXCEPT ![t] = [select |-> Waiting, packet |-> None]]
    /\ Goto(t, "wait")
    /\ UNCHANGED <<closed, local>>

\* wait_until: the selection is looked at before every park, which returns
\* with the token or, at the deadline, without.
WaitUntil(t) ==
    /\ At(t, "wait")
    /\ th' = [th EXCEPT ![t].pc = IF ctx[t].select = Waiting THEN "park" ELSE "woken",
                        ![t].sel = ctx[t].select]
    /\ UNCHANGED <<shared, local>>

Park(t) ==
    /\ At(t, "park")
    /\ permit[t]
    /\ permit' = [permit EXCEPT ![t] = FALSE]
    /\ Goto(t, "wait")
    /\ UNCHANGED <<waker, closed, ctx, packets, local>>

\* The deadline has passed: try_select(Aborted).
Expire(t) ==
    /\ At(t, "park") /\ Call(t).mode = "timeout"
    /\ ctx' = [ctx EXCEPT ![t].select = IF @ = Waiting THEN Aborted ELSE @]
    /\ th' = [th EXCEPT ![t].pc = "woken", ![t].sel = ctx'[t].select]
    /\ UNCHANGED <<waker, closed, permit, packets, local>>

\* Aborted or disconnected: unregister(oper).unwrap(), the message comes back.
DirectUnregister(t) ==
    /\ At(t, "woken") /\ Call(t).kind = "direct"
    /\ th[t].sel \in {Aborted, Disconnected}
    /\ Unlocked(Oper(t).c)
    /\ LET w == <<Oper(t).c, Oper(t).dir>>
       IN waker' = [waker EXCEPT ![w].sel = Unregistered(@, <<t, 0>>)]
    /\ packets' = [packets EXCEPT ![<<t, 0>>] = NoPacket]
    /\ Return(t, "failed")
    /\ UNCHANGED <<closed, ctx, permit, received>>

\* Mutant of DirectReady: the packet is left without waiting.
DirectReadyAtOnce(t) ==
    /\ At(t, "woken") /\ Call(t).kind = "direct"
    /\ th[t].sel \notin {Aborted, Disconnected}
    /\ IF Oper(t).dir = "recv" THEN Receive(packets[<<t, 0>>].msg) ELSE UNCHANGED received
    /\ packets' = [packets EXCEPT ![<<t, 0>>] = NoPacket]
    /\ Return(t, IF Oper(t).dir = "send" THEN "sent" ELSE "failed")
    /\ UNCHANGED <<waker, closed, ctx, permit>>

\* Selected: wait_ready, then the packet on the stack is done with.
DirectReady(t) ==
    /\ At(t, "woken") /\ Call(t).kind = "direct"
    /\ th[t].sel \notin {Aborted, Disconnected}
    /\ LET p == packets[<<t, 0>>]
       IN /\ p.ready
          /\ IF Oper(t).dir = "recv" THEN Receive(p.msg) ELSE UNCHANGED received
    /\ packets' = [packets EXCEPT ![<<t, 0>>] = NoPacket]
    /\ Return(t, IF Oper(t).dir = "send" THEN "sent" ELSE "failed")
    /\ UNCHANGED <<waker, closed, ctx, permit>>

\* disconnect, by the last handle of one side: the threads that have calls on
\* the channel in that direction still to make own one.
Disconnect(c) ==
    /\ c \notin closed /\ Unlocked(c)
    /\ \E d \in {"send", "recv"} : \A t \in Threads : \A n \in DOMAIN todo[t] :
          \A i \in DOMAIN todo[t][n].ops : todo[t][n].ops[i] # [dir |-> d, c |-> c]
    /\ closed' = closed \cup {c}
    /\ LET off(sel, q) == [t \in Threads |-> IF t \in WaitingIn(q, sel) THEN Disconnected
                                             ELSE sel[t]]
           one(sel, d) == Notify(off(sel, waker[<<c, d>>].sel), waker[<<c, d>>].obs)
           sel         == one(one(Sel, "send"), "recv")
       IN ctx' = Chosen(sel) /\ permit' = Awake(sel)
    /\ waker' = [w \in DOMAIN waker |-> IF w[1] = c THEN [waker[w] EXCEPT !.obs = << >>]
                                        ELSE waker[w]]
    /\ UNCHANGED <<packets, th, local>>

DirectStep(t) ==
    \/ HandOver(t) \/ Write(t) \/ Read(t)
    \/ DirectPair(t) \/ DirectFails(t) \/ DirectRegister(t)
    \/ WaitUntil(t) \/ Park(t) \/ Expire(t) \/ DirectUnregister(t) \/ DirectReady(t)
============================================================================
