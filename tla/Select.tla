------------------------------- MODULE Select -------------------------------
(***************************************************************************)
(* select.rs: run_select and run_ready over zero-capacity channels.  A     *)
(* thread registers its operations one after the other, may find one ready *)
(* or be selected by another thread while it does, waits, and unregisters  *)
(* them one after the other; all the while others pair with it, abort or   *)
(* disconnect.                                                             *)
(***************************************************************************)
EXTENDS ZeroChannel

Shuffles(s) == {[i \in DOMAIN s |-> s[p[i]]] : p \in Permutations(DOMAIN s)}

\* A call begins; a select looks at its operations in any order.
Begin(t) ==
    /\ At(t, "idle") /\ todo[t] # << >>
    /\ \E ops \in Shuffles(Call(t).ops) :
          th' = [th EXCEPT ![t].ops = ops, ![t].k = 1,
                           ![t].pc = CASE Call(t).kind = "direct" -> "direct"
                                       [] Call(t).kind = "select" -> "try"
                                       [] Call(t).kind = "ready"  -> "poll"]
    /\ UNCHANGED <<shared, local>>

LastOp(t) == th[t].k = Len(th[t].ops)

\* Context::with resets the context; a select that must not block aborts it.
Reset(t) ==
    ctx' = [ctx EXCEPT ![t] = [select |-> IF Call(t).mode = "try" THEN Aborted ELSE Waiting,
                               packet |-> None]]

-----------------------------------------------------------------------------
(***************************************************************************)
(* run_select.                                                             *)
(***************************************************************************)
\* try_select on one operation after the other: before blocking ("try"), for
\* the one that became ready ("hit") and before the next round ("again").
Trying(t) == th[t].pc \in {"try", "hit", "again"}

TryPair(t) == Trying(t) /\ Pair(t)

\* A disconnected channel is selected with a null token.
TryClosed(t) ==
    /\ Trying(t) /\ Alone(t) /\ Oper(t).c \in closed
    /\ Goto(t, "complete")
    /\ UNCHANGED <<shared, local>>

TryNext(t) ==
    /\ Trying(t) /\ Alone(t) /\ Oper(t).c \notin closed
    /\ \/ /\ At(t, "hit")
          /\ th' = [th EXCEPT ![t].pc = "again", ![t].k = 1]
          /\ UNCHANGED <<shared, todo, outcome>>
       \/ /\ ~ At(t, "hit") /\ ~ LastOp(t)
          /\ th' = [th EXCEPT ![t].k = @ + 1]
          /\ UNCHANGED <<shared, todo, outcome>>
       \/ /\ ~ At(t, "hit") /\ LastOp(t) /\ (At(t, "try") \/ Call(t).mode # "try")
          /\ th' = [th EXCEPT ![t].pc = "register", ![t].k = 1, ![t].hit = 0]
          /\ Reset(t)
          /\ UNCHANGED <<waker, closed, permit, packets, todo, outcome>>
       \/ /\ At(t, "again") /\ LastOp(t) /\ Call(t).mode # "block"
          /\ Return(t, "failed")
          /\ UNCHANGED shared
    /\ UNCHANGED received

\* SelectHandle::register with a packet on the heap: TRUE if somebody waits on
\* the other side or the channel is disconnected.
Register(t) ==
    /\ At(t, "register") /\ Unlocked(Oper(t).c)
    /\ LET o     == Oper(t)
           oper  == <<t, th[t].k>>
           other == <<o.c, Other(o.dir)>>
           sel   == Notify(Sel, waker[other].obs)
       IN /\ waker' = [waker EXCEPT ![<<o.c, o.dir>>].sel = Append(@, [cx |-> t, oper |-> oper]),
                                    ![other].obs = << >>]
          /\ packets' = [packets EXCEPT ![oper] = Packet("heap", None)]
          /\ ctx' = Chosen(sel) /\ permit' = Awake(sel)
          /\ th' = [th EXCEPT ![t].cnt = th[t].k,
                       ![t].pc = IF CanSelect(waker[other].sel, sel, t) \/ o.c \in closed
                                 THEN "abort" ELSE "look"]
    /\ UNCHANGED <<closed, local>>

\* The operation has become ready: abort, unless selected in the meantime.
Abort(t) ==
    /\ At(t, "abort")
    /\ ctx' = [ctx EXCEPT ![t].select = IF @ = Waiting THEN Aborted ELSE @]
    /\ th' = [th EXCEPT ![t].pc = "unregister", ![t].k = 1, ![t].sel = ctx'[t].select,
                        ![t].hit = IF ctx[t].select = Waiting THEN th[t].k ELSE 0]
    /\ UNCHANGED <<waker, closed, permit, packets, local>>

\* Another thread may have selected an operation while they are registered.
Look(t) ==
    /\ At(t, "look")
    /\ th' = [th EXCEPT ![t] =
                 IF ctx[t].select # Waiting
                 THEN [@ EXCEPT !.pc = IF Call(t).kind = "ready" THEN "unwatch" ELSE "unregister",
                                !.k = 1, !.sel = ctx[t].select]
                 ELSE IF LastOp(t) THEN [@ EXCEPT !.pc = "wait"]
                 ELSE [@ EXCEPT !.pc = IF Call(t).kind = "ready" THEN "watch" ELSE "register",
                                !.k = @ + 1]]
    /\ UNCHANGED <<shared, local>>

\* Mutant of Woken: a disconnection is taken for a spurious wake-up.
WokenWaitsOn(t) ==
    /\ At(t, "woken") /\ Call(t).kind # "direct"
    /\ th' = [th EXCEPT ![t].pc = IF th[t].sel = Disconnected THEN "wait"
                                  ELSE IF Call(t).kind = "ready" THEN "unwatch" ELSE "unregister",
                        ![t].k = IF th[t].sel = Disconnected THEN @ ELSE 1]
    /\ UNCHANGED <<shared, local>>

Woken(t) ==
    /\ At(t, "woken") /\ Call(t).kind # "direct"
    /\ th' = [th EXCEPT ![t].pc = IF Call(t).kind = "ready" THEN "unwatch" ELSE "unregister",
                        ![t].k = 1]
    /\ UNCHANGED <<shared, local>>

\* An entry that is still there takes its packet with it.
Unregister(t) ==
    /\ At(t, "unregister") /\ Unlocked(Oper(t).c)
    /\ LET w    == <<Oper(t).c, Oper(t).dir>>
           oper == <<t, th[t].k>>
       IN /\ packets' = IF Registered(waker[w].sel, oper)
                        THEN [packets EXCEPT ![oper] = NoPacket] ELSE packets
          /\ waker' = [waker EXCEPT ![w].sel = Unregistered(@, oper)]
    /\ th' = [th EXCEPT ![t] = IF th[t].k = th[t].cnt THEN [@ EXCEPT !.pc = "decide"]
                               ELSE [@ EXCEPT !.k = @ + 1]]
    /\ UNCHANGED <<closed, ctx, permit, local>>

\* Aborted by itself: the ready operation is tried; aborted at the deadline or
\* disconnected: another round.  Selected: accept waits for the packet.
Decide(t) ==
    /\ At(t, "decide")
    /\ LET s == th[t].sel
       IN \/ /\ s \in {Aborted, Disconnected}
             /\ th' = [th EXCEPT ![t].pc = IF th[t].hit # 0 THEN "hit" ELSE "again",
                                 ![t].k = IF th[t].hit # 0 THEN th[t].hit ELSE 1]
          \/ /\ s \notin {Aborted, Disconnected}
             /\ ctx[t].packet # None
             /\ th' = [th EXCEPT ![t].pc = "complete", ![t].k = s[2],
                                 ![t].tok = ctx[t].packet]
    /\ UNCHANGED <<shared, local>>

-----------------------------------------------------------------------------
(***************************************************************************)
(* run_ready.                                                              *)
(***************************************************************************)
Ready(t) ==
    LET o == Oper(t) IN CanSelect(waker[<<o.c, Other(o.dir)>>].sel, Sel, t) \/ o.c \in closed

\* is_ready of one operation after the other, for some rounds.
Poll(t) ==
    /\ At(t, "poll") /\ Unlocked(Oper(t).c)
    /\ \/ /\ Ready(t)
          /\ Return(t, "failed")
          /\ UNCHANGED shared
       \/ /\ ~ Ready(t) /\ ~ LastOp(t)
          /\ th' = [th EXCEPT ![t].k = @ + 1]
          /\ UNCHANGED <<shared, todo, outcome>>
       \/ /\ ~ Ready(t) /\ LastOp(t) /\ Call(t).mode # "block"
          /\ Return(t, "failed")
          /\ UNCHANGED shared
       \/ /\ ~ Ready(t) /\ LastOp(t) /\ Call(t).mode # "try"
          /\ th' = [th EXCEPT ![t].pc = "watch", ![t].k = 1]
          /\ Reset(t)
          /\ UNCHANGED <<waker, closed, permit, packets, todo, outcome>>
    /\ UNCHANGED received

Watch(t) ==
    /\ At(t, "watch") /\ Unlocked(Oper(t).c)
    /\ waker' = [waker EXCEPT ![<<Oper(t).c, Oper(t).dir>>].obs =
                                Append(@, [cx |-> t, oper |-> <<t, th[t].k>>])]
    /\ th' = [th EXCEPT ![t].cnt = th[t].k, ![t].pc = IF Ready(t) THEN "choose" ELSE "look"]
    /\ UNCHANGED <<closed, ctx, permit, packets, local>>

ChooseReady(t) ==
    /\ At(t, "choose")
    /\ ctx' = [ctx EXCEPT ![t].select = IF @ = Waiting THEN <<t, th[t].k>> ELSE @]
    /\ th' = [th EXCEPT ![t].pc = "unwatch", ![t].k = 1, ![t].sel = ctx'[t].select]
    /\ UNCHANGED <<waker, closed, permit, packets, local>>

\* Waker::unwatch; after the last, the selected operation is returned, or the
\* operations are polled again.
Unwatch(t) ==
    /\ At(t, "unwatch") /\ Unlocked(Oper(t).c)
    /\ waker' = [waker EXCEPT ![<<Oper(t).c, Oper(t).dir>>].obs =
                                SelectSeq(@, LAMBDA e : e.oper # <<t, th[t].k>>)]
    /\ \/ /\ th[t].k < th[t].cnt
          /\ th' = [th EXCEPT ![t].k = @ + 1]
          /\ UNCHANGED <<todo, outcome>>
       \/ /\ th[t].k = th[t].cnt /\ th[t].sel \in {Aborted, Disconnected}
          /\ th' = [th EXCEPT ![t].pc = "poll", ![t].k = 1]
          /\ UNCHANGED <<todo, outcome>>
       \/ /\ th[t].k = th[t].cnt /\ th[t].sel \notin {Aborted, Disconnected}
          /\ Return(t, "failed")
    /\ UNCHANGED <<closed, ctx, permit, packets, received>>

Step(t) ==
    \/ Begin(t) \/ DirectStep(t)
    \/ TryPair(t) \/ TryClosed(t) \/ TryNext(t) \/ Register(t) \/ Abort(t) \/ Look(t)
    \/ Woken(t) \/ Unregister(t) \/ Decide(t)
    \/ Poll(t) \/ Watch(t) \/ ChooseReady(t) \/ Unwatch(t)

Finished == \A t \in Threads : todo[t] = << >>

Next ==
    \/ \E t \in Threads : Step(t)
    \/ \E c \in Chans : Disconnect(c)
    \/ Finished /\ closed = Chans /\ UNCHANGED vars

Spec == Init /\ [][Next]_vars

-----------------------------------------------------------------------------
(***************************************************************************)
(* Properties.                                                             *)
(***************************************************************************)
\* The variables are of their types.
TypeOK ==
    /\ closed \subseteq Chans /\ permit \in [Threads -> BOOLEAN]
    /\ \A w \in DOMAIN waker : \A i \in DOMAIN waker[w].sel :
          waker[w].sel[i].oper \in DOMAIN packets
    /\ \A t \in Threads :
          /\ ctx[t].select \in {Waiting, Aborted, Disconnected} \cup DOMAIN packets
          /\ ctx[t].packet \in {None} \cup DOMAIN packets
          /\ th[t].tok \in {None} \cup DOMAIN packets
          /\ th[t].k \in 0..Len(th[t].ops) /\ th[t].cnt \in 0..Len(th[t].ops)
    /\ \A p \in DOMAIN packets : packets[p].place \in {"none", "stack", "heap"}

Entries(t) == {<<w, s>> \in (DOMAIN waker) \X {"sel", "obs"} :
                 \E i \in DOMAIN waker[w][s] : waker[w][s][i].cx = t}

\* Between two calls a thread is on no list and has no packet: every call that
\* registers removes its entries, and frees its packets, or the thread that
\* selected it does.
NothingLeft ==
    \A t \in Threads : At(t, "idle") =>
        /\ Entries(t) = {}
        /\ \A k \in Calls : packets[<<t, k>>].place = "heap" =>
              \E u \in Threads : At(u, "complete") /\ th[u].tok = <<t, k>>

\* The packet that a thread writes or reads is still there.
TokenAlive ==
    \A t \in Threads : th[t].pc \in {"hand_over", "complete"} /\ th[t].tok # None =>
        packets[th[t].tok].place # "none"

Holders(m) == {p \in DOMAIN packets : packets[p].msg = m}
Bound(p) == ctx[p[1]].select = p \/ \E t \in Threads : At(t, "complete") /\ th[t].tok = p

\* A message is in at most one packet or was received once; if its send says
\* that it failed, nobody has it or will; if it says that it succeeded, a
\* receiver has it or is bound to take it, whatever its deadline.
EachMessageOnce ==
    /\ received[None] = 0
    /\ \A m \in DOMAIN outcome :
          LET n == received[m] + Cardinality(Holders(m))
          IN /\ n <= 1
             /\ outcome[m] = "failed" => n = 0
             /\ outcome[m] = "sent" => received[m] = 1 \/ \E p \in Holders(m) : Bound(p)

\* Every call returns, if need be when the last handle of the other side goes:
\* no wakeup is lost.  Two selects on the same channels in opposite directions
\* are the exception: in lockstep each finds the other ready, aborts itself and
\* then finds it gone, over and over.
CallsReturn ==
    \/ <>Finished
    \/ []<>(\E t, u \in Threads : t # u /\ At(t, "abort") /\ At(u, "abort"))

Fairness == \A t \in Threads : WF_vars(Step(t))
LiveSpec == Spec /\ Fairness /\ \A c \in Chans : WF_vars(Disconnect(c))
=============================================================================
