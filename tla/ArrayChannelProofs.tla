------------------------- MODULE ArrayChannelProofs -------------------------
(***************************************************************************)
(* Theorems about ArrayChannel, for any number of senders and receivers    *)
(* and any capacity: the slots are accessed by one thread at a time, the   *)
(* wakers know exactly the threads that wait, no wake-up is lost, and the  *)
(* channel is freed once, at the end, with nothing left in it.             *)
(***************************************************************************)
EXTENDS ArrayChannelSteps

-----------------------------------------------------------------------------
(***************************************************************************)
(* Types.                                                                  *)
(***************************************************************************)
\* A position that a thread works with has a slot.
LEMMA HeldPositions ==
    ASSUME TypeOK, RingInv, AccessInv, LoadedInv, NEW t \in Threads,
           pc[t] \in {"access", "stamp", "cas", "check"}
    PROVE  pos[t] \in Positions /\ Index(pos[t]) \in 0..Cap - 1
  <1>1. pos[t] \in Positions
    BY DEF AccessInv, LoadedInv, Window, Threads
  <1> QED
    BY <1>1, SuccPosition

\* Taking one of n elements leaves n - 1.
LEMMA NumberedLess ==
    ASSUME NEW n \in Nat, NEW S, Numbered(n, S), NEW t \in S
    PROVE  n # 0 /\ Numbered(n - 1, S \ {t})
  <1>1. PICK f \in [1..n -> S] : /\ \A x \in S : \E i \in 1..n : f[i] = x
                                 /\ \A i, j \in 1..n : f[i] = f[j] => i = j
    BY DEF Numbered
  <1>2. PICK k \in 1..n : f[k] = t
    BY <1>1
  <1> DEFINE g == [i \in 1..n - 1 |-> IF i = k THEN f[n] ELSE f[i]]
  <1>3. n # 0 /\ n \in 1..n /\ \A i \in 1..n - 1 : i \in 1..n /\ i # n
    OBVIOUS
  <1>4. g \in [1..n - 1 -> S \ {t}]
    BY <1>1, <1>2, <1>3
  <1>5. ASSUME NEW x \in S \ {t} PROVE \E i \in 1..n - 1 : g[i] = x
    <2>1. PICK i \in 1..n : f[i] = x
      BY <1>1
    <2>2. CASE i = n
      <3>1. k \in 1..n - 1
        BY <1>2, <2>1, <2>2
      <3> QED
        BY <2>1, <2>2, <3>1
    <2>3. CASE i # n
      <3>1. i \in 1..n - 1 /\ i # k
        BY <1>2, <2>1, <2>3
      <3> QED
        BY <2>1, <3>1
    <2> QED
      BY <2>2, <2>3
  <1>6. \A i, j \in 1..n - 1 : g[i] = g[j] => i = j
    BY <1>1, <1>3
  <1> QED
    BY <1>3, <1>4, <1>5, <1>6, Zenon DEF Numbered

\* A set of no elements is empty.
LEMMA NumberedNone ==
    ASSUME NEW S, NEW n \in Nat, Numbered(n, S)
    PROVE  n = 0 <=> S = {}
  <1>1. PICK f \in [1..n -> S] : \A x \in S : \E i \in 1..n : f[i] = x
    BY DEF Numbered
  <1>2. CASE n = 0
    BY <1>1, <1>2
  <1>3. CASE n # 0
    BY <1>1, <1>3
  <1> QED
    BY <1>2, <1>3

\* Who has not dropped its handle is counted.
LEMMA RefsPositive ==
    ASSUME TypeOK, CounterInv, NEW t \in Threads, pc[t] \notin Gone
    PROVE  refs[Side(t)] \in Nat \ {0}
  <1>1. t \in Held(Side(t)) /\ Numbered(refs[Side(t)], Held(Side(t))) /\ refs[Side(t)] \in Nat
    BY SideOf DEF CounterInv, Held, TypeOK
  <1> QED
    BY <1>1, NumberedNone

\* A call returns with a result, or goes on to block.
LEMMA ReturnTypes ==
    ASSUME TypeOK, NEW t \in Threads, NEW k \in Kinds, Return(t, k, NoMsg) \/ NotReady(t, k)
    PROVE  CallTypes'
  <1>1. ASSUME NEW j \in Kinds, Return(t, j, NoMsg) PROVE CallTypes'
    <2>1. Result(j, NoMsg) \in [kind : Kinds, msg : Messages \cup {NoMsg}]
      BY <1>1 DEF Result
    <2> QED
      BY <1>1, <2>1 DEF TypeOK, CallTypes, Return, Goto, Labels
  <1>2. ASSUME Goto(t, "register"), pos' = [pos EXCEPT ![t] = 0], UNCHANGED <<mode, result>>
        PROVE  CallTypes'
    BY <1>2 DEF TypeOK, CallTypes, Goto, Labels
  <1> QED
    BY <1>1, <1>2 DEF NotReady, Kinds

\* What the sender's call does with the tail it has loaded.
LEMMA HoldTailTypes ==
    ASSUME TypeOK, NEW t \in Threads, HoldTail(t)
    PROVE  CallTypes'
  <1>1. CASE Return(t, "disconnected", NoMsg)
    BY <1>1, ReturnTypes DEF Kinds
  <1>2. CASE /\ pos' = [pos EXCEPT ![t] = tail]
             /\ Goto(t, "stamp")
             /\ UNCHANGED <<mode, result>>
    BY <1>2 DEF TypeOK, CallTypes, Goto, Labels
  <1> QED
    BY <1>1, <1>2, Zenon DEF HoldTail

\* Every step keeps the types.
LEMMA TypesStep ==
    ASSUME Consistent, NEW t \in Threads, Step(t)
    PROVE  TypeOK'
  <1> IInv
    BY DEF Consistent
  <1> USE DEF Goto
  <1>1. TypeOK /\ OneLap \in Nat
    BY Widths DEF IInv
  <1>2. CASE Begin(t)
    <2>1. Modes \subseteq {"try", "block", "timed", "expired"}
      BY ArrayChannelAssumption
    <2>2. mode' \in [Threads -> {"try", "block", "timed", "expired"}]
      <3>1. PICK m \in Modes : mode' = [mode EXCEPT ![t] = m]
        BY <1>2 DEF Begin
      <3> QED
        BY <1>1, <2>1, <3>1 DEF TypeOK
    <2>3. Result(IF marked THEN "late" ELSE "early", NoMsg) \in [kind : Kinds, msg : Messages \cup {NoMsg}]
      BY DEF Result, Kinds
    <2> QED
      BY <1>1, <1>2, <2>2, <2>3 DEF TypeOK, Begin, Labels, ring, wakers, counter
  <1>3. CASE DropHandle(t)
    <2>1. refs' \in [Sides -> Nat]
      <3>1. refs[Side(t)] \in Nat \ {0}
        BY <1>1, <1>3, RefsPositive DEF IInv, DropHandle, Gone
      <3> QED
        BY <1>1, <1>3, <3>1, SideOf DEF TypeOK, DropHandle
    <2> QED
      BY <1>1, <1>3, <2>1 DEF TypeOK, DropHandle, Labels, ring, wakers
  <1>4. CASE t \in Senders /\ LoadTail(t)
    <2>1. CallTypes'
      BY <1>1, <1>4, HoldTailTypes DEF LoadTail
    <2> QED
      BY <1>1, <1>4, <2>1 DEF TypeOK, CallTypes, LoadTail, ring, wakers, counter
  <1>5. CASE t \in Senders /\ SendStamp(t)
    BY <1>1, <1>5 DEF TypeOK, SendStamp, Labels, ring, wakers, counter
  <1>6. CASE t \in Senders /\ SendCas(t)
    <2>1. Msg(t) \in Messages
      BY <1>6, MsgType DEF IInv, SendCas, Calling
    <2>2. Succ(tail) \in Nat
      BY SuccPosition DEF IInv, RingInv
    <2> QED
      BY <1>1, <1>6, <2>1, <2>2 DEF TypeOK, SendCas, Result, Labels, Kinds, wakers, counter
  <1>7. CASE t \in Senders /\ SendCasFails(t)
    <2>1. CallTypes'
      BY <1>1, <1>7, HoldTailTypes DEF SendCasFails
    <2> QED
      BY <1>1, <1>7, <2>1 DEF TypeOK, CallTypes, SendCasFails, ring, wakers, counter
  <1>8. CASE t \in Senders /\ SendCheck(t)
    <2>1. CallTypes'
      <3>1. CASE NotReady(t, "full")
        BY <1>1, <3>1, ReturnTypes DEF Kinds
      <3>2. CASE ~ NotReady(t, "full")
        BY <1>1, <1>8, <3>2, Zenon DEF TypeOK, CallTypes, SendCheck, Labels
      <3> QED
        BY <3>1, <3>2
    <2> QED
      BY <1>1, <1>8, <2>1 DEF TypeOK, CallTypes, SendCheck, ring, wakers, counter
  <1>9. CASE t \in Senders /\ Write(t)
    <2>1. Msg(t) \in Messages /\ next[t] + 1 \in Nat
      BY <1>9, MsgType DEF IInv, Write, Calling
    <2>2. Index(pos[t]) \in 0..Cap - 1
      BY <1>9, HeldPositions DEF IInv, Write
    <2> QED
      BY <1>1, <1>9, <2>1, <2>2 DEF TypeOK, Write, Labels, wakers, counter
  <1>10. CASE t \in Receivers /\ LoadHead(t)
    BY <1>1, <1>10 DEF TypeOK, LoadHead, Labels, ring, wakers, counter
  <1>11. CASE t \in Receivers /\ RecvStamp(t)
    BY <1>1, <1>11 DEF TypeOK, RecvStamp, Labels, ring, wakers, counter
  <1>12. CASE t \in Receivers /\ RecvCas(t)
    <2>1. Succ(head) \in Nat
      BY SuccPosition DEF IInv, RingInv
    <2> QED
      BY <1>1, <1>12, <2>1 DEF TypeOK, RecvCas, Labels, wakers, counter
  <1>13. CASE t \in Receivers /\ RecvCasFails(t)
    BY <1>1, <1>13 DEF TypeOK, RecvCasFails, Labels, ring, wakers, counter
  <1>14. CASE t \in Receivers /\ RecvCheck(t)
    <2>1. CallTypes'
      <3>1. CASE Return(t, "disconnected", NoMsg) \/ NotReady(t, "empty")
        BY <1>1, <3>1, ReturnTypes DEF Kinds
      <3>2. CASE ~ (Return(t, "disconnected", NoMsg) \/ NotReady(t, "empty"))
        BY <1>1, <1>14, <3>2, Zenon DEF TypeOK, CallTypes, RecvCheck, Labels
      <3> QED
        BY <3>1, <3>2
    <2> QED
      BY <1>1, <1>14, <2>1 DEF TypeOK, CallTypes, RecvCheck, ring, wakers, counter
  <1>15. CASE t \in Receivers /\ Read(t)
    <2>1. Index(pos[t]) \in 0..Cap - 1
      BY <1>15, HeldPositions DEF IInv, Read
    <2> QED
      BY <1>1, <1>15, <2>1 DEF TypeOK, Read, Result, Labels, Kinds, wakers, counter
  <1>16. CASE Notify(t)
    BY <1>1, <1>16, Zenon DEF TypeOK, Notify, Finish, Labels, ring, wakers, counter
  <1>17. CASE NotifyLock(t)
    <2>1. CASE UNCHANGED <<queue, isEmpty, select, permit>>
      BY <1>1, <1>17, <2>1 DEF TypeOK, NotifyLock, Finish, Labels, ring, counter
    <2>2. CASE ~ UNCHANGED <<queue, isEmpty, select, permit>>
      <3> DEFINE d == Other(t)
      <3>1. PICK i \in 1..Len(queue[d]) :
               /\ queue' = [queue EXCEPT ![d] = Removed(@, i)]
               /\ isEmpty' = [isEmpty EXCEPT ![d] = Len(queue[d]) = 1]
               /\ select' = [select EXCEPT ![queue[d][i]] = "operation"]
               /\ permit' = [permit EXCEPT ![queue[d][i]] = TRUE]
        BY <1>17, <2>2 DEF NotifyLock, TrySelect, wakers
      <3>2. d \in Sides /\ queue[d] \in Seq(Threads)
        BY <1>1, SideOf DEF TypeOK
      <3>3. Removed(queue[d], i) \in Seq(Threads)
        BY <3>2, RemovedEntry
      <3>4. /\ queue' \in [Sides -> Seq(Threads)] /\ isEmpty' \in [Sides -> BOOLEAN]
            /\ permit' \in [Threads -> BOOLEAN]
            /\ select' \in [Threads -> {"waiting", "aborted", "disconnected", "operation"}]
        BY <1>1, <3>1, <3>2, <3>3 DEF TypeOK
      <3> QED
        BY <1>1, <1>17, <3>4, Zenon DEF TypeOK, NotifyLock, Finish, Labels, ring, counter
    <2> QED
      BY <2>1, <2>2
  <1>18. CASE Register(t)
    <2>1. Append(queue[Side(t)], t) \in Seq(Threads)
      BY <1>1, SideOf DEF TypeOK
    <2> QED
      BY <1>1, <1>18, <2>1, Zenon DEF TypeOK, Register, Labels, ring, counter
  <1>19. CASE Recheck(t)
    BY <1>1, <1>19 DEF TypeOK, Recheck, Labels, ring, wakers, counter
  <1>20. CASE Recheck2(t)
    BY <1>1, <1>20 DEF TypeOK, Recheck2, Labels, ring, wakers, counter
  <1>21. CASE IsDisconnected(t)
    BY <1>1, <1>21 DEF TypeOK, IsDisconnected, Labels, ring, wakers, counter
  <1>22. CASE Abort(t)
    BY <1>1, <1>22 DEF TypeOK, Abort, Labels, ring, counter
  <1>23. CASE Wait(t)
    BY <1>1, <1>23, Zenon DEF TypeOK, Wait, Woken, Labels, ring, wakers, counter
  <1>24. CASE Park(t)
    BY <1>1, <1>24 DEF TypeOK, Park, Labels, ring, counter
  <1>25. CASE ParkTimeout(t)
    BY <1>1, <1>25, Zenon DEF TypeOK, ParkTimeout, Woken, Labels, ring, counter
  <1>26. CASE Unregister(t)
    <2> DEFINE q == queue[Side(t)]
    <2>1. q \in Seq(Threads) /\ Side(t) \in Sides
      BY <1>1, SideOf DEF TypeOK
    <2>2. Lists(q, OnList(Side(t))) /\ t \in OnList(Side(t))
      BY <1>26, <2>1, SideOf, Zenon DEF IInv, QueueInv, Unregister, OnList, Registered
    <2>3. PICK i \in DOMAIN q : q[i] = t /\ \A j \in DOMAIN q : q[j] = t => j = i
      BY <2>2 DEF Lists
    <2>4. Without(q, t) = Removed(q, i)
      BY <2>1, <2>3, WithoutEntry
    <2>5. Without(q, t) \in Seq(Threads)
      BY <2>1, <2>3, <2>4, RemovedEntry
    <2> QED
      BY <1>1, <1>26, <2>1, <2>5, Zenon DEF TypeOK, Unregister, Labels, ring, counter
  <1>27. CASE Mark(t)
    <2>1. pc' \in [Threads -> Labels] /\ pos' \in [Threads -> Nat]
      <3>1. CASE Goto(t, "disconnect") /\ UNCHANGED pos
        BY <1>1, <3>1 DEF TypeOK, Labels
      <3>2. CASE AfterDisconnect(t)
        BY <1>1, <3>2 DEF TypeOK, AfterDisconnect, Labels
      <3> QED
        BY <1>27, <3>1, <3>2, Zenon DEF Mark
    <2> QED
      BY <1>1, <1>27, <2>1 DEF TypeOK, Mark, wakers, counter
  <1>28. CASE Disconnect(t)
    BY <1>1, <1>28 DEF TypeOK, Disconnect, AfterDisconnect, Labels, ring, counter
  <1>29. CASE Discard(t)
    <2>1. t \in Receivers
      BY <1>29, SideOf DEF IInv, DropInv, Discard
    <2>2. slot[Index(pos[t])] \in Messages /\ pos[t] \in Positions
      BY <1>29, <2>1, DiscardsMessage DEF IInv, Discard, Stamp, Window
    <2>3. Succ(pos[t]) \in Nat
      BY <2>2, SuccPosition
    <2> QED
      BY <1>1, <1>29, <2>2, <2>3 DEF TypeOK, Discard, ring, wakers, counter
  <1>30. CASE DiscardEnd(t)
    BY <1>1, <1>30 DEF TypeOK, DiscardEnd, Labels, ring, wakers, counter
  <1>31. CASE Destroy(t)
    BY <1>1, <1>31 DEF TypeOK, Destroy, Labels, ring, wakers
  <1> QED
    BY <1>2, <1>3, <1>4, <1>5, <1>6, <1>7, <1>8, <1>9, <1>10, <1>11, <1>12, <1>13, <1>14,
       <1>15, <1>16, <1>17, <1>18, <1>19, <1>20, <1>21, <1>22, <1>23, <1>24, <1>25, <1>26,
       <1>27, <1>28, <1>29, <1>30, <1>31
       DEF Step, Progress, SendStep, RecvStep, BlockStep, ReleaseStep

-----------------------------------------------------------------------------
(***************************************************************************)
(* The counter and the discarded messages.                                 *)
(***************************************************************************)
\* Dropping a handle of side d takes it out of those, and it is the last one if the
\* counter was 1: then all the others are done.
LEMMA DropFacts ==
    ASSUME Consistent, NEW t \in Threads, DropHandle(t), NEW d, d = Side(t)
    PROVE  /\ d \in Sides /\ t \in Held(d) /\ Held(d)' = Held(d) \ {t}
           /\ Numbered(refs'[d], Held(d)')
           /\ \A e \in Sides : e # d => refs'[e] = refs[e] /\ Held(e)' = Held(e)
           /\ \A u \in Threads : u # t => pc'[u] = pc[u]
           /\ pc[t] = "idle"
           /\ \/ pc'[t] = "mark" /\ \A u \in Of(d) : u # t => pc[u] = "done"
              \/ pc'[t] = "done" /\ \E u \in Of(d) : u # t /\ pc[u] \notin Gone
  <1> IInv
    BY DEF Consistent
  <1>1. pc \in [Threads -> Labels] /\ refs \in [Sides -> Nat]
    BY DEF IInv, TypeOK
  <1>2. /\ d \in Sides /\ t \in Of(d)
        /\ \A e \in Sides : Of(e) \subseteq Threads /\ (e # d => t \notin Of(e))
        /\ \A u \in Of(d) : Side(u) = d
    BY SideOf, ArrayChannelAssumption DEF Of, Threads, Sides, Side
  <1>3. /\ pc[t] = "idle" /\ refs' = [refs EXCEPT ![d] = @ - 1]
        /\ pc' = [pc EXCEPT ![t] = IF refs[d] = 1 THEN "mark" ELSE "done"]
    BY DEF DropHandle, Goto
  <1>4. pc'[t] \in Gone /\ \A u \in Threads : u # t => pc'[u] = pc[u]
    BY <1>1, <1>3 DEF Gone
  <1>5. t \in Held(d) /\ Held(d)' = Held(d) \ {t}
    BY <1>2, <1>3, <1>4 DEF Held, Gone
  <1>6. refs[d] \in Nat /\ refs[d] # 0 /\ Numbered(refs[d] - 1, Held(d) \ {t})
    <2>1. refs[d] \in Nat /\ Numbered(refs[d], Held(d))
      BY <1>1, <1>2 DEF IInv, CounterInv
    <2> QED
      BY <1>5, <2>1, NumberedLess
  <1>7. refs[d] - 1 \in Nat /\ (refs[d] = 1 <=> Held(d) \ {t} = {})
    <2>1. refs[d] - 1 \in Nat /\ (refs[d] = 1 <=> refs[d] - 1 = 0)
      BY <1>6
    <2> QED
      BY <1>6, <2>1, NumberedNone
  <1>8. Numbered(refs'[d], Held(d)') /\ \A e \in Sides : e # d => refs'[e] = refs[e]
    BY <1>1, <1>2, <1>3, <1>5, <1>6
  <1>9. \A e \in Sides : e # d => Held(e)' = Held(e)
    BY <1>2, <1>4 DEF Held
  <1>10. CASE refs[d] = 1
    <2>2. \A u \in Of(d) : u # t => pc[u] \in Gone
      BY <1>7, <1>10 DEF Held
    <2>3. \A u \in Of(d) : u # t => pc[u] = "done"
      BY <1>2, <1>3, <2>2 DEF IInv, CounterInv, Gone
    <2>4. pc'[t] = "mark"
      BY <1>1, <1>3, <1>10
    <2> QED
      BY <1>2, <1>3, <1>4, <1>5, <1>8, <1>9, <2>3, <2>4
  <1>11. CASE refs[d] # 1
    <2>2. \E u \in Of(d) : u # t /\ pc[u] \notin Gone
      BY <1>7, <1>11 DEF Held
    <2>3. pc'[t] = "done"
      BY <1>1, <1>3, <1>11
    <2> QED
      BY <1>2, <1>3, <1>4, <1>5, <1>8, <1>9, <2>2, <2>3
  <1> QED
    BY <1>10, <1>11

\* A step that does not change who holds a handle or is done.
LEMMA SameCounterKeeps ==
    ASSUME Consistent, NEW t \in Threads, UNCHANGED counter,
           \A u \in Threads : u # t => pc'[u] = pc[u],
           pc[t] \in Gone <=> pc'[t] \in Gone, pc[t] # "done", pc'[t] # "done"
    PROVE  CounterInv'
  <1> IInv
    BY DEF Consistent
  <1>1. \A d \in Sides : Of(d) \subseteq Threads
    BY DEF Of, Threads
  <1>2. refs' = refs /\ destroy' = destroy /\ freed' = freed
    BY DEF counter
  <1>3. \A d \in Sides : Held(d)' = Held(d)
    BY <1>1 DEF Held
  <1>4. \A d \in Sides : AllDone(d)' <=> AllDone(d)
    BY <1>1 DEF AllDone
  <1>5. \A v, u \in Threads :
           v # u /\ Side(v) = Side(u) /\ pc'[v] \in Gone \ {"done"} => pc'[u] = "done"
    <2>1. \A v, u \in Threads :
             v # u /\ Side(v) = Side(u) /\ pc[v] \in Gone \ {"done"} => pc[u] = "done"
      BY DEF IInv, CounterInv
    <2> QED
      BY <2>1
  <1>6. \A d \in Sides : Numbered(refs'[d], Held(d)')
    BY <1>2, <1>3 DEF IInv, CounterInv
  <1> QED
    BY <1>2, <1>4, <1>5, <1>6 DEF IInv, CounterInv

\* Every step keeps the counter right.
LEMMA CounterStep ==
    ASSUME Consistent, NEW t \in Threads, Step(t)
    PROVE  CounterInv'
  <1> IInv
    BY DEF Consistent
  <1>1. CASE CallStep(t)
    BY <1>1, CallStepFacts, SameCounterKeeps DEF Gone
  <1>2. CASE DropHandle(t)
    <2> PICK d : d = Side(t)
      OBVIOUS
    <2>1. /\ d \in Sides /\ t \in Held(d) /\ Held(d)' = Held(d) \ {t}
          /\ Numbered(refs'[d], Held(d)')
          /\ \A e \in Sides : e # d => refs'[e] = refs[e] /\ Held(e)' = Held(e)
          /\ \A u \in Threads : u # t => pc'[u] = pc[u]
          /\ pc[t] = "idle"
          /\ \/ pc'[t] = "mark" /\ \A u \in Of(d) : u # t => pc[u] = "done"
             \/ pc'[t] = "done" /\ \E u \in Of(d) : u # t /\ pc[u] \notin Gone
      BY <1>2, DropFacts
    <2>2. destroy' = destroy /\ freed' = freed
      BY <1>2 DEF DropHandle
    <2>3. /\ \A e \in Sides : Of(e) \subseteq Threads /\ (e # d => t \notin Of(e))
          /\ \A u \in Threads : u \in Of(d) <=> Side(u) = d
          /\ t \in Of(d)
      BY <2>1, SideOf, ArrayChannelAssumption DEF Of, Threads, Sides, Side
    <2>4. \A e \in Sides : Numbered(refs'[e], Held(e)')
      <3> SUFFICES ASSUME NEW e \in Sides PROVE Numbered(refs'[e], Held(e)')
        OBVIOUS
      <3>1. CASE e = d
        BY <2>1, <3>1
      <3>2. CASE e # d
        BY <2>1, <3>2 DEF IInv, CounterInv
      <3> QED
        BY <3>1, <3>2
    <2>5. \A v, u \in Threads :
             v # u /\ Side(v) = Side(u) /\ pc'[v] \in Gone \ {"done"} => pc'[u] = "done"
      <3> SUFFICES ASSUME NEW v \in Threads, NEW u \in Threads, v # u, Side(v) = Side(u),
                          pc'[v] \in Gone \ {"done"}
                   PROVE  pc'[u] = "done"
        OBVIOUS
      <3>1. CASE v = t
        BY <2>1, <2>3, <3>1
      <3>2. CASE v # t
        <4>1. pc[u] = "done"
          BY <2>1, <3>2 DEF IInv, CounterInv
        <4> QED
          BY <2>1, <4>1
      <3> QED
        BY <3>1, <3>2
    <2>6. ~ AllDone(d)' /\ ~ AllDone(d)
      BY <2>1, <2>3 DEF AllDone, Gone
    <2>7. \A e \in Sides : e # d => (AllDone(e)' <=> AllDone(e))
      BY <2>1, <2>3 DEF AllDone
    <2>8. \A e \in Sides : AllDone(e)' <=> AllDone(e)
      <3> SUFFICES ASSUME NEW e \in Sides PROVE AllDone(e)' <=> AllDone(e)
        OBVIOUS
      <3>1. CASE e = d
        BY <2>6, <3>1 DEF AllDone
      <3> QED
        BY <2>7, <3>1
    <2> QED
      BY <2>2, <2>4, <2>5, <2>8 DEF IInv, CounterInv
  <1>3. CASE ReleaseStep(t) /\ ~ Destroy(t)
    BY <1>3, ReleaseStepFacts, SameCounterKeeps DEF Gone
  <1>4. CASE Destroy(t)
    <2> PICK d : d = Side(t)
      OBVIOUS
    <2>1. /\ pc[t] = "destroy" /\ pc'[t] = "done" /\ \A u \in Threads : u # t => pc'[u] = pc[u]
          /\ destroy' = TRUE /\ freed' = destroy /\ refs' = refs
      BY <1>4 DEF Destroy, Goto, IInv, TypeOK
    <2>2. /\ d \in Sides /\ t \in Of(d)
          /\ \A e \in Sides : Of(e) \subseteq Threads /\ (e # d => t \notin Of(e))
          /\ \A u \in Threads : u \in Of(d) <=> Side(u) = d
      BY SideOf, ArrayChannelAssumption DEF Of, Threads, Sides, Side
    <2>3. \A u \in Of(d) : u # t => pc[u] = "done"
      BY <2>1, <2>2 DEF IInv, CounterInv, Gone
    <2>4. AllDone(d)' /\ ~ AllDone(d)
      BY <2>1, <2>2, <2>3 DEF AllDone
    <2>5. \A e \in Sides : e # d => (AllDone(e)' <=> AllDone(e))
      BY <2>1, <2>2 DEF AllDone
    <2>6. destroy' <=> \E e \in Sides : AllDone(e)'
      BY <2>1, <2>2, <2>4
    <2>7. freed' <=> \A e \in Sides : AllDone(e)'
      <3>1. destroy <=> \E e \in Sides : AllDone(e)
        BY DEF IInv, CounterInv
      <3>2. Sides = {d, Other(t)} /\ Other(t) # d
        BY SideOf
      <3> PICK o : o = Other(t)
        OBVIOUS
      <3>3. destroy <=> AllDone(o)
        BY <2>4, <3>1, <3>2 DEF AllDone
      <3>4. AllDone(o)' <=> AllDone(o)
        BY <2>5, <3>2
      <3>5. (\A e \in Sides : AllDone(e)') <=> AllDone(d)' /\ AllDone(o)'
        BY <3>2 DEF AllDone
      <3> QED
        BY <2>1, <2>4, <3>3, <3>4, <3>5
    <2>8. \A e \in Sides : Held(e)' = Held(e)
      BY <2>1, <2>2 DEF Held, Gone
    <2>9. \A e \in Sides : Numbered(refs'[e], Held(e)')
      BY <2>1, <2>8 DEF IInv, CounterInv
    <2>10. \A v, u \in Threads :
              v # u /\ Side(v) = Side(u) /\ pc'[v] \in Gone \ {"done"} => pc'[u] = "done"
      <3>1. \A v, u \in Threads :
               v # u /\ Side(v) = Side(u) /\ pc[v] \in Gone \ {"done"} => pc[u] = "done"
        BY DEF IInv, CounterInv
      <3> QED
        BY <2>1, <3>1
    <2> QED
      BY <2>1, <2>6, <2>7, <2>9, <2>10 DEF CounterInv
  <1> QED
    BY <1>1, <1>2, <1>3, <1>4, StepKinds

\* Every step keeps track of the dropped messages.
LEMMA DropStep ==
    ASSUME Consistent, NEW t \in Threads, Step(t)
    PROVE  DropInv'
  <1> IInv
    BY DEF Consistent
  <1>1. /\ Receivers \subseteq Threads /\ Senders \subseteq Threads
        /\ t \notin Senders => t \in Receivers
        /\ t \in Receivers => t \notin Senders
        /\ \A r \in Receivers : r \notin Senders
    BY SideOf DEF Threads
  <1>2. /\ \A s \in Senders : pc[s] # "discard"
        /\ \A u \in Threads : pc[u] \in {"disconnect", "discard", "destroy"} => marked
    BY DEF IInv, DropInv
  <1>3. CASE CallStep(t)
    <2>1. /\ dropped' = dropped /\ marked' = marked /\ pc[t] \notin Gone /\ pc'[t] \notin Gone
          /\ \A u \in Threads : u # t => pc'[u] = pc[u]
      BY <1>3, CallStepFacts
    <2>2. /\ \A s \in Senders : pc'[s] # "discard"
          /\ \A u \in Threads : pc'[u] \in {"disconnect", "discard", "destroy"} => marked'
      BY <1>1, <1>2, <2>1 DEF Gone
    <2>3. CASE t \in Receivers
      <3>1. dropped = {} /\ \A r \in Receivers : pc[r] \notin {"discard", "destroy"}
        BY <2>1, <2>3, DroppedLate DEF Gone
      <3> QED
        BY <1>1, <2>1, <2>2, <2>3, <3>1, NothingDropped DEF Gone
    <2>4. CASE t \in Senders /\ SendCas(t)
      <3>1. ~ marked
        BY <2>4 DEF SendCas
      <3>2. /\ dropped = {} /\ \A r \in Receivers : pc[r] \notin {"discard", "destroy"}
            /\ ~ AllDone("recv")
        BY <3>1, DroppedLate
      <3>3. \A r \in Receivers : pc'[r] = pc[r]
        BY <1>1, <2>1, <2>4
      <3>4. \E r \in Receivers : pc'[r] # "done"
        BY <3>2, <3>3 DEF AllDone, Of
      <3> QED
        BY <2>1, <2>2, <3>2, <3>3, <3>4, NothingDropped
    <2>5. CASE t \in Senders /\ Write(t)
      BY <2>5, WriteKeepsDropped
    <2>6. CASE t \in Senders /\ ~ SendCas(t) /\ ~ Write(t)
      <3>1. Local(t)
        BY <1>1, <2>6, LocalSteps
      <3>2. \A r \in Receivers : r # t
        BY <1>1, <2>6
      <3> QED
        BY <1>1, <2>1, <2>2, <3>1, <3>2, SenderKeepsDropped DEF Local
    <2> QED
      BY <1>1, <2>3, <2>4, <2>5, <2>6
  <1>4. CASE DropHandle(t)
    <2> PICK d : d = Side(t)
      OBVIOUS
    <2>1. /\ \A u \in Threads : u # t => pc'[u] = pc[u]
          /\ pc[t] = "idle"
          /\ \/ pc'[t] = "mark"
             \/ pc'[t] = "done" /\ \E u \in Of(d) : u # t /\ pc[u] \notin Gone
      BY <1>4, DropFacts
    <2>2. dropped' = dropped /\ marked' = marked /\ UNCHANGED <<head, tail, stamp, slot>> /\ pos' = pos
      BY <1>4 DEF DropHandle, ring
    <2>3. /\ \A s \in Senders : pc'[s] # "discard"
          /\ \A u \in Threads : pc'[u] \in {"disconnect", "discard", "destroy"} => marked'
      BY <1>1, <1>2, <2>1, <2>2
    <2>4. CASE t \in Senders
      BY <1>1, <2>1, <2>2, <2>3, <2>4, SenderKeepsDropped
    <2>5. CASE t \in Receivers
      <3>1. dropped = {} /\ \A r \in Receivers : pc[r] \notin {"discard", "destroy"}
        BY <2>1, <2>5, DroppedLate
      <3>2. \A r \in Receivers : pc'[r] \notin {"discard", "destroy"}
        BY <1>1, <2>1, <3>1
      <3>3. Of(d) = Receivers
        BY <1>1, <2>5 DEF Of, Side
      <3>4. \E r \in Receivers : pc'[r] # "done"
        BY <1>1, <2>1, <2>5, <3>3 DEF Gone
      <3> QED
        BY <2>2, <2>3, <3>1, <3>2, <3>4, NothingDropped
    <2> QED
      BY <1>1, <2>4, <2>5
  <1>5. CASE ReleaseStep(t) /\ t \in Senders
    <2>1. /\ \A u \in Threads : u # t => pc'[u] = pc[u] /\ pos'[u] = pos[u]
          /\ UNCHANGED <<head, tail, stamp, slot>> /\ (marked => marked')
      BY <1>5, ReleaseStepFacts
    <2>2. dropped' = dropped /\ pc'[t] # "discard" /\ (pc'[t] \in {"disconnect", "destroy"} => marked')
      <3>1. ~ Discard(t) /\ ~ DiscardEnd(t)
        BY <1>2, <1>5 DEF Discard, DiscardEnd
      <3>2. CASE Mark(t)
        <4>1. dropped' = dropped /\ marked'
          BY <3>2 DEF Mark
        <4>2. pc'[t] # "discard"
          BY <1>5, <3>2 DEF Mark, AfterDisconnect, Goto, IInv, TypeOK
        <4> QED
          BY <4>1, <4>2
      <3>3. CASE Disconnect(t)
        <4>1. dropped' = dropped /\ marked
          BY <1>2, <3>3 DEF Disconnect
        <4>2. pc'[t] # "discard"
          BY <1>5, <3>3 DEF Disconnect, AfterDisconnect, Goto, IInv, TypeOK
        <4> QED
          BY <2>1, <4>1, <4>2
      <3>4. CASE Destroy(t)
        BY <3>4 DEF Destroy, Goto, IInv, TypeOK
      <3> QED
        BY <1>5, <3>1, <3>2, <3>3, <3>4 DEF ReleaseStep
    <2>3. \A s \in Senders : pc'[s] # "discard"
      BY <1>1, <1>2, <2>1, <2>2
    <2>4. \A u \in Threads : pc'[u] \in {"disconnect", "discard", "destroy"} => marked'
      BY <1>2, <2>1, <2>2
    <2>5. \A r \in Receivers : pc'[r] = pc[r] /\ pos'[r] = pos[r]
      BY <1>1, <1>5, <2>1
    <2> QED
      BY <2>1, <2>2, <2>3, <2>4, <2>5, SenderKeepsDropped
  <1>6. CASE ReleaseStep(t) /\ t \in Receivers
    <2>1. CASE Mark(t)
      <3>1. /\ marked' /\ UNCHANGED <<head, tail, stamp, slot, dropped>> /\ pc[t] = "mark"
            /\ Goto(t, "disconnect") \/ AfterDisconnect(t)
        BY <2>1 DEF Mark
      <3>2. CASE Goto(t, "disconnect")
        <4>1. /\ pc'[t] = "disconnect" /\ \A u \in Threads : u # t => pc'[u] = pc[u]
          BY <3>2 DEF Goto, IInv, TypeOK
        <4>2. dropped = {} /\ \A r \in Receivers : pc[r] \notin {"discard", "destroy"}
          BY <1>6, <3>1, DroppedLate
        <4>3. \A r \in Receivers : pc'[r] \notin {"discard", "destroy"}
          BY <1>1, <4>1, <4>2
        <4>4. \A s \in Senders : pc'[s] # "discard"
          BY <1>1, <1>2, <1>6, <4>1
        <4>5. \E r \in Receivers : pc'[r] # "done"
          BY <1>6, <4>1
        <4> QED
          BY <3>1, <4>2, <4>3, <4>4, <4>5, NothingDropped
      <3>3. CASE AfterDisconnect(t)
        BY <1>6, <3>1, <3>3, EntersDiscard
      <3> QED
        BY <3>1, <3>2, <3>3
    <2>2. CASE Disconnect(t)
      <3>1. /\ marked' /\ UNCHANGED <<head, tail, stamp, slot, dropped>> /\ pc[t] = "disconnect"
            /\ AfterDisconnect(t)
        BY <1>2, <2>2 DEF Disconnect, ring
      <3> QED
        BY <1>6, <3>1, EntersDiscard
    <2>3. CASE Discard(t)
      BY <1>6, <2>3, DiscardKeepsDropped
    <2>4. CASE DiscardEnd(t) \/ Destroy(t)
      BY <1>6, <2>4, DiscardDone
    <2> QED
      BY <1>6, <2>1, <2>2, <2>3, <2>4 DEF ReleaseStep
  <1> QED
    BY <1>1, <1>3, <1>4, <1>5, <1>6, StepKinds

-----------------------------------------------------------------------------
(***************************************************************************)
(* The wake-ups.                                                           *)
(***************************************************************************)
\* More helpers, for the same things or for none.
LEMMA Wider ==
    ASSUME NEW W, NEW H, NEW G, W = {} \/ (Covered(W, H) /\ H \subseteq G)
    PROVE  Covered(W, G)
  <1>1. CASE W = {}
    <2> DEFINE g == [x \in W |-> x]
    <2>1. g \in [W -> G] /\ \A x, y \in W : g[x] = g[y] => x = y
      BY <1>1
    <2> QED
      BY <2>1, Zenon DEF Covered
  <1>2. CASE Covered(W, H) /\ H \subseteq G
    BY <1>2 DEF Covered
  <1> QED
    BY <1>1, <1>2

\* A thing more to be had and a helper more.
LEMMA OneMore ==
    ASSUME NEW W, NEW H, NEW G, Covered(W, H), NEW a, NEW b, b \notin H, H \cup {b} \subseteq G
    PROVE  Covered(W \cup {a}, G)
  <1>1. PICK f \in [W -> H] : \A x, y \in W : f[x] = f[y] => x = y
    BY DEF Covered
  <1> DEFINE g == [x \in W \cup {a} |-> IF x \in W THEN f[x] ELSE b]
  <1>2. g \in [W \cup {a} -> G] /\ \A x, y \in W \cup {a} : g[x] = g[y] => x = y
    BY <1>1
  <1> QED
    BY <1>2, Zenon DEF Covered

\* A thing and a helper less.
LEMMA OneLess ==
    ASSUME NEW W, NEW H, NEW G, Covered(W, H), NEW a \in W, NEW b, H \ {b} \subseteq G
    PROVE  Covered(W \ {a}, G)
  <1>1. PICK f \in [W -> H] : \A x, y \in W : f[x] = f[y] => x = y
    BY DEF Covered
  <1> DEFINE g == [x \in W \ {a} |-> IF f[x] = b THEN f[a] ELSE f[x]]
  <1>2. g \in [W \ {a} -> G] /\ \A x, y \in W \ {a} : g[x] = g[y] => x = y
    BY <1>1
  <1> QED
    BY <1>2, Zenon DEF Covered

\* Helper q in the place of helper t.
LEMMA Replaced ==
    ASSUME NEW W, NEW H, NEW G, Covered(W, H), NEW t, NEW q \in G, q \notin H, H \ {t} \subseteq G
    PROVE  Covered(W, G)
  <1>1. PICK f \in [W -> H] : \A x, y \in W : f[x] = f[y] => x = y
    BY DEF Covered
  <1> DEFINE g == [x \in W |-> IF f[x] = t THEN q ELSE f[x]]
  <1>2. g \in [W -> G] /\ \A x, y \in W : g[x] = g[y] => x = y
    BY <1>1
  <1> QED
    BY <1>2, Zenon DEF Covered

\* While somebody waits on a connected channel there are helpers enough.
LEMMA HelpersSuffice ==
    ASSUME Consistent, NEW t \in Threads, Step(t), ~ marked',
           NEW d \in Sides, NEW u \in Of(d), Waiting(u)'
    PROVE  Covered(Wanted(d)', Helpers(d)')
  <1> IInv
    BY DEF Consistent
  <1>1. ~ marked
    <2>1. CASE CallStep(t)
      BY <2>1, CallStepFacts
    <2>2. CASE DropHandle(t)
      BY <2>2 DEF DropHandle, ring
    <2>3. CASE ReleaseStep(t)
      BY <2>3, ReleaseStepFacts
    <2> QED
      BY <2>1, <2>2, <2>3, StepKinds
  <1>2. u \in Threads /\ Of(d) \subseteq Threads /\ (d = Side(t) \/ d = Other(t))
        /\ t \in Of(Side(t)) /\ t \notin Of(Other(t)) /\ Side(t) # Other(t)
    BY SideOf DEF Of, Threads
  <1>4. u # t => Waiting(u)
    <2>1. u # t => pc'[u] = pc[u] /\ (select'[u] = select[u] \/ select'[u] # "waiting")
      BY <1>2, OthersSteps
    <2> QED
      BY <2>1 DEF Waiting
  <1>5. Waiting(u) => Covered(Wanted(d), Helpers(d))
    BY <1>1 DEF IInv, WakeInv
  <1>6. \A v \in Threads : v # t => pc'[v] = pc[v]
    BY OthersSteps
  <1>7. CASE t \in Senders /\ SendCas(t)
    <2>1. /\ pc[t] = "cas" /\ pc'[t] = "access" /\ select' = select
      BY <1>2, <1>7 DEF SendCas, Goto, wakers, IInv, TypeOK
    <2>2. Waiting(u) /\ u # t
      BY <1>4, <2>1 DEF Waiting
    <2>3. CASE d = "send"
      <3>1. Wanted(d)' = Wanted(d) \ {tail} /\ tail \in Wanted(d)
        BY <1>7, <2>3, SendCasWanted DEF Wanted
      <3>2. Helpers(d) \ {t} \subseteq Helpers(d)'
        BY <1>6, <2>1 DEF Helpers, Active, Notifying
      <3> QED
        BY <1>5, <2>2, <3>1, <3>2, OneLess
    <2>4. CASE d = "recv"
      <3>1. Wanted(d)' = Wanted(d) \cup {tail}
        BY <1>7, <2>4, SendCasWanted DEF Wanted
      <3>2. t \notin Of(d)
        BY <1>7, <2>4, SideOf DEF Of
      <3>3. t \notin Helpers(d) /\ t \in Helpers(d)'
        BY <2>1, <3>2 DEF Helpers, Notifying
      <3>4. Helpers(d) \subseteq Helpers(d)'
        BY <1>6, <2>1, <3>3 DEF Helpers, Active, Notifying
      <3>5. Helpers(d) \cup {t} \subseteq Helpers(d)' /\ Covered(Wanted(d), Helpers(d))
        BY <1>5, <2>2, <3>3, <3>4
      <3>6. Covered(Wanted(d) \cup {tail}, Helpers(d)')
        BY <3>3, <3>5, OneMore, Zenon
      <3> QED
        BY <3>1, <3>6, Zenon
    <2> QED
      BY <2>3, <2>4 DEF Sides
  <1>8. CASE t \in Receivers /\ RecvCas(t)
    <2>1. /\ pc[t] = "cas" /\ pc'[t] = "access" /\ select' = select
      BY <1>2, <1>8 DEF RecvCas, Goto, wakers, IInv, TypeOK
    <2>2. Waiting(u) /\ u # t
      BY <1>4, <2>1 DEF Waiting
    <2>3. CASE d = "recv"
      <3>1. Wanted(d)' = Wanted(d) \ {head} /\ head \in Wanted(d)
        BY <1>8, <2>3, RecvCasWanted DEF Wanted
      <3>2. Helpers(d) \ {t} \subseteq Helpers(d)'
        BY <1>6, <2>1 DEF Helpers, Active, Notifying
      <3> QED
        BY <1>5, <2>2, <3>1, <3>2, OneLess
    <2>4. CASE d = "send"
      <3>1. Wanted(d)' = Wanted(d) \cup {head + OneLap}
        BY <1>8, <2>4, RecvCasWanted DEF Wanted
      <3>2. t \notin Of(d)
        BY <1>8, <2>4, SideOf DEF Of
      <3>3. t \notin Helpers(d) /\ t \in Helpers(d)'
        BY <2>1, <3>2 DEF Helpers, Notifying
      <3>4. Helpers(d) \subseteq Helpers(d)'
        BY <1>6, <2>1, <3>3 DEF Helpers, Active, Notifying
      <3>5. Helpers(d) \cup {t} \subseteq Helpers(d)' /\ Covered(Wanted(d), Helpers(d))
        BY <1>5, <2>2, <3>3, <3>4
      <3>6. Covered(Wanted(d) \cup {head + OneLap}, Helpers(d)')
        BY <3>3, <3>5, OneMore, Zenon
      <3> QED
        BY <3>1, <3>6, Zenon
    <2> QED
      BY <2>3, <2>4 DEF Sides
  <1>9. CASE (Notify(t) /\ isEmpty[Other(t)]) \/ NotifyLock(t)
    <2>1. /\ pc[t] \in {"notify", "notify_lock"} /\ pc'[t] = "idle" /\ head' = head /\ tail' = tail
      BY <1>9 DEF Notify, NotifyLock, Finish, Goto, ring, IInv, TypeOK
    <2>2. Wanted(d)' = Wanted(d) /\ Waiting(u) /\ u # t
      BY <1>4, <2>1 DEF Wanted, Window, Waiting
    <2>3. CASE d = Side(t)
      <3>1. \A v \in Of(d) : v # t => (Active(v) => Active(v)')
        <4>1. \A v \in Threads : v # t => (select[v] # "waiting" => select'[v] # "waiting")
          BY OthersSteps
        <4> QED
          BY <1>2, <1>6, <4>1 DEF Active
      <3>2. ~ Active(t) /\ t \in Of(d)
        BY <1>2, <2>1, <2>3 DEF Active
      <3>3. \A v \in Threads : v # t => (Notifying(v)' <=> Notifying(v))
        BY <1>6 DEF Notifying
      <3>4. Helpers(d) \subseteq Helpers(d)'
        BY <3>1, <3>2, <3>3 DEF Helpers
      <3> QED
        BY <1>5, <2>2, <3>4, Wider
    <2>4. CASE d = Other(t)
      <3>1. PICK j \in 1..Len(queue[d]) : queue[d][j] = u
        BY <2>2, WaiterListed
      <3>2. ~ isEmpty[d] /\ select[u] = "waiting"
        BY <2>2, WaiterListed DEF Waiting
      <3>3. TrySelect(d) /\ pc[t] = "notify_lock"
        BY <1>9, <2>4, <3>2 DEF NotifyLock
      <3>4. PICK i \in 1..Len(queue[d]) :
               /\ select[queue[d][i]] = "waiting"
               /\ select' = [select EXCEPT ![queue[d][i]] = "operation"]
        BY <3>1, <3>2, <3>3 DEF TrySelect
      <3> PICK q : q = queue[d][i]
        OBVIOUS
      <3>5. q \in OnList(d)
        <4>1. i \in DOMAIN queue[d]
          BY DEF IInv, TypeOK
        <4> QED
          BY <4>1 DEF IInv, QueueInv, Lists
      <3>6. /\ q \in Threads /\ q \in Of(d) /\ q # t
            /\ pc[q] \in {"recheck", "recheck2", "is_disconnected", "abort", "wait", "park"}
        BY <1>2, <2>4, <3>4, <3>5 DEF OnList, Registered, IInv, QueueInv
      <3>7. pc'[q] = pc[q] /\ select'[q] = "operation" /\ \A v \in Threads : v # q => select'[v] = select[v]
        BY <1>6, <3>4, <3>6 DEF IInv, TypeOK
      <3>8. q \notin Helpers(d) /\ q \in Helpers(d)'
        BY <3>4, <3>6, <3>7 DEF Helpers, Active
      <3>9. Helpers(d) \ {t} \subseteq Helpers(d)'
        BY <1>6, <3>7, <3>8 DEF Helpers, Active, Notifying
      <3>10. Covered(Wanted(d), Helpers(d)')
        BY <1>5, <2>2, <3>8, <3>9, Replaced, Zenon
      <3> QED
        BY <2>2, <3>10, Zenon
    <2> QED
      BY <1>2, <2>3, <2>4
  <1>10. CASE /\ ~ (t \in Senders /\ SendCas(t)) /\ ~ (t \in Receivers /\ RecvCas(t))
              /\ ~ (Notify(t) /\ isEmpty[Other(t)]) /\ ~ NotifyLock(t)
    <2>1. /\ head' = head /\ tail' = tail
          /\ \A v \in Threads : v # t => pc'[v] = pc[v] /\ select'[v] = select[v]
          /\ Notifying(t) => Notifying(t)'
          /\ \/ Wanted(Side(t)) = {}
             \/ (Active(t) => Active(t)') /\ (Waiting(t)' => Waiting(t))
      BY <1>10, StillHelps
    <2>2. Wanted(d)' = Wanted(d)
      BY <2>1 DEF Wanted, Window
    <2>3. CASE Wanted(d) = {}
      BY <2>2, <2>3, Wider
    <2>4. CASE Wanted(d) # {}
      <3>1. d = Side(t) => (Active(t) => Active(t)') /\ (Waiting(t)' => Waiting(t))
        BY <2>1, <2>4
      <3>2. d = Other(t) => u # t
        BY <1>2
      <3>3. Waiting(u)
        BY <1>2, <1>4, <3>1, <3>2
      <3>4. \A v \in Threads : v # t => (Active(v)' <=> Active(v)) /\ (Notifying(v)' <=> Notifying(v))
        BY <2>1 DEF Active, Notifying
      <3>5. IF t \in Of(d) THEN Active(t) => Active(t)' ELSE Notifying(t) => Notifying(t)'
        BY <1>2, <2>1, <3>1
      <3>6. Helpers(d) \subseteq Helpers(d)'
        BY <3>4, <3>5 DEF Helpers
      <3> QED
        BY <1>5, <2>2, <3>3, <3>6, Wider
    <2> QED
      BY <2>3, <2>4
  <1> QED
    BY <1>7, <1>8, <1>9, <1>10

\* Every step keeps the wake-ups.
LEMMA WakeStep ==
    ASSUME Consistent, NEW t \in Threads, Step(t)
    PROVE  WakeInv'
  <1> IInv
    BY DEF Consistent
  <1>1. \A d \in Sides : ~ marked' /\ (\E u \in Of(d) : Waiting(u)') =>
           Covered(Wanted(d)', Helpers(d)')
    BY HelpersSuffice
  <1>2. \A u \in Threads : marked' /\ Waiting(u)' /\ pc'[u] # "is_disconnected" =>
           \E v \in Threads : Side(v) = Other(u) /\ pc'[v] = "disconnect"
    BY DisconnectWakes
  <1>3. ASSUME NEW u \in Threads, pc'[u] = "park", select'[u] # "waiting" PROVE permit'[u]
    <2>1. u # t
      BY <1>3, OwnSteps
    <2>2. /\ pc'[u] = pc[u] /\ (permit[u] => permit'[u])
          /\ select'[u] = select[u] \/ permit'[u]
      BY <2>1, OthersSteps
    <2>3. pc[u] = "park" /\ select[u] # "waiting" => permit[u]
      BY DEF IInv, WakeInv
    <2> QED
      BY <1>3, <2>2, <2>3
  <1> QED
    BY <1>1, <1>2, <1>3 DEF WakeInv

-----------------------------------------------------------------------------
(***************************************************************************)
(* The inductive invariant.                                                *)
(***************************************************************************)
\* A new channel: no slot is in use and nobody has called.
LEMMA InitInv == Init => IInv
  <1> SUFFICES ASSUME Init PROVE IInv
    OBVIOUS
  <1> USE DEF Init
  <1>1. /\ pc = [t \in Threads |-> "idle"] /\ Senders \subseteq Threads /\ Receivers \subseteq Threads
        /\ Senders # {} /\ Receivers # {} /\ Cap \in Nat \ {0} /\ OneLap \in Nat /\ OneLap > Cap
    BY ArrayChannelAssumption, Widths DEF Threads
  <1>2. TypeOK
    <2>1. refs \in [Sides -> Nat]
      BY FiniteAssumption DEF Sides
    <2>2. Result("none", NoMsg) \in [kind : Kinds, msg : Messages \cup {NoMsg}]
      BY DEF Result, Kinds
    <2>3. queue \in [Sides -> Seq(Threads)]
      OBVIOUS
    <2>4. stamp \in [0..Cap - 1 -> Nat] /\ slot \in [0..Cap - 1 -> Messages \cup {NoMsg}]
      BY <1>1
    <2>5. /\ pc \in [Threads -> Labels] /\ permit \in [Threads -> BOOLEAN]
          /\ mode \in [Threads -> {"try", "block", "timed", "expired"}]
          /\ select \in [Threads -> {"waiting", "aborted", "disconnected", "operation"}]
          /\ pos \in [Threads -> Nat] /\ next \in [Threads -> Nat]
      BY DEF Labels
    <2>6. result \in [Threads -> [kind : Kinds, msg : Messages \cup {NoMsg}]]
      BY <2>2
    <2> QED
      BY <2>1, <2>3, <2>4, <2>5, <2>6, Zenon DEF TypeOK
  <1>3. RingInv
    <2>1. 0 \in Positions
      <3>1. 0 * OneLap + 0 \in Positions
        <4>1. 0 \in Nat /\ 0 \in 0..Cap - 1
          BY <1>1
        <4> QED
          BY <4>1, PositionOf, Zenon
      <3>2. 0 * OneLap + 0 = 0
        BY <1>1
      <3> QED
        BY <3>1, <3>2
    <2>2. ASSUME NEW x \in Window PROVE x >= tail /\ Stamp(x) = x /\ ~ Full(x)
      <3>1. x \in Positions /\ x \in Nat /\ x < OneLap
        BY <1>1, <2>2 DEF Window
      <3>2. x \in 0..Cap - 1 /\ Index(x) = x
        BY <3>1, FirstLap
      <3> QED
        BY <3>1, <3>2 DEF Stamp, Full
    <2>3. \A x \in Window : ~ (x < tail)
      BY <1>1 DEF Window
    <2> QED
      BY <1>1, <2>1, <2>2, <2>3 DEF RingInv
  <1>4. AccessInv /\ LoadedInv
    BY <1>1 DEF AccessInv, LoadedInv
  <1>5. MessagesInv
    BY <1>1, ArrayChannelAssumption DEF MessagesInv, Calling
  <1>6. QueueInv
    <2>1. \A d \in Sides : OnList(d) = {}
      BY <1>1 DEF OnList, Of, Registered
    <2>2. \A d \in Sides : Lists(queue[d], {})
      BY DEF Lists
    <2> QED
      BY <1>1, <2>1, <2>2, Zenon DEF QueueInv
  <1>7. CounterInv
    <2>1. \A d \in Sides : Held(d) = Of(d)
      BY <1>1 DEF Held, Of, Gone
    <2>2. \A d \in Sides : Numbered(refs[d], Of(d))
      BY FiniteAssumption DEF Of, Sides
    <2>3. \A d \in Sides : ~ AllDone(d)
      BY <1>1 DEF AllDone, Of
    <2>4. \A t \in Threads : pc[t] \notin Gone
      BY <1>1 DEF Gone
    <2> QED
      BY <2>1, <2>2, <2>3, <2>4 DEF CounterInv, Sides
  <1>8. DropInv
    <2>1. ~ AllDone("recv")
      BY <1>1 DEF AllDone, Of
    <2> QED
      BY <1>1, <2>1 DEF DropInv
  <1>9. WakeInv
    BY <1>1 DEF WakeInv, Waiting, Of
  <1> QED
    BY <1>2, <1>3, <1>4, <1>5, <1>6, <1>7, <1>8, <1>9 DEF IInv

\* A step that changes nothing keeps it.
LEMMA StutterInv == IInv /\ UNCHANGED vars => IInv'
  <1> SUFFICES ASSUME IInv, Consistent, UNCHANGED vars PROVE IInv'
    BY DEF Consistent
  <1>1. /\ UNCHANGED <<head, tail, marked, stamp, slot, queue, isEmpty, select, permit>>
        /\ UNCHANGED <<refs, destroy, freed, pc, mode, pos, next, result, dropped>>
    BY DEF vars, ring, wakers, counter, threads
  <1>2. TypeOK' /\ RingInv' /\ AccessInv' /\ LoadedInv' /\ MessagesInv'
    BY <1>1 DEF IInv, TypeOK, RingInv, AccessInv, LoadedInv, MessagesInv, Window, Stamp, Full
  <1>3. QueueInv' /\ CounterInv'
    BY <1>1, Zenon DEF IInv, QueueInv, CounterInv, OnList, Registered, AllDone, Held
  <1>4. DropInv' /\ WakeInv'
    BY <1>1 DEF IInv, DropInv, WakeInv, AllDone, Passed, Window, Stamp, Waiting, Wanted, Helpers,
                Active, Notifying
  <1> QED
    BY <1>2, <1>3, <1>4 DEF IInv

\* Every step keeps it.
LEMMA NextInv == IInv /\ [Next]_vars => IInv'
  <1> SUFFICES ASSUME IInv, Consistent, [Next]_vars PROVE IInv'
    BY DEF Consistent
  <1>1. ASSUME NEW t \in Threads, Step(t) PROVE IInv'
    BY <1>1, TypesStep, RingStep, QueueStep, CounterStep, DropStep, WakeStep DEF IInv
  <1>2. CASE Next
    BY <1>1, <1>2, StutterInv DEF Next, Step, Terminated
  <1>3. CASE UNCHANGED vars
    BY <1>3, StutterInv
  <1> QED
    BY <1>2, <1>3

\* With every thread between calls or asleep there is no helper, so nothing is to be had.
LEMMA InvWakeup == IInv => NoLostWakeup
  <1> SUFFICES ASSUME IInv, Consistent PROVE NoLostWakeup
    BY DEF Consistent
  <1>1. ASSUME Wanted("recv") = {} PROVE head = tail
    <2>1. head \in Window
      BY RingFacts
    <2>2. ~ (head < tail)
      BY <1>1, <2>1 DEF Wanted
    <2> QED
      BY <2>2, RingNumbers
  <1>2. ASSUME Wanted("send") = {} PROVE head + OneLap = tail
    <2>1. tail < head + OneLap => tail \in Window /\ tail <= tail
      BY RingFacts
    <2>2. ~ (tail < head + OneLap)
      BY <1>2, <2>1 DEF Wanted
    <2> QED
      BY <2>2, RingNumbers
  <1>3. ASSUME \A t \in Threads : Quiet(t), NEW u \in Threads, Asleep(u)
        PROVE  ~ marked /\ Wanted(Side(u)) = {}
    <2>1. \A t \in Threads : pc[t] \in {"idle", "done", "park"} /\ (pc[t] = "park" => ~ permit[t])
      BY <1>3 DEF Quiet
    <2>2. \A t \in Threads : pc[t] = "park" => select[t] = "waiting"
      BY <2>1 DEF IInv, WakeInv
    <2>3. Waiting(u) /\ pc[u] = "park"
      BY <1>3, <2>2 DEF Asleep, Waiting
    <2>4. ~ marked
      BY <2>1, <2>3 DEF IInv, WakeInv
    <2> PICK d : d = Side(u)
      OBVIOUS
    <2>5. d \in Sides /\ u \in Of(d)
      BY SideOf
    <2>6. Helpers(d) = {}
      BY <2>1, <2>2 DEF Helpers, Active, Notifying
    <2>7. Covered(Wanted(d), Helpers(d))
      BY <2>3, <2>4, <2>5 DEF IInv, WakeInv
    <2>8. Wanted(d) = {}
      BY <2>6, <2>7 DEF Covered
    <2> QED
      BY <2>4, <2>8
  <1>4. /\ \A r \in Receivers : r \in Threads /\ Side(r) = "recv"
        /\ \A s \in Senders : s \in Threads /\ Side(s) = "send"
    BY SideOf DEF Threads, Side
  <1> QED
    BY <1>1, <1>2, <1>3, <1>4 DEF NoLostWakeup

-----------------------------------------------------------------------------
(***************************************************************************)
(* The theorems.                                                           *)
(***************************************************************************)
\* The inductive invariant holds in every state of the channel.
THEOREM Invariance == Spec => []IInv
  BY InitInv, NextInv, PTL DEF Spec

\* For any number of threads and any capacity, the UnsafeCell of a slot of the array
\* channel is accessed by one thread at a time, which finds it as it expects it: empty
\* in write, with a message in read, and with one not yet dropped in
\* discard_all_messages.
THEOREM SlotsAreExclusive == Spec => []SlotExclusive
  BY Invariance, InvSlots, PTL

\* The unwrap of SyncWaker::unregister in send and recv does not fail: a thread whose
\* operation was aborted or disconnected is on the waker's list, once, and one that a
\* notifier selected is not.
THEOREM WaitersAreRegistered == Spec => []RegisteredWhileWaiting
  BY Invariance, InvRegistered, PTL

\* The Counter of the channel is freed exactly when both sides are done with it, by the
\* swap of destroy; the wakers are empty then, and no message is left in a slot that has
\* not been dropped.
THEOREM FreedOnceAtTheEnd == Spec => []FreedAtTheEnd
  BY Invariance, InvFreed, PTL

\* No wake-up is lost between the registration of a waiter, its second look at the
\* channel and the notifier's look at is_empty, for any number of threads and any
\* capacity: when every thread is between calls or asleep, nobody sleeps beside what it
\* waits for, nor on a disconnected channel.
THEOREM WakeupsAreNotLost == Spec => []NoLostWakeup
  BY Invariance, InvWakeup, PTL
=============================================================================
