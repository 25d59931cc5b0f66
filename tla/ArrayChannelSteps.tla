------------------------- MODULE ArrayChannelSteps --------------------------
(***************************************************************************)
(* What the steps of ArrayChannel do to the lists of the wakers, to the    *)
(* other threads, to the messages that are discarded and to the wake-ups.  *)
(***************************************************************************)
EXTENDS ArrayChannelRing

-----------------------------------------------------------------------------
(***************************************************************************)
(* The wakers.                                                             *)
(***************************************************************************)
\* A list is empty when it has no entries.
LEMMA NoEntries ==
    ASSUME NEW S, NEW q \in Seq(S)
    PROVE  q = << >> <=> Len(q) = 0
  OBVIOUS

\* Vec::remove drops the i-th entry and moves up the later ones.
LEMMA RemovedEntry ==
    ASSUME NEW S, NEW q \in Seq(S), NEW i \in 1..Len(q)
    PROVE  /\ Removed(q, i) \in Seq(S)
           /\ Len(Removed(q, i)) = Len(q) - 1
           /\ \A j \in 1..Len(q) - 1 : Removed(q, i)[j] = IF j < i THEN q[j] ELSE q[j + 1]
  <1> DEFINE a == SubSeq(q, 1, i - 1)
             b == SubSeq(q, i + 1, Len(q))
  <1>1. a \in Seq(S) /\ Len(a) = i - 1 /\ \A j \in 1..i - 1 : a[j] = q[j]
    OBVIOUS
  <1>2. b \in Seq(S) /\ Len(b) = Len(q) - i /\ \A j \in 1..Len(q) - i : b[j] = q[j + i]
    OBVIOUS
  <1> HIDE DEF a, b
  <1>3. a \o b \in Seq(S) /\ Len(a \o b) = Len(a) + Len(b)
    <2>1. a \in Seq(S) /\ b \in Seq(S)
      BY <1>1, <1>2
    <2> QED
      BY <2>1
  <1>4. \A j \in 1..Len(a) + Len(b) : (a \o b)[j] = IF j <= Len(a) THEN a[j] ELSE b[j - Len(a)]
    BY <1>1, <1>2
  <1>5. \A j \in 1..Len(q) - 1 : (a \o b)[j] = IF j < i THEN q[j] ELSE q[j + 1]
    <2> SUFFICES ASSUME NEW j \in 1..Len(q) - 1
                 PROVE  (a \o b)[j] = IF j < i THEN q[j] ELSE q[j + 1]
      BY Zenon
    <2>1. j \in 1..Len(a) + Len(b)
      BY <1>1, <1>2
    <2>2. CASE j < i
      BY <1>1, <1>4, <2>1, <2>2
    <2>3. CASE ~ (j < i)
      <3>1. (a \o b)[j] = b[j - Len(a)]
        BY <1>1, <1>4, <2>1, <2>3
      <3>2. j - Len(a) \in 1..Len(q) - i /\ j - Len(a) + i = j + 1
        BY <1>1, <2>3
      <3>3. b[j - Len(a)] = q[j - Len(a) + i]
        BY <1>2, <3>2
      <3> QED
        BY <2>3, <3>1, <3>2, <3>3
    <2> QED
      BY <2>2, <2>3, Zenon
  <1>6. Removed(q, i) = a \o b
    BY DEF Removed, a, b
  <1>7. Len(a \o b) = Len(q) - 1
    BY <1>1, <1>2, <1>3
  <1> QED
    BY <1>3, <1>5, <1>6, <1>7, Zenon

\* Waker::unregister takes out an entry of the thread, if there is one.
LEMMA WithoutEntry ==
    ASSUME NEW q \in Seq(Threads), NEW t, NEW i \in DOMAIN q, q[i] = t,
           \A j \in DOMAIN q : q[j] = t => j = i
    PROVE  Without(q, t) = Removed(q, i)
  <1> DEFINE P(k) == q[k] = t /\ \A j \in 1..k - 1 : q[j] # t
  <1>1. P(i)
    OBVIOUS
  <1>2. \A k \in DOMAIN q : P(k) => k = i
    OBVIOUS
  <1>3. (CHOOSE k \in DOMAIN q : P(k)) = i
    BY <1>1, <1>2
  <1> QED
    BY <1>3 DEF Without

\* Removing an entry of a list, which names every other thread still.
LEMMA RemovedLists ==
    ASSUME NEW q \in Seq(Threads), NEW S, Lists(q, S), NEW i \in DOMAIN q
    PROVE  /\ Lists(Removed(q, i), S \ {q[i]})
           /\ Removed(q, i) = << >> <=> Len(q) = 1
  <1> DEFINE p == Removed(q, i)
  <1>1. DOMAIN q = 1..Len(q) /\ Len(q) \in Nat /\ i \in 1..Len(q)
    OBVIOUS
  <1>2. /\ p \in Seq(Threads) /\ Len(p) = Len(q) - 1
        /\ \A j \in 1..Len(q) - 1 : p[j] = IF j < i THEN q[j] ELSE q[j + 1]
    BY <1>1, RemovedEntry, Zenon
  <1>3. DOMAIN p = 1..Len(q) - 1
    BY <1>1, <1>2
  <1> HIDE DEF p
  <1>4. \A j, k \in DOMAIN q : j # k => q[j] # q[k]
    BY DEF Lists
  <1>5. \A j \in DOMAIN p : p[j] \in S \ {q[i]}
    <2> SUFFICES ASSUME NEW j \in DOMAIN p PROVE p[j] \in S \ {q[i]}
      OBVIOUS
    <2>1. CASE j < i
      <3>1. p[j] = q[j] /\ j \in DOMAIN q /\ j # i
        BY <1>1, <1>2, <1>3, <2>1
      <3> QED
        BY <1>4, <3>1 DEF Lists
    <2>2. CASE ~ (j < i)
      <3>1. p[j] = q[j + 1] /\ j + 1 \in DOMAIN q /\ j + 1 # i
        BY <1>1, <1>2, <1>3, <2>2
      <3> QED
        BY <1>4, <3>1 DEF Lists
    <2> QED
      BY <2>1, <2>2
  <1>6. \A t \in S \ {q[i]} : \E j \in DOMAIN p : p[j] = t
    <2> SUFFICES ASSUME NEW t \in S \ {q[i]} PROVE \E j \in DOMAIN p : p[j] = t
      OBVIOUS
    <2> PICK k \in DOMAIN q : q[k] = t
      BY DEF Lists
    <2>1. CASE k < i
      <3>1. k \in DOMAIN p /\ p[k] = q[k]
        BY <1>1, <1>2, <1>3, <2>1
      <3> QED
        BY <3>1
    <2>2. CASE ~ (k < i)
      <3>1. k # i
        OBVIOUS
      <3>2. k - 1 \in DOMAIN p /\ ~ (k - 1 < i) /\ (k - 1) + 1 = k
        BY <1>1, <1>3, <2>2, <3>1
      <3>3. p[k - 1] = q[k]
        BY <1>2, <1>3, <3>2
      <3> QED
        BY <3>2, <3>3
    <2> QED
      BY <2>1, <2>2
  <1>7. \A j, k \in DOMAIN p : j # k => p[j] # p[k]
    <2> SUFFICES ASSUME NEW j \in DOMAIN p, NEW k \in DOMAIN p, j # k PROVE p[j] # p[k]
      OBVIOUS
    <2> DEFINE f(z) == IF z < i THEN z ELSE z + 1
    <2>1. f(j) \in DOMAIN q /\ f(k) \in DOMAIN q /\ f(j) # f(k)
      BY <1>1, <1>3
    <2>2. p[j] = q[f(j)] /\ p[k] = q[f(k)]
      BY <1>2, <1>3
    <2> QED
      BY <1>4, <2>1, <2>2
  <1>8. p = << >> <=> Len(q) = 1
    BY <1>1, <1>2, NoEntries
  <1> QED
    BY <1>5, <1>6, <1>7, <1>8 DEF Lists, p

\* Adding an entry for a thread that has none.
LEMMA AppendLists ==
    ASSUME NEW q \in Seq(Threads), NEW S, Lists(q, S), NEW t \in Threads, t \notin S
    PROVE  Lists(Append(q, t), S \cup {t}) /\ Append(q, t) # << >>
  <1> DEFINE p == Append(q, t)
  <1>1. /\ DOMAIN q = 1..Len(q) /\ Len(q) \in Nat /\ DOMAIN p = 1..Len(q) + 1
        /\ p[Len(q) + 1] = t /\ \A j \in 1..Len(q) : p[j] = q[j]
    OBVIOUS
  <1>2. p # << >>
    <2>1. Len(p) = Len(q) + 1
      OBVIOUS
    <2> HIDE DEF p
    <2> QED
      BY <1>1, <2>1, NoEntries
  <1> HIDE DEF p
  <1>3. \A j \in DOMAIN p : j = Len(q) + 1 \/ (j \in DOMAIN q /\ p[j] = q[j])
    BY <1>1
  <1>4. DOMAIN q \subseteq DOMAIN p /\ Len(q) + 1 \in DOMAIN p
    BY <1>1
  <1> QED
    BY <1>1, <1>2, <1>3, <1>4 DEF Lists, p

\* A step that leaves the lists alone keeps them right if nobody enters or leaves the
\* state of being registered.
LEMMA SameQueueKeeps ==
    ASSUME Consistent, UNCHANGED <<queue, isEmpty>>,
           \A u \in Threads : Registered(u)' <=> Registered(u),
           \A u \in Threads : pc'[u] = "unregister" => select'[u] \in {"aborted", "disconnected"}
    PROVE  QueueInv'
  <1> IInv
    BY DEF Consistent
  <1>1. \A d \in Sides : OnList(d)' = OnList(d)
    BY DEF OnList, Of, Threads, Sides
  <1> QED
    BY <1>1 DEF IInv, QueueInv

\* Only thread t moves, and is registered before and after or neither.
LEMMA MoveKeepsQueue ==
    ASSUME Consistent, NEW t \in Threads, UNCHANGED <<queue, isEmpty, select>>,
           NEW l, Goto(t, l), l # "unregister",
           Registered(t) <=> /\ l \in {"recheck", "recheck2", "is_disconnected", "abort", "wait", "park"}
                             /\ select[t] # "operation"
    PROVE  QueueInv'
  <1> IInv
    BY DEF Consistent
  <1>1. \A u \in Threads : pc'[u] = IF u = t THEN l ELSE pc[u]
    BY DEF IInv, TypeOK, Goto
  <1>2. \A u \in Threads : Registered(u)' <=> Registered(u)
    BY <1>1 DEF Registered
  <1>3. \A u \in Threads : pc'[u] = "unregister" => select'[u] \in {"aborted", "disconnected"}
    BY <1>1 DEF IInv, QueueInv
  <1> QED
    BY <1>2, <1>3, SameQueueKeeps

\* Thread q of side d loses its entry and is not registered any more.
LEMMA RemoveKeepsQueue ==
    ASSUME Consistent, NEW d \in Sides, NEW i \in DOMAIN queue[d], NEW q, q = queue[d][i],
           queue' = [queue EXCEPT ![d] = Removed(@, i)],
           \A e \in Sides : isEmpty'[e] = IF e = d THEN Len(queue[d]) = 1 ELSE isEmpty[e],
           ~ Registered(q)',
           \A u \in Threads : u # q => (Registered(u)' <=> Registered(u)),
           \A u \in Threads : pc'[u] = "unregister" => select'[u] \in {"aborted", "disconnected"}
    PROVE  QueueInv'
  <1> IInv
    BY DEF Consistent
  <1>1. /\ queue \in [Sides -> Seq(Threads)] /\ queue[d] \in Seq(Threads)
        /\ Lists(queue[d], OnList(d)) /\ q \in OnList(d)
    BY DEF IInv, TypeOK, QueueInv, Lists
  <1>2. \A e \in Sides : Of(e) \subseteq Threads /\ (e # d => q \notin Of(e))
    BY <1>1, ArrayChannelAssumption DEF OnList, Of, Threads, Sides
  <1>3. OnList(d)' = OnList(d) \ {q} /\ \A e \in Sides : e # d => OnList(e)' = OnList(e)
    BY <1>1, <1>2 DEF OnList
  <1>4. queue'[d] = Removed(queue[d], i) /\ \A e \in Sides : e # d => queue'[e] = queue[e]
    BY <1>1
  <1>5. Lists(Removed(queue[d], i), OnList(d) \ {q}) /\ (Removed(queue[d], i) = << >> <=> Len(queue[d]) = 1)
    BY <1>1, RemovedLists, Zenon
  <1>6. ASSUME NEW e \in Sides PROVE Lists(queue'[e], OnList(e)')
    <2>1. CASE e = d
      <3>1. OnList(e)' = OnList(d)'
        BY <2>1 DEF OnList
      <3>2. queue'[e] = Removed(queue[d], i) /\ OnList(e)' = OnList(d) \ {q}
        BY <1>3, <1>4, <2>1, <3>1
      <3> QED
        BY <1>5, <3>2
    <2>2. CASE e # d
      BY <1>3, <1>4, <2>2 DEF IInv, QueueInv
    <2> QED
      BY <2>1, <2>2
  <1>7. \A e \in Sides : isEmpty'[e] <=> queue'[e] = << >>
    BY <1>4, <1>5, Zenon DEF IInv, QueueInv
  <1> QED
    BY <1>6, <1>7 DEF QueueInv, Lists

\* Every step keeps the lists right.
LEMMA QueueStep ==
    ASSUME Consistent, NEW t \in Threads, Step(t)
    PROVE  QueueInv'
  <1> IInv
    BY DEF Consistent
  <1> USE DEF wakers
  <1>1. /\ pc \in [Threads -> Labels] /\ select \in [Threads -> {"waiting", "aborted", "disconnected", "operation"}]
        /\ queue \in [Sides -> Seq(Threads)] /\ isEmpty \in [Sides -> BOOLEAN]
        /\ Side(t) \in Sides /\ Other(t) \in Sides
    BY SideOf DEF IInv, TypeOK
  <1>2. \A u \in Threads : pc[u] = "unregister" => select[u] \in {"aborted", "disconnected"}
    BY DEF IInv, QueueInv
  <1>3. CASE Begin(t)
    BY <1>3, MoveKeepsQueue DEF Begin, Registered
  <1>4. CASE DropHandle(t)
    BY <1>4, MoveKeepsQueue DEF DropHandle, Registered
  <1>5. CASE t \in Senders /\ SendStep(t)
    <2>1. /\ UNCHANGED <<queue, isEmpty, select>>
          /\ pc[t] \in {"load", "stamp", "cas", "check", "access"}
          /\ \/ Goto(t, "idle") \/ Goto(t, "stamp") \/ Goto(t, "cas") \/ Goto(t, "check")
             \/ Goto(t, "load") \/ Goto(t, "access") \/ Goto(t, "register") \/ Goto(t, "notify")
      BY <1>5 DEF SendStep, LoadTail, SendStamp, SendCas, SendCasFails, SendCheck, Write,
                  HoldTail, Return, NotReady
    <2> QED
      BY <2>1, MoveKeepsQueue DEF Registered
  <1>6. CASE t \in Receivers /\ RecvStep(t)
    <2>1. /\ UNCHANGED <<queue, isEmpty, select>>
          /\ pc[t] \in {"load", "stamp", "cas", "check", "access"}
          /\ \/ Goto(t, "idle") \/ Goto(t, "stamp") \/ Goto(t, "cas") \/ Goto(t, "check")
             \/ Goto(t, "load") \/ Goto(t, "access") \/ Goto(t, "register") \/ Goto(t, "notify")
      BY <1>6 DEF RecvStep, LoadHead, RecvStamp, RecvCas, RecvCasFails, RecvCheck, Read,
                  Return, NotReady
    <2> QED
      BY <2>1, MoveKeepsQueue DEF Registered
  <1>7. CASE Notify(t)
    <2>1. Goto(t, "idle") \/ Goto(t, "notify_lock")
      BY <1>7 DEF Notify, Finish
    <2> QED
      BY <1>7, <2>1, MoveKeepsQueue DEF Notify, Registered
  <1>8. CASE NotifyLock(t)
    <2>1. pc[t] = "notify_lock" /\ Goto(t, "idle")
      BY <1>8 DEF NotifyLock, Finish
    <2>2. CASE UNCHANGED <<queue, isEmpty, select, permit>>
      BY <2>1, <2>2, MoveKeepsQueue DEF Registered
    <2>3. CASE ~ UNCHANGED <<queue, isEmpty, select, permit>>
      <3> PICK d : d = Other(t)
        OBVIOUS
      <3>1. PICK i \in 1..Len(queue[d]) :
               /\ select[queue[d][i]] = "waiting"
               /\ queue' = [queue EXCEPT ![d] = Removed(@, i)]
               /\ isEmpty' = [isEmpty EXCEPT ![d] = Len(queue[d]) = 1]
               /\ select' = [select EXCEPT ![queue[d][i]] = "operation"]
        BY <1>8, <2>3 DEF NotifyLock, TrySelect
      <3> PICK q : q = queue[d][i]
        OBVIOUS
      <3>2. i \in DOMAIN queue[d] /\ d \in Sides
        BY <1>1
      <3>3. q \in OnList(d)
        BY <3>2 DEF IInv, QueueInv, Lists
      <3>4. q \in Threads /\ Registered(q) /\ q # t /\ pc[q] # "unregister"
        BY <1>2, <2>1, <3>1, <3>3 DEF OnList, Of, Threads, Registered
      <3>5. \A u \in Threads : /\ pc'[u] = IF u = t THEN "idle" ELSE pc[u]
                               /\ select'[u] = IF u = q THEN "operation" ELSE select[u]
        BY <1>1, <2>1, <3>1, <3>4 DEF Goto
      <3>6. ~ Registered(q)'
        BY <3>4, <3>5 DEF Registered
      <3>7. \A u \in Threads : u # q => (Registered(u)' <=> Registered(u))
        BY <2>1, <3>5 DEF Registered
      <3>8. \A u \in Threads : pc'[u] = "unregister" => select'[u] \in {"aborted", "disconnected"}
        BY <1>2, <3>4, <3>5
      <3>9. \A e \in Sides : isEmpty'[e] = IF e = d THEN Len(queue[d]) = 1 ELSE isEmpty[e]
        BY <1>1, <3>1
      <3> QED
        BY <3>1, <3>2, <3>6, <3>7, <3>8, <3>9, RemoveKeepsQueue, Zenon
    <2> QED
      BY <2>2, <2>3
  <1>9. CASE Register(t)
    <2> PICK d : d = Side(t)
      OBVIOUS
    <2>1. /\ pc[t] = "register" /\ d \in Sides /\ t \in Of(d)
          /\ queue' = [queue EXCEPT ![d] = Append(@, t)]
          /\ isEmpty' = [isEmpty EXCEPT ![d] = FALSE]
          /\ \A u \in Threads : /\ pc'[u] = IF u = t THEN "recheck" ELSE pc[u]
                                /\ select'[u] = IF u = t THEN "waiting" ELSE select[u]
      BY <1>1, <1>9, SideOf DEF Register, Goto
    <2>2. ~ Registered(t) /\ Registered(t)'
      BY <2>1 DEF Registered
    <2>3. \A u \in Threads : u # t => (Registered(u)' <=> Registered(u))
      BY <2>1 DEF Registered
    <2>4. \A e \in Sides : Of(e) \subseteq Threads /\ (e # d => t \notin Of(e))
      BY <2>1, ArrayChannelAssumption DEF Of, Threads, Sides
    <2>5. OnList(d)' = OnList(d) \cup {t} /\ \A e \in Sides : e # d => OnList(e)' = OnList(e)
      BY <2>1, <2>2, <2>3, <2>4 DEF OnList
    <2>6. Lists(queue[d], OnList(d)) /\ t \notin OnList(d) /\ queue[d] \in Seq(Threads)
      BY <1>1, <2>1, <2>2, Zenon DEF OnList, IInv, QueueInv
    <2>7. queue'[d] = Append(queue[d], t) /\ \A e \in Sides : e # d => queue'[e] = queue[e]
      BY <1>1, <2>1
    <2>8. Lists(Append(queue[d], t), OnList(d) \cup {t}) /\ Append(queue[d], t) # << >>
      BY <2>6, AppendLists
    <2>9. \A e \in Sides : Lists(queue'[e], OnList(e)')
      BY <2>5, <2>7, <2>8, Zenon DEF IInv, QueueInv
    <2>10. \A e \in Sides : isEmpty'[e] <=> queue'[e] = << >>
      BY <1>1, <2>1, <2>7, <2>8 DEF IInv, QueueInv
    <2>11. \A u \in Threads : pc'[u] = "unregister" => select'[u] \in {"aborted", "disconnected"}
      BY <1>2, <2>1
    <2> QED
      BY <2>9, <2>10, <2>11 DEF QueueInv, Lists
  <1>10. CASE Recheck(t)
    BY <1>10, MoveKeepsQueue DEF Recheck, Registered
  <1>11. CASE Recheck2(t)
    BY <1>11, MoveKeepsQueue DEF Recheck2, Registered
  <1>12. CASE IsDisconnected(t)
    BY <1>12, MoveKeepsQueue DEF IsDisconnected, Registered
  <1>13. CASE Abort(t)
    <2>1. /\ pc[t] = "abort" /\ UNCHANGED <<queue, isEmpty>>
          /\ \A u \in Threads : /\ pc'[u] = IF u = t THEN "wait" ELSE pc[u]
                                /\ select'[u] = IF u = t /\ select[u] = "waiting" THEN "aborted" ELSE select[u]
      BY <1>1, <1>13 DEF Abort, Goto
    <2>2. \A u \in Threads : Registered(u)' <=> Registered(u)
      BY <2>1 DEF Registered
    <2>3. \A u \in Threads : pc'[u] = "unregister" => select'[u] \in {"aborted", "disconnected"}
      BY <1>2, <2>1
    <2> QED
      BY <2>1, <2>2, <2>3, SameQueueKeeps
  <1>14. CASE Wait(t)
    <2>1. /\ pc[t] = "wait" /\ UNCHANGED <<queue, isEmpty, select>>
          /\ \A u \in Threads :
                pc'[u] = IF u # t THEN pc[u]
                         ELSE IF select[u] = "waiting" THEN "park"
                         ELSE IF select[u] = "operation" THEN "load" ELSE "unregister"
      BY <1>1, <1>14 DEF Wait, Woken, Goto
    <2>2. \A u \in Threads : Registered(u)' <=> Registered(u)
      BY <2>1 DEF Registered
    <2>3. \A u \in Threads : pc'[u] = "unregister" => select'[u] \in {"aborted", "disconnected"}
      BY <1>1, <1>2, <2>1
    <2> QED
      BY <2>1, <2>2, <2>3, SameQueueKeeps
  <1>15. CASE Park(t)
    BY <1>15, MoveKeepsQueue DEF Park, Registered
  <1>16. CASE ParkTimeout(t)
    <2>1. /\ pc[t] = "park" /\ UNCHANGED <<queue, isEmpty>>
          /\ \A u \in Threads :
                /\ select'[u] = IF u = t /\ select[u] = "waiting" THEN "aborted" ELSE select[u]
                /\ pc'[u] = IF u # t THEN pc[u]
                            ELSE IF select[u] = "operation" THEN "load" ELSE "unregister"
      BY <1>1, <1>16 DEF ParkTimeout, Woken, Goto
    <2>2. \A u \in Threads : Registered(u)' <=> Registered(u)
      BY <2>1 DEF Registered
    <2>3. \A u \in Threads : pc'[u] = "unregister" => select'[u] \in {"aborted", "disconnected"}
      BY <1>1, <1>2, <2>1
    <2> QED
      BY <2>1, <2>2, <2>3, SameQueueKeeps
  <1>17. CASE Unregister(t)
    <2> PICK d : d = Side(t)
      OBVIOUS
    <2>1. /\ d \in Sides /\ pc[t] = "unregister" /\ select' = select /\ t \in Of(d)
          /\ queue[d] \in Seq(Threads)
          /\ \A u \in Threads : pc'[u] = IF u = t THEN "load" ELSE pc[u]
      BY <1>1, <1>17, SideOf DEF Unregister, Goto
    <2>2. Lists(queue[d], OnList(d)) /\ t \in OnList(d)
      BY <2>1, Zenon DEF IInv, QueueInv, OnList, Registered
    <2>3. PICK i \in DOMAIN queue[d] : queue[d][i] = t
      BY <2>2 DEF Lists
    <2>4. \A j \in DOMAIN queue[d] : queue[d][j] = t => j = i
      BY <2>2, <2>3 DEF Lists
    <2>5. Without(queue[d], t) = Removed(queue[d], i)
      BY <2>1, <2>3, <2>4, WithoutEntry
    <2>6. queue' = [queue EXCEPT ![d] = Removed(@, i)]
      BY <1>17, <2>5 DEF Unregister
    <2>7. queue'[d] = << >> <=> Len(queue[d]) = 1
      BY <1>1, <2>1, <2>2, <2>6, RemovedLists, Zenon
    <2>8. \A e \in Sides : isEmpty'[e] = IF e = d THEN Len(queue[d]) = 1 ELSE isEmpty[e]
      BY <1>1, <1>17, <2>1, <2>7 DEF Unregister
    <2>9. ~ Registered(t)' /\ \A u \in Threads : u # t => (Registered(u)' <=> Registered(u))
      BY <2>1 DEF Registered
    <2>10. \A u \in Threads : pc'[u] = "unregister" => select'[u] \in {"aborted", "disconnected"}
      BY <1>2, <2>1
    <2> QED
      BY <2>1, <2>3, <2>6, <2>8, <2>9, <2>10, RemoveKeepsQueue, Zenon
  <1>18. CASE Mark(t)
    <2>1. Goto(t, "disconnect") \/ Goto(t, "destroy") \/ Goto(t, "discard")
      BY <1>18 DEF Mark, AfterDisconnect
    <2> QED
      BY <1>18, <2>1, MoveKeepsQueue DEF Mark, Registered
  <1>19. CASE Disconnect(t)
    <2>1. /\ pc[t] = "disconnect" /\ UNCHANGED <<queue, isEmpty>>
          /\ \A u \in Threads : u # t => pc'[u] = pc[u]
          /\ pc'[t] \in {"destroy", "discard"}
          /\ \A u \in Threads : select'[u] = select[u] \/ (select[u] = "waiting" /\ select'[u] = "disconnected")
      BY <1>1, <1>19 DEF Disconnect, AfterDisconnect, Goto
    <2>2. \A u \in Threads : Registered(u)' <=> Registered(u)
      BY <2>1 DEF Registered
    <2>3. \A u \in Threads : pc'[u] = "unregister" => select'[u] \in {"aborted", "disconnected"}
      BY <1>2, <2>1
    <2> QED
      BY <2>1, <2>2, <2>3, SameQueueKeeps
  <1>20. CASE Discard(t)
    BY <1>2, <1>20, SameQueueKeeps DEF Discard, Registered
  <1>21. CASE DiscardEnd(t)
    BY <1>21, MoveKeepsQueue DEF DiscardEnd, Registered
  <1>22. CASE Destroy(t)
    BY <1>22, MoveKeepsQueue DEF Destroy, Registered
  <1> QED
    BY <1>3, <1>4, <1>5, <1>6, <1>7, <1>8, <1>9, <1>10, <1>11, <1>12, <1>13, <1>14, <1>15,
       <1>16, <1>17, <1>18, <1>19, <1>20, <1>21, <1>22 DEF Step, Progress, BlockStep, ReleaseStep

-----------------------------------------------------------------------------
(***************************************************************************)
(* What one thread does to the others.                                     *)
(***************************************************************************)
\* It leaves the counter, the mark and the dropped messages alone.
LEMMA CallStepFacts ==
    ASSUME Consistent, NEW t \in Threads, CallStep(t)
    PROVE  /\ UNCHANGED <<counter, marked, dropped>>
           /\ pc[t] \notin Gone /\ pc'[t] \notin Gone
           /\ \A u \in Threads : u # t => pc'[u] = pc[u]
  <1> IInv
    BY DEF Consistent
  <1> USE DEF ring, Gone
  <1>1. pc \in [Threads -> Labels]
    BY DEF IInv, TypeOK
  <1>2. ASSUME UNCHANGED <<counter, marked, dropped>>, pc[t] \notin Gone,
               NEW l, Goto(t, l), l \notin Gone
        PROVE  /\ UNCHANGED <<counter, marked, dropped>>
               /\ pc[t] \notin Gone /\ pc'[t] \notin Gone
               /\ \A u \in Threads : u # t => pc'[u] = pc[u]
    BY <1>1, <1>2 DEF Goto
  <1>3. CASE Begin(t)
    BY <1>2, <1>3 DEF Begin
  <1>4. CASE t \in Senders /\ SendStep(t)
    <2>1. /\ UNCHANGED <<counter, marked, dropped>>
          /\ pc[t] \in {"load", "stamp", "cas", "check", "access"}
          /\ \/ Goto(t, "idle") \/ Goto(t, "stamp") \/ Goto(t, "cas") \/ Goto(t, "check")
             \/ Goto(t, "load") \/ Goto(t, "access") \/ Goto(t, "register") \/ Goto(t, "notify")
      BY <1>4 DEF SendStep, LoadTail, SendStamp, SendCas, SendCasFails, SendCheck, Write,
                  HoldTail, Return, NotReady
    <2> QED
      BY <1>2, <2>1
  <1>5. CASE t \in Receivers /\ RecvStep(t)
    <2>1. /\ UNCHANGED <<counter, marked, dropped>>
          /\ pc[t] \in {"load", "stamp", "cas", "check", "access"}
          /\ \/ Goto(t, "idle") \/ Goto(t, "stamp") \/ Goto(t, "cas") \/ Goto(t, "check")
             \/ Goto(t, "load") \/ Goto(t, "access") \/ Goto(t, "register") \/ Goto(t, "notify")
      BY <1>5 DEF RecvStep, LoadHead, RecvStamp, RecvCas, RecvCasFails, RecvCheck, Read,
                  Return, NotReady
    <2> QED
      BY <1>2, <2>1
  <1>6. CASE BlockStep(t)
    <2>1. /\ UNCHANGED <<counter, marked, dropped>>
          /\ pc[t] \notin Gone
          /\ \/ Goto(t, "idle") \/ Goto(t, "notify_lock") \/ Goto(t, "recheck") \/ Goto(t, "recheck2")
             \/ Goto(t, "is_disconnected") \/ Goto(t, "abort") \/ Goto(t, "wait") \/ Goto(t, "park")
             \/ Goto(t, "load") \/ Goto(t, "unregister")
      BY <1>6 DEF BlockStep, Notify, NotifyLock, Finish, Register, Recheck, Recheck2,
                  IsDisconnected, Abort, Wait, Woken, Park, ParkTimeout, Unregister
    <2> QED
      BY <1>2, <2>1
  <1> QED
    BY <1>3, <1>4, <1>5, <1>6 DEF CallStep

\* The five steps of the last handle of a side.
LEMMA ReleaseStepFacts ==
    ASSUME Consistent, NEW t \in Threads, ReleaseStep(t)
    PROVE  /\ pc[t] \in Gone \ {"done"} /\ pc'[t] \in Gone
           /\ \A u \in Threads : u # t => pc'[u] = pc[u] /\ pos'[u] = pos[u]
           /\ UNCHANGED <<head, tail, stamp, slot, refs>>
           /\ (marked => marked')
           /\ ~ Destroy(t) => UNCHANGED counter /\ pc'[t] # "done"
  <1> IInv
    BY DEF Consistent
  <1> USE DEF ring, counter, Gone
  <1>1. pc \in [Threads -> Labels] /\ pos \in [Threads -> Nat]
    BY DEF IInv, TypeOK
  <1>2. CASE Mark(t)
    <2>1. \/ Goto(t, "disconnect") /\ pos' = pos
          \/ AfterDisconnect(t)
      BY <1>2 DEF Mark
    <2> QED
      BY <1>1, <1>2, <2>1 DEF Mark, AfterDisconnect, Goto
  <1>3. CASE Disconnect(t)
    BY <1>1, <1>3 DEF Disconnect, AfterDisconnect, Goto
  <1>4. CASE Discard(t)
    BY <1>1, <1>4 DEF Discard
  <1>5. CASE DiscardEnd(t)
    BY <1>1, <1>5 DEF DiscardEnd, Goto
  <1>6. CASE Destroy(t)
    BY <1>1, <1>6 DEF Destroy, Goto
  <1> QED
    BY <1>2, <1>3, <1>4, <1>5, <1>6, Zenon DEF ReleaseStep

\* And dropping a handle.
LEMMA DropMoves ==
    ASSUME Consistent, NEW t \in Threads, DropHandle(t)
    PROVE  \A u \in Threads : u # t => pc'[u] = pc[u]
  <1> IInv
    BY DEF Consistent
  <1> QED
    BY DEF DropHandle, Goto, IInv, TypeOK

\* The three kinds of steps.
LEMMA StepKinds ==
    ASSUME NEW t \in Threads, Step(t)
    PROVE  CallStep(t) \/ DropHandle(t) \/ ReleaseStep(t)
  BY DEF Step, Progress, CallStep

\* A thread can change of another one only that it waits, and then wakes it.
LEMMA OthersSteps ==
    ASSUME Consistent, NEW t \in Threads, Step(t)
    PROVE  /\ \A u \in Threads : u # t =>
                 /\ pc'[u] = pc[u] /\ (permit[u] => permit'[u])
                 /\ \/ select'[u] = select[u]
                    \/ select[u] = "waiting" /\ select'[u] # "waiting" /\ permit'[u]
           /\ ~ NotifyLock(t) /\ ~ Disconnect(t) =>
                 \A u \in Threads : u # t => select'[u] = select[u]
  <1> IInv
    BY DEF Consistent
  <1> USE DEF wakers
  <1>1. /\ pc \in [Threads -> Labels] /\ permit \in [Threads -> BOOLEAN]
        /\ select \in [Threads -> {"waiting", "aborted", "disconnected", "operation"}]
    BY DEF IInv, TypeOK
  <1>2. \A u \in Threads : u # t => pc'[u] = pc[u]
    <2>1. CASE CallStep(t)
      BY <2>1, CallStepFacts
    <2>2. CASE DropHandle(t)
      BY <2>2, DropMoves
    <2>3. CASE ReleaseStep(t)
      BY <2>3, ReleaseStepFacts
    <2> QED
      BY <2>1, <2>2, <2>3, StepKinds
  <1>3. CASE NotifyLock(t)
    <2>1. CASE UNCHANGED <<queue, isEmpty, select, permit>>
      BY <1>2, <1>3, <2>1
    <2>2. CASE ~ UNCHANGED <<queue, isEmpty, select, permit>>
      <3>1. PICK q : /\ select[q] = "waiting"
                     /\ select' = [select EXCEPT ![q] = "operation"]
                     /\ permit' = [permit EXCEPT ![q] = TRUE]
        BY <1>3, <2>2 DEF NotifyLock, TrySelect
      <3> QED
        BY <1>1, <1>2, <1>3, <3>1
    <2> QED
      BY <2>1, <2>2
  <1>4. CASE Disconnect(t)
    BY <1>1, <1>2, <1>4, Zenon DEF Disconnect
  <1>5. CASE ~ NotifyLock(t) /\ ~ Disconnect(t)
    <2>1. \A u \in Threads : u # t => select'[u] = select[u] /\ permit'[u] = permit[u]
      <3>1. CASE Begin(t) \/ DropHandle(t)
        BY <3>1 DEF Begin, DropHandle
      <3>2. CASE SendStep(t)
        BY <3>2 DEF SendStep, LoadTail, SendStamp, SendCas, SendCasFails, SendCheck, Write
      <3>3. CASE RecvStep(t)
        BY <3>3 DEF RecvStep, LoadHead, RecvStamp, RecvCas, RecvCasFails, RecvCheck, Read
      <3>4. CASE BlockStep(t)
        <4>1. CASE Notify(t) \/ Recheck(t) \/ Recheck2(t) \/ IsDisconnected(t) \/ Wait(t) \/ Unregister(t)
          BY <4>1, Zenon DEF Notify, Recheck, Recheck2, IsDisconnected, Wait, Unregister
        <4>2. CASE Register(t) \/ Abort(t) \/ Park(t) \/ ParkTimeout(t)
          BY <1>1, <4>2 DEF Register, Abort, Park, ParkTimeout
        <4> QED
          BY <1>5, <3>4, <4>1, <4>2 DEF BlockStep
      <3>5. CASE ReleaseStep(t)
        BY <1>5, <3>5 DEF ReleaseStep, Mark, Discard, DiscardEnd, Destroy
      <3> QED
        BY <3>1, <3>2, <3>3, <3>4, <3>5 DEF Step, Progress
    <2> QED
      BY <1>2, <2>1
  <1> QED
    BY <1>3, <1>4, <1>5

\* How a thread comes to wait: it has looked at the channel after it registered, and
\* then at the mark bit.
LEMMA OwnSteps ==
    ASSUME Consistent, NEW t \in Threads, Step(t)
    PROVE  /\ pc'[t] = "park" => select'[t] = "waiting"
           /\ Waiting(t)' => \/ Waiting(t) /\ (pc[t] = "is_disconnected" => ~ marked)
                             \/ Recheck2(t) /\ pc'[t] = "is_disconnected"
           /\ Waiting(t)' => marked' = marked
  <1> IInv
    BY DEF Consistent
  <1> USE DEF wakers, ring
  <1>1. /\ pc \in [Threads -> Labels] /\ permit \in [Threads -> BOOLEAN]
        /\ select \in [Threads -> {"waiting", "aborted", "disconnected", "operation"}]
    BY DEF IInv, TypeOK
  <1>2. CASE pc'[t] \notin {"is_disconnected", "wait", "park"}
    BY <1>2 DEF Waiting
  <1>3. CASE pc'[t] \in {"is_disconnected", "wait", "park"}
    <2>1. CASE Begin(t) \/ DropHandle(t)
      BY <1>1, <1>3, <2>1 DEF Begin, DropHandle, Goto
    <2>2. CASE SendStep(t)
      <3>1. \/ Goto(t, "idle") \/ Goto(t, "stamp") \/ Goto(t, "cas") \/ Goto(t, "check")
            \/ Goto(t, "load") \/ Goto(t, "access") \/ Goto(t, "register") \/ Goto(t, "notify")
        BY <2>2 DEF SendStep, LoadTail, SendStamp, SendCas, SendCasFails, SendCheck, Write,
                    HoldTail, Return, NotReady
      <3> QED
        BY <1>1, <1>3, <3>1 DEF Goto
    <2>3. CASE RecvStep(t)
      <3>1. \/ Goto(t, "idle") \/ Goto(t, "stamp") \/ Goto(t, "cas") \/ Goto(t, "check")
            \/ Goto(t, "load") \/ Goto(t, "access") \/ Goto(t, "register") \/ Goto(t, "notify")
        BY <2>3, Zenon DEF RecvStep, LoadHead, RecvStamp, RecvCas, RecvCasFails, RecvCheck, Read,
                    Return, NotReady
      <3> QED
        BY <1>1, <1>3, <3>1 DEF Goto
    <2>4. CASE Notify(t) \/ NotifyLock(t) \/ Register(t) \/ Recheck(t) \/ ParkTimeout(t) \/ Unregister(t)
      <3>1. \/ Goto(t, "idle") \/ Goto(t, "notify_lock") \/ Goto(t, "recheck") \/ Goto(t, "recheck2")
            \/ Goto(t, "load") \/ Goto(t, "unregister")
        BY <2>4 DEF Notify, NotifyLock, Finish, Register, Recheck, ParkTimeout, Woken, Unregister
      <3> QED
        BY <1>1, <1>3, <3>1 DEF Goto
    <2>5. CASE Recheck2(t)
      <3>1. pc'[t] \in {"is_disconnected", "abort"} /\ marked' = marked
        BY <1>1, <2>5 DEF Recheck2, Goto
      <3> QED
        BY <1>3, <2>5, <3>1
    <2>6. CASE IsDisconnected(t)
      <3>1. /\ pc[t] = "is_disconnected" /\ select' = select /\ marked' = marked
            /\ pc'[t] = IF marked THEN "abort" ELSE "wait"
        BY <1>1, <2>6 DEF IsDisconnected, Goto
      <3>2. pc'[t] = "wait" /\ ~ marked
        BY <1>3, <3>1
      <3> QED
        BY <3>1, <3>2 DEF Waiting
    <2>7. CASE Abort(t)
      <3>1. pc'[t] = "wait" /\ select'[t] # "waiting"
        BY <1>1, <2>7 DEF Abort, Goto
      <3> QED
        BY <3>1 DEF Waiting
    <2>8. CASE Wait(t)
      <3>1. pc[t] = "wait" /\ select' = select /\ marked' = marked
        BY <2>8 DEF Wait
      <3>2. select[t] = "waiting"
        BY <1>1, <1>3, <2>8 DEF Wait, Woken, Goto
      <3> QED
        BY <3>1, <3>2 DEF Waiting
    <2>9. CASE Park(t)
      <3>1. pc[t] = "park" /\ pc'[t] = "wait" /\ select' = select /\ marked' = marked
        BY <1>1, <2>9 DEF Park, Goto
      <3> QED
        BY <3>1 DEF Waiting
    <2>10. CASE ReleaseStep(t)
      BY <1>3, <2>10, ReleaseStepFacts DEF Gone
    <2> QED
      BY <2>1, <2>2, <2>3, <2>4, <2>5, <2>6, <2>7, <2>8, <2>9, <2>10, Zenon DEF Step, Progress, BlockStep
  <1> QED
    BY <1>2, <1>3

\* A thread that waits is on the list of its side.
LEMMA WaiterListed ==
    ASSUME Consistent, NEW d \in Sides, NEW u \in Of(d), Waiting(u)
    PROVE  /\ \E i \in 1..Len(queue[d]) : queue[d][i] = u
           /\ ~ isEmpty[d] /\ u \in Threads
  <1> IInv
    BY DEF Consistent
  <1>1. u \in OnList(d)
    BY DEF OnList, Waiting, Registered
  <1>2. queue[d] \in Seq(Threads) /\ u \in Threads
    BY DEF IInv, TypeOK, Of, Threads
  <1>3. PICK i \in DOMAIN queue[d] : queue[d][i] = u
    BY <1>1 DEF IInv, QueueInv, Lists
  <1>4. i \in 1..Len(queue[d]) /\ queue[d] # << >>
    BY <1>2, <1>3
  <1>5. ~ isEmpty[d]
    BY <1>4 DEF IInv, QueueInv
  <1> QED
    BY <1>2, <1>3, <1>4, <1>5

-----------------------------------------------------------------------------
(***************************************************************************)
(* The discarded messages.                                                 *)
(***************************************************************************)
\* The last receiver finds a message where the stamp says so: a full slot of the
\* lap, before the tail.
LEMMA DiscardsMessage ==
    ASSUME TypeOK, RingInv, AccessInv, DropInv, NEW r \in Receivers,
           pc[r] = "discard", Stamp(pos[r]) = pos[r] + 1
    PROVE  /\ pos[r] \in Window /\ pos[r] < tail /\ Index(pos[r]) \in 0..Cap - 1
           /\ slot[Index(pos[r])] \in Messages
  <1>1. /\ pos[r] \in Positions /\ head <= pos[r] /\ pos[r] <= tail
        /\ head \in Positions /\ tail \in Positions /\ tail <= head + OneLap
    BY DEF DropInv, RingInv
  <1>2. /\ head \in Nat /\ tail \in Nat /\ pos[r] \in Nat /\ OneLap \in Nat \ {0}
        /\ Index(pos[r]) \in 0..Cap - 1
    BY <1>1, SuccPosition, Widths
  <1>3. pos[r] # head + OneLap
    <2>1. SUFFICES ASSUME pos[r] = head + OneLap PROVE FALSE
      OBVIOUS
    <2>2. Stamp(pos[r]) = Stamp(head)
      BY <1>1, <2>1, NextLap DEF Stamp
    <2>3. head \in Window
      BY <1>1, <1>2 DEF Window
    <2>4. Stamp(head) = head \/ Stamp(head) = head + 1 \/ Stamp(head) = head - OneLap + 1
      BY <1>2, <2>3 DEF RingInv
    <2> QED
      BY <1>2, <2>1, <2>2, <2>4
  <1>4. pos[r] \in Window
    BY <1>1, <1>2, <1>3 DEF Window
  <1>5. pos[r] < tail /\ Full(pos[r])
    BY <1>1, <1>2, <1>4 DEF RingInv
  <1> QED
    BY <1>2, <1>4, <1>5 DEF TypeOK, Full

\* Before the last receiver discards anything there is nothing to say of the messages.
LEMMA NothingDropped ==
    ASSUME Consistent, dropped' = {},
           \A r \in Receivers : pc'[r] \notin {"discard", "destroy"},
           \E r \in Receivers : pc'[r] # "done",
           \A s \in Senders : pc'[s] # "discard",
           \A t \in Threads : pc'[t] \in {"disconnect", "discard", "destroy"} => marked'
    PROVE  DropInv'
  <1> IInv
    BY DEF Consistent
  <1>1. ~ AllDone("recv")'
    BY DEF AllDone, Of
  <1> QED
    BY <1>1 DEF DropInv

\* Nothing is dropped while a receiver has its handle or the channel is connected.
LEMMA DroppedLate ==
    ASSUME Consistent, ~ marked \/ \E r \in Receivers : pc[r] \notin {"discard", "destroy", "done"}
    PROVE  /\ dropped = {} /\ \A r \in Receivers : pc[r] \notin {"discard", "destroy"}
           /\ ~ AllDone("recv")
  <1> IInv
    BY DEF Consistent
  <1>1. \E r \in Receivers : pc[r] \notin {"discard", "destroy", "done"}
    <2>1. CASE ~ marked
      <3>1. ~ AllDone("recv")
        BY <2>1, Zenon DEF IInv, DropInv
      <3>2. PICK r \in Receivers : pc[r] # "done"
        BY <3>1 DEF AllDone, Of
      <3>3. pc[r] \notin {"discard", "destroy"}
        BY <2>1 DEF IInv, DropInv, Threads
      <3> QED
        BY <3>2, <3>3
    <2> QED
      BY <2>1
  <1>2. PICK r \in Receivers : pc[r] \notin {"discard", "destroy", "done"}
    BY <1>1
  <1>3. dropped = {} /\ ~ AllDone("recv")
    BY <1>2 DEF IInv, DropInv, AllDone, Of
  <1>4. ASSUME NEW u \in Receivers, pc[u] \in {"discard", "destroy"} PROVE FALSE
    <2>1. u # r /\ u \in Threads /\ r \in Threads /\ Side(u) = Side(r)
      BY <1>2, <1>4, SideOf DEF Side, Threads
    <2>2. pc[r] = "done"
      BY <1>4, <2>1 DEF IInv, CounterInv, Gone
    <2> QED
      BY <1>2, <2>2
  <1> QED
    BY <1>3, <1>4

\* A step of a sender that leaves the ring alone.
LEMMA SenderKeepsDropped ==
    ASSUME Consistent, UNCHANGED <<head, tail, stamp, slot, dropped>>, marked => marked',
           \A r \in Receivers : pc'[r] = pc[r] /\ pos'[r] = pos[r],
           \A s \in Senders : pc'[s] # "discard",
           \A t \in Threads : pc'[t] \in {"disconnect", "discard", "destroy"} => marked'
    PROVE  DropInv'
  <1> IInv
    BY DEF Consistent
  <1>1. Window' = Window /\ \A x : Stamp(x)' = Stamp(x)
    BY DEF Window, Stamp
  <1>2. AllDone("recv")' <=> AllDone("recv")
    BY DEF AllDone, Of
  <1>3. AllDone("recv") => marked'
    BY DEF IInv, DropInv
  <1>4. \A r \in Receivers : pc'[r] = "discard" =>
           /\ pos'[r] \in Positions /\ head <= pos'[r] /\ pos'[r] <= tail
           /\ dropped = {slot[Index(x)] : x \in Passed(pos'[r])}
           /\ \A x \in Passed(pos'[r]) : Stamp(x) = x + 1
    BY DEF IInv, DropInv
  <1>5. (AllDone("recv") \/ \E r \in Receivers : pc'[r] = "destroy") =>
           \A x \in Passed(tail) : slot[Index(x)] \in dropped /\ Stamp(x) = x + 1
    BY DEF IInv, DropInv
  <1>6. dropped # {} => \A r \in Receivers : pc'[r] \in {"discard", "destroy", "done"}
    BY DEF IInv, DropInv
  <1> QED
    BY <1>1, <1>2, <1>3, <1>4, <1>5, <1>6 DEF DropInv, Passed

\* A sender writes while the last receiver discards: it is not one of the slots that
\* are behind.  Once all are behind no sender writes.
LEMMA WriteKeepsDropped ==
    ASSUME Consistent, NEW s \in Senders, Write(s)
    PROVE  DropInv'
  <1> IInv
    BY DEF Consistent
  <1> PICK w : w = pos[s]
    OBVIOUS
  <1>1. /\ w \in Window /\ w \in Positions /\ w < tail /\ Stamp(w) = w
        /\ Index(w) \in 0..Cap - 1 /\ s \in Threads /\ w \in Nat
    BY RingFacts DEF IInv, AccessInv, Write, Threads
  <1>2. /\ head' = head /\ tail' = tail /\ marked' = marked /\ dropped' = dropped /\ Window' = Window
        /\ stamp' = [stamp EXCEPT ![Index(w)] = w + 1]
        /\ slot' = [slot EXCEPT ![Index(w)] = Msg(s)]
        /\ pos' = [pos EXCEPT ![s] = 0] /\ pc' = [pc EXCEPT ![s] = "notify"]
    BY DEF Write, Goto, Window
  <1>3. Receivers \subseteq Threads /\ Senders \subseteq Threads /\ s \notin Receivers
    BY <1>1, SideOf DEF Threads
  <1>4. \A u \in Threads : u # s => pc'[u] = pc[u] /\ pos'[u] = pos[u]
    BY <1>1, <1>2, RingFacts
  <1>5. pc'[s] = "notify"
    BY <1>1, <1>2, RingFacts
  <1>6. ASSUME NEW x \in Window, Stamp(x) = x + 1
        PROVE  stamp'[Index(x)] = x + 1 /\ slot'[Index(x)] = slot[Index(x)]
    <2>1. x \in Positions /\ x \in Nat /\ head <= x /\ x < head + OneLap /\ Index(x) \in 0..Cap - 1
      BY RingFacts
    <2>2. head <= w /\ w < head + OneLap
      BY <1>1, RingFacts
    <2>3. x # w
      BY <1>1, <1>6, <2>1
    <2>4. Index(x) # Index(w)
      BY <1>1, <2>1, <2>2, <2>3, SlotsDiffer, RingNumbers
    <2> QED
      BY <1>1, <1>2, <1>6, <2>1, <2>4, RingFacts DEF Stamp
  <1>7. ~ (AllDone("recv") \/ \E r \in Receivers : pc[r] = "destroy")
    <2>1. w \in Passed(tail)
      BY <1>1 DEF Passed
    <2>2. Stamp(w) # w + 1
      BY <1>1
    <2> QED
      BY <2>1, <2>2 DEF IInv, DropInv
  <1>8. ~ (AllDone("recv")' \/ \E r \in Receivers : pc'[r] = "destroy")
    BY <1>3, <1>4, <1>7 DEF AllDone, Of
  <1>9. ASSUME NEW r \in Receivers, pc'[r] = "discard"
        PROVE  /\ pos'[r] \in Positions /\ head <= pos'[r] /\ pos'[r] <= tail
               /\ dropped = {slot'[Index(x)] : x \in Passed(pos'[r])}
               /\ \A x \in Passed(pos'[r]) : stamp'[Index(x)] = x + 1
    <2>1. pc[r] = "discard" /\ pos'[r] = pos[r]
      BY <1>3, <1>4, <1>9
    <2>2. /\ pos[r] \in Positions /\ head <= pos[r] /\ pos[r] <= tail
          /\ dropped = {slot[Index(x)] : x \in Passed(pos[r])}
          /\ \A x \in Passed(pos[r]) : Stamp(x) = x + 1
      BY <2>1 DEF IInv, DropInv
    <2>3. \A x \in Passed(pos[r]) : stamp'[Index(x)] = x + 1 /\ slot'[Index(x)] = slot[Index(x)]
      BY <1>6, <2>2 DEF Passed
    <2> QED
      BY <2>1, <2>2, <2>3
  <1>10. \A t \in Threads : pc'[t] \in {"disconnect", "discard", "destroy"} => marked
    BY <1>4, <1>5 DEF IInv, DropInv
  <1>11. dropped # {} => \A r \in Receivers : pc'[r] \in {"discard", "destroy", "done"}
    BY <1>3, <1>4 DEF IInv, DropInv
  <1>12. \A u \in Senders : pc'[u] # "discard"
    BY <1>3, <1>4, <1>5 DEF IInv, DropInv
  <1> QED
    BY <1>2, <1>8, <1>9, <1>10, <1>11, <1>12 DEF DropInv, Passed, Stamp

\* The last receiver starts to discard: it has the head, and nothing is behind.
LEMMA EntersDiscard ==
    ASSUME Consistent, NEW t \in Receivers, pc[t] \in {"mark", "disconnect"}, AfterDisconnect(t),
           marked', UNCHANGED <<head, tail, stamp, slot, dropped>>
    PROVE  DropInv'
  <1> IInv
    BY DEF Consistent
  <1>1. t \in Threads /\ t \notin Senders /\ Receivers \subseteq Threads /\ Senders \subseteq Threads
    BY SideOf DEF Threads
  <1>2. pc'[t] = "discard" /\ pos'[t] = head /\ \A u \in Threads : u # t => pc'[u] = pc[u]
    BY <1>1 DEF AfterDisconnect, Goto, IInv, TypeOK
  <1>3. \A u \in Receivers : u # t => pc'[u] = "done"
    <2>1. \A u \in Receivers : Side(u) = Side(t)
      BY <1>1, SideOf DEF Side, Threads
    <2>2. \A u \in Receivers : u # t => pc[u] = "done"
      BY <1>1, <2>1 DEF IInv, CounterInv, Gone
    <2> QED
      BY <1>1, <1>2, <2>2
  <1>4. dropped = {}
    BY DroppedLate
  <1>5. head \in Positions /\ head \in Nat /\ head <= head /\ head <= tail /\ Passed(head) = {}
    BY RingNumbers DEF Passed, Window
  <1>6. ~ AllDone("recv")'
    BY <1>2, Zenon DEF AllDone, Of
  <1>7. \A r \in Receivers : pc'[r] # "destroy" /\ (pc'[r] = "discard" => r = t)
    BY <1>2, <1>3
  <1>8. \A s \in Senders : pc'[s] # "discard"
    BY <1>1, <1>2 DEF IInv, DropInv
  <1>9. \A r \in Receivers : pc'[r] = "discard" =>
           /\ pos'[r] \in Positions /\ head <= pos'[r] /\ pos'[r] <= tail
           /\ dropped = {slot[Index(x)] : x \in Passed(pos'[r])}
           /\ \A x \in Passed(pos'[r]) : Stamp(x) = x + 1
    BY <1>2, <1>4, <1>5, <1>7
  <1> QED
    BY <1>4, <1>6, <1>7, <1>8, <1>9, Zenon DEF DropInv, Passed, Window, Stamp

\* It drops the message at its position and goes on to the next one.
LEMMA DiscardKeepsDropped ==
    ASSUME Consistent, NEW t \in Receivers, Discard(t)
    PROVE  DropInv'
  <1> IInv
    BY DEF Consistent
  <1> PICK w : w = pos[t]
    OBVIOUS
  <1>1. /\ pc[t] = "discard" /\ Stamp(w) = w + 1 /\ pc' = pc
        /\ head' = head /\ tail' = tail /\ marked' = marked /\ stamp' = stamp /\ slot' = slot
        /\ dropped' = dropped \cup {slot[Index(w)]}
        /\ pos' = [pos EXCEPT ![t] = Succ(w)]
    BY DEF Discard, Stamp, ring
  <1>2. w \in Window /\ w < tail /\ w \in Positions /\ w \in Nat
    BY <1>1, DiscardsMessage, RingFacts DEF IInv
  <1>3. t \in Threads /\ pos'[t] = Succ(w)
    BY <1>1, RingFacts DEF Threads
  <1>4. \A u \in Receivers : u # t => pc[u] = "done"
    <2>1. \A u \in Receivers : Side(u) = Side(t) /\ u \in Threads
      BY <1>3, SideOf DEF Side, Threads
    <2> QED
      BY <1>1, <1>3, <2>1, Zenon DEF IInv, CounterInv, Gone
  <1>5. /\ head <= w /\ dropped = {slot[Index(x)] : x \in Passed(w)}
        /\ \A x \in Passed(w) : Stamp(x) = x + 1
    BY <1>1 DEF IInv, DropInv
  <1>6. Succ(w) \in Positions /\ Succ(w) \in Nat /\ w < Succ(w) /\ Succ(w) <= tail
    BY <1>2, SuccPosition, NextPosition, RingNumbers
  <1>7. Passed(Succ(w)) = Passed(w) \cup {w}
    <2>1. ASSUME NEW x \in Window PROVE x < Succ(w) <=> x < w \/ x = w
      <3>1. x \in Positions /\ x \in Nat
        BY RingFacts
      <3>2. w < x => Succ(w) <= x
        BY <1>2, <3>1, NextPosition
      <3> QED
        BY <1>2, <1>6, <3>1, <3>2
    <2> QED
      BY <1>2, <2>1, Zenon DEF Passed
  <1>8. ~ AllDone("recv")' /\ \A r \in Receivers : pc[r] # "destroy"
    BY <1>1, <1>4 DEF AllDone, Of
  <1>9. /\ dropped' = {slot[Index(x)] : x \in Passed(Succ(w))}
        /\ \A x \in Passed(Succ(w)) : Stamp(x) = x + 1
    BY <1>1, <1>5, <1>7
  <1>10. \A r \in Receivers : pc[r] = "discard" => pos'[r] = Succ(w)
    BY <1>3, <1>4
  <1>11. head <= Succ(w)
    BY <1>2, <1>5, <1>6, RingNumbers
  <1>12. \A r \in Receivers : pc[r] \in {"discard", "destroy", "done"}
    BY <1>1, <1>4
  <1>13. \A r \in Receivers : pc'[r] = "discard" =>
            /\ pos'[r] \in Positions /\ head <= pos'[r] /\ pos'[r] <= tail
            /\ dropped' = {slot[Index(x)] : x \in Passed(pos'[r])}
            /\ \A x \in Passed(pos'[r]) : Stamp(x) = x + 1
    BY <1>1, <1>6, <1>9, <1>10, <1>11
  <1>14. /\ \A s \in Senders : pc'[s] # "discard"
         /\ \A u \in Threads : pc'[u] \in {"disconnect", "discard", "destroy"} => marked'
    BY <1>1 DEF IInv, DropInv
  <1> QED
    BY <1>1, <1>8, <1>12, <1>13, <1>14, Zenon DEF DropInv, Passed, Window, Stamp

\* It has reached the tail, or has let go of the channel.
LEMMA DiscardDone ==
    ASSUME Consistent, NEW t \in Receivers, DiscardEnd(t) \/ Destroy(t)
    PROVE  DropInv'
  <1> IInv
    BY DEF Consistent
  <1>1. t \in Threads /\ t \notin Senders /\ Receivers \subseteq Threads /\ Senders \subseteq Threads
    BY SideOf DEF Threads
  <1>2. /\ pc[t] \in {"discard", "destroy"} /\ pc'[t] \in {"destroy", "done"}
        /\ \A u \in Threads : u # t => pc'[u] = pc[u]
        /\ UNCHANGED <<head, tail, marked, stamp, slot, dropped>>
    BY <1>1 DEF DiscardEnd, Destroy, Goto, IInv, TypeOK, ring
  <1>3. marked
    BY <1>1, <1>2 DEF IInv, DropInv
  <1>4. \A x \in Passed(tail) : slot[Index(x)] \in dropped /\ Stamp(x) = x + 1
    <2>1. CASE DiscardEnd(t)
      BY <2>1, Zenon DEF DiscardEnd, IInv, DropInv
    <2>2. CASE Destroy(t)
      BY <2>2, Zenon DEF Destroy, IInv, DropInv
    <2> QED
      BY <2>1, <2>2
  <1>5. \A u \in Receivers : u # t => pc'[u] = "done"
    <2>1. \A u \in Receivers : Side(u) = Side(t)
      BY <1>1, SideOf DEF Side, Threads
    <2>2. \A u \in Receivers : u # t => pc[u] = "done"
      BY <1>1, <1>2, <2>1 DEF IInv, CounterInv, Gone
    <2> QED
      BY <1>1, <1>2, <2>2, Zenon
  <1>6. \A r \in Receivers : pc'[r] \in {"destroy", "done"}
    BY <1>2, <1>5
  <1>7. \A s \in Senders : pc'[s] # "discard"
    BY <1>1, <1>2, Zenon DEF IInv, DropInv
  <1> QED
    BY <1>2, <1>3, <1>4, <1>6, <1>7 DEF DropInv, Passed, Window, Stamp

-----------------------------------------------------------------------------
(***************************************************************************)
(* The wake-ups.                                                           *)
(***************************************************************************)
\* Who still waits when the channel is marked has somebody about to wake it.
LEMMA DisconnectWakes ==
    ASSUME Consistent, NEW t \in Threads, Step(t),
           NEW u \in Threads, marked', Waiting(u)', pc'[u] # "is_disconnected"
    PROVE  \E v \in Threads : Side(v) = Other(u) /\ pc'[v] = "disconnect"
  <1> IInv
    BY DEF Consistent
  <1>1. \A v \in Threads : v # t => pc'[v] = pc[v]
    BY OthersSteps
  <1>2. Waiting(u) /\ (marked => pc[u] # "is_disconnected") /\ (u = t => marked' = marked)
    <2>1. CASE u = t
      BY <2>1, OwnSteps, Zenon
    <2>2. CASE u # t
      <3>1. pc'[u] = pc[u] /\ (select'[u] = select[u] \/ select'[u] # "waiting")
        BY <2>2, OthersSteps
      <3> QED
        BY <2>2, <3>1, Zenon DEF Waiting
    <2> QED
      BY <2>1, <2>2, Zenon
  <1>3. CASE marked
    <2>1. PICK v \in Threads : Side(v) = Other(u) /\ pc[v] = "disconnect"
      BY <1>2, <1>3 DEF IInv, WakeInv
    <2>2. ASSUME v = t PROVE FALSE
      <3>1. CallStep(t) => FALSE
        BY <2>1, <2>2, CallStepFacts, Zenon DEF Gone
      <3>2. DropHandle(t) => FALSE
        BY <2>1, <2>2, Zenon DEF DropHandle
      <3>3. Disconnect(t)
        BY <2>1, <2>2, <3>1, <3>2, StepKinds, Zenon DEF ReleaseStep, Mark, Discard, DiscardEnd, Destroy
      <3>4. u # t /\ u \in Of(Other(t)) /\ Other(t) \in Sides
        BY <2>1, <2>2, SideOf, Zenon DEF Side, Other, Of, Threads
      <3>5. PICK i \in 1..Len(queue[Other(t)]) : queue[Other(t)][i] = u
        BY <1>2, <3>4, WaiterListed
      <3>6. i \in DOMAIN queue[Other(t)]
        <4>1. queue[Other(t)] \in Seq(Threads)
          BY <3>4 DEF IInv, TypeOK
        <4> QED
          BY <3>5, <4>1
      <3>7. select'[u] = "disconnected"
        BY <1>2, <3>3, <3>5, <3>6 DEF Disconnect, Waiting
      <3> QED
        BY <3>7 DEF Waiting
    <2> QED
      BY <1>1, <2>1, <2>2
  <1>4. CASE ~ marked
    <2>1. Mark(t)
      <3>1. marked' # marked
        BY <1>4, Zenon
      <3>2. CallStep(t) => FALSE
        BY <3>1, CallStepFacts, Zenon
      <3>3. DropHandle(t) => FALSE
        BY <3>1, Zenon DEF DropHandle, ring
      <3> QED
        BY <3>1, <3>2, <3>3, StepKinds, Zenon DEF ReleaseStep, Disconnect, Discard, DiscardEnd, Destroy, ring
    <2>2. pc[t] = "mark" /\ pc'[t] = "disconnect"
      BY <1>4, <2>1 DEF Mark, Goto, IInv, TypeOK
    <2>3. u # t /\ pc[u] # "done"
      BY <1>2, <2>2 DEF Waiting
    <2>4. Side(u) # Side(t)
      BY <2>2, <2>3, Zenon DEF IInv, CounterInv, Gone
    <2>5. Side(t) = Other(u)
      BY <2>4, SideOf DEF Side, Other
    <2> QED
      BY <2>2, <2>5
  <1> QED
    BY <1>3, <1>4

\* The move of the tail: a position less to be had by the senders, a message more for
\* the receivers.
LEMMA SendCasWanted ==
    ASSUME Consistent, NEW s \in Senders, SendCas(s)
    PROVE  /\ Wanted("send")' = Wanted("send") \ {tail} /\ tail \in Wanted("send")
           /\ Wanted("recv")' = Wanted("recv") \cup {tail}
  <1> IInv
    BY DEF Consistent
  <1>1. tail \in Window /\ Succ(tail) \in Nat /\ tail < Succ(tail) /\ tail \in Nat
    BY SendCasFacts, SuccPosition, RingNumbers
  <1>2. Window' = Window /\ tail' = Succ(tail)
    BY DEF SendCas, Window
  <1>3. ASSUME NEW x \in Window
        PROVE  /\ Succ(tail) <= x <=> tail <= x /\ x # tail
               /\ x < Succ(tail) <=> x < tail \/ x = tail
    <2>1. x \in Positions /\ x \in Nat
      BY RingFacts
    <2>2. tail < x => Succ(tail) <= x
      BY <2>1, NextPosition, RingNumbers
    <2> QED
      BY <1>1, <2>1, <2>2
  <1>4. tail <= tail
    BY <1>1
  <1> QED
    BY <1>1, <1>2, <1>3, <1>4, Zenon DEF Wanted

\* The move of the head: a message less to be had by the receivers, a position more
\* for the senders.
LEMMA RecvCasWanted ==
    ASSUME Consistent, NEW r \in Receivers, RecvCas(r)
    PROVE  /\ Wanted("recv")' = Wanted("recv") \ {head} /\ head \in Wanted("recv")
           /\ Wanted("send")' = Wanted("send") \cup {head + OneLap}
  <1> IInv
    BY DEF Consistent
  <1>1. /\ head \in Window /\ head < tail /\ Succ(head) \in Nat /\ head < Succ(head)
        /\ Succ(head) <= head + OneLap
        /\ \A x \in Positions : Succ(head) <= x /\ x < Succ(head) + OneLap =>
              x \in Window \/ x = head + OneLap
    BY RecvCasFacts, SuccPosition, RingNumbers
  <1>2. head' = Succ(head) /\ tail' = tail
    BY DEF RecvCas
  <1>3. \A x : x \in Window' <=> x \in Positions /\ Succ(head) <= x /\ x < Succ(head) + OneLap
    <2>1. Window' = {x \in Succ(head)..Succ(head) + OneLap - 1 : x \in Positions}
      BY <1>2 DEF Window
    <2>2. \A x \in Positions : x \in Nat
      BY RingFacts
    <2> QED
      BY <1>1, <2>1, <2>2, RingNumbers
  <1>4. Window' = (Window \ {head}) \cup {head + OneLap}
    <2>1. ASSUME NEW x \in Window, x # head PROVE x \in Window'
      <3>1. x \in Positions /\ x \in Nat /\ head <= x /\ x < head + OneLap
        BY RingFacts
      <3>2. head < x
        BY <2>1, <3>1, RingNumbers
      <3>3. Succ(head) <= x
        BY <3>1, <3>2, NextPosition, RingNumbers
      <3>4. x < Succ(head) + OneLap
        BY <1>1, <3>1, RingNumbers
      <3> QED
        BY <1>3, <3>1, <3>3, <3>4
    <2>2. head + OneLap \in Window'
      <3>1. head + OneLap < Succ(head) + OneLap
        BY <1>1, RingNumbers
      <3> QED
        BY <1>1, <1>3, <3>1, RingNumbers
    <2>3. head \notin Window'
      BY <1>1, <1>3, RingNumbers
    <2> QED
      BY <1>1, <1>3, <2>1, <2>2, <2>3
  <1>5. tail <= head + OneLap /\ ~ (head + OneLap < tail) /\ ~ (tail <= head)
    BY <1>1, RingNumbers
  <1> QED
    BY <1>1, <1>2, <1>4, <1>5 DEF Wanted

\* Who finds the channel full or empty has found nothing to be had, at that moment.
LEMMA NothingWanted ==
    ASSUME Consistent, NEW t \in Threads, pc[t] \in {"check", "recheck2"},
           (IF t \in Senders THEN head + OneLap ELSE tail) = pos[t]
    PROVE  Wanted(Side(t)) = {}
  <1> IInv
    BY DEF Consistent
  <1>1. CASE t \in Senders
    <2>1. pos[t] <= tail /\ head + OneLap = pos[t]
      BY <1>1 DEF IInv, LoadedInv
    <2>2. tail = head + OneLap
      BY <2>1, RingNumbers
    <2>3. \A x \in Window : ~ (tail <= x)
      BY <2>2, RingNumbers DEF Window
    <2> QED
      BY <1>1, <2>3 DEF Wanted, Side
  <1>2. CASE t \in Receivers /\ t \notin Senders
    <2>1. pos[t] <= head /\ tail = pos[t]
      BY <1>2 DEF IInv, LoadedInv
    <2>2. tail = head
      BY <2>1, RingNumbers
    <2>3. \A x \in Window : ~ (x < tail)
      BY <2>2, RingNumbers DEF Window
    <2> QED
      BY <1>2, <2>3 DEF Wanted, Side
  <1> QED
    BY <1>1, <1>2 DEF Threads

\* On a connected channel, a step other than those that move the head or the tail and
\* those that end a notification takes no helper away, unless nothing was to be had.
LEMMA StillHelps ==
    ASSUME Consistent, NEW t \in Threads, Step(t), ~ marked',
           ~ (t \in Senders /\ SendCas(t)), ~ (t \in Receivers /\ RecvCas(t)),
           ~ (Notify(t) /\ isEmpty[Other(t)]), ~ NotifyLock(t)
    PROVE  /\ UNCHANGED <<head, tail>>
           /\ \A u \in Threads : u # t => pc'[u] = pc[u] /\ select'[u] = select[u]
           /\ Notifying(t) => Notifying(t)'
           /\ \/ Wanted(Side(t)) = {}
              \/ (Active(t) => Active(t)') /\ (Waiting(t)' => Waiting(t))
  <1> IInv
    BY DEF Consistent
  <1> USE DEF wakers, ring
  <1>1. /\ pc \in [Threads -> Labels] /\ permit \in [Threads -> BOOLEAN]
        /\ select \in [Threads -> {"waiting", "aborted", "disconnected", "operation"}]
    BY DEF IInv, TypeOK
  <1>2. ~ ReleaseStep(t)
    <2>1. pc[t] \in {"disconnect", "discard", "destroy"} => marked
      BY DEF IInv, DropInv
    <2>2. ~ Mark(t)
      BY DEF Mark
    <2>3. ReleaseStep(t) => pc[t] \in {"disconnect", "discard", "destroy"}
      BY <2>2, Zenon DEF ReleaseStep, Disconnect, Discard, DiscardEnd, Destroy
    <2>4. ReleaseStep(t) => (marked => marked')
      BY ReleaseStepFacts, Zenon
    <2> QED
      BY <2>1, <2>3, <2>4
  <1>3. \A u \in Threads : u # t => pc'[u] = pc[u] /\ select'[u] = select[u]
    BY <1>2, OthersSteps DEF ReleaseStep
  <1>4. UNCHANGED <<head, tail>>
    <2>1. CASE t \in Senders /\ Write(t)
      BY <2>1 DEF Write
    <2>2. CASE t \in Receivers /\ Read(t)
      BY <2>2 DEF Read
    <2> QED
      BY <2>1, <2>2, LocalSteps, Zenon DEF Local
  <1>5. ~ marked
    <2>1. CASE CallStep(t)
      BY <2>1, CallStepFacts
    <2>2. CASE DropHandle(t)
      BY <2>2 DEF DropHandle
    <2> QED
      BY <1>2, <2>1, <2>2, StepKinds
  <1>6. Notifying(t) => Notifying(t)'
    <2>1. CASE pc[t] = "access"
      <3>1. Write(t) \/ Read(t)
        BY <1>2, <2>1, Zenon DEF Step, Progress, Begin, DropHandle, BlockStep, SendStep, RecvStep,
             LoadTail, SendStamp, SendCas, SendCasFails, SendCheck,
             LoadHead, RecvStamp, RecvCas, RecvCasFails, RecvCheck,
             Notify, NotifyLock, Register, Recheck, Recheck2, IsDisconnected, Abort, Wait, Park,
             ParkTimeout, Unregister
      <3>2. pc'[t] = "notify"
        BY <1>1, <3>1 DEF Write, Read, Goto
      <3> QED
        BY <3>2 DEF Notifying
    <2>2. CASE pc[t] = "notify"
      <3>1. Notify(t)
        BY <1>2, <2>2, Zenon DEF Step, Progress, Begin, DropHandle, BlockStep, SendStep, RecvStep,
             LoadTail, SendStamp, SendCas, SendCasFails, SendCheck, Write, Read,
             LoadHead, RecvStamp, RecvCas, RecvCasFails, RecvCheck,
             NotifyLock, Register, Recheck, Recheck2, IsDisconnected, Abort, Wait, Park,
             ParkTimeout, Unregister
      <3>2. pc'[t] = "notify_lock"
        BY <1>1, <3>1 DEF Notify, Goto
      <3> QED
        BY <3>2, Zenon DEF Notifying
    <2>3. pc[t] # "notify_lock"
      BY <1>2, Zenon DEF Step, Progress, Begin, DropHandle, BlockStep, SendStep, RecvStep,
           LoadTail, SendStamp, SendCas, SendCasFails, SendCheck, Write, Read,
           LoadHead, RecvStamp, RecvCas, RecvCasFails, RecvCheck,
           Notify, Register, Recheck, Recheck2, IsDisconnected, Abort, Wait, Park,
           ParkTimeout, Unregister
    <2> QED
      BY <2>1, <2>2, <2>3 DEF Notifying
  <1>7. \/ Wanted(Side(t)) = {}
        \/ (Active(t) => Active(t)') /\ (Waiting(t)' => Waiting(t))
    <2>1. CASE pc'[t] \in {"load", "stamp", "cas", "check", "unregister"}
      BY <2>1 DEF Active, Waiting
    <2>2. CASE Begin(t) \/ DropHandle(t)
      <3>1. pc[t] = "idle" /\ pc'[t] \in {"load", "mark", "done"}
        BY <1>1, <2>2 DEF Begin, DropHandle, Goto
      <3> QED
        BY <3>1 DEF Active, Waiting
    <2>3. CASE t \in Senders /\ SendStep(t)
      <3>1. CASE SendCheck(t) /\ head + OneLap = pos[t]
        BY <2>3, <3>1, NothingWanted, Zenon DEF SendCheck
      <3>2. CASE Write(t)
        BY <1>1, <3>2 DEF Write, Goto, Active, Waiting
      <3>3. \/ pc'[t] \in {"load", "stamp", "cas", "check"}
            \/ SendCheck(t) /\ head + OneLap = pos[t]
            \/ Write(t)
        BY <1>1, <1>5, <2>3 DEF SendStep, LoadTail, SendStamp, SendCasFails, SendCheck, HoldTail, Goto
      <3> QED
        BY <2>1, <3>1, <3>2, <3>3, Zenon
    <2>4. CASE t \in Receivers /\ RecvStep(t)
      <3>1. CASE RecvCheck(t) /\ tail = pos[t]
        BY <2>4, <3>1, NothingWanted, SideOf, Zenon DEF RecvCheck
      <3>2. CASE Read(t)
        BY <1>1, <3>2 DEF Read, Goto, Active, Waiting
      <3>3. \/ pc'[t] \in {"load", "stamp", "cas", "check"}
            \/ RecvCheck(t) /\ tail = pos[t]
            \/ Read(t)
        BY <1>1, <2>4 DEF RecvStep, LoadHead, RecvStamp, RecvCasFails, RecvCheck, Goto
      <3> QED
        BY <2>1, <3>1, <3>2, <3>3, Zenon
    <2>5. CASE Notify(t)
      <3>1. pc[t] = "notify" /\ pc'[t] = "notify_lock"
        BY <1>1, <2>5 DEF Notify, Goto
      <3> QED
        BY <3>1, Zenon DEF Active, Waiting
    <2>6. CASE Register(t)
      <3>1. pc[t] = "register" /\ pc'[t] = "recheck"
        BY <1>1, <2>6 DEF Register, Goto
      <3> QED
        BY <3>1 DEF Active, Waiting
    <2>7. CASE Recheck(t)
      <3>1. pc[t] = "recheck" /\ pc'[t] = "recheck2" /\ select' = select
        BY <1>1, <2>7 DEF Recheck, Goto
      <3> QED
        BY <3>1, Zenon DEF Active, Waiting
    <2>8. CASE Recheck2(t)
      <3>1. CASE (IF t \in Senders THEN head + OneLap ELSE tail) = pos[t]
        BY <2>8, <3>1, NothingWanted DEF Recheck2
      <3>2. CASE (IF t \in Senders THEN head + OneLap ELSE tail) # pos[t]
        <4>1. pc[t] = "recheck2" /\ pc'[t] = "abort" /\ select' = select
          BY <1>1, <2>8, <3>2 DEF Recheck2, Goto
        <4> QED
          BY <4>1, Zenon DEF Active, Waiting
      <3> QED
        BY <3>1, <3>2
    <2>9. CASE IsDisconnected(t)
      <3>1. pc[t] = "is_disconnected" /\ pc'[t] = "wait" /\ select' = select
        BY <1>1, <1>5, <2>9 DEF IsDisconnected, Goto
      <3> QED
        BY <3>1, Zenon DEF Active, Waiting
    <2>10. CASE Abort(t)
      <3>1. pc'[t] = "wait" /\ select'[t] # "waiting"
        BY <1>1, <2>10 DEF Abort, Goto
      <3> QED
        BY <3>1, Zenon DEF Active, Waiting
    <2>11. CASE Wait(t)
      <3>1. pc[t] = "wait" /\ select' = select /\ pc'[t] \in {"park", "load", "unregister"}
        BY <1>1, <2>11 DEF Wait, Woken, Goto
      <3> QED
        BY <3>1, Zenon DEF Active, Waiting
    <2>12. CASE Park(t)
      <3>1. pc[t] = "park" /\ select' = select /\ pc'[t] = "wait"
        BY <1>1, <2>12 DEF Park, Goto
      <3> QED
        BY <3>1, Zenon DEF Active, Waiting
    <2>13. CASE ParkTimeout(t) \/ Unregister(t)
      <3>1. pc'[t] \in {"load", "unregister"}
        BY <1>1, <2>13 DEF ParkTimeout, Woken, Unregister, Goto
      <3> QED
        BY <2>1, <3>1
    <2> QED
      BY <1>2, <2>2, <2>3, <2>4, <2>5, <2>6, <2>7, <2>8, <2>9, <2>10, <2>11, <2>12, <2>13
         DEF Step, Progress, BlockStep
  <1> QED
    BY <1>3, <1>4, <1>6, <1>7, Zenon

-----------------------------------------------------------------------------
(***************************************************************************)
(* What the invariant implies.                                             *)
(***************************************************************************)
\* The access to a slot is exclusive in every state that the invariant allows: threads
\* that write or read are at positions less than a lap apart, and the stamps say which
\* of their slots are full.
LEMMA InvSlots == IInv => SlotExclusive
  <1> SUFFICES ASSUME IInv, Consistent PROVE SlotExclusive
    BY DEF Consistent
  <1>1. ASSUME NEW s \in Senders, pc[s] = "access"
        PROVE  /\ pos[s] \in Positions /\ pos[s] \in Nat /\ head <= pos[s] /\ pos[s] < tail
               /\ ~ Full(pos[s])
    <2>1. pos[s] \in Window /\ pos[s] < tail /\ Stamp(pos[s]) = pos[s]
      BY <1>1 DEF IInv, AccessInv
    <2>2. pos[s] \in Positions /\ pos[s] \in Nat /\ head <= pos[s]
      BY <2>1, RingFacts
    <2>3. ~ Full(pos[s])
      BY <2>1, <2>2 DEF IInv, RingInv
    <2> QED
      BY <2>1, <2>2, <2>3
  <1>2. ASSUME NEW r \in Receivers, pc[r] = "access"
        PROVE  /\ pos[r] \in Positions /\ pos[r] \in Nat /\ pos[r] < head /\ tail <= pos[r] + OneLap
               /\ Full(pos[r])
    <2>1. /\ pos[r] \in Positions /\ pos[r] < head /\ tail <= pos[r] + OneLap
          /\ Stamp(pos[r]) = pos[r] + 1
      BY <1>2 DEF IInv, AccessInv
    <2>2. pos[r] \in Nat
      BY <2>1, SuccPosition
    <2> PICK x : x = pos[r] + OneLap
      OBVIOUS
    <2>3. x \in Positions /\ Index(x) = Index(pos[r]) /\ x \in Nat
      BY <2>1, NextLap, SuccPosition
    <2>4. head <= x /\ x < head + OneLap /\ x >= tail
      BY <2>1, <2>2, RingNumbers
    <2>5. x \in Window
      BY <2>3, <2>4, RingFacts
    <2>6. Stamp(x) # x
      BY <2>1, <2>2, <2>3, RingNumbers DEF Stamp
    <2>7. Full(x)
      BY <2>4, <2>5, <2>6 DEF IInv, RingInv
    <2> QED
      BY <2>1, <2>2, <2>3, <2>7 DEF Full
  <1>3. ASSUME NEW t \in Threads, NEW u \in Threads, t # u, pc[t] = "access", pc[u] = "access"
        PROVE  Index(pos[t]) # Index(pos[u])
    <2>1. CASE t \in Senders /\ u \in Senders
      <3>1. pos[t] # pos[u]
        BY <1>3, <2>1 DEF IInv, AccessInv, Side
      <3>2. pos[t] < pos[u] + OneLap /\ pos[u] < pos[t] + OneLap
        <4>1. pos[t] \in Nat /\ head <= pos[t] /\ pos[t] < tail
          BY <1>1, <1>3, <2>1
        <4>2. pos[u] \in Nat /\ head <= pos[u] /\ pos[u] < tail
          BY <1>1, <1>3, <2>1
        <4> QED
          BY <4>1, <4>2, RingNumbers
      <3> QED
        BY <1>1, <1>3, <2>1, <3>1, <3>2, SlotsDiffer
    <2>2. CASE t \in Receivers /\ u \in Receivers
      <3>1. pos[t] # pos[u]
        BY <1>3, <2>2, SideOf DEF IInv, AccessInv, Side
      <3>2. pos[t] < pos[u] + OneLap /\ pos[u] < pos[t] + OneLap
        <4>1. pos[t] \in Nat /\ pos[t] < head /\ tail <= pos[t] + OneLap
          BY <1>2, <1>3, <2>2
        <4>2. pos[u] \in Nat /\ pos[u] < head /\ tail <= pos[u] + OneLap
          BY <1>2, <1>3, <2>2
        <4> QED
          BY <4>1, <4>2, RingNumbers
      <3> QED
        BY <1>2, <1>3, <2>2, <3>1, <3>2, SlotsDiffer
    <2>3. ASSUME NEW s \in Senders, NEW r \in Receivers, pc[s] = "access", pc[r] = "access"
          PROVE  Index(pos[s]) # Index(pos[r])
      <3>1. pos[s] # pos[r] /\ pos[s] < pos[r] + OneLap /\ pos[r] < pos[s] + OneLap
        <4>1. pos[s] \in Nat /\ head <= pos[s] /\ pos[s] < tail
          BY <1>1, <2>3
        <4>2. pos[r] \in Nat /\ pos[r] < head /\ tail <= pos[r] + OneLap
          BY <1>2, <2>3
        <4> QED
          BY <4>1, <4>2, RingNumbers
      <3> QED
        BY <1>1, <1>2, <2>3, <3>1, SlotsDiffer
    <2> QED
      BY <1>3, <2>1, <2>2, <2>3 DEF Threads
  <1>4. ASSUME NEW r \in Receivers, pc[r] = "discard", Stamp(pos[r]) = pos[r] + 1
        PROVE  slot[Index(pos[r])] \notin dropped \cup {NoMsg}
    <2> PICK w : w = pos[r]
      OBVIOUS
    <2>1. w \in Window /\ w < tail /\ Index(w) \in 0..Cap - 1
      BY <1>4, DiscardsMessage DEF IInv
    <2>2. w \in Positions /\ w \in Nat /\ head <= w /\ w < head + OneLap
      BY <2>1, RingFacts
    <2>3. slot[Index(w)] # NoMsg
      <3>1. \/ Stamp(w) = w /\ ~ Full(w)
            \/ Stamp(w) = w + 1 /\ Full(w)
        BY <2>1 DEF IInv, RingInv
      <3>2. w + 1 # w
        BY <2>2
      <3> QED
        BY <1>4, <3>1, <3>2 DEF Full
    <2>4. ASSUME NEW x \in Passed(w) PROVE slot[Index(x)] # slot[Index(w)]
      <3>1. x \in Window /\ x < w
        BY <2>4 DEF Passed
      <3>2. x \in Positions /\ x \in Nat /\ head <= x /\ Index(x) \in 0..Cap - 1
        BY <3>1, RingFacts
      <3>3. x # w /\ x < w + OneLap /\ w < x + OneLap
        BY <2>2, <3>1, <3>2, RingNumbers
      <3>4. Index(x) # Index(w)
        BY <2>2, <3>2, <3>3, SlotsDiffer
      <3> QED
        BY <2>1, <2>3, <3>2, <3>4 DEF IInv, MessagesInv
    <2>5. dropped = {slot[Index(x)] : x \in Passed(w)}
      BY <1>4 DEF IInv, DropInv
    <2> QED
      BY <2>3, <2>4, <2>5
  <1> QED
    BY <1>1, <1>2, <1>3, <1>4, Zenon DEF SlotExclusive, Full, Stamp

\* The lists of the wakers as the invariant has them.
LEMMA InvRegistered == IInv => RegisteredWhileWaiting
  <1> SUFFICES ASSUME IInv, Consistent, NEW t \in Threads, NEW at, NEW d, d = Side(t),
                      at = {i \in DOMAIN queue[d] : queue[d][i] = t}
               PROVE  IF Registered(t) THEN \E i \in at : at = {i} ELSE at = {}
    BY Zenon DEF RegisteredWhileWaiting, Consistent
  <1>1. d \in Sides /\ t \in Of(d)
    BY SideOf
  <1>2. Lists(queue[d], OnList(d))
    BY <1>1 DEF IInv, QueueInv
  <1>3. CASE Registered(t)
    <2>1. PICK i \in DOMAIN queue[d] : queue[d][i] = t
      BY <1>1, <1>2, <1>3 DEF Lists, OnList
    <2>2. \A j \in DOMAIN queue[d] : queue[d][j] = t => j = i
      BY <1>2, <2>1 DEF Lists
    <2>3. i \in at /\ at = {i}
      BY <2>1, <2>2
    <2> QED
      BY <1>3, <2>3
  <1>4. CASE ~ Registered(t)
    BY <1>2, <1>4 DEF Lists, OnList
  <1> QED
    BY <1>3, <1>4

\* The end of the channel as the invariant has it.
LEMMA InvFreed == IInv => FreedAtTheEnd
  <1> SUFFICES ASSUME IInv, Consistent PROVE FreedAtTheEnd
    BY DEF Consistent
  <1>1. (\A t \in Threads : pc[t] = "done") <=> \A d \in Sides : AllDone(d)
    BY DEF AllDone, Of, Threads, Sides
  <1>2. freed <=> \A t \in Threads : pc[t] = "done"
    BY <1>1 DEF IInv, CounterInv
  <1>3. ASSUME \A t \in Threads : pc[t] = "done"
        PROVE  queue = [d \in Sides |-> << >>] /\ isEmpty = [d \in Sides |-> TRUE]
    <2>1. queue \in [Sides -> Seq(Threads)] /\ isEmpty \in [Sides -> BOOLEAN]
      BY DEF IInv, TypeOK
    <2>2. ASSUME NEW d \in Sides PROVE queue[d] = << >>
      <3>1. OnList(d) = {}
        BY <1>3 DEF OnList, Of, Threads, Registered
      <3>2. DOMAIN queue[d] = {}
        BY <3>1 DEF IInv, QueueInv, Lists
      <3>3. queue[d] \in Seq(Threads) /\ Len(queue[d]) \in Nat /\ DOMAIN queue[d] = 1..Len(queue[d])
        BY <2>1
      <3>4. Len(queue[d]) = 0
        <4>1. 1 \notin 1..Len(queue[d])
          BY <3>2, <3>3, Zenon
        <4> QED
          BY <3>3, <4>1
      <3> QED
        BY <3>3, <3>4, NoEntries
    <2>3. \A d \in Sides : isEmpty[d] = TRUE
      BY <2>1, <2>2 DEF IInv, QueueInv
    <2> QED
      BY <2>1, <2>2, <2>3
  <1>4. ASSUME \A t \in Threads : pc[t] = "done", NEW i \in 0..Cap - 1
        PROVE  slot[i] \in dropped \cup {NoMsg}
    <2>1. PICK x \in Positions : head <= x /\ x < head + OneLap /\ Index(x) = i
      BY SlotInLap, RingNumbers
    <2>2. x \in Window /\ x \in Nat
      BY <2>1, RingFacts
    <2>3. AllDone("recv")
      BY <1>4 DEF AllDone, Of, Threads
    <2>4. CASE x < tail
      <3>1. x \in Passed(tail)
        BY <2>2, <2>4 DEF Passed
      <3> QED
        BY <2>1, <2>3, <3>1 DEF IInv, DropInv
    <2>5. CASE x >= tail
      <3>1. ~ Full(x)
        BY <1>4, <2>2, <2>5 DEF IInv, RingInv, Threads
      <3> QED
        BY <2>1, <3>1 DEF Full
    <2> QED
      BY <2>2, <2>4, <2>5, RingNumbers
  <1> QED
    BY <1>2, <1>3, <1>4 DEF FreedAtTheEnd
=============================================================================
