-------------------------- MODULE ArrayChannelRing --------------------------
(***************************************************************************)
(* The inductive invariant of ArrayChannel, for any number of senders and  *)
(* receivers and any capacity, and the part of it about the ring: the      *)
(* positions, stamps and slots.                                            *)
(***************************************************************************)
EXTENDS ArrayChannel, TLAPS

\* The numbers that head and tail go through, and those of one lap from the head:
\* each slot has one of them.
Positions == {x \in Nat : x % OneLap < Cap}
Window    == {x \in head..head + OneLap - 1 : x \in Positions}
Full(x)  == slot[Index(x)] # NoMsg
Stamp(x) == stamp[Index(x)]

\* The labels of a thread that has dropped its handle.
Gone == {"mark", "disconnect", "discard", "destroy", "done"}

\* Those at which a sender is sure to have a message to send.
Calling == {"load", "stamp", "cas", "check", "access", "register", "recheck", "recheck2",
            "is_disconnected", "abort", "wait", "park", "unregister"}
Of(d) == IF d = "send" THEN Senders ELSE Receivers

\* The ring.  A position between head and tail is reserved, with an empty slot, or
\* written; one behind the tail is free, or being read by the receiver that took it
\* one lap before.
RingInv ==
    /\ head \in Positions /\ tail \in Positions /\ head <= tail /\ tail <= head + OneLap
    /\ \A x \in Window :
          /\ x < tail => \/ Stamp(x) = x /\ ~ Full(x)
                         \/ Stamp(x) = x + 1 /\ Full(x)
          /\ x >= tail =>
                \/ Stamp(x) = x /\ ~ Full(x)
                \/ /\ Stamp(x) = x - OneLap + 1 /\ Full(x)
                   /\ \E r \in Receivers : pc[r] = "access" /\ pos[r] = x - OneLap

\* Who works on a slot has its position to itself.
AccessInv ==
    /\ \A s \in Senders : pc[s] = "access" =>
          pos[s] \in Window /\ pos[s] < tail /\ Stamp(pos[s]) = pos[s]
    /\ \A r \in Receivers : pc[r] = "access" =>
          /\ pos[r] \in Positions /\ pos[r] < head /\ tail <= pos[r] + OneLap
          /\ Stamp(pos[r]) = pos[r] + 1
    /\ \A t, u \in Threads :
          t # u /\ Side(t) = Side(u) /\ pc[t] = "access" /\ pc[u] = "access" => pos[t] # pos[u]

\* A position that was loaded is behind or up to date, and what its stamp said is
\* still so while it is up to date.
LoadedInv ==
    /\ \A s \in Senders : pc[s] \in {"stamp", "cas", "check", "recheck2"} =>
          pos[s] \in Positions /\ pos[s] <= tail
    /\ \A s \in Senders : pc[s] = "cas" /\ pos[s] = tail => Stamp(tail) = tail
    /\ \A r \in Receivers : pc[r] \in {"stamp", "cas", "check", "recheck2"} =>
          pos[r] \in Positions /\ pos[r] <= head
    /\ \A r \in Receivers : pc[r] = "cas" /\ pos[r] = head => Stamp(head) = head + 1

\* No message is in two slots, or in one before it was sent.
MessagesInv ==
    /\ \A s \in Senders : next[s] \in 1..MaxSends + 1
    /\ \A s \in Senders : pc[s] \in Calling => next[s] <= MaxSends
    /\ \A i \in 0..Cap - 1 : slot[i] # NoMsg => slot[i][2] < next[slot[i][1]]
    /\ \A i, j \in 0..Cap - 1 : i # j /\ slot[i] # NoMsg => slot[i] # slot[j]

\* The wakers: a list has one entry for each thread of its side that waits.
OnList(d) == {t \in Of(d) : Registered(t)}
Lists(q, S) ==
    /\ \A i \in DOMAIN q : q[i] \in S
    /\ \A t \in S : \E i \in DOMAIN q : q[i] = t
    /\ \A i, j \in DOMAIN q : i # j => q[i] # q[j]
QueueInv ==
    /\ \A d \in Sides : Lists(queue[d], OnList(d))
    /\ \A d \in Sides : isEmpty[d] <=> queue[d] = << >>
    /\ \A t \in Threads : pc[t] = "unregister" => select[t] \in {"aborted", "disconnected"}

\* The counter: it counts the handles, who dropped the last one of a side is alone
\* there, and the flags say which sides are done.
Held(d)    == {t \in Of(d) : pc[t] \notin Gone}
AllDone(d) == \A t \in Of(d) : pc[t] = "done"
CounterInv ==
    /\ \A d \in Sides : Numbered(refs[d], Held(d))
    /\ \A t, u \in Threads :
          t # u /\ Side(t) = Side(u) /\ pc[t] \in Gone \ {"done"} => pc[u] = "done"
    /\ destroy <=> \E d \in Sides : AllDone(d)
    /\ freed <=> \A d \in Sides : AllDone(d)

\* What the last receiver has dropped, and that it has dropped everything.
Passed(p) == {x \in Window : x < p}
DropInv ==
    /\ dropped # {} => \A r \in Receivers : pc[r] \in {"discard", "destroy", "done"}
    /\ \A s \in Senders : pc[s] # "discard"
    /\ \A t \in Threads : pc[t] \in {"disconnect", "discard", "destroy"} => marked
    /\ AllDone("recv") => marked
    /\ \A r \in Receivers : pc[r] = "discard" =>
          /\ pos[r] \in Positions /\ head <= pos[r] /\ pos[r] <= tail
          /\ dropped = {slot[Index(x)] : x \in Passed(pos[r])}
          /\ \A x \in Passed(pos[r]) : Stamp(x) = x + 1
    /\ (AllDone("recv") \/ \E r \in Receivers : pc[r] = "destroy") =>
          \A x \in Passed(tail) : slot[Index(x)] \in dropped /\ Stamp(x) = x + 1

\* The wake-ups of side d.  A waiter has found the channel full or empty and not
\* been woken; what it waits for is a free position or a message.  A helper is a
\* thread of the side that will look for one of these again, or a thread of the
\* other side that has made one and not yet notified.
Waiting(t) == pc[t] \in {"is_disconnected", "wait", "park"} /\ select[t] = "waiting"
Active(t)  == \/ pc[t] \in {"load", "stamp", "cas", "check", "unregister"}
              \/ /\ pc[t] \in {"recheck", "recheck2", "is_disconnected", "abort", "wait", "park"}
                 /\ select[t] # "waiting"
Notifying(t) == pc[t] \in {"access", "notify", "notify_lock"}
Helpers(d) == {t \in Threads : IF t \in Of(d) THEN Active(t) ELSE Notifying(t)}
Wanted(d)  == {x \in Window : IF d = "send" THEN tail <= x ELSE x < tail}

\* While somebody waits each thing to be had has a helper of its own; and who still
\* waits on a disconnected channel is about to be woken.
Covered(W, H) == \E f \in [W -> H] : \A x, y \in W : f[x] = f[y] => x = y
WakeInv ==
    /\ \A d \in Sides : ~ marked /\ (\E t \in Of(d) : Waiting(t)) => Covered(Wanted(d), Helpers(d))
    /\ \A t \in Threads : marked /\ Waiting(t) /\ pc[t] # "is_disconnected" =>
          \E u \in Threads : Side(u) = Other(t) /\ pc[u] = "disconnect"
    /\ \A t \in Threads : pc[t] = "park" /\ select[t] # "waiting" => permit[t]

\* The inductive invariant.
IInv == /\ TypeOK /\ RingInv /\ AccessInv /\ LoadedInv /\ MessagesInv
        /\ QueueInv /\ CounterInv /\ DropInv /\ WakeInv

\* A name for the invariant that the lemmas assume: it stays folded in their
\* statements, whichever conjuncts a proof unfolds.
Consistent == IInv

\* One step of one thread.
Step(t) == Begin(t) \/ DropHandle(t) \/ Progress(t)

\* What a call changes where it returns.
CallTypes ==
    /\ pc \in [Threads -> Labels]
    /\ mode \in [Threads -> {"try", "block", "timed", "expired"}]
    /\ pos \in [Threads -> Nat]
    /\ result \in [Threads -> [kind : Kinds, msg : Messages \cup {NoMsg}]]

\* A step that leaves the slots, the head and the tail alone: only thread t moves,
\* it does not access a slot before or after, and a position it holds is one that it
\* has read.
Limit(t) == IF t \in Senders THEN tail ELSE head
Local(t) ==
    /\ UNCHANGED <<head, tail, stamp, slot, next>>
    /\ \A u \in Threads : u # t => pc'[u] = pc[u] /\ pos'[u] = pos[u]
    /\ pc[t] # "access" /\ pc'[t] # "access"
    /\ pc'[t] \in {"stamp", "cas", "check", "recheck2"} => pos'[t] \in Positions /\ pos'[t] <= Limit(t)
    /\ pc'[t] = "cas" /\ pos'[t] = Limit(t) =>
          Stamp(Limit(t)) = IF t \in Senders THEN tail ELSE head + 1
    /\ t \in Senders /\ pc'[t] \in Calling => next[t] <= MaxSends

\* A step within a call, of a thread that holds its handle before and after.
CallStep(t) == \/ Begin(t) \/ BlockStep(t)
               \/ t \in Senders /\ SendStep(t)
               \/ t \in Receivers /\ RecvStep(t)

-----------------------------------------------------------------------------
(***************************************************************************)
(* The arithmetic of positions.                                            *)
(***************************************************************************)
\* The remainder is determined by the quotient: what `tail & (mark_bit - 1)` keeps.
LEMMA ModUnique ==
    ASSUME NEW m \in Nat \ {0}, NEW q \in Int, NEW r \in 0..m - 1
    PROVE  (q * m + r) % m = r
  <1> DEFINE a == q * m + r
             k == a \div m
  <1>1. a \in Int /\ k \in Int
    OBVIOUS
  <1>2. a = k * m + (a % m) /\ a % m \in 0..m - 1
    BY <1>1
  <1>3. (k - q) * m = r - (a % m)
    BY <1>1, <1>2
  <1> QED
    BY <1>1, <1>2, <1>3

\* Division with remainder.
LEMMA DivMod ==
    ASSUME NEW m \in Nat \ {0}, NEW x \in Nat
    PROVE  x \div m \in Nat /\ x % m \in 0..m - 1 /\ x = (x \div m) * m + (x % m)
  OBVIOUS

\* One lap more is OneLap more: used where two positions are a lap apart.
LEMMA MulMono ==
    ASSUME NEW m \in Nat, NEW a \in Int, NEW b \in Int, a < b
    PROVE  a * m + m <= b * m
  OBVIOUS

\* with_capacity: the bits of the index are enough for the capacity.
LEMMA Widths ==
    /\ Cap \in Nat \ {0} /\ MarkBit \in Nat \ {0} /\ OneLap \in Nat \ {0}
    /\ OneLap = 2 * MarkBit /\ MarkBit > Cap /\ OneLap > Cap + 1
  BY ArrayChannelAssumption, MarkBitAssumption DEF OneLap

\* A position is a lap and an index.
LEMMA PositionParts ==
    ASSUME NEW x \in Positions
    PROVE  \E n \in Nat, i \in 0..Cap - 1 :
              x = n * OneLap + i /\ Index(x) = i /\ Lap(x) = n * OneLap
  <1> DEFINE n == x \div OneLap
             i == x % OneLap
  <1>1. x \in Nat /\ n \in Nat /\ i \in 0..Cap - 1 /\ x = n * OneLap + i
    <2>1. x \in Nat /\ x % OneLap < Cap
      BY DEF Positions
    <2>2. n \in Nat /\ i \in 0..OneLap - 1 /\ x = n * OneLap + i
      BY <2>1, DivMod, Widths, Zenon
    <2> QED
      BY <2>1, <2>2, Widths
  <1>a. Lap(x) = x - i
    BY DEF Lap
  <1> HIDE DEF n, i
  <1>2. x = (2 * n) * MarkBit + i
    BY <1>1, Widths
  <1>3. x % MarkBit = i
    <2> DEFINE q == 2 * n
    <2>1. i \in 0..MarkBit - 1 /\ q \in Int
      BY <1>1, Widths
    <2>2. x = q * MarkBit + i
      BY <1>2
    <2> HIDE DEF q
    <2>3. (q * MarkBit + i) % MarkBit = i
      BY <2>1, ModUnique, Widths
    <2> QED
      BY <2>2, <2>3
  <1>4. Lap(x) = n * OneLap
    <2>1. n * OneLap \in Int
      BY <1>1, Widths
    <2> HIDE DEF Lap
    <2> QED
      BY <1>1, <1>a, <2>1
  <1> QED
    BY <1>1, <1>3, <1>4 DEF Index

\* And every lap and index are a position.
LEMMA PositionOf ==
    ASSUME NEW n \in Nat, NEW i \in 0..Cap - 1
    PROVE  /\ n * OneLap + i \in Positions
           /\ Index(n * OneLap + i) = i
           /\ Lap(n * OneLap + i) = n * OneLap
  <1> DEFINE x == n * OneLap + i
  <1>1. x \in Nat
    BY Widths
  <1>2. x % OneLap = i
    <2>1. i \in 0..OneLap - 1 /\ n \in Int
      BY Widths
    <2> QED
      BY <2>1, ModUnique, Widths
  <1>3. x = (2 * n) * MarkBit + i
    BY Widths
  <1>4. x % MarkBit = i
    <2> DEFINE q == 2 * n
    <2>1. i \in 0..MarkBit - 1 /\ q \in Int
      BY Widths
    <2>2. x = q * MarkBit + i
      BY <1>3
    <2> HIDE DEF q, x
    <2>3. (q * MarkBit + i) % MarkBit = i
      BY <2>1, ModUnique, Widths
    <2> QED
      BY <2>2, <2>3
  <1>5. x - i = n * OneLap
    BY Widths
  <1> HIDE DEF x
  <1>6. x \in Positions /\ Index(x) = i /\ Lap(x) = n * OneLap
    BY <1>1, <1>2, <1>4, <1>5, Widths DEF Positions, Index, Lap
  <1> QED
    BY <1>6 DEF x

\* The step of the tail in start_send and of the head in start_recv.
LEMMA SuccPosition ==
    ASSUME NEW x \in Positions
    PROVE  /\ x \in Nat /\ Index(x) \in 0..Cap - 1
           /\ Succ(x) \in Positions /\ Succ(x) \in Nat
           /\ x < Succ(x) /\ Succ(x) <= x + OneLap
  <1>1. PICK n \in Nat, i \in 0..Cap - 1 :
           x = n * OneLap + i /\ Index(x) = i /\ Lap(x) = n * OneLap
    BY PositionParts
  <1>2. CASE i + 1 < Cap
    <2>1. Succ(x) = n * OneLap + (i + 1) /\ n * OneLap \in Nat
      BY <1>1, <1>2, Widths DEF Succ
    <2>2. i + 1 \in 0..Cap - 1
      BY <1>1, <1>2, Widths
    <2>3. Succ(x) \in Positions
      BY <2>1, <2>2, PositionOf
    <2> QED
      BY <1>1, <1>2, <2>1, <2>3, Widths DEF Positions
  <1>3. CASE ~ (i + 1 < Cap)
    <2>1. /\ Succ(x) = n * OneLap + OneLap /\ n * OneLap \in Nat
          /\ (n + 1) * OneLap + 0 = n * OneLap + OneLap
      BY <1>1, <1>3, Widths DEF Succ
    <2>2. Succ(x) \in Positions
      <3>1. n + 1 \in Nat /\ 0 \in 0..Cap - 1
        BY Widths
      <3>2. (n + 1) * OneLap + 0 \in Positions
        BY <3>1, PositionOf
      <3> QED
        BY <2>1, <3>2
    <2> QED
      BY <1>1, <1>3, <2>1, <2>2, Widths DEF Positions
  <1> QED
    BY <1>2, <1>3

\* The same slot one lap later.
LEMMA NextLap ==
    ASSUME NEW x \in Positions
    PROVE  /\ x + OneLap \in Positions /\ Index(x + OneLap) = Index(x)
           /\ Succ(x + OneLap) = Succ(x) + OneLap
  <1>1. PICK n \in Nat, i \in 0..Cap - 1 :
           x = n * OneLap + i /\ Index(x) = i /\ Lap(x) = n * OneLap
    BY PositionParts
  <1>2. x + OneLap = (n + 1) * OneLap + i
    BY <1>1, Widths
  <1>3. /\ x + OneLap \in Positions /\ Index(x + OneLap) = i
        /\ Lap(x + OneLap) = (n + 1) * OneLap
    BY <1>1, <1>2, PositionOf
  <1>4. (n + 1) * OneLap = n * OneLap + OneLap /\ n * OneLap \in Nat
    BY Widths
  <1> QED
    BY <1>1, <1>3, <1>4, Widths DEF Succ, Positions

\* Two positions of one slot are at least a lap apart.
LEMMA SameSlot ==
    ASSUME NEW x \in Positions, NEW y \in Positions, Index(x) = Index(y), x < y
    PROVE  x + OneLap <= y
  <1>1. PICK n \in Nat, i \in 0..Cap - 1 : x = n * OneLap + i /\ Index(x) = i
    BY PositionParts
  <1>2. PICK k \in Nat, j \in 0..Cap - 1 : y = k * OneLap + j /\ Index(y) = j
    BY PositionParts
  <1>3. i = j
    BY <1>1, <1>2
  <1>4. n < k
    <2>1. SUFFICES ASSUME ~ (n < k) PROVE FALSE
      OBVIOUS
    <2>2. k = n \/ k < n
      BY <2>1
    <2>3. k * OneLap <= n * OneLap
      BY <2>2, MulMono, Widths
    <2> QED
      BY <1>1, <1>2, <1>3, <2>3, Widths
  <1>5. n * OneLap + OneLap <= k * OneLap
    BY <1>4, MulMono, Widths
  <1> QED
    BY <1>1, <1>2, <1>3, <1>5, Widths

\* Nothing lies between a position and the next.
LEMMA NextPosition ==
    ASSUME NEW x \in Positions, NEW y \in Positions, x < y
    PROVE  Succ(x) <= y
  <1>1. PICK n \in Nat, i \in 0..Cap - 1 :
           x = n * OneLap + i /\ Index(x) = i /\ Lap(x) = n * OneLap
    BY PositionParts
  <1>2. PICK k \in Nat, j \in 0..Cap - 1 : y = k * OneLap + j
    BY PositionParts
  <1>3. n * OneLap \in Nat /\ k * OneLap \in Nat
    BY Widths
  <1>4. CASE n = k
    BY <1>1, <1>2, <1>3, <1>4, Widths DEF Succ
  <1>5. CASE n < k
    <2>1. n * OneLap + OneLap <= k * OneLap
      BY <1>5, MulMono, Widths
    <2> QED
      BY <1>1, <1>2, <1>3, <2>1, Widths DEF Succ
  <1>6. CASE k < n
    <2>1. k * OneLap + OneLap <= n * OneLap
      BY <1>6, MulMono, Widths
    <2> QED
      BY <1>1, <1>2, <1>3, <2>1, Widths
  <1> QED
    BY <1>4, <1>5, <1>6

\* Each slot has a position within the lap that starts at h.
LEMMA SlotInLap ==
    ASSUME NEW h \in Positions, NEW i \in 0..Cap - 1
    PROVE  \E x \in Positions : h <= x /\ x < h + OneLap /\ Index(x) = i
  <1>1. PICK n \in Nat, j \in 0..Cap - 1 : h = n * OneLap + j
    BY PositionParts
  <1>2. n * OneLap \in Nat /\ (n + 1) * OneLap = n * OneLap + OneLap
    BY Widths
  <1>3. CASE j <= i
    <2>1. n * OneLap + i \in Positions /\ Index(n * OneLap + i) = i
      BY PositionOf
    <2> QED
      BY <1>1, <1>2, <1>3, <2>1, Widths
  <1>4. CASE i < j
    <2>1. (n + 1) * OneLap + i \in Positions /\ Index((n + 1) * OneLap + i) = i
      BY PositionOf
    <2> QED
      BY <1>1, <1>2, <1>4, <2>1, Widths
  <1> QED
    BY <1>3, <1>4, Widths

\* The positions of the first lap are the indices.
LEMMA FirstLap ==
    ASSUME NEW x \in Positions, x < OneLap
    PROVE  x \in 0..Cap - 1 /\ Index(x) = x
  <1>1. x \in Nat /\ x % OneLap < Cap
    BY DEF Positions
  <1>2. PICK n \in Nat, i \in 0..Cap - 1 : x = n * OneLap + i /\ Index(x) = i
    BY PositionParts
  <1>3. n = 0
    <2>1. SUFFICES ASSUME 0 < n PROVE FALSE
      BY <1>2
    <2>2. 0 * OneLap + OneLap <= n * OneLap
      BY <2>1, MulMono, Widths
    <2>3. n * OneLap \in Nat /\ 0 * OneLap = 0
      BY Widths
    <2> QED
      BY <1>1, <1>2, <2>2, <2>3, Widths
  <1>4. 0 * OneLap = 0
    BY Widths
  <1> QED
    BY <1>2, <1>3, <1>4

\* Positions less than a lap apart have slots of their own.
LEMMA SlotsDiffer ==
    ASSUME NEW x \in Positions, NEW y \in Positions, x # y, x < y + OneLap, y < x + OneLap
    PROVE  Index(x) # Index(y)
  <1>1. x \in Nat /\ y \in Nat /\ OneLap \in Nat
    BY SuccPosition, Widths
  <1> QED
    BY <1>1, SameSlot

-----------------------------------------------------------------------------
(***************************************************************************)
(* The ring.                                                               *)
(***************************************************************************)
\* A thread is of one side.
LEMMA SideOf ==
    ASSUME NEW t \in Threads
    PROVE  /\ Side(t) \in Sides /\ Other(t) \in Sides /\ Side(t) # Other(t)
           /\ Sides = {Side(t), Other(t)}
           /\ \A u \in Threads : u \in Of(Side(t)) <=> Side(u) = Side(t)
           /\ \A u \in Threads : u \in Of(Other(t)) <=> Side(u) = Other(t)
           /\ t \notin Senders => t \in Receivers
           /\ t \in Receivers => t \notin Senders
  <1>1. Senders \cap Receivers = {} /\ Threads = Senders \cup Receivers
    BY ArrayChannelAssumption DEF Threads
  <1>2. \A u \in Threads : /\ u \in Of("send") <=> Side(u) = "send"
                           /\ u \in Of("recv") <=> Side(u) = "recv"
    BY <1>1 DEF Side, Of
  <1>3. /\ t \notin Senders => t \in Receivers
        /\ t \in Receivers => t \notin Senders
    BY <1>1
  <1>4. CASE t \in Senders
    <2>1. Side(t) = "send" /\ Other(t) = "recv"
      BY <1>4 DEF Side, Other
    <2> QED
      BY <1>2, <1>3, <2>1 DEF Sides
  <1>5. CASE t \notin Senders
    <2>1. Side(t) = "recv" /\ Other(t) = "send"
      BY <1>5 DEF Side, Other
    <2> QED
      BY <1>2, <1>3, <2>1 DEF Sides
  <1> QED
    BY <1>4, <1>5

\* Messages that a sender makes.
LEMMA MsgType ==
    ASSUME TypeOK, MessagesInv, NEW s \in Senders, pc[s] \in Calling
    PROVE  Msg(s) \in Messages /\ next[s] + 1 \in Nat
  BY DEF TypeOK, MessagesInv, Msg, Messages, Threads

\* The head and the tail as numbers.
LEMMA RingNumbers ==
    ASSUME Consistent
    PROVE  /\ head \in Positions /\ tail \in Positions /\ head \in Nat /\ tail \in Nat
           /\ head <= tail /\ tail <= head + OneLap
           /\ OneLap \in Nat /\ OneLap > 1
           /\ head + OneLap \in Positions
  <1> IInv
    BY DEF Consistent
  <1> QED
    BY Widths, NextLap, SMTT(30) DEF IInv, RingInv, Positions

\* Membership in the window, and the facts about head and tail that every case uses.
LEMMA RingFacts ==
    ASSUME Consistent
    PROVE  /\ head \in Positions /\ tail \in Positions /\ head \in Nat /\ tail \in Nat
           /\ head <= tail /\ tail <= head + OneLap
           /\ OneLap \in Nat /\ OneLap > 1
           /\ Positions \subseteq Nat
           /\ \A x \in Positions : x \in Window <=> head <= x /\ x < head + OneLap
           /\ \A x \in Window : x \in Positions
           /\ \A x \in Positions : Index(x) \in 0..Cap - 1 /\ Stamp(x) \in Nat
           /\ pc \in [Threads -> Labels] /\ pos \in [Threads -> Nat]
           /\ stamp \in [0..Cap - 1 -> Nat]
           /\ slot \in [0..Cap - 1 -> Messages \cup {NoMsg}]
  <1> IInv
    BY DEF Consistent
  <1>1. head \in Positions /\ tail \in Positions /\ head <= tail /\ tail <= head + OneLap
    BY DEF IInv, RingInv
  <1>2. Positions \subseteq Nat
    BY DEF Positions
  <1>3. OneLap \in Nat /\ OneLap > 1
    BY Widths
  <1>4. \A x \in Positions : Index(x) \in 0..Cap - 1
    BY SuccPosition
  <1>5. /\ pc \in [Threads -> Labels] /\ pos \in [Threads -> Nat]
        /\ stamp \in [0..Cap - 1 -> Nat]
        /\ slot \in [0..Cap - 1 -> Messages \cup {NoMsg}]
    BY DEF IInv, TypeOK
  <1>6. \A x \in Positions : Stamp(x) \in Nat
    BY <1>4, <1>5 DEF Stamp
  <1>7. \A x \in Positions : x \in Window <=> head <= x /\ x < head + OneLap
    BY <1>1, <1>2, <1>3 DEF Window
  <1>8. \A x \in Window : x \in Positions
    BY DEF Window
  <1> QED
    BY <1>1, <1>2, <1>3, <1>4, <1>5, <1>6, <1>7, <1>8

\* A position where the tail may move has a free slot.
LEMMA SendCasFacts ==
    ASSUME Consistent, NEW s \in Senders, SendCas(s)
    PROVE  /\ tail \in Window /\ Stamp(tail) = tail /\ ~ Full(tail)
           /\ Succ(tail) \in Positions /\ tail < Succ(tail) /\ Succ(tail) <= head + OneLap
  <1> IInv
    BY DEF Consistent
  <1>1. Stamp(tail) = tail /\ pos[s] = tail
    BY DEF IInv, LoadedInv, SendCas
  <1>2. tail # head + OneLap
    <2>1. SUFFICES ASSUME tail = head + OneLap PROVE FALSE
      OBVIOUS
    <2>2. Stamp(tail) = Stamp(head)
      BY <2>1, NextLap, RingFacts DEF Stamp
    <2>3. head \in Window /\ head < tail
      BY <2>1, RingFacts
    <2>4. Stamp(head) = head \/ Stamp(head) = head + 1
      BY <2>3 DEF IInv, RingInv
    <2> QED
      BY <1>1, <2>1, <2>2, <2>4, RingFacts
  <1>3. tail \in Window
    <2>1. tail < head + OneLap
      BY <1>2, RingNumbers
    <2> QED
      BY <2>1, RingFacts
  <1>4. ~ Full(tail)
    BY <1>1, <1>3, RingFacts DEF IInv, RingInv
  <1>5. head + OneLap \in Positions
    BY NextLap, RingFacts
  <1>6. Succ(tail) <= head + OneLap
    BY <1>2, <1>5, NextPosition, RingFacts
  <1> QED
    BY <1>1, <1>3, <1>4, <1>6, SuccPosition, RingFacts

\* A position where the head may move has a message.
LEMMA RecvCasFacts ==
    ASSUME Consistent, NEW r \in Receivers, RecvCas(r)
    PROVE  /\ head < tail /\ head \in Window /\ Stamp(head) = head + 1 /\ Full(head)
           /\ Succ(head) \in Positions /\ head < Succ(head) /\ Succ(head) <= tail
           /\ Succ(head) <= head + OneLap
           /\ \A x \in Positions : Succ(head) <= x /\ x < Succ(head) + OneLap =>
                 x \in Window \/ x = head + OneLap
  <1> IInv
    BY DEF Consistent
  <1>1. Stamp(head) = head + 1 /\ pos[r] = head
    BY DEF IInv, LoadedInv, RecvCas
  <1>2. head \in Window
    BY RingNumbers DEF Window
  <1>3. head < tail /\ Full(head)
    BY <1>1, <1>2, RingFacts DEF IInv, RingInv
  <1>4. /\ Succ(head) \in Positions /\ head < Succ(head) /\ Succ(head) <= head + OneLap
        /\ Succ(head) \in Nat
    BY SuccPosition, RingFacts
  <1>5. Succ(head) <= tail
    BY <1>3, NextPosition, RingFacts
  <1>6. ASSUME NEW x \in Positions, Succ(head) <= x, x < Succ(head) + OneLap
        PROVE  x \in Window \/ x = head + OneLap
    <2>1. head + OneLap \in Positions /\ Succ(head + OneLap) = Succ(head) + OneLap
      BY NextLap, RingFacts
    <2>3. x \in Nat /\ head \in Nat /\ OneLap \in Nat /\ Succ(head) \in Nat
      BY <1>4, RingFacts
    <2>2. x <= head + OneLap
      <3>1. SUFFICES ASSUME head + OneLap < x PROVE FALSE
        BY <2>3
      <3>2. Succ(head + OneLap) <= x
        BY <2>1, <3>1, NextPosition
      <3> QED
        BY <1>6, <2>3, <2>1, <3>2
    <2>4. head <= x
      BY <1>4, <1>6, <2>3
    <2>5. CASE x < head + OneLap
      BY <2>4, <2>5, RingFacts
    <2> QED
      BY <2>2, <2>3, <2>5
  <1> QED
    BY <1>1, <1>2, <1>3, <1>4, <1>5, <1>6

\* A call that returns or goes on to block is such a step.
LEMMA ReturnLocal ==
    ASSUME Consistent, NEW t \in Threads, NEW k, Return(t, k, NoMsg) \/ NotReady(t, k),
           UNCHANGED <<ring, next>>, pc[t] \in Calling \ {"access"}
    PROVE  Local(t)
  <1> IInv
    BY DEF Consistent
  <1>1. pc \in [Threads -> Labels] /\ pos \in [Threads -> Nat]
    BY DEF IInv, TypeOK
  <1>2. t \in Senders => next[t] <= MaxSends
    BY DEF IInv, MessagesInv
  <1>3. pc' = [pc EXCEPT ![t] = "idle"] \/ pc' = [pc EXCEPT ![t] = "register"]
    BY DEF Return, NotReady, Goto
  <1>4. pos' = [pos EXCEPT ![t] = 0]
    BY DEF Return, NotReady
  <1> QED
    BY <1>1, <1>2, <1>3, <1>4 DEF Local, ring

\* So is a step of t that starts or goes on holding no position.
LEMMA MoveLocal ==
    ASSUME Consistent, NEW t \in Threads, NEW l \in Labels, Goto(t, l), UNCHANGED <<head, tail, stamp, slot, next>>,
           \A u \in Threads : u # t => pos'[u] = pos[u],
           pc[t] # "access", l \notin {"access", "stamp", "cas", "check", "recheck2"},
           l \in Calling /\ pc[t] \notin Calling /\ t \in Senders => next[t] <= MaxSends
    PROVE  Local(t)
  <1> IInv
    BY DEF Consistent
  <1>1. pc \in [Threads -> Labels]
    BY DEF IInv, TypeOK
  <1>2. t \in Senders /\ pc[t] \in Calling => next[t] <= MaxSends
    BY DEF IInv, MessagesInv
  <1> QED
    BY <1>1, <1>2 DEF Local, Goto

\* And one of t that holds the tail or head it has just loaded.
LEMMA LoadLocal ==
    ASSUME Consistent, NEW t \in Threads, NEW l \in {"stamp", "recheck2"}, Goto(t, l),
           UNCHANGED <<head, tail, stamp, slot, next>>,
           pos' = [pos EXCEPT ![t] = Limit(t)], pc[t] \in Calling \ {"access"}
    PROVE  Local(t)
  <1> IInv
    BY DEF Consistent
  <1>1. pc \in [Threads -> Labels] /\ pos \in [Threads -> Nat]
    BY DEF IInv, TypeOK
  <1>2. t \in Senders /\ pc[t] \in Calling => next[t] <= MaxSends
    BY DEF IInv, MessagesInv
  <1>3. Limit(t) \in Positions /\ Limit(t) \in Nat
    BY DEF Limit, IInv, RingInv, Positions
  <1> QED
    BY <1>1, <1>2, <1>3 DEF Local, Goto

\* Every step but the four on the ring is such a step.
LEMMA LocalSteps ==
    ASSUME Consistent, NEW t \in Threads, Step(t),
           ~ (t \in Senders /\ SendCas(t)), ~ (t \in Senders /\ Write(t)),
           ~ (t \in Receivers /\ RecvCas(t)), ~ (t \in Receivers /\ Read(t))
    PROVE  Local(t)
  <1> IInv
    BY DEF Consistent
  <1> USE DEF ring, Calling, Labels
  <1>1. pc \in [Threads -> Labels] /\ pos \in [Threads -> Nat]
    BY DEF IInv, TypeOK
  <1>2. CASE Begin(t)
    BY <1>2, MoveLocal DEF Begin
  <1>3. CASE DropHandle(t)
    BY <1>3, MoveLocal DEF DropHandle
  <1>4. CASE t \in Senders /\ (LoadTail(t) \/ SendCasFails(t))
    <2>1. HoldTail(t) /\ UNCHANGED <<ring, next>> /\ pc[t] \in Calling \ {"access"}
      BY <1>4 DEF LoadTail, SendCasFails
    <2>2. CASE Return(t, "disconnected", NoMsg)
      BY <2>1, <2>2, ReturnLocal
    <2>3. CASE pos' = [pos EXCEPT ![t] = tail] /\ Goto(t, "stamp")
      BY <1>4, <2>1, <2>3, LoadLocal, Zenon DEF Limit
    <2> QED
      BY <2>1, <2>2, <2>3, Zenon DEF HoldTail
  <1>5. CASE t \in Senders /\ SendStamp(t)
    <2>1. pos[t] \in Positions /\ pos[t] <= tail /\ next[t] <= MaxSends
      BY <1>5 DEF SendStamp, IInv, LoadedInv, MessagesInv
    <2>2. /\ pc' = [pc EXCEPT ![t] = pc'[t]] /\ pos' = pos
          /\ pc'[t] \in {"cas", "check", "load"} /\ pc[t] = "stamp"
          /\ pc'[t] = "cas" => Stamp(pos[t]) = pos[t]
      BY <1>1, <1>5 DEF SendStamp, Goto, Stamp
    <2> QED
      BY <1>1, <1>5, <2>1, <2>2 DEF Local, Limit, SendStamp
  <1>6. CASE t \in Senders /\ SendCheck(t)
    <2>1. CASE NotReady(t, "full")
      BY <1>6, <2>1, ReturnLocal DEF SendCheck
    <2>2. CASE ~ NotReady(t, "full")
      BY <1>6, <2>2, MoveLocal DEF SendCheck
    <2> QED
      BY <2>1, <2>2
  <1>7. CASE t \in Receivers /\ (LoadHead(t) \/ RecvCasFails(t))
    BY <1>7, LoadLocal, SideOf DEF LoadHead, RecvCasFails, Limit
  <1>8. CASE t \in Receivers /\ RecvStamp(t)
    <2>1. pos[t] \in Positions /\ pos[t] <= head /\ t \notin Senders
      BY <1>8, SideOf DEF RecvStamp, IInv, LoadedInv
    <2>2. /\ pc' = [pc EXCEPT ![t] = pc'[t]] /\ pos' = pos
          /\ pc'[t] \in {"cas", "check", "load"} /\ pc[t] = "stamp"
          /\ pc'[t] = "cas" => Stamp(pos[t]) = pos[t] + 1
      BY <1>1, <1>8 DEF RecvStamp, Goto, Stamp
    <2> QED
      BY <1>1, <1>8, <2>1, <2>2 DEF Local, Limit, RecvStamp
  <1>9. CASE t \in Receivers /\ RecvCheck(t)
    <2>1. CASE Return(t, "disconnected", NoMsg) \/ NotReady(t, "empty")
      BY <1>9, <2>1, ReturnLocal DEF RecvCheck
    <2>2. CASE ~ (Return(t, "disconnected", NoMsg) \/ NotReady(t, "empty"))
      BY <1>9, <2>2, MoveLocal DEF RecvCheck
    <2> QED
      BY <2>1, <2>2
  <1>10. CASE Notify(t) \/ NotifyLock(t)
    <2>1. Goto(t, "idle") \/ Goto(t, "notify_lock")
      BY <1>10 DEF Notify, NotifyLock, Finish
    <2> QED
      BY <1>10, <2>1, MoveLocal DEF Notify, NotifyLock
  <1>11. CASE Register(t)
    BY <1>11, MoveLocal DEF Register
  <1>12. CASE Recheck(t)
    BY <1>12, LoadLocal, Zenon DEF Recheck, Limit
  <1>13. CASE Recheck2(t)
    BY <1>1, <1>13, MoveLocal DEF Recheck2
  <1>14. CASE IsDisconnected(t)
    BY <1>14, MoveLocal, Zenon DEF IsDisconnected
  <1>15. CASE Abort(t)
    BY <1>15, MoveLocal DEF Abort
  <1>16. CASE Wait(t)
    BY <1>16, MoveLocal DEF Wait, Woken
  <1>17. CASE Park(t)
    BY <1>17, MoveLocal DEF Park
  <1>18. CASE ParkTimeout(t)
    BY <1>18, MoveLocal DEF ParkTimeout, Woken
  <1>19. CASE Unregister(t)
    BY <1>19, MoveLocal DEF Unregister
  <1>20. CASE Mark(t)
    <2>1. \/ Goto(t, "disconnect") /\ UNCHANGED pos
          \/ AfterDisconnect(t)
      BY <1>20 DEF Mark
    <2> QED
      BY <1>1, <1>20, <2>1, MoveLocal DEF Mark, AfterDisconnect
  <1>21. CASE Disconnect(t)
    BY <1>1, <1>21, MoveLocal, Zenon DEF Disconnect, AfterDisconnect
  <1>22. CASE Discard(t)
    BY <1>1, <1>22 DEF Discard, Local
  <1>23. CASE DiscardEnd(t)
    BY <1>1, <1>23, MoveLocal DEF DiscardEnd
  <1>24. CASE Destroy(t)
    BY <1>24, MoveLocal, Zenon DEF Destroy
  <1> QED
    BY <1>2, <1>3, <1>4, <1>5, <1>6, <1>7, <1>8, <1>9, <1>10, <1>11, <1>12, <1>13, <1>14,
       <1>15, <1>16, <1>17, <1>18, <1>19, <1>20, <1>21, <1>22, <1>23, <1>24
       DEF Step, Progress, SendStep, RecvStep, BlockStep, ReleaseStep

\* A local step keeps the ring and who accesses it.
LEMMA LocalKeepsRing ==
    ASSUME Consistent, NEW t \in Threads, Local(t)
    PROVE  RingInv' /\ AccessInv' /\ LoadedInv' /\ MessagesInv'
  <1> IInv
    BY DEF Consistent
  <1>1. /\ head' = head /\ tail' = tail /\ stamp' = stamp /\ slot' = slot /\ next' = next
        /\ Window' = Window /\ \A x : Stamp(x)' = Stamp(x) /\ (Full(x)' <=> Full(x))
    BY DEF Local, Window, Stamp, Full
  <1>2. \A u \in Threads : pc'[u] = "access" => pc[u] = "access" /\ pos'[u] = pos[u] /\ u # t
    BY DEF Local
  <1>3. \A u \in Threads : pc[u] = "access" => pc'[u] = "access" /\ pos'[u] = pos[u]
    BY DEF Local
  <1>4. Senders \subseteq Threads /\ Receivers \subseteq Threads
    BY DEF Threads
  <1>5. RingInv'
    BY <1>1, <1>3, <1>4 DEF RingInv, IInv
  <1>6. AccessInv'
    BY <1>1, <1>2, <1>4 DEF AccessInv, IInv
  <1>7. LoadedInv'
    <2>1. \A u \in Threads : u # t => pc'[u] = pc[u] /\ pos'[u] = pos[u]
      BY DEF Local
    <2>2. \A s \in Senders : pc'[s] \in {"stamp", "cas", "check", "recheck2"} =>
              pos'[s] \in Positions /\ pos'[s] <= tail
      BY <1>4, <2>1 DEF LoadedInv, IInv, Local, Limit
    <2>3. \A s \in Senders : pc'[s] = "cas" /\ pos'[s] = tail => Stamp(tail) = tail
      BY <1>4, <2>1 DEF LoadedInv, IInv, Local, Limit
    <2>4. \A r \in Receivers : pc'[r] \in {"stamp", "cas", "check", "recheck2"} =>
              pos'[r] \in Positions /\ pos'[r] <= head
      BY <1>4, <2>1, SideOf DEF LoadedInv, IInv, Local, Limit
    <2>5. \A r \in Receivers : pc'[r] = "cas" /\ pos'[r] = head => Stamp(head) = head + 1
      BY <1>4, <2>1, SideOf, SMTT(30) DEF LoadedInv, IInv, Local, Limit
    <2> QED
      BY <1>1, <2>2, <2>3, <2>4, <2>5 DEF LoadedInv
  <1>8. MessagesInv'
    BY <1>1, <1>4 DEF MessagesInv, IInv, Local
  <1> QED
    BY <1>5, <1>6, <1>7, <1>8

\* The tail moves: the sender has the slot it leaves behind to itself.
LEMMA SendCasRing ==
    ASSUME Consistent, NEW s \in Senders, SendCas(s)
    PROVE  RingInv' /\ AccessInv' /\ LoadedInv' /\ MessagesInv'
  <1> IInv
    BY DEF Consistent
  <1>1. /\ head' = head /\ tail' = Succ(tail) /\ stamp' = stamp /\ slot' = slot /\ next' = next
        /\ pos' = pos /\ pos[s] = tail /\ pc[s] = "cas" /\ s \in Threads
        /\ pc'[s] = "access" /\ \A u \in Threads : u # s => pc'[u] = pc[u]
        /\ Window' = Window /\ \A x : Stamp(x)' = Stamp(x) /\ (Full(x)' <=> Full(x))
    BY RingFacts DEF SendCas, Goto, Window, Stamp, Full, Threads
  <1>2. Senders \subseteq Threads /\ Receivers \subseteq Threads /\ s \notin Receivers
    BY SideOf, <1>1 DEF Threads
  <1>3. /\ tail \in Window /\ Stamp(tail) = tail /\ ~ Full(tail)
        /\ Succ(tail) \in Positions /\ tail < Succ(tail) /\ Succ(tail) <= head + OneLap
        /\ Succ(tail) \in Nat
    BY SendCasFacts, SuccPosition, RingNumbers
  <1>4. \A x \in Positions : x < Succ(tail) => x <= tail
    <2> SUFFICES ASSUME NEW x \in Positions, x < Succ(tail), tail < x PROVE FALSE
      BY RingFacts
    <2> QED
      BY NextPosition, RingFacts, <1>3, SMTT(30)
  <1>5. RingInv'
    <2>1. ASSUME NEW x \in Window, x < Succ(tail)
          PROVE  \/ Stamp(x) = x /\ ~ Full(x)
                 \/ Stamp(x) = x + 1 /\ Full(x)
      <3>1. x = tail \/ x < tail
        BY <1>4, <2>1, RingFacts
      <3>2. CASE x = tail
        BY <1>3, <3>2
      <3>3. CASE x < tail
        BY <2>1, <3>3 DEF IInv, RingInv
      <3> QED
        BY <3>1, <3>2, <3>3
    <2>2. ASSUME NEW x \in Window, x >= Succ(tail)
          PROVE  \/ Stamp(x) = x /\ ~ Full(x)
                 \/ /\ Stamp(x) = x - OneLap + 1 /\ Full(x)
                    /\ \E r \in Receivers : pc'[r] = "access" /\ pos'[r] = x - OneLap
      <3>1. x \in Nat
        BY <2>2, RingFacts
      <3>2. x >= tail
        BY <1>3, <2>2, <3>1, RingNumbers
      <3> QED
        BY <1>1, <1>2, <2>2, <3>2 DEF IInv, RingInv
    <2>3. head' \in Positions /\ tail' \in Positions /\ head' <= tail' /\ tail' <= head' + OneLap
      BY <1>1, <1>3, RingNumbers, SMTT(30)
    <2> QED
      BY <1>1, <2>1, <2>2, <2>3 DEF RingInv
  <1>6. AccessInv'
    <2>1. ASSUME NEW u \in Senders, pc'[u] = "access"
          PROVE  pos[u] \in Window /\ pos[u] < Succ(tail) /\ Stamp(pos[u]) = pos[u]
      <3>1. CASE u = s
        BY <1>1, <1>3, <3>1
      <3>2. CASE u # s
        <4>1. pos[u] \in Window /\ pos[u] < tail /\ Stamp(pos[u]) = pos[u]
          BY <1>1, <1>2, <2>1, <3>2 DEF IInv, AccessInv
        <4>2. pos[u] \in Nat
          BY <4>1, RingFacts
        <4> QED
          BY <1>3, <4>1, <4>2, RingNumbers
      <3> QED
        BY <3>1, <3>2
    <2>2. ASSUME NEW r \in Receivers, pc'[r] = "access"
          PROVE  /\ pos[r] \in Positions /\ pos[r] < head /\ Succ(tail) <= pos[r] + OneLap
                 /\ Stamp(pos[r]) = pos[r] + 1
      <3>1. /\ pos[r] \in Positions /\ pos[r] < head /\ tail <= pos[r] + OneLap
            /\ Stamp(pos[r]) = pos[r] + 1
        BY <1>1, <1>2, <2>2 DEF IInv, AccessInv
      <3>2. pos[r] + OneLap \in Positions /\ Stamp(pos[r] + OneLap) = Stamp(pos[r])
        BY <3>1, NextLap DEF Stamp
      <3>3. pos[r] \in Nat
        BY <3>1 DEF Positions
      <3>4. tail # pos[r] + OneLap
        BY <1>3, <3>1, <3>2, <3>3, RingNumbers
      <3>5. tail < pos[r] + OneLap
        BY <3>1, <3>3, <3>4, RingNumbers
      <3>6. Succ(tail) <= pos[r] + OneLap
        BY <3>2, <3>5, NextPosition, RingNumbers
      <3> QED
        BY <3>1, <3>6
    <2>3. \A u \in Senders : u # s /\ pc'[u] = "access" => pos[u] < tail
      BY <1>1, <1>2 DEF IInv, AccessInv
    <2>4. ASSUME NEW u \in Threads, NEW v \in Threads, u # v, Side(u) = Side(v),
                 pc'[u] = "access", pc'[v] = "access"
          PROVE  pos[u] # pos[v]
      <3>1. CASE u # s /\ v # s
        BY <1>1, <2>4, <3>1 DEF IInv, AccessInv
      <3>2. CASE u = s
        BY <1>1, <1>2, <2>3, <2>4, <3>2, RingFacts, SideOf DEF Side
      <3>3. CASE v = s
        BY <1>1, <1>2, <2>3, <2>4, <3>3, RingFacts, SideOf DEF Side
      <3> QED
        BY <3>1, <3>2, <3>3
    <2> QED
      BY <1>1, <2>1, <2>2, <2>4 DEF AccessInv
  <1>7. LoadedInv'
    <2>1. \A u \in Senders : pc'[u] \in {"stamp", "cas", "check", "recheck2"} =>
             pos[u] \in Positions /\ pos[u] <= tail /\ u # s
      BY <1>1, <1>2, Zenon DEF IInv, LoadedInv
    <2>2. \A u \in Senders : pc'[u] \in {"stamp", "cas", "check", "recheck2"} =>
             pos[u] \in Positions /\ pos[u] < Succ(tail) /\ pos[u] \in Nat
      BY <1>3, <2>1, RingFacts, SMTT(30)
    <2>3. \A u \in Senders : pc'[u] \in {"stamp", "cas", "check", "recheck2"} =>
             pos[u] \in Positions /\ pos[u] <= Succ(tail) /\ pos[u] # Succ(tail)
      BY <1>3, <2>2, SMTT(30)
    <2>4. \A u \in Receivers : pc'[u] = pc[u]
      BY <1>1, <1>2
    <2>5. \A r \in Receivers : pc'[r] \in {"stamp", "cas", "check", "recheck2"} =>
             pos[r] \in Positions /\ pos[r] <= head
      BY <2>4 DEF IInv, LoadedInv
    <2>6. \A r \in Receivers : pc'[r] = "cas" /\ pos[r] = head => Stamp(head) = head + 1
      BY <2>4 DEF IInv, LoadedInv
    <2> QED
      BY <1>1, <2>3, <2>5, <2>6, Zenon DEF LoadedInv
  <1>8. MessagesInv'
    BY <1>1, <1>2 DEF IInv, MessagesInv, Calling
  <1> QED
    BY <1>5, <1>6, <1>7, <1>8

\* A message is written: the stamp says so, and no other slot is touched.
LEMMA WriteRing ==
    ASSUME Consistent, NEW s \in Senders, Write(s)
    PROVE  RingInv' /\ AccessInv' /\ LoadedInv' /\ MessagesInv'
  <1> IInv
    BY DEF Consistent
  <1> PICK w : w = pos[s]
    OBVIOUS
  <1> DEFINE NStamp(x) == stamp'[Index(x)]
             NFull(x) == slot'[Index(x)] # NoMsg
  <1>1. /\ w \in Window /\ w \in Positions /\ w \in Nat /\ w < tail /\ head <= w
        /\ w < head + OneLap /\ Stamp(w) = w /\ Index(w) \in 0..Cap - 1
    BY RingFacts DEF IInv, AccessInv, Write
  <1>2. /\ head' = head /\ tail' = tail
        /\ stamp' = [stamp EXCEPT ![Index(w)] = w + 1]
        /\ slot' = [slot EXCEPT ![Index(w)] = Msg(s)]
        /\ next' = [next EXCEPT ![s] = @ + 1]
        /\ pos' = [pos EXCEPT ![s] = 0] /\ pc[s] = "access" /\ s \in Threads
        /\ pc' = [pc EXCEPT ![s] = "notify"]
        /\ Window' = Window
    BY DEF Write, Goto, Window, Threads
  <1>3. Senders \subseteq Threads /\ Receivers \subseteq Threads /\ s \notin Receivers
    BY <1>2, SideOf DEF Threads
  <1>4. /\ Msg(s) \in Messages /\ Msg(s) # NoMsg /\ Msg(s) = <<s, next[s]>>
        /\ next[s] \in Nat /\ next[s] <= MaxSends
    <2>1. Msg(s) \in Messages /\ next[s] <= MaxSends
      BY <1>2, MsgType DEF IInv, Calling, MessagesInv
    <2>2. Msg(s) = <<s, next[s]>> /\ next[s] \in Nat
      BY <1>2 DEF Msg, IInv, TypeOK
    <2> QED
      BY <2>1, <2>2 DEF NoMsg
  <1>5. \A u \in Threads : u # s => pc'[u] = pc[u] /\ pos'[u] = pos[u]
    BY <1>2, RingFacts
  <1>6. pc'[s] = "notify" /\ pos'[s] = 0
    BY <1>2, RingFacts
  <1>7. NStamp(w) = w + 1 /\ NFull(w)
    BY <1>1, <1>2, <1>4, RingFacts
  <1>8. ASSUME NEW x \in Positions, Index(x) # Index(w)
        PROVE  NStamp(x) = Stamp(x) /\ (NFull(x) <=> Full(x))
    BY <1>1, <1>2, <1>8, RingFacts DEF Stamp, Full
  <1>9. \A x \in Window : x # w => Index(x) # Index(w)
    <2> SUFFICES ASSUME NEW x \in Window, x # w PROVE Index(x) # Index(w)
      OBVIOUS
    <2>1. x \in Positions /\ x \in Nat /\ head <= x /\ x < head + OneLap
      BY RingFacts
    <2>2. x < w + OneLap /\ w < x + OneLap
      BY <1>1, <2>1, RingNumbers
    <2> QED
      BY <1>1, <2>1, <2>2, SlotsDiffer
  <1>10. RingInv'
    <2>1. ASSUME NEW x \in Window, x < tail
          PROVE  \/ NStamp(x) = x /\ ~ NFull(x)
                 \/ NStamp(x) = x + 1 /\ NFull(x)
      <3>1. CASE x = w
        BY <1>7, <3>1
      <3>2. CASE x # w
        BY <1>8, <1>9, <2>1, <3>2, RingFacts DEF IInv, RingInv
      <3> QED
        BY <3>1, <3>2
    <2>2. ASSUME NEW x \in Window, x >= tail
          PROVE  \/ NStamp(x) = x /\ ~ NFull(x)
                 \/ /\ NStamp(x) = x - OneLap + 1 /\ NFull(x)
                    /\ \E r \in Receivers : pc'[r] = "access" /\ pos'[r] = x - OneLap
      <3>1. x # w
        BY <1>1, <2>2, RingNumbers
      <3>2. NStamp(x) = Stamp(x) /\ (NFull(x) <=> Full(x))
        BY <1>8, <1>9, <3>1, RingFacts
      <3>3. \A r \in Receivers : pc'[r] = pc[r] /\ pos'[r] = pos[r]
        BY <1>3, <1>5
      <3> QED
        BY <2>2, <3>2, <3>3 DEF IInv, RingInv
    <2> QED
      BY <1>2, <2>1, <2>2, RingNumbers DEF RingInv, Stamp, Full
  <1>11. AccessInv'
    <2>1. ASSUME NEW u \in Senders, pc'[u] = "access"
          PROVE  pos'[u] \in Window /\ pos'[u] < tail /\ NStamp(pos'[u]) = pos'[u]
      <3>1. u # s /\ pc[u] = "access" /\ pos'[u] = pos[u] /\ u \in Threads /\ Side(u) = Side(s)
        BY <1>3, <1>5, <1>6, <2>1 DEF Side
      <3>2. pos[u] \in Window /\ pos[u] < tail /\ Stamp(pos[u]) = pos[u] /\ pos[u] # w
        BY <1>2, <3>1 DEF IInv, AccessInv
      <3>3. NStamp(pos[u]) = pos[u]
        BY <1>8, <1>9, <3>2, RingFacts
      <3> QED
        BY <3>1, <3>2, <3>3
    <2>2. ASSUME NEW r \in Receivers, pc'[r] = "access"
          PROVE  /\ pos'[r] \in Positions /\ pos'[r] < head /\ tail <= pos'[r] + OneLap
                 /\ NStamp(pos'[r]) = pos'[r] + 1
      <3>1. pc[r] = "access" /\ pos'[r] = pos[r]
        BY <1>3, <1>5, <2>2
      <3>2. /\ pos[r] \in Positions /\ pos[r] < head /\ tail <= pos[r] + OneLap
            /\ Stamp(pos[r]) = pos[r] + 1 /\ pos[r] \in Nat
        BY <3>1 DEF IInv, AccessInv, Positions
      <3>3. pos[r] # w /\ pos[r] < w + OneLap /\ w < pos[r] + OneLap
        BY <1>1, <3>2, RingNumbers
      <3>4. NStamp(pos[r]) = pos[r] + 1
        BY <1>1, <1>8, <3>2, <3>3, SlotsDiffer
      <3> QED
        BY <3>1, <3>2, <3>4
    <2>3. ASSUME NEW u \in Threads, NEW v \in Threads, u # v, Side(u) = Side(v),
                 pc'[u] = "access", pc'[v] = "access"
          PROVE  pos'[u] # pos'[v]
      BY <1>5, <1>6, <2>3 DEF IInv, AccessInv
    <2> QED
      BY <1>2, <2>1, <2>2, <2>3 DEF AccessInv, Stamp
  <1>12. LoadedInv'
    <2>1. \A u \in Senders : pc'[u] \in {"stamp", "cas", "check", "recheck2"} =>
             /\ pos'[u] \in Positions /\ pos'[u] <= tail
             /\ pc'[u] = "cas" /\ pos'[u] = tail => Stamp(tail) = tail
      BY <1>3, <1>5, <1>6 DEF IInv, LoadedInv
    <2>2. Stamp(tail) = tail => NStamp(tail) = tail
      <3>1. SUFFICES ASSUME Stamp(tail) = tail PROVE Index(tail) # Index(w)
        BY <1>8, RingNumbers
      <3> QED
        BY <1>1, <3>1, RingNumbers DEF Stamp
    <2>3. \A r \in Receivers : pc'[r] \in {"stamp", "cas", "check", "recheck2"} =>
             /\ pos'[r] \in Positions /\ pos'[r] <= head
             /\ pc'[r] = "cas" /\ pos'[r] = head => Stamp(head) = head + 1
      BY <1>3, <1>5 DEF IInv, LoadedInv
    <2>4. Stamp(head) = head + 1 => NStamp(head) = head + 1
      <3>1. SUFFICES ASSUME Stamp(head) = head + 1 PROVE Index(head) # Index(w)
        BY <1>8, RingNumbers
      <3>2. head # w
        BY <1>1, <3>1, RingNumbers
      <3> QED
        BY <1>1, <3>2, SlotsDiffer, RingNumbers
    <2> QED
      BY <1>2, <2>1, <2>2, <2>3, <2>4 DEF LoadedInv, Stamp
  <1>13. MessagesInv'
    <2>1. next \in [Threads -> Nat] /\ MaxSends \in Nat
      BY ArrayChannelAssumption DEF IInv, TypeOK
    <2>2. \A u \in Senders : next'[u] \in 1..MaxSends + 1
      BY <1>2, <1>3, <1>4, <2>1 DEF IInv, MessagesInv
    <2>3. \A u \in Senders : pc'[u] \in Calling => next'[u] <= MaxSends
      BY <1>2, <1>3, <1>5, <1>6, <2>1 DEF IInv, MessagesInv, Calling
    <2>4. \A i \in 0..Cap - 1 : slot[i] # NoMsg =>
             slot[i][1] \in Senders /\ slot[i][2] \in Nat /\ slot[i][2] < next[slot[i][1]]
      <3>1. \A i \in 0..Cap - 1 : slot[i] # NoMsg => slot[i] \in Messages
        BY RingFacts
      <3>2. \A m \in Messages : m[1] \in Senders /\ m[2] \in Nat
        BY DEF Messages
      <3> QED
        BY <3>1, <3>2 DEF IInv, MessagesInv
    <2>5. \A i \in 0..Cap - 1 : slot'[i] = IF i = Index(w) THEN Msg(s) ELSE slot[i]
      BY <1>1, <1>2, RingFacts
    <2>6. \A u \in Senders : next[u] \in Nat /\ next'[u] = IF u = s THEN next[u] + 1 ELSE next[u]
      BY <1>2, <1>3, <2>1
    <2>7. \A i \in 0..Cap - 1 : slot'[i] # NoMsg => slot'[i][2] < next'[slot'[i][1]]
      <3> SUFFICES ASSUME NEW i \in 0..Cap - 1, slot'[i] # NoMsg
                   PROVE  slot'[i][2] < next'[slot'[i][1]]
        OBVIOUS
      <3>1. CASE i = Index(w)
        BY <1>4, <2>5, <2>6, <3>1
      <3>2. CASE i # Index(w)
        BY <2>4, <2>5, <2>6, <3>2
      <3> QED
        BY <3>1, <3>2
    <2>8. ASSUME NEW i \in 0..Cap - 1 PROVE slot[i] # Msg(s)
      <3> SUFFICES ASSUME slot[i] = Msg(s) PROVE FALSE
        OBVIOUS
      <3>1. slot[i] # NoMsg /\ slot[i][1] = s /\ slot[i][2] = next[s]
        BY <1>4
      <3> QED
        BY <2>4, <2>6, <3>1
    <2>9. \A i, j \in 0..Cap - 1 : i # j /\ slot'[i] # NoMsg => slot'[i] # slot'[j]
      BY <2>5, <2>8 DEF IInv, MessagesInv
    <2> QED
      BY <2>2, <2>3, <2>7, <2>9 DEF MessagesInv
  <1> QED
    BY <1>10, <1>11, <1>12, <1>13

\* The head moves: the receiver has the slot it leaves behind to itself, and that slot
\* is now the last one of the lap.
LEMMA RecvCasRing ==
    ASSUME Consistent, NEW r \in Receivers, RecvCas(r)
    PROVE  RingInv' /\ AccessInv' /\ LoadedInv' /\ MessagesInv'
  <1> IInv
    BY DEF Consistent
  <1>1. /\ head' = Succ(head) /\ tail' = tail /\ stamp' = stamp /\ slot' = slot /\ next' = next
        /\ pos' = pos /\ pos[r] = head /\ pc[r] = "cas" /\ r \in Threads
        /\ pc'[r] = "access" /\ \A u \in Threads : u # r => pc'[u] = pc[u]
        /\ \A x : Stamp(x)' = Stamp(x) /\ (Full(x)' <=> Full(x))
    BY RingFacts DEF RecvCas, Goto, Stamp, Full, Threads
  <1>2. Senders \subseteq Threads /\ Receivers \subseteq Threads /\ r \notin Senders
    BY SideOf, <1>1, Zenon DEF Threads
  <1>3. /\ head < tail /\ head \in Window /\ Stamp(head) = head + 1 /\ Full(head)
        /\ Succ(head) \in Positions /\ head < Succ(head) /\ Succ(head) <= tail
        /\ Succ(head) <= head + OneLap /\ Succ(head) \in Nat
        /\ \A x \in Positions : Succ(head) <= x /\ x < Succ(head) + OneLap =>
              x \in Window \/ x = head + OneLap
    BY RecvCasFacts, SuccPosition, RingNumbers
  <1>4. \A x : x \in Window' <=> x \in Positions /\ Succ(head) <= x /\ x < Succ(head) + OneLap
    <2>1. Positions \subseteq Nat
      BY DEF Positions
    <2>2. Window' = {x \in Succ(head)..Succ(head) + OneLap - 1 : x \in Positions}
      BY <1>1 DEF Window
    <2>3. ASSUME NEW x
          PROVE  x \in Succ(head)..Succ(head) + OneLap - 1 /\ x \in Positions
                    <=> x \in Positions /\ Succ(head) <= x /\ x < Succ(head) + OneLap
      <3>1. CASE x \in Positions
        BY <1>3, <2>1, <3>1, RingNumbers
      <3> QED
        BY <3>1
    <2> QED
      BY <2>2, <2>3
  <1>5. RingInv'
    <2>1. ASSUME NEW x \in Window', x < tail
          PROVE  \/ Stamp(x) = x /\ ~ Full(x)
                 \/ Stamp(x) = x + 1 /\ Full(x)
      <3>1. x \in Window
        <4>1. x \in Positions /\ Succ(head) <= x /\ x \in Nat
          BY <1>4, RingFacts
        <4>2. head <= x /\ x < head + OneLap
          BY <1>3, <2>1, <4>1, RingNumbers
        <4> QED
          BY <4>1, <4>2, RingFacts
      <3> QED
        BY <2>1, <3>1 DEF IInv, RingInv
    <2>2. ASSUME NEW x \in Window', x >= tail
          PROVE  \/ Stamp(x) = x /\ ~ Full(x)
                 \/ /\ Stamp(x) = x - OneLap + 1 /\ Full(x)
                    /\ \E u \in Receivers : pc'[u] = "access" /\ pos[u] = x - OneLap
      <3>1. CASE x = head + OneLap
        <4>1. Index(x) = Index(head)
          BY <3>1, NextLap, RingNumbers
        <4>2. Stamp(x) = head + 1 /\ Full(x)
          BY <1>3, <4>1 DEF Stamp, Full
        <4>3. x - OneLap = head
          BY <3>1, RingNumbers
        <4> QED
          BY <1>1, <4>2, <4>3
      <3>2. CASE x \in Window
        <4>1. \A u \in Receivers : pc[u] = "access" => pc'[u] = "access"
          BY <1>1, <1>2
        <4> QED
          BY <2>2, <3>2, <4>1 DEF IInv, RingInv
      <3> QED
        BY <1>3, <1>4, <3>1, <3>2
    <2>3. tail <= Succ(head) + OneLap
      BY <1>3, RingNumbers
    <2> QED
      BY <1>1, <1>3, <2>1, <2>2, <2>3, RingNumbers DEF RingInv
  <1>6. AccessInv'
    <2>1. ASSUME NEW u \in Senders, pc'[u] = "access"
          PROVE  pos[u] \in Window' /\ pos[u] < tail /\ Stamp(pos[u]) = pos[u]
      <3>1. pos[u] \in Window /\ pos[u] < tail /\ Stamp(pos[u]) = pos[u]
        BY <1>1, <1>2, <2>1 DEF IInv, AccessInv
      <3>2. /\ pos[u] \in Positions /\ pos[u] \in Nat
            /\ head <= pos[u] /\ pos[u] < head + OneLap
        BY <3>1, RingFacts
      <3>3. head # pos[u]
        BY <1>3, <3>1, RingNumbers
      <3>4. head < pos[u]
        BY <3>2, <3>3, RingNumbers
      <3>5. Succ(head) <= pos[u]
        BY <3>2, <3>4, NextPosition, RingNumbers
      <3>6. pos[u] < Succ(head) + OneLap
        BY <1>3, <3>2, RingNumbers
      <3> QED
        BY <1>4, <3>1, <3>2, <3>5, <3>6
    <2>2. ASSUME NEW u \in Receivers, pc'[u] = "access"
          PROVE  /\ pos[u] \in Positions /\ pos[u] < Succ(head) /\ tail <= pos[u] + OneLap
                 /\ Stamp(pos[u]) = pos[u] + 1
      <3>1. CASE u = r
        BY <1>1, <1>3, <3>1, RingNumbers
      <3>2. CASE u # r
        <4>1. /\ pos[u] \in Positions /\ pos[u] < head /\ tail <= pos[u] + OneLap
              /\ Stamp(pos[u]) = pos[u] + 1 /\ pos[u] \in Nat
          BY <1>1, <1>2, <2>2, <3>2 DEF IInv, AccessInv, Positions
        <4> QED
          BY <1>3, <4>1, RingNumbers
      <3> QED
        BY <3>1, <3>2
    <2>3. \A u \in Receivers : u # r /\ pc'[u] = "access" => pos[u] < head /\ pos[u] \in Nat
      BY <1>1, <1>2, RingFacts DEF IInv, AccessInv
    <2>4. ASSUME NEW u \in Threads, NEW v \in Threads, u # v, Side(u) = Side(v),
                 pc'[u] = "access", pc'[v] = "access"
          PROVE  pos[u] # pos[v]
      <3>1. CASE u # r /\ v # r
        BY <1>1, <2>4, <3>1 DEF IInv, AccessInv
      <3>2. CASE u = r
        <4>1. v \in Receivers
          BY <1>2, <2>4, <3>2, SideOf DEF Side
        <4>2. pos[v] < head /\ pos[v] \in Nat
          BY <2>3, <2>4, <3>2, <4>1
        <4> QED
          BY <1>1, <3>2, <4>2, RingNumbers
      <3>3. CASE v = r
        <4>1. u \in Receivers
          BY <1>2, <2>4, <3>3, SideOf DEF Side
        <4>2. pos[u] < head /\ pos[u] \in Nat
          BY <2>3, <2>4, <3>3, <4>1
        <4> QED
          BY <1>1, <3>3, <4>2, RingNumbers
      <3> QED
        BY <3>1, <3>2, <3>3
    <2> QED
      BY <1>1, <2>1, <2>2, <2>4 DEF AccessInv
  <1>7. LoadedInv'
    <2>1. \A u \in Receivers : pc'[u] \in {"stamp", "cas", "check", "recheck2"} =>
             pos[u] \in Positions /\ pos[u] <= head /\ pos[u] \in Nat
      BY <1>1, <1>2, RingFacts DEF IInv, LoadedInv
    <2>2. ASSUME NEW u \in Receivers, pc'[u] \in {"stamp", "cas", "check", "recheck2"}
          PROVE  pos[u] \in Positions /\ pos[u] <= Succ(head) /\ pos[u] # Succ(head)
      <3>1. pos[u] \in Positions /\ pos[u] <= head /\ pos[u] \in Nat
        BY <2>1, <2>2
      <3> QED
        BY <1>3, <3>1, RingNumbers
    <2>3. \A u \in Senders : pc'[u] = pc[u]
      BY <1>1, <1>2
    <2>4. \A u \in Senders : pc'[u] \in {"stamp", "cas", "check", "recheck2"} =>
             pos[u] \in Positions /\ pos[u] <= tail
      BY <2>3 DEF IInv, LoadedInv
    <2>5. \A u \in Senders : pc'[u] = "cas" /\ pos[u] = tail => Stamp(tail) = tail
      BY <2>3 DEF IInv, LoadedInv
    <2> QED
      BY <1>1, <2>2, <2>4, <2>5, Zenon DEF LoadedInv
  <1>8. MessagesInv'
    <2>1. \A u \in Senders : pc'[u] = pc[u]
      BY <1>1, <1>2
    <2> QED
      BY <1>1, <2>1 DEF IInv, MessagesInv
  <1> QED
    BY <1>5, <1>6, <1>7, <1>8

\* A message is read: its slot is free for the next lap.
LEMMA ReadRing ==
    ASSUME Consistent, NEW r \in Receivers, Read(r)
    PROVE  RingInv' /\ AccessInv' /\ LoadedInv' /\ MessagesInv'
  <1> IInv
    BY DEF Consistent
  <1> PICK w : w = pos[r]
    OBVIOUS
  <1> DEFINE NStamp(x) == stamp'[Index(x)]
             NFull(x) == slot'[Index(x)] # NoMsg
             y == w + OneLap
  <1>1. /\ w \in Positions /\ w \in Nat /\ w < head /\ tail <= w + OneLap /\ Stamp(w) = w + 1
        /\ Index(w) \in 0..Cap - 1
    BY RingFacts DEF IInv, AccessInv, Read
  <1>2. /\ head' = head /\ tail' = tail
        /\ stamp' = [stamp EXCEPT ![Index(w)] = w + OneLap]
        /\ slot' = [slot EXCEPT ![Index(w)] = NoMsg]
        /\ next' = next
        /\ pos' = [pos EXCEPT ![r] = 0] /\ pc[r] = "access" /\ r \in Threads
        /\ pc' = [pc EXCEPT ![r] = "notify"]
        /\ Window' = Window
    BY DEF Read, Goto, Window, Threads
  <1>3. Senders \subseteq Threads /\ Receivers \subseteq Threads /\ r \notin Senders
    BY <1>2, SideOf DEF Threads
  <1>4. /\ y \in Positions /\ Index(y) = Index(w) /\ y \in Nat
        /\ tail <= y /\ head <= y /\ y < head + OneLap /\ y \in Window
    <2>1. y \in Positions /\ Index(y) = Index(w)
      BY <1>1, NextLap
    <2>2. y \in Nat /\ tail <= y /\ head <= y /\ y < head + OneLap
      BY <1>1, RingNumbers
    <2> QED
      BY <2>1, <2>2, RingFacts
  <1>5. \A u \in Threads : u # r => pc'[u] = pc[u] /\ pos'[u] = pos[u]
    BY <1>2, RingFacts
  <1>6. pc'[r] = "notify" /\ pos'[r] = 0
    BY <1>2, RingFacts
  <1>7. NStamp(y) = y /\ ~ NFull(y)
    BY <1>1, <1>2, <1>4, RingFacts
  <1>8. ASSUME NEW x \in Positions, Index(x) # Index(w)
        PROVE  NStamp(x) = Stamp(x) /\ (NFull(x) <=> Full(x))
    BY <1>1, <1>2, <1>8, RingFacts DEF Stamp, Full
  <1> HIDE DEF y
  <1>9. \A x \in Window : x # y => Index(x) # Index(w)
    <2> SUFFICES ASSUME NEW x \in Window, x # y PROVE Index(x) # Index(y)
      BY <1>4
    <2>1. x \in Positions /\ x \in Nat /\ head <= x /\ x < head + OneLap
      BY RingFacts
    <2>2. x < y + OneLap /\ y < x + OneLap
      BY <1>4, <2>1, RingNumbers
    <2> QED
      BY <1>4, <2>1, <2>2, SlotsDiffer
  <1>10. RingInv'
    <2>1. ASSUME NEW x \in Window, x < tail
          PROVE  \/ NStamp(x) = x /\ ~ NFull(x)
                 \/ NStamp(x) = x + 1 /\ NFull(x)
      <3>1. x # y /\ x \in Positions
        BY <1>4, <2>1, RingFacts
      <3>2. NStamp(x) = Stamp(x) /\ (NFull(x) <=> Full(x))
        BY <1>8, <1>9, <3>1
      <3> QED
        BY <2>1, <3>2, Zenon DEF IInv, RingInv
    <2>2. ASSUME NEW x \in Window, x >= tail
          PROVE  \/ NStamp(x) = x /\ ~ NFull(x)
                 \/ /\ NStamp(x) = x - OneLap + 1 /\ NFull(x)
                    /\ \E u \in Receivers : pc'[u] = "access" /\ pos'[u] = x - OneLap
      <3>1. CASE x = y
        BY <1>7, <3>1 DEF y
      <3>2. CASE x # y
        <4>1. NStamp(x) = Stamp(x) /\ (NFull(x) <=> Full(x))
          BY <1>8, <1>9, <3>2, RingFacts
        <4>2. x - OneLap # w
          <5>1. x \in Nat
            BY RingFacts
          <5> QED
            BY <1>1, <3>2, <5>1, RingNumbers DEF y
        <4>3. \A u \in Receivers : pc[u] = "access" /\ pos[u] = x - OneLap =>
                 pc'[u] = "access" /\ pos'[u] = x - OneLap
          BY <1>3, <1>5, <4>2
        <4> QED
          BY <2>2, <4>1, <4>3 DEF IInv, RingInv
      <3> QED
        BY <3>1, <3>2, Zenon
    <2> QED
      BY <1>2, <2>1, <2>2, RingNumbers DEF RingInv, Stamp, Full
  <1>11. AccessInv'
    <2>1. ASSUME NEW u \in Senders, pc'[u] = "access"
          PROVE  pos'[u] \in Window /\ pos'[u] < tail /\ NStamp(pos'[u]) = pos'[u]
      <3>1. pc[u] = "access" /\ pos'[u] = pos[u]
        BY <1>3, <1>5, <2>1
      <3>2. pos[u] \in Window /\ pos[u] < tail /\ Stamp(pos[u]) = pos[u] /\ pos[u] \in Positions
        BY <3>1, RingFacts DEF IInv, AccessInv
      <3>3. pos[u] # y
        BY <1>4, <3>2, RingFacts
      <3>4. NStamp(pos[u]) = pos[u]
        BY <1>8, <1>9, <3>2, <3>3
      <3> QED
        BY <3>1, <3>2, <3>4, Zenon
    <2>2. ASSUME NEW u \in Receivers, pc'[u] = "access"
          PROVE  /\ pos'[u] \in Positions /\ pos'[u] < head /\ tail <= pos'[u] + OneLap
                 /\ NStamp(pos'[u]) = pos'[u] + 1
      <3>1. u # r /\ pc[u] = "access" /\ pos'[u] = pos[u] /\ u \in Threads /\ Side(u) = Side(r)
        BY <1>3, <1>5, <1>6, <2>2, SideOf DEF Side
      <3>2. /\ pos[u] \in Positions /\ pos[u] < head /\ tail <= pos[u] + OneLap
            /\ Stamp(pos[u]) = pos[u] + 1 /\ pos[u] \in Nat
        BY <3>1 DEF IInv, AccessInv, Positions
      <3>3. pos[u] # w
        BY <1>2, <3>1 DEF IInv, AccessInv
      <3>4. pos[u] < w + OneLap /\ w < pos[u] + OneLap
        BY <1>1, <3>2, RingNumbers
      <3>5. NStamp(pos[u]) = pos[u] + 1
        BY <1>1, <1>8, <3>2, <3>3, <3>4, SlotsDiffer
      <3> QED
        BY <3>1, <3>2, <3>5
    <2>3. ASSUME NEW u \in Threads, NEW v \in Threads, u # v, Side(u) = Side(v),
                 pc'[u] = "access", pc'[v] = "access"
          PROVE  pos'[u] # pos'[v]
      BY <1>5, <1>6, <2>3 DEF IInv, AccessInv
    <2> QED
      BY <1>2, <2>1, <2>2, <2>3 DEF AccessInv, Stamp
  <1>12. LoadedInv'
    <2>1. \A u \in Senders : pc'[u] \in {"stamp", "cas", "check", "recheck2"} =>
             /\ pos'[u] \in Positions /\ pos'[u] <= tail
             /\ pc'[u] = "cas" /\ pos'[u] = tail => Stamp(tail) = tail
      BY <1>3, <1>5, Zenon DEF IInv, LoadedInv
    <2>2. Stamp(tail) = tail => NStamp(tail) = tail
      <3>1. SUFFICES ASSUME Stamp(tail) = tail PROVE Index(tail) # Index(w)
        BY <1>8, RingNumbers
      <3>2. SUFFICES ASSUME Index(tail) = Index(w) PROVE FALSE
        OBVIOUS
      <3>3. tail = w + 1
        BY <1>1, <3>1, <3>2 DEF Stamp
      <3>4. w + OneLap <= tail
        BY <1>1, <3>2, <3>3, SameSlot, RingNumbers
      <3> QED
        BY <1>1, <3>3, <3>4, RingNumbers
    <2>3. \A u \in Receivers : pc'[u] \in {"stamp", "cas", "check", "recheck2"} =>
             /\ pos'[u] \in Positions /\ pos'[u] <= head
             /\ pc'[u] = "cas" /\ pos'[u] = head => Stamp(head) = head + 1
      BY <1>3, <1>5, <1>6 DEF IInv, LoadedInv
    <2>4. Stamp(head) = head + 1 => NStamp(head) = head + 1
      <3>1. SUFFICES ASSUME Stamp(head) = head + 1 PROVE Index(head) # Index(w)
        BY <1>8, RingNumbers
      <3> QED
        BY <1>1, <3>1, RingNumbers DEF Stamp
    <2> QED
      BY <1>2, <2>1, <2>2, <2>3, <2>4 DEF LoadedInv, Stamp
  <1>13. MessagesInv'
    <2>1. \A u \in Senders : pc'[u] = pc[u]
      BY <1>3, <1>5
    <2>2. \A i \in 0..Cap - 1 : slot'[i] = IF i = Index(w) THEN NoMsg ELSE slot[i]
      BY <1>1, <1>2, RingFacts
    <2>3. \A i \in 0..Cap - 1 : slot'[i] # NoMsg => slot'[i] = slot[i] /\ slot[i] # NoMsg
      BY <2>2
    <2>4. \A i \in 0..Cap - 1 : slot'[i] # NoMsg => slot'[i][2] < next[slot'[i][1]]
      BY <2>3 DEF IInv, MessagesInv
    <2>5. \A i, j \in 0..Cap - 1 : i # j /\ slot'[i] # NoMsg => slot'[i] # slot'[j]
      BY <2>3 DEF IInv, MessagesInv
    <2>6. /\ \A u \in Senders : next[u] \in 1..MaxSends + 1
          /\ \A u \in Senders : pc'[u] \in Calling => next[u] <= MaxSends
      BY <2>1 DEF IInv, MessagesInv
    <2> QED
      BY <1>2, <2>4, <2>5, <2>6 DEF MessagesInv
  <1> QED
    BY <1>10, <1>11, <1>12, <1>13

\* Every step keeps the ring.
LEMMA RingStep ==
    ASSUME Consistent, NEW t \in Threads, Step(t)
    PROVE  RingInv' /\ AccessInv' /\ LoadedInv' /\ MessagesInv'
  <1> IInv
    BY DEF Consistent
  <1> QED
    BY LocalSteps, LocalKeepsRing, SendCasRing, WriteRing, RecvCasRing, ReadRing
=============================================================================
