---------------------------- MODULE ArrayChannel ----------------------------
(***************************************************************************)
(* The bounded channel of crossbeam-channel (flavors/array.rs): the ring   *)
(* of stamped slots, the blocking of senders and receivers on the two      *)
(* SyncWakers (waker.rs) through their Contexts (context.rs), and the      *)
(* reference counter that disconnects and frees the channel (counter.rs).  *)
(*                                                                         *)
(* Each thread owns one handle and calls try_send, send, send_timeout (or  *)
(* the receiving counterparts) until it drops the handle.  A step is one   *)
(* atomic access or one critical section of a SyncWaker's mutex.           *)
(*                                                                         *)
(* A stamp is the code's number without the mark bit; the mark bit of the  *)
(* tail is the variable `marked`.                                          *)
(***************************************************************************)
EXTENDS Integers, Sequences, FiniteSets

CONSTANTS Senders,    \* threads that hold a Sender
          Receivers,  \* threads that hold a Receiver
          Cap,        \* capacity of the channel
          Modes,      \* the calls used: "try", "block", "timed"
          MaxSends    \* bound: messages each sender may send

\* S has n elements: they can be numbered from 1 to n.
Numbered(n, S) ==
    \E f \in [1..n -> S] :
       /\ \A x \in S : \E i \in 1..n : f[i] = x
       /\ \A i, j \in 1..n : f[i] = f[j] => i = j

\* The threads of both sides are finitely many, in the form that counting handles
\* relies on: Cardinality numbers them.
ASSUME FiniteAssumption ==
    \A S \in {Senders, Receivers} : Cardinality(S) \in Nat /\ Numbered(Cardinality(S), S)

ASSUME ArrayChannelAssumption ==
    /\ Senders \cap Receivers = {}
    /\ Senders # {} /\ Receivers # {}
    /\ Cap \in Nat \ {0}
    /\ Modes \subseteq {"try", "block", "timed"}
    /\ MaxSends \in Nat

Threads  == Senders \cup Receivers
Messages == Senders \X (1..MaxSends)
NoMsg    == << >>
Sides    == {"send", "recv"}
Side(t)  == IF t \in Senders THEN "send" ELSE "recv"
Other(t) == IF t \in Senders THEN "recv" ELSE "send"

\* with_capacity: mark_bit and one_lap.
MarkBit == CHOOSE b \in {2 ^ i : i \in 0..Cap} :
              b >= Cap + 1 /\ \A c \in {2 ^ i : i \in 0..Cap} : c >= Cap + 1 => b <= c
OneLap  == 2 * MarkBit

\* What usize::next_power_of_two promises.
ASSUME MarkBitAssumption == MarkBit \in Nat /\ MarkBit > Cap

Index(x) == x % MarkBit
Lap(x)   == x - (x % OneLap)
Succ(x)  == IF Index(x) + 1 < Cap THEN x + 1 ELSE Lap(x) + OneLap

VARIABLES
    head, tail,  \* Channel::head, Channel::tail without the mark bit
    marked,      \* the mark bit of the tail
    stamp,       \* Slot::stamp of each slot
    slot,        \* Slot::msg, or NoMsg where it is uninitialised or moved out
    queue,       \* Waker::selectors of both sides
    isEmpty,     \* SyncWaker::is_empty of both sides
    select,      \* Context's selected operation of each thread
    permit,      \* the park token of each thread
    refs,        \* Counter::senders and Counter::receivers
    destroy,     \* Counter::destroy
    freed,       \* the Counter has been dropped
    pc,          \* what each thread is doing
    mode,        \* kind of its call; "expired": the deadline has passed
    pos,         \* the tail or head the call has loaded
    next,        \* number of the message each sender sends next
    result,      \* result of each thread's last call
    dropped      \* history: messages dropped by discard_all_messages

ring    == <<head, tail, marked, stamp, slot>>
wakers  == <<queue, isEmpty, select, permit>>
counter == <<refs, destroy, freed>>
threads == <<pc, mode, pos, next, result>>
vars    == <<ring, wakers, counter, threads, dropped>>

Labels == {"idle", "load", "stamp", "cas", "check", "access", "notify",
           "notify_lock", "register", "recheck", "recheck2", "is_disconnected",
           "abort", "wait", "park", "unregister", "mark", "disconnect",
           "discard", "destroy", "done"}
Kinds  == {"none", "early", "late", "sent", "full", "got", "empty",
           "disconnected", "timeout"}

Goto(t, l)   == pc' = [pc EXCEPT ![t] = l]
Result(k, m) == [kind |-> k, msg |-> m]
Msg(s)       == <<s, next[s]>>

\* The call of t returns.
Return(t, k, m) ==
    /\ Goto(t, "idle")
    /\ pos' = [pos EXCEPT ![t] = 0]
    /\ mode' = [mode EXCEPT ![t] = "try"]
    /\ result' = [result EXCEPT ![t] = Result(k, m)]

Init ==
    /\ head = 0 /\ tail = 0 /\ marked = FALSE
    /\ stamp = [i \in 0..Cap - 1 |-> i]
    /\ slot = [i \in 0..Cap - 1 |-> NoMsg]
    /\ queue = [d \in Sides |-> << >>]
    /\ isEmpty = [d \in Sides |-> TRUE]
    /\ select = [t \in Threads |-> "waiting"]
    /\ permit = [t \in Threads |-> FALSE]
    /\ refs = [d \in Sides |-> IF d = "send" THEN Cardinality(Senders)
                                             ELSE Cardinality(Receivers)]
    /\ destroy = FALSE /\ freed = FALSE
    /\ pc = [t \in Threads |-> "idle"]
    /\ mode = [t \in Threads |-> "try"]
    /\ pos = [t \in Threads |-> 0]
    /\ next = [t \in Threads |-> 1]
    /\ result = [t \in Threads |-> Result("none", NoMsg)]
    /\ dropped = {}

\* A call begins, in any of the modes.
Begin(t) ==
    /\ pc[t] = "idle"
    /\ t \in Senders => next[t] <= MaxSends
    /\ Goto(t, "load")
    /\ mode' \in {[mode EXCEPT ![t] = m] : m \in Modes}
    /\ result' = [result EXCEPT ![t] = Result(IF marked THEN "late" ELSE "early", NoMsg)]
    /\ UNCHANGED <<ring, wakers, counter, pos, next, dropped>>

\* start_send or start_recv returned false: try_* reports it, send and recv
\* go on to block unless the deadline has passed.  (The repeated attempts
\* before blocking are the same steps again and are left out.)
NotReady(t, k) ==
    \/ /\ mode[t] = "try"
       /\ Return(t, k, NoMsg)
    \/ /\ mode[t] \in {"timed", "expired"}
       /\ Return(t, "timeout", NoMsg)
    \/ /\ mode[t] \in {"block", "timed"}
       /\ Goto(t, "register")
       /\ pos' = [pos EXCEPT ![t] = 0]
       /\ UNCHANGED <<mode, result>>

(***************************************************************************)
(* Channel::start_send and Channel::write.                                 *)
(***************************************************************************)
\* The call holds a value of the tail, just loaded: the disconnected channel
\* is reported, by way of a token without a slot.
HoldTail(s) ==
    \/ /\ marked
       /\ Return(s, "disconnected", NoMsg)
    \/ /\ ~ marked
       /\ pos' = [pos EXCEPT ![s] = tail]
       /\ Goto(s, "stamp")
       /\ UNCHANGED <<mode, result>>

LoadTail(s) ==
    /\ pc[s] = "load"
    /\ HoldTail(s)
    /\ UNCHANGED <<ring, wakers, counter, next, dropped>>

\* The stamp decides: the slot is free, or holds a message one lap behind, or
\* another thread is about to update it.
SendStamp(s) ==
    /\ pc[s] = "stamp"
    /\ LET st == stamp[Index(pos[s])]
       IN Goto(s, IF st = pos[s] THEN "cas"
                  ELSE IF st + OneLap = pos[s] + 1 THEN "check" ELSE "load")
    /\ UNCHANGED <<ring, wakers, counter, mode, pos, next, result, dropped>>

SendCas(s) ==
    /\ pc[s] = "cas"
    /\ tail = pos[s] /\ ~ marked
    /\ tail' = Succ(tail)
    /\ result' = [result EXCEPT ![s] = Result("sent", Msg(s))]
    /\ Goto(s, "access")
    /\ UNCHANGED <<head, marked, stamp, slot, wakers, counter, mode, pos, next, dropped>>

\* The weak compare_exchange may fail without cause.
SendCasFails(s) ==
    /\ pc[s] = "cas"
    /\ HoldTail(s)
    /\ UNCHANGED <<ring, wakers, counter, next, dropped>>

\* The fence and the load of the head: is the channel full?
SendCheck(s) ==
    /\ pc[s] = "check"
    /\ \/ /\ head + OneLap = pos[s]
          /\ NotReady(s, "full")
       \/ /\ head + OneLap # pos[s]
          /\ Goto(s, "load")
          /\ UNCHANGED <<mode, pos, result>>
    /\ UNCHANGED <<ring, wakers, counter, next, dropped>>

\* write: the message, then the stamp that releases it.
Write(s) ==
    /\ pc[s] = "access"
    /\ slot' = [slot EXCEPT ![Index(pos[s])] = Msg(s)]
    /\ stamp' = [stamp EXCEPT ![Index(pos[s])] = pos[s] + 1]
    /\ next' = [next EXCEPT ![s] = @ + 1]
    /\ pos' = [pos EXCEPT ![s] = 0]
    /\ Goto(s, "notify")
    /\ UNCHANGED <<head, tail, marked, wakers, counter, mode, result, dropped>>

(***************************************************************************)
(* Channel::start_recv and Channel::read.                                  *)
(***************************************************************************)
LoadHead(r) ==
    /\ pc[r] = "load"
    /\ pos' = [pos EXCEPT ![r] = head]
    /\ Goto(r, "stamp")
    /\ UNCHANGED <<ring, wakers, counter, mode, next, result, dropped>>

\* Mutant of RecvStamp: a slot that is reserved passes for one that is written.
RecvStampEager(r) ==
    /\ pc[r] = "stamp"
    /\ LET st == stamp[Index(pos[r])]
       IN Goto(r, IF st \in {pos[r], pos[r] + 1} /\ tail # pos[r] THEN "cas"
                  ELSE IF st = pos[r] THEN "check" ELSE "load")
    /\ UNCHANGED <<ring, wakers, counter, mode, pos, next, result, dropped>>

RecvStamp(r) ==
    /\ pc[r] = "stamp"
    /\ LET st == stamp[Index(pos[r])]
       IN Goto(r, IF st = pos[r] + 1 THEN "cas" ELSE IF st = pos[r] THEN "check" ELSE "load")
    /\ UNCHANGED <<ring, wakers, counter, mode, pos, next, result, dropped>>

RecvCas(r) ==
    /\ pc[r] = "cas"
    /\ head = pos[r]
    /\ head' = Succ(head)
    /\ Goto(r, "access")
    /\ UNCHANGED <<tail, marked, stamp, slot, wakers, counter, mode, pos, next, result, dropped>>

RecvCasFails(r) ==
    /\ pc[r] = "cas"
    /\ pos' = [pos EXCEPT ![r] = head]
    /\ Goto(r, "stamp")
    /\ UNCHANGED <<ring, wakers, counter, mode, next, result, dropped>>

\* Mutant of RecvCheck: a reserved slot passes for an empty channel.
RecvCheckStampOnly(r) ==
    /\ pc[r] = "check"
    /\ \/ marked /\ Return(r, "disconnected", NoMsg)
       \/ ~ marked /\ NotReady(r, "empty")
    /\ UNCHANGED <<ring, wakers, counter, next, dropped>>

\* The fence and the load of the tail: is the channel empty, and connected?
RecvCheck(r) ==
    /\ pc[r] = "check"
    /\ \/ /\ tail = pos[r] /\ marked
          /\ Return(r, "disconnected", NoMsg)
       \/ /\ tail = pos[r] /\ ~ marked
          /\ NotReady(r, "empty")
       \/ /\ tail # pos[r]
          /\ Goto(r, "load")
          /\ UNCHANGED <<mode, pos, result>>
    /\ UNCHANGED <<ring, wakers, counter, next, dropped>>

\* read: the message, then the stamp that frees the slot for the next lap.
Read(r) ==
    /\ pc[r] = "access"
    /\ result' = [result EXCEPT ![r] = Result("got", slot[Index(pos[r])])]
    /\ slot' = [slot EXCEPT ![Index(pos[r])] = NoMsg]
    /\ stamp' = [stamp EXCEPT ![Index(pos[r])] = pos[r] + OneLap]
    /\ pos' = [pos EXCEPT ![r] = 0]
    /\ Goto(r, "notify")
    /\ UNCHANGED <<head, tail, marked, wakers, counter, mode, next, dropped>>

(***************************************************************************)
(* SyncWaker::notify of the other side, after a write or a read.           *)
(***************************************************************************)
\* The call of t ends with the result it already has.
Finish(t) ==
    /\ Goto(t, "idle")
    /\ mode' = [mode EXCEPT ![t] = "try"]

\* The first load of is_empty, outside the mutex.
Notify(t) ==
    /\ pc[t] = "notify"
    /\ \/ /\ isEmpty[Other(t)]
          /\ Finish(t)
       \/ /\ ~ isEmpty[Other(t)]
          /\ Goto(t, "notify_lock")
          /\ UNCHANGED mode
    /\ UNCHANGED <<ring, wakers, counter, pos, next, result, dropped>>

\* Vec::remove, of the i-th entry.
Removed(q, i) == SubSeq(q, 1, i - 1) \o SubSeq(q, i + 1, Len(q))

\* Mutant of TrySelect: the selected entry stays in the list.
TrySelectKeeps(d) ==
    LET waiting == {i \in 1..Len(queue[d]) : select[queue[d][i]] = "waiting"}
    IN \/ waiting = {} /\ UNCHANGED wakers
       \/ \E i \in waiting :
             /\ \A j \in waiting : i <= j
             /\ select' = [select EXCEPT ![queue[d][i]] = "operation"]
             /\ permit' = [permit EXCEPT ![queue[d][i]] = TRUE]
             /\ UNCHANGED <<queue, isEmpty>>

\* Waker::try_select picks the first entry whose Context is still waiting,
\* removes it and unparks its thread.
TrySelect(d) ==
    LET waiting == {i \in 1..Len(queue[d]) : select[queue[d][i]] = "waiting"}
    IN \/ /\ waiting = {}
          /\ UNCHANGED <<queue, isEmpty, select, permit>>
       \/ \E i \in waiting :
             LET q == queue[d][i]
             IN /\ \A j \in waiting : i <= j
                /\ queue' = [queue EXCEPT ![d] = Removed(@, i)]
                /\ isEmpty' = [isEmpty EXCEPT ![d] = Len(queue[d]) = 1]
                /\ select' = [select EXCEPT ![q] = "operation"]
                /\ permit' = [permit EXCEPT ![q] = TRUE]

\* The critical section, which looks at is_empty again.
NotifyLock(t) ==
    /\ pc[t] = "notify_lock"
    /\ \/ isEmpty[Other(t)] /\ UNCHANGED wakers
       \/ ~ isEmpty[Other(t)] /\ TrySelect(Other(t))
    /\ Finish(t)
    /\ UNCHANGED <<ring, counter, pos, next, result, dropped>>

(***************************************************************************)
(* Blocking: Context::with in Channel::send and Channel::recv.             *)
(***************************************************************************)
\* Mutant of Register: the channel is not looked at again before sleeping.
RegisterNoRecheck(t) ==
    /\ pc[t] = "register"
    /\ select' = [select EXCEPT ![t] = "waiting"]
    /\ queue' = [queue EXCEPT ![Side(t)] = Append(@, t)]
    /\ isEmpty' = [isEmpty EXCEPT ![Side(t)] = FALSE]
    /\ Goto(t, "wait")
    /\ UNCHANGED <<ring, permit, counter, mode, pos, next, result, dropped>>

\* Context::reset and SyncWaker::register.
Register(t) ==
    /\ pc[t] = "register"
    /\ select' = [select EXCEPT ![t] = "waiting"]
    /\ queue' = [queue EXCEPT ![Side(t)] = Append(@, t)]
    /\ isEmpty' = [isEmpty EXCEPT ![Side(t)] = FALSE]
    /\ Goto(t, "recheck")
    /\ UNCHANGED <<ring, permit, counter, mode, pos, next, result, dropped>>

\* is_full loads the tail first, is_empty the head.
Recheck(t) ==
    /\ pc[t] = "recheck"
    /\ pos' = [pos EXCEPT ![t] = IF t \in Senders THEN tail ELSE head]
    /\ Goto(t, "recheck2")
    /\ UNCHANGED <<ring, wakers, counter, mode, next, result, dropped>>

\* The second load of is_full or is_empty.
Recheck2(t) ==
    /\ pc[t] = "recheck2"
    /\ Goto(t, IF (IF t \in Senders THEN head + OneLap ELSE tail) = pos[t]
               THEN "is_disconnected" ELSE "abort")
    /\ pos' = [pos EXCEPT ![t] = 0]
    /\ UNCHANGED <<ring, wakers, counter, mode, next, result, dropped>>

IsDisconnected(t) ==
    /\ pc[t] = "is_disconnected"
    /\ Goto(t, IF marked THEN "abort" ELSE "wait")
    /\ UNCHANGED <<ring, wakers, counter, mode, pos, next, result, dropped>>

\* Context::try_select(Aborted), by the thread itself.
Abort(t) ==
    /\ pc[t] = "abort"
    /\ select' = [select EXCEPT ![t] = IF @ = "waiting" THEN "aborted" ELSE @]
    /\ Goto(t, "wait")
    /\ UNCHANGED <<ring, queue, isEmpty, permit, counter, mode, pos, next, result, dropped>>

\* What the call does with the operation that was selected: an entry that no
\* other thread removed is unregistered, and the call starts over.
Woken(t, sel) == Goto(t, IF sel = "operation" THEN "load" ELSE "unregister")

\* Context::wait_until: the load of the selection.
Wait(t) ==
    /\ pc[t] = "wait"
    /\ \/ select[t] = "waiting" /\ Goto(t, "park")
       \/ select[t] # "waiting" /\ Woken(t, select[t])
    /\ UNCHANGED <<ring, wakers, counter, mode, pos, next, result, dropped>>

\* park returns when the token is there.
Park(t) ==
    /\ pc[t] = "park"
    /\ permit[t]
    /\ permit' = [permit EXCEPT ![t] = FALSE]
    /\ Goto(t, "wait")
    /\ UNCHANGED <<ring, queue, isEmpty, select, counter, mode, pos, next, result, dropped>>

\* The deadline is reached: the thread tries to select Aborted itself.
ParkTimeout(t) ==
    /\ pc[t] = "park"
    /\ mode[t] = "timed"
    /\ mode' = [mode EXCEPT ![t] = "expired"]
    /\ \/ /\ select[t] = "waiting"
          /\ select' = [select EXCEPT ![t] = "aborted"]
          /\ Woken(t, "aborted")
       \/ /\ select[t] # "waiting"
          /\ Woken(t, select[t])
          /\ UNCHANGED select
    /\ UNCHANGED <<ring, queue, isEmpty, permit, counter, pos, next, result, dropped>>

\* Waker::unregister removes the first entry of the operation.
Without(q, t) ==
    IF \E i \in DOMAIN q : q[i] = t
    THEN Removed(q, CHOOSE i \in DOMAIN q : q[i] = t /\ \A j \in 1..i - 1 : q[j] # t)
    ELSE q

\* SyncWaker::unregister.
Unregister(t) ==
    /\ pc[t] = "unregister"
    /\ queue' = [queue EXCEPT ![Side(t)] = Without(@, t)]
    /\ isEmpty' = [isEmpty EXCEPT ![Side(t)] = queue'[Side(t)] = << >>]
    /\ Goto(t, "load")
    /\ UNCHANGED <<ring, select, permit, counter, mode, pos, next, result, dropped>>

(***************************************************************************)
(* Dropping a handle: counter::Sender::release, counter::Receiver::release *)
(* and what they call for the last handle of a side.                       *)
(***************************************************************************)
DropHandle(t) ==
    /\ pc[t] = "idle"
    /\ refs' = [refs EXCEPT ![Side(t)] = @ - 1]
    /\ Goto(t, IF refs[Side(t)] = 1 THEN "mark" ELSE "done")
    /\ UNCHANGED <<ring, wakers, destroy, freed, mode, pos, next, result, dropped>>

\* After the disconnection a sender is done; a receiver loads the head and
\* discards what is left.
AfterDisconnect(t) ==
    /\ Goto(t, IF t \in Senders THEN "destroy" ELSE "discard")
    /\ pos' = [pos EXCEPT ![t] = IF t \in Senders THEN 0 ELSE head]

\* disconnect_senders, disconnect_receivers: the fetch_or of the mark bit.
Mark(t) ==
    /\ pc[t] = "mark"
    /\ marked' = TRUE
    /\ \/ ~ marked /\ Goto(t, "disconnect") /\ UNCHANGED pos
       \/ marked /\ AfterDisconnect(t)
    /\ UNCHANGED <<head, tail, stamp, slot, wakers, counter, mode, next, result, dropped>>

\* SyncWaker::disconnect of the other side: its entries stay registered.
Disconnect(t) ==
    /\ pc[t] = "disconnect"
    /\ LET entries == queue[Other(t)]
           woken == {q \in Threads : select[q] = "waiting" /\ \E i \in DOMAIN entries : entries[i] = q}
       IN /\ select' = [q \in Threads |-> IF q \in woken THEN "disconnected" ELSE select[q]]
          /\ permit' = [q \in Threads |-> permit[q] \/ q \in woken]
    /\ AfterDisconnect(t)
    /\ UNCHANGED <<ring, queue, isEmpty, counter, mode, next, result, dropped>>

\* discard_all_messages: the message at the local head is dropped.  Where
\* neither this nor DiscardEnd is possible a sender is about to write.
Discard(t) ==
    /\ pc[t] = "discard"
    /\ stamp[Index(pos[t])] = pos[t] + 1
    /\ dropped' = dropped \cup {slot[Index(pos[t])]}
    /\ pos' = [pos EXCEPT ![t] = Succ(@)]
    /\ UNCHANGED <<ring, wakers, counter, pc, mode, next, result>>

DiscardEnd(t) ==
    /\ pc[t] = "discard"
    /\ stamp[Index(pos[t])] # pos[t] + 1
    /\ tail = pos[t]
    /\ pos' = [pos EXCEPT ![t] = 0]
    /\ Goto(t, "destroy")
    /\ UNCHANGED <<ring, wakers, counter, mode, next, result, dropped>>

\* Mutant of Destroy: the first side frees.
DestroyFirst(t) ==
    /\ pc[t] = "destroy"
    /\ destroy' = TRUE
    /\ freed' = TRUE
    /\ Goto(t, "done")
    /\ UNCHANGED <<ring, wakers, refs, mode, pos, next, result, dropped>>

\* The swap of Counter::destroy: the second side frees the channel.
Destroy(t) ==
    /\ pc[t] = "destroy"
    /\ destroy' = TRUE
    /\ freed' = destroy
    /\ Goto(t, "done")
    /\ UNCHANGED <<ring, wakers, refs, mode, pos, next, result, dropped>>

Terminated == (\A t \in Threads : pc[t] = "done") /\ UNCHANGED vars

\* The steps of one call or drop in progress.
SendStep(s) == LoadTail(s) \/ SendStamp(s) \/ SendCas(s) \/ SendCasFails(s)
               \/ SendCheck(s) \/ Write(s)
RecvStep(r) == LoadHead(r) \/ RecvStamp(r) \/ RecvCas(r) \/ RecvCasFails(r)
               \/ RecvCheck(r) \/ Read(r)
BlockStep(t) == Notify(t) \/ NotifyLock(t) \/ Register(t) \/ Recheck(t)
                \/ Recheck2(t) \/ IsDisconnected(t) \/ Abort(t) \/ Wait(t)
                \/ Park(t) \/ ParkTimeout(t) \/ Unregister(t)
ReleaseStep(t) == Mark(t) \/ Disconnect(t) \/ Discard(t) \/ DiscardEnd(t) \/ Destroy(t)

Progress(t) ==
    \/ t \in Senders /\ SendStep(t)
    \/ t \in Receivers /\ RecvStep(t)
    \/ BlockStep(t)
    \/ ReleaseStep(t)

Next ==
    \/ \E t \in Threads : Begin(t) \/ DropHandle(t) \/ Progress(t)
    \/ Terminated

Spec == Init /\ [][Next]_vars

\* A thread inside a call keeps running, and a weak compare_exchange does not
\* fail without cause forever.  Nobody is obliged to begin a call.
Fairness ==
    \A t \in Threads :
        /\ WF_vars(Progress(t))
        /\ SF_vars(t \in Senders /\ SendCas(t))
        /\ SF_vars(t \in Receivers /\ RecvCas(t))

LiveSpec == Spec /\ Fairness

-----------------------------------------------------------------------------
(***************************************************************************)
(* Properties.                                                             *)
(***************************************************************************)
TypeOK ==
    /\ head \in Nat /\ tail \in Nat /\ marked \in BOOLEAN
    /\ stamp \in [0..Cap - 1 -> Nat]
    /\ slot \in [0..Cap - 1 -> Messages \cup {NoMsg}]
    /\ queue \in [Sides -> Seq(Threads)]
    /\ isEmpty \in [Sides -> BOOLEAN]
    /\ select \in [Threads -> {"waiting", "aborted", "disconnected", "operation"}]
    /\ permit \in [Threads -> BOOLEAN]
    /\ refs \in [Sides -> Nat]
    /\ destroy \in BOOLEAN /\ freed \in BOOLEAN
    /\ pc \in [Threads -> Labels]
    /\ mode \in [Threads -> {"try", "block", "timed", "expired"}]
    /\ pos \in [Threads -> Nat]
    /\ next \in [Threads -> Nat]
    /\ result \in [Threads -> [kind : Kinds, msg : Messages \cup {NoMsg}]]
    /\ dropped \subseteq Messages

\* The UnsafeCell of a slot is accessed by one thread at a time: the thread
\* whose compare_exchange on the tail or head gave it the slot.  A writer finds
\* no live message in it (it would be leaked) and a reader finds one.
SlotExclusive ==
    /\ \A t, u \in Threads :
          t # u /\ pc[t] = "access" /\ pc[u] = "access" => Index(pos[t]) # Index(pos[u])
    /\ \A s \in Senders : pc[s] = "access" => slot[Index(pos[s])] = NoMsg
    /\ \A r \in Receivers : pc[r] = "access" => slot[Index(pos[r])] # NoMsg
    /\ \A r \in Receivers :
          pc[r] = "discard" /\ stamp[Index(pos[r])] = pos[r] + 1
              => slot[Index(pos[r])] \notin dropped \cup {NoMsg}

\* Between calls, or asleep with nobody about to wake it.
Quiet(t)  == pc[t] \in {"idle", "done"} \/ (pc[t] = "park" /\ ~ permit[t])
Asleep(t) == pc[t] = "park" /\ ~ permit[t]

\* No wake-up is lost between the registration of a waiter, its recheck of the
\* channel and the notifier's look at is_empty: once every thread is between
\* calls or asleep, no receiver sleeps beside a message or a disconnection, and
\* no sender beside a free slot or a disconnection.
NoLostWakeup ==
    (\A t \in Threads : Quiet(t)) =>
        /\ \A r \in Receivers : Asleep(r) => head = tail /\ ~ marked
        /\ \A s \in Senders : Asleep(s) => head + OneLap = tail /\ ~ marked

\* A thread has an entry from its registration on, until it unregisters or a
\* notifier selects it.
Registered(t) ==
    \/ /\ pc[t] \in {"recheck", "recheck2", "is_disconnected", "abort", "wait", "park"}
       /\ select[t] # "operation"
    \/ pc[t] = "unregister"

\* `self.senders.unregister(oper).unwrap()` in send and recv: an operation
\* that ended Aborted or Disconnected is still registered, once, and one that
\* was selected by a notifier is not.
RegisteredWhileWaiting ==
    \A t \in Threads :
        LET at == {i \in DOMAIN queue[Side(t)] : queue[Side(t)][i] = t}
        IN IF Registered(t) THEN \E i \in at : at = {i} ELSE at = {}

\* The channel is freed once, by the last of the two sides, when no thread
\* uses it any more; the wakers are empty then (the assertions of their Drop),
\* and each message that was sent has been received or dropped.  And when every
\* handle has been dropped the channel is freed.
FreedAtTheEnd ==
    /\ freed => /\ \A t \in Threads : pc[t] = "done"
                /\ queue = [d \in Sides |-> << >>] /\ isEmpty = [d \in Sides |-> TRUE]
                /\ \A i \in 0..Cap - 1 : slot[i] \in dropped \cup {NoMsg}
    /\ (\A t \in Threads : pc[t] = "done") => freed

\* A call does not outlast the disconnection of the channel: whoever is in a
\* call, blocked or not, when the mark bit is set returns.
ReturnsAfterDisconnect ==
    \A t \in Threads : marked ~> pc[t] \in {"idle", "done"}
=============================================================================
