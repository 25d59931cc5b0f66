---------------------------- MODULE ListChannel ----------------------------
(***************************************************************************)
(* The unbounded channel of crossbeam-channel (flavors/list.rs): messages  *)
(* in linked blocks, receivers that block on the SyncWaker, and the        *)
(* disconnection of either side.  When the receivers go first the last one *)
(* discards the messages and frees the blocks while senders may still be   *)
(* allocating the first block, installing the next or writing a message.   *)
(* Each thread owns one handle.                                            *)
(***************************************************************************)
EXTENDS BlockList, Waker, FiniteSets

CONSTANTS Senders, Receivers, Modes, MaxSends

Threads  == Senders \cup Receivers
Messages == 1..MaxSends
NoMsg    == << >>

VARIABLES
    head,      \* Position of the head: index, MARK_BIT (has next), block
    tail,      \* Position of the tail: index, MARK_BIT (disconnected), block
    blocks,    \* every block allocated so far
    waiters,   \* receivers: Waker::selectors
    isEmpty,   \* receivers: SyncWaker::is_empty
    select,    \* Context's selected operation of each thread
    permit,    \* the park token of each thread
    counter,   \* Counter: senders, receivers, destroy, freed
    th,        \* what each thread is doing
    fresh,     \* the next message to send
    result,    \* result of each thread's last call
    log,       \* history: the messages in the order their slots were claimed
    taken,     \* history: how many of them were received
    dropped    \* history: the messages dropped inside the channel

chan   == <<head, tail, blocks>>
wakers == <<waiters, isEmpty, select, permit>>
hist   == <<log, taken, dropped>>
vars   == <<chan, wakers, counter, th, fresh, result, hist>>

Result(k, m) == [kind |-> k, msg |-> m]
Idle == [pc |-> "idle", mode |-> "try", pos |-> 0, nx |-> FALSE, blk |-> Null,
         new |-> Null, val |-> NoValue]
Content == SubSeq(log, taken + Len(dropped) + 1, Len(log))

At(t, l)   == th[t].pc = l
Goto(t, l) == th' = [th EXCEPT ![t].pc = l]

\* What a step inside a call or a drop leaves alone.
Calm  == UNCHANGED <<wakers, counter, fresh, result, hist>>
Quiet == UNCHANGED <<chan, counter, fresh, hist>>

Init ==
    /\ head = [idx |-> 0, nx |-> FALSE, blk |-> Null]
    /\ tail = [idx |-> 0, mark |-> FALSE, blk |-> Null]
    /\ blocks = << >>
    /\ waiters = << >> /\ isEmpty = TRUE
    /\ select = [t \in Threads |-> Waiting]
    /\ permit = [t \in Threads |-> FALSE]
    /\ counter = [send |-> Cardinality(Senders), recv |-> Cardinality(Receivers),
                  destroy |-> FALSE, freed |-> FALSE]
    /\ th = [t \in Threads |-> Idle]
    /\ fresh = 1
    /\ result = [t \in Threads |-> Result("none", NoMsg)]
    /\ log = << >> /\ taken = 0 /\ dropped = << >>

Begin(t) ==
    /\ At(t, "idle")
    /\ \/ /\ t \in Senders /\ fresh <= MaxSends
          /\ th' = [th EXCEPT ![t].pc = "send", ![t].val = fresh]
          /\ fresh' = fresh + 1
       \/ /\ t \in Receivers
          /\ \E m \in Modes : th' = [th EXCEPT ![t].pc = "recv", ![t].mode = m]
          /\ UNCHANGED fresh
    /\ result' = [result EXCEPT ![t] = Result(IF tail.mark THEN "late" ELSE "early", NoMsg)]
    /\ UNCHANGED <<chan, wakers, counter, hist>>

Return(t, k, m) ==
    /\ th' = [th EXCEPT ![t] = Idle]
    /\ result' = [result EXCEPT ![t] = Result(k, m)]

-----------------------------------------------------------------------------
(***************************************************************************)
(* send: start_send and write.                                             *)
(***************************************************************************)
\* The call holds an index, just loaded; the block is loaded after it.
SendIndex(s) ==
    /\ At(s, "send")
    /\ th' = [th EXCEPT ![s].pc = "send_block", ![s].pos = tail.idx, ![s].nx = tail.mark]
    /\ UNCHANGED chan /\ Calm

\* A disconnected channel is reported by a token without a block.
SendBlock(s) ==
    /\ At(s, "send_block")
    /\ \/ /\ th[s].nx
          /\ Return(s, "disconnected", NoMsg)
       \/ /\ ~ th[s].nx
          /\ th' = [th EXCEPT ![s].blk = tail.blk,
                              ![s].pc = IF Offset(th[s].pos) = BlockCap THEN "send"
                                        ELSE IF tail.blk = Null THEN "first" ELSE "send_cas"]
          /\ UNCHANGED result
    /\ UNCHANGED <<chan, wakers, counter, fresh, hist>>

\* The first message allocates the first block, unless another sender has.
SendFirst(s) ==
    /\ At(s, "first")
    /\ \/ /\ tail.blk = Null
          /\ blocks' = Append(blocks, NewBlock)
          /\ tail' = [tail EXCEPT !.blk = Len(blocks')]
          /\ th' = [th EXCEPT ![s].pc = "first_head", ![s].blk = Len(blocks')]
       \/ /\ tail.blk # Null
          /\ Goto(s, "send")
          /\ UNCHANGED <<tail, blocks>>
    /\ UNCHANGED head /\ Calm

SendFirstHead(s) ==
    /\ At(s, "first_head")
    /\ head' = [head EXCEPT !.blk = th[s].blk]
    /\ Goto(s, "send_cas")
    /\ UNCHANGED <<tail, blocks>> /\ Calm

SendCas(s) ==
    /\ At(s, "send_cas")
    /\ tail.idx = th[s].pos /\ ~ tail.mark
    /\ tail' = [tail EXCEPT !.idx = @ + 1]
    /\ log' = Append(log, th[s].val)
    /\ result' = [result EXCEPT ![s] = Result("sent", th[s].val)]
    /\ Goto(s, IF LastSlot(th[s].pos) THEN "install_block" ELSE "write")
    /\ UNCHANGED <<head, blocks, wakers, counter, fresh, taken, dropped>>

SendCasFails(s) ==
    /\ At(s, "send_cas")
    /\ th' = [th EXCEPT ![s].pc = "send_block", ![s].pos = tail.idx, ![s].nx = tail.mark]
    /\ UNCHANGED chan /\ Calm

InstallBlock(s) ==
    /\ At(s, "install_block")
    /\ blocks' = Append(blocks, NewBlock)
    /\ tail' = [tail EXCEPT !.blk = Len(blocks')]
    /\ th' = [th EXCEPT ![s].pc = "install_index", ![s].new = Len(blocks')]
    /\ UNCHANGED head /\ Calm

\* Mutant of InstallIndex: a store, which takes the mark bit away.
InstallIndexStore(s) ==
    /\ At(s, "install_index")
    /\ tail' = [tail EXCEPT !.idx = th[s].pos + 2, !.mark = FALSE]
    /\ Goto(s, "install_next")
    /\ UNCHANGED <<head, blocks>> /\ Calm

\* fetch_add: the mark bit may have been set meanwhile and stays.
InstallIndex(s) ==
    /\ At(s, "install_index")
    /\ tail' = [tail EXCEPT !.idx = @ + 1]
    /\ Goto(s, "install_next")
    /\ UNCHANGED <<head, blocks>> /\ Calm

InstallNext(s) ==
    /\ At(s, "install_next")
    /\ blocks' = [blocks EXCEPT ![th[s].blk].next = th[s].new]
    /\ Goto(s, "write")
    /\ UNCHANGED <<head, tail>> /\ Calm

Write(s) ==
    /\ At(s, "write")
    /\ blocks' = [blocks EXCEPT ![th[s].blk] = WriteSlot(@, Offset(th[s].pos), th[s].val)]
    /\ th' = [th EXCEPT ![s] = [Idle EXCEPT !.pc = "notify"]]
    /\ UNCHANGED <<head, tail>> /\ Calm

\* SyncWaker::notify: is_empty is looked at first without the mutex.
Notify(s) ==
    /\ At(s, "notify")
    /\ Goto(s, IF isEmpty THEN "idle" ELSE "notify_lock")
    /\ UNCHANGED chan /\ Calm

NotifyLock(s) ==
    /\ At(s, "notify_lock")
    /\ LET i == IF isEmpty THEN 0 ELSE FirstWaiting(waiters, select, s)
       IN \/ /\ i = 0
             /\ UNCHANGED wakers
          \/ /\ i # 0
             /\ waiters' = RemoveAt(waiters, i)
             /\ isEmpty' = (waiters' = << >>)
             /\ select' = [select EXCEPT ![waiters[i].cx] = waiters[i].oper]
             /\ permit' = [permit EXCEPT ![waiters[i].cx] = TRUE]
    /\ Goto(s, "idle")
    /\ UNCHANGED result /\ Quiet

-----------------------------------------------------------------------------
(***************************************************************************)
(* recv: start_recv, read and blocking.                                    *)
(***************************************************************************)
\* start_recv returned false.
NotReady(r) ==
    \/ th[r].mode = "try" /\ Return(r, "empty", NoMsg)
    \/ th[r].mode \in {"timed", "expired"} /\ Return(r, "timeout", NoMsg)
    \/ /\ th[r].mode \in {"block", "timed"}
       /\ th' = [th EXCEPT ![r] = [Idle EXCEPT !.pc = "register", !.mode = th[r].mode]]
       /\ UNCHANGED result

RecvIndex(r) ==
    /\ At(r, "recv")
    /\ th' = [th EXCEPT ![r].pc = "recv_block", ![r].pos = head.idx, ![r].nx = head.nx]
    /\ UNCHANGED chan /\ Calm

RecvBlock(r) ==
    /\ At(r, "recv_block")
    /\ th' = [th EXCEPT ![r].blk = head.blk,
                        ![r].pc = IF Offset(th[r].pos) = BlockCap THEN "recv"
                                  ELSE IF ~ th[r].nx THEN "recv_tail"
                                  ELSE IF head.blk = Null THEN "recv" ELSE "recv_cas"]
    /\ UNCHANGED chan /\ Calm

\* Without MARK_BIT in the head the tail decides: empty, disconnected or not.
RecvTail(r) ==
    /\ At(r, "recv_tail")
    /\ \/ /\ tail.idx = th[r].pos /\ tail.mark
          /\ Return(r, "disconnected", NoMsg)
       \/ /\ tail.idx = th[r].pos /\ ~ tail.mark
          /\ NotReady(r)
       \/ /\ tail.idx # th[r].pos
          /\ th' = [th EXCEPT ![r].pc = IF th[r].blk = Null THEN "recv" ELSE "recv_cas",
                              ![r].new = IF tail.idx \div Lap # th[r].pos \div Lap
                                         THEN 1 ELSE 0]
          /\ UNCHANGED result
    /\ UNCHANGED <<chan, wakers, counter, fresh, hist>>

RecvCas(r) ==
    /\ At(r, "recv_cas")
    /\ head.idx = th[r].pos /\ head.nx = th[r].nx
    /\ head' = [head EXCEPT !.idx = @ + 1, !.nx = @ \/ th[r].new = 1]
    /\ taken' = taken + 1
    /\ th' = [th EXCEPT ![r].pc = IF LastSlot(th[r].pos) THEN "wait_next" ELSE "read",
                        ![r].new = Null, ![r].val = Head(Content)]
    /\ UNCHANGED <<tail, blocks, wakers, counter, fresh, result, log, dropped>>

RecvCasFails(r) ==
    /\ At(r, "recv_cas")
    /\ th' = [th EXCEPT ![r].pc = "recv_block", ![r].pos = head.idx, ![r].nx = head.nx,
                        ![r].new = Null]
    /\ UNCHANGED chan /\ Calm

WaitNext(r) ==
    /\ At(r, "wait_next")
    /\ LET next == blocks[th[r].blk].next
       IN /\ next # Null
          /\ th' = [th EXCEPT ![r].pc = "move_block", ![r].new = next,
                              ![r].nx = blocks[next].next # Null]
    /\ UNCHANGED chan /\ Calm

MoveBlock(r) ==
    /\ At(r, "move_block")
    /\ head' = [head EXCEPT !.blk = th[r].new]
    /\ Goto(r, "move_index")
    /\ UNCHANGED <<tail, blocks>> /\ Calm

MoveIndex(r) ==
    /\ At(r, "move_index")
    /\ head' = [head EXCEPT !.idx = th[r].pos + 2, !.nx = th[r].nx]
    /\ th' = [th EXCEPT ![r].pc = "read", ![r].new = Null]
    /\ UNCHANGED <<tail, blocks>> /\ Calm

\* read: wait_write, then the message is moved out of the slot.
Read(r) ==
    /\ At(r, "read")
    /\ LET b == blocks[th[r].blk]
           i == Offset(th[r].pos)
       IN /\ "write" \in b.state[i]
          /\ result' = [result EXCEPT ![r] = Result("got", b.val[i])]
    /\ th' = [th EXCEPT ![r].pc = IF LastSlot(th[r].pos) THEN "destroy" ELSE "mark_read",
                        ![r].new = 0]
    /\ UNCHANGED <<chan, wakers, counter, fresh, hist>>

MarkRead(r) ==
    /\ At(r, "mark_read")
    /\ LET i == Offset(th[r].pos)
       IN /\ blocks' = [blocks EXCEPT ![th[r].blk] = MarkSlot(@, i, "read")]
          /\ th' = [th EXCEPT ![r] = IF "destroy" \in blocks[th[r].blk].state[i]
                                     THEN [@ EXCEPT !.pc = "destroy", !.new = i + 1]
                                     ELSE Idle]
    /\ UNCHANGED <<head, tail>> /\ Calm

\* Block::destroy.
DestroyBlock(r) ==
    /\ At(r, "destroy")
    /\ LET b == th[r].blk
           i == th[r].new
       IN \/ /\ i < BlockCap - 1 /\ "read" \notin blocks[b].state[i]
             /\ blocks' = [blocks EXCEPT ![b] = MarkSlot(@, i, "destroy")]
             /\ th' = [th EXCEPT ![r] = Idle]
          \/ /\ i < BlockCap - 1 /\ "read" \in blocks[b].state[i]
             /\ th' = [th EXCEPT ![r].new = i + 1]
             /\ UNCHANGED blocks
          \/ /\ i = BlockCap - 1
             /\ blocks' = [blocks EXCEPT ![b] = FreeBlock(@)]
             /\ th' = [th EXCEPT ![r] = Idle]
    /\ UNCHANGED <<head, tail>> /\ Calm

\* Context::reset and SyncWaker::register.
Register(r) ==
    /\ At(r, "register")
    /\ select' = [select EXCEPT ![r] = Waiting]
    /\ waiters' = Append(waiters, [cx |-> r, oper |-> <<"oper", r>>])
    /\ isEmpty' = FALSE
    /\ Goto(r, "recheck")
    /\ UNCHANGED <<permit, result>> /\ Quiet

\* is_empty loads the head, then the tail; is_disconnected the tail again.
Recheck(r) ==
    /\ At(r, "recheck")
    /\ th' = [th EXCEPT ![r].pc = "recheck2", ![r].pos = head.idx]
    /\ UNCHANGED chan /\ Calm

Recheck2(r) ==
    /\ At(r, "recheck2")
    /\ th' = [th EXCEPT ![r].pc = IF tail.idx = th[r].pos THEN "is_disconnected" ELSE "abort",
                        ![r].pos = 0]
    /\ UNCHANGED chan /\ Calm

IsDisconnected(r) ==
    /\ At(r, "is_disconnected")
    /\ Goto(r, IF tail.mark THEN "abort" ELSE "wait")
    /\ UNCHANGED chan /\ Calm

Abort(r) ==
    /\ At(r, "abort")
    /\ select' = Choose(select, r, Aborted)
    /\ Goto(r, "wait")
    /\ UNCHANGED <<waiters, isEmpty, permit, result>> /\ Quiet

Woken(sel) == IF sel \in {Aborted, Disconnected} THEN "unregister" ELSE "recv"

\* Context::wait_until: the load of the selection, then park.
Wait(r) ==
    /\ At(r, "wait")
    /\ Goto(r, IF select[r] = Waiting THEN "park" ELSE Woken(select[r]))
    /\ UNCHANGED chan /\ Calm

Park(r) ==
    /\ At(r, "park") /\ permit[r]
    /\ permit' = [permit EXCEPT ![r] = FALSE]
    /\ Goto(r, "wait")
    /\ UNCHANGED <<waiters, isEmpty, select, result>> /\ Quiet

\* The deadline has passed: the thread tries to select Aborted itself.
ParkTimeout(r) ==
    /\ At(r, "park") /\ th[r].mode = "timed"
    /\ select' = Choose(select, r, Aborted)
    /\ th' = [th EXCEPT ![r].mode = "expired", ![r].pc = Woken(select'[r])]
    /\ UNCHANGED <<waiters, isEmpty, permit, result>> /\ Quiet

Unregister(r) ==
    /\ At(r, "unregister")
    /\ waiters' = Unregistered(waiters, <<"oper", r>>)
    /\ isEmpty' = (waiters' = << >>)
    /\ Goto(r, "recv")
    /\ UNCHANGED <<select, permit, result>> /\ Quiet

-----------------------------------------------------------------------------
(***************************************************************************)
(* Dropping a handle: counter.rs, disconnect_senders, disconnect_receivers.*)
(***************************************************************************)
Side(t) == IF t \in Senders THEN "send" ELSE "recv"

DropHandle(t) ==
    /\ At(t, "idle")
    /\ counter' = [counter EXCEPT ![Side(t)] = @ - 1]
    /\ Goto(t, IF counter[Side(t)] = 1 THEN "mark" ELSE "done")
    /\ UNCHANGED <<chan, wakers, fresh, result, hist>>

\* fetch_or(MARK_BIT): the first side to set it wakes the receivers, or
\* discards the messages.
Mark(t) ==
    /\ At(t, "mark")
    /\ tail' = [tail EXCEPT !.mark = TRUE]
    /\ Goto(t, IF tail.mark THEN "release"
               ELSE IF t \in Senders THEN "disconnect" ELSE "discard")
    /\ UNCHANGED <<head, blocks>> /\ Calm

\* Mutant of Disconnect: the entries are removed.
DisconnectRemoves(s) ==
    /\ At(s, "disconnect")
    /\ LET woken == WaitingIn(waiters, select)
       IN /\ select' = [t \in Threads |-> IF t \in woken THEN Disconnected ELSE select[t]]
          /\ permit' = [t \in Threads |-> permit[t] \/ t \in woken]
    /\ waiters' = << >> /\ isEmpty' = TRUE
    /\ Goto(s, "release")
    /\ UNCHANGED result /\ Quiet

\* Waker::disconnect: the threads are selected and unparked; their entries are
\* left to themselves.
Disconnect(s) ==
    /\ At(s, "disconnect")
    /\ LET woken == WaitingIn(waiters, select)
       IN /\ select' = [t \in Threads |-> IF t \in woken THEN Disconnected ELSE select[t]]
          /\ permit' = [t \in Threads |-> permit[t] \/ t \in woken]
    /\ Goto(s, "release")
    /\ UNCHANGED <<waiters, isEmpty, result>> /\ Quiet

\* discard_all_messages waits for a tail that is not at a block's end: only
\* installing the next block still moves the marked tail.
Discard(r) ==
    /\ At(r, "discard")
    /\ Offset(tail.idx) # BlockCap
    /\ th' = [th EXCEPT ![r].pc = "discard_swap", ![r].new = tail.idx, ![r].pos = head.idx]
    /\ UNCHANGED chan /\ Calm

\* swap of the head's block with null, again while a message is there and the
\* sender that allocated the first block has not stored it.
DiscardSwap(r) ==
    /\ At(r, "discard_swap")
    /\ head' = [head EXCEPT !.blk = Null]
    /\ th' = [th EXCEPT ![r].blk = head.blk,
                        ![r].pc = IF head.blk = Null /\ th[r].pos # th[r].new
                                  THEN "discard_swap" ELSE "discard_slot"]
    /\ UNCHANGED <<tail, blocks>> /\ Calm

\* Mutant of DiscardSlot: the write is not waited for.
DiscardSlotEager(r) ==
    /\ At(r, "discard_slot") /\ th[r].pos # th[r].new
    /\ LET b == th[r].blk
           i == Offset(th[r].pos)
       IN \/ /\ i < BlockCap
             /\ dropped' = Append(dropped, blocks[b].val[i])
             /\ th' = [th EXCEPT ![r].pos = @ + 1]
             /\ UNCHANGED blocks
          \/ /\ i = BlockCap /\ blocks[b].next # Null
             /\ blocks' = [blocks EXCEPT ![b] = FreeBlock(@)]
             /\ th' = [th EXCEPT ![r].pos = @ + 1, ![r].blk = blocks[b].next]
             /\ UNCHANGED dropped
    /\ UNCHANGED <<head, tail, wakers, counter, fresh, result, log, taken>>

\* One position of the loop: a message is dropped once it is written; at a
\* block's end the block is freed once the next one is known.
DiscardSlot(r) ==
    /\ At(r, "discard_slot") /\ th[r].pos # th[r].new
    /\ LET b == th[r].blk
           i == Offset(th[r].pos)
       IN \/ /\ i < BlockCap /\ "write" \in blocks[b].state[i]
             /\ dropped' = Append(dropped, blocks[b].val[i])
             /\ th' = [th EXCEPT ![r].pos = @ + 1]
             /\ UNCHANGED blocks
          \/ /\ i = BlockCap /\ blocks[b].next # Null
             /\ blocks' = [blocks EXCEPT ![b] = FreeBlock(@)]
             /\ th' = [th EXCEPT ![r].pos = @ + 1, ![r].blk = blocks[b].next]
             /\ UNCHANGED dropped
    /\ UNCHANGED <<head, tail, wakers, counter, fresh, result, log, taken>>

\* The last block goes, and the head takes the tail's index.
DiscardEnd(r) ==
    /\ At(r, "discard_slot") /\ th[r].pos = th[r].new
    /\ blocks' = IF th[r].blk = Null THEN blocks
                 ELSE [blocks EXCEPT ![th[r].blk] = FreeBlock(@)]
    /\ head' = [head EXCEPT !.idx = th[r].pos, !.nx = FALSE]
    /\ th' = [th EXCEPT ![r] = [Idle EXCEPT !.pc = "release"]]
    /\ UNCHANGED tail /\ Calm

\* The block a position is in, found from the head along the next pointers.
BlockAt(i) ==
    LET walk[n \in Nat] == IF n = 0 THEN head.blk ELSE blocks[walk[n - 1]].next
    IN walk[i \div Lap - head.idx \div Lap]

\* The swap of Counter::destroy; the second side frees the channel, whose Drop
\* destroys the messages that are written and the blocks that are left.
Release(t) ==
    /\ At(t, "release")
    /\ counter' = [counter EXCEPT !.destroy = TRUE, !.freed = counter.destroy]
    /\ Goto(t, "done")
    /\ \/ /\ counter.destroy
          /\ LET left == {BlockAt(i) : i \in head.idx..tail.idx} \ {Null}
                 full == {i \in head.idx..tail.idx - 1 :
                             Offset(i) < BlockCap /\ "write" \in blocks[BlockAt(i)].state[Offset(i)]}
                 pos  == SetToSortSeq(full, <)
             IN /\ blocks' = [b \in DOMAIN blocks |->
                                 IF b \in left THEN FreeBlock(blocks[b]) ELSE blocks[b]]
                /\ dropped' = dropped \o [n \in DOMAIN pos |->
                                             blocks[BlockAt(pos[n])].val[Offset(pos[n])]]
       \/ /\ ~ counter.destroy
          /\ UNCHANGED <<blocks, dropped>>
    /\ UNCHANGED <<head, tail, wakers, fresh, result, log, taken>>

Terminated == (\A t \in Threads : At(t, "done")) /\ UNCHANGED vars

Progress(t) ==
    \/ t \in Senders /\ (\/ SendIndex(t) \/ SendBlock(t) \/ SendFirst(t) \/ SendFirstHead(t)
                         \/ SendCas(t) \/ SendCasFails(t) \/ InstallBlock(t)
                         \/ InstallIndex(t) \/ InstallNext(t) \/ Write(t) \/ Notify(t)
                         \/ NotifyLock(t) \/ Disconnect(t))
    \/ t \in Receivers /\ (\/ RecvIndex(t) \/ RecvBlock(t) \/ RecvTail(t) \/ RecvCas(t)
                           \/ RecvCasFails(t) \/ WaitNext(t) \/ MoveBlock(t) \/ MoveIndex(t)
                           \/ Read(t) \/ MarkRead(t) \/ DestroyBlock(t) \/ Register(t)
                           \/ Recheck(t) \/ Recheck2(t) \/ IsDisconnected(t) \/ Abort(t)
                           \/ Wait(t) \/ Park(t) \/ ParkTimeout(t) \/ Unregister(t)
                           \/ Discard(t) \/ DiscardSwap(t) \/ DiscardSlot(t) \/ DiscardEnd(t))
    \/ Mark(t) \/ Release(t)

Next ==
    \/ \E t \in Threads : Begin(t) \/ DropHandle(t) \/ Progress(t)
    \/ Terminated

Spec == Init /\ [][Next]_vars

\* Threads in a call keep running; one that competes with others by
\* compare_exchange succeeds at some time.
Fairness ==
    \A t \in Threads :
        /\ WF_vars(Progress(t))
        /\ SF_vars(t \in Senders /\ SendCas(t))
        /\ SF_vars(t \in Receivers /\ RecvCas(t))

LiveSpec == Spec /\ Fairness

-----------------------------------------------------------------------------
(***************************************************************************)
(* Properties.                                                             *)
(***************************************************************************)
\* The variables are of their types.
TypeOK ==
    /\ head \in [idx : Nat, nx : BOOLEAN, blk : DOMAIN blocks \cup {Null}]
    /\ tail \in [idx : Nat, mark : BOOLEAN, blk : DOMAIN blocks \cup {Null}]
    /\ waiters \in Seq([cx : Receivers, oper : {<<"oper", r>> : r \in Receivers}])
    /\ isEmpty \in BOOLEAN /\ permit \in [Threads -> BOOLEAN]
    /\ counter \in [send : 0..Cardinality(Senders), recv : 0..Cardinality(Receivers),
                    destroy : BOOLEAN, freed : BOOLEAN]
    /\ \A t \in Threads : th[t].blk \in DOMAIN blocks \cup {Null}
    /\ fresh \in 1..MaxSends + 1 /\ log \in Seq(Messages) /\ taken \in 0..Len(log)

\* The thread dereferences its block in the step it is about to take.
Uses(t) ==
    \/ th[t].pc \in {"install_next", "write", "wait_next", "read", "mark_read", "destroy"}
    \/ At(t, "discard_slot") /\ th[t].blk # Null

\* A block is not touched after it was freed and is freed once, and when the
\* channel is gone every block is and every message was received or dropped.
BlocksFreedOnce ==
    /\ \A t \in Threads : Uses(t) => blocks[th[t].blk].freed = 0
    /\ \A b \in DOMAIN blocks : blocks[b].freed <= 1
    /\ counter.freed => /\ \A b \in DOMAIN blocks : blocks[b].freed = 1
                        /\ \A t \in Threads : At(t, "done")
                        /\ waiters = << >> /\ isEmpty

\* A message is dropped once, and only one that nobody received.
EachMessageOnce ==
    /\ dropped = SubSeq(log, taken + 1, taken + Len(dropped))
    /\ counter.freed => Content = << >>

Asleep(t) == At(t, "park") /\ ~ permit[t]

\* When nobody takes a step, a receiver sleeps only on a channel that is empty and
\* connected, however its registration raced with a sender's look at is_empty.
NoLostWakeup ==
    (\A t \in Threads : th[t].pc \in {"idle", "done"} \/ Asleep(t)) =>
        \A r \in Receivers : Asleep(r) => Content = << >> /\ ~ tail.mark

\* `self.receivers.unregister(oper).unwrap()` finds the entry: neither a notifier
\* nor the disconnection removes that of a wait which ended otherwise.
UnregisterSucceeds ==
    \A r \in Receivers : At(r, "unregister") => Registered(waiters, <<"oper", r>>)

\* A call does not outlast the disconnection of the channel, and discarding the
\* messages ends.
ReturnsAfterDisconnect ==
    \A t \in Threads : tail.mark ~> th[t].pc \in {"idle", "done"}

Abstract == INSTANCE Channel WITH
    Cap <- MaxSends + 1,
    buf <- Content,
    disconnected <- tail.mark,
    live <- {r \in Receivers : th[r].pc \notin {"mark", "discard", "discard_swap", "discard_slot",
                                               "release", "done"}},
    result <- [t \in Threads |->
                  IF th[t].pc \in {"wait_next", "move_block", "move_index", "read"}
                  THEN Result("got", th[t].val) ELSE result[t]]

\* Every call takes effect at one moment on a FIFO buffer without a bound, with
\* the result that it calls for.
ImplementsChannel == Abstract!Spec
=============================================================================
