----------------------------- MODULE ArrayQueue -----------------------------
(***************************************************************************)
(* crossbeam_queue::ArrayQueue: the lock-free ring of stamped slots with   *)
(* push, force_push, pop and the observers len, is_empty and is_full, the  *)
(* operations on an exclusive reference, the owning iterator and drop.     *)
(*                                                                         *)
(* A step of a shared operation is one atomic access; the write or read of *)
(* the value is one step with the store of the stamp that publishes it.    *)
(***************************************************************************)
EXTENDS Integers, Sequences, FiniteSets, SequencesExt

CONSTANTS Threads,
          Cap,       \* capacity of the queue
          Scenarios, \* the operations each thread uses: functions
          MaxPushes  \* bound: values pushed, in all

ASSUME ArrayQueueAssumption ==
    /\ Cap \in Nat \ {0}
    /\ \A s \in Scenarios : s \in [Threads -> SUBSET {"push", "force_push", "pop", "len",
                                                    "is_empty", "is_full"}]
    /\ MaxPushes \in Nat

Values  == 1..MaxPushes
NoValue == 0

\* new: the smallest power of two greater than the capacity.
OneLap == CHOOSE b \in {2 ^ i : i \in 0..Cap} :
             b >= Cap + 1 /\ \A c \in {2 ^ i : i \in 0..Cap} : c >= Cap + 1 => b <= c

Index(x) == x % OneLap
Lap(x)   == x - Index(x)
Succ(x)  == IF Index(x) + 1 < Cap THEN x + 1 ELSE Lap(x) + OneLap

\* Mutant of Length: equal indices are taken to mean an empty queue.
LengthEqualIsEmpty(h, t) ==
    IF Index(h) <= Index(t) THEN Index(t) - Index(h) ELSE Cap - Index(h) + Index(t)

\* len and drop: the number of values between two positions.
Length(h, t) ==
    LET hix == Index(h)
        tix == Index(t)
    IN IF hix < tix THEN tix - hix
       ELSE IF hix > tix THEN Cap - hix + tix
       ELSE IF t = h THEN 0 ELSE Cap

VARIABLES
    head, tail,  \* ArrayQueue::head, ArrayQueue::tail
    stamp,       \* Slot::stamp of each slot
    slot,        \* Slot::value, or NoValue where it is uninitialised or moved out
    phase,       \* "shared", "owned" by an iterator, "dropped"
    pc, op,      \* what each thread is doing, and in which operation
    pos,         \* the tail or head the call has loaded
    pos2,        \* len: the head it has loaded
    val,         \* the value each thread is pushing
    fresh,       \* the next value to push
    result,      \* result of each thread's last call
    seen,        \* history: lengths of the queue during an observer's call
    dropped,     \* the values dropped with the queue
    ops          \* the scenario

ring    == <<head, tail, stamp, slot, phase, dropped>>
threads == <<pc, op, pos, pos2, val, fresh, result, seen>>
vars    == <<ring, threads, ops>>

Result(k, v) == [kind |-> k, val |-> v]
Goto(t, l)   == pc' = [pc EXCEPT ![t] = l]
Observers    == {"len", "is_empty", "is_full"}

(***************************************************************************)
(* The abstract content.                                                   *)
(***************************************************************************)
\* force_push has moved the head and not yet the tail.
End == IF \E t \in Threads : pc[t] = "move_tail" THEN Succ(tail) ELSE tail

\* The positions from head to End, counted by whole laps.
Count == ((End \div OneLap) - (head \div OneLap)) * Cap + Index(End) - Index(head)
At(i) == LET n == Index(head) + i
         IN Lap(head) + (n \div Cap) * OneLap + (n % Cap)

\* A position is filled, or a thread has reserved it and is about to write.
ValueAt(x) ==
    IF stamp[Index(x)] = x + 1 THEN slot[Index(x)]
    ELSE val[CHOOSE t \in Threads : pc[t] \in {"write", "move_tail", "swap"} /\ pos[t] = x]

Buffer == IF phase = "dropped" THEN << >> ELSE [i \in 1..Count |-> ValueAt(At(i - 1))]

\* Every observer in progress takes note of the length after a step that
\* changes it.
Note == seen' = [t \in Threads |-> IF op[t] \in Observers
                                   THEN seen[t] \cup {Count'} ELSE {}]

Init ==
    /\ head = 0 /\ tail = 0
    /\ stamp = [i \in 0..Cap - 1 |-> i]
    /\ slot = [i \in 0..Cap - 1 |-> NoValue]
    /\ phase = "shared"
    /\ pc = [t \in Threads |-> "idle"]
    /\ op = [t \in Threads |-> "none"]
    /\ pos = [t \in Threads |-> 0]
    /\ pos2 = [t \in Threads |-> 0]
    /\ val = [t \in Threads |-> NoValue]
    /\ fresh = 1
    /\ result = [t \in Threads |-> Result("none", NoValue)]
    /\ seen = [t \in Threads |-> {}]
    /\ dropped = {}
    /\ ops \in Scenarios

Pushing(t) == op[t] \in {"push", "force_push"}

Begin(t) ==
    /\ phase = "shared"
    /\ pc[t] = "idle"
    /\ \E o \in ops[t] :
          /\ seen' = [seen EXCEPT ![t] = IF o \in Observers THEN {Len(Buffer)} ELSE {}]
          /\ op' = [op EXCEPT ![t] = o]
          /\ \/ /\ o \in {"push", "force_push"}
                /\ fresh <= MaxPushes
                /\ val' = [val EXCEPT ![t] = fresh]
                /\ fresh' = fresh + 1
             \/ /\ o \notin {"push", "force_push"}
                /\ UNCHANGED <<val, fresh>>
    /\ result' = [result EXCEPT ![t] = Result("pending", NoValue)]
    /\ Goto(t, "load")
    /\ UNCHANGED <<ring, pos, pos2>>

Return(t, k, v) ==
    /\ Goto(t, "idle")
    /\ op' = [op EXCEPT ![t] = "none"]
    /\ pos' = [pos EXCEPT ![t] = 0]
    /\ pos2' = [pos2 EXCEPT ![t] = 0]
    /\ val' = [val EXCEPT ![t] = NoValue]
    /\ result' = [result EXCEPT ![t] = Result(k, v)]
    /\ seen' = [seen EXCEPT ![t] = {}]

KeepCall == UNCHANGED <<op, pos2, val, result, seen>>

(***************************************************************************)
(* push_or_else, with the closures of push and force_push.                 *)
(***************************************************************************)
LoadTail(t) ==
    /\ pc[t] = "load" /\ Pushing(t)
    /\ pos' = [pos EXCEPT ![t] = tail]
    /\ Goto(t, "stamp")
    /\ KeepCall /\ UNCHANGED <<ring, fresh>>

PushStamp(t) ==
    /\ pc[t] = "stamp" /\ Pushing(t)
    /\ LET st == stamp[Index(pos[t])]
       IN Goto(t, IF st = pos[t] THEN "cas"
                  ELSE IF st + OneLap = pos[t] + 1
                       THEN (IF op[t] = "push" THEN "check" ELSE "force") ELSE "load")
    /\ KeepCall /\ UNCHANGED <<ring, fresh, pos>>

PushCas(t) ==
    /\ pc[t] = "cas" /\ Pushing(t)
    /\ tail = pos[t]
    /\ tail' = Succ(tail)
    /\ Goto(t, "write")
    /\ UNCHANGED <<head, stamp, slot, phase, dropped, op, pos, pos2, val, fresh, result>>
    /\ Note

\* The weak compare_exchange may fail without cause.
PushCasFails(t) ==
    /\ pc[t] = "cas" /\ Pushing(t)
    /\ pos' = [pos EXCEPT ![t] = tail]
    /\ Goto(t, "stamp")
    /\ KeepCall /\ UNCHANGED <<ring, fresh>>

Write(t) ==
    /\ pc[t] = "write"
    /\ slot' = [slot EXCEPT ![Index(pos[t])] = val[t]]
    /\ stamp' = [stamp EXCEPT ![Index(pos[t])] = pos[t] + 1]
    /\ Return(t, "pushed", val[t])
    /\ UNCHANGED <<head, tail, phase, dropped, fresh>>

\* push's closure: full if the head lags one lap behind the tail.
PushCheck(t) ==
    /\ pc[t] = "check" /\ op[t] = "push"
    /\ \/ /\ head + OneLap = pos[t]
          /\ Return(t, "full", NoValue)
       \/ /\ head + OneLap # pos[t]
          /\ Goto(t, "load")
          /\ KeepCall /\ UNCHANGED pos
    /\ UNCHANGED <<ring, fresh>>

\* Mutant of ForceCas: the head is moved without comparing it.
ForceStore(t) ==
    /\ pc[t] = "force"
    /\ head' = Succ(pos[t]) - OneLap
    /\ Goto(t, "move_tail")
    /\ KeepCall /\ UNCHANGED <<tail, stamp, slot, phase, dropped, fresh, pos>>

\* force_push's closure: the compare_exchange that takes the oldest value out.
ForceCas(t) ==
    /\ pc[t] = "force"
    /\ head = pos[t] - OneLap
    /\ head' = Succ(pos[t]) - OneLap
    /\ Goto(t, "move_tail")
    /\ KeepCall /\ UNCHANGED <<tail, stamp, slot, phase, dropped, fresh, pos>>

ForceCasFails(t) ==
    /\ pc[t] = "force"
    /\ Goto(t, "load")
    /\ KeepCall /\ UNCHANGED <<ring, fresh, pos>>

ForceMoveTail(t) ==
    /\ pc[t] = "move_tail"
    /\ tail' = Succ(pos[t])
    /\ Goto(t, "swap")
    /\ KeepCall /\ UNCHANGED <<head, stamp, slot, phase, dropped, fresh, pos>>

ForceSwap(t) ==
    /\ pc[t] = "swap"
    /\ slot' = [slot EXCEPT ![Index(pos[t])] = val[t]]
    /\ stamp' = [stamp EXCEPT ![Index(pos[t])] = pos[t] + 1]
    /\ Return(t, "replaced", slot[Index(pos[t])])
    /\ UNCHANGED <<head, tail, phase, dropped, fresh>>

(***************************************************************************)
(* pop.                                                                    *)
(***************************************************************************)
LoadHead(t) ==
    /\ pc[t] = "load" /\ op[t] = "pop"
    /\ pos' = [pos EXCEPT ![t] = head]
    /\ Goto(t, "stamp")
    /\ KeepCall /\ UNCHANGED <<ring, fresh>>

PopStamp(t) ==
    /\ pc[t] = "stamp" /\ op[t] = "pop"
    /\ LET st == stamp[Index(pos[t])]
       IN Goto(t, IF st = pos[t] + 1 THEN "cas" ELSE IF st = pos[t] THEN "check" ELSE "load")
    /\ KeepCall /\ UNCHANGED <<ring, fresh, pos>>

PopCas(t) ==
    /\ pc[t] = "cas" /\ op[t] = "pop"
    /\ head = pos[t]
    /\ head' = Succ(head)
    /\ Goto(t, "read")
    /\ UNCHANGED <<tail, stamp, slot, phase, dropped, op, pos, pos2, val, fresh, result>>
    /\ Note

PopCasFails(t) ==
    /\ pc[t] = "cas" /\ op[t] = "pop"
    /\ pos' = [pos EXCEPT ![t] = head]
    /\ Goto(t, "stamp")
    /\ KeepCall /\ UNCHANGED <<ring, fresh>>

Read(t) ==
    /\ pc[t] = "read"
    /\ slot' = [slot EXCEPT ![Index(pos[t])] = NoValue]
    /\ stamp' = [stamp EXCEPT ![Index(pos[t])] = pos[t] + OneLap]
    /\ Return(t, "popped", slot[Index(pos[t])])
    /\ UNCHANGED <<head, tail, phase, dropped, fresh>>

PopCheck(t) ==
    /\ pc[t] = "check" /\ op[t] = "pop"
    /\ \/ /\ tail = pos[t]
          /\ Return(t, "empty", NoValue)
       \/ /\ tail # pos[t]
          /\ Goto(t, "load")
          /\ KeepCall /\ UNCHANGED pos
    /\ UNCHANGED <<ring, fresh>>

(***************************************************************************)
(* len, is_empty and is_full.                                              *)
(***************************************************************************)
\* The first load: the head for is_empty, the tail for the others.
ObserveLoad(t) ==
    /\ pc[t] = "load" /\ op[t] \in Observers
    /\ pos' = [pos EXCEPT ![t] = IF op[t] = "is_empty" THEN head ELSE tail]
    /\ Goto(t, "observe")
    /\ KeepCall /\ UNCHANGED <<ring, fresh>>

\* The second load.  A truth value is reported as 1 or 0.
Observe(t) ==
    /\ pc[t] = "observe"
    /\ \/ /\ op[t] = "len"
          /\ pos2' = [pos2 EXCEPT ![t] = head]
          /\ Goto(t, "confirm")
          /\ UNCHANGED <<op, pos, val, result, seen>>
       \/ /\ op[t] = "is_empty"
          /\ Return(t, "observed", IF tail = pos[t] THEN 1 ELSE 0)
       \/ /\ op[t] = "is_full"
          /\ Return(t, "observed", IF head + OneLap = pos[t] THEN 1 ELSE 0)
    /\ UNCHANGED <<ring, fresh>>

\* Mutant of LenConfirm: the tail is not loaded again.
LenUnconfirmed(t) ==
    /\ pc[t] = "confirm"
    /\ Return(t, "observed", Length(pos2[t], pos[t]))
    /\ UNCHANGED <<ring, fresh>>

\* len loads the tail again and starts over if it has moved.
LenConfirm(t) ==
    /\ pc[t] = "confirm"
    /\ \/ /\ tail = pos[t]
          /\ Return(t, "observed", Length(pos2[t], pos[t]))
       \/ /\ tail # pos[t]
          /\ Goto(t, "load")
          /\ KeepCall /\ UNCHANGED pos
    /\ UNCHANGED <<ring, fresh>>

(***************************************************************************)
(* Exclusive access: push_mut, pop_mut, the owning iterator and drop.      *)
(***************************************************************************)
Exclusive == \A t \in Threads : pc[t] = "idle"

PushMut ==
    /\ phase = "shared" /\ Exclusive /\ fresh <= MaxPushes
    /\ head + OneLap # tail
    /\ tail' = Succ(tail)
    /\ slot' = [slot EXCEPT ![Index(tail)] = fresh]
    /\ stamp' = [stamp EXCEPT ![Index(tail)] = tail + 1]
    /\ fresh' = fresh + 1
    /\ UNCHANGED <<head, phase, dropped, pc, op, pos, pos2, val, result, seen>>

PopMut ==
    /\ phase = "shared" /\ Exclusive
    /\ tail # head
    /\ head' = Succ(head)
    /\ slot' = [slot EXCEPT ![Index(head)] = NoValue]
    /\ stamp' = [stamp EXCEPT ![Index(head)] = head + OneLap]
    /\ UNCHANGED <<tail, phase, dropped, threads>>

IntoIter ==
    /\ phase = "shared" /\ Exclusive
    /\ phase' = "owned"
    /\ UNCHANGED <<head, tail, stamp, slot, dropped, threads>>

\* IntoIter::next leaves the stamp alone.
IntoIterNext ==
    /\ phase = "owned"
    /\ head # tail
    /\ head' = Succ(head)
    /\ slot' = [slot EXCEPT ![Index(head)] = NoValue]
    /\ UNCHANGED <<tail, stamp, phase, dropped, threads>>

\* Drop walks over Length(head, tail) slots from the head's.
DropQueue ==
    /\ phase # "dropped" /\ Exclusive
    /\ phase' = "dropped"
    /\ dropped' = {slot[LET n == Index(head) + i IN IF n < Cap THEN n ELSE n - Cap]
                      : i \in 0..Length(head, tail) - 1}
    /\ UNCHANGED <<head, tail, stamp, slot, threads>>

Step(t) ==
    \/ LoadTail(t) \/ PushStamp(t) \/ PushCas(t) \/ PushCasFails(t) \/ Write(t)
    \/ PushCheck(t) \/ ForceCas(t) \/ ForceCasFails(t) \/ ForceMoveTail(t) \/ ForceSwap(t)
    \/ LoadHead(t) \/ PopStamp(t) \/ PopCas(t) \/ PopCasFails(t) \/ Read(t) \/ PopCheck(t)
    \/ ObserveLoad(t) \/ Observe(t) \/ LenConfirm(t)

Terminated == phase = "dropped" /\ UNCHANGED vars

Next ==
    /\ \/ \E t \in Threads : Begin(t) \/ Step(t)
       \/ PushMut \/ PopMut \/ IntoIter \/ IntoIterNext \/ DropQueue \/ Terminated
    /\ UNCHANGED ops

Spec == Init /\ [][Next]_vars

-----------------------------------------------------------------------------
(***************************************************************************)
(* Properties.                                                             *)
(***************************************************************************)
TypeOK ==
    /\ head \in Nat /\ tail \in Nat
    /\ stamp \in [0..Cap - 1 -> Nat]
    /\ slot \in [0..Cap - 1 -> Values \cup {NoValue}]
    /\ phase \in {"shared", "owned", "dropped"}
    /\ pc \in [Threads -> {"idle", "load", "stamp", "cas", "check", "force", "write",
                           "read", "move_tail", "swap", "observe", "confirm"}]
    /\ \A t \in Threads : op[t] \in ops[t] \cup {"none"}
    /\ pos \in [Threads -> Nat] /\ pos2 \in [Threads -> Nat]
    /\ val \in [Threads -> Values \cup {NoValue}]
    /\ fresh \in 1..MaxPushes + 1
    /\ result \in [Threads -> [kind : {"none", "pending", "pushed", "full", "replaced",
                                       "popped", "empty", "observed"},
                               val : 0..MaxPushes + Cap]]
    /\ seen \in [Threads -> SUBSET (0..Cap)]
    /\ dropped \subseteq Values

\* The UnsafeCell of a slot is accessed by one thread at a time, also while
\* force_push replaces a value that the head has already left behind.
SlotExclusive ==
    LET Access(t) == pc[t] \in {"write", "read", "move_tail", "swap"}
    IN \A t \in Threads : Access(t) =>
          /\ \A u \in Threads \ {t} : Access(u) => Index(pos[t]) # Index(pos[u])
          /\ (pc[t] = "write") = (slot[Index(pos[t])] = NoValue)

\* A call in the middle of its effect has its result already.
ResultOf(t) ==
    CASE pc[t] = "write" -> Result("pushed", val[t])
      [] pc[t] = "read" -> Result("popped", slot[Index(pos[t])])
      [] pc[t] \in {"move_tail", "swap"} -> Result("replaced", slot[Index(pos[t])])
      [] OTHER -> result[t]

Abstract == INSTANCE BoundedQueue WITH
    buf <- Buffer, result <- [t \in Threads |-> ResultOf(t)]

\* Every operation on the ArrayQueue takes effect atomically on a FIFO queue
\* of Cap values: force_push replaces the oldest value in one moment although
\* it moves the head, the tail and the stamp in three.
ImplementsQueue == Abstract!Spec

\* Drop destroys the values that are in the queue, each once, whether the
\* indices of head and tail say so directly, wrap around or are equal.
DropsWhatIsLeft ==
    [][phase' = "dropped" /\ phase # "dropped" => dropped' = ToSet(Buffer)]_vars

\* An observer reports the queue as it was at some moment of its call.
ObserversAgree ==
    [][\A t \in Threads :
          op[t] \in Observers /\ result'[t].kind = "observed" /\ result[t].kind = "pending" =>
              LET n == result'[t].val
              IN CASE op[t] = "len"      -> n \in seen[t]
                   [] op[t] = "is_empty" -> IF n = 1 THEN 0 \in seen[t] ELSE seen[t] # {0}
                   [] op[t] = "is_full"  -> IF n = 1 THEN Cap \in seen[t] ELSE seen[t] # {Cap}
      ]_vars

=============================================================================
