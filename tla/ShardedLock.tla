---------------------------- MODULE ShardedLock ----------------------------
(***************************************************************************)
(* crossbeam-utils' ShardedLock: a reader-writer lock made of shards, each *)
(* a std::sync::RwLock.  A reader locks the one shard that its thread's    *)
(* index names, a writer locks all of them in order, storing the guards in *)
(* the shards, and unlocks them in reverse.  Indices are given out when a  *)
(* thread first reads and come back when it exits.  A panic with a guard   *)
(* in hand poisons the shards one by one as they are unlocked.             *)
(***************************************************************************)
EXTENDS Integers, Sequences, FiniteSets

CONSTANTS Threads,
          NumShards, \* NUM_SHARDS, a power of two
          Calls,     \* the calls that a thread may make
          MaxCalls   \* a bound: the calls a thread makes

ASSUME ShardsAssumption == NumShards \in Nat \ {0}

Shards   == 0..NumShards - 1
NoIndex  == -1

VARIABLES
    readers,  \* the threads that have each shard's RwLock for reading
    writer,   \* the thread that has it for writing, as a set of at most one
    guard,    \* write_guard of each shard: the thread whose guard is stored there, as a set
    poisoned, \* the shards whose RwLock is poisoned
    index,    \* Registration of each thread, NoIndex before the first read
    indices,  \* THREAD_INDICES: free_list and next_index
    left,     \* calls each thread may still make
    th        \* what each thread is doing: call, pc, k = shards locked, Ok or Err

locks == <<readers, writer, guard, poisoned>>
vars  == <<locks, index, indices, left, th>>

Idle == [pc |-> "idle", op |-> "none", k |-> 0, res |-> "Ok"]

Init ==
    /\ readers = [s \in Shards |-> {}]
    /\ writer = [s \in Shards |-> {}]
    /\ guard = [s \in Shards |-> {}]
    /\ poisoned = {}
    /\ index = [t \in Threads |-> NoIndex]
    /\ indices = [free |-> << >>, next |-> 0]
    /\ left = [t \in Threads |-> MaxCalls]
    /\ th = [t \in Threads |-> Idle]

At(t, l) == th[t].pc = l

\* current_index() & (shards.len() - 1)
ShardOf(t) == index[t] % NumShards

\* Mutant of Register: the index stays on the free list.
RegisterKeeps(t) ==
    IF index[t] # NoIndex THEN UNCHANGED <<index, indices>>
    ELSE IF indices.free # << >>
    THEN /\ index' = [index EXCEPT ![t] = indices.free[Len(indices.free)]]
         /\ UNCHANGED indices
    ELSE /\ index' = [index EXCEPT ![t] = indices.next]
         /\ indices' = [indices EXCEPT !.next = @ + 1]

\* The thread-local Registration: the last index that came back, or a new one.
Register(t) ==
    IF index[t] # NoIndex THEN UNCHANGED <<index, indices>>
    ELSE IF indices.free # << >>
    THEN /\ index' = [index EXCEPT ![t] = indices.free[Len(indices.free)]]
         /\ indices' = [indices EXCEPT !.free = SubSeq(@, 1, Len(@) - 1)]
    ELSE /\ index' = [index EXCEPT ![t] = indices.next]
         /\ indices' = [indices EXCEPT !.next = @ + 1]

Begin(t) ==
    /\ At(t, "idle") /\ left[t] > 0
    /\ left' = [left EXCEPT ![t] = @ - 1]
    /\ \E o \in Calls :
          /\ th' = [th EXCEPT ![t] = [op |-> o, k |-> 0, res |-> "Ok",
                                pc |-> IF o \in {"read", "try_read"} THEN "rlock" ELSE "wlock"]]
          /\ IF o \in {"read", "try_read"} THEN Register(t) ELSE UNCHANGED <<index, indices>>
    /\ UNCHANGED locks

\* RwLock: no writer for a reader, nobody at all for a writer.
CanRead(s)  == writer[s] = {}
CanWrite(s) == writer[s] = {} /\ readers[s] = {}

-----------------------------------------------------------------------------
(***************************************************************************)
(* read, try_read and the drop of a ShardedLockReadGuard.                  *)
(***************************************************************************)
ReadLock(t) ==
    /\ At(t, "rlock") /\ CanRead(ShardOf(t))
    /\ readers' = [readers EXCEPT ![ShardOf(t)] = @ \cup {t}]
    /\ th' = [th EXCEPT ![t].pc = "reading", ![t].res = IF ShardOf(t) \in poisoned THEN "Err" ELSE @]
    /\ UNCHANGED <<writer, guard, poisoned, index, indices, left>>

\* RwLock::try_read may also fail without need.
TryReadFails(t) ==
    /\ At(t, "rlock") /\ th[t].op = "try_read"
    /\ th' = [th EXCEPT ![t] = Idle]
    /\ UNCHANGED <<locks, index, indices, left>>

ReadUnlock(t) ==
    /\ At(t, "reading")
    /\ readers' = [readers EXCEPT ![ShardOf(t)] = @ \ {t}]
    /\ th' = [th EXCEPT ![t] = Idle]
    /\ UNCHANGED <<writer, guard, poisoned, index, indices, left>>

-----------------------------------------------------------------------------
(***************************************************************************)
(* write, try_write and the drop of a ShardedLockWriteGuard.               *)
(***************************************************************************)
\* Mutant of WriteLock: the last shard is left out.
WriteLockButOne(t) ==
    /\ At(t, "wlock") /\ CanWrite(th[t].k)
    /\ writer' = [writer EXCEPT ![th[t].k] = {t}]
    /\ guard' = [guard EXCEPT ![th[t].k] = {t}]
    /\ th' = [th EXCEPT ![t] = [op |-> @.op, k |-> @.k + 1, res |-> IF @.k \in poisoned THEN "Err" ELSE @.res,
                              pc |-> IF @.k + 2 >= NumShards THEN "writing" ELSE "wlock"]]
    /\ UNCHANGED <<readers, poisoned, index, indices, left>>

\* One shard after the other is locked, and its guard stored in it.
WriteLock(t) ==
    /\ At(t, "wlock") /\ CanWrite(th[t].k)
    /\ writer' = [writer EXCEPT ![th[t].k] = {t}]
    /\ guard' = [guard EXCEPT ![th[t].k] = {t}]
    /\ th' = [th EXCEPT ![t] = [op |-> @.op, k |-> @.k + 1, res |-> IF @.k \in poisoned THEN "Err" ELSE @.res,
                              pc |-> IF @.k + 1 = NumShards THEN "writing" ELSE "wlock"]]
    /\ UNCHANGED <<readers, poisoned, index, indices, left>>

\* Mutant of TryWriteBlocked: the shard that is taken is unlocked too.
TryWriteUnlocksAll(t) ==
    /\ At(t, "wlock") /\ th[t].op = "try_write" /\ ~ CanWrite(th[t].k)
    /\ th' = [th EXCEPT ![t].pc = "unlock", ![t].k = @ + 1]
    /\ UNCHANGED <<locks, index, indices, left>>

\* A shard is taken: the ones before it are unlocked again, the last first.
TryWriteBlocked(t) ==
    /\ At(t, "wlock") /\ th[t].op = "try_write" /\ ~ CanWrite(th[t].k)
    /\ th' = [th EXCEPT ![t] = IF th[t].k = 0 THEN Idle ELSE [@ EXCEPT !.pc = "unlock"]]
    /\ UNCHANGED <<locks, index, indices, left>>

\* The owner drops the write guard, perhaps because it panics.
DropWriteGuard(t) ==
    /\ At(t, "writing")
    /\ \E l \in {"unlock", "unwind"} : th' = [th EXCEPT ![t].pc = l]
    /\ UNCHANGED <<locks, index, indices, left>>

\* Mutant of WriteUnlock: only the first shard is poisoned.
WriteUnlockFirst(t) ==
    /\ th[t].pc \in {"unlock", "unwind"}
    /\ LET s == th[t].k - 1
       IN /\ writer' = [writer EXCEPT ![s] = @ \ guard[s]]
          /\ poisoned' = IF At(t, "unwind") /\ s = 0 THEN poisoned \cup {s} ELSE poisoned
          /\ th' = [th EXCEPT ![t] = IF s = 0 THEN Idle ELSE [@ EXCEPT !.k = s]]
    /\ UNCHANGED <<readers, guard, index, indices, left>>

\* The guard is read from the shard and dropped: that poisons the RwLock if the
\* thread panicked, and unlocks it for whoever the guard belongs to.
WriteUnlock(t) ==
    /\ th[t].pc \in {"unlock", "unwind"}
    /\ LET s == th[t].k - 1
       IN /\ writer' = [writer EXCEPT ![s] = @ \ guard[s]]
          /\ poisoned' = IF At(t, "unwind") THEN poisoned \cup {s} ELSE poisoned
          /\ th' = [th EXCEPT ![t] = IF s = 0 THEN Idle ELSE [@ EXCEPT !.k = s]]
    /\ UNCHANGED <<readers, guard, index, indices, left>>

\* A thread exits: its index goes to the free list.
Exit(t) ==
    /\ At(t, "idle") /\ left[t] = 0
    /\ left' = [left EXCEPT ![t] = -1]
    /\ index' = [index EXCEPT ![t] = NoIndex]
    /\ indices' = IF index[t] = NoIndex THEN indices
                  ELSE [indices EXCEPT !.free = Append(@, index[t])]
    /\ UNCHANGED <<locks, th>>

Step(t) ==
    \/ Begin(t) \/ ReadLock(t) \/ TryReadFails(t) \/ ReadUnlock(t)
    \/ WriteLock(t) \/ TryWriteBlocked(t) \/ DropWriteGuard(t) \/ WriteUnlock(t) \/ Exit(t)

Finished == (\A t \in Threads : left[t] = -1) /\ UNCHANGED vars

Next == (\E t \in Threads : Step(t)) \/ Finished

Spec == Init /\ [][Next]_vars

-----------------------------------------------------------------------------
(***************************************************************************)
(* Properties.                                                             *)
(***************************************************************************)
\* The variables are of their types, and a reader has an index.
TypeOK ==
    /\ readers \in [Shards -> SUBSET Threads]
    /\ writer \in [Shards -> SUBSET Threads]
    /\ guard \in [Shards -> SUBSET Threads]
    /\ poisoned \subseteq Shards
    /\ th \in [Threads -> [pc : {"idle", "rlock", "reading", "wlock", "writing", "unlock", "unwind"},
                           op : Calls \cup {"none"}, k : 0..NumShards, res : {"Ok", "Err"}]]
    /\ index \in [Threads -> Nat \cup {NoIndex}]
    /\ indices \in [free : Seq(Nat), next : Nat]
    /\ \A t \in Threads : th[t].pc \in {"rlock", "reading"} => index[t] \in Nat

\* A thread with a ShardedLockWriteGuard excludes every other guard, though a
\* reader holds only one shard.
Exclusion ==
    \A t, u \in Threads :
        At(t, "writing") /\ t # u => th[u].pc \notin {"writing", "reading"}

\* The guard that a thread takes out of a shard to drop it is its own: nobody
\* else has locked the shard, and stored its guard, since.
OwnGuards ==
    \A t \in Threads : th[t].pc \in {"writing", "unlock", "unwind"} =>
        \A s \in 0..th[t].k - 1 : guard[s] = {t} /\ writer[s] = {t}

\* No two running threads have the same index, and none of those on the free list.
IndicesDiffer ==
    /\ \A t, u \in Threads : t # u /\ index[t] # NoIndex => index[t] # index[u]
    /\ \A i \in DOMAIN indices.free : \A t \in Threads : index[t] # indices.free[i]

\* is_poisoned looks at the first shard alone, a reader at its own: when no
\* writer is unlocking, all are poisoned or none; and a guard that came in an
\* Err, or in an Ok, says so of the whole lock (a writer) or of its shard.
PoisonAgrees ==
    /\ (\A t \in Threads : ~ At(t, "unwind")) => poisoned \in {{}, Shards}
    /\ \A t \in Threads :
          /\ At(t, "writing") => poisoned = IF th[t].res = "Err" THEN Shards ELSE {}
          /\ At(t, "reading") => (th[t].res = "Err" <=> ShardOf(t) \in poisoned)
============================================================================
