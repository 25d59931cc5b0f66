------------------------- MODULE ShardedLockProofs -------------------------
(***************************************************************************)
(* ShardedLock, for any threads, any number of shards and any calls: a     *)
(* write guard is never held beside another guard, the guards stored in    *)
(* the shards are taken out by their owners, no two threads have the same  *)
(* index, and what a lock call says about poisoning is true of the shards. *)
(***************************************************************************)
EXTENDS ShardedLock, TLAPS

\* Every shard below k is locked by a writer that has got as far as k.
WritersHold ==
    \A t \in Threads : th[t].pc \in {"wlock", "writing", "unlock", "unwind"} =>
        \A s \in 0..th[t].k - 1 : writer[s] = {t} /\ guard[s] = {t}

\* How far a writer is.
Progress ==
    \A t \in Threads :
        /\ At(t, "wlock") => th[t].k < NumShards
        /\ At(t, "writing") => th[t].k = NumShards
        /\ th[t].pc \in {"unlock", "unwind"} => th[t].k > 0

\* A reader is among the readers of its shard, and the RwLocks exclude.
ReadersHold == \A t \in Threads : At(t, "reading") => t \in readers[ShardOf(t)]
LocksExclude == \A s \in Shards : writer[s] # {} => readers[s] = {}

\* The states of a thread.
ThType == [pc : {"idle", "rlock", "reading", "wlock", "writing", "unlock", "unwind"},
           op : Calls \cup {"none"}, k : 0..NumShards, res : {"Ok", "Err"}]

\* A writer that has a shard has the first one: there is one such thread.
Holding(t) ==
    \/ th[t].pc \in {"writing", "unlock", "unwind"}
    \/ At(t, "wlock") /\ th[t].k > 0

\* What is poisoned: the shards that an unwinding writer has unlocked, on top
\* of all or none; and what a call has found out so far.
Poisoning ==
    /\ \A t \in Threads : At(t, "unwind") => poisoned \in {Shards, th[t].k..NumShards - 1}
    /\ (\A t \in Threads : ~ At(t, "unwind")) => poisoned \in {{}, Shards}

Verdict(t) ==
    /\ At(t, "rlock") => th[t].res = "Ok"
    /\ At(t, "wlock") /\ th[t].k = 0 => th[t].res = "Ok"
    /\ At(t, "writing") \/ (At(t, "wlock") /\ th[t].k > 0)
          => poisoned = IF th[t].res = "Err" THEN Shards ELSE {}
    /\ At(t, "reading") => (th[t].res = "Err" <=> ShardOf(t) \in poisoned)

PoisonInv == Poisoning /\ \A t \in Threads : Verdict(t)

\* The indices given out are below next_index, each with one thread or once on
\* the free list.
IndexInv ==
    /\ IndicesDiffer
    /\ \A t \in Threads : index[t] < indices.next
    /\ \A i \in DOMAIN indices.free : indices.free[i] < indices.next
    /\ \A i, j \in DOMAIN indices.free : i # j => indices.free[i] # indices.free[j]

\* The inductive invariant.
IInv == TypeOK /\ WritersHold /\ Progress /\ ReadersHold /\ LocksExclude

\* The shard that a reader's index names exists: `index & (len - 1)`.
LEMMA ShardExists ==
    ASSUME NEW i \in Nat
    PROVE  i % NumShards \in Shards
  BY ShardsAssumption DEF Shards

\* The invariant holds before any thread has called.
LEMMA InitIInv == Init => IInv
  BY ShardsAssumption DEF Init, IInv, TypeOK, WritersHold, Progress, ReadersHold, LocksExclude, Idle, At, Shards, NoIndex

\* An index that a thread registers with is a natural number.
LEMMA RegisterType ==
    ASSUME NEW t \in Threads, Register(t),
           index \in [Threads -> Nat \cup {NoIndex}],
           indices \in [free : Seq(Nat), next : Nat]
    PROVE  /\ index' \in [Threads -> Nat \cup {NoIndex}]
           /\ indices' \in [free : Seq(Nat), next : Nat]
           /\ index'[t] \in Nat
           /\ \A u \in Threads \ {t} : index'[u] = index[u]
  <1>1. CASE index[t] # NoIndex
    BY <1>1, Zenon DEF Register
  <1>2. CASE index[t] = NoIndex /\ indices.free # << >>
    <2>1. indices.free \in Seq(Nat) /\ Len(indices.free) \in Nat \ {0}
      BY <1>2
    <2>2. indices.free[Len(indices.free)] \in Nat
      BY <2>1
    <2>3. SubSeq(indices.free, 1, Len(indices.free) - 1) \in Seq(Nat)
      BY <2>1
    <2>4. /\ index' = [index EXCEPT ![t] = indices.free[Len(indices.free)]]
          /\ indices' = [indices EXCEPT !.free = SubSeq(@, 1, Len(@) - 1)]
      BY <1>2 DEF Register
    <2> QED  BY <2>2, <2>3, <2>4
  <1>3. CASE index[t] = NoIndex /\ indices.free = << >>
    BY <1>3 DEF Register
  <1> QED  BY <1>1, <1>2, <1>3

\* Every step preserves the invariant, one action at a time.
LEMMA NextIInv == ASSUME IInv, [Next]_vars PROVE IInv'
  <1> USE ShardsAssumption DEF Shards, At, ShardOf
  <1>0. CASE UNCHANGED vars
    BY <1>0, Zenon DEF vars, locks, IInv, TypeOK, WritersHold, Progress, ReadersHold, LocksExclude
  <1> SUFFICES ASSUME NEW t \in Threads, Step(t) PROVE IInv'
    BY <1>0, Zenon DEF Next, Finished
  <1>t. /\ th \in [Threads -> ThType] /\ th[t] \in ThType /\ Idle \in ThType
        /\ th[t].k \in 0..NumShards
    BY DEF IInv, TypeOK, ThType, Idle
  <1> USE DEF IInv
  <1>1. CASE Begin(t)
    <2>1. PICK o \in Calls :
              /\ th' = [th EXCEPT ![t] = [op |-> o, k |-> 0, res |-> "Ok",
                          pc |-> IF o \in {"read", "try_read"} THEN "rlock" ELSE "wlock"]]
              /\ IF o \in {"read", "try_read"} THEN Register(t) ELSE UNCHANGED <<index, indices>>
      BY <1>1 DEF Begin
    <2>2. /\ index' \in [Threads -> Nat \cup {NoIndex}]
          /\ indices' \in [free : Seq(Nat), next : Nat]
          /\ o \in {"read", "try_read"} => index'[t] \in Nat
          /\ \A u \in Threads \ {t} : index'[u] = index[u]
      BY <2>1, RegisterType DEF TypeOK
    <2>3. UNCHANGED <<readers, writer, guard, poisoned>>
      BY <1>1 DEF Begin, locks
    <2>4. /\ th'[t].pc \in {"rlock", "wlock"} /\ th'[t].k = 0
          /\ (th'[t].pc = "rlock" <=> o \in {"read", "try_read"})
          /\ \A u \in Threads \ {t} : th'[u] = th[u]
          /\ th' \in [Threads -> ThType]
      <3> DEFINE l == IF o \in {"read", "try_read"} THEN "rlock" ELSE "wlock"
                 x == [op |-> o, k |-> 0, res |-> "Ok", pc |-> l]
      <3>1. x \in ThType /\ x.pc = l /\ x.k = 0  BY <1>t DEF ThType
      <3>2. th' = [th EXCEPT ![t] = x]  BY <2>1
      <3> HIDE DEF x
      <3> QED  BY <1>t, <3>1, <3>2
    <2>6. TypeOK'  BY <2>2, <2>3, <2>4, Zenon DEF TypeOK, ThType
    <2>7. WritersHold'  BY <2>3, <2>4 DEF WritersHold
    <2>8. Progress'  BY <2>4 DEF Progress
    <2>9. ReadersHold'  BY <2>2, <2>3, <2>4 DEF ReadersHold
    <2>10. LocksExclude'  BY <2>3 DEF LocksExclude
    <2> QED  BY <2>6, <2>7, <2>8, <2>9, <2>10
  <1>2. CASE ReadLock(t)
    <2>1. ShardOf(t) \in Shards  BY <1>2, ShardExists DEF ReadLock, TypeOK
    <2>2. /\ th'[t].pc = "reading" /\ th' \in [Threads -> ThType]
          /\ \A u \in Threads \ {t} : th'[u] = th[u]
      BY <1>2, <1>t DEF ReadLock, ThType
    <2>3. TypeOK'
      <3>1. readers' \in [Shards -> SUBSET Threads]  BY <1>2, <2>1 DEF ReadLock, TypeOK
      <3>2. \A u \in Threads : th'[u].pc \in {"rlock", "reading"} => index'[u] \in Nat
        BY <1>2, <2>2 DEF ReadLock, TypeOK
      <3> QED  BY <1>2, <2>2, <3>1, <3>2, Zenon DEF ReadLock, TypeOK, ThType
    <2>4. WritersHold' /\ Progress'  BY <1>2, <2>2 DEF ReadLock, WritersHold, Progress
    <2>5. ReadersHold'
      <3> SUFFICES ASSUME NEW u \in Threads, At(u, "reading")'
                   PROVE  u \in readers'[ShardOf(u)']
        BY DEF ReadersHold
      <3>1. index' = index /\ index[u] \in Nat
        BY <1>2, <2>2 DEF ReadLock, TypeOK, At
      <3>2. ShardOf(u) \in Shards  BY <3>1, ShardExists DEF ShardOf
      <3>3. u = t \/ u \in readers[ShardOf(u)]  BY <2>2 DEF ReadersHold, At
      <3>4. readers' = [readers EXCEPT ![ShardOf(t)] = @ \cup {t}]  BY <1>2 DEF ReadLock
      <3>5. ShardOf(u)' = ShardOf(u)  BY <3>1 DEF ShardOf
      <3> HIDE DEF ShardOf
      <3> QED  BY <2>1, <3>2, <3>3, <3>4, <3>5 DEF TypeOK
    <2>6. LocksExclude'
      <3>1. /\ readers' = [readers EXCEPT ![ShardOf(t)] = @ \cup {t}]
            /\ writer' = writer /\ writer[ShardOf(t)] = {}
        BY <1>2 DEF ReadLock, CanRead
      <3> HIDE DEF ShardOf
      <3> QED  BY <2>1, <3>1 DEF TypeOK, LocksExclude
    <2> QED  BY <2>3, <2>4, <2>5, <2>6
  <1>3. CASE TryReadFails(t)
    <2>1. /\ th'[t].pc = "idle" /\ th' \in [Threads -> ThType]
          /\ \A u \in Threads \ {t} : th'[u] = th[u]
      BY <1>3, <1>t DEF TryReadFails, Idle
    <2>2. UNCHANGED <<readers, writer, guard, poisoned, index, indices>>
      BY <1>3 DEF TryReadFails, locks
    <2>3. TypeOK'
      <3>1. \A u \in Threads : th'[u].pc \in {"rlock", "reading"} => index'[u] \in Nat
        BY <2>1, <2>2 DEF TypeOK
      <3> QED  BY <2>1, <2>2, <3>1, Zenon DEF TypeOK, ThType
    <2> QED  BY <2>1, <2>2, <2>3 DEF WritersHold, Progress, ReadersHold, LocksExclude
  <1>4. CASE ReadUnlock(t)
    <2>1. ShardOf(t) \in Shards  BY <1>4, ShardExists DEF ReadUnlock, TypeOK
    <2>2. /\ th'[t].pc = "idle" /\ th' \in [Threads -> ThType]
          /\ \A u \in Threads \ {t} : th'[u] = th[u]
      BY <1>4, <1>t DEF ReadUnlock, Idle
    <2>3. TypeOK'
      <3>1. readers' \in [Shards -> SUBSET Threads]  BY <1>4, <2>1 DEF ReadUnlock, TypeOK
      <3>2. \A u \in Threads : th'[u].pc \in {"rlock", "reading"} => index'[u] \in Nat
        BY <1>4, <2>2 DEF ReadUnlock, TypeOK
      <3> QED  BY <1>4, <2>2, <3>1, <3>2, Zenon DEF ReadUnlock, TypeOK, ThType
    <2>4. WritersHold' /\ Progress'  BY <1>4, <2>2 DEF ReadUnlock, WritersHold, Progress
    <2>5. ReadersHold'
      <3> SUFFICES ASSUME NEW u \in Threads, At(u, "reading")'
                   PROVE  u \in readers'[ShardOf(u)']
        BY DEF ReadersHold
      <3>1. u # t /\ th[u].pc = "reading"  BY <2>2 DEF At
      <3>2. index' = index /\ index[u] \in Nat  BY <1>4, <3>1 DEF ReadUnlock, TypeOK
      <3>3. ShardOf(u) \in Shards  BY <3>2, ShardExists DEF ShardOf
      <3>4. u \in readers[ShardOf(u)]  BY <3>1 DEF ReadersHold, At
      <3>5. readers' = [readers EXCEPT ![ShardOf(t)] = @ \ {t}]  BY <1>4 DEF ReadUnlock
      <3>6. ShardOf(u)' = ShardOf(u)  BY <3>2 DEF ShardOf
      <3> HIDE DEF ShardOf
      <3> QED  BY <2>1, <3>1, <3>3, <3>4, <3>5, <3>6 DEF TypeOK
    <2>6. LocksExclude'
      <3>1. /\ readers' = [readers EXCEPT ![ShardOf(t)] = @ \ {t}]
            /\ writer' = writer
        BY <1>4 DEF ReadUnlock
      <3>2. \A i \in Shards : readers'[i] \subseteq readers[i]
        <4> HIDE DEF ShardOf
        <4> QED  BY <2>1, <3>1 DEF TypeOK
      <3> QED  BY <3>1, <3>2 DEF LocksExclude
    <2> QED  BY <2>3, <2>4, <2>5, <2>6
  <1>5. CASE WriteLock(t)
    <2> DEFINE k == th[t].k
    <2>1. k \in Shards  BY <1>5, <1>t DEF WriteLock, Progress
    <2>2. /\ th'[t].k = k + 1 /\ th' \in [Threads -> ThType]
          /\ th'[t].pc = IF k + 1 = NumShards THEN "writing" ELSE "wlock"
          /\ \A u \in Threads \ {t} : th'[u] = th[u]
      <3> DEFINE l == IF k + 1 = NumShards THEN "writing" ELSE "wlock"
                 r == IF k \in poisoned THEN "Err" ELSE th[t].res
                 x == [op |-> th[t].op, k |-> k + 1, res |-> r, pc |-> l]
      <3>1. x \in ThType /\ x.k = k + 1 /\ x.pc = l  BY <1>t, <2>1 DEF ThType
      <3>2. th' = [th EXCEPT ![t] = x]  BY <1>5 DEF WriteLock
      <3> HIDE DEF x
      <3> QED  BY <1>t, <3>1, <3>2
    <2>3. /\ writer' = [writer EXCEPT ![k] = {t}] /\ guard' = [guard EXCEPT ![k] = {t}]
          /\ UNCHANGED <<readers, poisoned, index, indices>>
          /\ writer[k] = {} /\ readers[k] = {}
      BY <1>5 DEF WriteLock, CanWrite
    <2>4. TypeOK'
      <3>1. /\ writer' \in [Shards -> SUBSET Threads]
            /\ guard' \in [Shards -> SUBSET Threads]
        BY <2>1, <2>3 DEF TypeOK
      <3>2. \A u \in Threads : th'[u].pc \in {"rlock", "reading"} => index'[u] \in Nat
        BY <2>2, <2>3 DEF TypeOK
      <3> QED  BY <2>2, <2>3, <3>1, <3>2, Zenon DEF TypeOK, ThType
    <2>5. \A u \in Threads \ {t} : th[u].pc \in {"wlock", "writing", "unlock", "unwind"} =>
              \A s \in 0..th[u].k - 1 : s # k
      <3> SUFFICES ASSUME NEW u \in Threads \ {t}, k \in 0..th[u].k - 1,
                          th[u].pc \in {"wlock", "writing", "unlock", "unwind"}
                   PROVE  FALSE
        OBVIOUS
      <3>1. writer[k] = {u}  BY DEF WritersHold
      <3> QED  BY <2>3, <3>1
    <2>6. WritersHold'
      <3> SUFFICES ASSUME NEW u \in Threads, NEW s \in 0..th'[u].k - 1,
                          th'[u].pc \in {"wlock", "writing", "unlock", "unwind"}
                   PROVE  writer'[s] = {u} /\ guard'[s] = {u}
        BY DEF WritersHold
      <3>1. CASE u # t
        <4>1. s # k /\ writer[s] = {u} /\ guard[s] = {u}
          BY <3>1, <2>2, <2>5 DEF WritersHold
        <4> QED  BY <4>1, <2>3
      <3>2. CASE u = t
        <4>1. s \in Shards /\ (s = k \/ s \in 0..k - 1)  BY <3>2, <2>1, <2>2
        <4>2. CASE s = k  BY <4>1, <4>2, <3>2, <2>3 DEF TypeOK
        <4>3. CASE s \in 0..k - 1 /\ s # k
          <5>1. writer[s] = {t} /\ guard[s] = {t}  BY <4>3, <1>5 DEF WritersHold, WriteLock
          <5> QED  BY <5>1, <4>3, <3>2, <2>3
        <4> QED  BY <4>1, <4>2, <4>3
      <3> QED  BY <3>1, <3>2
    <2>7. Progress'  BY <2>1, <2>2 DEF Progress
    <2>8. ReadersHold'  BY <2>2, <2>3 DEF ReadersHold
    <2>9. LocksExclude'  BY <2>1, <2>3 DEF LocksExclude, TypeOK
    <2> QED  BY <2>4, <2>6, <2>7, <2>8, <2>9
  <1>6. CASE TryWriteBlocked(t)
    <2>1. UNCHANGED <<readers, writer, guard, poisoned, index, indices>>
      BY <1>6 DEF TryWriteBlocked, locks
    <2>2. /\ th' \in [Threads -> ThType] /\ \A u \in Threads \ {t} : th'[u] = th[u]
          /\ \/ th'[t].pc = "idle"
             \/ th'[t].pc = "unlock" /\ th'[t].k = th[t].k /\ th[t].k > 0
      <3>1. CASE th[t].k = 0
        BY <1>6, <1>t, <3>1 DEF TryWriteBlocked, Idle
      <3>2. CASE th[t].k # 0
        BY <1>6, <1>t, <3>2 DEF TryWriteBlocked, ThType
      <3> QED  BY <3>1, <3>2
    <2>3. TypeOK'
      <3>1. \A u \in Threads : th'[u].pc \in {"rlock", "reading"} => index'[u] \in Nat
        BY <2>1, <2>2 DEF TypeOK
      <3> QED  BY <2>1, <2>2, <3>1, Zenon DEF TypeOK, ThType
    <2>4. WritersHold'  BY <1>6, <2>1, <2>2 DEF TryWriteBlocked, WritersHold
    <2> QED  BY <2>1, <2>2, <2>3, <2>4 DEF Progress, ReadersHold, LocksExclude
  <1>7. CASE DropWriteGuard(t)
    <2>1. UNCHANGED <<readers, writer, guard, poisoned, index, indices>>
      BY <1>7 DEF DropWriteGuard, locks
    <2>2. /\ th' \in [Threads -> ThType] /\ \A u \in Threads \ {t} : th'[u] = th[u]
          /\ th'[t].pc \in {"unlock", "unwind"} /\ th'[t].k = th[t].k
      BY <1>7, <1>t DEF DropWriteGuard, ThType
    <2>3. TypeOK'
      <3>1. \A u \in Threads : th'[u].pc \in {"rlock", "reading"} => index'[u] \in Nat
        BY <2>1, <2>2 DEF TypeOK
      <3> QED  BY <2>1, <2>2, <3>1, Zenon DEF TypeOK, ThType
    <2>4. WritersHold' /\ Progress'
      BY <1>7, <2>1, <2>2 DEF DropWriteGuard, WritersHold, Progress
    <2> QED  BY <2>1, <2>2, <2>3, <2>4 DEF ReadersHold, LocksExclude
  <1>8. CASE WriteUnlock(t)
    <2> DEFINE s == th[t].k - 1
    <2>1. s \in Shards /\ s \in 0..th[t].k - 1 /\ writer[s] = {t} /\ guard[s] = {t}
      <3>1. s \in Shards /\ s \in 0..th[t].k - 1  BY <1>8, <1>t DEF WriteUnlock, Progress
      <3> QED  BY <1>8, <3>1 DEF WriteUnlock, WritersHold
    <2>2. /\ writer' = [writer EXCEPT ![s] = {}]
          /\ UNCHANGED <<readers, guard, index, indices>>
      BY <1>8, <2>1 DEF WriteUnlock, TypeOK
    <2>3. /\ th' \in [Threads -> ThType] /\ \A u \in Threads \ {t} : th'[u] = th[u]
          /\ \/ th'[t].pc = "idle"
             \/ th'[t].pc \in {"unlock", "unwind"} /\ th'[t].k = s /\ s > 0
      <3>1. CASE s = 0  BY <1>8, <1>t, <3>1 DEF WriteUnlock, Idle
      <3>2. CASE s # 0  BY <1>8, <1>t, <2>1, <3>2 DEF WriteUnlock, ThType
      <3> QED  BY <3>1, <3>2
    <2>4. TypeOK'
      <3>1. poisoned' \subseteq Shards
        <4>1. poisoned' = poisoned \/ poisoned' = poisoned \cup {s}  BY <1>8 DEF WriteUnlock
        <4> QED  BY <4>1, <2>1 DEF TypeOK
      <3>2. writer' \in [Shards -> SUBSET Threads]  BY <2>1, <2>2 DEF TypeOK
      <3>3. \A u \in Threads : th'[u].pc \in {"rlock", "reading"} => index'[u] \in Nat
        BY <2>2, <2>3 DEF TypeOK
      <3> QED  BY <2>2, <2>3, <3>1, <3>2, <3>3, Zenon DEF TypeOK, ThType
    <2>5. \A u \in Threads \ {t} : th[u].pc \in {"wlock", "writing", "unlock", "unwind"} =>
              \A r \in 0..th[u].k - 1 : r # s
      <3> SUFFICES ASSUME NEW u \in Threads \ {t}, s \in 0..th[u].k - 1,
                          th[u].pc \in {"wlock", "writing", "unlock", "unwind"}
                   PROVE  FALSE
        OBVIOUS
      <3>1. writer[s] = {u}  BY DEF WritersHold
      <3> QED  BY <2>1, <3>1
    <2>6. WritersHold'
      <3> SUFFICES ASSUME NEW u \in Threads, NEW r \in 0..th'[u].k - 1,
                          th'[u].pc \in {"wlock", "writing", "unlock", "unwind"}
                   PROVE  writer'[r] = {u} /\ guard'[r] = {u}
        BY DEF WritersHold
      <3>1. r # s /\ writer[r] = {u} /\ guard[r] = {u}
        <4>1. CASE u # t  BY <4>1, <2>3, <2>5 DEF WritersHold
        <4>2. CASE u = t  BY <4>2, <1>8, <1>t, <2>3 DEF WritersHold, WriteUnlock
        <4> QED  BY <4>1, <4>2
      <3> QED  BY <3>1, <2>2
    <2>7. Progress'  BY <2>3 DEF Progress
    <2>8. ReadersHold'  BY <2>2, <2>3 DEF ReadersHold
    <2>9. LocksExclude'  BY <2>1, <2>2 DEF LocksExclude, TypeOK
    <2> QED  BY <2>4, <2>6, <2>7, <2>8, <2>9
  <1>9. CASE Exit(t)
    <2>1. /\ index' = [index EXCEPT ![t] = NoIndex]
          /\ UNCHANGED <<readers, writer, guard, poisoned, th>> /\ th[t].pc = "idle"
      BY <1>9 DEF Exit, locks
    <2>2. indices' \in [free : Seq(Nat), next : Nat]
      <3>1. CASE index[t] = NoIndex  BY <1>9, <3>1 DEF Exit, TypeOK
      <3>2. CASE index[t] # NoIndex
        <4>1. index[t] \in Nat  BY <3>2 DEF TypeOK
        <4>2. Append(indices.free, index[t]) \in Seq(Nat)  BY <4>1 DEF TypeOK
        <4> QED  BY <1>9, <3>2, <4>2 DEF Exit, TypeOK
      <3> QED  BY <3>1, <3>2
    <2>3. TypeOK'
      <3>1. index' \in [Threads -> Nat \cup {NoIndex}]  BY <2>1 DEF TypeOK
      <3>2. \A u \in Threads : th'[u].pc \in {"rlock", "reading"} => index'[u] \in Nat
        BY <2>1 DEF TypeOK
      <3> QED  BY <2>1, <2>2, <3>1, <3>2, Zenon DEF TypeOK
    <2>4. WritersHold' /\ Progress' /\ LocksExclude'
      BY <2>1, Zenon DEF WritersHold, Progress, LocksExclude
    <2>5. ReadersHold'  BY <2>1 DEF ReadersHold, TypeOK
    <2> QED  BY <2>3, <2>4, <2>5
  <1> QED
    BY <1>1, <1>2, <1>3, <1>4, <1>5, <1>6, <1>7, <1>8, <1>9 DEF Step

\* Handing out and taking back indices keeps them apart: a thread registers
\* with the last of the free list or with next_index, and gives back its own.
LEMMA IndexStep ==
    ASSUME IInv, IndexInv, [Next]_vars
    PROVE  IndexInv'
  <1>t. /\ index \in [Threads -> Nat \cup {NoIndex}] /\ indices.next \in Nat
        /\ indices.free \in Seq(Nat) /\ Len(indices.free) \in Nat
        /\ DOMAIN indices.free = 1..Len(indices.free)
        /\ indices = [free |-> indices.free, next |-> indices.next]
    BY DEF IInv, TypeOK
  <1>s. CASE UNCHANGED <<index, indices>>
    BY <1>s DEF IndexInv, IndicesDiffer
  <1>r. ASSUME NEW t \in Threads, Register(t), ~ UNCHANGED <<index, indices>>
        PROVE  IndexInv'
    <2>1. CASE indices.free # << >>
      <3> DEFINE n == Len(indices.free)
                 new == indices.free[n]
      <3>1. /\ n \in DOMAIN indices.free /\ n - 1 \in Nat /\ new \in Nat
            /\ index' = [index EXCEPT ![t] = new]
            /\ indices'.free = SubSeq(indices.free, 1, n - 1) /\ indices'.next = indices.next
        BY <1>r, <1>t, <2>1 DEF Register
      <3>2. /\ DOMAIN indices'.free = 1..n - 1
            /\ \A i \in 1..n - 1 : /\ indices'.free[i] = indices.free[i]
                                   /\ i \in DOMAIN indices.free /\ i # n
        BY <1>t, <3>1
      <3>3. /\ index'[t] = new /\ \A u \in Threads \ {t} : index'[u] = index[u] /\ index[u] # new
        BY <1>t, <3>1 DEF IndexInv, IndicesDiffer
      <3>4. new < indices.next /\ \A i \in 1..n - 1 : indices.free[i] # new
        BY <3>1, <3>2 DEF IndexInv
      <3> HIDE DEF new
      <3>5. IndicesDiffer'
        BY <3>2, <3>3, <3>4 DEF IndexInv, IndicesDiffer
      <3>6. \A u \in Threads : index'[u] < indices'.next
        BY <3>1, <3>3, <3>4 DEF IndexInv
      <3> QED
        BY <3>1, <3>2, <3>5, <3>6 DEF IndexInv
    <2>2. CASE indices.free = << >>
      <3>1. /\ index' = [index EXCEPT ![t] = indices.next] /\ indices'.free = << >>
            /\ indices'.next = indices.next + 1
        BY <1>r, <1>t, <2>2 DEF Register
      <3>2. \A u \in Threads : index[u] # indices.next /\ index[u] < indices.next
        BY <1>t DEF IndexInv, NoIndex
      <3>3. /\ index'[t] = indices.next /\ \A u \in Threads \ {t} : index'[u] = index[u]
        BY <1>t, <3>1
      <3>4. \A u, v \in Threads : u # v /\ index'[u] # NoIndex => index'[u] # index'[v]
        BY <3>2, <3>3 DEF IndexInv, IndicesDiffer
      <3>5. \A u \in Threads : index'[u] < indices'.next
        BY <1>t, <3>1, <3>2, <3>3 DEF NoIndex
      <3> QED
        BY <3>1, <3>4, <3>5 DEF IndexInv, IndicesDiffer
    <2> QED
      BY <2>1, <2>2
  <1>e. ASSUME NEW t \in Threads, Exit(t), index[t] # NoIndex PROVE IndexInv'
    <2> DEFINE n == Len(indices.free)
    <2>1. /\ index' = [index EXCEPT ![t] = NoIndex] /\ index[t] \in Nat
          /\ indices'.free = Append(indices.free, index[t]) /\ indices'.next = indices.next
      BY <1>e, <1>t DEF Exit
    <2>2. /\ DOMAIN indices'.free = 1..n + 1 /\ indices'.free[n + 1] = index[t]
          /\ \A i \in 1..n + 1 : i # n + 1 => /\ indices'.free[i] = indices.free[i]
                                              /\ i \in DOMAIN indices.free
      BY <1>t, <2>1
    <2>3. /\ index'[t] = NoIndex
          /\ \A u \in Threads \ {t} : index'[u] = index[u] /\ index[u] # index[t]
      BY <1>e, <1>t, <2>1 DEF IndexInv, IndicesDiffer
    <2>4. /\ index[t] < indices.next
          /\ \A i \in DOMAIN indices.free : /\ indices.free[i] # index[t]
                                            /\ indices.free[i] \in Nat
      BY <1>t DEF IndexInv, IndicesDiffer
    <2>5. \A u, v \in Threads : u # v /\ index'[u] # NoIndex => index'[u] # index'[v]
      BY <1>e, <2>3 DEF IndexInv, IndicesDiffer
    <2>6. ASSUME NEW i \in DOMAIN indices'.free, NEW u \in Threads
          PROVE  index'[u] # indices'.free[i]
      <3>1. indices'.free[i] \in Nat
        BY <2>1, <2>2, <2>4
      <3>2. CASE u = t
        BY <2>3, <3>1, <3>2 DEF NoIndex
      <3>3. CASE u # t
        BY <2>2, <2>3, <3>3 DEF IndexInv, IndicesDiffer
      <3> QED
        BY <3>2, <3>3
    <2>7. \A u \in Threads : index'[u] < indices'.next
      BY <1>t, <2>1, <2>3 DEF IndexInv, NoIndex
    <2>8. \A i \in DOMAIN indices'.free : indices'.free[i] < indices'.next
      BY <2>1, <2>2, <2>4 DEF IndexInv
    <2>9. \A i, j \in DOMAIN indices'.free : i # j => indices'.free[i] # indices'.free[j]
      BY <2>2, <2>4 DEF IndexInv
    <2> QED
      BY <2>5, <2>6, <2>7, <2>8, <2>9 DEF IndexInv, IndicesDiffer
  <1>1. ASSUME NEW t \in Threads, Step(t) PROVE IndexInv'
    <2>1. CASE Begin(t)
      BY <1>r, <1>s, <2>1 DEF Begin
    <2>2. CASE Exit(t)
      <3>1. CASE index[t] = NoIndex
        BY <1>s, <1>t, <2>2, <3>1 DEF Exit
      <3> QED
        BY <1>e, <2>2, <3>1
    <2> QED
      BY <1>1, <1>s, <2>1, <2>2 DEF Step, ReadLock, TryReadFails, ReadUnlock, WriteLock,
           TryWriteBlocked, DropWriteGuard, WriteUnlock
  <1> QED
    BY <1>1, <1>s DEF Next, Finished, vars

\* One thread at a time has locked the first shard for writing.
LEMMA OneHolder ==
    ASSUME IInv, NEW t \in Threads, NEW u \in Threads, Holding(t), Holding(u)
    PROVE  t = u
  <1>1. ASSUME NEW v \in Threads, Holding(v) PROVE writer[0] = {v}
    <2>1. th[v].k \in 0..NumShards
      BY DEF IInv, TypeOK
    <2>2. th[v].k > 0 /\ th[v].pc \in {"wlock", "writing", "unlock", "unwind"}
      BY <1>1, ShardsAssumption DEF Holding, IInv, Progress, At
    <2>3. 0 \in 0..th[v].k - 1
      BY <2>1, <2>2
    <2> QED
      BY <2>2, <2>3 DEF IInv, WritersHold
  <1> QED
    BY <1>1

\* What the calls find out about poisoning stays true, though the shards are
\* poisoned one at a time: whoever unwinds has every shard that is not done.
LEMMA PoisonStep ==
    ASSUME IInv, PoisonInv, [Next]_vars
    PROVE  PoisonInv'
  <1> SUFFICES ASSUME NEW t \in Threads, Step(t) PROVE PoisonInv'
    <2>1. CASE UNCHANGED vars
      BY <2>1 DEF vars, locks, PoisonInv, Poisoning, Verdict, At, ShardOf
    <2> QED
      BY <2>1 DEF Next, Finished
  <1>t. /\ th \in [Threads -> ThType] /\ th[t] \in ThType /\ th[t].k \in 0..NumShards
        /\ Idle \in ThType /\ Idle.pc = "idle" /\ poisoned \subseteq Shards
        /\ index \in [Threads -> Nat \cup {NoIndex}]
    BY ShardsAssumption DEF IInv, TypeOK, ThType, Idle
  \* The other threads: nothing they know changes unless t poisons a shard.
  <1>o. ASSUME UNCHANGED poisoned,
               \A u \in Threads \ {t} : th'[u] = th[u] /\ index'[u] = index[u]
        PROVE  \A u \in Threads \ {t} : Verdict(u)'
    BY <1>o DEF PoisonInv, Verdict, At, ShardOf
  <1>q. ASSUME UNCHANGED poisoned, th[t].pc # "unwind", th'[t].pc # "unwind",
               \A u \in Threads \ {t} : th'[u] = th[u]
        PROVE  Poisoning'
    BY <1>q DEF PoisonInv, Poisoning, At
  <1>1. CASE Begin(t)
    <2>1. PICK o \in Calls :
              /\ th' = [th EXCEPT ![t] = [op |-> o, k |-> 0, res |-> "Ok",
                          pc |-> IF o \in {"read", "try_read"} THEN "rlock" ELSE "wlock"]]
              /\ IF o \in {"read", "try_read"} THEN Register(t) ELSE UNCHANGED <<index, indices>>
      BY <1>1 DEF Begin
    <2>2. UNCHANGED poisoned /\ th[t].pc = "idle"
      BY <1>1 DEF Begin, locks, At
    <2>3. /\ th'[t].pc \in {"rlock", "wlock"} /\ th'[t].res = "Ok" /\ th'[t].k = 0
          /\ \A u \in Threads \ {t} : th'[u] = th[u]
      BY <1>t, <2>1
    <2>4. \A u \in Threads \ {t} : index'[u] = index[u]
      BY <1>t, <2>1 DEF Register
    <2>5. Verdict(t)'
      BY <2>3 DEF Verdict, At
    <2> QED
      BY <1>o, <1>q, <2>2, <2>3, <2>4, <2>5 DEF PoisonInv
  <1>2. CASE ReadLock(t)
    <2>1. /\ UNCHANGED <<poisoned, index>> /\ th[t].pc = "rlock" /\ th'[t].pc = "reading"
          /\ th'[t].res = IF ShardOf(t) \in poisoned THEN "Err" ELSE th[t].res
          /\ \A u \in Threads \ {t} : th'[u] = th[u]
      BY <1>2, <1>t DEF ReadLock, At, ThType
    <2>2. th[t].res = "Ok"
      BY <2>1 DEF PoisonInv, Verdict, At
    <2>3. Verdict(t)'
      BY <2>1, <2>2 DEF Verdict, At, ShardOf
    <2> QED
      BY <1>o, <1>q, <2>1, <2>3 DEF PoisonInv
  <1>3. CASE TryReadFails(t) \/ ReadUnlock(t) \/ TryWriteBlocked(t) \/ Exit(t)
    <2>1. /\ UNCHANGED poisoned /\ th[t].pc # "unwind" /\ th'[t].pc \in {"idle", "unlock"}
          /\ \A u \in Threads \ {t} : th'[u] = th[u]
      <3>1. CASE TryReadFails(t) \/ ReadUnlock(t)
        BY <1>t, <3>1 DEF TryReadFails, ReadUnlock, locks, At
      <3>2. CASE TryWriteBlocked(t)
        BY <1>t, <3>2 DEF TryWriteBlocked, locks, At, ThType
      <3>3. CASE Exit(t)
        BY <1>t, <3>3 DEF Exit, locks, At
      <3> QED
        BY <1>3, <3>1, <3>2, <3>3
    <2>2. \A u \in Threads \ {t} : index'[u] = index[u]
      BY <1>3, <1>t DEF TryReadFails, ReadUnlock, TryWriteBlocked, Exit
    <2>3. Verdict(t)'
      BY <2>1 DEF Verdict, At
    <2> QED
      BY <1>o, <1>q, <2>1, <2>2, <2>3 DEF PoisonInv
  <1>4. CASE WriteLock(t)
    <2> DEFINE k == th[t].k
    <2>1. /\ UNCHANGED <<poisoned, index>> /\ th[t].pc = "wlock" /\ writer[k] = {}
          /\ k \in Shards /\ th'[t].pc \in {"writing", "wlock"} /\ th'[t].k = k + 1
          /\ th'[t].res = IF k \in poisoned THEN "Err" ELSE th[t].res
          /\ \A u \in Threads \ {t} : th'[u] = th[u]
      <3> DEFINE l == IF k + 1 = NumShards THEN "writing" ELSE "wlock"
                 r == IF k \in poisoned THEN "Err" ELSE th[t].res
                 x == [op |-> th[t].op, k |-> k + 1, res |-> r, pc |-> l]
      <3>1. /\ UNCHANGED <<poisoned, index>> /\ th[t].pc = "wlock" /\ writer[k] = {}
            /\ th' = [th EXCEPT ![t] = x]
        BY <1>4 DEF WriteLock, CanWrite, At
      <3>2. x.k = k + 1 /\ x.pc \in {"writing", "wlock"} /\ x.res = r
        OBVIOUS
      <3>3. k \in Shards
        BY <1>t, <3>1, ShardsAssumption DEF IInv, Progress, At, Shards
      <3> HIDE DEF x
      <3> QED
        BY <1>t, <3>1, <3>2, <3>3
    <2>2. poisoned = IF th'[t].res = "Err" THEN Shards ELSE {}
      <3>1. CASE k = 0
        <4>1. ASSUME NEW u \in Threads, At(u, "unwind") PROVE FALSE
          <5>1. th[u].k \in 0..NumShards /\ th[u].k > 0
            BY <4>1 DEF IInv, TypeOK, Progress, At
          <5>2. writer[0] = {u}
            BY <4>1, <5>1 DEF IInv, WritersHold, At
          <5> QED
            BY <2>1, <3>1, <5>2
        <4>2. poisoned \in {{}, Shards} /\ th[t].res = "Ok"
          BY <2>1, <3>1, <4>1 DEF PoisonInv, Poisoning, Verdict, At
        <4> QED
          BY <2>1, <3>1, <4>2
      <3>2. CASE k > 0
        <4>1. poisoned = IF th[t].res = "Err" THEN Shards ELSE {}
          BY <2>1, <3>2 DEF PoisonInv, Verdict, At
        <4> QED
          BY <2>1, <4>1
      <3> QED
        BY <1>t, <3>1, <3>2
    <2>3. Verdict(t)'
      BY <1>t, <2>1, <2>2 DEF Verdict, At
    <2> QED
      BY <1>o, <1>q, <2>1, <2>3 DEF PoisonInv
  <1>5. CASE DropWriteGuard(t)
    <2>1. /\ UNCHANGED <<poisoned, index>> /\ th[t].pc = "writing"
          /\ th'[t].pc \in {"unlock", "unwind"} /\ th'[t].k = th[t].k
          /\ \A u \in Threads \ {t} : th'[u] = th[u]
      BY <1>5, <1>t DEF DropWriteGuard, locks, At, ThType
    <2>2. th[t].k = NumShards /\ poisoned \in {{}, Shards}
      BY <2>1 DEF IInv, Progress, PoisonInv, Verdict, At
    <2>3. ASSUME NEW u \in Threads \ {t} PROVE ~ At(u, "unwind")
      BY <2>1, OneHolder DEF Holding, At
    <2>4. Poisoning'
      <3>1. CASE th'[t].pc = "unwind"
        <4>1. NumShards..NumShards - 1 = {}
          BY ShardsAssumption
        <4> QED
          BY <2>1, <2>2, <2>3, <3>1, <4>1 DEF Poisoning, At
      <3> QED
        BY <1>q, <2>1, <3>1
    <2>5. Verdict(t)'
      BY <2>1 DEF Verdict, At
    <2> QED
      BY <1>o, <2>1, <2>4, <2>5 DEF PoisonInv
  <1>6. CASE WriteUnlock(t)
    <2> DEFINE s == th[t].k - 1
    <2>1. /\ UNCHANGED <<readers, index>> /\ th[t].pc \in {"unlock", "unwind"} /\ s \in Shards
          /\ poisoned' = IF th[t].pc = "unwind" THEN poisoned \cup {s} ELSE poisoned
          /\ th'[t].pc = IF s = 0 THEN "idle" ELSE th[t].pc
          /\ s # 0 => th'[t].k = s
          /\ \A u \in Threads \ {t} : th'[u] = th[u]
      <3>1. th[t].k > 0
        BY <1>6 DEF WriteUnlock, IInv, Progress
      <3> QED
        <4>1. /\ UNCHANGED <<readers, index>> /\ th[t].pc \in {"unlock", "unwind"}
              /\ poisoned' = IF th[t].pc = "unwind" THEN poisoned \cup {s} ELSE poisoned
              /\ th' = [th EXCEPT ![t] = IF s = 0 THEN Idle ELSE [th[t] EXCEPT !.k = s]]
          BY <1>6 DEF WriteUnlock, At
        <4>2. s \in Shards
          BY <1>t, <3>1, ShardsAssumption DEF Shards
        <4>3. [th[t] EXCEPT !.k = s].k = s /\ [th[t] EXCEPT !.k = s].pc = th[t].pc
          BY <1>t DEF ThType
        <4> QED
          BY <1>t, <4>1, <4>2, <4>3
    <2>2. Verdict(t)'
      BY <2>1 DEF Verdict, At
    <2>3. CASE th[t].pc = "unlock"
      BY <1>o, <1>q, <2>1, <2>2, <2>3 DEF PoisonInv
    <2>4. CASE th[t].pc = "unwind"
      <3>1. ASSUME NEW u \in Threads \ {t} PROVE ~ Holding(u)
        BY <2>4, <3>1, OneHolder DEF Holding
      <3>2. poisoned' \in {Shards, s..NumShards - 1}
        <4>1. poisoned \in {Shards, th[t].k..NumShards - 1}
          BY <2>4 DEF PoisonInv, Poisoning, At
        <4>2. CASE poisoned = Shards
          BY <2>1, <2>4, <4>2
        <4>3. CASE poisoned = th[t].k..NumShards - 1
          <5>1. poisoned' = (th[t].k..NumShards - 1) \cup {s}
            BY <2>1, <2>4, <4>3
          <5>2. (th[t].k..NumShards - 1) \cup {s} = s..NumShards - 1
            BY <1>t, <2>1, ShardsAssumption DEF Shards
          <5> QED
            BY <5>1, <5>2
        <4> QED
          BY <4>1, <4>2, <4>3
      <3>3. \A u \in Threads \ {t} : ~ At(u, "unwind")'
        BY <2>1, <3>1 DEF Holding, At
      <3>4. Poisoning'
        <4>1. CASE s = 0
          BY <2>1, <3>2, <3>3, <4>1 DEF Poisoning, At, Shards
        <4>2. CASE s # 0
          BY <2>1, <2>4, <3>2, <3>3, <4>2 DEF Poisoning, At
        <4> QED
          BY <4>1, <4>2
      <3>5. ASSUME NEW u \in Threads \ {t} PROVE Verdict(u)'
        <4>1. CASE At(u, "reading")
          <5>1. index[u] \in Nat /\ u \in readers[ShardOf(u)] /\ ShardOf(u) \in Shards
            BY <4>1, ShardExists DEF IInv, TypeOK, ReadersHold, At, ShardOf
          <5>2. writer[s] = {t}
            <6>1. s \in 0..th[t].k - 1
              BY <1>t, <2>1 DEF Shards
            <6> QED
              BY <2>4, <6>1 DEF IInv, WritersHold
          <5>3. ShardOf(u) # s
            BY <2>1, <5>1, <5>2 DEF IInv, LocksExclude
          <5>4. th[u].res = "Err" <=> ShardOf(u) \in poisoned
            BY <4>1 DEF PoisonInv, Verdict
          <5>5. ShardOf(u)' = ShardOf(u)
            BY <2>1 DEF ShardOf
          <5> QED
            BY <2>1, <4>1, <5>3, <5>4, <5>5 DEF Verdict, At
        <4>2. CASE ~ At(u, "reading")
          <5>1. ~ (At(u, "writing") \/ (At(u, "wlock") /\ th[u].k > 0))
            BY <3>1 DEF Holding, At
          <5>2. Verdict(u)
            BY DEF PoisonInv
          <5> QED
            BY <2>1, <4>2, <5>1, <5>2 DEF Verdict, At
        <4> QED
          BY <4>1, <4>2
      <3> QED
        BY <2>2, <3>4, <3>5 DEF PoisonInv
    <2> QED
      BY <2>1, <2>3, <2>4
  <1> QED
    BY <1>1, <1>2, <1>3, <1>4, <1>5, <1>6 DEF Step

\* A ShardedLockWriteGuard excludes every other guard, for any number of
\* threads and shards: a writer has all shards, a reader has one.
THEOREM ExclusionHolds == Spec => []Exclusion
  <1>1. IInv => Exclusion
    <2> SUFFICES ASSUME IInv, NEW t \in Threads, NEW u \in Threads, At(t, "writing"), t # u
                 PROVE  th[u].pc \notin {"writing", "reading"}
      BY DEF Exclusion
    <2>1. \A s \in Shards : writer[s] = {t}
      BY ShardsAssumption DEF IInv, WritersHold, Progress, Shards, At
    <2>2. th[u].pc # "writing"
      <3> SUFFICES ASSUME At(u, "writing") PROVE FALSE  BY DEF At
      <3>1. writer[0] = {u}
        BY ShardsAssumption DEF IInv, WritersHold, Progress, At
      <3> QED  BY <2>1, <3>1, ShardsAssumption DEF Shards
    <2>3. th[u].pc # "reading"
      <3> SUFFICES ASSUME At(u, "reading") PROVE FALSE  BY DEF At
      <3>1. ShardOf(u) \in Shards  BY ShardExists DEF IInv, TypeOK, At, ShardOf
      <3> QED  BY <2>1, <3>1 DEF IInv, ReadersHold, LocksExclude
    <2> QED  BY <2>2, <2>3
  <1> QED  BY <1>1, InitIInv, NextIInv, PTL DEF Spec

\* The guard that a thread drops is the one it stored: no other thread locks a
\* shard between the store and the drop.
THEOREM OwnGuardsHolds == Spec => []OwnGuards
  <1>1. IInv => OwnGuards  BY DEF IInv, WritersHold, OwnGuards
  <1> QED  BY <1>1, InitIInv, NextIInv, PTL DEF Spec

\* No two running threads have the same index, and none of those on the free
\* list: a thread that exits gives back the index it had, and only that.
THEOREM IndicesDifferAlways == Spec => []IndicesDiffer
  <1>1. Init => IndexInv
    BY DEF Init, IndexInv, IndicesDiffer, NoIndex
  <1>2. IndexInv => IndicesDiffer
    BY DEF IndexInv
  <1> QED
    BY <1>1, <1>2, InitIInv, NextIInv, IndexStep, PTL DEF Spec

\* The verdict of a lock call is right for as long as its guard lives, and the
\* shards agree whenever no writer is unwinding through them.
THEOREM PoisonAgreesAlways == Spec => []PoisonAgrees
  <1>1. Init => PoisonInv
    BY DEF Init, PoisonInv, Poisoning, Verdict, Idle, At
  <1>2. PoisonInv => PoisonAgrees
    BY DEF PoisonInv, Poisoning, Verdict, PoisonAgrees
  <1> QED
    BY <1>1, <1>2, InitIInv, NextIInv, PoisonStep, PTL DEF Spec
=============================================================================
