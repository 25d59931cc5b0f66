-------------------------- MODULE AtomicCellProofs --------------------------
(***************************************************************************)
(* The SeqLock path of AtomicCell implements the atomic register, for any  *)
(* threads, cells, assignment of locks to cells, word size and calls.      *)
(***************************************************************************)
EXTENDS AtomicCell, TLAPS

\* Threads that have the lock; those that have begun to write; those that read
\* without it.
Holds(t)   == pc[t] \in {"locked", "abort", "writeLo", "writeHi", "release"}
Writing(t) == pc[t] \in {"writeHi", "release"}
Reading(t) == pc[t] \in {"readLo", "readHi", "validate"}

\* Which function runs for which call, and that an abort wrote nothing.
SubInv ==
    \A t \in Threads :
        /\ pc[t] = "optimistic" \/ Reading(t) => call[t].op \in {"load", "fetch_update"}
        /\ pc[t] = "lock" \/ Holds(t) => call[t].op \in {"load", "fetch_update"} \/ sub[t] = call[t].op
        /\ pc[t] = "abort" => ~ Writes(t, old[t])

\* The lock is locked while a thread holds it, and one thread holds it.
LockInv ==
    /\ \A t \in Threads : Holds(t) => state[LockFor(t)] = Locked /\ guard[t] # Locked
    /\ \A t, u \in Threads : Holds(t) /\ Holds(u) /\ LockFor(t) = LockFor(u) => t = u

\* A cell has its value, unless a thread is writing its words.
CellInv ==
    /\ \A c \in Cells : (\A t \in Threads : Writing(t) => CellOf(t) # c) => cell[c] = val[c]
    /\ \A t \in Threads :
          /\ pc[t] \in {"abort", "writeLo"} \/ Writing(t) => old[t] = val[CellOf(t)]
          /\ pc[t] = "writeHi" => cell[CellOf(t)].lo = New(t, old[t]).lo
          /\ pc[t] = "release" => cell[CellOf(t)] = New(t, old[t])

\* The stamp of a reader is not newer than that of the lock, nor than the one
\* that the thread which holds the lock will put back.
StampInv ==
    \A t \in Threads : Reading(t) =>
        /\ stamp[t] # Locked
        /\ state[LockFor(t)] # Locked => stamp[t] <= state[LockFor(t)]
        /\ \A u \in Threads : Holds(u) /\ LockFor(u) = LockFor(t) => stamp[t] <= guard[u]

\* The lock has, or may get back by an abort, the stamp of reader t.
MayValidate(t) ==
    \/ state[LockFor(t)] = stamp[t]
    \/ \E u \in Threads : /\ Holds(u) /\ ~ Writing(u)
                          /\ LockFor(u) = LockFor(t) /\ guard[u] = stamp[t]

\* What a reader that may still succeed has read is the value of the cell.
BufInv ==
    \A t \in Threads :
        /\ pc[t] = "readHi" /\ MayValidate(t) => buf[t].lo = val[CellOf(t)].lo
        /\ pc[t] = "validate" /\ MayValidate(t) => buf[t] = val[CellOf(t)]

\* The inductive invariant.
IInv == TypeOK /\ SubInv /\ LockInv /\ CellInv /\ StampInv /\ BufInv

\* Arithmetic wraps at two words: a call leaves a value in the cell.
LEMMA UpdateType ==
    ASSUME NEW x \in Calls, NEW v \in Values
    PROVE  Update(x, v) \in Values
  <1>1. x.op \in Ops /\ x.arg \in Values /\ x.cur \in Values  BY CellAssumption
  <1>2. \A n \in Int : Value(n) \in Values
    <2> SUFFICES ASSUME NEW n \in Int PROVE Value(n) \in Values  OBVIOUS
    <2>1. n % Base \in Words  BY CellAssumption DEF Words
    <2>2. (n \div Base) \in Int  BY CellAssumption
    <2>3. (n \div Base) % Base \in Words  BY <2>2, CellAssumption DEF Words
    <2> QED  BY <2>1, <2>3 DEF Value, Values
  <1>3. \A w \in Values : Num(w) \in Int
    BY CellAssumption DEF Values, Words, Num
  <1>4. \A w \in Values : Add(v, w) \in Values
    BY <1>2, <1>3 DEF Add
  <1>5. \A w \in Values : Sub(v, w) \in Values
    <2>1. Base * Base \in Int  BY CellAssumption
    <2> QED  BY <1>2, <1>3, <2>1 DEF Sub
  <1>6. \A u, w \in Values : And(u, w) \in Values
    <2> SUFFICES ASSUME NEW u \in Values, NEW w \in Values PROVE And(u, w) \in Values  OBVIOUS
    <2>1. \A a, b \in Words : AndWord(a, b) \in Words
      <3> SUFFICES ASSUME NEW a \in Words, NEW b \in Words PROVE AndWord(a, b) \in Words  OBVIOUS
      <3>1. \E c \in Words : IsAnd(a, b, c)  BY CellAssumption
      <3> QED  BY <3>1 DEF AndWord
    <2> QED  BY <2>1 DEF And, Values
  <1>7. \A w \in Values : Not(w) \in Values
    <2>1. Base \in Nat \ {0}  BY CellAssumption
    <2> QED  BY <2>1 DEF Not, Values, Words
  <1>8. \A u, w \in Values : Nand(u, w) \in Values  BY <1>6, <1>7 DEF Nand
  <1>9. \A u, w \in Values : Or(u, w) \in Values  BY <1>7, <1>8 DEF Or
  <1>10. \A u, w \in Values : Xor(u, w) \in Values  BY <1>6, <1>8, <1>9 DEF Xor
  <1> QED  BY <1>1, <1>4, <1>5, <1>6, <1>8, <1>9, <1>10 DEF Update, Ops, Max, Min

\* The invariant holds before any call.
LEMMA InitIInv == ASSUME CellInit PROVE IInv
  <1>1. Zero \in Values  BY CellAssumption DEF Zero, Values, Words
  <1>2. (CHOOSE x \in Calls : TRUE) \in Calls  BY CellAssumption
  <1>3. TypeOK  BY <1>1, <1>2 DEF CellInit, Init, TypeOK, Ops
  <1> QED
    BY <1>3 DEF CellInit, Init, IInv, SubInv, LockInv, CellInv, StampInv, BufInv, Holds, Writing, Reading

\* Types are preserved.
LEMMA TypeStep ==
    ASSUME TypeOK, NEW t \in Threads, Step(t) PROVE TypeOK'
  <1>1. /\ call[t] \in Calls /\ CellOf(t) \in Cells /\ LockFor(t) \in Locks
        /\ New(t, old[t]) \in Values /\ cell[CellOf(t)] \in Values
    BY UpdateType, CellAssumption DEF TypeOK, CellOf, LockFor, New
  <1> USE DEF Goto, mem, inCall, inRead, inLock, Locked
  <1>2. CASE Begin(t)
    <2>1. PICK x \in Calls :
              /\ call' = [call EXCEPT ![t] = x]
              /\ \/ sub' = [sub EXCEPT ![t] = "load"] /\ pc' = [pc EXCEPT ![t] = "optimistic"]
                 \/ sub' = [sub EXCEPT ![t] = x.op] /\ pc' = [pc EXCEPT ![t] = "lock"]
      BY <1>2 DEF Begin
    <2>2. x.op \in Ops /\ "load" \in Ops  BY CellAssumption DEF Ops
    <2> QED  BY <1>2, <2>1, <2>2 DEF Begin, TypeOK
  <1>3. CASE OptimisticRead(t)  BY <1>3, <1>1 DEF OptimisticRead, TypeOK
  <1>4. CASE ReadLo(t)  BY <1>4, <1>1 DEF ReadLo, TypeOK, Values
  <1>5. CASE ReadHi(t)  BY <1>5, <1>1 DEF ReadHi, TypeOK, Values
  <1>6. CASE ValidateRead(t)  BY <1>6, <1>1 DEF ValidateRead, TypeOK, Seen, Return, Ops
  <1>7. CASE Write(t)  BY <1>7, <1>1 DEF Write, TypeOK
  <1>8. CASE ReadOld(t)  BY <1>8, <1>1 DEF ReadOld, TypeOK
  <1>9. CASE WriteLo(t)  BY <1>9, <1>1 DEF WriteLo, TypeOK, Values
  <1>10. CASE WriteHi(t)  BY <1>10, <1>1 DEF WriteHi, TypeOK, Values
  <1>11. CASE Release(t)  BY <1>11, <1>1 DEF Release, TypeOK, Return
  <1>12. CASE Abort(t)  BY <1>12, <1>1 DEF Abort, TypeOK, Seen, Return, Ops
  <1> QED  BY <1>2, <1>3, <1>4, <1>5, <1>6, <1>7, <1>8, <1>9, <1>10, <1>11, <1>12 DEF Step

\* The function that runs stays the one of the call.
LEMMA SubStep ==
    ASSUME IInv, TypeOK', NEW t \in Threads, Step(t) PROVE SubInv'
  <1>1. \A u \in Threads : call[u] \in Calls /\ CellOf(u) \in Cells /\ LockFor(u) \in Locks
    BY CellAssumption DEF IInv, TypeOK, CellOf, LockFor
  <1> USE DEF Goto, mem, inCall, inRead, inLock, Locked, Holds, Writing, Reading, CellOf, LockFor
  <1>2. CASE Begin(t)  BY <1>2, <1>1 DEF Begin, IInv, TypeOK, SubInv, Writes, Expected
  <1>3. CASE OptimisticRead(t)  BY <1>3, <1>1 DEF OptimisticRead, IInv, TypeOK, SubInv, Writes, Expected
  <1>4. CASE ReadLo(t)  BY <1>4, <1>1 DEF ReadLo, IInv, TypeOK, SubInv, Writes, Expected
  <1>5. CASE ReadHi(t)  BY <1>5, <1>1 DEF ReadHi, IInv, TypeOK, SubInv, Writes, Expected
  <1>6. CASE ValidateRead(t)  BY <1>6, <1>1 DEF ValidateRead, IInv, TypeOK, SubInv, Seen, Return, Writes, Expected
  <1>7. CASE Write(t)  BY <1>7, <1>1 DEF Write, IInv, TypeOK, SubInv, Writes, Expected
  <1>8. CASE ReadOld(t)  BY <1>8, <1>1 DEF ReadOld, IInv, TypeOK, SubInv, Writes, Expected
  <1>9. CASE WriteLo(t)  BY <1>9, <1>1 DEF WriteLo, IInv, TypeOK, SubInv, Writes, Expected
  <1>10. CASE WriteHi(t)  BY <1>10, <1>1 DEF WriteHi, IInv, TypeOK, SubInv, Writes, Expected
  <1>11. CASE Release(t)  BY <1>11, <1>1 DEF Release, IInv, TypeOK, SubInv, Return, Writes, Expected
  <1>12. CASE Abort(t)  BY <1>12, <1>1 DEF Abort, IInv, TypeOK, SubInv, Seen, Return, Writes, Expected
  <1> QED  BY <1>2, <1>3, <1>4, <1>5, <1>6, <1>7, <1>8, <1>9, <1>10, <1>11, <1>12 DEF Step

\* One thread holds the lock.
LEMMA LockStep ==
    ASSUME IInv, TypeOK', NEW t \in Threads, Step(t) PROVE LockInv'
  <1>1. \A u \in Threads : call[u] \in Calls /\ CellOf(u) \in Cells /\ LockFor(u) \in Locks
    BY CellAssumption DEF IInv, TypeOK, CellOf, LockFor
  <1>a. DOMAIN pc = Threads /\ DOMAIN call = Threads /\ DOMAIN guard = Threads /\ DOMAIN state = Locks
    BY DEF IInv, TypeOK
  \* The steps of a thread that neither takes nor gives back the lock.
  <1>b. ASSUME UNCHANGED <<state, guard>>,
               \A u \in Threads \ {t} : pc'[u] = pc[u] /\ call'[u] = call[u],
               Holds(t)' => Holds(t) /\ call'[t] = call[t]
        PROVE  LockInv'
    <2>1. \A u \in Threads : Holds(u)' => Holds(u) /\ LockFor(u)' = LockFor(u)
      BY <1>b DEF Holds, LockFor, CellOf
    <2> QED  BY <1>b, <2>1 DEF IInv, LockInv
  <1>2. CASE Begin(t)
    BY <1>2, <1>a, <1>b DEF Begin, Goto, inLock, Holds
  <1>3. CASE OptimisticRead(t)
    BY <1>3, <1>a, <1>b DEF OptimisticRead, Goto, mem, inCall, inLock, Holds
  <1>4. CASE ReadLo(t)
    BY <1>4, <1>a, <1>b DEF ReadLo, Goto, mem, inCall, inLock, Holds
  <1>5. CASE ReadHi(t)
    BY <1>5, <1>a, <1>b DEF ReadHi, Goto, mem, inCall, inLock, Holds
  <1>6. CASE ValidateRead(t)
    <2>1. /\ pc'[t] \in {"idle", "lock"} /\ \A u \in Threads \ {t} : pc'[u] = pc[u]
          /\ UNCHANGED <<state, guard, call>>
      BY <1>6, <1>a DEF ValidateRead, Seen, Return, Goto, inCall, inLock
    <2> QED  BY <1>b, <2>1 DEF Holds
  <1>7. CASE Write(t)
    <2>1. /\ pc'[t] = "locked" /\ state[LockFor(t)] # Locked
          /\ \A u \in Threads \ {t} : pc'[u] = pc[u] /\ guard'[u] = guard[u]
          /\ guard'[t] = state[LockFor(t)]
          /\ \A l \in Locks : state'[l] = IF l = LockFor(t) THEN Locked ELSE state[l]
          /\ \A u \in Threads : LockFor(u)' = LockFor(u)
      BY <1>7, <1>1, <1>a DEF Write, Goto, inCall, LockFor, CellOf
    <2>2. \A u \in Threads \ {t} : Holds(u)' => Holds(u)
      BY <2>1 DEF Holds
    <2>3. \A u \in Threads \ {t} : Holds(u)' => LockFor(u) # LockFor(t)
      BY <2>1, <2>2 DEF IInv, LockInv
    <2>4. \A u \in Threads : Holds(u)' => state'[LockFor(u)] = Locked /\ guard'[u] # Locked
      BY <1>1, <2>1, <2>2, <2>3 DEF IInv, LockInv
    <2>5. \A u, w \in Threads : Holds(u)' /\ Holds(w)' /\ LockFor(u) = LockFor(w) => u = w
      BY <2>2, <2>3 DEF IInv, LockInv
    <2> QED  BY <2>1, <2>4, <2>5 DEF LockInv
  <1>8. CASE ReadOld(t)
    <2>1. pc[t] = "locked" /\ \A u \in Threads \ {t} : pc'[u] = pc[u]
      BY <1>8, <1>a DEF ReadOld, Goto
    <2>2. UNCHANGED <<state, guard, call>>
      BY <1>8 DEF ReadOld, mem, inCall
    <2> QED  BY <1>b, <2>1, <2>2 DEF Holds
  <1>9. CASE WriteLo(t)
    BY <1>9, <1>a, <1>b DEF WriteLo, Goto, inCall, inLock, Holds
  <1>10. CASE WriteHi(t)
    BY <1>10, <1>a, <1>b DEF WriteHi, Goto, inCall, inLock, Holds
  \* The lock comes back.
  <1>c. ASSUME Holds(t), pc'[t] \in {"idle", "lock"}, \A u \in Threads \ {t} : pc'[u] = pc[u],
               \A l \in Locks : l # LockFor(t) => state'[l] = state[l],
               UNCHANGED <<call, guard>>
        PROVE  LockInv'
    <2>1. \A u \in Threads : Holds(u)' => u # t /\ Holds(u)
      BY <1>c DEF Holds
    <2>2. \A u \in Threads : LockFor(u)' = LockFor(u)
      BY <1>c DEF LockFor, CellOf
    <2>3. \A u \in Threads : Holds(u)' => LockFor(u) # LockFor(t)
      BY <1>c, <2>1 DEF IInv, LockInv
    <2>4. \A u \in Threads : Holds(u)' => state'[LockFor(u)] = Locked /\ guard[u] # Locked
      BY <1>1, <1>c, <2>1, <2>3 DEF IInv, LockInv
    <2> QED  BY <1>c, <2>1, <2>2, <2>4 DEF IInv, LockInv
  <1>11. CASE Release(t)
    BY <1>11, <1>1, <1>a, <1>c DEF Release, Return, Goto, inCall, inLock, Holds
  <1>12. CASE Abort(t)
    <2>1. /\ pc[t] = "abort" /\ pc'[t] \in {"idle", "lock"} /\ \A u \in Threads \ {t} : pc'[u] = pc[u]
          /\ \A l \in Locks : l # LockFor(t) => state'[l] = state[l]
          /\ UNCHANGED <<call, guard>>
      BY <1>12, <1>1, <1>a DEF Abort, Seen, Return, Goto, inCall, inLock
    <2> QED  BY <1>c, <2>1 DEF Holds
  <1> QED  BY <1>2, <1>3, <1>4, <1>5, <1>6, <1>7, <1>8, <1>9, <1>10, <1>11, <1>12 DEF Step

\* A value is its two words.
LEMMA TwoWords == \A v \in Values : v = [lo |-> v.lo, hi |-> v.hi]
  BY DEF Values

\* Cells have their value outside of the writes.
LEMMA CellStep ==
    ASSUME IInv, TypeOK', NEW t \in Threads, Step(t) PROVE CellInv'
  <1>1. \A u \in Threads : call[u] \in Calls /\ CellOf(u) \in Cells /\ LockFor(u) \in Locks
    BY CellAssumption DEF IInv, TypeOK, CellOf, LockFor
  <1>a. DOMAIN pc = Threads /\ DOMAIN call = Threads /\ DOMAIN cell = Cells /\ DOMAIN old = Threads
    BY DEF IInv, TypeOK
  \* The steps of a thread that neither writes nor is about to.
  <1>b. ASSUME UNCHANGED <<val, cell, old>>,
               \A u \in Threads \ {t} : pc'[u] = pc[u] /\ call'[u] = call[u],
               ~ Writing(t), pc'[t] \notin {"abort", "writeLo", "writeHi", "release"}
        PROVE  CellInv'
    <2>1. \A u \in Threads : Writing(u) => Writing(u)' /\ CellOf(u)' = CellOf(u)
      BY <1>b DEF Writing, CellOf
    <2>2. ASSUME NEW u \in Threads, pc'[u] \in {"abort", "writeLo", "writeHi", "release"}
          PROVE  pc'[u] = pc[u] /\ CellOf(u)' = CellOf(u) /\ New(u, old[u])' = New(u, old[u])
      BY <1>b, <2>2 DEF CellOf, New
    <2>3. cell' = cell /\ val' = val /\ old' = old  BY <1>b
    <2>4. ASSUME NEW c \in Cells, \A u \in Threads : Writing(u)' => CellOf(u)' # c
          PROVE  cell[c] = val[c]
      BY <2>1, <2>4 DEF IInv, CellInv
    <2> QED  BY <2>2, <2>3, <2>4 DEF IInv, CellInv, Writing
  <1>2. CASE Begin(t)
    BY <1>2, <1>a, <1>b DEF Begin, Goto, inLock, Writing
  <1>3. CASE OptimisticRead(t)
    BY <1>3, <1>a, <1>b DEF OptimisticRead, Goto, mem, inCall, inLock, Writing
  <1>4. CASE ReadLo(t)
    BY <1>4, <1>a, <1>b DEF ReadLo, Goto, mem, inCall, inLock, Writing
  <1>5. CASE ReadHi(t)
    BY <1>5, <1>a, <1>b DEF ReadHi, Goto, mem, inCall, inLock, Writing
  <1>6. CASE ValidateRead(t)
    <2>1. /\ pc[t] = "validate" /\ pc'[t] \in {"idle", "lock"} /\ \A u \in Threads \ {t} : pc'[u] = pc[u]
          /\ UNCHANGED <<val, cell, old, call>>
      BY <1>6, <1>a DEF ValidateRead, Seen, Return, Goto, inCall, inLock
    <2> QED  BY <1>b, <2>1 DEF Writing
  <1>7. CASE Write(t)
    BY <1>7, <1>a, <1>b DEF Write, Goto, inCall, Writing
  <1>12. CASE Abort(t)
    <2>1. /\ pc[t] = "abort" /\ pc'[t] \in {"idle", "lock"} /\ \A u \in Threads \ {t} : pc'[u] = pc[u]
          /\ UNCHANGED <<val, cell, old, call>>
      BY <1>12, <1>a DEF Abort, Seen, Return, Goto, inCall, inLock
    <2> QED  BY <1>b, <2>1 DEF Writing
  <1>c. \A u \in Threads : u # t /\ Holds(t) /\ Holds(u) => CellOf(u) # CellOf(t)
    BY DEF IInv, LockInv, LockFor
  <1>8. CASE ReadOld(t)
    <2>1. /\ pc[t] = "locked" /\ pc'[t] \in {"writeLo", "abort"}
          /\ \A u \in Threads \ {t} : pc'[u] = pc[u] /\ old'[u] = old[u]
          /\ old'[t] = cell[CellOf(t)]
      BY <1>8, <1>a DEF ReadOld, Goto
    <2>2. UNCHANGED <<val, cell, call>>
      BY <1>8 DEF ReadOld, mem, inCall
    <2>3. \A u \in Threads : Writing(u) => CellOf(u) # CellOf(t)
      BY <1>c, <2>1 DEF Writing, Holds
    <2>4. cell[CellOf(t)] = val[CellOf(t)]
      BY <1>1, <2>3 DEF IInv, CellInv
    <2>5. \A u \in Threads : (Writing(u)' <=> Writing(u)) /\ CellOf(u)' = CellOf(u)
      BY <2>1, <2>2 DEF Writing, CellOf
    <2>6. ASSUME NEW u \in Threads
          PROVE  /\ pc'[u] \in {"abort", "writeLo"} \/ Writing(u)' => old'[u] = val[CellOf(u)]
                 /\ pc'[u] = "writeHi" => cell[CellOf(u)].lo = New(u, old[u])'.lo
                 /\ pc'[u] = "release" => cell[CellOf(u)] = New(u, old[u])'
      <3>1. CASE u = t  BY <2>1, <2>4, <3>1 DEF Writing
      <3>2. CASE u # t
        <4>1. New(u, old[u])' = New(u, old[u]) /\ pc'[u] = pc[u] /\ old'[u] = old[u]
          BY <2>1, <2>2, <3>2 DEF New
        <4> QED  BY <2>5, <4>1 DEF IInv, CellInv
      <3> QED  BY <3>1, <3>2
    <2> QED  BY <2>2, <2>5, <2>6 DEF IInv, CellInv
  <1>9. CASE WriteLo(t)
    <2>1. /\ pc[t] = "writeLo" /\ pc'[t] = "writeHi" /\ \A u \in Threads \ {t} : pc'[u] = pc[u]
          /\ UNCHANGED <<val, call, old>>
      BY <1>9, <1>a DEF WriteLo, Goto, inCall, inLock
    <2>2. /\ cell'[CellOf(t)].lo = New(t, old[t]).lo
          /\ \A c \in Cells : c # CellOf(t) => cell'[c] = cell[c]
      BY <1>9, <1>1, <1>a DEF WriteLo
    <2>3. \A u \in Threads : CellOf(u)' = CellOf(u) /\ New(u, old[u])' = New(u, old[u])
      BY <2>1 DEF CellOf, New
    <2>4. ASSUME NEW c \in Cells, \A u \in Threads : Writing(u)' => CellOf(u) # c
          PROVE  cell'[c] = val[c]
      <3>1. c # CellOf(t)  BY <2>1, <2>4 DEF Writing
      <3>2. \A u \in Threads : Writing(u) => CellOf(u) # c  BY <2>1, <2>4, <3>1 DEF Writing
      <3> QED  BY <2>2, <3>1, <3>2 DEF IInv, CellInv
    <2>5. ASSUME NEW u \in Threads
          PROVE  /\ pc'[u] \in {"abort", "writeLo"} \/ Writing(u)' => old[u] = val[CellOf(u)]
                 /\ pc'[u] = "writeHi" => cell'[CellOf(u)].lo = New(u, old[u]).lo
                 /\ pc'[u] = "release" => cell'[CellOf(u)] = New(u, old[u])
      <3>1. CASE u = t  BY <2>1, <2>2, <3>1 DEF IInv, CellInv
      <3>2. CASE u # t
        <4>1. pc'[u] = pc[u] /\ (Writing(u)' <=> Writing(u))
          BY <2>1, <3>2 DEF Writing
        <4>2. Writing(u) => cell'[CellOf(u)] = cell[CellOf(u)]
          BY <1>1, <1>c, <2>1, <2>2, <3>2 DEF Writing, Holds
        <4> QED  BY <4>1, <4>2 DEF IInv, CellInv, Writing
      <3> QED  BY <3>1, <3>2
    <2> QED  BY <2>1, <2>3, <2>4, <2>5 DEF CellInv
  <1> USE DEF Goto, mem, inCall, inRead, inLock, Locked, Holds, Writing, Reading, CellOf, LockFor
  <1>10. CASE WriteHi(t)
    <2> DEFINE new == New(t, old[t])
    <2>1. new \in Values /\ cell[CellOf(t)].lo = new.lo
      BY <1>1, <1>10, UpdateType DEF WriteHi, IInv, TypeOK, CellInv, New
    <2>2. cell' = [cell EXCEPT ![CellOf(t)] = new]
      BY <1>10, <2>1, TwoWords DEF WriteHi
    <2>3. \A u \in Threads : New(u, old[u])' = New(u, old[u])
      BY <1>10 DEF WriteHi, New
    <2> HIDE DEF new
    <2>4. cell'[CellOf(t)] = new /\ \A c \in Cells : c # CellOf(t) => cell'[c] = cell[c]
      BY <1>1, <2>2 DEF IInv, TypeOK
    <2>5. new = New(t, old[t])  BY DEF new
    <2>6. /\ pc[t] = "writeHi" /\ pc'[t] = "release" /\ \A u \in Threads \ {t} : pc'[u] = pc[u]
          /\ UNCHANGED <<val, call, old>>
      BY <1>10 DEF WriteHi, IInv, TypeOK
    <2>7. \A c \in Cells : (\A u \in Threads : Writing(u)' => CellOf(u)' # c) => cell'[c] = val[c]
      <3> SUFFICES ASSUME NEW c \in Cells, \A u \in Threads : Writing(u)' => CellOf(u)' # c
                   PROVE  cell'[c] = val[c]
        OBVIOUS
      <3>1. c # CellOf(t)  BY <2>6
      <3>2. \A u \in Threads : Writing(u) => CellOf(u) # c  BY <2>6, <3>1
      <3> QED  BY <2>4, <3>1, <3>2 DEF IInv, CellInv
    <2>8. ASSUME NEW u \in Threads
          PROVE  /\ pc'[u] \in {"abort", "writeLo"} \/ Writing(u)' => old[u] = val[CellOf(u)]
                 /\ pc'[u] = "writeHi" => cell'[CellOf(u)].lo = New(u, old[u]).lo
                 /\ pc'[u] = "release" => cell'[CellOf(u)] = New(u, old[u])
      <3>1. CASE u = t  BY <2>4, <2>5, <2>6, <3>1 DEF IInv, CellInv
      <3>2. CASE u # t
        <4>1. pc'[u] \in {"writeHi", "release"} => CellOf(u) # CellOf(t)
          BY <2>6, <3>2 DEF IInv, LockInv
        <4> QED  BY <1>1, <2>4, <2>6, <3>2, <4>1 DEF IInv, CellInv
      <3> QED  BY <3>1, <3>2
    <2> QED  BY <2>3, <2>6, <2>7, <2>8 DEF CellInv
  <1>11. CASE Release(t)
    <2>1. /\ pc[t] = "release" /\ pc'[t] = "idle" /\ \A u \in Threads \ {t} : pc'[u] = pc[u]
          /\ val'[CellOf(t)] = New(t, old[t])
          /\ \A c \in Cells : c # CellOf(t) => val'[c] = val[c]
          /\ UNCHANGED <<cell, call, old>>
      BY <1>11, <1>1 DEF Release, Return, IInv, TypeOK
    <2>2. \A u \in Threads : u # t /\ pc[u] \in {"abort", "writeLo", "writeHi", "release"}
                            => CellOf(u) # CellOf(t)
      BY <2>1 DEF IInv, LockInv
    <2>3. cell[CellOf(t)] = New(t, old[t])
      BY <2>1 DEF IInv, CellInv
    <2>4. ASSUME NEW c \in Cells, \A u \in Threads : Writing(u)' => CellOf(u)' # c
          PROVE  cell[c] = val'[c]
      <3>1. CASE c = CellOf(t)  BY <2>1, <2>3, <3>1
      <3>2. CASE c # CellOf(t)
        <4>1. \A u \in Threads : Writing(u) => CellOf(u) # c  BY <2>1, <2>4, <3>2
        <4> QED  BY <2>1, <3>2, <4>1 DEF IInv, CellInv
      <3> QED  BY <3>1, <3>2
    <2>5. ASSUME NEW u \in Threads
          PROVE  /\ pc'[u] \in {"abort", "writeLo"} \/ Writing(u)' => old[u] = val'[CellOf(u)]
                 /\ pc'[u] = "writeHi" => cell[CellOf(u)].lo = New(u, old[u]).lo
                 /\ pc'[u] = "release" => cell[CellOf(u)] = New(u, old[u])
      <3>1. CASE u = t  BY <2>1, <3>1
      <3>2. CASE u # t  BY <1>1, <2>1, <2>2, <3>2 DEF IInv, CellInv
      <3> QED  BY <3>1, <3>2
    <2>6. \A u \in Threads : New(u, old[u])' = New(u, old[u])
      BY <2>1 DEF New
    <2> QED  BY <2>1, <2>4, <2>5, <2>6 DEF CellInv
  <1> QED  BY <1>2, <1>3, <1>4, <1>5, <1>6, <1>7, <1>8, <1>9, <1>10, <1>11, <1>12 DEF Step

\* Stamps only grow.
LEMMA StampStep ==
    ASSUME IInv, TypeOK', NEW t \in Threads, Step(t) PROVE StampInv'
  <1>1. \A u \in Threads : call[u] \in Calls /\ CellOf(u) \in Cells /\ LockFor(u) \in Locks
    BY CellAssumption DEF IInv, TypeOK, CellOf, LockFor
  <1>a. /\ pc \in [Threads -> {"idle", "optimistic", "readLo", "readHi", "validate", "lock",
                               "locked", "abort", "writeLo", "writeHi", "release"}]
        /\ DOMAIN call = Threads /\ DOMAIN stamp = Threads
        /\ DOMAIN guard = Threads /\ DOMAIN state = Locks
    BY DEF IInv, TypeOK
  \* The steps of a thread that neither takes nor gives back the lock, and
  \* does not begin to read.
  <1>b. ASSUME UNCHANGED <<state, guard>>,
               \A u \in Threads \ {t} : pc'[u] = pc[u] /\ call'[u] = call[u] /\ stamp'[u] = stamp[u],
               Reading(t)' => Reading(t) /\ call'[t] = call[t] /\ stamp'[t] = stamp[t],
               Holds(t)' => Holds(t) /\ call'[t] = call[t]
        PROVE  StampInv'
    <2>1. \A u \in Threads : Reading(u)' => /\ Reading(u) /\ stamp'[u] = stamp[u]
                                            /\ LockFor(u)' = LockFor(u)
      BY <1>b DEF Reading, LockFor, CellOf
    <2>2. \A u \in Threads : Holds(u)' => Holds(u) /\ LockFor(u)' = LockFor(u)
      BY <1>b DEF Holds, LockFor, CellOf
    <2> QED  BY <1>b, <2>1, <2>2 DEF IInv, StampInv
  <1>2. CASE Begin(t)
    BY <1>2, <1>a, <1>b DEF Begin, Goto, inRead, inLock, Holds, Reading
  <1>3. CASE OptimisticRead(t)
    <2>1. /\ pc[t] = "optimistic"
          /\ \A u \in Threads \ {t} : pc'[u] = pc[u] /\ stamp'[u] = stamp[u]
          /\ \/ pc'[t] = "lock"
             \/ pc'[t] = "readLo" /\ stamp'[t] = state[LockFor(t)] /\ state[LockFor(t)] # Locked
          /\ UNCHANGED <<call, state, guard>>
      BY <1>3, <1>a DEF OptimisticRead, Goto, mem, inCall, inLock
    <2>2. CASE pc'[t] = "lock"
      BY <1>b, <2>1, <2>2 DEF Holds, Reading
    <2>3. CASE pc'[t] = "readLo" /\ stamp'[t] = state[LockFor(t)] /\ state[LockFor(t)] # Locked
      <3>1. \A u \in Threads : LockFor(u)' = LockFor(u)
        BY <2>1 DEF LockFor, CellOf
      <3>2. \A u \in Threads : Holds(u)' <=> Holds(u)
        BY <2>1, <2>3 DEF Holds
      <3>3. \A u \in Threads : Holds(u) => LockFor(u) # LockFor(t)
        BY <2>3 DEF IInv, LockInv
      <3>4. \A u \in Threads : u # t /\ Reading(u)' => Reading(u)
        BY <2>1 DEF Reading
      <3>5. state[LockFor(t)] \in Nat
        BY <1>1 DEF IInv, TypeOK
      <3>6. ASSUME NEW u \in Threads, Reading(u)'
            PROVE  /\ stamp'[u] # Locked
                   /\ state[LockFor(u)] # Locked => stamp'[u] <= state[LockFor(u)]
                   /\ \A w \in Threads : Holds(w) /\ LockFor(w) = LockFor(u) => stamp'[u] <= guard[w]
        <4>1. CASE u = t  BY <2>3, <3>3, <3>5, <4>1
        <4>2. CASE u # t  BY <2>1, <3>4, <3>6, <4>2 DEF IInv, StampInv
        <4> QED  BY <4>1, <4>2
      <3> QED  BY <2>1, <3>1, <3>2, <3>6 DEF StampInv
    <2> QED  BY <2>1, <2>2, <2>3
  <1>4. CASE ReadLo(t)
    BY <1>4, <1>a, <1>b DEF ReadLo, Goto, mem, inCall, inLock, Holds, Reading
  <1>5. CASE ReadHi(t)
    BY <1>5, <1>a, <1>b DEF ReadHi, Goto, mem, inCall, inLock, Holds, Reading
  <1>6. CASE ValidateRead(t)
    <2>1. /\ pc'[t] \in {"idle", "lock"} /\ \A u \in Threads \ {t} : pc'[u] = pc[u]
          /\ UNCHANGED <<state, guard, call, stamp>>
      BY <1>6, <1>a DEF ValidateRead, Seen, Return, Goto, inCall, inRead, inLock
    <2> QED  BY <1>b, <2>1 DEF Holds, Reading
  <1>7. CASE Write(t)
    <2>1. /\ pc[t] = "lock" /\ pc'[t] = "locked" /\ state[LockFor(t)] # Locked
          /\ \A u \in Threads \ {t} : pc'[u] = pc[u] /\ guard'[u] = guard[u]
          /\ guard'[t] = state[LockFor(t)]
          /\ \A l \in Locks : state'[l] = IF l = LockFor(t) THEN Locked ELSE state[l]
          /\ \A u \in Threads : LockFor(u)' = LockFor(u)
          /\ UNCHANGED stamp
      BY <1>7, <1>1, <1>a DEF Write, Goto, inCall, inRead, LockFor, CellOf
    <2>2. \A u \in Threads : Reading(u)' => Reading(u)
      BY <2>1 DEF Reading
    <2>3. \A u \in Threads \ {t} : Holds(u)' => Holds(u)
      BY <2>1 DEF Holds
    <2>4. ASSUME NEW u \in Threads, Reading(u)
          PROVE  /\ stamp[u] # Locked
                 /\ state'[LockFor(u)] # Locked => stamp[u] <= state'[LockFor(u)]
      BY <1>1, <2>1, <2>4 DEF IInv, StampInv
    <2>5. ASSUME NEW u \in Threads, Reading(u),
                 NEW w \in Threads, Holds(w)', LockFor(w) = LockFor(u)
          PROVE  stamp[u] <= guard'[w]
      <3>1. CASE w = t  BY <2>1, <2>5, <3>1 DEF IInv, StampInv
      <3>2. CASE w # t  BY <2>1, <2>3, <2>5, <3>2 DEF IInv, StampInv
      <3> QED  BY <3>1, <3>2
    <2> SUFFICES ASSUME NEW u \in Threads, Reading(u)'
                 PROVE  /\ stamp'[u] # Locked
                        /\ state'[LockFor(u)'] # Locked => stamp'[u] <= state'[LockFor(u)']
                        /\ \A w \in Threads : Holds(w)' /\ LockFor(w)' = LockFor(u)'
                                              => stamp'[u] <= guard'[w]
      BY DEF StampInv
    <2> QED  BY <2>1, <2>2, <2>4, <2>5, SMTT(30)
  <1>8. CASE ReadOld(t)
    <2>1. /\ pc[t] = "locked" /\ pc'[t] \in {"writeLo", "abort"}
          /\ \A u \in Threads \ {t} : pc'[u] = pc[u]
          /\ UNCHANGED <<state, guard, call, stamp>>
      BY <1>8, <1>a DEF ReadOld, Goto, mem, inCall, inRead
    <2> QED  BY <1>b, <2>1 DEF Holds, Reading
  <1>9. CASE WriteLo(t)
    BY <1>9, <1>a, <1>b DEF WriteLo, Goto, inCall, inRead, inLock, Holds, Reading
  <1>10. CASE WriteHi(t)
    BY <1>10, <1>a, <1>b DEF WriteHi, Goto, inCall, inRead, inLock, Holds, Reading
  \* The lock comes back with a stamp that is not older than its readers'.
  <1>c. ASSUME NEW n \in Nat, n >= guard[t], Holds(t),
               pc'[t] \in {"idle", "lock"}, \A u \in Threads \ {t} : pc'[u] = pc[u],
               \A l \in Locks : state'[l] = IF l = LockFor(t) THEN n ELSE state[l],
               UNCHANGED <<call, stamp, guard>>
        PROVE  StampInv'
    <2>1. \A u \in Threads : stamp[u] \in Nat /\ guard[u] \in Nat
      BY DEF IInv, TypeOK
    <2>2. \A u \in Threads : LockFor(u)' = LockFor(u)
      BY <1>c DEF LockFor, CellOf
    <2>3. \A u \in Threads : (Reading(u)' => Reading(u)) /\ (Holds(u)' => Holds(u))
      BY <1>c DEF Reading, Holds
    <2>4. ASSUME NEW u \in Threads, Reading(u)
          PROVE  state'[LockFor(u)] # Locked => stamp[u] <= state'[LockFor(u)]
      <3>1. CASE LockFor(u) = LockFor(t)
        <4>1. stamp[u] <= guard[t]  BY <1>c, <2>4, <3>1 DEF IInv, StampInv
        <4>2. stamp[u] <= n  BY <1>c, <2>1, <4>1
        <4> QED  BY <1>1, <1>c, <3>1, <4>2
      <3>2. CASE LockFor(u) # LockFor(t)  BY <1>1, <1>c, <2>4, <3>2 DEF IInv, StampInv
      <3> QED  BY <3>1, <3>2
    <2> QED  BY <1>c, <2>2, <2>3, <2>4 DEF IInv, StampInv
  <1>d. guard[t] \in Nat
    BY DEF IInv, TypeOK
  <1>11. CASE Release(t)
    <2>1. /\ pc[t] = "release" /\ pc'[t] = "idle" /\ \A u \in Threads \ {t} : pc'[u] = pc[u]
          /\ \A l \in Locks : state'[l] = IF l = LockFor(t) THEN guard[t] + 2 ELSE state[l]
          /\ UNCHANGED <<call, stamp, guard>>
      BY <1>11, <1>1, <1>a DEF Release, Return, Goto, inCall, inRead, inLock
    <2>2. guard[t] + 2 \in Nat /\ guard[t] + 2 >= guard[t]  BY <1>d
    <2> QED  BY <1>c, <2>1, <2>2 DEF Holds
  <1>12. CASE Abort(t)
    <2>1. /\ pc[t] = "abort" /\ pc'[t] \in {"idle", "lock"} /\ \A u \in Threads \ {t} : pc'[u] = pc[u]
          /\ \A l \in Locks : state'[l] = IF l = LockFor(t) THEN guard[t] ELSE state[l]
          /\ UNCHANGED <<call, stamp, guard>>
      BY <1>12, <1>1, <1>a DEF Abort, Seen, Return, Goto, inCall, inRead, inLock
    <2>2. guard[t] >= guard[t]  BY <1>d
    <2> QED  BY <1>c, <1>d, <2>1, <2>2 DEF Holds
  <1> QED  BY <1>2, <1>3, <1>4, <1>5, <1>6, <1>7, <1>8, <1>9, <1>10, <1>11, <1>12 DEF Step

\* Nobody is writing the cell of a reader that may still succeed.
LEMMA NotWritten ==
    ASSUME IInv, NEW t \in Threads, Reading(t), MayValidate(t)
    PROVE  cell[CellOf(t)] = val[CellOf(t)]
  <1>1. CellOf(t) \in Cells  BY CellAssumption DEF IInv, TypeOK, CellOf
  <1>2. ASSUME NEW u \in Threads, Writing(u), CellOf(u) = CellOf(t) PROVE FALSE
    <2>1. Holds(u) /\ LockFor(u) = LockFor(t)  BY <1>2 DEF Writing, Holds, LockFor
    <2>2. state[LockFor(t)] # stamp[t]
      BY <2>1 DEF IInv, LockInv, StampInv
    <2>3. PICK w \in Threads : Holds(w) /\ ~ Writing(w) /\ LockFor(w) = LockFor(t)
      BY <2>2 DEF MayValidate
    <2>4. u = w  BY <2>1, <2>3 DEF IInv, LockInv
    <2> QED  BY <1>2, <2>3, <2>4
  <1> QED  BY <1>1, <1>2 DEF IInv, CellInv

\* What a reader has read stays right while it may succeed.
LEMMA BufStep ==
    ASSUME IInv, TypeOK', NEW t \in Threads, Step(t) PROVE BufInv'
  <1>1. \A u \in Threads : call[u] \in Calls /\ CellOf(u) \in Cells /\ LockFor(u) \in Locks
    BY CellAssumption DEF IInv, TypeOK, CellOf, LockFor
  <1>a. /\ pc \in [Threads -> {"idle", "optimistic", "readLo", "readHi", "validate", "lock",
                               "locked", "abort", "writeLo", "writeHi", "release"}]
        /\ DOMAIN call = Threads /\ DOMAIN buf = Threads /\ DOMAIN stamp = Threads
        /\ DOMAIN guard = Threads /\ DOMAIN val = Cells /\ DOMAIN state = Locks
    BY DEF IInv, TypeOK
  \* The steps that change neither stamps nor values, and no reader's words.
  <1>b. ASSUME UNCHANGED <<val, state, buf, guard>>,
               \A u \in Threads \ {t} : pc'[u] = pc[u] /\ call'[u] = call[u] /\ stamp'[u] = stamp[u],
               pc'[t] \notin {"readHi", "validate"},
               Holds(t)' /\ ~ Writing(t)' => Holds(t) /\ ~ Writing(t) /\ call'[t] = call[t]
        PROVE  BufInv'
    <2> SUFFICES ASSUME NEW u \in Threads
                 PROVE  /\ pc'[u] = "readHi" /\ MayValidate(u)' => buf'[u].lo = val'[CellOf(u)'].lo
                        /\ pc'[u] = "validate" /\ MayValidate(u)' => buf'[u] = val'[CellOf(u)']
      BY DEF BufInv
    <2>1. CASE u = t  BY <1>b, <2>1
    <2>2. CASE u # t
      <3>1. MayValidate(u)' => MayValidate(u)
        <4>1. state' = state /\ guard' = guard /\ stamp'[u] = stamp[u] /\ LockFor(u)' = LockFor(u)
          BY <1>b, <2>2 DEF LockFor, CellOf
        <4>2. ASSUME NEW w \in Threads, Holds(w)', ~ Writing(w)'
              PROVE  Holds(w) /\ ~ Writing(w) /\ LockFor(w)' = LockFor(w)
          BY <1>b, <4>2 DEF Holds, Writing, LockFor, CellOf
        <4> QED  BY <4>1, <4>2 DEF MayValidate
      <3>2. pc'[u] = pc[u] /\ buf'[u] = buf[u] /\ call'[u] = call[u] /\ CellOf(u)' = CellOf(u)
        BY <1>b, <2>2 DEF CellOf
      <3>3. val' = val  BY <1>b
      <3> QED  BY <3>1, <3>2, <3>3 DEF IInv, BufInv
    <2> QED  BY <2>1, <2>2
  <1>2. CASE Begin(t)
    BY <1>2, <1>a, <1>b, SMTT(30) DEF Begin, Goto, inRead, inLock, Holds
  <1>3. CASE OptimisticRead(t)
    BY <1>3, <1>a, <1>b DEF OptimisticRead, Goto, mem, inCall, inLock, Holds
  <1>4. CASE ReadLo(t)
    <2>1. \A u \in Threads : MayValidate(u)' => MayValidate(u)
      BY <1>4, <1>1, <1>a DEF ReadLo, MayValidate, Goto, mem, inCall, inLock, Holds, Writing, CellOf, LockFor
    <2>2. MayValidate(t) => cell[CellOf(t)] = val[CellOf(t)]
      BY <1>4, NotWritten DEF ReadLo, Reading
    <2>3. /\ pc'[t] = "readHi" /\ buf'[t].lo = cell[CellOf(t)].lo
          /\ \A u \in Threads \ {t} : pc'[u] = pc[u] /\ buf'[u] = buf[u]
          /\ \A u \in Threads : CellOf(u)' = CellOf(u)
          /\ UNCHANGED <<val, call>>
      BY <1>4, <1>a DEF ReadLo, Goto, mem, inCall, CellOf
    <2> QED  BY <2>1, <2>2, <2>3 DEF IInv, BufInv
  <1>5. CASE ReadHi(t)
    <2>1. \A u \in Threads : MayValidate(u)' => MayValidate(u)
      BY <1>5, <1>1, <1>a DEF ReadHi, MayValidate, Goto, mem, inCall, inLock, Holds, Writing, CellOf, LockFor
    <2>2. MayValidate(t) => cell[CellOf(t)] = val[CellOf(t)]
      BY <1>5, NotWritten DEF ReadHi, Reading
    <2>3. /\ pc[t] = "readHi" /\ pc'[t] = "validate"
          /\ buf'[t] = [lo |-> buf[t].lo, hi |-> cell[CellOf(t)].hi]
          /\ \A u \in Threads \ {t} : pc'[u] = pc[u] /\ buf'[u] = buf[u]
          /\ \A u \in Threads : CellOf(u)' = CellOf(u)
          /\ UNCHANGED <<val, call>>
      BY <1>5, <1>a DEF ReadHi, Goto, mem, inCall, CellOf
    <2>4. MayValidate(t) => buf'[t] = val[CellOf(t)]
      <3> SUFFICES ASSUME MayValidate(t) PROVE buf'[t] = val[CellOf(t)]  OBVIOUS
      <3>1. buf[t].lo = val[CellOf(t)].lo  BY <2>3 DEF IInv, BufInv
      <3>2. val[CellOf(t)] \in Values  BY <1>1 DEF IInv, TypeOK
      <3> QED  BY <2>2, <2>3, <3>1, <3>2, TwoWords
    <2> QED  BY <2>1, <2>3, <2>4 DEF IInv, BufInv
  <1>6. CASE ValidateRead(t)
    <2>1. /\ pc'[t] \in {"idle", "lock"} /\ \A u \in Threads \ {t} : pc'[u] = pc[u]
          /\ UNCHANGED <<val, state, buf, guard, call, stamp>>
      BY <1>6, <1>a DEF ValidateRead, Seen, Return, Goto, inCall, inRead, inLock
    <2> QED  BY <1>b, <2>1 DEF Holds
  <1>7. CASE Write(t)
    <2>1. /\ pc[t] = "lock" /\ pc'[t] = "locked" /\ state[LockFor(t)] # Locked
          /\ \A u \in Threads \ {t} : pc'[u] = pc[u] /\ guard'[u] = guard[u]
          /\ guard'[t] = state[LockFor(t)]
          /\ \A l \in Locks : state'[l] = IF l = LockFor(t) THEN Locked ELSE state[l]
          /\ \A u \in Threads : LockFor(u)' = LockFor(u) /\ CellOf(u)' = CellOf(u)
          /\ UNCHANGED <<val, buf, call, stamp>>
      BY <1>7, <1>1, <1>a DEF Write, Goto, inCall, inRead, LockFor, CellOf
    <2>2. ASSUME NEW u \in Threads, Reading(u), MayValidate(u)' PROVE MayValidate(u)
      <3>1. CASE state'[LockFor(u)] = stamp[u]
        <4>1. stamp[u] # Locked  BY <2>2 DEF IInv, StampInv
        <4> QED  BY <1>1, <2>1, <3>1, <4>1 DEF MayValidate
      <3>2. CASE \E w \in Threads : /\ Holds(w)' /\ ~ Writing(w)'
                                    /\ LockFor(w) = LockFor(u) /\ guard'[w] = stamp[u]
        <4>1. PICK w \in Threads : /\ Holds(w)' /\ ~ Writing(w)'
                                   /\ LockFor(w) = LockFor(u) /\ guard'[w] = stamp[u]
          BY <3>2
        <4>2. CASE w = t  BY <2>1, <4>1, <4>2 DEF MayValidate
        <4>3. CASE w # t
          <5>1. Holds(w) /\ ~ Writing(w) /\ guard[w] = stamp[u]
            BY <2>1, <4>1, <4>3 DEF Holds, Writing
          <5> QED  BY <4>1, <5>1 DEF MayValidate
        <4> QED  BY <4>2, <4>3
      <3> QED  BY <2>1, <2>2, <3>1, <3>2 DEF MayValidate
    <2> SUFFICES ASSUME NEW u \in Threads, pc'[u] \in {"readHi", "validate"}, MayValidate(u)'
                 PROVE  /\ pc'[u] = "readHi" => buf'[u].lo = val'[CellOf(u)'].lo
                        /\ pc'[u] = "validate" => buf'[u] = val'[CellOf(u)']
      BY DEF BufInv
    <2>3. pc'[u] = pc[u] /\ Reading(u) /\ buf'[u] = buf[u] /\ CellOf(u)' = CellOf(u) /\ val' = val
      BY <2>1 DEF Reading
    <2>4. MayValidate(u)  BY <2>2, <2>3
    <2> QED  BY <2>3, <2>4 DEF IInv, BufInv
  <1>8. CASE ReadOld(t)
    <2>1. /\ pc[t] = "locked" /\ pc'[t] \in {"writeLo", "abort"}
          /\ \A u \in Threads \ {t} : pc'[u] = pc[u]
          /\ UNCHANGED <<val, state, buf, guard, call, stamp>>
      BY <1>8, <1>a DEF ReadOld, Goto, mem, inCall, inRead
    <2> QED  BY <1>b, <2>1 DEF Holds, Writing
  <1>9. CASE WriteLo(t)
    <2>1. /\ pc'[t] = "writeHi" /\ \A u \in Threads \ {t} : pc'[u] = pc[u]
          /\ UNCHANGED <<val, state, buf, guard, call, stamp>>
      BY <1>9, <1>a DEF WriteLo, Goto, inCall, inRead, inLock
    <2> QED  BY <1>b, <2>1 DEF Writing
  <1>10. CASE WriteHi(t)
    <2>1. /\ pc'[t] = "release" /\ \A u \in Threads \ {t} : pc'[u] = pc[u]
          /\ UNCHANGED <<val, state, buf, guard, call, stamp>>
      BY <1>10, <1>a DEF WriteHi, Goto, inCall, inRead, inLock
    <2> QED  BY <1>b, <2>1 DEF Writing
  <1>11. CASE Release(t)
    <2>1. /\ pc[t] = "release" /\ pc'[t] = "idle"
          /\ \A u \in Threads \ {t} : pc'[u] = pc[u]
          /\ \A l \in Locks : state'[l] = IF l = LockFor(t) THEN guard[t] + 2 ELSE state[l]
          /\ \A c \in Cells : c # CellOf(t) => val'[c] = val[c]
          /\ \A u \in Threads : LockFor(u)' = LockFor(u) /\ CellOf(u)' = CellOf(u)
          /\ UNCHANGED <<buf, call, stamp, guard>>
      BY <1>11, <1>1, <1>a DEF Release, Return, Goto, inCall, inRead, inLock, LockFor, CellOf
    <2>2. ASSUME NEW u \in Threads, Reading(u), MayValidate(u)'
          PROVE  MayValidate(u) /\ val'[CellOf(u)] = val[CellOf(u)]
      <3>1. CASE LockFor(u) = LockFor(t)
        <4>1. stamp[u] <= guard[t] /\ stamp[u] \in Nat /\ guard[t] \in Nat
          BY <2>1, <2>2, <3>1 DEF IInv, StampInv, TypeOK, Holds
        <4>2. state'[LockFor(u)] # stamp[u]
          <5>1. state'[LockFor(u)] = guard[t] + 2  BY <1>1, <2>1, <3>1, Zenon
          <5> QED  BY <4>1, <5>1
        <4>3. PICK w \in Threads : Holds(w)' /\ LockFor(w) = LockFor(u)
          BY <2>1, <2>2, <4>2 DEF MayValidate
        <4>4. w # t /\ Holds(w)
          BY <2>1, <4>3 DEF Holds
        <4> QED  BY <2>1, <3>1, <4>3, <4>4 DEF IInv, LockInv, Holds
      <3>2. CASE LockFor(u) # LockFor(t)
        <4>1. state'[LockFor(u)] = state[LockFor(u)] /\ val'[CellOf(u)] = val[CellOf(u)]
          BY <1>1, <2>1, <3>2 DEF LockFor
        <4>2. \A w \in Threads : Holds(w)' /\ ~ Writing(w)' => Holds(w) /\ ~ Writing(w)
          BY <2>1 DEF Holds, Writing
        <4> QED  BY <2>1, <2>2, <4>1, <4>2 DEF MayValidate
      <3> QED  BY <3>1, <3>2
    <2>3. \A u \in Threads : pc'[u] \in {"readHi", "validate"} => pc'[u] = pc[u]
      BY <2>1
    <2> SUFFICES ASSUME NEW u \in Threads, pc'[u] \in {"readHi", "validate"}, MayValidate(u)'
                 PROVE  /\ pc'[u] = "readHi" => buf'[u].lo = val'[CellOf(u)'].lo
                        /\ pc'[u] = "validate" => buf'[u] = val'[CellOf(u)']
      BY DEF BufInv
    <2>4. pc'[u] = pc[u] /\ Reading(u) /\ buf'[u] = buf[u] /\ CellOf(u)' = CellOf(u)
      BY <2>1, <2>3 DEF Reading
    <2>5. MayValidate(u) /\ val'[CellOf(u)] = val[CellOf(u)]  BY <2>2, <2>4
    <2> QED  BY <2>4, <2>5 DEF IInv, BufInv
  <1>12. CASE Abort(t)
    <2>1. /\ pc[t] = "abort" /\ pc'[t] \in {"idle", "lock"}
          /\ \A u \in Threads \ {t} : pc'[u] = pc[u]
          /\ \A l \in Locks : state'[l] = IF l = LockFor(t) THEN guard[t] ELSE state[l]
          /\ \A u \in Threads : LockFor(u)' = LockFor(u) /\ CellOf(u)' = CellOf(u)
          /\ UNCHANGED <<val, buf, call, stamp, guard>>
      BY <1>12, <1>1, <1>a DEF Abort, Seen, Return, Goto, inCall, inRead, inLock, LockFor, CellOf
    <2>2. \A w \in Threads : Holds(w)' /\ ~ Writing(w)' => Holds(w) /\ ~ Writing(w)
      BY <2>1 DEF Holds, Writing
    <2>3. Holds(t) /\ ~ Writing(t)
      BY <2>1 DEF Holds, Writing
    <2>4. \A u \in Threads : MayValidate(u)' => MayValidate(u)
      BY <1>1, <2>1, <2>2, <2>3 DEF MayValidate
    <2>5. \A u \in Threads : pc'[u] \in {"readHi", "validate"} => pc'[u] = pc[u]
      BY <2>1
    <2> QED  BY <2>1, <2>4, <2>5 DEF IInv, BufInv
  <1> QED  BY <1>2, <1>3, <1>4, <1>5, <1>6, <1>7, <1>8, <1>9, <1>10, <1>11, <1>12 DEF Step

\* Every step preserves the invariant.
LEMMA NextIInv == ASSUME IInv, [CellNext]_vars PROVE IInv'
  <1>1. CASE UNCHANGED vars
    <2>1. UNCHANGED <<val, cell, state, pc, call, sub, exp, stamp, buf, guard, old>>
      BY <1>1 DEF vars, mem, inCall, inRead, inLock
    <2>2. TypeOK'  BY <2>1 DEF IInv, TypeOK
    <2>3. SubInv'  BY <2>1, Zenon DEF IInv, SubInv, Reading, Holds, Writes, Expected
    <2>4. LockInv' /\ CellInv'
      BY <2>1, Zenon DEF IInv, LockInv, CellInv, Holds, Writing, LockFor, CellOf, New
    <2>5. StampInv'  BY <2>1, Zenon DEF IInv, StampInv, Reading, Holds, LockFor, CellOf
    <2>6. BufInv'
      BY <2>1, Zenon DEF IInv, BufInv, MayValidate, Holds, Writing, LockFor, CellOf
    <2> QED  BY <2>2, <2>3, <2>4, <2>5, <2>6 DEF IInv
  <1>2. ASSUME NEW t \in Threads, Step(t) PROVE IInv'
    <2>1. TypeOK'  BY <1>2, TypeStep DEF IInv
    <2> QED  BY <1>2, <2>1, SubStep, LockStep, CellStep, StampStep, BufStep DEF IInv
  <1> QED  BY <1>1, <1>2 DEF CellNext, Done

\* A load that validates its stamp has read the value that the cell has, for
\* any number of cells that share the lock.
THEOREM NoTornReadHolds == CellSpec => []NoTornRead
  <1>1. IInv => NoTornRead  BY DEF IInv, BufInv, MayValidate, NoTornRead
  <1> QED  BY <1>1, InitIInv, NextIInv, PTL DEF CellSpec

\* A call that only looks leaves the value of the register.
LEMMA LookDoes ==
    ASSUME IInv, NEW t \in Threads, NEW x, x = val[CellOf(t)],
           Return(t, x), UNCHANGED val,
           \/ call[t].op = "load"
           \/ call[t].op = "fetch_update" /\ x = call[t].cur
           \/ call[t].op = "compare_exchange" /\ x # call[t].cur
    PROVE  Do(t, call[t])
  <1>1. call[t].c \in Cells /\ val \in [Cells -> Values]
    BY CellAssumption DEF IInv, TypeOK
  <1>2. Update(call[t], val[call[t].c]) = val[call[t].c]
    BY DEF Update, CellOf
  <1>3. val' = [val EXCEPT ![call[t].c] = Update(call[t], val[call[t].c])]
    BY <1>1, <1>2
  <1> QED  BY <1>3 DEF Do, Return, CellOf

\* Every step of the cell is one call on the register, or leaves it alone.
LEMMA StepSimulates ==
    ASSUME IInv, [CellNext]_vars PROVE [Next]_<<val, last>>
  <1>1. CASE UNCHANGED vars  BY <1>1 DEF vars, mem
  <1> SUFFICES ASSUME NEW t \in Threads, Step(t) PROVE [Next]_<<val, last>>
    BY <1>1 DEF CellNext, Done
  <1>2. call[t] \in Calls  BY DEF IInv, TypeOK
  <1>3. CASE ValidateRead(t)
    <2>1. CASE Return(t, buf[t]) /\ state[LockFor(t)] = stamp[t]
               /\ (call[t].op # "fetch_update" \/ buf[t] = call[t].cur)
      <3>1. buf[t] = val[CellOf(t)]
        BY <1>3, <2>1 DEF ValidateRead, IInv, BufInv, MayValidate
      <3>2. call[t].op \in {"load", "fetch_update"}
        BY <1>3 DEF ValidateRead, IInv, SubInv, Reading
      <3>3. UNCHANGED val  BY <1>3 DEF ValidateRead
      <3>4. Do(t, call[t])  BY <2>1, <3>1, <3>2, <3>3, LookDoes
      <3> QED  BY <1>2, <3>4 DEF Next
    <2>2. CASE UNCHANGED <<val, last>>  BY <2>2
    <2> QED  BY <1>3, <2>1, <2>2 DEF ValidateRead, Seen
  <1>4. CASE Abort(t)
    <2>1. CASE Return(t, old[t]) /\ (call[t].op # "fetch_update" \/ old[t] = call[t].cur)
      <3>1. old[t] = val[CellOf(t)]
        BY <1>4 DEF Abort, IInv, CellInv
      <3>2. \/ call[t].op = "load"
            \/ call[t].op = "fetch_update" /\ old[t] = call[t].cur
            \/ call[t].op = "compare_exchange" /\ old[t] # call[t].cur
        BY <1>4, <2>1 DEF Abort, IInv, SubInv, Holds, Writes, Expected
      <3>3. UNCHANGED val  BY <1>4 DEF Abort
      <3>4. Do(t, call[t])  BY <2>1, <3>1, <3>2, <3>3, LookDoes
      <3> QED  BY <1>2, <3>4 DEF Next
    <2>2. CASE UNCHANGED <<val, last>>  BY <2>2
    <2> QED  BY <1>4, <2>1, <2>2 DEF Abort, Seen
  <1>5. CASE Release(t)
    <2>1. old[t] = val[CellOf(t)]
      BY <1>5 DEF Release, IInv, CellInv, Writing
    <2>2. Do(t, call[t])
      BY <1>5, <2>1 DEF Release, Return, Do, New, CellOf
    <2> QED  BY <1>2, <2>2 DEF Next
  <1>6. CASE \/ Begin(t) \/ OptimisticRead(t) \/ ReadLo(t) \/ ReadHi(t)
             \/ Write(t) \/ ReadOld(t) \/ WriteLo(t) \/ WriteHi(t)
    BY <1>6, Zenon DEF Begin, OptimisticRead, ReadLo, ReadHi, Write, ReadOld, WriteLo, WriteHi, mem
  <1> QED  BY <1>3, <1>4, <1>5, <1>6 DEF Step

\* AtomicCell's operations through the sequence lock are those of an atomic
\* register: each takes effect in one step between its call and its return.
THEOREM RegisterImplemented == CellSpec => ImplementsRegister
  <1>1. CellInit => Init  BY DEF CellInit
  <1> QED  BY <1>1, InitIInv, NextIInv, StepSimulates, PTL DEF CellSpec, ImplementsRegister, Spec
=============================================================================
