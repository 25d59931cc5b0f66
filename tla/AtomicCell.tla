----------------------------- MODULE AtomicCell -----------------------------
(***************************************************************************)
(* crossbeam-utils' AtomicCell for values that no primitive atomic type    *)
(* fits: the operations go through one of 67 global sequence locks, picked *)
(* by the cell's address, so that cells may share one.  A load first reads *)
(* the words of the value without the lock and validates the stamp after.  *)
(* The stamps are naturals: on the targets of seq_lock.rs they wrap after  *)
(* 2^31 or 2^63 writes, more than there are during one read.               *)
(***************************************************************************)
EXTENDS AtomicRegister

CONSTANTS Locks,
          LockOf,    \* the lock of each cell: lock(addr)
          MaxCalls   \* a bound: the calls that each thread makes

ASSUME CellAssumption ==
    /\ Base \in Nat \ {0} /\ \A a, b \in Words : \E c \in Words : IsAnd(a, b, c)
    /\ LockOf \in [Cells -> Locks]
    /\ Calls # {} /\ Calls \subseteq [op : Ops, c : Cells, arg : Values, cur : Values]

VARIABLES
    cell,   \* the words of each cell
    state,  \* SeqLock::state: 1 if locked, else the stamp
    left,   \* calls each thread may still make
    pc,     \* of each thread: where it is
    call,   \* the call it is in
    sub,    \* the function of the lock's path it is in: fetch_update runs a
            \* load and then compare_exchanges from `exp`
    exp, stamp, buf, guard, old  \* its locals

\* val and last are ghosts: what the calls that have returned left and got.
mem    == <<val, last, cell, state, left>>
inCall == <<call, sub, exp>>
inRead == <<stamp, buf>>
inLock == <<guard, old>>
vars   == <<mem, pc, inCall, inRead, inLock>>

Locked == 1

CellInit ==
    /\ Init
    /\ cell = [c \in Cells |-> Zero]
    /\ state = [l \in Locks |-> 0]
    /\ left = [t \in Threads |-> MaxCalls]
    /\ pc = [t \in Threads |-> "idle"]
    /\ call = [t \in Threads |-> CHOOSE x \in Calls : TRUE]
    /\ sub = [t \in Threads |-> "load"]
    /\ exp = [t \in Threads |-> Zero] /\ buf = exp /\ old = exp
    /\ stamp = [t \in Threads |-> 0] /\ guard = stamp

CellOf(t)  == call[t].c
LockFor(t) == LockOf[CellOf(t)]

Goto(t, l) == pc' = [pc EXCEPT ![t] = l]

Begin(t) ==
    /\ pc[t] = "idle" /\ left[t] > 0
    /\ left' = [left EXCEPT ![t] = @ - 1]
    /\ \E x \in Calls :
          /\ call' = [call EXCEPT ![t] = x]
          /\ IF x.op \in {"load", "fetch_update"}
             THEN sub' = [sub EXCEPT ![t] = "load"] /\ Goto(t, "optimistic")
             ELSE sub' = [sub EXCEPT ![t] = x.op] /\ Goto(t, "lock")
    /\ UNCHANGED <<val, last, cell, state, exp, inRead, inLock>>

\* The call returns x.
Return(t, x) ==
    /\ last' = [last EXCEPT ![t] = {[call |-> call[t], old |-> x]}]
    /\ Goto(t, "idle")
    /\ UNCHANGED inCall

\* A load, or a compare_exchange that failed, has got x: the call returns it,
\* unless it is a fetch_update whose closure gives a next value to try.
Seen(t, x) ==
    \/ /\ call[t].op # "fetch_update" \/ x = call[t].cur
       /\ Return(t, x)
    \/ /\ call[t].op = "fetch_update" /\ x # call[t].cur
       /\ sub' = [sub EXCEPT ![t] = "compare_exchange"]
       /\ exp' = [exp EXCEPT ![t] = x]
       /\ Goto(t, "lock")
       /\ UNCHANGED <<last, call>>

-----------------------------------------------------------------------------
(***************************************************************************)
(* The optimistic read of atomic_load.                                     *)
(***************************************************************************)
OptimisticRead(t) ==
    /\ pc[t] = "optimistic"
    /\ IF state[LockFor(t)] = Locked
       THEN Goto(t, "lock") /\ UNCHANGED stamp
       ELSE stamp' = [stamp EXCEPT ![t] = state[LockFor(t)]] /\ Goto(t, "readLo")
    /\ UNCHANGED <<mem, inCall, buf, inLock>>

ReadLo(t) ==
    /\ pc[t] = "readLo" /\ Goto(t, "readHi")
    /\ buf' = [buf EXCEPT ![t] = [lo |-> cell[CellOf(t)].lo, hi |-> @.hi]]
    /\ UNCHANGED <<mem, inCall, stamp, inLock>>

ReadHi(t) ==
    /\ pc[t] = "readHi" /\ Goto(t, "validate")
    /\ buf' = [buf EXCEPT ![t] = [lo |-> @.lo, hi |-> cell[CellOf(t)].hi]]
    /\ UNCHANGED <<mem, inCall, stamp, inLock>>

\* Mutant of ValidateRead: the stamp is not compared.
ValidateAny(t) ==
    /\ pc[t] = "validate"
    /\ Seen(t, buf[t])
    /\ UNCHANGED <<val, cell, state, left, inRead, inLock>>

ValidateRead(t) ==
    /\ pc[t] = "validate"
    /\ IF state[LockFor(t)] = stamp[t] THEN Seen(t, buf[t])
       ELSE Goto(t, "lock") /\ UNCHANGED <<last, inCall>>
    /\ UNCHANGED <<val, cell, state, left, inRead, inLock>>

-----------------------------------------------------------------------------
(***************************************************************************)
(* Under the lock.                                                         *)
(***************************************************************************)
\* SeqLock::write: the swap of a thread that finds 1 changes nothing.
Write(t) ==
    /\ pc[t] = "lock" /\ state[LockFor(t)] # Locked
    /\ state' = [state EXCEPT ![LockFor(t)] = Locked]
    /\ guard' = [guard EXCEPT ![t] = state[LockFor(t)]]
    /\ Goto(t, "locked")
    /\ UNCHANGED <<val, last, cell, left, inCall, inRead, old>>

\* The value that a compare_exchange looks for, and whether the function
\* writes a value when the cell has x, and which.
Expected(t) == IF call[t].op = "fetch_update" THEN exp[t] ELSE call[t].cur
Writes(t, x) == \/ sub[t] \notin {"load", "compare_exchange"}
                \/ sub[t] = "compare_exchange" /\ x = Expected(t)
New(t, x) == Update(call[t], x)

ReadOld(t) ==
    /\ pc[t] = "locked"
    /\ old' = [old EXCEPT ![t] = cell[CellOf(t)]]
    /\ Goto(t, IF Writes(t, cell[CellOf(t)]) THEN "writeLo" ELSE "abort")
    /\ UNCHANGED <<mem, inCall, inRead, guard>>

WriteLo(t) ==
    /\ pc[t] = "writeLo" /\ Goto(t, "writeHi")
    /\ cell' = [cell EXCEPT ![CellOf(t)] = [lo |-> New(t, old[t]).lo, hi |-> @.hi]]
    /\ UNCHANGED <<val, last, state, left, inCall, inRead, inLock>>

WriteHi(t) ==
    /\ pc[t] = "writeHi" /\ Goto(t, "release")
    /\ cell' = [cell EXCEPT ![CellOf(t)] = [lo |-> @.lo, hi |-> New(t, old[t]).hi]]
    /\ UNCHANGED <<val, last, state, left, inCall, inRead, inLock>>

\* Mutant of Release: the old stamp comes back.
ReleaseOldStamp(t) ==
    /\ pc[t] = "release" /\ Return(t, old[t])
    /\ state' = [state EXCEPT ![LockFor(t)] = guard[t]]
    /\ val' = [val EXCEPT ![CellOf(t)] = New(t, old[t])]
    /\ UNCHANGED <<cell, left, inRead, inLock>>

\* Drop of the SeqLockWriteGuard: a new stamp.
Release(t) ==
    /\ pc[t] = "release" /\ Return(t, old[t])
    /\ state' = [state EXCEPT ![LockFor(t)] = guard[t] + 2]
    /\ val' = [val EXCEPT ![CellOf(t)] = New(t, old[t])]
    /\ UNCHANGED <<cell, left, inRead, inLock>>

\* SeqLockWriteGuard::abort: nothing was written and the stamp stays.
Abort(t) ==
    /\ pc[t] = "abort" /\ Seen(t, old[t])
    /\ state' = [state EXCEPT ![LockFor(t)] = guard[t]]
    /\ UNCHANGED <<val, cell, left, inRead, inLock>>

Step(t) ==
    \/ Begin(t) \/ OptimisticRead(t) \/ ReadLo(t) \/ ReadHi(t) \/ ValidateRead(t)
    \/ Write(t) \/ ReadOld(t) \/ WriteLo(t) \/ WriteHi(t) \/ Release(t) \/ Abort(t)

\* Stuttering once every thread is done, so that other deadlocks are reported.
Done == (\A t \in Threads : pc[t] = "idle" /\ left[t] = 0) /\ UNCHANGED vars

CellNext == (\E t \in Threads : Step(t)) \/ Done

CellSpec == CellInit /\ [][CellNext]_vars

-----------------------------------------------------------------------------
\* The variables are of their types.
TypeOK ==
    /\ val \in [Cells -> Values] /\ cell \in [Cells -> Values]
    /\ state \in [Locks -> Nat]
    /\ pc \in [Threads -> {"idle", "optimistic", "readLo", "readHi", "validate", "lock",
                           "locked", "abort", "writeLo", "writeHi", "release"}]
    /\ call \in [Threads -> Calls] /\ sub \in [Threads -> Ops]
    /\ exp \in [Threads -> Values] /\ buf \in [Threads -> Values] /\ old \in [Threads -> Values]
    /\ stamp \in [Threads -> Nat] /\ guard \in [Threads -> Nat]

\* A load whose stamp is still the lock's has read a value that the cell has
\* now, and not words of two: an abort gives an old stamp back, a write never.
NoTornRead ==
    \A t \in Threads :
        pc[t] = "validate" /\ state[LockFor(t)] = stamp[t] => buf[t] = val[CellOf(t)]

\* Every call of AtomicCell takes effect at once, the lock shared with other
\* cells, optimistic loads and the retries of fetch_update notwithstanding.
ImplementsRegister == Spec
=============================================================================
