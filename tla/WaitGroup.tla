------------------------------ MODULE WaitGroup ------------------------------
(***************************************************************************)
(* crossbeam_utils::sync::WaitGroup: threads clone, drop and wait on the   *)
(* handles of one group.  A step is one access to the atomic counter, or   *)
(* one operation on the mutex or the condition variable.                   *)
(***************************************************************************)
EXTENDS Integers

CONSTANTS Threads,
          NoThread,
          MaxClones  \* bound: how many handles are cloned, in all

VARIABLES
    count,   \* Inner::count
    lock,    \* the thread that holds Inner::lock, or NoThread
    asleep,  \* the threads waiting on Inner::cvar and not notified
    held,    \* handles each thread owns
    pc,      \* what each thread is doing
    waited,  \* the threads whose call of wait has returned
    clones   \* handles cloned so far

vars == <<count, lock, asleep, held, pc, waited, clones>>

Goto(t, l) == pc' = [pc EXCEPT ![t] = l]

\* WaitGroup::new, in the hands of one thread.
Init ==
    /\ count = 1
    /\ lock = NoThread
    /\ asleep = {}
    /\ held \in {[t \in Threads |-> IF t = u THEN 1 ELSE 0] : u \in Threads}
    /\ pc = [t \in Threads |-> "idle"]
    /\ waited = {}
    /\ clones = 0

\* Clone: t clones a handle and moves the clone to u, or keeps it.
Clone(t, u) ==
    /\ pc[t] = "idle" /\ held[t] > 0
    /\ clones < MaxClones
    /\ clones' = clones + 1
    /\ count' = count + 1
    /\ held' = [held EXCEPT ![u] = @ + 1]
    /\ UNCHANGED <<lock, asleep, pc, waited>>

\* Drop: the fetch_sub; the last handle goes on to notify.
Drop(t) ==
    /\ pc[t] = "idle" /\ held[t] > 0
    /\ count' = count - 1
    /\ held' = [held EXCEPT ![t] = @ - 1]
    /\ Goto(t, IF count = 1 THEN "drop_lock" ELSE "idle")
    /\ UNCHANGED <<lock, asleep, waited, clones>>

\* wait consumes a handle of t without its Drop.
Wait(t) ==
    /\ pc[t] = "idle" /\ held[t] > 0
    /\ count' = count - 1
    /\ held' = [held EXCEPT ![t] = @ - 1]
    /\ Goto(t, IF count = 1 THEN "wait_notify_lock" ELSE "lock")
    /\ UNCHANGED <<lock, asleep, waited, clones>>

\* Mutant of NotifyLock: the mutex is not waited for.
NotifyNoLock(t) ==
    /\ \/ pc[t] = "drop_lock" /\ Goto(t, "drop_notify")
       \/ pc[t] = "wait_notify_lock" /\ Goto(t, "wait_notify")
    /\ UNCHANGED <<count, lock, asleep, held, waited, clones>>

\* `drop(inner.lock.lock().unwrap())` in drop and in wait.
NotifyLock(t) ==
    /\ lock = NoThread
    /\ \/ pc[t] = "drop_lock" /\ Goto(t, "drop_notify")
       \/ pc[t] = "wait_notify_lock" /\ Goto(t, "wait_notify")
    /\ UNCHANGED <<count, lock, asleep, held, waited, clones>>

\* notify_all; the wait that was the last returns with it.
NotifyAll(t) ==
    /\ pc[t] \in {"drop_notify", "wait_notify"}
    /\ asleep' = {}
    /\ waited' = IF pc[t] = "wait_notify" THEN waited \cup {t} ELSE waited
    /\ Goto(t, "idle")
    /\ UNCHANGED <<count, lock, held, clones>>

\* wait takes the mutex, at first or when it wakes up.
Lock(t) ==
    /\ pc[t] = "lock" \/ (pc[t] = "asleep" /\ t \notin asleep)
    /\ lock = NoThread
    /\ lock' = t
    /\ Goto(t, "check")
    /\ UNCHANGED <<count, asleep, held, waited, clones>>

\* The loop: the counter is loaded under the mutex.
Check(t) ==
    /\ pc[t] = "check"
    /\ \/ /\ count = 0
          /\ lock' = NoThread
          /\ waited' = waited \cup {t}
          /\ Goto(t, "idle")
       \/ /\ count # 0
          /\ Goto(t, "sleep")
          /\ UNCHANGED <<lock, waited>>
    /\ UNCHANGED <<count, asleep, held, clones>>

\* Condvar::wait releases the mutex and falls asleep at once.
Sleep(t) ==
    /\ pc[t] = "sleep"
    /\ lock' = NoThread
    /\ asleep' = asleep \cup {t}
    /\ Goto(t, "asleep")
    /\ UNCHANGED <<count, held, waited, clones>>

\* A condition variable may wake up spuriously.
Spurious(t) ==
    /\ t \in asleep
    /\ asleep' = asleep \ {t}
    /\ UNCHANGED <<count, lock, held, pc, waited, clones>>

Progress(t) == NotifyLock(t) \/ NotifyAll(t) \/ Lock(t) \/ Check(t) \/ Sleep(t)

Terminated == count = 0 /\ (\A t \in Threads : pc[t] = "idle") /\ UNCHANGED vars

Next ==
    \/ \E t \in Threads :
          \/ \E u \in Threads : Clone(t, u)
          \/ Drop(t) \/ Wait(t) \/ Progress(t) \/ Spurious(t)
    \/ Terminated

Spec == Init /\ [][Next]_vars

\* Threads in a call keep running; the mutex, free again and again, is had at
\* some time.  Nobody is obliged to drop a handle.
Fairness ==
    \A t \in Threads :
        WF_vars(NotifyAll(t) \/ Check(t) \/ Sleep(t)) /\ SF_vars(NotifyLock(t) \/ Lock(t))

LiveSpec == Spec /\ Fairness

-----------------------------------------------------------------------------
TypeOK ==
    /\ count \in Nat
    /\ lock \in Threads \cup {NoThread}
    /\ asleep \subseteq Threads
    /\ held \in [Threads -> Nat]
    /\ pc \in [Threads -> {"idle", "drop_lock", "drop_notify", "wait_notify_lock",
                           "wait_notify", "lock", "check", "sleep", "asleep"}]
    /\ waited \subseteq Threads
    /\ clones \in 0..MaxClones

\* "Drops this reference and waits until all other references are dropped": a
\* wait that has returned, in whichever of the two ways, leaves no handle in
\* any thread's hands.
WaitedForAll ==
    waited # {} => \A t \in Threads : held[t] = 0

\* The threads blocked in wait return once the last handle is gone, however
\* the notification interleaves with their check and their falling asleep.
WaitReturns == \A t \in Threads : (count = 0) ~> (pc[t] = "idle")
=============================================================================
