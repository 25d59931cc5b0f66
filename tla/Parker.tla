------------------------------- MODULE Parker -------------------------------
(***************************************************************************)
(* crossbeam_utils::sync::Parker: one thread that parks, and the threads   *)
(* that unpark it through its Unparkers.  A step is one access to the      *)
(* atomic state, or one operation on the mutex or the condition variable.  *)
(***************************************************************************)
EXTENDS Integers

CONSTANTS Unparkers,   \* the threads that hold an Unparker
          Modes,       \* the calls used: "forever" (park), "deadline"
          MaxUnparks   \* bound: calls of unpark by each of them

ASSUME ParkerAssumption ==
    /\ Modes \subseteq {"forever", "deadline"}
    /\ MaxUnparks \in Nat

EMPTY    == 0
PARKED   == 1
NOTIFIED == 2

VARIABLES
    state,   \* Inner::state
    locked,  \* Inner::lock is held, by the parking thread
    asleep,  \* the parking thread waits on Inner::cvar and is not notified
    pc,      \* what the parking thread is doing
    mode,    \* kind of its call; "expired": the deadline has passed
    result,  \* result of its last call
    upc,     \* what each unparker is doing
    left     \* calls of unpark that each of them has left

parker == <<locked, asleep, pc, mode, result>>
vars   == <<state, parker, upc, left>>

Init ==
    /\ state = EMPTY
    /\ locked = FALSE
    /\ asleep = FALSE
    /\ pc = "idle"
    /\ mode = "forever"
    /\ result = "none"
    /\ upc = [u \in Unparkers |-> "idle"]
    /\ left = [u \in Unparkers |-> MaxUnparks]

(***************************************************************************)
(* Inner::park.                                                            *)
(***************************************************************************)
\* The call returns, and its MutexGuard, if it has one, is dropped.
Return(r) ==
    /\ pc' = "idle"
    /\ mode' = "forever"
    /\ result' = r
    /\ locked' = FALSE
    /\ UNCHANGED asleep

Park ==
    /\ pc = "idle"
    /\ pc' = "consume"
    /\ mode' \in Modes
    /\ result' = "pending"
    /\ UNCHANGED <<state, locked, asleep, upc, left>>

\* The first compare_exchange, and the look at the clock.
Consume ==
    /\ pc = "consume"
    /\ \/ /\ state = NOTIFIED
          /\ state' = EMPTY
          /\ Return("unparked")
       \/ /\ state # NOTIFIED
          /\ mode = "expired"
          /\ Return("timeout")
          /\ UNCHANGED state
       \/ /\ state # NOTIFIED
          /\ mode # "expired"
          /\ pc' = "lock"
          /\ UNCHANGED <<state, locked, asleep, mode, result>>
    /\ UNCHANGED <<upc, left>>

Lock ==
    /\ pc = "lock"
    /\ ~ locked
    /\ locked' = TRUE
    /\ pc' = "announce"
    /\ UNCHANGED <<state, asleep, mode, result, upc, left>>

\* The compare_exchange that announces the parked thread.
Announce ==
    /\ pc = "announce"
    /\ state' = IF state = EMPTY THEN PARKED ELSE state
    /\ pc' = CASE state = EMPTY    -> "wait"
               [] state = NOTIFIED -> "swap"
               [] OTHER            -> "panic"
    /\ UNCHANGED <<locked, asleep, mode, result, upc, left>>

\* A notification came in between: it is consumed.
Swap ==
    /\ pc = "swap"
    /\ state' = EMPTY
    /\ \/ state = NOTIFIED /\ Return("unparked")
       \/ state # NOTIFIED /\ pc' = "panic" /\ UNCHANGED <<locked, asleep, mode, result>>
    /\ UNCHANGED <<upc, left>>

\* Condvar::wait or wait_timeout: release the mutex and fall asleep.
Wait ==
    /\ pc = "wait"
    /\ mode # "expired"
    /\ locked' = FALSE
    /\ asleep' = TRUE
    /\ pc' = "asleep"
    /\ UNCHANGED <<state, mode, result, upc, left>>

\* Mutants of TimedOut: a notification is lost; the state is not reset.
TimedOutLoses ==
    /\ pc = "wait"
    /\ mode = "expired"
    /\ state' = EMPTY
    /\ Return("timeout")
    /\ UNCHANGED <<upc, left>>

TimedOutNoReset ==
    /\ pc = "wait"
    /\ mode = "expired"
    /\ Return(IF state = NOTIFIED THEN "unparked" ELSE "timeout")
    /\ state' = IF state = NOTIFIED THEN EMPTY ELSE state
    /\ UNCHANGED <<upc, left>>

\* The deadline has passed before the wait: the last swap decides.
TimedOut ==
    /\ pc = "wait"
    /\ mode = "expired"
    /\ state' = EMPTY
    /\ \/ state = NOTIFIED /\ Return("unparked")
       \/ state = PARKED /\ Return("timeout")
       \/ state = EMPTY /\ pc' = "panic" /\ UNCHANGED <<locked, asleep, mode, result>>
    /\ UNCHANGED <<upc, left>>

\* The thread was notified, and takes the mutex again.
Wake ==
    /\ pc = "asleep"
    /\ ~ asleep
    /\ ~ locked
    /\ locked' = TRUE
    /\ pc' = "check"
    /\ UNCHANGED <<state, asleep, mode, result, upc, left>>

\* wait_timeout ends by itself.
TimeUp ==
    /\ pc = "asleep"
    /\ asleep
    /\ mode = "expired"
    /\ asleep' = FALSE
    /\ UNCHANGED <<state, locked, pc, mode, result, upc, left>>

\* The clock passes the deadline of the call.
Tick ==
    /\ mode = "deadline"
    /\ mode' = "expired"
    /\ UNCHANGED <<state, locked, asleep, pc, result, upc, left>>

\* A condition variable may wake up spuriously.
Spurious ==
    /\ pc = "asleep"
    /\ asleep
    /\ asleep' = FALSE
    /\ UNCHANGED <<state, locked, pc, mode, result, upc, left>>

Check ==
    /\ pc = "check"
    /\ \/ /\ state = NOTIFIED
          /\ state' = EMPTY
          /\ Return("unparked")
       \/ /\ state # NOTIFIED
          /\ pc' = "wait"
          /\ UNCHANGED <<state, locked, asleep, mode, result>>
    /\ UNCHANGED <<upc, left>>

(***************************************************************************)
(* Inner::unpark.                                                          *)
(***************************************************************************)
Goto(u, l) == upc' = [upc EXCEPT ![u] = l]

\* The swap; the mutex is needed only if a thread is parked.
Unpark(u) ==
    /\ upc[u] = "idle" /\ left[u] > 0
    /\ left' = [left EXCEPT ![u] = @ - 1]
    /\ state' = NOTIFIED
    /\ Goto(u, IF state = PARKED THEN "lock" ELSE "idle")
    /\ UNCHANGED parker

\* `drop(self.lock.lock().unwrap())`.
UnparkLock(u) ==
    /\ upc[u] = "lock"
    /\ ~ locked
    /\ Goto(u, "notify")
    /\ UNCHANGED <<state, parker, left>>

UnparkNotify(u) ==
    /\ upc[u] = "notify"
    /\ asleep' = FALSE
    /\ Goto(u, "idle")
    /\ UNCHANGED <<state, locked, pc, mode, result, left>>

ParkStep == Consume \/ Lock \/ Announce \/ Swap \/ Wait \/ TimedOut \/ Wake \/ TimeUp \/ Check

\* Nobody is obliged to call park or unpark, so the program may rest.
Rest == pc \in {"idle", "asleep"} /\ (\A u \in Unparkers : upc[u] = "idle") /\ UNCHANGED vars

Next ==
    \/ Park \/ ParkStep \/ Spurious \/ Tick
    \/ \E u \in Unparkers : Unpark(u) \/ UnparkLock(u) \/ UnparkNotify(u)
    \/ Rest

Spec == Init /\ [][Next]_vars

\* Threads in a call keep running, and so does the clock.  A spurious wake-up
\* is not owed to anyone, and the mutex, free again and again, is had at some
\* time.
Fairness ==
    /\ WF_vars(ParkStep) /\ WF_vars(Tick)
    /\ \A u \in Unparkers : SF_vars(UnparkLock(u)) /\ WF_vars(UnparkNotify(u))

LiveSpec == Spec /\ Fairness

-----------------------------------------------------------------------------
TypeOK ==
    /\ state \in {EMPTY, PARKED, NOTIFIED}
    /\ locked \in BOOLEAN /\ asleep \in BOOLEAN
    /\ pc \in {"idle", "consume", "lock", "announce", "swap", "wait", "asleep", "check", "panic"}
    /\ mode \in {"forever", "deadline", "expired"}
    /\ result \in {"none", "pending", "unparked", "timeout"}
    /\ upc \in [Unparkers -> {"idle", "lock", "notify"}]
    /\ left \in [Unparkers -> 0..MaxUnparks]

\* "inconsistent park_timeout state" and "park state changed unexpectedly" are
\* never reached, whatever unpark does between two accesses to the state: the
\* state says PARKED exactly while the thread is between its announcement and
\* its return, unless a notification has replaced it.  A call has no result
\* before it returns.
ParkStateConsistent ==
    /\ pc # "panic"
    /\ (result = "pending") <=> (pc # "idle")
    /\ state = PARKED => pc \in {"wait", "asleep", "check"}
    /\ state = EMPTY => pc \notin {"wait", "asleep", "check", "swap"}

Token == INSTANCE ParkToken WITH token <- state = NOTIFIED

\* park and unpark act atomically on one token: a time-out that races with
\* unpark does not lose it, and no token is consumed twice.
ImplementsToken == Token!Spec

\* A thread is not left asleep beside the token: whenever the token is there
\* during a call of park, the call returns.
UnparkWakes == (pc # "idle" /\ state = NOTIFIED) ~> pc = "idle"

\* A call with a deadline returns, with or without a token.
DeadlineReturns == (mode \in {"deadline", "expired"}) ~> pc = "idle"
=============================================================================
