---------------------------- MODULE ScopedThreads ----------------------------
(***************************************************************************)
(* crossbeam-utils' thread::scope.  Every running thread of the scope may  *)
(* spawn: it clones the wait group into the child's closure, starts the    *)
(* child and only then pushes its JoinHandle on the shared list.  When the *)
(* closure of the scope has returned or panicked, the main thread waits    *)
(* for the wait group and joins what is left on the list.  A spawner may   *)
(* take a handle before that with ScopedJoinHandle::join.  WaitGroup has a *)
(* module of its own; here it is the number of its clones.                 *)
(***************************************************************************)
EXTENDS Integers, SequencesExt

CONSTANT MaxChildren   \* a bound: the threads that may be spawned

\* The thread that calls scope, and the others in the order they are spawned.
Main     == 0
Children == 1..MaxChildren
Threads  == Children \cup {Main}

VARIABLES
    state,    \* of each thread: none, running, ending or unwinding with its Scope,
              \* leaving or failing without, ok or panicked; of Main: whether the
              \* closure of the scope still runs, has returned or has panicked
    clones,   \* the clones of the scope's WaitGroup
    handles,  \* Scope::handles, in the order of the pushes
    taken,    \* threads whose JoinHandle was taken out of the shared Option
    own,      \* the ScopedJoinHandles that each thread has
    pushing,  \* the child whose handle each thread is about to push, as a set
    joining,  \* the child each thread is joining, as a set
    scope,    \* what `scope` does: closure, waiting, draining; then how it ended:
              \* resume_unwind, Err or Ok
    panics,   \* the panics of children that `scope` has collected and reports
    joined    \* history: the children whose join was asked for by their spawner

vars == <<state, clones, handles, taken, own, pushing, joining, scope, panics, joined>>

Init ==
    /\ state = [t \in Threads |-> IF t = Main THEN "running" ELSE "none"]
    /\ clones = 2
    /\ handles = << >>
    /\ taken = {}
    /\ own = [t \in Threads |-> {}]
    /\ pushing = [t \in Threads |-> {}]
    /\ joining = [t \in Threads |-> {}]
    /\ scope = "closure"
    /\ panics = {} /\ joined = {}

\* The thread runs its closure and is in none of the functions below.
Free(t) == /\ state[t] = "running" /\ pushing[t] = {} /\ joining[t] = {}
           /\ t = Main => scope = "closure"

Ended(c) == state[c] \in {"ok", "panicked"}
Returned == scope \in {"resume_unwind", "Err", "Ok"}

\* spawn, up to the start of the thread.  When the thread cannot be started,
\* the closure is dropped with its clone and nothing has changed.
Spawn(t, c) ==
    /\ Free(t) /\ state[c] = "none" /\ state[c - 1] # "none"
    /\ clones' = clones + 1
    /\ state' = [state EXCEPT ![c] = "running"]
    /\ pushing' = [pushing EXCEPT ![t] = {c}]
    /\ UNCHANGED <<handles, taken, own, joining, scope, panics, joined>>

\* The list is behind a mutex, which scope holds while it drains it.
PushHandle(t) ==
    /\ pushing[t] # {} /\ scope # "draining"
    /\ handles' = handles \o SetToSeq(pushing[t])
    /\ own' = [own EXCEPT ![t] = @ \cup pushing[t]]
    /\ pushing' = [pushing EXCEPT ![t] = {}]
    /\ UNCHANGED <<state, clones, taken, joining, scope, panics, joined>>

\* The child's f returns and its result is stored, or it panics.
RunClosure(c) ==
    /\ c # Main /\ Free(c)
    /\ \E s \in {"ending", "unwinding"} : state' = [state EXCEPT ![c] = s]
    /\ own' = [own EXCEPT ![c] = {}]
    /\ UNCHANGED <<clones, handles, taken, pushing, joining, scope, panics, joined>>

\* Its Scope, the last local of the closure, is dropped, then what the closure
\* has captured, and the thread is over.
DropScope(c) ==
    /\ state[c] \in {"ending", "unwinding"}
    /\ state' = [state EXCEPT ![c] = IF @ = "ending" THEN "leaving" ELSE "failing"]
    /\ clones' = clones - 1
    /\ UNCHANGED <<handles, taken, own, pushing, joining, scope, panics, joined>>

EndThread(c) ==
    /\ state[c] \in {"leaving", "failing"}
    /\ state' = [state EXCEPT ![c] = IF @ = "leaving" THEN "ok" ELSE "panicked"]
    /\ UNCHANGED <<clones, handles, taken, own, pushing, joining, scope, panics, joined>>

\* ScopedJoinHandle::join takes the handle (unwrap: it must be there) ...
Join(t, c) ==
    /\ Free(t) /\ c \in own[t] \ taken
    /\ taken' = taken \cup {c}
    /\ own' = [own EXCEPT ![t] = @ \ {c}]
    /\ joining' = [joining EXCEPT ![t] = {c}]
    /\ joined' = joined \cup {c}
    /\ UNCHANGED <<state, clones, handles, pushing, scope, panics>>

\* ... and waits for the thread; `scope` collects the errors of its own joins.
JoinReturns(t) ==
    /\ joining[t] # {} /\ \A c \in joining[t] : Ended(c)
    /\ joining' = [joining EXCEPT ![t] = {}]
    /\ panics' = IF t # Main \/ scope = "closure" THEN panics
                 ELSE panics \cup {c \in joining[t] : state[c] = "panicked"}
    /\ UNCHANGED <<state, clones, handles, taken, own, pushing, scope, joined>>

\* The closure of the scope returns, or its panic is caught; then
\* drop(scope.wait_group).
CloseScope ==
    /\ Free(Main)
    /\ \E s \in {"ok", "panicked"} : state' = [state EXCEPT ![Main] = s]
    /\ scope' = "waiting"
    /\ clones' = clones - 1
    /\ own' = [own EXCEPT ![Main] = {}]
    /\ UNCHANGED <<handles, taken, pushing, joining, panics, joined>>

\* wg.wait() returns when its own clone is the last.
Wait ==
    /\ scope = "waiting" /\ clones = 1
    /\ scope' = "draining"
    /\ clones' = clones - 1
    /\ UNCHANGED <<state, handles, taken, own, pushing, joining, panics, joined>>

\* Mutant of Drain: a thread is not joined.
DrainSkips ==
    /\ scope = "draining" /\ joining[Main] = {} /\ handles # << >>
    /\ handles' = Tail(handles)
    /\ taken' = taken \cup {Head(handles)}
    /\ UNCHANGED <<state, clones, own, pushing, joining, scope, panics, joined>>

\* A handle is drained: if nobody has joined it, it is joined now.
Drain ==
    /\ scope = "draining" /\ joining[Main] = {} /\ handles # << >>
    /\ handles' = Tail(handles)
    /\ IF Head(handles) \in taken THEN UNCHANGED <<taken, joining>>
       ELSE /\ taken' = taken \cup {Head(handles)}
            /\ joining' = [joining EXCEPT ![Main] = {Head(handles)}]
    /\ UNCHANGED <<state, clones, own, pushing, scope, panics, joined>>

\* Nothing is left to drain: the panic of the closure is resumed, and those of
\* the children go with it, or they are returned, if there are any.
Return ==
    /\ scope = "draining" /\ joining[Main] = {} /\ handles = << >>
    /\ \/ /\ state[Main] = "panicked"
          /\ scope' = "resume_unwind" /\ panics' = {}
       \/ /\ state[Main] = "ok"
          /\ scope' = IF panics = {} THEN "Ok" ELSE "Err"
          /\ UNCHANGED panics
    /\ UNCHANGED <<state, clones, handles, taken, own, pushing, joining, joined>>

\* Stuttering once scope has returned, so that other deadlocks are reported.
Done == Returned /\ UNCHANGED vars

Next ==
    \/ \E t \in Threads :
          \/ \E c \in Children : Spawn(t, c) \/ Join(t, c)
          \/ PushHandle(t) \/ RunClosure(t) \/ DropScope(t)
          \/ EndThread(t) \/ JoinReturns(t)
    \/ CloseScope \/ Wait \/ Drain \/ Return \/ Done

Spec == Init /\ [][Next]_vars

\* Threads do not stop, and closures return.
Fairness == WF_vars(Next)
LiveSpec == Spec /\ Fairness

-----------------------------------------------------------------------------
\* The variables are of their types.
TypeOK ==
    /\ state \in [Threads -> {"none", "running", "ending", "unwinding", "leaving", "failing",
                          "ok", "panicked"}]
    /\ clones \in Nat /\ handles \in Seq(Children) /\ taken \subseteq Children
    /\ own \in [Threads -> SUBSET Children]
    /\ pushing \in [Threads -> SUBSET Children] /\ joining \in [Threads -> SUBSET Children]
    /\ scope \in {"closure", "waiting", "draining", "resume_unwind", "Err", "Ok"}
    /\ panics \subseteq Children /\ joined \subseteq Children

\* When scope returns, every thread that was spawned in it, by whichever thread,
\* has ended: nothing that it borrowed from the caller is used any more.
NoThreadEscapes ==
    Returned =>
        \A c \in Children : state[c] # "none" => Ended(c) /\ c \in taken

\* "The handle will surely be available because the root scope waits for nested
\* scopes": what a running thread may still join, scope has not taken.
HandleAvailable == \A t \in Threads : state[t] = "running" => own[t] \cap taken = {}

\* Unless its closure has panicked, and the panic is resumed, scope returns Err
\* with the panics of exactly the children that nobody else joined, and Ok when
\* there are none.
PanicsCollected ==
    LET unjoined == {c \in Children : state[c] = "panicked" /\ c \notin joined}
    IN Returned =>
          \/ scope = "resume_unwind" /\ state[Main] = "panicked"
          \/ scope = "Err" /\ state[Main] = "ok" /\ panics = unjoined /\ unjoined # {}
          \/ scope = "Ok" /\ state[Main] = "ok" /\ unjoined = {}

\* scope returns: waiting for threads that spawn and join in any order ends.
ScopeReturns == <>Returned
=============================================================================
