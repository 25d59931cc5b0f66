------------------------------- MODULE MCSync -------------------------------
(* crossbeam-utils: Parker, WaitGroup and scoped threads.  A behaviour runs  *)
(* one of them, `which`; the others stay as they begin.                      *)
EXTENDS Parker, TLC

CONSTANTS NoThread, MaxClones,       \* of WaitGroup, whose threads are Unparkers
          MaxChildren                \* of ScopedThreads

VARIABLES
    which,
    gCount, gLock, gAsleep, gHeld, gPc, gWaited, gClones,
    sState, sClones, sHandles, sTaken, sOwn, sPushing, sJoining, sScope, sPanics, sJoined

Group == INSTANCE WaitGroup WITH
    Threads <- Unparkers,
    count <- gCount, lock <- gLock, asleep <- gAsleep, held <- gHeld, pc <- gPc,
    waited <- gWaited, clones <- gClones

Scoped == INSTANCE ScopedThreads WITH
    state <- sState, clones <- sClones, handles <- sHandles, taken <- sTaken, own <- sOwn,
    pushing <- sPushing, joining <- sJoining, scope <- sScope, panics <- sPanics,
    joined <- sJoined

gVars == <<gCount, gLock, gAsleep, gHeld, gPc, gWaited, gClones>>
sVars == <<sState, sClones, sHandles, sTaken, sOwn, sPushing, sJoining, sScope, sPanics, sJoined>>
all   == <<which, vars, gVars, sVars>>

\* Those that do not run have one initial state.
MCInit ==
    /\ which \in {"parker", "group", "scope"}
    /\ Init /\ Group!Init /\ Scoped!Init
    /\ which # "group" => gHeld[CHOOSE t \in Unparkers : TRUE] = 1

NextParker == which = "parker" /\ Next /\ UNCHANGED <<which, gVars, sVars>>
NextGroup  == which = "group" /\ Group!Next /\ UNCHANGED <<which, vars, sVars>>
NextScope  == which = "scope" /\ Scoped!Next /\ UNCHANGED <<which, vars, gVars>>

\* The fairness of the three that block.  Only the one that runs has a step to
\* take: the two that wait for a mutex share a condition.
MCFairness ==
    /\ WF_vars(ParkStep) /\ WF_vars(Tick)
    /\ \A t \in Unparkers :
          /\ WF_vars(UnparkNotify(t))
          /\ WF_gVars(Group!NotifyAll(t) \/ Group!Check(t) \/ Group!Sleep(t))
          /\ SF_<<vars, gVars>>(\/ UnparkLock(t) /\ UNCHANGED gVars
                                \/ (Group!NotifyLock(t) \/ Group!Lock(t)) /\ UNCHANGED vars)
    /\ WF_sVars(which = "scope" /\ Scoped!Next)

MCSpec ==
    /\ MCInit
    /\ [][NextParker \/ NextGroup \/ NextScope]_all
    /\ MCFairness

\* WaitGroup: a wait that has returned leaves no handle in any thread's hands.
\* Scope: every thread has ended when scope returns, nested ones too; join finds its
\* JoinHandle; unless the closure of the scope panicked, which resumes its panic,
\* scope returns Err with the panics of exactly the children that nobody joined, and
\* Ok if there are none.
WaitsForAll ==
    /\ which = "group" => Group!WaitedForAll
    /\ which = "scope" =>
          Scoped!NoThreadEscapes /\ Scoped!HandleAvailable /\ Scoped!PanicsCollected
\* Parker: park returns once a token is there, and at its deadline.  WaitGroup: the
\* threads blocked in wait return once the last handle is gone.  Scope: scope returns.
BlockedReturn ==
    /\ UnparkWakes /\ DeadlineReturns
    /\ which = "group" => Group!WaitReturns
    /\ which = "scope" => Scoped!ScopeReturns
=============================================================================
