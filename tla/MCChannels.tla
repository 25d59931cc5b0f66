----------------------------- MODULE MCChannels -----------------------------
(* The channels of crossbeam-channel: array, list, zero with select, at and  *)
(* tick.  A behaviour runs one of them, `which`; the others stay as they     *)
(* begin.                                                                    *)
EXTENDS ArrayChannelBuffer, TLC

CONSTANTS Components,          \* those that a run checks
          ListReceivers, ListSends, BlockCap,  \* of ListChannel
          Chans, SelectScripts,\* of ZeroChannel and Select
          t1, t2, t3,          \* the threads of Select and of Timers
          When, Duration, MaxTime

Trio == {t1, t2, t3}
Three(a, b, c) == t1 :> a @@ t2 :> b @@ t3 :> c

Call(kind, how, ops) == [kind |-> kind, mode |-> how, ops |-> ops]
Direct(how, op)      == Call("direct", how, <<op>>)
c1 == CHOOSE c \in Chans : TRUE
c2 == CHOOSE c \in Chans : c # c1
S(c) == [dir |-> "send", c |-> c]
R(c) == [dir |-> "recv", c |-> c]

\* Selects that meet each other or direct calls, with all modes and deadlines.
SmallScripts == {
    Three(<<Call("select", "block", <<S(c1), R(c2)>>)>>,
          <<Call("select", "block", <<S(c2), R(c1)>>)>>,
          << >>),
    Three(<<Call("select", "timeout", <<R(c1), R(c2)>>)>>,
          <<Direct("block", S(c1))>>,
          <<Direct("timeout", S(c2))>>),
    Three(<<Call("ready", "block", <<R(c1), R(c2)>>)>>,
          <<Call("select", "block", <<S(c1), S(c2)>>)>>,
          << >>),
    Three(<<Direct("timeout", R(c1))>>,
          <<Direct("timeout", S(c1))>>,
          <<Direct("block", S(c1))>>),
    Three(<<Call("select", "try", <<S(c1), R(c2)>>)>>,
          <<Call("select", "timeout", <<S(c2), R(c1)>>)>>,
          << >>)}

\* Two more, with a third thread beside two selects that meet and beside the one
\* that waits for readiness.
AllScripts == SmallScripts \cup {
    Three(<<Call("select", "try", <<S(c1), R(c2)>>)>>,
          <<Call("select", "timeout", <<S(c2), R(c1)>>)>>,
          <<Direct("block", S(c2))>>),
    Three(<<Call("ready", "block", <<R(c1), R(c2)>>), Direct("try", R(c1))>>,
          <<Call("select", "block", <<S(c1), S(c2)>>)>>,
          <<Direct("timeout", S(c2))>>)}

On(o, d) == [on |-> o, deadline |-> d]
Now   == -1
Never == -2

\* Receivers that compete for a tick, for the one message of at, or for both.
TimerScripts == {
    Three(<<On("tick", Now), On("tick", Never)>>, <<On("tick", 3), On("tick", Now)>>, << >>),
    Three(<<On("tick", Never)>>, <<On("select", 2)>>, << >>),
    Three(<<On("at", Never)>>, <<On("at", 1)>>, <<On("select", Never)>>),
    Three(<<On("at", Now)>>, <<On("at", Now), On("at", 4)>>, <<On("tick", Never)>>)}

VARIABLES
    which,
    lHead, lTail, lBlocks, lWaiters, lIsEmpty, lSelect, lPermit, lCounter, lTh, lFresh,
    lResult, lLog, lTaken, lDropped,
    zWaker, zClosed, zCtx, zPermit, zPackets, zTodo, zTh, zReceived, zOutcome,
    tNow, tReceived, tDelivery, tTodo, tTh, tOut

List == INSTANCE ListChannel WITH
    Receivers <- ListReceivers, MaxSends <- ListSends,
    head <- lHead, tail <- lTail, blocks <- lBlocks, waiters <- lWaiters,
    isEmpty <- lIsEmpty, select <- lSelect, permit <- lPermit, counter <- lCounter,
    th <- lTh, fresh <- lFresh, result <- lResult, log <- lLog, taken <- lTaken,
    dropped <- lDropped

Zero == INSTANCE Select WITH
    Threads <- Trio, Scripts <- SelectScripts,
    waker <- zWaker, closed <- zClosed, ctx <- zCtx, permit <- zPermit, packets <- zPackets,
    todo <- zTodo, th <- zTh, received <- zReceived, outcome <- zOutcome

Timer == INSTANCE Timers WITH
    Threads <- Trio, Scripts <- TimerScripts,
    now <- tNow, received <- tReceived, delivery <- tDelivery, todo <- tTodo, th <- tTh,
    out <- tOut

lVars == <<lHead, lTail, lBlocks, lWaiters, lIsEmpty, lSelect, lPermit, lCounter, lTh, lFresh,
           lResult, lLog, lTaken, lDropped>>
zVars == <<zWaker, zClosed, zCtx, zPermit, zPackets, zTodo, zTh, zReceived, zOutcome>>
tVars == <<tNow, tReceived, tDelivery, tTodo, tTh, tOut>>

\* Those that do not run have one initial state.
MCInit ==
    /\ which \in Components /\ Init /\ List!Init /\ Zero!Init /\ Timer!Init
    /\ which # "zero" => zTodo = CHOOSE s \in SelectScripts : TRUE
    /\ which # "timer" => tTodo = CHOOSE s \in TimerScripts : TRUE

IsArray == which \in {"array", "wake"}

NextArray == IsArray /\ Next /\ UNCHANGED <<which, lVars, zVars, tVars>>
NextList  == which = "list" /\ List!Next /\ UNCHANGED <<which, vars, zVars, tVars>>
NextZero  == which = "zero" /\ Zero!Next /\ UNCHANGED <<which, vars, lVars, tVars>>
NextTimer == which = "timer" /\ Timer!Next /\ UNCHANGED <<which, vars, lVars, zVars>>

MCSpec == MCInit /\ [][NextArray \/ NextList \/ NextZero \/ NextTimer]_<<which, vars, lVars, zVars, tVars>>

\* The fairness of the channels on which threads block.  As `which` does not
\* change, a compare_exchange shares a condition with its like.
MCFairness ==
    /\ \A t \in Threads : WF_vars(IsArray /\ Progress(t))
    /\ \A t \in Senders \cup ListReceivers : WF_lVars(which = "list" /\ List!Progress(t))
    /\ \A s \in Senders :
          SF_<<vars, lVars>>(\/ IsArray /\ SendCas(s) /\ UNCHANGED lVars
                             \/ which = "list" /\ List!SendCas(s) /\ UNCHANGED vars)
    /\ \A r \in Receivers \cup ListReceivers :
          SF_<<vars, lVars>>(\/ /\ IsArray /\ r \in Receivers /\ RecvCas(r)
                                /\ UNCHANGED lVars
                             \/ /\ which = "list" /\ r \in ListReceivers /\ List!RecvCas(r)
                                /\ UNCHANGED vars)
    /\ \A t \in Trio : WF_zVars(which = "zero" /\ Zero!Step(t))
    /\ \A c \in Chans : WF_zVars(which = "zero" /\ Zero!Disconnect(c))

MCLiveSpec == MCSpec /\ MCFairness

\* Senders are interchangeable, and so are receivers.
Symmetry == Permutations(Senders) \cup Permutations(Receivers)

\* Bounds on the array channel: a receiver drops its handle first of all and calls
\* have a deadline or do not wait ("array"), or a sender does and every call blocks
\* ("wake").  A call whose deadline has not passed does what a blocking one does.
InCall(t) == pc[t] \notin {"idle", "mark", "disconnect", "discard", "destroy", "done"}
GoneFirst(side) == \/ \E t \in side : pc[t] = "done"
                   \/ tail = 0 /\ (\A t \in Threads : pc[t] = "idle")
ArrayBound ==
    /\ which = "array" => GoneFirst(Receivers) /\ \A t \in Threads : InCall(t) => mode[t] # "block"
    /\ which = "wake" => GoneFirst(Senders) /\ \A t \in Threads : InCall(t) => mode[t] = "block"

\* List: blocks are freed once, not before their last use, and all in the end.
\* Zero and select: the packet that a thread writes or reads is still there,
\* and between calls a thread has no entry and no packet.
FreedOnce ==
    /\ which = "list" => List!BlocksFreedOnce
    /\ which = "zero" => Zero!TokenAlive /\ Zero!NothingLeft
\* List: no receiver is left asleep beside a message or the disconnection, and
\* `unregister(oper).unwrap()` finds the entry of one that gives up.
ListWakes == which = "list" => List!NoLostWakeup /\ List!UnregisterSucceeds
\* List, zero and select: each message is received once, dropped once, or its
\* send failed.  At and tick: a message is received once, ticks are a period
\* apart, and neither message nor timeout comes early.
EachMessageOnce ==
    /\ which = "list" => List!EachMessageOnce
    /\ which = "zero" => Zero!EachMessageOnce
    /\ which = "timer" => Timer!OncePerDelivery /\ Timer!NeverEarly
\* Array and list: every call takes effect at one moment on a FIFO buffer, of
\* Cap messages or without a bound.  (Most steps stutter: that is tried first.)
ChannelsImplemented ==
    /\ Abstract!Init
    /\ [][IsArray => UNCHANGED Abstract!vars \/ Abstract!Next]_(Abstract!vars)
    /\ List!Abstract!Init
    /\ [][which = "list" => UNCHANGED List!Abstract!vars \/ List!Abstract!Next]_(List!Abstract!vars)
\* Array and list: no call outlasts the disconnection, and discarding ends.
\* Zero and select: every call returns.
CallsReturn ==
    /\ IsArray => ReturnsAfterDisconnect
    /\ which = "list" => List!ReturnsAfterDisconnect
    /\ which = "zero" => Zero!CallsReturn
=============================================================================
