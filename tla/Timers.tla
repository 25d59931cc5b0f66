------------------------------- MODULE Timers -------------------------------
(***************************************************************************)
(* The channels that time fills: at and after (flavors/at.rs), with one    *)
(* message at an instant, and tick (flavors/tick.rs), with a message per   *)
(* period, which is dropped when nobody takes it.  No thread sends; the    *)
(* receivers that share a channel compete for its messages with one swap   *)
(* or compare_exchange.  A select waits for the earliest of the two.  Time *)
(* passes between any two steps.                                           *)
(***************************************************************************)
EXTENDS Integers, Sequences, FiniteSets

CONSTANTS Threads,
          Scripts,   \* for every thread its calls: on "at", "tick" or "select", with
                     \* a deadline: Now, Never or an instant
          When,      \* delivery_time of the at channel
          Duration,  \* duration of the tick channel, which first ticks then
          MaxTime    \* a bound: the last instant

Now   == -1
Never == -2
NoMsg == -3

VARIABLES
    now,       \* Instant::now()
    received,  \* at: received
    delivery,  \* tick: delivery_time
    todo,      \* the calls each thread has still to make, with this one
    th,        \* what each thread is doing
    out        \* history: what was returned, where, when and under which deadline

vars == <<now, received, delivery, todo, th, out>>

Idle == [pc |-> "idle", del |-> 0, now |-> 0, until |-> 0, again |-> FALSE]

Init ==
    /\ now = 0 /\ received = FALSE /\ delivery = Duration
    /\ todo \in Scripts
    /\ th = [t \in Threads |-> Idle]
    /\ out = {}

At(t, l)   == th[t].pc = l
Goto(t, l) == th' = [th EXCEPT ![t].pc = l]
Deadline(t) == todo[t][1].deadline
Selects(t)  == todo[t][1].on = "select"
Passed(t)   == Deadline(t) = Now \/ (Deadline(t) # Never /\ now >= Deadline(t))

Return(t, on, m) ==
    /\ th' = [th EXCEPT ![t] = Idle]
    /\ todo' = [todo EXCEPT ![t] = Tail(@)]
    /\ out' = out \cup {[call |-> <<t, Len(todo[t])>>, on |-> on, msg |-> m, at |-> now,
                       deadline |-> Deadline(t)]}

TimePasses ==
    /\ now < MaxTime
    /\ now' = now + 1
    /\ UNCHANGED <<received, delivery, todo, th, out>>

\* A call begins: try_recv has no deadline to wait for, a select tries at first.
Begin(t) ==
    /\ At(t, "idle") /\ todo[t] # << >>
    /\ LET on == todo[t][1].on
       IN Goto(t, IF on = "select" \/ Deadline(t) = Now
                  THEN (IF on = "tick" THEN "tick_try" ELSE "at_try") ELSE on)
    /\ UNCHANGED <<now, received, delivery, todo, out>>

\* thread::sleep and utils::sleep_until; Never is for ever.
Sleep(t) ==
    /\ At(t, "sleep")
    /\ th[t].until # Never /\ now >= th[t].until
    /\ Return(t, "timeout", NoMsg)
    /\ UNCHANGED <<now, received, delivery>>

-----------------------------------------------------------------------------
(***************************************************************************)
(* at: try_recv and recv.                                                  *)
(***************************************************************************)
\* Nothing there: a select goes on to the tick, try_recv returns.
AtEmpty(t) ==
    IF Selects(t) THEN Goto(t, "tick_try") /\ UNCHANGED <<todo, out>>
    ELSE Return(t, "empty", NoMsg)

AtTry(t) ==
    /\ At(t, "at_try")
    /\ IF received \/ now < When THEN AtEmpty(t)
       ELSE Goto(t, "at_swap") /\ UNCHANGED <<todo, out>>
    /\ UNCHANGED <<now, received, delivery>>

\* received.swap(true): the loser of a blocking call sleeps for its deadline.
AtSwap(t) ==
    /\ At(t, "at_swap")
    /\ received' = TRUE
    /\ \/ /\ ~ received
          /\ Return(t, "at", When)
       \/ /\ received /\ (Selects(t) \/ Deadline(t) = Now)
          /\ AtEmpty(t)
       \/ /\ received /\ ~ Selects(t) /\ Deadline(t) # Now
          /\ th' = [th EXCEPT ![t].pc = "sleep", ![t].until = Deadline(t)]
          /\ UNCHANGED <<todo, out>>
    /\ UNCHANGED <<now, delivery>>

AtRecv(t) ==
    /\ At(t, "at")
    /\ th' = [th EXCEPT ![t] = IF received THEN [@ EXCEPT !.pc = "sleep", !.until = Deadline(t)]
                               ELSE [@ EXCEPT !.pc = "at_wait"]]
    /\ UNCHANGED <<now, received, delivery, todo, out>>

\* The delivery time is looked at before the deadline.
AtWait(t) ==
    /\ At(t, "at_wait")
    /\ \/ /\ now >= When
          /\ Goto(t, "at_swap")
          /\ UNCHANGED <<todo, out>>
       \/ /\ now < When /\ Passed(t)
          /\ Return(t, "timeout", NoMsg)
    /\ UNCHANGED <<now, received, delivery>>

-----------------------------------------------------------------------------
(***************************************************************************)
(* tick: try_recv and recv.                                                *)
(***************************************************************************)
\* try_recv reads the clock and then the delivery time.
TickTry(t) ==
    /\ At(t, "tick_try")
    /\ th' = [th EXCEPT ![t].pc = "tick_load", ![t].now = now]
    /\ UNCHANGED <<now, received, delivery, todo, out>>

TickLoad(t) ==
    /\ At(t, "tick_load")
    /\ \/ /\ th[t].now >= delivery
          /\ th' = [th EXCEPT ![t].pc = "tick_cas", ![t].del = delivery]
          /\ UNCHANGED <<todo, out>>
       \/ /\ th[t].now < delivery /\ Selects(t)
          /\ Goto(t, "select")
          /\ UNCHANGED <<todo, out>>
       \/ /\ th[t].now < delivery /\ ~ Selects(t)
          /\ Return(t, "empty", NoMsg)
    /\ UNCHANGED <<now, received, delivery>>

TickCas(t) ==
    /\ At(t, "tick_cas")
    /\ \/ /\ delivery = th[t].del
          /\ delivery' = th[t].now + Duration
          /\ Return(t, "tick", th[t].del)
       \/ /\ delivery # th[t].del
          /\ Goto(t, "tick_try")
          /\ UNCHANGED <<delivery, todo, out>>
    /\ UNCHANGED <<now, received>>

\* recv reads the delivery time and then the clock: a deadline before the
\* delivery is slept for, otherwise the message is claimed in advance.
TickRecv(t) ==
    /\ At(t, "tick")
    /\ th' = [th EXCEPT ![t].pc = "tick_clock", ![t].del = delivery]
    /\ UNCHANGED <<now, received, delivery, todo, out>>

TickClock(t) ==
    /\ At(t, "tick_clock")
    /\ th' = [th EXCEPT ![t] =
                 IF Deadline(t) # Never /\ Deadline(t) < th[t].del
                 THEN [@ EXCEPT !.pc = "sleep", !.until = Deadline(t)]
                 ELSE [@ EXCEPT !.pc = "tick_claim", !.now = now]]
    /\ UNCHANGED <<now, received, delivery, todo, out>>

TickClaim(t) ==
    /\ At(t, "tick_claim")
    /\ \/ /\ delivery = th[t].del
          /\ delivery' = (IF th[t].now > delivery THEN th[t].now ELSE delivery) + Duration
          /\ Goto(t, "tick_sleep")
       \/ /\ delivery # th[t].del
          /\ Goto(t, "tick")
          /\ UNCHANGED delivery
    /\ UNCHANGED <<now, received, todo, out>>

TickSleep(t) ==
    /\ At(t, "tick_sleep")
    /\ now >= th[t].del
    /\ Return(t, "tick", th[t].del)
    /\ UNCHANGED <<now, received, delivery>>

-----------------------------------------------------------------------------
(***************************************************************************)
(* run_select over both: nothing registers with them, their deadlines and  *)
(* the select's own bound the wait, and then they are tried again.         *)
(***************************************************************************)
Earliest(S) == IF S = {} THEN Never ELSE CHOOSE x \in S : \A y \in S : x <= y

SelectWait(t) ==
    /\ At(t, "select")
    /\ \/ /\ th[t].again /\ Passed(t)
          /\ Return(t, "timeout", NoMsg)
       \/ /\ ~ (th[t].again /\ Passed(t))
          /\ th' = [th EXCEPT ![t].pc = "select_park",
                       ![t].until = Earliest({delivery} \cup (IF received THEN {} ELSE {When})
                                             \cup ({Deadline(t)} \ {Never}))]
          /\ UNCHANGED <<todo, out>>
    /\ UNCHANGED <<now, received, delivery>>

\* Aborted at the deadline: both are tried again before the time is looked at.
SelectPark(t) ==
    /\ At(t, "select_park")
    /\ now >= th[t].until
    /\ th' = [th EXCEPT ![t].pc = "at_try", ![t].again = TRUE]
    /\ UNCHANGED <<now, received, delivery, todo, out>>

Step(t) ==
    \/ Begin(t) \/ Sleep(t) \/ AtTry(t) \/ AtSwap(t) \/ AtRecv(t) \/ AtWait(t)
    \/ TickTry(t) \/ TickLoad(t) \/ TickCas(t) \/ TickRecv(t) \/ TickClock(t)
    \/ TickClaim(t) \/ TickSleep(t) \/ SelectWait(t) \/ SelectPark(t)

\* The last instant of the model; a loser may sleep for ever.
Stopped == now = MaxTime /\ UNCHANGED vars

Next == TimePasses \/ (\E t \in Threads : Step(t)) \/ Stopped

Spec == Init /\ [][Next]_vars

-----------------------------------------------------------------------------
(***************************************************************************)
(* Properties.                                                             *)
(***************************************************************************)
\* The variables are of their types.
TypeOK ==
    /\ now \in 0..MaxTime /\ received \in BOOLEAN /\ delivery \in Nat
    /\ \A t \in Threads : th[t].del \in Nat /\ th[t].now \in 0..now

Given(on) == {r \in out : r.on = on}

\* The message of an at channel is received once, those of a tick channel at
\* least a period apart, however the receivers' clock readings interleave with
\* their compare_exchange.
OncePerDelivery ==
    /\ Cardinality(Given("at")) <= 1
    /\ \A r, q \in Given("tick") :
          r # q => r.msg >= q.msg + Duration \/ q.msg >= r.msg + Duration

\* No message is returned before the instant it carries, and no call gives up
\* before its deadline.
NeverEarly ==
    \A r \in out :
        /\ r.on \in {"at", "tick"} => r.at >= r.msg
        /\ r.on = "timeout" /\ r.deadline # Now => r.deadline # Never /\ r.at >= r.deadline
============================================================================
