---------------------------- MODULE ParkerProofs ----------------------------
(***************************************************************************)
(* For any number of unparkers the Parker never panics and implements the  *)
(* token of ParkToken.  The two invariants that the runs check are         *)
(* inductive together.                                                     *)
(***************************************************************************)
EXTENDS Parker, TLAPS

Inv == TypeOK /\ ParkStateConsistent

\* Every step of park or unpark preserves the types and the consistency of
\* the state with the program point of the parking thread.
LEMMA ParkerNext == Inv /\ [Next]_vars => Inv'
<1> SUFFICES ASSUME Inv, [Next]_vars PROVE Inv'
  OBVIOUS
<1> USE ParkerAssumption DEF Inv, TypeOK, ParkStateConsistent, EMPTY, PARKED, NOTIFIED
<1>1. CASE Park
  BY <1>1 DEF Park
<1>2. CASE Consume
  BY <1>2 DEF Consume, Return
<1>3. CASE Lock \/ Wait \/ Wake \/ TimeUp \/ Tick \/ Spurious
  BY <1>3 DEF Lock, Wait, Wake, TimeUp, Tick, Spurious
<1>4. CASE Announce
  BY <1>4 DEF Announce
<1>5. CASE Swap \/ TimedOut \/ Check
  BY <1>5 DEF Swap, TimedOut, Check, Return
<1>6. ASSUME NEW u \in Unparkers, Unpark(u) \/ UnparkLock(u) \/ UnparkNotify(u)
      PROVE  Inv'
  <2>1. upc' \in [Unparkers -> {"idle", "lock", "notify"}]
    BY <1>6 DEF Unpark, UnparkLock, UnparkNotify, Goto
  <2>2. left' \in [Unparkers -> 0..MaxUnparks]
    <3>1. CASE Unpark(u)
      BY <3>1 DEF Unpark
    <3>2. CASE UnparkLock(u) \/ UnparkNotify(u)
      BY <3>2 DEF UnparkLock, UnparkNotify
    <3>3. QED
      BY <1>6, <3>1, <3>2
  <2>3. ParkStateConsistent'
    BY <1>6 DEF Unpark, UnparkLock, UnparkNotify, parker
  <2>4. /\ state' \in {EMPTY, PARKED, NOTIFIED}
        /\ locked' = locked /\ asleep' \in BOOLEAN
        /\ pc' = pc /\ mode' = mode /\ result' = result
    BY <1>6 DEF Unpark, UnparkLock, UnparkNotify, parker
  <2>5. QED
    BY <2>1, <2>2, <2>3, <2>4
<1>7. CASE Rest \/ UNCHANGED vars
  BY <1>7 DEF Rest, vars, parker
<1>8. QED
  BY <1>1, <1>2, <1>3, <1>4, <1>5, <1>6, <1>7 DEF Next, ParkStep

\* Inner::park and Inner::unpark keep the state of the Parker consistent, so
\* that none of the panics in park is reached.
THEOREM ParkerConsistent == Spec => [](TypeOK /\ ParkStateConsistent)
<1>1. Init => Inv
  <2> SUFFICES ASSUME Init PROVE Inv
    OBVIOUS
  <2>1. left \in [Unparkers -> 0..MaxUnparks]
    BY ParkerAssumption DEF Init
  <2>2. TypeOK
    BY <2>1 DEF Init, TypeOK
  <2>3. ParkStateConsistent
    BY DEF Init, ParkStateConsistent, EMPTY, PARKED, NOTIFIED
  <2>4. QED
    BY <2>2, <2>3 DEF Inv
<1>2. Inv /\ [Next]_vars => Inv'
  BY ParkerNext
<1>3. QED
  BY <1>1, <1>2, PTL DEF Spec, Inv

\* A step of the Parker is a step of the token: the compare_exchange or swap
\* that ends a call takes the token, the swap in unpark makes it available.
LEMMA TokenStep == Inv /\ [Next]_vars => [Token!Next]_(Token!vars)
<1> SUFFICES ASSUME Inv, [Next]_vars PROVE Token!Next \/ UNCHANGED (Token!vars)
  OBVIOUS
<1> USE DEF Inv, TypeOK, ParkStateConsistent, EMPTY, PARKED, NOTIFIED, Token!vars
<1>1. CASE Park
  BY <1>1 DEF Park, Token!Next, Token!Park
<1>2. CASE Consume
  BY <1>2 DEF Consume, Return, Token!Next, Token!Take, Token!TimeOut
<1>3. CASE Lock \/ Wait \/ Wake \/ TimeUp \/ Tick \/ Spurious
  BY <1>3 DEF Lock, Wait, Wake, TimeUp, Tick, Spurious
<1>4. CASE Announce
  BY <1>4 DEF Announce
<1>5. CASE Swap \/ TimedOut \/ Check
  BY <1>5 DEF Swap, TimedOut, Check, Return, Token!Next, Token!Take, Token!TimeOut
<1>6. ASSUME NEW u \in Unparkers, Unpark(u)
      PROVE  Token!Next \/ UNCHANGED (Token!vars)
  BY <1>6 DEF Unpark, parker, Token!Next, Token!Unpark
<1>7. ASSUME NEW u \in Unparkers, UnparkLock(u) \/ UnparkNotify(u)
      PROVE  Token!Next \/ UNCHANGED (Token!vars)
  BY <1>7 DEF UnparkLock, UnparkNotify, parker
<1>8. CASE Rest \/ UNCHANGED vars
  BY <1>8 DEF Rest, vars, parker
<1>9. QED
  BY <1>1, <1>2, <1>3, <1>4, <1>5, <1>6, <1>7, <1>8 DEF Next, ParkStep

\* The Parker implements its documentation: one token, made available by
\* unpark, waited for and consumed by park.
THEOREM ParkerImplementsToken == Spec => ImplementsToken
<1>1. Init => Token!Init
  BY DEF Init, Token!Init, EMPTY, NOTIFIED
<1>2. Spec => []Inv
  BY ParkerConsistent DEF Inv
<1>3. Inv /\ [Next]_vars => [Token!Next]_(Token!vars)
  BY TokenStep
<1>4. QED
  BY <1>1, <1>2, <1>3, PTL DEF Spec, ImplementsToken, Token!Spec
=============================================================================
