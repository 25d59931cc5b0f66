---------------------------- MODULE EpochSteps -----------------------------
(***************************************************************************)
(* What a step of one participant can change: the parts of the invariant   *)
(* that speak about one participant only, then one lemma for each piece of *)
(* state that the invariant speaks about, then the types. Each lemma       *)
(* summarises the thirty actions of Epoch once, so that the proofs of      *)
(* EpochProofs reason about a few cases instead of about all actions.      *)
(***************************************************************************)
EXTENDS Epoch, TLAPS

\* The names under which the lemmas assume the types and the invariant: they
\* stay folded in the statements when a proof unfolds TypeOK or Inv.
WellTyped == TypeOK
Consistent == Inv

-----------------------------------------------------------------------------
(***************************************************************************)
(* The parts of the invariant that speak about one participant only are    *)
(* preserved by the steps of that participant.                             *)
(***************************************************************************)
\* The program points of p agree with its pin, its guards and its node.
LEMMA OwnControl ==
    ASSUME NEW p \in Participants, WellTyped, ControlOK(p), HandlesOK(p), Step(p)
    PROVE  ControlOK(p)'
<1> TypeOK
  BY DEF WellTyped
<1> USE DEF TypeOK, ControlOK, HandlesOK, PinnedLabels, InPushBag, NoBag, Callers, globals, control, locals, history
<1>1. CASE Register(p) \/ PinAgain(p)
  BY <1>1 DEF Register, Goto, PinAgain
<1>2. CASE Pin(p) \/ PinStore(p) \/ Unpin(p)
  BY <1>2 DEF Pin, PinLoad, Goto, PinStore, Return, Unpin, ClearLocalEpoch,
         Forget
<1>3. CASE RepinLoad(p) \/ RepinStore(p) \/ RepinAfter(p)
  BY <1>3 DEF RepinLoad, Goto, RepinStore, Forget, RepinAfter, ClearLocalEpoch
<1>4. CASE RepinAfterPin(p) \/ RepinAfterRelease(p) \/ DropHandle(p)
  BY <1>4 DEF RepinAfterPin, PinLoad, Goto, RepinAfterRelease, DropHandle
<1>5. CASE (\E o \in Objects : Defer(p, o)) \/ Flush(p) \/ PushBag(p)
  BY <1>5 DEF Defer, Witness, DeferTo, Seal, PinnedNow, Goto, Flush, PushBag
<1>6. CASE TryAdvance(p) \/ IterStart(p)
  BY <1>6 DEF TryAdvance, Goto, IterStart
<1>7. ASSUME NEW q \in Participants, ScanPass(p, q) PROVE ControlOK(p)'
  BY <1>7, SMTT(30) DEF ScanPass
<1>8. ASSUME NEW q \in Participants, ScanFail(p, q) PROVE ControlOK(p)'
  BY <1>8 DEF ScanFail, ReturnEpoch, Goto
<1>9. ASSUME NEW q \in Participants, ScanUnlink(p, q) PROVE ControlOK(p)'
  BY <1>9, SMTT(30) DEF ScanUnlink, Witness, DeferTo, Seal, PinnedNow, Goto
<1>10. ASSUME NEW q \in Participants, ScanSkip(p, q) PROVE ControlOK(p)'
  BY <1>10, SMTT(30) DEF ScanSkip
<1>11. CASE ScanStalled(p) \/ ScanEnd(p)
  BY <1>11 DEF ScanStalled, ReturnEpoch, Goto, ScanEnd
<1>12. CASE Advance(p)
  BY <1>12 DEF Advance, ReturnEpoch, Goto
<1>13. CASE CollectPop(p)
  BY <1>13 DEF CollectPop
<1>14. CASE CollectEnd(p)
  BY <1>14 DEF CollectEnd, Return, Goto
<1>15. CASE Finalize(p) \/ FinalizePush(p)
  BY <1>15 DEF Finalize, Goto, FinalizePush, Seal
<1>16. CASE FinalizeUnpin(p)
  BY <1>16 DEF FinalizeUnpin, ClearLocalEpoch, Forget, Goto
<1>17. CASE FinalizeDelete(p)
  BY <1>17 DEF FinalizeDelete, Goto
<1>18. CASE FinalizeDrop(p)
  BY <1>18, SMTT(30) DEF FinalizeDrop, Goto, DropGlobal
<1>19. QED
  BY <1>1, <1>2, <1>3, <1>4, <1>5, <1>6, <1>7, <1>8, <1>9, <1>10, <1>11, <1>12, <1>13, <1>14, <1>15, <1>16, <1>17, <1>18, Zenon DEF Step, Scan

\* The temporary handles of repin_after and finalize last long enough.
LEMMA OwnHandles ==
    ASSUME NEW p \in Participants, WellTyped, ControlOK(p), HandlesOK(p), Step(p)
    PROVE  HandlesOK(p)'
<1> TypeOK
  BY DEF WellTyped
<1> USE DEF TypeOK, ControlOK, HandlesOK, PinnedLabels, InPushBag, Callers, globals, control, locals, history
<1>1. CASE Register(p) \/ PinAgain(p) \/ Pin(p) \/ PinStore(p) \/ Unpin(p) \/
           RepinLoad(p) \/ RepinStore(p) \/ RepinAfter(p) \/ RepinAfterPin(p)
           \/ RepinAfterRelease(p) \/ DropHandle(p)
  BY <1>1, SMTT(30) DEF Register, Goto, PinAgain, Pin, PinLoad, PinStore, Return, Unpin,
         ClearLocalEpoch, Forget, RepinLoad, RepinStore, RepinAfter,
         RepinAfterPin, RepinAfterRelease, DropHandle
<1>2. ASSUME NEW o \in Objects, Defer(p, o) PROVE HandlesOK(p)'
  BY <1>2 DEF Defer, Witness, DeferTo, Seal, PinnedNow, Goto
<1>3. CASE Flush(p)
  BY <1>3 DEF Flush, Seal, Goto
<1>4. CASE PushBag(p)
  BY <1>4 DEF PushBag, Goto
<1>5. CASE TryAdvance(p) \/ IterStart(p)
  BY <1>5 DEF TryAdvance, Goto, IterStart
<1>6. ASSUME NEW q \in Participants, ScanPass(p, q) PROVE HandlesOK(p)'
  BY <1>6 DEF ScanPass
<1>7. ASSUME NEW q \in Participants, ScanFail(p, q) PROVE HandlesOK(p)'
  BY <1>7 DEF ScanFail, ReturnEpoch, Goto
<1>8. ASSUME NEW q \in Participants, ScanUnlink(p, q) PROVE HandlesOK(p)'
  BY <1>8, SMTT(30) DEF ScanUnlink, Witness, DeferTo, Seal, PinnedNow, Goto
<1>9. ASSUME NEW q \in Participants, ScanSkip(p, q) PROVE HandlesOK(p)'
  BY <1>9 DEF ScanSkip
<1>10. CASE ScanStalled(p) \/ ScanEnd(p)
  BY <1>10 DEF ScanStalled, ReturnEpoch, Goto, ScanEnd
<1>11. CASE Advance(p) \/ CollectPop(p) \/ CollectEnd(p)
  BY <1>11 DEF Advance, ReturnEpoch, Goto, CollectPop, CollectEnd, Return
<1>12. CASE Finalize(p) \/ FinalizePush(p)
  BY <1>12 DEF Finalize, Goto, FinalizePush, Seal
<1>13. CASE FinalizeUnpin(p)
  BY <1>13 DEF FinalizeUnpin, ClearLocalEpoch, Forget, Goto
<1>14. CASE FinalizeDelete(p) \/ FinalizeDrop(p)
  BY <1>14, SMTT(30) DEF FinalizeDelete, Goto, FinalizeDrop, DropGlobal
<1>15. QED
  BY <1>1, <1>2, <1>3, <1>4, <1>5, <1>6, <1>7, <1>8, <1>9, <1>10, <1>11, <1>12, <1>13, <1>14, Zenon DEF Step, Scan

BagsOK(p) == bag[p] \cup parked[p] \cup sealed[p].objs \subseteq deferred

\* The bags of p hold only what was deferred.
LEMMA OwnBags ==
    ASSUME NEW p \in Participants, WellTyped, ControlOK(p), BagsOK(p), Step(p)
    PROVE  BagsOK(p)'
<1> TypeOK
  BY DEF WellTyped
<1> USE DEF TypeOK, ControlOK, BagsOK, NoBag, InPushBag, Bags, globals, control, locals, history
<1>1. CASE Register(p) \/ PinAgain(p) \/ Pin(p) \/ PinStore(p) \/ Unpin(p) \/
           RepinLoad(p) \/ RepinStore(p) \/ RepinAfter(p) \/ RepinAfterPin(p)
           \/ RepinAfterRelease(p) \/ DropHandle(p)
  BY <1>1 DEF Register, Goto, PinAgain, Pin, PinLoad, PinStore, Return, Unpin,
         ClearLocalEpoch, Forget, RepinLoad, RepinStore, RepinAfter,
         RepinAfterPin, RepinAfterRelease, DropHandle
<1>2. CASE (\E o \in Objects : Defer(p, o)) \/ Flush(p) \/ PushBag(p)
  BY <1>2 DEF Defer, Witness, DeferTo, Seal, PinnedNow, Goto, Flush, PushBag
<1>3. CASE TryAdvance(p) \/ IterStart(p)
  BY <1>3 DEF TryAdvance, Goto, IterStart
<1>4. ASSUME NEW q \in Participants, ScanPass(p, q) PROVE BagsOK(p)'
  BY <1>4 DEF ScanPass
<1>5. ASSUME NEW q \in Participants, ScanFail(p, q) PROVE BagsOK(p)'
  BY <1>5 DEF ScanFail, ReturnEpoch, Goto
<1>6. ASSUME NEW q \in Participants, ScanUnlink(p, q) PROVE BagsOK(p)'
  BY <1>6, SMTT(30) DEF ScanUnlink, Witness, DeferTo, Seal, PinnedNow, Goto
<1>7. CASE (\E q \in Participants : ScanSkip(p, q)) \/ ScanStalled(p) \/
           ScanEnd(p) \/ Advance(p) \/ CollectPop(p) \/ CollectEnd(p)
  BY <1>7 DEF ScanSkip, ScanStalled, ReturnEpoch, Goto, ScanEnd, Advance,
         CollectPop, CollectEnd, Return
<1>8. CASE Finalize(p)
  BY <1>8 DEF Finalize, Goto
<1>9. CASE FinalizePush(p)
  BY <1>9 DEF FinalizePush, Seal, Goto
<1>10. CASE FinalizeUnpin(p)
  BY <1>10 DEF FinalizeUnpin, ClearLocalEpoch, Forget, Goto
<1>11. CASE FinalizeDelete(p)
  BY <1>11 DEF FinalizeDelete, Goto
<1>12. CASE FinalizeDrop(p)
  BY <1>12 DEF FinalizeDrop, Goto, DropGlobal
<1>13. QED
  BY <1>1, <1>2, <1>3, <1>4, <1>5, <1>6, <1>7, <1>8, <1>9, <1>10, <1>11, <1>12, Zenon DEF Step, Scan

\* The registers of p and the iteration of its try_advance stay behind the
\* global epoch.
LEMMA OwnScan ==
    ASSUME NEW p \in Participants, WellTyped, ControlInv, PinInv, PlaceInv, ScanOK(p), Step(p)
    PROVE  ScanOK(p)'
<1> DEFINE Iterating == {"iter", "scan", "push_scan", "advance"}
<1>p. /\ DOMAIN pc = Participants /\ pc[p] \in Labels
      /\ DOMAIN reg = Participants /\ reg[p] \in Nat /\ epoch \in Nat
      /\ caller[p] \in Callers /\ pinnedAt[p] \in Nat
      /\ DOMAIN todo = Participants /\ todo[p] \subseteq Participants
      /\ reg[p] <= epoch
  BY DEF WellTyped, TypeOK, ScanOK
<1>o. ASSUME pc'[p] \notin Iterating, reg'[p] <= epoch' PROVE ScanOK(p)'
  BY <1>o DEF ScanOK, InScan
<1> USE DEF globals, control, locals, history
<1>1. CASE Register(p) \/ PinAgain(p) \/ Unpin(p)
  <2>1. pc'[p] \notin Iterating /\ reg' = reg /\ epoch' = epoch
    BY <1>1, <1>p DEF Register, PinAgain, Unpin, Goto
  <2>2. QED
    BY <1>o, <1>p, <2>1
<1>2. CASE RepinAfter(p) \/ RepinAfterRelease(p) \/ DropHandle(p)
  <2>1. pc'[p] \notin Iterating /\ reg' = reg /\ epoch' = epoch
    BY <1>2, <1>p DEF RepinAfter, RepinAfterRelease, DropHandle, Goto
  <2>2. QED
    BY <1>o, <1>p, <2>1
<1>3. ASSUME NEW o \in Objects, Defer(p, o) PROVE ScanOK(p)'
  <2>1. pc'[p] \notin Iterating /\ reg' = reg /\ epoch' = epoch
    BY <1>3, <1>p DEF Defer, DeferTo, Goto
  <2>2. QED
    BY <1>o, <1>p, <2>1
<1>4. CASE Flush(p) \/ CollectPop(p) \/ FinalizePush(p)
  <2>1. pc'[p] \notin Iterating /\ reg' = reg /\ epoch' = epoch
    BY <1>4, <1>p DEF Flush, CollectPop, FinalizePush, Goto
  <2>2. QED
    BY <1>o, <1>p, <2>1
<1>5. CASE FinalizeUnpin(p) \/ FinalizeDelete(p) \/ FinalizeDrop(p)
  <2>1. pc'[p] \notin Iterating /\ reg' = reg /\ epoch' = epoch
    BY <1>5, <1>p DEF FinalizeUnpin, FinalizeDelete, FinalizeDrop, Goto
  <2>2. QED
    BY <1>o, <1>p, <2>1
<1>6. CASE Pin(p) \/ RepinLoad(p) \/ RepinAfterPin(p) \/ Finalize(p)
  <2>1. pc'[p] \notin Iterating /\ reg'[p] = epoch /\ epoch' = epoch
    BY <1>6, <1>p DEF Pin, RepinLoad, RepinAfterPin, PinLoad, Finalize, Goto
  <2>2. QED
    BY <1>o, <1>p, <2>1
<1>7. CASE PinStore(p) \/ CollectEnd(p)
  <2>1. pc'[p] \in {"try_advance", "idle", "fin_push", "release_handle"}
    BY <1>7, <1>p DEF PinStore, CollectEnd, Return, Goto, Callers
  <2>2. reg'[p] = 0 /\ epoch' = epoch
    BY <1>7, <1>p DEF PinStore, CollectEnd
  <2>3. QED
    BY <1>o, <1>p, <2>1, <2>2
<1>8. CASE RepinStore(p)
  <2>1. pc'[p] \notin Iterating /\ reg'[p] = 0 /\ epoch' = epoch
    BY <1>8, <1>p DEF RepinStore, Goto
  <2>2. QED
    BY <1>o, <1>p, <2>1
<1>9. ASSUME \/ ScanStalled(p)
             \/ \E q \in Participants : ScanFail(p, q)
      PROVE  ScanOK(p)'
  <2>1. pc'[p] \notin Iterating /\ reg' = reg /\ epoch' = epoch
    BY <1>9, <1>p DEF ScanStalled, ScanFail, ReturnEpoch, Goto
  <2>2. QED
    BY <1>o, <1>p, <2>1
<1>10. CASE Advance(p)
  <2>1. pc'[p] \notin Iterating /\ reg'[p] = reg[p] + 1 /\ epoch' = reg[p] + 1
    BY <1>10, <1>p DEF Advance, ReturnEpoch, Goto
  <2>2. QED
    BY <1>o, <1>p, <2>1
<1>11. CASE TryAdvance(p)
  <2>1. /\ pc'[p] = "iter" /\ reg'[p] = epoch /\ epoch' = epoch
        /\ pinnedAt' = pinnedAt /\ pc[p] = "try_advance"
    BY <1>11, <1>p DEF TryAdvance, Goto
  <2>2. pinnedAt[p] <= epoch
    <3>1. ControlOK(p) /\ PinOK(p)
      BY DEF ControlInv, PinInv
    <3>2. QED
      BY <2>1, <3>1 DEF ControlOK, PinOK, PinnedLabels
  <2>3. QED
    BY <1>p, <2>1, <2>2 DEF ScanOK, InScan
<1>12. CASE PushBag(p)
  <2>1. /\ pc'[p] \in {"idle", "try_advance", "scan", "fin_unpin"}
        /\ pc'[p] = "scan" => pc[p] = "push_scan"
    BY <1>12, <1>p DEF PushBag, InPushBag, Goto
  <2>2. /\ reg' = reg /\ epoch' = epoch /\ pinned' = pinned /\ pinnedAt' = pinnedAt
        /\ entry' = entry /\ waiters' = waiters /\ todo' = todo
    BY <1>12 DEF PushBag
  <2>3. CASE pc'[p] = "scan"
    BY <2>1, <2>2, <2>3 DEF ScanOK, InScan
  <2>4. QED
    BY <1>o, <1>p, <2>1, <2>2, <2>3
<1>13. CASE IterStart(p)
  <2>1. /\ pc'[p] = "scan" /\ reg' = reg /\ epoch' = epoch /\ pinned' = pinned
        /\ pinnedAt' = pinnedAt /\ entry' = entry /\ pc[p] = "iter"
        /\ todo'[p] = {q \in Participants : entry[q] \in {"listed", "deleted"}}
    BY <1>13, <1>p DEF IterStart, Goto
  <2>2. ASSUME NEW x \in Participants, pinned[x] PROVE entry[x] = "listed"
    <3>1. ControlOK(x)
      BY DEF ControlInv
    <3>2. QED
      BY <2>2, <3>1 DEF ControlOK, PinnedLabels
  <2>3. \A x \in Participants \ todo'[p] : pinned'[x] => reg'[p] <= pinnedAt'[x]
    BY <2>1, <2>2
  <2>4. \A x \in todo'[p] : entry'[x] # "unlinked"
    BY <2>1
  <2>5. QED
    BY <2>1, <2>3, <2>4 DEF ScanOK, InScan
<1>14. ASSUME NEW q \in Participants, ScanPass(p, q) PROVE ScanOK(p)'
  <2>1. /\ pc' = pc /\ pc[p] = "scan" /\ reg' = reg /\ epoch' = epoch /\ pinned' = pinned
        /\ pinnedAt' = pinnedAt /\ entry' = entry /\ waiters' = waiters
        /\ todo'[p] = todo[p] \ {q} /\ (pinned[q] => lepoch[q] = reg[p])
    BY <1>14, <1>p DEF ScanPass
  <2>2. pinned[q] => reg[p] <= pinnedAt[q]
    <3>1. PinOK(q)
      BY DEF PinInv
    <3>2. QED
      BY <2>1, <3>1 DEF PinOK
  <2>3. \A x \in Participants \ todo'[p] : pinned[x] => reg[p] <= pinnedAt[x]
    BY <2>1, <2>2 DEF ScanOK, InScan
  <2>4. \A x \in todo'[p] : entry[x] = "unlinked" => p \in waiters[x]
    BY <2>1 DEF ScanOK, InScan
  <2>5. QED
    BY <2>1, <2>3, <2>4 DEF ScanOK, InScan
<1>15. ASSUME NEW q \in Participants, ScanSkip(p, q) PROVE ScanOK(p)'
  <2>1. /\ pc' = pc /\ pc[p] = "scan" /\ reg' = reg /\ epoch' = epoch /\ pinned' = pinned
        /\ pinnedAt' = pinnedAt /\ entry' = entry /\ waiters' = waiters
        /\ todo'[p] = todo[p] \ {q} /\ entry[q] = "unlinked"
    BY <1>15, <1>p DEF ScanSkip
  <2>2. ~ pinned[q]
    <3>1. ControlOK(q)
      BY DEF ControlInv
    <3>2. QED
      BY <2>1, <3>1 DEF ControlOK, PinnedLabels
  <2>3. \A x \in Participants \ todo'[p] : pinned[x] => reg[p] <= pinnedAt[x]
    BY <2>1, <2>2 DEF ScanOK, InScan
  <2>4. \A x \in todo'[p] : entry[x] = "unlinked" => p \in waiters[x]
    BY <2>1 DEF ScanOK, InScan
  <2>5. QED
    BY <2>1, <2>3, <2>4 DEF ScanOK, InScan
<1>16. ASSUME NEW q \in Participants, ScanUnlink(p, q) PROVE ScanOK(p)'
  <2>1. /\ pc'[p] \in {"scan", "push_scan"} /\ reg' = reg /\ epoch' = epoch
        /\ pinned' = pinned /\ pinnedAt' = pinnedAt /\ pc[p] = "scan" /\ entry[q] = "deleted"
    BY <1>16, <1>p DEF ScanUnlink, DeferTo, Goto
  <2>2. /\ entry' = [entry EXCEPT ![q] = "unlinked"]
        /\ waiters' = [waiters EXCEPT ![q] = PinnedNow]
        /\ todo'[p] = todo[p] \ {q}
    BY <1>16, <1>p DEF ScanUnlink, Witness
  <2>3. ~ pinned[q]
    <3>1. ControlOK(q)
      BY DEF ControlInv
    <3>2. QED
      BY <2>1, <3>1 DEF ControlOK, PinnedLabels
  <2>4. \A x \in Participants \ todo'[p] : pinned[x] => reg[p] <= pinnedAt[x]
    BY <2>1, <2>2, <2>3 DEF ScanOK, InScan
  <2>5. \A x \in todo'[p] : entry'[x] = "unlinked" => p \in waiters'[x]
    <3>1. \A x \in todo'[p] : entry'[x] = entry[x] /\ waiters'[x] = waiters[x] /\ x \in todo[p]
      BY <2>2
    <3>2. QED
      BY <2>1, <3>1 DEF ScanOK, InScan
  <2>6. QED
    BY <1>p, <2>1, <2>4, <2>5 DEF ScanOK, InScan
<1>17. CASE ScanEnd(p)
  <2>1. /\ pc'[p] = "advance" /\ pc[p] = "scan" /\ todo[p] = {} /\ reg' = reg /\ epoch' = epoch
        /\ todo' = todo /\ pinned' = pinned /\ pinnedAt' = pinnedAt
    BY <1>17, <1>p DEF ScanEnd, Goto
  <2>2. QED
    BY <2>1 DEF ScanOK, InScan
<1>18. QED
  BY <1>1, <1>2, <1>3, <1>4, <1>5, <1>6, <1>7, <1>8, <1>9, <1>10, <1>11, <1>12, <1>13,
     <1>14, <1>15, <1>16, <1>17, Zenon DEF Step, Scan

-----------------------------------------------------------------------------
(***************************************************************************)
(* What a step changes.                                                    *)
(***************************************************************************)
\* A step of p leaves what belongs to another participant as it is.
SameFor(r) ==
    /\ pc'[r] = pc[r] /\ caller'[r] = caller[r] /\ reg'[r] = reg[r]
    /\ todo'[r] = todo[r] /\ sealed'[r] = sealed[r] /\ parked'[r] = parked[r]
    /\ pinned'[r] = pinned[r] /\ lepoch'[r] = lepoch[r] /\ guards'[r] = guards[r]
    /\ handles'[r] = handles[r] /\ bag'[r] = bag[r] /\ pinnedAt'[r] = pinnedAt[r]

Frame(p) == \A r \in Participants \ {p} : SameFor(r)

\* The thread of p writes no other participant's Local, program counter or
\* registers.
LEMMA OthersSame ==
    ASSUME NEW p \in Participants, WellTyped, Step(p)
    PROVE  Frame(p)
<1> TypeOK
  BY DEF WellTyped
<1> USE DEF TypeOK, Frame, SameFor, globals, control, locals, history
<1>1. CASE Register(p)
  BY <1>1 DEF Register, Goto
<1>2. CASE PinAgain(p)
  BY <1>2 DEF PinAgain
<1>3. CASE Pin(p)
  BY <1>3 DEF Pin, PinLoad, Goto
<1>4. CASE PinStore(p)
  BY <1>4, SMTT(30) DEF PinStore, Return, Goto
<1>5. CASE Unpin(p)
  BY <1>5, SMTT(30) DEF Unpin, ClearLocalEpoch, Forget, Goto
<1>6. CASE RepinLoad(p)
  BY <1>6 DEF RepinLoad, Goto
<1>7. CASE RepinStore(p)
  BY <1>7, SMTT(30) DEF RepinStore, Forget, Goto
<1>8. CASE RepinAfter(p)
  BY <1>8 DEF RepinAfter, ClearLocalEpoch, Forget, Goto
<1>9. CASE RepinAfterPin(p)
  BY <1>9 DEF RepinAfterPin, PinLoad, Goto
<1>10. CASE RepinAfterRelease(p)
  BY <1>10 DEF RepinAfterRelease, Goto
<1>11. CASE DropHandle(p)
  BY <1>11 DEF DropHandle, Goto
<1>12. CASE (\E o \in Objects : Defer(p, o)) \/ Flush(p) \/ PushBag(p)
  BY <1>12, SMTT(30) DEF Defer, Witness, DeferTo, Seal, PinnedNow, Goto, Flush, PushBag
<1>13. CASE TryAdvance(p)
  BY <1>13 DEF TryAdvance, Goto
<1>14. CASE IterStart(p)
  BY <1>14 DEF IterStart, Goto
<1>15. ASSUME NEW q \in Participants, ScanPass(p, q) PROVE Frame(p)
  BY <1>15 DEF ScanPass
<1>16. ASSUME NEW q \in Participants, ScanFail(p, q) PROVE Frame(p)
  BY <1>16 DEF ScanFail, ReturnEpoch, Goto
<1>17. ASSUME NEW q \in Participants, ScanUnlink(p, q) PROVE Frame(p)
  BY <1>17, SMTT(30) DEF ScanUnlink, Witness, DeferTo, Seal, Goto
<1>18. ASSUME NEW q \in Participants, ScanSkip(p, q) PROVE Frame(p)
  BY <1>18 DEF ScanSkip
<1>19. CASE ScanStalled(p) \/ ScanEnd(p)
  BY <1>19, SMTT(30) DEF ScanStalled, ReturnEpoch, Goto, ScanEnd
<1>20. CASE Advance(p)
  BY <1>20 DEF Advance, ReturnEpoch, Goto
<1>21. CASE CollectPop(p)
  BY <1>21 DEF CollectPop
<1>22. CASE CollectEnd(p)
  BY <1>22 DEF CollectEnd, Return, Goto
<1>23. CASE Finalize(p)
  BY <1>23 DEF Finalize, Goto
<1>24. CASE FinalizePush(p)
  BY <1>24 DEF FinalizePush, Seal, Goto
<1>25. CASE FinalizeUnpin(p)
  BY <1>25 DEF FinalizeUnpin, ClearLocalEpoch, Forget, Goto
<1>26. CASE FinalizeDelete(p)
  BY <1>26 DEF FinalizeDelete, Goto
<1>27. CASE FinalizeDrop(p)
  BY <1>27 DEF FinalizeDrop, Goto, DropGlobal
<1>28. QED
  BY <1>1, <1>2, <1>3, <1>4, <1>5, <1>6, <1>7, <1>8, <1>9, <1>10, <1>11, <1>12, <1>13, <1>14, <1>15, <1>16, <1>17, <1>18, <1>19, <1>20, <1>21, <1>22, <1>23, <1>24, <1>25, <1>26, <1>27, Zenon DEF Step, Scan

\* What a step of p may do to the nodes of the list.
EntryStep(p) ==
    \A q \in Participants :
        \/ entry'[q] = entry[q]
        \/ q = p /\ entry[q] \in {"absent", "listed"} /\ entry'[q] \in {"listed", "deleted"}
        \/ /\ entry[q] = "deleted" /\ entry'[q] = "unlinked"
           /\ \/ waiters'[q] = PinnedNow
              \/ \A r \in Participants \ {p} : ~ HoldsArc(r)

\* How a node of the list changes state: register, delete, unlink or the end
\* of the Global.
LEMMA EntryMove ==
    ASSUME NEW p \in Participants, WellTyped, ControlOK(p), Step(p)
    PROVE  EntryStep(p)
<1> TypeOK
  BY DEF WellTyped
<1>1. CASE UNCHANGED <<entry>>
  BY <1>1 DEF EntryStep
<1>2. CASE Register(p)
  BY <1>2 DEF Register, EntryStep, TypeOK, ControlOK
<1>3. ASSUME NEW q \in Participants, ScanUnlink(p, q) PROVE EntryStep(p)
  <2>1. /\ entry' = [entry EXCEPT ![q] = "unlinked"] /\ entry[q] = "deleted"
        /\ waiters' = [waiters EXCEPT ![q] = PinnedNow]
    BY <1>3 DEF ScanUnlink, Witness
  <2>2. QED
    BY <2>1 DEF EntryStep, TypeOK, Garbage
<1>4. CASE FinalizeDelete(p)
  BY <1>4 DEF FinalizeDelete, EntryStep, TypeOK, ControlOK
<1>5. CASE FinalizeDrop(p)
  BY <1>5 DEF FinalizeDrop, DropGlobal, EntryStep, TypeOK
<1>6. CASE PinAgain(p) \/ Pin(p) \/ PinStore(p) \/ Unpin(p) \/ RepinLoad(p) \/
           RepinStore(p) \/ RepinAfter(p) \/ RepinAfterPin(p) \/
           RepinAfterRelease(p)
  BY <1>1, <1>6, Zenon DEF globals, control, locals, history, PinAgain, Pin,
         PinLoad, PinStore, Unpin, ClearLocalEpoch, Forget, RepinLoad,
         RepinStore, RepinAfter, RepinAfterPin, RepinAfterRelease
<1>7. CASE DropHandle(p) \/ (\E o \in Objects : Defer(p, o)) \/ Flush(p) \/
           PushBag(p) \/ TryAdvance(p) \/ IterStart(p) \/ (\E q \in
           Participants : ScanPass(p, q)) \/ (\E q \in Participants :
           ScanFail(p, q)) \/ (\E q \in Participants : ScanSkip(p, q))
  BY <1>1, <1>7, Zenon DEF globals, control, locals, history, DropHandle,
         Defer, Witness, Flush, PushBag, TryAdvance, IterStart, ScanPass,
         ScanFail, ScanSkip
<1>8. CASE ScanStalled(p) \/ ScanEnd(p) \/ Advance(p) \/ CollectPop(p) \/
           CollectEnd(p) \/ Finalize(p) \/ FinalizePush(p) \/ FinalizeUnpin(p)
  BY <1>1, <1>8, Zenon DEF globals, control, locals, history, ScanStalled,
         ScanEnd, Advance, CollectPop, CollectEnd, Finalize, FinalizePush,
         FinalizeUnpin, ClearLocalEpoch, Forget
<1>9. QED
  BY <1>1, <1>2, <1>3, <1>4, <1>5, <1>6, <1>7, <1>8, Zenon DEF Step, Scan

\* A step of p changes the global epoch only in the store of try_advance.
EpochStep(p) ==
    \/ epoch' = epoch
    \/ pc[p] = "advance" /\ epoch' = reg[p] + 1

\* Only the store in try_advance changes the global epoch.
LEMMA EpochMove ==
    ASSUME NEW p \in Participants, Step(p)
    PROVE  EpochStep(p)
<1>1. CASE UNCHANGED <<epoch>>
  BY <1>1 DEF EpochStep
<1>2. CASE Advance(p)
  BY <1>2 DEF Advance, EpochStep
<1>3. CASE Register(p) \/ PinAgain(p) \/ Pin(p) \/ PinStore(p) \/ Unpin(p) \/
           RepinLoad(p) \/ RepinStore(p) \/ RepinAfter(p) \/ RepinAfterPin(p)
  BY <1>1, <1>3, Zenon DEF globals, control, locals, history, Register,
         PinAgain, Pin, PinLoad, PinStore, Unpin, ClearLocalEpoch, Forget,
         RepinLoad, RepinStore, RepinAfter, RepinAfterPin
<1>4. CASE RepinAfterRelease(p) \/ DropHandle(p) \/ (\E o \in Objects :
           Defer(p, o)) \/ Flush(p) \/ PushBag(p) \/ TryAdvance(p) \/
           IterStart(p) \/ (\E q \in Participants : ScanPass(p, q)) \/ (\E q
           \in Participants : ScanFail(p, q))
  BY <1>1, <1>4, Zenon DEF globals, control, locals, history,
         RepinAfterRelease, DropHandle, Defer, Witness, Flush, PushBag,
         TryAdvance, IterStart, ScanPass, ScanFail
<1>5. CASE (\E q \in Participants : ScanUnlink(p, q)) \/ (\E q \in
           Participants : ScanSkip(p, q)) \/ ScanStalled(p) \/ ScanEnd(p) \/
           CollectPop(p) \/ CollectEnd(p) \/ Finalize(p) \/ FinalizePush(p) \/
           FinalizeUnpin(p)
  BY <1>1, <1>5, Zenon DEF globals, control, locals, history, ScanUnlink,
         Witness, ScanSkip, ScanStalled, ScanEnd, CollectPop, CollectEnd,
         Finalize, FinalizePush, FinalizeUnpin, ClearLocalEpoch, Forget
<1>6. CASE FinalizeDelete(p) \/ FinalizeDrop(p)
  BY <1>1, <1>6, Zenon DEF globals, control, locals, history, FinalizeDelete,
         FinalizeDrop, DropGlobal
<1>7. QED
  BY <1>1, <1>2, <1>3, <1>4, <1>5, <1>6, Zenon DEF Step, Scan

\* After a step of p its pin is the one it had, or one that begins now.
PinStep(p) ==
    pinned'[p] => \/ /\ pinned[p]
                     /\ pinnedAt'[p] = pinnedAt[p] /\ lepoch'[p] = lepoch[p]
                  \/ /\ pinnedAt'[p] = epoch /\ lepoch'[p] = reg[p]
                     /\ epoch' = epoch

\* How a step changes the pin of p: pin, repin, unpin or not at all.
LEMMA PinMove ==
    ASSUME NEW p \in Participants, WellTyped, ControlOK(p), Step(p)
    PROVE  PinStep(p)
<1> TypeOK
  BY DEF WellTyped
<1>1. CASE UNCHANGED <<pinned, pinnedAt, lepoch>>
  BY <1>1 DEF PinStep
<1>2. CASE PinStore(p)
  BY <1>2 DEF PinStore, PinStep, TypeOK, globals
<1>3. CASE Unpin(p)
  <2>1. CASE guards[p] > 1
    BY <1>3, <2>1 DEF Unpin, PinStep, TypeOK
  <2>2. CASE guards[p] = 1
    BY <1>3, <2>2 DEF Unpin, ClearLocalEpoch, PinStep, TypeOK
  <2>3. QED
    BY <1>3, <2>1, <2>2 DEF Unpin
<1>4. CASE RepinStore(p)
  <2>1. pinned' = pinned /\ epoch' = epoch /\ pinned[p]
    BY <1>4 DEF RepinStore, globals, ControlOK, PinnedLabels
  <2>2. QED
    BY <1>4, <2>1 DEF RepinStore, PinStep, TypeOK
<1>5. CASE RepinAfter(p)
  <2>1. ~ pinned'[p]
    BY <1>5 DEF RepinAfter, ClearLocalEpoch, TypeOK
  <2>2. QED
    BY <2>1 DEF PinStep
<1>6. CASE FinalizeUnpin(p)
  <2>1. ~ pinned'[p]
    BY <1>6 DEF FinalizeUnpin, ClearLocalEpoch, TypeOK
  <2>2. QED
    BY <2>1 DEF PinStep
<1>7. CASE Register(p) \/ PinAgain(p) \/ Pin(p) \/ RepinLoad(p) \/
           RepinAfterPin(p) \/ RepinAfterRelease(p) \/ DropHandle(p) \/ (\E o
           \in Objects : Defer(p, o)) \/ Flush(p)
  BY <1>1, <1>7, Zenon DEF globals, control, locals, history, Register,
         PinAgain, Pin, PinLoad, RepinLoad, RepinAfterPin,
         RepinAfterRelease, DropHandle, Defer, Witness, Flush
<1>8. CASE PushBag(p) \/ TryAdvance(p) \/ IterStart(p) \/ (\E q \in
           Participants : ScanPass(p, q)) \/ (\E q \in Participants :
           ScanFail(p, q)) \/ (\E q \in Participants : ScanUnlink(p, q)) \/
           (\E q \in Participants : ScanSkip(p, q)) \/ ScanStalled(p) \/
           ScanEnd(p)
  BY <1>1, <1>8, Zenon DEF globals, control, locals, history, PushBag,
         TryAdvance, IterStart, ScanPass, ScanFail, ScanUnlink, Witness,
         ScanSkip, ScanStalled, ScanEnd
<1>9. CASE Advance(p) \/ CollectPop(p) \/ CollectEnd(p) \/ Finalize(p) \/
           FinalizePush(p) \/ FinalizeDelete(p) \/ FinalizeDrop(p)
  BY <1>1, <1>9, Zenon DEF globals, control, locals, history, Advance,
         CollectPop, CollectEnd, Finalize, FinalizePush, FinalizeDelete,
         FinalizeDrop, DropGlobal
<1>10. QED
  BY <1>1, <1>2, <1>3, <1>4, <1>5, <1>6, <1>7, <1>8, <1>9, Zenon DEF Step,
     Scan

\* How a step of p moves bags.
BagStep(p) ==
    /\ \/ sealed' = sealed
       \/ sealed' = [sealed EXCEPT ![p] = [epoch |-> epoch, objs |-> bag[p]]]
       \/ sealed' = [sealed EXCEPT ![p] = NoBag]
    /\ \/ queue' = queue
       \/ queue' = Append(queue, sealed[p])
       \/ queue # << >> /\ queue' = Tail(queue)
       \/ queue' = << >>

\* How a step changes the sealed bag of p and the queue: seal, push, pop or
\* the end of the Global.
LEMMA BagMove ==
    ASSUME NEW p \in Participants, Step(p)
    PROVE  BagStep(p)
<1>1. CASE UNCHANGED <<sealed, queue>>
  BY <1>1 DEF BagStep
<1>2. ASSUME NEW o \in Objects, Defer(p, o) PROVE BagStep(p)
  BY <1>2 DEF Defer, DeferTo, Seal, BagStep, globals
<1>3. CASE Flush(p)
  BY <1>3 DEF Flush, Seal, BagStep, globals
<1>4. CASE PushBag(p)
  BY <1>4 DEF PushBag, BagStep
<1>5. ASSUME NEW q \in Participants, ScanUnlink(p, q) PROVE BagStep(p)
  BY <1>5 DEF ScanUnlink, DeferTo, Seal, BagStep
<1>6. CASE CollectPop(p)
  BY <1>6 DEF CollectPop, BagStep
<1>7. CASE FinalizePush(p)
  BY <1>7 DEF FinalizePush, Seal, BagStep, globals
<1>8. CASE FinalizeDrop(p)
  BY <1>8 DEF FinalizeDrop, DropGlobal, BagStep
<1>9. CASE Register(p) \/ PinAgain(p) \/ Pin(p) \/ PinStore(p) \/ Unpin(p) \/
           RepinLoad(p) \/ RepinStore(p) \/ RepinAfter(p) \/ RepinAfterPin(p)
  BY <1>1, <1>9, Zenon DEF globals, control, locals, history, Register,
         PinAgain, Pin, PinLoad, PinStore, Unpin, ClearLocalEpoch, Forget,
         RepinLoad, RepinStore, RepinAfter, RepinAfterPin
<1>10. CASE RepinAfterRelease(p) \/ DropHandle(p) \/ TryAdvance(p) \/
           IterStart(p) \/ (\E q \in Participants : ScanPass(p, q)) \/ (\E q
           \in Participants : ScanFail(p, q)) \/ (\E q \in Participants :
           ScanSkip(p, q)) \/ ScanStalled(p) \/ ScanEnd(p)
  BY <1>1, <1>10, Zenon DEF globals, control, locals, history,
         RepinAfterRelease, DropHandle, TryAdvance, IterStart, ScanPass,
         ScanFail, ScanSkip, ScanStalled, ScanEnd
<1>11. CASE Advance(p) \/ CollectEnd(p) \/ Finalize(p) \/ FinalizeUnpin(p) \/
           FinalizeDelete(p)
  BY <1>1, <1>11, Zenon DEF globals, control, locals, history, Advance,
         CollectEnd, Finalize, FinalizeUnpin, ClearLocalEpoch, Forget,
         FinalizeDelete
<1>12. QED
  BY <1>1, <1>2, <1>3, <1>4, <1>5, <1>6, <1>7, <1>8, <1>9, <1>10, <1>11, Zenon
     DEF Step, Scan

\* A step of p makes nobody wait for more participants, but for what it
\* defers itself.
WaitStep(p) ==
    /\ deferred \subseteq deferred'
    /\ \A g \in Garbage :
          \/ /\ waiters'[g] \subseteq waiters[g]
             /\ g \in deferred' => g \in deferred
          \/ /\ g \notin deferred /\ g \in deferred'
             /\ waiters'[g] = PinnedNow
             /\ g \in Participants => entry[g] = "deleted" /\ entry'[g] = "unlinked"

\* How a step changes who is waited for: a deferral, or an unpinning.
LEMMA WaitMove ==
    ASSUME NEW p \in Participants, WellTyped, PlaceInv, Step(p)
    PROVE  WaitStep(p)
<1> TypeOK
  BY DEF WellTyped
<1>1. CASE UNCHANGED <<deferred, waiters>>
  BY <1>1 DEF WaitStep
<1>2. CASE Unpin(p)
  <2>1. deferred' = deferred /\ (waiters' = waiters \/ Forget(p))
    BY <1>2 DEF Unpin, ClearLocalEpoch
  <2>2. QED
    BY <2>1 DEF Forget, WaitStep
<1>3. CASE RepinStore(p)
  <2>1. deferred' = deferred /\ (waiters' = waiters \/ Forget(p))
    BY <1>3 DEF RepinStore
  <2>2. QED
    BY <2>1 DEF Forget, WaitStep
<1>4. CASE RepinAfter(p)
  <2>1. deferred' = deferred /\ (waiters' = waiters \/ Forget(p))
    BY <1>4 DEF RepinAfter, ClearLocalEpoch
  <2>2. QED
    BY <2>1 DEF Forget, WaitStep
<1>5. CASE FinalizeUnpin(p)
  <2>1. deferred' = deferred /\ (waiters' = waiters \/ Forget(p))
    BY <1>5 DEF FinalizeUnpin, ClearLocalEpoch
  <2>2. QED
    BY <2>1 DEF Forget, WaitStep
<1>6. ASSUME NEW o \in Objects, Defer(p, o) PROVE WaitStep(p)
  <2>1. deferred' = deferred \cup {o} /\ waiters' = [waiters EXCEPT ![o] = PinnedNow]
    BY <1>6 DEF Defer, Witness
  <2>2. o \notin deferred /\ o \notin Participants
    BY <1>6, ConstantsAssumption DEF Defer
  <2>3. QED
    BY <2>1, <2>2 DEF WaitStep, TypeOK, Garbage
<1>7. ASSUME NEW q \in Participants, ScanUnlink(p, q) PROVE WaitStep(p)
  <2>1. deferred' = deferred \cup {q} /\ waiters' = [waiters EXCEPT ![q] = PinnedNow]
    BY <1>7 DEF ScanUnlink, Witness
  <2>2. entry[q] = "deleted" /\ entry'[q] = "unlinked"
    BY <1>7 DEF ScanUnlink, TypeOK
  <2>3. q \notin deferred
    BY <2>2 DEF PlaceInv
  <2>4. QED
    BY <2>1, <2>2, <2>3 DEF WaitStep, TypeOK, Garbage
<1>8. CASE Register(p) \/ PinAgain(p) \/ Pin(p) \/ PinStore(p) \/ RepinLoad(p)
           \/ RepinAfterPin(p) \/ RepinAfterRelease(p) \/ DropHandle(p) \/
           Flush(p)
  BY <1>1, <1>8, Zenon DEF globals, control, locals, history, Register,
         PinAgain, Pin, PinLoad, PinStore, RepinLoad, RepinAfterPin,
         RepinAfterRelease, DropHandle, Flush
<1>9. CASE PushBag(p) \/ TryAdvance(p) \/ IterStart(p) \/ (\E q \in
           Participants : ScanPass(p, q)) \/ (\E q \in Participants :
           ScanFail(p, q)) \/ (\E q \in Participants : ScanSkip(p, q)) \/
           ScanStalled(p) \/ ScanEnd(p) \/ Advance(p)
  BY <1>1, <1>9, Zenon DEF globals, control, locals, history, PushBag,
         TryAdvance, IterStart, ScanPass, ScanFail, ScanSkip, ScanStalled,
         ScanEnd, Advance
<1>10. CASE CollectPop(p) \/ CollectEnd(p) \/ Finalize(p) \/ FinalizePush(p)
           \/ FinalizeDelete(p) \/ FinalizeDrop(p)
  BY <1>1, <1>10, Zenon DEF globals, control, locals, history, CollectPop,
         CollectEnd, Finalize, FinalizePush, FinalizeDelete, FinalizeDrop,
         DropGlobal
<1>11. QED
  BY <1>1, <1>2, <1>3, <1>4, <1>5, <1>6, <1>7, <1>8, <1>9, <1>10, Zenon DEF
     Step, Scan

\* Whoever is waited for after a step of p was pinned before it, in the same
\* pin, and the step drops nobody else who was waited for.
WaitedStep(p) ==
    \A g \in Garbage :
        /\ \A x \in waiters'[g] :
              pinned[x] /\ pinned'[x] /\ pinnedAt'[x] = pinnedAt[x]
        /\ waiters[g] \ {p} \subseteq waiters'[g]

\* Whoever is waited for after a step is pinned since before it or was just
\* recorded.
LEMMA WaitedPinned ==
    ASSUME NEW p \in Participants, WellTyped, ControlOK(p), WaitInv, Step(p)
    PROVE  WaitedStep(p)
<1> TypeOK
  BY DEF WellTyped
<1>1. CASE UNCHANGED <<waiters, pinned, pinnedAt>>
  BY <1>1 DEF WaitedStep, WaitInv
<1>2. CASE PinStore(p)
  <2>1. ~ pinned[p]
    BY <1>2 DEF PinStore, ControlOK, PinnedLabels
  <2>2. /\ waiters' = waiters /\ pinned' = [pinned EXCEPT ![p] = TRUE]
        /\ pinnedAt' = [pinnedAt EXCEPT ![p] = epoch]
    BY <1>2 DEF PinStore
  <2>3. QED
    BY <2>1, <2>2 DEF WaitedStep, WaitInv, TypeOK
<1>3. CASE Unpin(p)
  <2>1. CASE UNCHANGED <<waiters, pinned, pinnedAt>>
    BY <1>1, <2>1
  <2>2. CASE ClearLocalEpoch(p)
    BY <2>2 DEF ClearLocalEpoch, Forget, WaitedStep, WaitInv, TypeOK
  <2>3. QED
    BY <1>3, <2>1, <2>2 DEF Unpin
<1>4. CASE RepinStore(p)
  <2>1. CASE UNCHANGED <<waiters, pinned, pinnedAt>>
    BY <1>1, <2>1
  <2>2. CASE Forget(p) /\ pinned' = pinned /\ pinnedAt' = [pinnedAt EXCEPT ![p] = epoch]
    BY <2>2 DEF Forget, WaitedStep, WaitInv, TypeOK
  <2>3. QED
    BY <1>4, <2>1, <2>2 DEF RepinStore
<1>5. CASE RepinAfter(p)
  <2>1. Forget(p) /\ pinned' = [pinned EXCEPT ![p] = FALSE] /\ pinnedAt' = [pinnedAt EXCEPT ![p] = 0]
    BY <1>5 DEF RepinAfter, ClearLocalEpoch
  <2>2. QED
    BY <2>1 DEF Forget, WaitedStep, WaitInv, TypeOK
<1>6. CASE FinalizeUnpin(p)
  <2>1. Forget(p) /\ pinned' = [pinned EXCEPT ![p] = FALSE] /\ pinnedAt' = [pinnedAt EXCEPT ![p] = 0]
    BY <1>6 DEF FinalizeUnpin, ClearLocalEpoch
  <2>2. QED
    BY <2>1 DEF Forget, WaitedStep, WaitInv, TypeOK
<1>7. ASSUME NEW o \in Objects, Defer(p, o) PROVE WaitedStep(p)
  <2>1. waiters' = [waiters EXCEPT ![o] = PinnedNow] /\ pinned' = pinned /\ pinnedAt' = pinnedAt
    BY <1>7 DEF Defer, Witness
  <2>2. QED
    BY <2>1 DEF PinnedNow, WaitedStep, WaitInv, TypeOK
<1>8. ASSUME NEW q \in Participants, ScanUnlink(p, q) PROVE WaitedStep(p)
  <2>1. waiters' = [waiters EXCEPT ![q] = PinnedNow] /\ pinned' = pinned /\ pinnedAt' = pinnedAt
    BY <1>8 DEF ScanUnlink, Witness
  <2>2. QED
    BY <2>1 DEF PinnedNow, WaitedStep, WaitInv, TypeOK
<1>9. CASE Register(p) \/ PinAgain(p) \/ Pin(p) \/ RepinLoad(p) \/
           RepinAfterPin(p) \/ RepinAfterRelease(p) \/ DropHandle(p) \/
           Flush(p) \/ PushBag(p)
  BY <1>1, <1>9, Zenon DEF globals, control, locals, history, Register,
         PinAgain, Pin, PinLoad, RepinLoad, RepinAfterPin,
         RepinAfterRelease, DropHandle, Flush, PushBag
<1>10. CASE TryAdvance(p) \/ IterStart(p) \/ (\E q \in Participants :
           ScanPass(p, q)) \/ (\E q \in Participants : ScanFail(p, q)) \/ (\E
           q \in Participants : ScanSkip(p, q)) \/ ScanStalled(p) \/
           ScanEnd(p) \/ Advance(p) \/ CollectPop(p)
  BY <1>1, <1>10, Zenon DEF globals, control, locals, history, TryAdvance,
         IterStart, ScanPass, ScanFail, ScanSkip, ScanStalled, ScanEnd,
         Advance, CollectPop
<1>11. CASE CollectEnd(p) \/ Finalize(p) \/ FinalizePush(p) \/
           FinalizeDelete(p) \/ FinalizeDrop(p)
  BY <1>1, <1>11, Zenon DEF globals, control, locals, history, CollectEnd,
         Finalize, FinalizePush, FinalizeDelete, FinalizeDrop, DropGlobal
<1>12. QED
  BY <1>1, <1>2, <1>3, <1>4, <1>5, <1>6, <1>7, <1>8, <1>9, <1>10, <1>11, Zenon
     DEF Step, Scan

\* What a step of p executes: an expired bag at the front of the queue, or
\* everything when nobody is left.
ExecStep(p) ==
    \A g \in executed' :
        \/ g \in executed
        \/ /\ pc[p] = "collect"
           /\ queue # << >> /\ IsExpired(Head(queue), reg[p])
           /\ g \in Head(queue).objs
        \/ /\ \A r \in Participants \ {p} : ~ HoldsArc(r)
           /\ ~ pinned[p]
           /\ \/ g \in Participants /\ entry[g] = "deleted" /\ entry'[g] = "unlinked"
              \/ \E i \in 1..Len(queue) : g \in queue[i].objs

\* What runs in a step comes from an expired bag or from the destruction of
\* the Global.
LEMMA ExecutedMove ==
    ASSUME NEW p \in Participants, WellTyped, ControlOK(p), Step(p)
    PROVE  ExecStep(p)
<1> TypeOK
  BY DEF WellTyped
<1>1. CASE UNCHANGED <<executed>>
  BY <1>1 DEF ExecStep
<1>2. CASE CollectPop(p)
  <2>1. /\ executed' = executed \cup Head(queue).objs /\ pc[p] = "collect"
        /\ queue # << >> /\ IsExpired(Head(queue), reg[p])
    BY <1>2, Zenon DEF CollectPop
  <2>2. QED
    BY <2>1, Zenon DEF ExecStep
<1>3. CASE FinalizeDrop(p)
  <2>1. ~ pinned[p]
    BY <1>3 DEF FinalizeDrop, ControlOK, PinnedLabels
  <2>2. CASE (\A q \in Participants \ {p} : ~ HoldsArc(q)) /\ DropGlobal
    <3>1. ASSUME NEW q \in Participants, entry[q] = "deleted" PROVE entry'[q] = "unlinked"
      BY <2>2, <3>1 DEF DropGlobal
    <3>2. executed' = executed \cup {q \in Participants : entry[q] = "deleted"}
                        \cup UNION {queue[i].objs : i \in 1..Len(queue)}
      BY <2>2 DEF DropGlobal
    <3>3. QED
      BY <2>1, <2>2, <3>1, <3>2 DEF ExecStep
  <2>3. QED
    BY <1>1, <1>3, <2>2 DEF FinalizeDrop
<1>4. CASE Register(p) \/ PinAgain(p) \/ Pin(p) \/ PinStore(p) \/ Unpin(p) \/
           RepinLoad(p) \/ RepinStore(p) \/ RepinAfter(p) \/ RepinAfterPin(p)
  BY <1>1, <1>4, Zenon DEF globals, control, locals, history, Register,
         PinAgain, Pin, PinLoad, PinStore, Unpin, ClearLocalEpoch, Forget,
         RepinLoad, RepinStore, RepinAfter, RepinAfterPin
<1>5. CASE RepinAfterRelease(p) \/ DropHandle(p) \/ (\E o \in Objects :
           Defer(p, o)) \/ Flush(p) \/ PushBag(p) \/ TryAdvance(p) \/
           IterStart(p) \/ (\E q \in Participants : ScanPass(p, q)) \/ (\E q
           \in Participants : ScanFail(p, q))
  BY <1>1, <1>5, Zenon DEF globals, control, locals, history,
         RepinAfterRelease, DropHandle, Defer, Witness, Flush, PushBag,
         TryAdvance, IterStart, ScanPass, ScanFail
<1>6. CASE (\E q \in Participants : ScanUnlink(p, q)) \/ (\E q \in
           Participants : ScanSkip(p, q)) \/ ScanStalled(p) \/ ScanEnd(p) \/
           Advance(p) \/ CollectEnd(p) \/ Finalize(p) \/ FinalizePush(p) \/
           FinalizeUnpin(p)
  BY <1>1, <1>6, Zenon DEF globals, control, locals, history, ScanUnlink,
         Witness, ScanSkip, ScanStalled, ScanEnd, Advance, CollectEnd,
         Finalize, FinalizePush, FinalizeUnpin, ClearLocalEpoch, Forget
<1>7. CASE FinalizeDelete(p)
  BY <1>1, <1>7, Zenon DEF globals, control, locals, history, FinalizeDelete
<1>8. QED
  BY <1>1, <1>2, <1>3, <1>4, <1>5, <1>6, <1>7, Zenon DEF Step, Scan
=============================================================================
