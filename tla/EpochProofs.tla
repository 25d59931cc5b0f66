----------------------------- MODULE EpochProofs -----------------------------
(***************************************************************************)
(* The inductive invariant of Epoch is established by Init and preserved   *)
(* by Next, for every value of the constants, and the properties that      *)
(* follow from it. EpochSteps holds the lemmas about single steps.         *)
(***************************************************************************)
EXTENDS EpochSteps

-----------------------------------------------------------------------------
(***************************************************************************)
(* Every step of a participant of the collector keeps the types: the       *)
(* helpers first, then Step.                                               *)
(***************************************************************************)
\* Goto moves to a label.
LEMMA GotoType ==
    ASSUME WellTyped, NEW p \in Participants, NEW l \in Labels, Goto(p, l)
    PROVE  pc' \in [Participants -> Labels]
<1> TypeOK
  BY DEF WellTyped
<1> QED
  BY DEF TypeOK, Goto

\* Return moves to the label of the caller.
LEMMA ReturnType ==
    ASSUME WellTyped, NEW p \in Participants, Return(p)
    PROVE  /\ pc' \in [Participants -> Labels]
           /\ caller' \in [Participants -> Callers]
<1> TypeOK
  BY DEF WellTyped
<1>1. caller[p] \in Callers
  BY DEF TypeOK
<1>2. caller' \in [Participants -> Callers]
  BY DEF TypeOK, Return, Callers
<1>3. QED
  BY <1>1, <1>2, GotoType DEF Return, Callers, Labels

\* push_bag seals a bag with the global epoch.
LEMMA SealType ==
    ASSUME WellTyped, NEW p \in Participants, Seal(p)
    PROVE  sealed' \in [Participants -> Bags]
<1> TypeOK
  BY DEF WellTyped
<1>1. [epoch |-> epoch, objs |-> bag[p]] \in Bags
  BY DEF TypeOK, Bags
<1>2. QED
  BY <1>1 DEF TypeOK, Seal

\* Unpinning shrinks the sets of waiters.
LEMMA ForgetType ==
    ASSUME WellTyped, NEW p \in Participants, Forget(p)
    PROVE  waiters' \in [Garbage -> SUBSET Participants]
<1> TypeOK
  BY DEF WellTyped
<1> QED
  BY DEF TypeOK, Forget

\* A deferral records garbage and the participants pinned now.
LEMMA WitnessType ==
    ASSUME WellTyped, NEW g \in Garbage, Witness(g)
    PROVE  /\ deferred' \subseteq Garbage
           /\ waiters' \in [Garbage -> SUBSET Participants]
<1> TypeOK
  BY DEF WellTyped
<1> QED
  BY DEF TypeOK, Witness, PinnedNow

\* Local::defer fills the bag or seals it, in types.
LEMMA DeferToType ==
    ASSUME WellTyped, NEW p \in Participants, NEW g \in Garbage,
           NEW site \in Labels, NEW back \in Labels, DeferTo(p, g, site, back)
    PROVE  /\ pc' \in [Participants -> Labels]
           /\ sealed' \in [Participants -> Bags]
           /\ parked' \in [Participants -> SUBSET Garbage]
           /\ bag' \in [Participants -> SUBSET Garbage]
<1> TypeOK
  BY DEF WellTyped
<1>1. pc' \in [Participants -> Labels]
  BY GotoType DEF DeferTo
<1>2. sealed' \in [Participants -> Bags]
  BY SealType, Zenon DEF DeferTo, TypeOK
<1>3. parked' \in [Participants -> SUBSET Garbage]
  <2>1. CASE parked' = parked
    BY <2>1 DEF TypeOK
  <2>2. CASE parked' = [parked EXCEPT ![p] = {g}]
    BY <2>2 DEF TypeOK
  <2>3. QED
    BY <2>1, <2>2 DEF DeferTo
<1>4. bag' \in [Participants -> SUBSET Garbage]
  <2>1. CASE bag' = [bag EXCEPT ![p] = @ \cup {g}]
    BY <2>1, SMTT(30) DEF TypeOK
  <2>2. CASE bag' = [bag EXCEPT ![p] = {}]
    BY <2>2 DEF TypeOK
  <2>3. QED
    BY <2>1, <2>2 DEF DeferTo
<1>5. QED
  BY <1>1, <1>2, <1>3, <1>4

\* The destruction of the Global keeps the types.
LEMMA DropGlobalType ==
    ASSUME WellTyped, DropGlobal
    PROVE  /\ alive' \in BOOLEAN
           /\ entry' \in [Participants -> Entries]
           /\ queue' \in Seq(Bags)
           /\ executed' \subseteq Garbage
<1> TypeOK
  BY DEF WellTyped
<1>1. entry' \in [Participants -> Entries]
  BY DEF TypeOK, DropGlobal, Entries
<1>2. \A i \in 1..Len(queue) : queue[i].objs \subseteq Garbage
  <2>1. ASSUME NEW i \in 1..Len(queue) PROVE queue[i] \in Bags
    BY DEF TypeOK
  <2>2. QED
    BY <2>1 DEF Bags
<1>3. executed' \subseteq Garbage
  <2>1. UNION {queue[i].objs : i \in 1..Len(queue)} \subseteq Garbage
    BY <1>2
  <2>2. QED
    BY <2>1 DEF TypeOK, DropGlobal, Garbage
<1>4. << >> \in Seq(Bags)
  OBVIOUS
<1>5. QED
  BY <1>1, <1>3, <1>4, Zenon DEF DropGlobal

\* Type correctness of every step of a participant.
LEMMA TypeStep ==
    ASSUME Consistent, NEW p \in Participants, Step(p)
    PROVE  TypeOK'
<1> Inv
  BY DEF Consistent
<1> TypeOK /\ WellTyped
  BY DEF Inv, WellTyped
<1> USE DEF globals, control, locals, history
<1>1. CASE Register(p)
  <2>1. pc' \in [Participants -> Labels]
    BY <1>1, GotoType DEF Register, Labels
  <2>2. entry' \in [Participants -> Entries]
    BY <1>1 DEF Register, TypeOK, Entries
  <2>3. QED
    BY <1>1, <2>1, <2>2, SMTT(30) DEF Register, TypeOK
<1>2. CASE PinAgain(p)
  <2>1. guards' \in [Participants -> Nat]
    BY <1>2 DEF PinAgain, TypeOK
  <2>2. QED
    BY <1>2, <2>1, SMTT(30) DEF PinAgain, TypeOK
<1>3. CASE Pin(p)
  <2>1. pc' \in [Participants -> Labels]
    BY <1>3, GotoType DEF Pin, PinLoad, Labels
  <2>2. caller' \in [Participants -> Callers]
    BY <1>3 DEF Pin, PinLoad, TypeOK, Callers
  <2>3. QED
    BY <1>3, <2>1, <2>2 DEF Pin, PinLoad, TypeOK
<1>4. CASE PinStore(p)
  <2>1. pc' \in [Participants -> Labels] /\ caller' \in [Participants -> Callers]
    BY <1>4, GotoType, ReturnType, Zenon DEF PinStore, Labels, TypeOK
  <2>2. pins' \in [Participants -> Nat]
    BY <1>4, ConstantsAssumption DEF PinStore, TypeOK
  <2>3. QED
    BY <1>4, <2>1, <2>2 DEF PinStore, TypeOK
<1>5. CASE Unpin(p)
  <2>1. pc' \in [Participants -> Labels]
    BY <1>5, GotoType, Zenon DEF Unpin, Labels, TypeOK
  <2>2. guards' \in [Participants -> Nat]
    BY <1>5 DEF Unpin, TypeOK
  <2>3. waiters' \in [Garbage -> SUBSET Participants]
    BY <1>5, ForgetType DEF Unpin, ClearLocalEpoch, TypeOK
  <2>4. pinned' \in [Participants -> BOOLEAN]
    BY <1>5, Zenon DEF Unpin, ClearLocalEpoch, TypeOK
  <2>5. lepoch' \in [Participants -> Nat]
    <3>1. CASE lepoch' = lepoch
      BY <3>1 DEF TypeOK
    <3>2. CASE lepoch' = [lepoch EXCEPT ![p] = 0]
      BY <3>2 DEF TypeOK
    <3>3. QED
      BY <1>5, <3>1, <3>2 DEF Unpin, ClearLocalEpoch
  <2>6. pinnedAt' \in [Participants -> Nat]
    BY <1>5 DEF Unpin, ClearLocalEpoch, TypeOK
  <2>7. QED
    BY <1>5, <2>1, <2>2, <2>3, <2>4, <2>5, <2>6, SMTT(30) DEF Unpin, TypeOK
<1>6. CASE RepinLoad(p)
  <2>1. pc' \in [Participants -> Labels]
    BY <1>6, GotoType DEF RepinLoad, Labels
  <2>2. QED
    BY <1>6, <2>1, Zenon DEF RepinLoad, TypeOK
<1>7. CASE RepinStore(p)
  <2>1. pc' \in [Participants -> Labels]
    BY <1>7, GotoType DEF RepinStore, Labels
  <2>2. waiters' \in [Garbage -> SUBSET Participants]
    BY <1>7, ForgetType DEF RepinStore, TypeOK
  <2>3. lepoch' \in [Participants -> Nat]
    BY <1>7, Zenon DEF RepinStore, TypeOK
  <2>4. pinnedAt' \in [Participants -> Nat]
    BY <1>7, SMTT(30) DEF RepinStore, TypeOK
  <2>5. QED
    BY <1>7, <2>1, <2>2, <2>3, <2>4, Zenon DEF RepinStore, TypeOK
<1>8. CASE RepinAfter(p)
  <2>1. pc' \in [Participants -> Labels]
    BY <1>8, GotoType DEF RepinAfter, Labels
  <2>2. waiters' \in [Garbage -> SUBSET Participants]
    BY <1>8, ForgetType, SMTT(30) DEF RepinAfter, ClearLocalEpoch, TypeOK
  <2>3. handles' \in [Participants -> Nat]
    BY <1>8 DEF RepinAfter, TypeOK
  <2>4. QED
    BY <1>8, <2>1, <2>2, <2>3, Zenon DEF RepinAfter, ClearLocalEpoch, TypeOK
<1>9. CASE RepinAfterPin(p)
  <2>1. pc' \in [Participants -> Labels]
    BY <1>9, GotoType DEF RepinAfterPin, PinLoad, Labels
  <2>2. caller' \in [Participants -> Callers]
    BY <1>9 DEF RepinAfterPin, PinLoad, TypeOK, Callers
  <2>3. QED
    BY <1>9, <2>1, <2>2, SMTT(30) DEF RepinAfterPin, PinLoad, TypeOK
<1>10. CASE RepinAfterRelease(p)
  <2>1. pc' \in [Participants -> Labels]
    BY <1>10, GotoType DEF RepinAfterRelease, Labels
  <2>2. handles' \in [Participants -> Nat]
    BY <1>10 DEF RepinAfterRelease, TypeOK, Inv, HandleInv, HandlesOK
  <2>3. QED
    BY <1>10, <2>1, <2>2, SMTT(30) DEF RepinAfterRelease, TypeOK
<1>11. CASE DropHandle(p)
  <2>1. pc' \in [Participants -> Labels]
    BY <1>11, GotoType DEF DropHandle, Labels
  <2>2. handles' \in [Participants -> Nat]
    BY <1>11 DEF DropHandle, TypeOK
  <2>3. QED
    BY <1>11, <2>1, <2>2, SMTT(30) DEF DropHandle, TypeOK
<1>12. ASSUME NEW o \in Objects, Defer(p, o) PROVE TypeOK'
  <2>1. deferred' \subseteq Garbage /\ waiters' \in [Garbage -> SUBSET Participants]
    <3>1. o \in Garbage /\ Witness(o)
      BY <1>12 DEF Defer, Garbage
    <3>2. QED
      BY <3>1, WitnessType
  <2>2. pc' \in [Participants -> Labels] /\ sealed' \in [Participants -> Bags]
        /\ parked' \in [Participants -> SUBSET Garbage] /\ bag' \in [Participants -> SUBSET Garbage]
    BY <1>12, DeferToType, Zenon DEF Defer, Garbage, Labels
  <2>3. QED
    BY <1>12, <2>1, <2>2, SMTT(30) DEF Defer, TypeOK
<1>13. CASE Flush(p)
  <2>1. pc' \in [Participants -> Labels]
    BY <1>13, GotoType DEF Flush, Labels
  <2>2. sealed' \in [Participants -> Bags] /\ bag' \in [Participants -> SUBSET Garbage]
    BY <1>13, SealType, Zenon DEF Flush, TypeOK
  <2>3. QED
    BY <1>13, <2>1, <2>2, SMTT(30) DEF Flush, TypeOK
<1>14. CASE PushBag(p)
  <2>1. pc' \in [Participants -> Labels]
    BY <1>14, GotoType DEF PushBag, InPushBag, Labels
  <2>2. queue' \in Seq(Bags)
    BY <1>14 DEF PushBag, TypeOK
  <2>3. sealed' \in [Participants -> Bags]
    BY <1>14 DEF PushBag, TypeOK, NoBag, Bags
  <2>4. bag' \in [Participants -> SUBSET Garbage] /\ parked' \in [Participants -> SUBSET Garbage]
    BY <1>14 DEF PushBag, TypeOK
  <2>5. QED
    BY <1>14, <2>1, <2>2, <2>3, <2>4, SMTT(30) DEF PushBag, TypeOK
<1>15. CASE TryAdvance(p)
  <2>1. pc' \in [Participants -> Labels]
    BY <1>15, GotoType DEF TryAdvance, Labels
  <2>2. QED
    BY <1>15, <2>1, Zenon DEF TryAdvance, TypeOK
<1>16. CASE IterStart(p)
  <2>1. pc' \in [Participants -> Labels]
    BY <1>16, GotoType DEF IterStart, Labels
  <2>2. QED
    BY <1>16, <2>1, Zenon DEF IterStart, TypeOK
<1>17. ASSUME NEW q \in Participants, ScanPass(p, q) PROVE TypeOK'
  BY <1>17, Zenon DEF ScanPass, TypeOK
<1>18. ASSUME NEW q \in Participants, ScanFail(p, q) PROVE TypeOK'
  <2>1. pc' \in [Participants -> Labels]
    BY <1>18, GotoType DEF ScanFail, ReturnEpoch, Labels
  <2>2. QED
    BY <1>18, <2>1, Zenon DEF ScanFail, ReturnEpoch, TypeOK
<1>19. ASSUME NEW q \in Participants, ScanUnlink(p, q) PROVE TypeOK'
  <2>1. deferred' \subseteq Garbage /\ waiters' \in [Garbage -> SUBSET Participants]
    BY <1>19, WitnessType, Zenon DEF ScanUnlink, Garbage
  <2>2. pc' \in [Participants -> Labels] /\ sealed' \in [Participants -> Bags]
        /\ parked' \in [Participants -> SUBSET Garbage] /\ bag' \in [Participants -> SUBSET Garbage]
    BY <1>19, DeferToType, Zenon DEF ScanUnlink, Garbage, Labels
  <2>3. entry' \in [Participants -> Entries]
    BY <1>19 DEF ScanUnlink, TypeOK, Entries
  <2>4. QED
    BY <1>19, <2>1, <2>2, <2>3, Zenon DEF ScanUnlink, TypeOK
<1>20. ASSUME NEW q \in Participants, ScanSkip(p, q) PROVE TypeOK'
  BY <1>20, Zenon DEF ScanSkip, TypeOK
<1>21. CASE ScanStalled(p)
  <2>1. pc' \in [Participants -> Labels]
    BY <1>21, GotoType DEF ScanStalled, ReturnEpoch, Labels
  <2>2. QED
    BY <1>21, <2>1, Zenon DEF ScanStalled, ReturnEpoch, TypeOK
<1>22. CASE ScanEnd(p)
  <2>1. pc' \in [Participants -> Labels]
    BY <1>22, GotoType DEF ScanEnd, Labels
  <2>2. QED
    BY <1>22, <2>1, SMTT(30) DEF ScanEnd, TypeOK
<1>23. CASE Advance(p)
  <2>1. pc' \in [Participants -> Labels]
    BY <1>23, GotoType DEF Advance, ReturnEpoch, Labels
  <2>2. epoch' \in Nat /\ reg' \in [Participants -> Nat]
    BY <1>23 DEF Advance, TypeOK
  <2>3. QED
    BY <1>23, <2>1, <2>2, SMTT(30) DEF Advance, ReturnEpoch, TypeOK
<1>24. CASE CollectPop(p)
  <2>1. queue' \in Seq(Bags)
    BY <1>24 DEF CollectPop, TypeOK
  <2>2. Head(queue) \in Bags
    BY <1>24 DEF CollectPop, TypeOK
  <2>3. executed' \subseteq Garbage
    BY <1>24, <2>2, SMTT(30) DEF CollectPop, TypeOK, Bags
  <2>4. steps' \in [Participants -> Nat]
    BY <1>24 DEF CollectPop, TypeOK
  <2>5. QED
    BY <1>24, <2>1, <2>2, <2>3, <2>4, Zenon DEF CollectPop, TypeOK
<1>25. CASE CollectEnd(p)
  <2>1. pc' \in [Participants -> Labels] /\ caller' \in [Participants -> Callers]
    BY <1>25, ReturnType DEF CollectEnd
  <2>2. QED
    BY <1>25, <2>1, Zenon DEF CollectEnd, TypeOK
<1>26. CASE Finalize(p)
  <2>1. pc' \in [Participants -> Labels]
    BY <1>26, GotoType DEF Finalize, Labels
  <2>2. caller' \in [Participants -> Callers]
    BY <1>26 DEF Finalize, TypeOK, Callers
  <2>3. QED
    BY <1>26, <2>1, <2>2, SMTT(30) DEF Finalize, TypeOK
<1>27. CASE FinalizePush(p)
  <2>1. pc' \in [Participants -> Labels]
    BY <1>27, GotoType DEF FinalizePush, Labels
  <2>2. sealed' \in [Participants -> Bags] /\ bag' \in [Participants -> SUBSET Garbage]
    BY <1>27, SealType, SMTT(30) DEF FinalizePush, TypeOK
  <2>3. QED
    BY <1>27, <2>1, <2>2, SMTT(30) DEF FinalizePush, TypeOK
<1>28. CASE FinalizeUnpin(p)
  <2>1. pc' \in [Participants -> Labels]
    BY <1>28, GotoType DEF FinalizeUnpin, Labels
  <2>2. waiters' \in [Garbage -> SUBSET Participants]
    BY <1>28, ForgetType, SMTT(30) DEF FinalizeUnpin, ClearLocalEpoch, TypeOK
  <2>3. QED
    BY <1>28, <2>1, <2>2, Zenon DEF FinalizeUnpin, ClearLocalEpoch, TypeOK
<1>29. CASE FinalizeDelete(p)
  <2>1. pc' \in [Participants -> Labels]
    BY <1>29, GotoType DEF FinalizeDelete, Labels
  <2>2. entry' \in [Participants -> Entries]
    BY <1>29 DEF FinalizeDelete, TypeOK, Entries
  <2>3. QED
    BY <1>29, <2>1, <2>2, SMTT(30) DEF FinalizeDelete, TypeOK
<1>30. CASE FinalizeDrop(p)
  <2>1. pc' \in [Participants -> Labels]
    BY <1>30, GotoType DEF FinalizeDrop, Labels
  <2>2. alive' \in BOOLEAN /\ entry' \in [Participants -> Entries]
        /\ queue' \in Seq(Bags) /\ executed' \subseteq Garbage
    BY <1>30, DropGlobalType, Zenon DEF FinalizeDrop, TypeOK
  <2>3. QED
    BY <1>30, <2>1, <2>2, Zenon DEF FinalizeDrop, TypeOK
<1>31. QED
  BY <1>1, <1>2, <1>3, <1>4, <1>5, <1>6, <1>7, <1>8, <1>9, <1>10, <1>11, <1>12, <1>13, <1>14, <1>15, <1>16, <1>17, <1>18, <1>19, <1>20, <1>21, <1>22, <1>23, <1>24, <1>25, <1>26, <1>27, <1>28, <1>29, <1>30 DEF Step, Scan

-----------------------------------------------------------------------------

(***************************************************************************)
(* The conjuncts of the inductive invariant, one lemma each.               *)
(***************************************************************************)
\* Control and handles, for all participants.
LEMMA ControlNext ==
    ASSUME Consistent, NEW p \in Participants, Step(p)
    PROVE  ControlInv' /\ HandleInv'
<1> Inv
  BY DEF Consistent
<1>1. TypeOK /\ WellTyped /\ ControlOK(p) /\ HandlesOK(p) /\ Frame(p) /\ EntryStep(p)
  BY OthersSame, EntryMove DEF Inv, ControlInv, HandleInv, WellTyped
<1>2. ASSUME NEW r \in Participants PROVE ControlOK(r)' /\ HandlesOK(r)'
  <2>1. CASE r = p
    BY <1>1, <2>1, OwnControl, OwnHandles
  <2>2. CASE r # p
    <3>1. ControlOK(r) /\ HandlesOK(r) /\ SameFor(r)
      BY <1>1, <2>2 DEF Inv, ControlInv, HandleInv, Frame
    <3>2. QED
      BY <1>1, <2>2, <3>1 DEF SameFor, EntryStep, ControlOK, HandlesOK, InPushBag
  <2>3. QED
    BY <2>1, <2>2
<1>3. QED
  BY <1>2 DEF ControlInv, HandleInv

\* The store of try_advance: whoever is pinned was passed by the iteration, so
\* its pin began in the epoch that was loaded or later, and the pin of the
\* thread itself keeps the global epoch from being past the value stored.
LEMMA EpochNext ==
    ASSUME Consistent, NEW p \in Participants, Step(p)
    PROVE  /\ epoch' \in {epoch, epoch + 1}
           /\ epoch' # epoch => \A q \in Participants : pinned[q] => epoch' <= pinnedAt[q] + 1
<1> Inv
  BY DEF Consistent
<1>1. EpochStep(p)
  BY EpochMove, Zenon
<1>n. /\ epoch \in Nat /\ reg[p] \in Nat
      /\ \A q \in Participants : pinnedAt[q] \in Nat
  BY DEF Inv, TypeOK
<1>2. CASE pc[p] = "advance" /\ epoch' = reg[p] + 1
  <2>1. ScanOK(p) /\ PinOK(p) /\ ControlOK(p)
    BY DEF Inv, ScanInv, PinInv, ControlInv
  <2>2. \A q \in Participants : pinned[q] => reg[p] <= pinnedAt[q]
    <3>1. todo[p] = {} /\ \A q \in Participants \ todo[p] : pinned[q] => reg[p] <= pinnedAt[q]
      BY <1>2, <2>1 DEF ScanOK, InScan
    <3>2. QED
      BY <3>1
  <2>3. pinned[p]
    BY <1>2, <2>1 DEF ControlOK, PinnedLabels
  <2>4. reg[p] <= epoch /\ epoch <= reg[p] + 1
    <3>1. reg[p] <= epoch /\ epoch <= pinnedAt[p] + 1 /\ pinnedAt[p] <= reg[p]
      BY <1>2, <2>1, <2>3 DEF ScanOK, PinOK
    <3>2. QED
      BY <1>n, <3>1
  <2>5. epoch' \in {epoch, epoch + 1}
    BY <1>2, <1>n, <2>4
  <2>6. ASSUME NEW q \in Participants, pinned[q] PROVE epoch' <= pinnedAt[q] + 1
    BY <1>2, <1>n, <2>2, <2>6
  <2>7. QED
    BY <2>5, <2>6
<1>3. QED
  BY <1>1, <1>2 DEF EpochStep

\* A pin witnesses at most one advance: by EpochNext when the epoch moves, by
\* the pin's own store otherwise.
LEMMA PinNext ==
    ASSUME Consistent, NEW p \in Participants, Step(p)
    PROVE  PinInv'
<1> Inv
  BY DEF Consistent
<1>1. TypeOK /\ WellTyped /\ ControlOK(p) /\ ScanOK(p) /\ Frame(p) /\ TypeOK'
  BY OthersSame, TypeStep DEF Inv, ControlInv, ScanInv, WellTyped
<1>2. PinStep(p)
  BY <1>1, PinMove
<1>3. ASSUME NEW r \in Participants PROVE PinOK(r)'
  <2>1. PinOK(r) /\ (r # p => SameFor(r))
    BY <1>1 DEF Inv, PinInv, Frame
  <2>2. CASE pinned[r] /\ pinnedAt'[r] = pinnedAt[r] /\ lepoch'[r] = lepoch[r]
    <3>1. /\ epoch' \in {epoch, epoch + 1}
          /\ epoch' # epoch => epoch' <= pinnedAt[r] + 1
      BY <2>2, EpochNext
    <3>2. epoch \in Nat /\ pinnedAt[r] \in Nat /\ lepoch[r] \in Nat
      BY <1>1 DEF TypeOK
    <3>3. QED
      BY <2>1, <2>2, <3>1, <3>2 DEF PinOK
  <2>3. CASE pinnedAt'[r] = epoch /\ lepoch'[r] = reg[r] /\ epoch' = epoch /\ r = p
    BY <1>1, <2>3 DEF PinOK, ScanOK, TypeOK
  <2>4. QED
    BY <1>2, <2>1, <2>2, <2>3, Zenon DEF PinStep, SameFor, PinOK
<1>4. QED
  BY <1>3 DEF PinInv

\* An iteration in progress stays sound under the steps of the other threads.
LEMMA ScanNext ==
    ASSUME Consistent, NEW p \in Participants, Step(p)
    PROVE  ScanInv'
<1> Inv
  BY DEF Consistent
<1>1. /\ TypeOK /\ WellTyped /\ TypeOK' /\ ControlOK(p)
      /\ PinInv /\ PlaceInv /\ WaitInv /\ ControlInv
  BY TypeStep DEF Inv, ControlInv, WellTyped
<1>2. Frame(p) /\ EntryStep(p) /\ PinStep(p) /\ WaitStep(p) /\ WaitedStep(p)
  BY <1>1, OthersSame, EntryMove, PinMove, WaitMove, WaitedPinned
<1>3. ASSUME NEW r \in Participants \ {p} PROVE ScanOK(r)'
  <2>1. ScanOK(r) /\ SameFor(r) /\ ControlOK(r)
    BY <1>2 DEF Inv, ScanInv, ControlInv, Frame
  <2>2. reg'[r] <= epoch' /\ (pc'[r] = "advance" => todo'[r] = {})
    <3>1. epoch' \in {epoch, epoch + 1}
      BY EpochNext
    <3>2. epoch \in Nat /\ reg[r] \in Nat
      BY <1>1 DEF TypeOK
    <3>3. reg'[r] = reg[r] /\ pc'[r] = pc[r] /\ todo'[r] = todo[r]
      BY <2>1 DEF SameFor
    <3>4. reg[r] <= epoch /\ (pc[r] = "advance" => todo[r] = {})
      BY <2>1 DEF ScanOK
    <3>5. QED
      BY <3>1, <3>2, <3>3, <3>4
  <2>3. pc'[r] \in {"iter", "scan", "push_scan", "advance"} => pinnedAt'[r] <= reg'[r]
    BY <2>1 DEF SameFor, ScanOK
  <2>4. ASSUME InScan(r)', NEW q \in Participants \ todo'[r], pinned'[q]
        PROVE  reg'[r] <= pinnedAt'[q]
    <3>1. CASE q # p
      BY <1>2, <2>1, <2>4, <3>1 DEF Frame, SameFor, ScanOK, InScan
    <3>2. CASE q = p
      BY <1>2, <2>1, <2>4, <3>2 DEF SameFor, ScanOK, InScan, PinStep
    <3>3. QED
      BY <3>1, <3>2
  <2>5. ASSUME InScan(r)', NEW q \in todo'[r], entry'[q] = "unlinked"
        PROVE  r \in waiters'[q]
    <3>1. q \in todo[r] /\ InScan(r) /\ q \in Participants /\ q \in Garbage
      BY <1>1, <2>1, <2>5, SMTT(30) DEF SameFor, InScan, TypeOK, Garbage
    <3>2. pinned[r]
      BY <2>1, <3>1 DEF ControlOK, InScan, PinnedLabels
    <3>3. CASE waiters'[q] = PinnedNow
      BY <3>2, <3>3, SMTT(30) DEF PinnedNow
    <3>4. CASE entry[q] = "unlinked"
      <4>1. r \in waiters[q]
        BY <2>1, <3>1, <3>4 DEF ScanOK
      <4>2. QED
        BY <1>2, <3>1, <4>1 DEF WaitedStep
    <3>5. HoldsArc(r)
      BY <3>1 DEF InScan, HoldsArc
    <3>6. QED
      BY <1>2, <2>5, <3>1, <3>3, <3>4, <3>5 DEF EntryStep
  <2>6. QED
    BY <2>2, <2>3, <2>4, <2>5 DEF ScanOK
<1>4. ScanOK(p)'
  BY <1>1, OwnScan DEF Inv, ScanInv
<1>5. QED
  BY <1>3, <1>4 DEF ScanInv

\* What is in the queue after a step of p was in it, or is the bag p pushed.
LEMMA QueueMove ==
    ASSUME TypeOK, NEW p \in Participants, BagStep(p), NEW i \in 1..Len(queue')
    PROVE  \/ \E j \in 1..Len(queue) : queue'[i] = queue[j]
           \/ queue'[i] = sealed[p]
<1>1. CASE queue' = queue
  BY <1>1
<1>2. CASE queue' = Append(queue, sealed[p])
  <2>1. queue \in Seq(Bags) /\ sealed[p] \in Bags
    BY DEF TypeOK
  <2>2. Len(queue') = Len(queue) + 1
    BY <1>2, <2>1
  <2>3. CASE i = Len(queue) + 1
    BY <1>2, <2>1, <2>3
  <2>4. CASE i \in 1..Len(queue)
    BY <1>2, <2>1, <2>4
  <2>5. QED
    BY <2>1, <2>2, <2>3, <2>4
<1>3. CASE queue # << >> /\ queue' = Tail(queue)
  <2>1. i + 1 \in 1..Len(queue) /\ queue'[i] = queue[i + 1]
    BY <1>3 DEF TypeOK
  <2>2. QED
    BY <2>1
<1>4. CASE queue' = << >>
  BY <1>4
<1>5. QED
  BY <1>1, <1>2, <1>3, <1>4 DEF BagStep

\* Bags and the queue hold deferred garbage only.
LEMMA PlaceNext ==
    ASSUME Consistent, NEW p \in Participants, Step(p)
    PROVE  PlaceInv'
<1> Inv
  BY DEF Consistent
<1>1. TypeOK /\ WellTyped /\ ControlOK(p) /\ PlaceInv
  BY DEF Inv, ControlInv, WellTyped
<1>2. Frame(p) /\ EntryStep(p) /\ WaitStep(p) /\ BagStep(p) /\ ExecStep(p)
  BY <1>1, OthersSame, EntryMove, WaitMove, BagMove, ExecutedMove
<1>3. ASSUME NEW r \in Participants
      PROVE  bag'[r] \cup parked'[r] \cup sealed'[r].objs \subseteq deferred'
  <2>1. BagsOK(r)
    BY <1>1 DEF PlaceInv, BagsOK
  <2>2. CASE r = p
    BY <1>1, <2>1, <2>2, OwnBags DEF BagsOK
  <2>3. CASE r # p
    BY <1>2, <2>1, <2>3 DEF Frame, SameFor, WaitStep, BagsOK
  <2>4. QED
    BY <2>2, <2>3
<1>4. ASSUME NEW i \in 1..Len(queue') PROVE queue'[i].objs \subseteq deferred'
  <2>1. deferred \subseteq deferred' /\ sealed[p].objs \subseteq deferred
    BY <1>1, <1>2 DEF WaitStep, PlaceInv
  <2>2. \A j \in 1..Len(queue) : queue[j].objs \subseteq deferred
    BY <1>1 DEF PlaceInv
  <2>3. \/ \E j \in 1..Len(queue) : queue'[i] = queue[j]
        \/ queue'[i] = sealed[p]
    BY <1>1, <1>2, QueueMove
  <2>4. QED
    BY <2>1, <2>2, <2>3
<1>5. ASSUME NEW g \in deferred PROVE g \in Participants => entry'[g] = "unlinked"
  BY <1>1, <1>2 DEF PlaceInv, EntryStep
<1>6. ASSUME NEW r \in Participants, r \in deferred' PROVE entry'[r] = "unlinked"
  <2>1. CASE r \in deferred
    BY <1>5, <2>1
  <2>2. CASE r \notin deferred
    BY <1>2, <1>6, <2>2 DEF WaitStep, Garbage
  <2>3. QED
    BY <2>1, <2>2
<1>7. ASSUME NEW g \in executed'
      PROVE  \/ g \in deferred
             \/ g \in Participants /\ entry'[g] = "unlinked"
  <2>1. CASE g \in executed
    <3>1. g \in Objects \/ g \in Participants
      BY <1>1, <2>1 DEF TypeOK, Garbage
    <3>2. QED
      BY <1>1, <1>2, <2>1, <3>1 DEF PlaceInv, EntryStep
  <2>2. CASE queue # << >> /\ g \in Head(queue).objs
    <3>1. Head(queue) = queue[1] /\ 1 \in 1..Len(queue)
      BY <1>1, <2>2 DEF TypeOK
    <3>2. QED
      BY <1>1, <2>2, <3>1 DEF PlaceInv
  <2>3. CASE \E i \in 1..Len(queue) : g \in queue[i].objs
    BY <1>1, <2>3 DEF PlaceInv
  <2>4. QED
    BY <1>2, <1>7, <2>1, <2>2, <2>3 DEF ExecStep
<1>8. \A r \in Participants : r \in deferred' \cup executed' => entry'[r] = "unlinked"
  BY <1>5, <1>6, <1>7
<1>9. \A o \in Objects : o \in executed' => o \in deferred'
  BY <1>2, <1>7, ConstantsAssumption DEF WaitStep
<1>10. QED
  BY <1>3, <1>4, <1>8, <1>9 DEF PlaceInv

\* Bags are not expired as long as somebody they wait for is pinned.
LEMMA WaitNext ==
    ASSUME Consistent, NEW p \in Participants, Step(p)
    PROVE  WaitInv'
<1> Inv
  BY DEF Consistent
<1>1. /\ TypeOK /\ WellTyped /\ ControlInv /\ ControlOK(p)
      /\ ScanOK(p) /\ PinInv /\ PlaceInv /\ WaitInv
  BY DEF Inv, ControlInv, ScanInv, WellTyped
<1>2. TypeOK'
  BY TypeStep
<1>3. WaitStep(p) /\ WaitedStep(p) /\ BagStep(p) /\ ExecStep(p)
  BY <1>1, WaitMove, WaitedPinned, BagMove, ExecutedMove
<1>4. ASSUME NEW g \in deferred PROVE g \in Garbage /\ waiters'[g] \subseteq waiters[g]
  <2>1. g \in Garbage
    BY <1>1 DEF TypeOK
  <2>2. QED
    BY <1>3, <2>1 DEF WaitStep
<1>5. ASSUME NEW b, b.objs \subseteq deferred, BagOK(b)
      PROVE  \A g \in b.objs : \A q \in waiters'[g] : pinnedAt'[q] <= b.epoch
  BY <1>3, <1>4, <1>5 DEF BagOK, WaitedStep
<1>6. \A g \in Garbage : \A q \in waiters'[g] : pinned'[q]
  BY <1>3 DEF WaitedStep
<1>7. ASSUME NEW g \in executed' PROVE waiters'[g] = {}
  <2>0. g \in Garbage /\ waiters'[g] \subseteq Participants
    BY <1>2 DEF TypeOK
  <2>1. CASE g \in executed
    <3>1. waiters[g] = {}
      BY <1>1, <2>1 DEF WaitInv
    <3>2. g \in Participants => entry[g] = "unlinked"
      BY <1>1, <2>1 DEF PlaceInv
    <3>3. g \notin Participants => g \in deferred
      BY <1>1, <2>0, <2>1 DEF PlaceInv, Garbage
    <3>4. waiters'[g] \subseteq waiters[g]
      BY <1>3, <2>0, <3>2, <3>3 DEF WaitStep
    <3>5. QED
      BY <3>1, <3>4
  <2>2. CASE /\ queue # << >> /\ IsExpired(Head(queue), reg[p])
             /\ g \in Head(queue).objs
    <3>1. /\ Head(queue) = queue[1] /\ 1 \in 1..Len(queue) /\ Head(queue).epoch \in Nat
          /\ reg[p] \in Nat /\ epoch \in Nat
      <4>1. /\ Head(queue) = queue[1] /\ 1 \in 1..Len(queue) /\ Head(queue) \in Bags
            /\ reg[p] \in Nat /\ epoch \in Nat
        BY <1>1, <2>2, SMTT(30) DEF TypeOK
      <4>2. QED
        BY <4>1 DEF Bags
    <3>2. g \in deferred
      BY <1>1, <2>2, <3>1 DEF PlaceInv
    <3>3. ASSUME NEW q \in waiters[g] PROVE FALSE
      <4>1. q \in Participants /\ pinnedAt[q] \in Nat /\ pinned[q]
        BY <1>1, <2>0, <3>3 DEF TypeOK, WaitInv
      <4>2. pinnedAt[q] <= Head(queue).epoch
        BY <1>1, <2>2, <3>1, <3>3 DEF WaitInv, BagOK
      <4>3. epoch <= pinnedAt[q] + 1 /\ reg[p] <= epoch
        BY <1>1, <4>1 DEF PinInv, PinOK, ScanOK
      <4>4. reg[p] - Head(queue).epoch >= 2
        BY <2>2 DEF IsExpired
      <4>5. QED
        BY <3>1, <4>1, <4>2, <4>3, <4>4
    <3>4. QED
      BY <1>4, <3>2, <3>3
  <2>3. CASE (\A r \in Participants \ {p} : ~ HoldsArc(r)) /\ ~ pinned[p]
    <3>1. ASSUME NEW r \in Participants PROVE ~ pinned[r]
      BY <1>1, <2>3, SMTT(30) DEF ControlInv, ControlOK, HoldsArc, PinnedLabels
    <3>2. QED
      BY <1>3, <2>0, <3>1 DEF WaitedStep
  <2>4. QED
    BY <1>3, <1>7, <2>1, <2>2, <2>3 DEF ExecStep
<1>8. ASSUME NEW r \in Participants
      PROVE  \A g \in sealed'[r].objs : \A q \in waiters'[g] : pinnedAt'[q] <= sealed'[r].epoch
  <2>1. CASE sealed'[r] = sealed[r]
    BY <1>1, <1>5, <2>1 DEF PlaceInv, WaitInv
  <2>2. CASE r = p /\ sealed'[p] = [epoch |-> epoch, objs |-> bag[p]]
    <3>1. bag[p] \subseteq deferred
      BY <1>1 DEF PlaceInv
    <3>2. ASSUME NEW g \in bag[p], NEW q \in waiters'[g] PROVE pinnedAt'[q] <= epoch
      <4>g. g \in Garbage
        BY <1>4, <3>1, <3>2
      <4>1. q \in Participants /\ pinned[q] /\ pinnedAt'[q] = pinnedAt[q]
        <5>1. waiters' \in [Garbage -> SUBSET Participants]
          BY <1>2 DEF TypeOK
        <5>2. q \in Participants
          BY <3>2, <4>g, <5>1
        <5>3. QED
          BY <1>3, <3>2, <4>g, <5>2 DEF WaitedStep
      <4>2. QED
        BY <1>1, <4>1, SMTT(30) DEF PinInv, PinOK
    <3>3. QED
      BY <2>2, <3>2
  <2>3. CASE sealed'[r] = NoBag
    <3>1. NoBag.objs = {}
      BY DEF NoBag
    <3>2. QED
      BY <2>3, <3>1
  <2>4. QED
    <3>1. DOMAIN sealed = Participants
      BY <1>1 DEF TypeOK
    <3>2. CASE sealed' = sealed
      BY <2>1, <3>2
    <3>3. CASE sealed' = [sealed EXCEPT ![p] = [epoch |-> epoch, objs |-> bag[p]]]
      BY <2>1, <2>2, <3>1, <3>3
    <3>4. CASE sealed' = [sealed EXCEPT ![p] = NoBag]
      BY <2>1, <2>3, <3>1, <3>4
    <3>5. QED
      BY <1>3, <3>2, <3>3, <3>4 DEF BagStep
<1>9. ASSUME NEW i \in 1..Len(queue')
      PROVE  \A g \in queue'[i].objs : \A q \in waiters'[g] : pinnedAt'[q] <= queue'[i].epoch
  <2>1. \/ \E j \in 1..Len(queue) : queue'[i] = queue[j]
        \/ queue'[i] = sealed[p]
    BY <1>1, <1>3, QueueMove
  <2>2. queue'[i].objs \subseteq deferred /\ BagOK(queue'[i])
    BY <1>1, <2>1 DEF PlaceInv, WaitInv
  <2>3. QED
    BY <1>5, <2>2
<1>10. QED
  BY <1>6, <1>7, <1>8, <1>9 DEF WaitInv, BagOK

\* The user drops its Collector: at most the Global goes away, when nobody is
\* registered.
LEMMA DropCollectorNext ==
    ASSUME Consistent, DropCollector
    PROVE  Inv'
<1> Inv
  BY DEF Consistent
<1> USE DEF control, locals
<1>1. CASE UNCHANGED <<queue, entry, alive, executed>>
  <2>1. TypeOK'
    BY <1>1, Zenon DEF DropCollector, Inv, TypeOK
  <2>2. ControlInv' /\ HandleInv' /\ PinInv'
    BY <1>1 DEF DropCollector, Inv, ControlInv, ControlOK, HandleInv, HandlesOK,
                PinInv, PinOK, InPushBag
  <2>3. ScanInv'
    BY <1>1 DEF DropCollector, Inv, ScanInv, ScanOK, InScan
  <2>4. PlaceInv' /\ WaitInv'
    BY <1>1 DEF DropCollector, Inv, PlaceInv, WaitInv, BagOK
  <2>5. QED
    BY <2>1, <2>2, <2>3, <2>4 DEF Inv
<1>2. CASE (\A q \in Participants : ~ HoldsArc(q)) /\ DropGlobal
  <2>1. TypeOK'
    <3>1. /\ alive' \in BOOLEAN /\ entry' \in [Participants -> Entries]
          /\ queue' \in Seq(Bags) /\ executed' \subseteq Garbage
      BY <1>2, DropGlobalType DEF Inv, WellTyped
    <3>2. QED
      BY <3>1, Zenon DEF DropCollector, Inv, TypeOK
  <2>2. ASSUME NEW r \in Participants
        PROVE  /\ pc[r] \in {"none", "done"} /\ ~ pinned[r]
               /\ pc[r] = "none" => entry[r] = "absent"
               /\ pc[r] = "done" => entry[r] \in {"deleted", "unlinked"}
    BY <1>2 DEF Inv, ControlInv, ControlOK, HoldsArc, PinnedLabels
  <2>3. ControlInv' /\ HandleInv' /\ PinInv'
    <3>1. ASSUME NEW r \in Participants
          PROVE  /\ pc[r] = "none" => entry'[r] = "absent"
                 /\ pc[r] = "done" => entry'[r] = "unlinked"
      BY <1>2, <2>2 DEF DropGlobal
    <3>2. QED
      BY <2>2, <3>1, Zenon DEF DropCollector, Inv, ControlInv, ControlOK, HandleInv, HandlesOK,
                  PinInv, PinOK, InPushBag
  <2>4. ScanInv'
    BY <2>2, Zenon DEF DropCollector, Inv, ScanInv, ScanOK, InScan
  <2>5. \A g \in Garbage : waiters[g] = {}
    BY <2>2, SMTT(30) DEF Inv, WaitInv, TypeOK
  <2>6. \A r \in Participants : r \in deferred => entry'[r] = "unlinked"
    BY <1>2 DEF Inv, PlaceInv, DropGlobal
  <2>7. ASSUME NEW g \in executed'
        PROVE  \/ g \in executed \/ g \in deferred
               \/ g \in Participants /\ entry[g] = "deleted"
    BY <1>2, <2>7 DEF Inv, PlaceInv, DropGlobal
  <2>8. \A r \in Participants : r \in executed' => entry'[r] = "unlinked"
    <3>1. ASSUME NEW r \in Participants, entry[r] \in {"deleted", "unlinked"}
          PROVE  entry'[r] = "unlinked"
      BY <1>2, <3>1 DEF DropGlobal
    <3>2. QED
      BY <2>7, <3>1 DEF Inv, PlaceInv
  <2>9. PlaceInv'
    <3>1. /\ bag' = bag /\ parked' = parked /\ sealed' = sealed /\ deferred' = deferred
          /\ queue' = << >>
      BY <1>2 DEF DropCollector, DropGlobal
    <3>2. \A o \in Objects : o \in executed' => o \in deferred
      BY <2>7, ConstantsAssumption DEF Inv, PlaceInv
    <3>3. \A i \in 1..Len(queue') : queue'[i].objs \subseteq deferred'
      BY <3>1
    <3>4. QED
      BY <2>6, <2>8, <3>1, <3>2, <3>3, SMTT(30) DEF Inv, PlaceInv
  <2>10. WaitInv'
    <3>1. waiters' = waiters /\ sealed' = sealed /\ queue' = << >> /\ executed' \subseteq Garbage
      BY <1>2, <2>1 DEF DropCollector, DropGlobal, TypeOK
    <3>2. \A r \in Participants : sealed[r].objs \subseteq Garbage
      BY DEF Inv, PlaceInv, TypeOK
    <3>3. \A i \in 1..Len(queue') : BagOK(queue[i])'
      BY <3>1
    <3>4. \A r \in Participants : BagOK(sealed[r])'
      BY <2>5, <3>1, <3>2 DEF BagOK
    <3>5. \A g \in Garbage : waiters'[g] = {}
      BY <2>5, <3>1
    <3>6. QED
      BY <3>1, <3>3, <3>4, <3>5, SMTT(30) DEF WaitInv
  <2>11. QED
    BY <2>1, <2>3, <2>4, <2>9, <2>10 DEF Inv
<1>3. QED
  BY <1>1, <1>2 DEF DropCollector

\* A stuttering step changes nothing.
LEMMA Stuttering ==
    ASSUME Consistent, UNCHANGED vars
    PROVE  Inv'
<1> Inv
  BY DEF Consistent
<1> USE DEF vars, globals, control, locals, history, Inv
<1>1. TypeOK'
  BY SMTT(30) DEF TypeOK
<1>2. ControlInv'
  BY SMTT(30) DEF ControlInv, ControlOK, InPushBag
<1>h. HandleInv' /\ PinInv'
  BY Zenon DEF HandleInv, HandlesOK, PinInv, PinOK, InPushBag
<1>3. ScanInv' /\ PlaceInv' /\ WaitInv'
  BY Zenon DEF ScanInv, ScanOK, InScan, PlaceInv, WaitInv, BagOK
<1>4. QED
  BY <1>1, <1>2, <1>h, <1>3

\* The invariant holds initially.
LEMMA InitInv == Init => Inv
<1> SUFFICES ASSUME Init PROVE Inv
  OBVIOUS
<1>1. TypeOK
  <2>1. NoBag \in Bags
    BY DEF NoBag, Bags
  <2>2. << >> \in Seq(Bags)
    OBVIOUS
  <2>3. QED
    BY <2>1, <2>2, SMTT(30) DEF Init, TypeOK, Entries, Labels, Callers
<1>2. ControlInv /\ HandleInv /\ PinInv
  BY DEF Init, ControlInv, ControlOK, HandleInv, HandlesOK, PinInv, PinOK,
         PinnedLabels, InPushBag, NoBag
<1>3. ScanInv
  BY DEF Init, ScanInv, ScanOK, InScan
<1>4. PlaceInv /\ WaitInv
  BY DEF Init, PlaceInv, WaitInv, BagOK, NoBag
<1>5. QED
  BY <1>1, <1>2, <1>3, <1>4 DEF Inv

\* The invariant is inductive.
LEMMA InvNext == Inv /\ [Next]_vars => Inv'
<1> SUFFICES ASSUME Inv, [Next]_vars PROVE Inv'
  OBVIOUS
<1> Consistent
  BY DEF Consistent
<1>1. ASSUME NEW p \in Participants, Step(p) PROVE Inv'
  <2>1. TypeOK' /\ ControlInv' /\ HandleInv'
    BY <1>1, TypeStep, ControlNext
  <2>2. PinInv' /\ ScanInv'
    BY <1>1, PinNext, ScanNext
  <2>3. PlaceInv' /\ WaitInv'
    BY <1>1, PlaceNext, WaitNext
  <2>4. QED
    BY <2>1, <2>2, <2>3 DEF Inv
<1>2. CASE DropCollector
  BY <1>2, DropCollectorNext
<1>3. CASE UNCHANGED vars
  BY <1>3, Stuttering
<1>4. QED
  BY <1>1, <1>2, <1>3 DEF Next, Terminated

-----------------------------------------------------------------------------
(***************************************************************************)
(* The theorems.                                                           *)
(***************************************************************************)
\* The strengthened invariant holds of the collector, whatever the number of
\* participants and objects, the capacity of bags and the steps of collect.
THEOREM Correctness == Spec => []Inv
<1>1. Init => Inv
  BY InitInv
<1>2. Inv /\ [Next]_vars => Inv'
  BY InvNext
<1>3. QED
  BY <1>1, <1>2, PTL DEF Spec

\* Every variable stays in its type; in particular no guard or handle count
\* goes below zero.
THEOREM TypeCorrect == Spec => []TypeOK
<1>1. Inv => TypeOK
  BY DEF Inv
<1>2. QED
  BY <1>1, Correctness, PTL

\* Guard::defer: no deferred function runs, and no Local is destroyed, while a
\* participant that was pinned when it was deferred is still in that pin.
THEOREM SafeReclamation == Spec => []DeferredRunsAfterUnpin
<1>1. Inv => DeferredRunsAfterUnpin
  BY DEF Inv, WaitInv, DeferredRunsAfterUnpin
<1>2. QED
  BY <1>1, Correctness, PTL

\* SealedBag::is_expired: a pinned participant witnesses at most one advance of
\* the global epoch, even if it published a stale epoch.
THEOREM AtMostOneAdvance == Spec => []OneAdvancePerPin
<1>1. Inv => OneAdvancePerPin
  BY DEF Inv, PinInv, PinOK, TypeOK, OneAdvancePerPin
<1>2. QED
  BY <1>1, Correctness, PTL

\* Local::pin, Local::finalize, Local::release_handle: the debug assertions on
\* the local epoch and on the counts of guards and handles hold.
THEOREM DebugAssertions == Spec => []AssertionsHold
<1>1. Inv => AssertionsHold
  <2> SUFFICES ASSUME Inv, NEW p \in Participants
      PROVE  /\ pc[p] = "pin" => ~ pinned[p] /\ lepoch[p] = 0
             /\ pc[p] = "finalize" => guards[p] = 0 /\ handles[p] = 0
             /\ pc[p] = "release_handle" => handles[p] >= 1
             /\ pc[p] = "fin_unpin" => guards[p] = 1
    BY DEF AssertionsHold
  <2>1. ControlOK(p) /\ HandlesOK(p) /\ handles[p] \in Nat
    BY DEF Inv, ControlInv, HandleInv, TypeOK
  <2>2. QED
    BY <2>1 DEF ControlOK, HandlesOK, PinnedLabels
<1>2. QED
  BY <1>1, Correctness, PTL

\* The iteration of try_advance never stands on a destroyed Local, and no
\* thread uses its own Local after its destruction.
THEOREM LocalsNotUsedAfterFree == Spec => []NoUseOfFreedLocal
<1>1. Inv => NoUseOfFreedLocal
  <2> SUFFICES ASSUME Inv PROVE NoUseOfFreedLocal
    OBVIOUS
  <2>1. ASSUME NEW p \in Participants, InScan(p), NEW q \in todo[p], q \in executed
        PROVE  FALSE
    <3>1. q \in Participants /\ entry[q] = "unlinked"
      BY <2>1, SMTT(30) DEF Inv, TypeOK, PlaceInv
    <3>2. p \in waiters[q]
      BY <2>1, <3>1 DEF Inv, ScanInv, ScanOK
    <3>3. QED
      BY <2>1, <3>2 DEF Inv, WaitInv
  <2>2. ASSUME NEW p \in Participants, HoldsArc(p), pc[p] # "fin_drop" PROVE p \notin executed
    BY <2>2 DEF Inv, ControlInv, ControlOK, PlaceInv, HoldsArc
  <2>3. QED
    BY <2>1, <2>2 DEF NoUseOfFreedLocal
<1>2. QED
  BY <1>1, Correctness, PTL

\* Global::try_advance: its unconditional store either advances the global
\* epoch by one or writes the value that is there already.
THEOREM EpochMonotonic == Spec => EpochNeverRegresses
<1>1. Inv /\ [Next]_vars => [epoch' \in {epoch, epoch + 1}]_vars
  <2> SUFFICES ASSUME Inv, [Next]_vars PROVE epoch' \in {epoch, epoch + 1} \/ UNCHANGED vars
    OBVIOUS
  <2>1. ASSUME NEW p \in Participants, Step(p) PROVE epoch' \in {epoch, epoch + 1}
    BY <2>1, EpochNext DEF Consistent
  <2>2. QED
    BY <2>1 DEF Next, DropCollector, Terminated
<1>2. QED
  BY <1>1, Correctness, PTL DEF Spec, EpochNeverRegresses
=============================================================================
