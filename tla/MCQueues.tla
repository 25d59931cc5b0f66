------------------------------ MODULE MCQueues ------------------------------
(* The queues of crossbeam: ArrayQueue, SegQueue and the queue of epoch's    *)
(* bags, with the injector, the list of epoch's participants and the tagged  *)
(* pointers that these are made of.  A behaviour runs one of them, `which`;  *)
(* the others stay as they begin.                                            *)
EXTENDS ArrayQueue, TLC

CONSTANTS Two,       \* the threads of SegQueue, EpochQueue, EpochList and TaggedAtomic
          SegPushes, BlockCap,
          MaxEntries, MaxIters,  \* bounds of EpochList
          w1, w2, w3             \* workers that use the injector

\* Every thread pushes and pops, or one pushes, one pops and one observes.
MCScenarios == {[t \in Threads |-> {"push", "force_push", "pop"}]} \cup
               {s \in [Threads -> {{"push"}, {"pop"}, Observers}] :
                   \A t, u \in Threads : t # u => s[t] # s[u]}

\* Both push and pop, or one does and the other observes.
TwoScenarios == {[t \in Two |-> {"push", "pop"}]} \cup
                 {s \in [Two -> {{"push", "pop"}, {"len", "is_empty"}}] :
                     \A t, u \in Two : t # u => s[t] # s[u]}

VARIABLES
    which,
    sHead, sTail, sBlocks, sPhase, sTh, sFresh, sResult, sLog, sPopped, sSeen, sDropped, sOps,
    eHead, eTail, eNext, eRetired, eDropped, eFresh, eTh, eResult, eContent,
    lNext, lUsed, lIters, finalized, lDropped, lPc, lEntry, lPred, lCurr, lSucc, lDue,
    iHead, iTail, iBlocks, iLive, iDest, iTodo, iTh, iFresh, iOut, iLog, iClaimed, iSeen,
    aData, aOwn, aSeen, aUnlinked, aUpdating, aRetired, aHeap, aLeft, aLast

Seg == INSTANCE SegQueue WITH
    Threads <- Two, Scenarios <- TwoScenarios, MaxPushes <- SegPushes,
    head <- sHead, tail <- sTail, blocks <- sBlocks, phase <- sPhase, th <- sTh,
    fresh <- sFresh, result <- sResult, log <- sLog, popped <- sPopped, seen <- sSeen,
    dropped <- sDropped, ops <- sOps

Bags == INSTANCE EpochQueue WITH
    Threads <- Two,
    head <- eHead, tail <- eTail, next <- eNext, retired <- eRetired, dropped <- eDropped,
    fresh <- eFresh, th <- eTh, result <- eResult, content <- eContent

List == INSTANCE EpochList WITH
    Threads <- Two,
    next <- lNext, used <- lUsed, iters <- lIters, dropped <- lDropped, pc <- lPc,
    entry <- lEntry, pred <- lPred, curr <- lCurr, succ <- lSucc, due <- lDue

\* One worker pushes, the others steal and observe.
Calls(f, c) == [flavor |-> f, calls |-> c]
InjectorScripts ==
    {w1 :> Calls("fifo", <<"push", "push">>) @@ w2 :> s[1] @@ w3 :> s[2] :
        s \in {<<Calls("lifo", <<"batch", "steal">>), Calls("lifo", <<"batch_pop">>)>>,
               <<Calls("fifo", <<"batch_pop", "batch">>), Calls("fifo", <<"steal">>)>>,
               <<Calls("fifo", <<"steal", "batch">>), Calls("fifo", <<"len">>)>>,
               <<Calls("fifo", <<"batch">>), Calls("fifo", <<"is_empty">>)>>}}

Inj == INSTANCE Injector WITH
    Threads <- {w1, w2, w3}, Scripts <- InjectorScripts, BlockCap <- 3, Filled <- 2,
    MaxPushes <- 4, Limit <- 2,
    head <- iHead, tail <- iTail, blocks <- iBlocks, live <- iLive, dest <- iDest,
    todo <- iTodo, th <- iTh, fresh <- iFresh, out <- iOut, log <- iLog,
    claimed <- iClaimed, seen <- iSeen

\* Two objects in words of four bits, two of them for the tag; 6 does not fit into a tag.
Ptrs == INSTANCE TaggedAtomic WITH
    Threads <- Two, Width <- 4, AlignBits <- 2, Addresses <- {4, 12}, Tags <- {1, 6},
    MaxCalls <- 3,
    data <- aData, own <- aOwn, seen <- aSeen, unlinked <- aUnlinked, updating <- aUpdating,
    retired <- aRetired, heap <- aHeap, left <- aLeft, last <- aLast

segVars  == <<sHead, sTail, sBlocks, sPhase, sTh, sFresh, sResult, sLog, sPopped, sSeen,
              sDropped, sOps>>
bagsVars == <<eHead, eTail, eNext, eRetired, eDropped, eFresh, eTh, eResult, eContent>>
listVars == <<lNext, lUsed, lIters, finalized, lDropped, lPc, lEntry, lPred, lCurr, lSucc, lDue>>
injVars  == <<iHead, iTail, iBlocks, iLive, iDest, iTodo, iTh, iFresh, iOut, iLog, iClaimed, iSeen>>
ptrVars  == <<aData, aOwn, aSeen, aUnlinked, aUpdating, aRetired, aHeap, aLeft, aLast>>

\* Those that do not run have one initial state.
MCInit ==
    /\ which \in {"array", "seg", "bags", "list", "injector", "atomic"}
    /\ Init /\ Seg!Init /\ Bags!Init /\ List!Init /\ Inj!Init /\ Ptrs!Init
    /\ which # "array" => ops = [t \in Threads |-> {"push", "force_push", "pop"}]
    /\ which # "seg" => sOps = [t \in Two |-> {"push", "pop"}]
    /\ which # "injector" => LET s == CHOOSE s \in InjectorScripts : TRUE
                             IN \A w \in {w1, w2, w3} : iTodo[w] = s[w].calls

NextArray ==
    /\ which = "array" /\ Next
    /\ UNCHANGED <<which, segVars, bagsVars, listVars, injVars, ptrVars>>
NextSeg ==
    /\ which = "seg" /\ Seg!Next
    /\ UNCHANGED <<which, vars, bagsVars, listVars, injVars, ptrVars>>
NextBags ==
    /\ which = "bags" /\ Bags!Next
    /\ UNCHANGED <<which, vars, segVars, listVars, injVars, ptrVars>>
NextList ==
    /\ which = "list" /\ List!Next
    /\ UNCHANGED <<which, vars, segVars, bagsVars, injVars, ptrVars>>
NextInj ==
    /\ which = "injector" /\ Inj!Next
    /\ UNCHANGED <<which, vars, segVars, bagsVars, listVars, ptrVars>>
NextPtrs ==
    /\ which = "atomic" /\ Ptrs!Next
    /\ UNCHANGED <<which, vars, segVars, bagsVars, listVars, injVars>>

MCSpec == MCInit /\ [][NextArray \/ NextSeg \/ NextBags \/ NextList \/ NextInj \/ NextPtrs]_
                        <<which, vars, segVars, bagsVars, listVars, injVars, ptrVars>>

\* Threads are interchangeable.
Symmetry == Permutations(Threads) \cup Permutations(Two)

\* SegQueue and injector: a block is not used after it was freed, and is freed
\* once.  The queue of bags: no retired node can be reached, and each is retired
\* once.  List: an entry is finalized once, when it can no longer be found.
FreedOnce ==
    /\ which = "seg" => Seg!BlocksFreedOnce
    /\ which = "injector" => Inj!BlocksFreedOnce
    /\ which = "bags" => Bags!RetiredUnreachable
    /\ which = "list" => List!FinalizedOnce
\* List: an iteration that ends has returned every entry that stayed, and never
\* unlinks from a pointer that is tagged.
IterationComplete == which = "list" => List!IterationComplete /\ List!CurrUntagged
\* Atomic, Owned and Shared: every object has one owner and none is leaked.
OneOwner == which = "atomic" => Ptrs!OneOwner
\* ArrayQueue, SegQueue and the queue of bags: every call is atomic on a FIFO
\* queue.  Injector: tasks leave in the order of their pushes, each once.  Atomic:
\* a tagged word acts as a pointer with a set of tag bits, each call at once.
QueuesImplemented ==
    /\ Abstract!Init /\ [][which = "array" => Abstract!Next]_(Abstract!vars)
    /\ Seg!Abstract!Init /\ [][which = "seg" => Seg!Abstract!Next]_(Seg!Abstract!vars)
    /\ Bags!Abstract!Init /\ [][which = "bags" => Bags!Abstract!Next]_(Bags!Abstract!vars)
    /\ Inj!Abstract!Init /\ [][which = "injector" => Inj!Abstract!Next]_(Inj!Abstract!vars)
    /\ Ptrs!Abstract!Init /\ [][which = "atomic" => Ptrs!Abstract!Next]_(Ptrs!Abstract!vars)
\* ArrayQueue, SegQueue and injector: len, is_empty, is_full and Steal::Empty are
\* right about a moment of the call.
ObserversTrue ==
    /\ ObserversAgree /\ Seg!ObserversAgree
    /\ [][which = "injector" => \A t \in {w1, w2, w3} : Inj!ObserverStep(t)]_injVars
\* ArrayQueue and SegQueue: Drop destroys the values that are left, each once.
DropsTheRest == DropsWhatIsLeft /\ Seg!DropsWhatIsLeft
=============================================================================
