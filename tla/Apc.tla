--------------------------------- MODULE Apc ---------------------------------
(***************************************************************************)
(* Kernel APCs (src/nboxkrnl/ke/apc.cpp) and what they do to the threads   *)
(* they interrupt: the list of each thread, the APC_LEVEL software         *)
(* interrupt that delivers it, critical regions, a wait that an APC ends   *)
(* and KeWaitForSingleObject starts over (ke/wait.cpp), the check that a   *)
(* context switch makes for APCs (ke/thread.cpp), suspend and resume, and  *)
(* the end of a thread (ps/ps.cpp), which stops accepting APCs.            *)
(*                                                                         *)
(* There is one processor, and everything done at DISPATCH_LEVEL or above  *)
(* is one step.  A DPC may run between any two steps: inserting or         *)
(* removing an APC and setting an event need no running thread.  Which     *)
(* ready thread runs next is left open; Dispatcher says how it is chosen.  *)
(***************************************************************************)
EXTENDS Naturals, FiniteSets, SequencesExt

CONSTANTS
    Threads, NoThread,
    SpecialApcs,            \* KAPCs without a NormalRoutine
    NormalApcs,             \* kernel KAPCs with one
    ApcThread,              \* KAPC.Thread of each of these
    Events, NoEvent,        \* synchronization events
    MaxDisable,             \* bound: how deep critical regions nest
    MaximumSuspendCount,    \* MAXIMUM_SUSPEND_COUNT
    SuspendTargets          \* bound: the threads that others suspend

Apcs == SpecialApcs \union NormalApcs

ASSUME ApcAssumption ==
    /\ NoThread \notin Threads /\ NoEvent \notin Events
    /\ SpecialApcs \intersect NormalApcs = {}
    /\ ApcThread \in [Apcs -> Threads]
    /\ MaxDisable \in Nat \ {0} /\ MaximumSuspendCount \in Nat \ {0}
    /\ SuspendTargets \subseteq Threads

VARIABLES
    current,                \* PrcbData.CurrentThread
    apcRequested,           \* the APC_LEVEL bit of HalpPendingInt
    state,                  \* KTHREAD.State
    irql,                   \* where the thread runs: PASSIVE (0) or APC (1)
    waitIrql,               \* the level its last switch was made from
    stack,                  \* what it is doing, the innermost last (Frames)
    kernelApcPending, kernelApcInProgress,
    kernelApcDisable,       \* minus KTHREAD.KernelApcDisable
    apcQueueable,
    exiting,                \* how far PsTerminateSystemThread has got
    apcList,                \* ApcState.ApcListHead[KernelMode]
    inserted,               \* KAPC.Inserted
    signal, waiters,        \* the events
    suspendCount, suspendSignal, suspendInserted
                            \* SuspendCount, SuspendSemaphore, SuspendApc.Inserted

threadVars == <<state, irql, waitIrql, stack>>
apcVars == <<kernelApcPending, kernelApcInProgress, apcList, inserted>>
regionVars == <<kernelApcDisable, apcQueueable, exiting>>
eventVars == <<signal, waiters>>
suspendVars == <<suspendCount, suspendSignal, suspendInserted>>
vars == <<current, apcRequested, threadVars, apcVars, regionVars, eventVars, suspendVars>>

\* A frame is the thread's own code or a routine of an APC, and the event for
\* which that code is in the loop of KeWaitForSingleObject.
Frames == [kind : {"thread", "special", "kernel", "normal"}, wait : Events \union {NoEvent}]
Frame(kind) == [kind |-> kind, wait |-> NoEvent]

\* PsCreateSystemThreadEx: every thread is ready to run for the first time.
Init ==
    /\ current = NoThread
    /\ apcRequested = FALSE
    /\ state = [t \in Threads |-> "Ready"]
    /\ irql = [t \in Threads |-> 0]
    /\ waitIrql = [t \in Threads |-> 1]
    /\ stack = [t \in Threads |-> <<Frame("thread")>>]
    /\ kernelApcPending = [t \in Threads |-> FALSE]
    /\ kernelApcInProgress = [t \in Threads |-> FALSE]
    /\ kernelApcDisable = [t \in Threads |-> 0]
    /\ apcQueueable = [t \in Threads |-> TRUE]
    /\ exiting = [t \in Threads |-> "no"]
    /\ apcList = [t \in Threads |-> <<>>]
    /\ inserted = [a \in Apcs |-> FALSE]
    /\ signal = [e \in Events |-> FALSE]
    /\ waiters = [e \in Events |-> <<>>]
    /\ suspendCount = [t \in Threads |-> 0]
    /\ suspendSignal = [t \in Threads |-> 0]
    /\ suspendInserted = [t \in Threads |-> FALSE]

Top(t) == Last(stack[t])

\* An APC interrupt that is requested is taken before the next instruction
\* at PASSIVE_LEVEL.
Undisturbed(t) == current = t /\ ~(irql[t] = 0 /\ apcRequested)

\* The thread itself or a NormalRoutine runs, and is in no wait.
RunsCode(t) ==
    /\ Undisturbed(t)
    /\ Top(t).kind \in {"thread", "normal"} /\ Top(t).wait = NoEvent

-----------------------------------------------------------------------------
(* Delivery.                                                                *)

\* Mutant: one in progress does not hold off the next.
NestedMayRun(a, disable, inProgress) == a \in SpecialApcs \/ disable = 0

\* A normal APC waits for the one in progress and for the end of the region.
MayRun(a, disable, inProgress) == a \in SpecialApcs \/ (~inProgress /\ disable = 0)

\* The loop of KiExecuteApcQueue at SYNCH_LEVEL, for a thread whose other
\* frames are "below": the first APC starts, at APC_LEVEL, or the loop is over
\* and the thread goes on at PASSIVE_LEVEL.
KiExecuteApcQueue(t, below, inProgress) ==
    LET list == apcList[t]
        over == list = <<>> \/ ~MayRun(Head(list), kernelApcDisable[t], inProgress)
    IN /\ kernelApcInProgress' = [kernelApcInProgress EXCEPT ![t] = inProgress]
       /\ IF over
          THEN /\ stack' = [stack EXCEPT ![t] = below]
               /\ irql' = [irql EXCEPT ![t] = 0]
               /\ UNCHANGED <<apcList, inserted>>
          ELSE /\ stack' = [stack EXCEPT ![t] = Append(below,
                      Frame(IF Head(list) \in SpecialApcs THEN "special" ELSE "kernel"))]
               /\ irql' = [irql EXCEPT ![t] = 1]
               /\ apcList' = [apcList EXCEPT ![t] = Tail(@)]
               /\ inserted' = [inserted EXCEPT ![Head(list)] = FALSE]

\* HalpSwIntApc: the interrupt is taken, by whichever thread runs.
HalpSwIntApc(t) ==
    /\ current = t /\ irql[t] = 0 /\ apcRequested
    /\ apcRequested' = FALSE
    /\ kernelApcPending' = [kernelApcPending EXCEPT ![t] = FALSE]
    /\ KiExecuteApcQueue(t, stack[t], kernelApcInProgress[t])
    /\ UNCHANGED <<current, state, waitIrql, regionVars, eventVars, suspendVars>>

SpecialRoutineReturns(t) ==
    /\ Undisturbed(t) /\ Top(t).kind = "special"
    /\ KiExecuteApcQueue(t, Front(stack[t]), kernelApcInProgress[t])
    /\ UNCHANGED <<current, apcRequested, state, waitIrql, kernelApcPending,
                   regionVars, eventVars, suspendVars>>

\* The KernelRoutine of a normal APC may take the NormalRoutine away.
KernelRoutineReturns(t) ==
    /\ Undisturbed(t) /\ Top(t).kind = "kernel"
    /\ \/ KiExecuteApcQueue(t, Front(stack[t]), FALSE)
       \/ /\ stack' = [stack EXCEPT ![t] = Append(Front(@), Frame("normal"))]
          /\ irql' = [irql EXCEPT ![t] = 0]
          /\ kernelApcInProgress' = [kernelApcInProgress EXCEPT ![t] = TRUE]
          /\ UNCHANGED <<apcList, inserted>>
    /\ UNCHANGED <<current, apcRequested, state, waitIrql, kernelApcPending,
                   regionVars, eventVars, suspendVars>>

\* A NormalRoutine leaves the critical regions it entered before it returns.
NormalRoutineReturns(t) ==
    /\ RunsCode(t) /\ Top(t).kind = "normal"
    /\ irql[t] = 0 /\ kernelApcDisable[t] = 0 /\ exiting[t] = "no"
    /\ KiExecuteApcQueue(t, Front(stack[t]), FALSE)
    /\ UNCHANGED <<current, apcRequested, state, waitIrql, kernelApcPending,
                   regionVars, eventVars, suspendVars>>

-----------------------------------------------------------------------------
(* Queueing.                                                                *)

\* Mutant: a special APC goes to the tail like any other.
TailApcQueuedIn(list, a) == Append(list, a)

\* A normal APC goes to the tail, a special one in front of the normal ones.
ApcQueuedIn(list, a) ==
    IF a \in NormalApcs THEN Append(list, a)
    ELSE InsertAt(list,
                  1 + Cardinality({i \in DOMAIN list : list[i] \in SpecialApcs}), a)

\* Mutant: a normal APC ends a wait in a critical region.
EagerEndsWait(t, a) == state[t] = "Waiting" /\ waitIrql[t] = 0

EndsWait(t, a) ==
    state[t] = "Waiting" /\ waitIrql[t] = 0
    /\ MayRun(a, kernelApcDisable[t], kernelApcInProgress[t])

\* RemoveEntryList: the entry is unlinked, wherever in its list it is.
Unlinked(list, x) ==
    IF x \in ToSet(list)
    THEN RemoveAt(list, CHOOSE k \in DOMAIN list : list[k] = x)
    ELSE list

\* Mutant: the wait block stays on the object's list.
ForgetfulUnwaitForApc(t) == state' = [state EXCEPT ![t] = "Ready"] /\ UNCHANGED waiters

\* KiUnwaitThread(Thread, STATUS_KERNEL_APC): off the object's list.  The frame
\* keeps the event, for which KeWaitForSingleObject starts over.
UnwaitForApc(t) ==
    /\ state' = [state EXCEPT ![t] = "Ready"]
    /\ waiters' = [e \in Events |-> Unlinked(waiters[e], t)]

Accepts(t, a) == apcQueueable[t] /\ ~inserted[a]

\* KeInsertQueueApc and KiInsertQueueApc, by a thread or a DPC.  The call that
\* finds the APC queued, or the thread past taking any, changes nothing.
KeInsertQueueApc(a) ==
    LET t == ApcThread[a] IN
    /\ Accepts(t, a)
    /\ apcList' = [apcList EXCEPT ![t] = ApcQueuedIn(@, a)]
    /\ inserted' = [inserted EXCEPT ![a] = TRUE]
    /\ kernelApcPending' = [kernelApcPending EXCEPT ![t] = TRUE]
    /\ apcRequested' = (apcRequested \/ state[t] = "Running")
    /\ IF EndsWait(t, a) THEN UnwaitForApc(t) ELSE UNCHANGED <<state, waiters>>
    /\ UNCHANGED <<current, irql, waitIrql, stack, kernelApcInProgress,
                   regionVars, signal, suspendVars>>

\* KeRemoveQueueApc.
KeRemoveQueueApc(a) ==
    LET t == ApcThread[a] IN
    /\ inserted[a]
    /\ inserted' = [inserted EXCEPT ![a] = FALSE]
    /\ apcList' = [apcList EXCEPT ![t] = Unlinked(@, a)]
    /\ kernelApcPending' = [kernelApcPending EXCEPT ![t] = @ /\ apcList'[t] # <<>>]
    /\ UNCHANGED <<current, apcRequested, threadVars, kernelApcInProgress,
                   regionVars, eventVars, suspendVars>>

-----------------------------------------------------------------------------
(* Critical regions and levels.                                             *)

\* Mutant: the APCs that were held off are not asked for.
QuietReleaseApcs(t, disable) == UNCHANGED <<kernelApcPending, apcRequested>>

\* The tail of KeLeaveCriticalRegion: APCs were held off, and the last region
\* is left.
ReleaseApcs(t, disable) ==
    LET due == disable = 0 /\ apcList[t] # <<>>
    IN /\ kernelApcPending' = [kernelApcPending EXCEPT ![t] = @ \/ due]
       /\ apcRequested' = (apcRequested \/ due)

KeEnterCriticalRegion(t) ==
    /\ RunsCode(t) /\ exiting[t] = "no" /\ kernelApcDisable[t] < MaxDisable
    /\ kernelApcDisable' = [kernelApcDisable EXCEPT ![t] = @ + 1]
    /\ UNCHANGED <<current, apcRequested, threadVars, apcVars, apcQueueable, exiting,
                   eventVars, suspendVars>>

KeLeaveCriticalRegion(t) ==
    /\ RunsCode(t) /\ exiting[t] = "no" /\ kernelApcDisable[t] > 0
    /\ kernelApcDisable' = [kernelApcDisable EXCEPT ![t] = @ - 1]
    /\ ReleaseApcs(t, kernelApcDisable'[t])
    /\ UNCHANGED <<current, threadVars, kernelApcInProgress, apcList, inserted,
                   apcQueueable, exiting, eventVars, suspendVars>>

\* KfRaiseIrql(APC_LEVEL) and KfLowerIrql(PASSIVE_LEVEL) by the thread's code.
RaiseToApcLevel(t) ==
    /\ RunsCode(t) /\ exiting[t] = "no" /\ irql[t] = 0
    /\ irql' = [irql EXCEPT ![t] = 1]
    /\ UNCHANGED <<current, apcRequested, state, waitIrql, stack, apcVars, regionVars,
                   eventVars, suspendVars>>

LowerToPassiveLevel(t) ==
    /\ RunsCode(t) /\ exiting[t] = "no" /\ irql[t] = 1
    /\ irql' = [irql EXCEPT ![t] = 0]
    /\ UNCHANGED <<current, apcRequested, state, waitIrql, stack, apcVars, regionVars,
                   eventVars, suspendVars>>

-----------------------------------------------------------------------------
(* Waiting and switching.                                                   *)

\* One turn of the loop of KeWaitForSingleObject, the first or one that an APC
\* made necessary: take the event, or queue up and give the processor away.
KeWaitForSingleObject(t, e) ==
    /\ Undisturbed(t) /\ Top(t).kind \in {"thread", "normal"}
    /\ Top(t).wait = e \/ (Top(t).wait = NoEvent /\ exiting[t] = "no")
    /\ IF signal[e]
       THEN /\ signal' = [signal EXCEPT ![e] = FALSE]
            /\ stack' = [stack EXCEPT ![t][Len(stack[t])].wait = NoEvent]
            /\ UNCHANGED <<current, state, waitIrql, waiters>>
       ELSE /\ waiters' = [waiters EXCEPT ![e] = Append(@, t)]
            /\ stack' = [stack EXCEPT ![t][Len(stack[t])].wait = e]
            /\ state' = [state EXCEPT ![t] = "Waiting"]
            /\ waitIrql' = [waitIrql EXCEPT ![t] = irql[t]]
            /\ current' = NoThread
            /\ UNCHANGED signal
    /\ UNCHANGED <<apcRequested, irql, apcVars, regionVars, suspendVars>>

\* KiSwapThreadContext: a ready thread runs.  APCs that are pending for it are
\* delivered at once if it was switched from PASSIVE_LEVEL (KiSwapThread,
\* KiUnlockDispatcherDatabase), otherwise the processor is asked to.
SwitchTo(t) ==
    /\ current = NoThread /\ state[t] = "Ready"
    /\ current' = t
    /\ state' = [state EXCEPT ![t] = "Running"]
    /\ \/ /\ kernelApcPending[t] /\ waitIrql[t] = 0
          /\ kernelApcPending' = [kernelApcPending EXCEPT ![t] = FALSE]
          /\ KiExecuteApcQueue(t, stack[t], kernelApcInProgress[t])
          /\ UNCHANGED apcRequested
       \/ /\ ~(kernelApcPending[t] /\ waitIrql[t] = 0)
          /\ apcRequested' = (apcRequested \/ kernelApcPending[t])
          /\ UNCHANGED <<irql, stack, apcVars>>
    /\ UNCHANGED <<waitIrql, regionVars, eventVars, suspendVars>>

\* The running thread is preempted, by HalpSwIntDpc, which says APC_LEVEL
\* whatever the level was, or in KiUnlockDispatcherDatabase.
Preempt(t) ==
    /\ current = t
    /\ current' = NoThread
    /\ state' = [state EXCEPT ![t] = "Ready"]
    /\ \E level \in {1, irql[t]} : waitIrql' = [waitIrql EXCEPT ![t] = level]
    /\ UNCHANGED <<apcRequested, irql, stack, apcVars, regionVars, eventVars, suspendVars>>

\* KeSetEvent, by a thread or a DPC: the first waiter has it.  That is for an
\* event behind which memory reads as WaitAll where KeSetEvent takes it for a
\* WaitType; with any other the machine goes down, as Dispatcher shows.
KeSetEvent(e) ==
    /\ IF waiters[e] = <<>>
       THEN signal' = [signal EXCEPT ![e] = TRUE] /\ UNCHANGED <<waiters, state, stack>>
       ELSE LET t == Head(waiters[e]) IN
            /\ waiters' = [waiters EXCEPT ![e] = Tail(@)]
            /\ state' = [state EXCEPT ![t] = "Ready"]
            /\ stack' = [stack EXCEPT ![t][Len(stack[t])].wait = NoEvent]
            /\ UNCHANGED signal
    /\ UNCHANGED <<current, apcRequested, irql, waitIrql, apcVars, regionVars, suspendVars>>

-----------------------------------------------------------------------------
(* PsTerminateSystemThread, for APCs: the thread stops accepting them in a  *)
(* critical region, and leaving it asks for those that are left.            *)

HasTerminated(t) ==
    /\ RunsCode(t) /\ exiting[t] = "no"
    /\ exiting' = [exiting EXCEPT ![t] = "marked"]
    /\ irql' = [irql EXCEPT ![t] = 0]
    /\ UNCHANGED <<current, apcRequested, state, waitIrql, stack, apcVars,
                   kernelApcDisable, apcQueueable, eventVars, suspendVars>>

StopQueueing(t) ==
    /\ RunsCode(t) /\ exiting[t] = "marked"
    /\ exiting' = [exiting EXCEPT ![t] = "closed"]
    /\ kernelApcDisable' = [kernelApcDisable EXCEPT ![t] = @ + 1]
    /\ apcQueueable' = [apcQueueable EXCEPT ![t] = FALSE]
    /\ UNCHANGED <<current, apcRequested, threadVars, apcVars, eventVars, suspendVars>>

LeaveForGood(t) ==
    /\ RunsCode(t) /\ exiting[t] = "closed"
    /\ exiting' = [exiting EXCEPT ![t] = "left"]
    /\ kernelApcDisable' = [kernelApcDisable EXCEPT ![t] = @ - 1]
    /\ ReleaseApcs(t, kernelApcDisable'[t])
    /\ UNCHANGED <<current, threadVars, kernelApcInProgress, apcList, inserted,
                   apcQueueable, eventVars, suspendVars>>

Terminated(t) ==
    /\ RunsCode(t) /\ exiting[t] = "left"
    /\ state' = [state EXCEPT ![t] = "Terminated"]
    /\ current' = NoThread
    /\ UNCHANGED <<apcRequested, irql, waitIrql, stack, apcVars, regionVars, eventVars,
                   suspendVars>>

-----------------------------------------------------------------------------
(* Suspend and resume, by any thread.                                       *)

MaySuspend(t) == suspendCount[t] < MaximumSuspendCount /\ apcQueueable[t]

TakenBack(t) == IF suspendCount[t] = 0 /\ suspendInserted[t] THEN 1 ELSE 0

\* KeSuspendThread.  The first suspension marks SuspendApc as inserted and then
\* inserts it, which KiInsertQueueApc does not do to an APC that is marked; each
\* later one finds the mark and takes the semaphore's count back.
KeSuspendThread(t) ==
    /\ MaySuspend(t)
    /\ suspendCount' = [suspendCount EXCEPT ![t] = @ + 1]
    /\ suspendInserted' = [suspendInserted EXCEPT ![t] = @ \/ suspendCount[t] = 0]
    /\ suspendSignal' = [suspendSignal EXCEPT ![t] = @ - TakenBack(t)]
    /\ UNCHANGED <<current, apcRequested, threadVars, apcVars, regionVars, eventVars>>

\* KeResumeThread, and the end of KeAlertResumeThread.
KeResumeThread(t) ==
    /\ suspendCount[t] > 0
    /\ suspendCount' = [suspendCount EXCEPT ![t] = @ - 1]
    /\ suspendSignal' = [suspendSignal EXCEPT ![t] = @ + (IF suspendCount[t] = 1 THEN 1 ELSE 0)]
    /\ UNCHANGED <<current, apcRequested, threadVars, apcVars, regionVars, eventVars,
                   suspendInserted>>

-----------------------------------------------------------------------------
Routine(t) ==
    \/ HalpSwIntApc(t)
    \/ SpecialRoutineReturns(t) \/ KernelRoutineReturns(t) \/ NormalRoutineReturns(t)

Code(t) ==
    \/ KeEnterCriticalRegion(t) \/ KeLeaveCriticalRegion(t)
    \/ RaiseToApcLevel(t) \/ LowerToPassiveLevel(t)
    \/ \E e \in Events : KeWaitForSingleObject(t, e)
    \/ HasTerminated(t) \/ StopQueueing(t) \/ LeaveForGood(t) \/ Terminated(t)

Others ==
    \/ \E a \in Apcs : KeInsertQueueApc(a) \/ KeRemoveQueueApc(a)
    \/ \E e \in Events : KeSetEvent(e)
    \/ \E t \in SuspendTargets : KeSuspendThread(t) \/ KeResumeThread(t)

Next ==
    \/ \E t \in Threads : Routine(t) \/ Code(t) \/ SwitchTo(t) \/ Preempt(t)
    \/ Others

Spec == Init /\ [][Next]_vars

-----------------------------------------------------------------------------
(* Properties.                                                              *)

\* Every variable keeps its type.
TypeOK ==
    /\ current \in Threads \union {NoThread}
    /\ apcRequested \in BOOLEAN
    /\ state \in [Threads -> {"Ready", "Running", "Waiting", "Terminated"}]
    /\ irql \in [Threads -> 0..1] /\ waitIrql \in [Threads -> 0..1]
    /\ stack \in [Threads -> Seq(Frames)] /\ \A t \in Threads : stack[t] # <<>>
    /\ kernelApcPending \in [Threads -> BOOLEAN]
    /\ kernelApcInProgress \in [Threads -> BOOLEAN]
    /\ kernelApcDisable \in [Threads -> 0..(MaxDisable + 1)]
    /\ apcQueueable \in [Threads -> BOOLEAN]
    /\ exiting \in [Threads -> {"no", "marked", "closed", "left"}]
    /\ apcList \in [Threads -> Seq(Apcs)] /\ inserted \in [Apcs -> BOOLEAN]
    /\ signal \in [Events -> BOOLEAN] /\ waiters \in [Events -> Seq(Threads)]
    /\ suspendCount \in [Threads -> 0..MaximumSuspendCount]
    /\ suspendSignal \in [Threads -> Nat] /\ suspendInserted \in [Threads -> BOOLEAN]

\* An APC of the list that the thread could run now.
Due(t) == \E a \in ToSet(apcList[t]) :
              MayRun(a, kernelApcDisable[t], kernelApcInProgress[t])

\* The loop that took an APC off the list looks at the list again.
InLoop(t) == Top(t).kind \in {"special", "kernel"}

\* No APC that its thread could run is left behind: the thread knows of it, if
\* it runs the processor has been asked to deliver it, and it is not waiting.
\* (KiInsertQueueApc, KeLeaveCriticalRegion, KiSwapThreadContext and the loop
\* of KiExecuteApcQueue each look at a different one of these.)
NoApcStranded ==
    \A t \in Threads : Due(t) =>
        /\ kernelApcPending[t] \/ InLoop(t)
        /\ current = t => apcRequested \/ InLoop(t)
        /\ ~(state[t] = "Waiting" /\ waitIrql[t] = 0)

\* At most one NormalRoutine of a thread has begun and not returned, and
\* KernelApcInProgress says whether one has, however APCs interrupt each other.
OneNormalAtATime ==
    \A t \in Threads :
        Cardinality({i \in DOMAIN stack[t] : stack[t][i].kind = "normal"})
            = IF kernelApcInProgress[t] THEN 1 ELSE 0

\* The Inserted flag and the list of the thread agree, so that the same KAPC is
\* never linked twice and can be queued again once it has been delivered.
InsertedAgrees ==
    \A t \in Threads :
        /\ IsInjective(apcList[t])
        /\ ToSet(apcList[t]) = {a \in Apcs : inserted[a] /\ ApcThread[a] = t}

\* A wait ends because the event was handed over, or for an APC that the thread
\* can run: never for one that the critical region it waits in holds off.
WaitEndsForAReason ==
    [][\A t \in Threads : state[t] = "Waiting" /\ state'[t] # "Waiting"
           => Top(t)'.wait = NoEvent \/ Due(t)']_vars

\* A thread is in the list of the event it waits for and in no other, and an
\* event that is signalled has no waiters: an APC that ends a wait takes the
\* thread out of the list, and the wait started over does not miss a signal.
WaitersAgree ==
    \A e \in Events :
        /\ signal[e] => waiters[e] = <<>>
        /\ IsInjective(waiters[e])
        /\ ToSet(waiters[e]) = {t \in Threads : state[t] = "Waiting" /\ Top(t).wait = e}

\* A thread that ends in its own code and outside every critical region leaves
\* no APC behind (PsTerminateSystemThread does not flush the list: it relies on
\* closing the list in a region and on the delivery when the region is left).
NoApcOutlivesThread ==
    \A t \in Threads :
        state[t] = "Terminated" /\ ~kernelApcInProgress[t] /\ kernelApcDisable[t] = 0
            => apcList[t] = <<>>

\* The suspend semaphore has a count exactly when the thread has been suspended
\* and is not any more, in whatever order the calls come: it neither piles up
\* past its limit of 2 nor goes below zero.
SemaphoreAgrees ==
    \A t \in Threads :
        suspendSignal[t] = IF suspendInserted[t] /\ suspendCount[t] = 0 THEN 1 ELSE 0

\* The lists, flags and counts that say the same thing twice agree: of APCs, of
\* waiters and of the suspend semaphore.
QueuesAgree == TypeOK /\ InsertedAgrees /\ WaitersAgree /\ SemaphoreAgrees

\* A thread that has been suspended and not resumed runs none of its code at
\* PASSIVE_LEVEL outside critical regions (ke/thread.cpp:22-30 and 576-584:
\* "Check if we should suspend it ... Not inserted, insert it").
SuspendedThreadStops ==
    \A t \in Threads :
        suspendCount[t] > 0 /\ RunsCode(t) => irql[t] = 1 \/ kernelApcDisable[t] > 0
=============================================================================
