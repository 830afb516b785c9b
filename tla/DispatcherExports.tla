-------------------------- MODULE DispatcherExports --------------------------
(***************************************************************************)
(* The exported routines that work on the dispatcher database without      *)
(* being part of its core: changing priorities, yielding, pulsing an event *)
(* and waking one waiter with a boost.  Several of them came from another  *)
(* kernel and release the database by lowering the IRQL alone, where the   *)
(* core's KiUnlockDispatcherDatabase would switch threads.                 *)
(***************************************************************************)
EXTENDS DispatcherRefinement

CONSTANTS
    Exports,          \* which of these routines the code under execution calls
    ProcessBase,      \* KPROCESS.BasePriority
    NewPriorities,    \* what callers pass to KeSetPriorityThread
    BaseIncrements    \* what callers pass to KeSetBasePriorityThread

ExportNames == {"KePulseEvent", "KeSetEventBoostPriority", "KeSetPriorityThread",
                "KeBoostPriorityThread", "KeSetBasePriorityThread",
                "NtYieldExecution"}

ASSUME ExportsAssumption ==
    /\ Exports \subseteq ExportNames
    /\ ProcessBase \in Priorities
    /\ NewPriorities \subseteq Priorities
    /\ BaseIncrements \subseteq Int

\* SYNC_LEVEL is CLOCK_LEVEL: no interrupt the model has comes in at this level.
SYNC_LEVEL == 28

VARIABLE pulsed   \* the event KePulseEvent is releasing the waiters of

exportVars == <<vars, pulsed>>

ExportsInit == Init /\ pulsed = NoObject

\* The boost routines are called by threads and deferred procedures alike.
Called(name) == name \in Exports /\ MayCall(FALSE) /\ UNCHANGED pulsed

LowerOf(a, b) == IF a < b THEN a ELSE b
HigherOf(a, b) == IF a > b THEN a ELSE b

-----------------------------------------------------------------------------
(* Changing a priority.                                                     *)

\* KiScheduleThread on ready lists that are being edited.
ScheduleInto(lists, mask, t, p) ==
    \/ /\ next # NoThread /\ p > priority[next]
       /\ ready' = [lists EXCEPT ![priority[next]] = <<next>> \o @]
       /\ readyMask' = mask \union {priority[next]}
       /\ state' = [state EXCEPT ![next] = "Ready", ![t] = "Standby"]
       /\ next' = t
    \/ /\ next = NoThread /\ p > CurrentPriority
       /\ ready' = lists /\ readyMask' = mask
       /\ state' = [state EXCEPT ![t] = "Standby"]
       /\ next' = t
    \/ /\ p <= IF next # NoThread THEN priority[next] ELSE CurrentPriority
       /\ ready' = [lists EXCEPT ![p] = Append(@, t)]
       /\ readyMask' = mask \union {p}
       /\ state' = [state EXCEPT ![t] = "Ready"]
       /\ UNCHANGED next

\* What RemoveEntryList leaves of a list.
Unlinked(list, t) ==
    LET k == CHOOSE i \in 1..Len(list) : list[i] = t
    IN  SubSeq(list, 1, k - 1) \o SubSeq(list, k + 1, Len(list))

\* A Ready thread is taken off its list: down means the tail of the lower
\* list, up means a chance to preempt.
MoveReady(t, p) ==
    LET old == priority[t]
        lists == [ready EXCEPT ![old] = Unlinked(@, t)]
        mask == IF lists[old] = <<>> THEN readyMask \ {old} ELSE readyMask
    IN IF p < old
       THEN /\ ready' = [lists EXCEPT ![p] = Append(@, t)]
            /\ readyMask' = mask \union {p}
            /\ UNCHANGED <<state, next>>
       ELSE ScheduleInto(lists, mask, t, p)

\* Mutant: the lowered Standby thread is replaced and not queued.
LowerStandbyDrops(t, p) ==
    IF SomeReady(p)
    THEN /\ next' = HighestPriorityThread
         /\ state' = [state EXCEPT ![next'] = "Standby", ![t] = "Ready"]
         /\ RemoveHighestPriorityThread
    ELSE UNCHANGED <<state, next, readyVars>>

\* A Standby thread that is lowered makes room for a thread at least as good.
LowerStandby(t, p) ==
    LET best == HighestPriorityThread
        lists == [ready EXCEPT ![HighestReady] = Tail(@)]
        mask == IF lists[HighestReady] = <<>> THEN readyMask \ {HighestReady}
                                              ELSE readyMask
    IN IF SomeReady(p)
       THEN /\ next' = best
            /\ state' = [state EXCEPT ![best] = "Standby", ![t] = "Ready"]
            /\ ready' = [lists EXCEPT ![p] = Append(@, t)]
            /\ readyMask' = mask \union {p}
       ELSE UNCHANGED <<state, next, readyVars>>

\* A Running thread that is lowered may be preempted, if nobody is selected.
KiSetPriorityThread(t, p) ==
    /\ priority' = [priority EXCEPT ![t] = p]
    /\ \/ p # priority[t] /\ state[t] = "Ready" /\ MoveReady(t, p)
       \/ p < priority[t] /\ state[t] = "Standby" /\ LowerStandby(t, p)
       \/ p < priority[t] /\ state[t] = "Running" /\ SelectStandby(p)
       \/ /\ \/ p = priority[t]
             \/ p > priority[t] /\ state[t] \in {"Standby", "Running"}
             \/ state[t] \in {"Initialized", "Waiting"}
          /\ UNCHANGED <<state, next, readyVars>>

SetPriorityAndQuantum(t, p) ==
    /\ quantum' = [quantum EXCEPT ![t] = ThreadQuantum]
    /\ KiSetPriorityThread(t, p)

\* KeSetPriorityThread leaves the switch to KiUnlockDispatcherDatabase.
KeSetPriorityThread(t, p) ==
    /\ Called("KeSetPriorityThread")
    /\ SetPriorityAndQuantum(t, p)
    /\ Call("release", NoObject, 0, FALSE)
    /\ UNCHANGED <<basePriority, waitNext, waitStatus, current, objectVars,
                   waitVars, dpcVars, intVars, crashed>>

\* KeBoostPriorityThread releases the database with KfLowerIrql.
KeBoostPriorityThread(t, inc) ==
    LET boosted == LowerOf(basePriority[t] + inc, LowRealtimePriority - 1) IN
    /\ Called("KeBoostPriorityThread")
    /\ IF priority[t] < LowRealtimePriority /\ basePriority[t] + inc > priority[t]
       THEN SetPriorityAndQuantum(t, boosted)
       ELSE UNCHANGED <<priority, quantum, state, next, readyVars>>
    /\ UNCHANGED <<basePriority, waitNext, waitStatus, current, objectVars,
                   waitVars, dpcVars, intVars, cpuVars, crashed>>

\* KiComputeNewPriority, PriorityDecrement being zero in every thread.
KiComputeNewPriority(t, adjustment) ==
    IF priority[t] < LowRealtimePriority
    THEN HigherOf(priority[t] - adjustment, basePriority[t]) ELSE priority[t]

\* The base priority an increment gives, kept in the class of the process.
NewBasePriority(inc) ==
    IF ProcessBase >= LowRealtimePriority
    THEN LowerOf(HigherOf(ProcessBase + inc, LowRealtimePriority), HighPriority)
    ELSE HigherOf(LowerOf(ProcessBase + inc, LowRealtimePriority - 1), 1)

\* The priority that goes with it: a dynamic thread keeps its distance from
\* the base, unless the increment saturates.
NewPriority(t, inc) ==
    LET saturates == inc >= (HighPriority + 1) \div 2 \/ -inc >= (HighPriority + 1) \div 2
        moved == KiComputeNewPriority(t, 0) + NewBasePriority(inc) - basePriority[t]
    IN IF ProcessBase >= LowRealtimePriority \/ saturates THEN NewBasePriority(inc)
       ELSE HigherOf(LowerOf(moved, LowRealtimePriority - 1), 1)

\* KeSetBasePriorityThread releases the database with KfLowerIrql, too.
KeSetBasePriorityThread(t, inc) ==
    /\ Called("KeSetBasePriorityThread")
    /\ basePriority' = [basePriority EXCEPT ![t] = NewBasePriority(inc)]
    /\ IF NewPriority(t, inc) # priority[t]
       THEN SetPriorityAndQuantum(t, NewPriority(t, inc))
       ELSE UNCHANGED <<priority, quantum, state, next, readyVars>>
    /\ UNCHANGED <<waitNext, waitStatus, current, objectVars, waitVars, dpcVars,
                   intVars, cpuVars, crashed>>

-----------------------------------------------------------------------------
(* Yielding.                                                                *)

\* NtYieldExecution raises to SYNC_LEVEL.  Its test of the ready mask before
\* that only saves time: it is made again.
NtYieldExecution ==
    /\ Called("NtYieldExecution")
    /\ ThreadCalls /\ irql = PASSIVE_LEVEL
    /\ irql' = SYNC_LEVEL
    /\ pc' = "yield"
    /\ UNCHANGED <<threadVars, readyVars, prcbVars, objectVars, waitVars,
                   dpcVars, intVars, frame, crashed>>

\* The thread drops a level, starts a new quantum and goes to the tail of its
\* list, whatever the priority of the thread it makes way for.
YieldSwap ==
    LET p == KiComputeNewPriority(current, 1)
        lists == [ready EXCEPT ![HighestReady] = Tail(@)]
        mask == IF lists[HighestReady] = <<>> THEN readyMask \ {HighestReady}
                                              ELSE readyMask
    IN /\ pc = "yield" /\ ~crashed
       /\ IF readyMask = {}
          THEN UNCHANGED <<quantum, priority, state, prcbVars, readyVars>>
          ELSE /\ quantum' = [quantum EXCEPT ![current] = ThreadQuantum]
               /\ priority' = [priority EXCEPT ![current] = p]
               /\ current' = IF next # NoThread THEN next ELSE HighestPriorityThread
               /\ next' = NoThread
               /\ state' = [state EXCEPT ![current] = "Ready", ![current'] = "Running"]
               /\ IF next # NoThread
                  THEN AddToTail(p, current)
                  ELSE /\ ready' = [lists EXCEPT ![p] = Append(@, current)]
                       /\ readyMask' = mask \union {p}
       /\ irql' = PASSIVE_LEVEL
       /\ pc' = "run"
       /\ UNCHANGED <<basePriority, waitNext, waitStatus, objectVars, waitVars,
                      dpcVars, intVars, frame, crashed, pulsed>>

-----------------------------------------------------------------------------
(* Events.                                                                  *)

\* KePulseEvent: waiters are released only if the event was not signalled.
KePulseEvent(e, inc, wait) ==
    /\ "KePulseEvent" \in Exports
    /\ MayCall(wait)
    /\ pulsed' = e
    /\ IF signal[e] = 0 /\ waitList[e] # <<>>
       THEN /\ signal' = [signal EXCEPT ![e] = 1]
            /\ Call("waittest", e, inc, wait)
       ELSE /\ Call("release", NoObject, 0, wait)
            /\ UNCHANGED signal
    /\ UNCHANGED <<threadVars, readyVars, prcbVars, owner, abandoned,
                   mutantList, waitVars, dpcVars, intVars, crashed>>

\* Then the event is reset and the database released with KfLowerIrql, or
\* kept for the wait that follows.
PulseDone ==
    /\ pulsed # NoObject /\ pc = "release" /\ ~crashed
    /\ signal' = [signal EXCEPT ![pulsed] = 0]
    /\ IF frame.wait
       THEN waitNext' = [waitNext EXCEPT ![current] = TRUE] /\ UNCHANGED irql
       ELSE irql' = frame.old /\ UNCHANGED waitNext
    /\ pulsed' = NoObject
    /\ pc' = "run"
    /\ frame' = NoFrame
    /\ UNCHANGED <<state, priority, basePriority, quantum, waitStatus, owner,
                   abandoned, mutantList, readyVars, prcbVars, waitVars,
                   dpcVars, intVars, crashed>>

\* KeSetEventBoostPriority readies the first waiter without unlinking it from
\* the event or from KiWaitInListHead, whose links (the thread's WaitListEntry)
\* the ready list then overwrites.  The model stops there: what the lists
\* become depends on where their heads are in memory.
KeSetEventBoostPriority(e) ==
    /\ Called("KeSetEventBoostPriority")
    /\ IF waitList[e] = <<>>
       THEN /\ signal' = [signal EXCEPT ![e] = 1]
            /\ UNCHANGED <<priority, state, next, readyVars, crashed>>
       ELSE /\ priority' = IF current = Idle THEN priority
                           ELSE [priority EXCEPT ![current] =
                                     KiComputeNewPriority(current, 0)]
            /\ KiScheduleThread(Head(waitList[e]), priority[Head(waitList[e])])
            /\ crashed' = TRUE
            /\ UNCHANGED signal
    /\ UNCHANGED <<basePriority, quantum, waitNext, waitStatus, current, owner,
                   abandoned, mutantList, waitVars, dpcVars, intVars, cpuVars>>

-----------------------------------------------------------------------------
ExportCalls ==
    \/ \E t \in Threads, p \in NewPriorities : KeSetPriorityThread(t, p)
    \/ \E t \in Threads, inc \in Increments : KeBoostPriorityThread(t, inc)
    \/ \E t \in Threads, inc \in BaseIncrements : KeSetBasePriorityThread(t, inc)
    \/ NtYieldExecution
    \/ \E e \in Events, inc \in Increments, wait \in BOOLEAN :
           KePulseEvent(e, inc, wait)
    \/ \E e \in SynchronizationEvents : KeSetEventBoostPriority(e)

\* The dispatcher's own steps; KePulseEvent has an ending of its own.
CoreStep ==
    /\ pc # "yield"
    /\ Next
    /\ pc = "release" /\ pulsed # NoObject => pc' = "release"
    /\ UNCHANGED pulsed

ExportsNext == CoreStep \/ ExportCalls \/ YieldSwap \/ PulseDone

ExportsSpec == ExportsInit /\ [][ExportsNext]_exportVars

-----------------------------------------------------------------------------
\* What the new routines add to the types of Dispatcher.
ExportsTypeOK ==
    /\ priority \in [Threads -> Priorities]
    /\ basePriority \in [Threads -> Priorities]
    /\ quantum \in [Threads -> 0..ThreadQuantum]
    /\ irql \in {PASSIVE_LEVEL, DISPATCH_LEVEL, SYNC_LEVEL}
    /\ pc \in PcValues \union {"yield"}
    /\ pulsed \in Events \union {NoObject}

\* To everyone else a pulsed event never becomes signalled.
SignalPulsed == [o \in Objects |-> IF o = pulsed THEN 0 ELSE SignalSeen[o]]

PulseSeen == INSTANCE SyncObjects WITH
    signal <- SignalPulsed,
    waiters <- WaitersSeen, owner <- OwnerSeen, abandoned <- AbandonedSeen

\* With KePulseEvent the objects still behave as the atomic ones: a pulse
\* releases who waits at that moment and is never caught by a later waiter.
PulseIsAtomic == PulseSeen!Spec

\* The exported routines that move threads between priorities leave PRCB, ready
\* lists and mask in agreement, whatever they interrupt.
ExportsAgree == ExportsTypeOK /\ PrcbAgrees /\ ReadyListsAgree /\ ReadyMaskExact
=============================================================================
