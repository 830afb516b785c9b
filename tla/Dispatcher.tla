----------------------------- MODULE Dispatcher -----------------------------
(***************************************************************************)
(* The dispatcher database of the kernel (src/nboxkrnl/ke, ki): threads,   *)
(* their priorities and quanta, the ready lists, the Standby thread, the   *)
(* dispatcher objects (events, semaphores, mutants) with their wait lists, *)
(* and the three things that drive it: calls made by the running thread,   *)
(* deferred procedures, and the clock and device interrupts.               *)
(*                                                                         *)
(* There is one processor.  Everything a dispatcher routine does happens   *)
(* at DISPATCH_LEVEL, so only interrupt service routines can come between  *)
(* two of its steps.  A routine is one action where it does not loop;      *)
(* "pc" says which routine the processor is in the middle of, and "frame"  *)
(* holds that routine's locals.  A call therefore ends with the step that  *)
(* releases the database (KiUnlockDispatcherDatabase), which is never      *)
(* optional: while pc is not "run" nothing else but an interrupt can       *)
(* happen.                                                                 *)
(***************************************************************************)
EXTENDS Integers, Sequences, FiniteSets

CONSTANTS
    Threads,               \* the system threads (KiIdleThread is not one)
    Idle,                  \* KiIdleThread
    NoThread,              \* a null PKTHREAD
    NotificationEvents, SynchronizationEvents, Semaphores, Mutants,
    NoObject,              \* a null dispatcher object
    FirstThread,           \* the thread PsInitSystem creates
    InitialPriority,       \* the priority each thread starts with
    LowRealtimePriority,   \* LOW_REALTIME_PRIORITY
    HighPriority,          \* HIGH_PRIORITY
    TimeCriticalBasePriority, \* TIME_CRITICAL_BASE_PRIORITY
    ThreadQuantum,         \* KPROCESS.ThreadQuantum
    WaitQuantumDecrement,  \* WAIT_QUANTUM_DECREMENT
    ClockQuantumDecrement, \* CLOCK_QUANTUM_DECREMENT
    SemaphoreLimit,        \* KSEMAPHORE.Limit
    MutantLimit,           \* MUTANT_LIMIT, as the negative LONG it is compared as
    Increments,            \* priority boosts callers pass
    Adjustments,           \* counts callers release a semaphore by
    TailReads,             \* what KeSetEvent may read as WaitType, see KeSetEvent
    MaxDpcs                \* bound: deferred procedures queued at a time

Events == NotificationEvents \union SynchronizationEvents
Objects == Events \union Semaphores \union Mutants
Priorities == 1..HighPriority

PASSIVE_LEVEL == 0
DISPATCH_LEVEL == 2

ASSUME ThreadsAssumption ==
    /\ FirstThread \in Threads
    /\ Idle \notin Threads /\ NoThread \notin Threads /\ Idle # NoThread

ASSUME ObjectsAssumption ==
    /\ NoObject \notin Objects
    /\ NotificationEvents \intersect SynchronizationEvents = {}
    /\ Events \intersect Semaphores = {}
    /\ Events \intersect Mutants = {}
    /\ Semaphores \intersect Mutants = {}

ASSUME NumbersAssumption ==
    /\ LowRealtimePriority \in Nat /\ LowRealtimePriority > 1
    /\ HighPriority \in Nat /\ HighPriority >= LowRealtimePriority
    /\ TimeCriticalBasePriority \in Nat
    /\ ThreadQuantum \in Nat \ {0}
    /\ WaitQuantumDecrement \in Nat \ {0}
    /\ ClockQuantumDecrement \in Nat \ {0}
    /\ SemaphoreLimit \in Nat \ {0}
    /\ MutantLimit \in Int /\ MutantLimit < 0
    /\ Increments \subseteq Nat
    /\ Adjustments \subseteq Nat \ {0}
    /\ TailReads \subseteq {"WaitAll", "WaitAny"}
    /\ MaxDpcs \in Nat
    /\ InitialPriority \in [Threads -> Priorities]

VARIABLES
    state,           \* KTHREAD.State
    priority,        \* KTHREAD.Priority
    basePriority,    \* KTHREAD.BasePriority
    quantum,         \* KTHREAD.Quantum; values <= 0 are not told apart
    waitNext,        \* KTHREAD.WaitNext
    waitStatus,      \* KTHREAD.WaitStatus
    ready,           \* KiReadyThreadLists
    readyMask,       \* KiReadyThreadMask, as the set of its one bits
    waitIn,          \* KiWaitInListHead, as the set of its members
    current,         \* KPRCB.CurrentThread
    next,            \* KPRCB.NextThread
    signal,          \* DISPATCHER_HEADER.SignalState
    waitList,        \* DISPATCHER_HEADER.WaitListHead, as the waiting threads
    owner,           \* KMUTANT.OwnerThread
    abandoned,       \* KMUTANT.Abandoned
    mutantList,      \* KTHREAD.MutantListHead, as the set of linked mutants
    irql,            \* KPCR.Irql
    dispatchPending, \* the DISPATCH_LEVEL bit of HalpPendingInt
    quantumEnd,      \* KPRCB.QuantumEnd
    dpcQueue,        \* number of KDPCs linked in KPRCB.DpcListHead
    dpcActive,       \* KPRCB.DpcRoutineActive
    dpcRequested,    \* KPRCB.DpcInterruptRequested
    pc,              \* the routine the processor is in
    frame,           \* that routine's locals
    crashed          \* a wild pointer was followed: the machine is gone

threadVars == <<state, priority, basePriority, quantum, waitNext, waitStatus>>
readyVars == <<ready, readyMask>>
prcbVars == <<current, next>>
objectVars == <<signal, owner, abandoned, mutantList>>
waitVars == <<waitList, waitIn>>
dpcVars == <<dpcQueue, dpcActive, dpcRequested>>
intVars == <<dispatchPending, quantumEnd>>
cpuVars == <<irql, pc, frame>>

vars == <<threadVars, readyVars, prcbVars, objectVars, waitVars, dpcVars,
          intVars, cpuVars, crashed>>

NoFrame == [obj |-> NoObject, inc |-> 0, wait |-> FALSE, old |-> PASSIVE_LEVEL]

Frames == [obj : Objects \union {NoObject}, inc : Increments \union {0},
           wait : BOOLEAN, old : {PASSIVE_LEVEL, DISPATCH_LEVEL}]

PcValues == {"run", "waittest", "release", "adjust", "swap",
             "retire", "quantum", "switch", "idle"}

(***************************************************************************)
(* At the end of KiInitializeKernel the startup context has become the     *)
(* idle thread at DISPATCH_LEVEL, and KiScheduleThread has made the first  *)
(* system thread Standby, its priority being above the idle thread's.      *)
(***************************************************************************)
Init ==
    /\ state = [t \in Threads |-> IF t = FirstThread THEN "Standby"
                                                     ELSE "Initialized"]
    /\ priority = InitialPriority
    /\ basePriority = InitialPriority
    /\ quantum = [t \in Threads |-> ThreadQuantum]
    /\ waitNext = [t \in Threads |-> FALSE]
    /\ waitStatus = [t \in Threads |-> "SUCCESS"]
    /\ ready = [p \in Priorities |-> <<>>]
    /\ readyMask = {}
    /\ waitIn = {}
    /\ current = Idle
    /\ next = FirstThread
    /\ signal = [o \in Objects |-> IF o \in Mutants THEN 1 ELSE 0]
    /\ waitList = [o \in Objects |-> <<>>]
    /\ owner = [m \in Mutants |-> NoThread]
    /\ abandoned = [m \in Mutants |-> FALSE]
    /\ mutantList = [t \in Threads |-> {}]
    /\ irql = DISPATCH_LEVEL
    /\ dispatchPending = FALSE
    /\ quantumEnd = FALSE
    /\ dpcQueue = 0
    /\ dpcActive = FALSE
    /\ dpcRequested = FALSE
    /\ pc = "run"
    /\ frame = NoFrame
    /\ crashed = FALSE

-----------------------------------------------------------------------------
(* The ready lists.                                                         *)

\* The idle thread runs at LOW_PRIORITY.
CurrentPriority == IF current = Idle THEN 0 ELSE priority[current]

AddToTail(p, t) ==
    /\ ready' = [ready EXCEPT ![p] = Append(@, t)]
    /\ readyMask' = readyMask \union {p}

AddToHead(p, t) ==
    /\ ready' = [ready EXCEPT ![p] = <<t>> \o @]
    /\ readyMask' = readyMask \union {p}

\* Mutant: bit scan forward for bit scan reverse.
LowestReady == CHOOSE p \in readyMask : \A r \in readyMask : p <= r

HighestReady == CHOOSE p \in readyMask : \A r \in readyMask : r <= p

\* Someone is ready at LowPriority or above.
SomeReady(low) == \E p \in readyMask : p >= low

HighestPriorityThread == Head(ready[HighestReady])

\* Mutant: the mask bit is cleared whatever RemoveEntryList returns.
RemoveAndClearBit ==
    /\ ready' = [ready EXCEPT ![HighestReady] = Tail(@)]
    /\ readyMask' = readyMask \ {HighestReady}

\* RemoveEntryList says whether the list became empty; then its bit goes.
RemoveHighestPriorityThread ==
    /\ ready' = [ready EXCEPT ![HighestReady] = Tail(@)]
    /\ readyMask' = IF Len(ready[HighestReady]) = 1
                    THEN readyMask \ {HighestReady}
                    ELSE readyMask

\* Mutant: the Standby thread that is beaten is forgotten.
ScheduleForgetsBeaten(t, p) ==
    IF p > (IF next # NoThread THEN priority[next] ELSE CurrentPriority)
    THEN /\ next' = t
         /\ state' = [s \in Threads |-> IF s = t THEN "Standby"
                                        ELSE IF s = next THEN "Ready"
                                        ELSE state[s]]
         /\ UNCHANGED readyVars
    ELSE /\ AddToTail(p, t)
         /\ state' = [state EXCEPT ![t] = "Ready"]
         /\ UNCHANGED next

\* KiScheduleThread: "t" becomes Standby if it beats the thread that would
\* otherwise run next, and goes to the tail of its ready list if not.  A
\* Standby thread that is beaten returns to the head of its list.
KiScheduleThread(t, p) ==
    IF next # NoThread
    THEN IF p > priority[next]
         THEN /\ AddToHead(priority[next], next)
              /\ next' = t
              /\ state' = [state EXCEPT ![next] = "Ready", ![t] = "Standby"]
         ELSE /\ AddToTail(p, t)
              /\ state' = [state EXCEPT ![t] = "Ready"]
              /\ UNCHANGED next
    ELSE IF p > CurrentPriority
         THEN /\ next' = t
              /\ state' = [state EXCEPT ![t] = "Standby"]
              /\ UNCHANGED readyVars
         ELSE /\ AddToTail(p, t)
              /\ state' = [state EXCEPT ![t] = "Ready"]
              /\ UNCHANGED next

\* The tail shared by KiQuantumEnd and KiSetPriorityThread: if no thread is
\* selected, make the best one at "low" or above Standby.
SelectStandby(low) ==
    IF next = NoThread /\ SomeReady(low)
    THEN /\ next' = HighestPriorityThread
         /\ state' = [state EXCEPT ![HighestPriorityThread] = "Standby"]
         /\ RemoveHighestPriorityThread
    ELSE UNCHANGED <<next, state, readyVars>>

\* KiQuantumEnd, where "q" is the current thread's quantum on entry.  A
\* dynamic thread loses one level, down to its base; KiSetPriorityThread then
\* looks for a thread at the new priority, the other branch at the old one.
KiQuantumEnd(q) ==
    LET p == priority[current]
        np == IF p < LowRealtimePriority /\ p - 1 >= basePriority[current]
              THEN p - 1 ELSE p
    IN IF q <= 0
       THEN /\ quantum' = [quantum EXCEPT ![current] = ThreadQuantum]
            /\ priority' = [priority EXCEPT ![current] = np]
            /\ SelectStandby(np)
       ELSE /\ quantum' = [quantum EXCEPT ![current] = q]
            /\ UNCHANGED <<priority, next, state, readyVars>>

-----------------------------------------------------------------------------
(* Who may act.                                                             *)

\* A DISPATCH_LEVEL software interrupt is delivered as soon as the IRQL drops
\* below it (HalpCheckUnmaskedInt): no thread code runs in between.
SoftwareInterrupt == dispatchPending /\ irql < DISPATCH_LEVEL

ThreadRuns ==
    /\ pc = "run" /\ ~crashed
    /\ current # Idle /\ ~dpcActive
    /\ ~SoftwareInterrupt

\* A thread that holds the database after a call with Wait = TRUE may only wait.
ThreadCalls == ThreadRuns /\ ~waitNext[current]

DpcCalls == pc = "run" /\ ~crashed /\ dpcActive

\* Wait = TRUE is for threads below DISPATCH_LEVEL, which are about to block.
MayCall(wait) == \/ ThreadCalls /\ (wait => irql < DISPATCH_LEVEL)
                 \/ DpcCalls /\ ~wait

Call(routine, obj, inc, wait) ==
    /\ pc' = routine
    /\ irql' = DISPATCH_LEVEL
    /\ frame' = [obj |-> obj, inc |-> inc, wait |-> wait, old |-> irql]

-----------------------------------------------------------------------------
(* Signalling.                                                              *)

\* KeSetEvent.  With waiters on a synchronization event it takes the address
\* of the list head for that of the first wait block, so the WaitType it
\* tests is the halfword found behind the event.  If that reads as WaitAll
\* the routine goes through KiWaitTest as it does for a notification event;
\* otherwise it unwaits whatever the words behind the event point to.
KeSetEvent(e, inc, wait) ==
    /\ MayCall(wait)
    /\ \/ /\ waitList[e] = <<>>
          /\ signal' = [signal EXCEPT ![e] = 1]
          /\ Call("release", NoObject, 0, wait)
          /\ UNCHANGED crashed
       \/ /\ waitList[e] # <<>>
          /\ e \in SynchronizationEvents => "WaitAll" \in TailReads
          /\ IF signal[e] = 0
             THEN /\ signal' = [signal EXCEPT ![e] = 1]
                  /\ Call("waittest", e, inc, wait)
             ELSE /\ Call("release", NoObject, 0, wait)
                  /\ UNCHANGED signal
          /\ UNCHANGED crashed
       \/ /\ waitList[e] # <<>>
          /\ e \in SynchronizationEvents /\ "WaitAny" \in TailReads
          /\ crashed' = TRUE
          /\ UNCHANGED <<signal, cpuVars>>
    /\ UNCHANGED <<threadVars, readyVars, prcbVars, owner, abandoned,
                   mutantList, waitVars, dpcVars, intVars>>

\* KeResetEvent releases the database with KfLowerIrql, which cannot leave a
\* thread switch behind: it selects nobody.
KeResetEvent(e) ==
    /\ MayCall(FALSE)
    /\ signal' = [signal EXCEPT ![e] = 0]
    /\ UNCHANGED <<threadVars, readyVars, prcbVars, owner, abandoned,
                   mutantList, waitVars, dpcVars, intVars, cpuVars, crashed>>

\* KeReleaseSemaphore looks for waiters only if the count was zero.  Past the
\* limit it unlocks the database and raises STATUS_SEMAPHORE_LIMIT_EXCEEDED.
KeReleaseSemaphore(s, inc, adj, wait) ==
    LET new == signal[s] + adj IN
    /\ MayCall(wait)
    /\ IF new > SemaphoreLimit
       THEN /\ Call("release", NoObject, 0, FALSE)
            /\ UNCHANGED signal
       ELSE /\ signal' = [signal EXCEPT ![s] = new]
            /\ IF signal[s] = 0 /\ waitList[s] # <<>>
               THEN Call("waittest", s, inc, wait)
               ELSE Call("release", NoObject, 0, wait)
    /\ UNCHANGED <<threadVars, readyVars, prcbVars, owner, abandoned,
                   mutantList, waitVars, dpcVars, intVars, crashed>>

\* KeReleaseMutant.  Anyone may release with Abandoned set; otherwise only the
\* owner may, and STATUS_MUTANT_NOT_OWNED is raised after the database is
\* unlocked.  The mutant leaves its owner's list when it becomes free.
KeReleaseMutant(m, inc, abandon, wait) ==
    LET new == IF abandon THEN 1 ELSE signal[m] + 1 IN
    /\ ThreadCalls
    /\ wait => irql < DISPATCH_LEVEL
    /\ IF ~abandon /\ owner[m] # current
       THEN /\ Call("release", NoObject, 0, FALSE)
            /\ UNCHANGED objectVars
       ELSE /\ signal' = [signal EXCEPT ![m] = new]
            /\ abandoned' = [abandoned EXCEPT ![m] = @ \/ abandon]
            /\ IF new = 1
               THEN /\ owner' = [owner EXCEPT ![m] = NoThread]
                    /\ mutantList' = IF signal[m] <= 0
                                     THEN [t \in Threads |-> mutantList[t] \ {m}]
                                     ELSE mutantList
               ELSE UNCHANGED <<owner, mutantList>>
            /\ IF new = 1 /\ waitList[m] # <<>>
               THEN Call("waittest", m, inc, wait)
               ELSE Call("release", NoObject, 0, wait)
    /\ UNCHANGED <<threadVars, readyVars, prcbVars, waitVars, dpcVars, intVars,
                   crashed>>

\* KeScheduleThread: PsCreateSystemThreadEx starts a thread it has initialized.
KeScheduleThread(t) ==
    /\ MayCall(FALSE)
    /\ state[t] = "Initialized"
    /\ KiScheduleThread(t, priority[t])
    /\ Call("release", NoObject, 0, FALSE)
    /\ UNCHANGED <<priority, basePriority, quantum, waitNext, waitStatus,
                   current, objectVars, waitVars, dpcVars, intVars, crashed>>

-----------------------------------------------------------------------------
(* Releasing waiters: KiWaitTest, one iteration of its loop per step.       *)

\* KiWaitSatisfyMutant for thread "t": the mutant is taken once more, and the
\* first time it gets an owner, who is told if the last one abandoned it.
KiWaitSatisfyMutant(m, t) ==
    LET taken == signal[m] = 1 IN
    /\ signal' = [signal EXCEPT ![m] = @ - 1]
    /\ owner' = IF taken THEN [owner EXCEPT ![m] = t] ELSE owner
    /\ mutantList' = IF taken THEN [mutantList EXCEPT ![t] = @ \union {m}]
                              ELSE mutantList
    /\ abandoned' = IF taken THEN [abandoned EXCEPT ![m] = FALSE] ELSE abandoned

\* The WaitStatus a satisfied wait on "o" leaves, from SUCCESS on entry.
SatisfiedStatus(o) ==
    IF o \in Mutants /\ signal[o] = 1 /\ abandoned[o] THEN "ABANDONED"
                                                      ELSE "SUCCESS"

\* KiWaitSatisfyAny: what a satisfied wait takes from the object.
KiWaitSatisfyAny(o, t) ==
    \/ o \in NotificationEvents /\ UNCHANGED objectVars
    \/ /\ o \in SynchronizationEvents
       /\ signal' = [signal EXCEPT ![o] = 0]
       /\ UNCHANGED <<owner, abandoned, mutantList>>
    \/ /\ o \in Semaphores
       /\ signal' = [signal EXCEPT ![o] = @ - 1]
       /\ UNCHANGED <<owner, abandoned, mutantList>>
    \/ o \in Mutants /\ KiWaitSatisfyMutant(o, t)

\* The priority boost KiUnwaitThread gives: never into the realtime range,
\* and never downwards.
BoostedPriority(t, inc) ==
    LET p == basePriority[t] + inc IN
    IF p <= priority[t] THEN priority[t]
    ELSE IF p >= LowRealtimePriority THEN LowRealtimePriority - 1 ELSE p

\* A dynamic thread below TIME_CRITICAL_BASE_PRIORITY pays for the wait with
\* WAIT_QUANTUM_DECREMENT and drops a level when its quantum is used up.
PaysForWait(t) == /\ priority[t] < LowRealtimePriority
                  /\ basePriority[t] < TimeCriticalBasePriority

UsesUpQuantum(t) == PaysForWait(t) /\ quantum[t] <= WaitQuantumDecrement

\* Mutant: a quantum that is used up is not started again.
QuantumNotRestarted(t) ==
    IF PaysForWait(t) THEN quantum[t] - WaitQuantumDecrement ELSE ThreadQuantum

QuantumAfterWait(t) ==
    IF PaysForWait(t) /\ ~UsesUpQuantum(t) THEN quantum[t] - WaitQuantumDecrement
                                           ELSE ThreadQuantum

PriorityAfterWait(t, inc) ==
    LET boosted == BoostedPriority(t, inc) IN
    IF priority[t] >= LowRealtimePriority THEN priority[t]
    ELSE IF ~UsesUpQuantum(t) THEN boosted
    ELSE IF boosted - 1 < basePriority[t] THEN basePriority[t] ELSE boosted - 1

\* KiUnwaitThread for the first waiter "t" of "o".
KiUnwaitThread(o, t, inc) ==
    /\ waitList' = [waitList EXCEPT ![o] = Tail(@)]
    /\ waitIn' = waitIn \ {t}
    /\ priority' = [priority EXCEPT ![t] = PriorityAfterWait(t, inc)]
    /\ quantum' = [quantum EXCEPT ![t] = QuantumAfterWait(t)]
    /\ KiScheduleThread(t, PriorityAfterWait(t, inc))

\* Mutant: the loop stops one count early.
MoreToWakeOffByOne == signal[frame.obj] > 1 /\ waitList[frame.obj] # <<>>

MoreToWake == signal[frame.obj] > 0 /\ waitList[frame.obj] # <<>>

\* Mutant: one waiter is released per signal, an "if" for the "while".
WaitTestOnce ==
    /\ pc = "waittest" /\ ~crashed
    /\ MoreToWake
    /\ LET o == frame.obj
           t == Head(waitList[o])
       IN /\ KiWaitSatisfyAny(o, t)
          /\ waitStatus' = [waitStatus EXCEPT ![t] = SatisfiedStatus(o)]
          /\ KiUnwaitThread(o, t, frame.inc)
    /\ pc' = "release"
    /\ frame' = [frame EXCEPT !.obj = NoObject, !.inc = 0]
    /\ UNCHANGED <<basePriority, waitNext, current, dpcVars, intVars, irql,
                   crashed>>

KiWaitTest ==
    /\ pc = "waittest" /\ ~crashed
    /\ MoreToWake
    /\ LET o == frame.obj
           t == Head(waitList[o])
       IN /\ KiWaitSatisfyAny(o, t)
          /\ waitStatus' = [waitStatus EXCEPT ![t] = SatisfiedStatus(o)]
          /\ KiUnwaitThread(o, t, frame.inc)
    /\ UNCHANGED <<basePriority, waitNext, current, dpcVars, intVars, cpuVars,
                   crashed>>

KiWaitTestDone ==
    /\ pc = "waittest" /\ ~crashed
    /\ ~MoreToWake
    /\ pc' = "release"
    /\ frame' = [frame EXCEPT !.obj = NoObject, !.inc = 0]
    /\ UNCHANGED <<threadVars, readyVars, prcbVars, objectVars, waitVars,
                   dpcVars, intVars, irql, crashed>>

-----------------------------------------------------------------------------
(* Releasing the database and switching threads.                            *)

\* The end of a call with Wait = TRUE: return at DISPATCH_LEVEL, to wait next.
ReturnLocked ==
    /\ pc = "release" /\ ~crashed
    /\ frame.wait
    /\ waitNext' = [waitNext EXCEPT ![current] = TRUE]
    /\ pc' = "run"
    /\ frame' = NoFrame
    /\ UNCHANGED <<state, priority, basePriority, quantum, waitStatus,
                   readyVars, prcbVars, objectVars, waitVars, dpcVars, intVars,
                   irql, crashed>>

\* Mutant: the thread that gives up the processor goes to the head of its list.
SwitchQueuesAtHead ==
    /\ AddToHead(priority[current], current)
    /\ state' = [state EXCEPT ![current] = "Ready", ![next] = "Running"]
    /\ current' = next
    /\ next' = NoThread

\* KiQueueReadyThread on the current thread, and the switch to the Standby one.
SwitchToNext ==
    /\ AddToTail(priority[current], current)
    /\ state' = [state EXCEPT ![current] = "Ready", ![next] = "Running"]
    /\ current' = next
    /\ next' = NoThread

\* KiUnlockDispatcherDatabase below DISPATCH_LEVEL switches to the Standby
\* thread at once; at DISPATCH_LEVEL it asks for a software interrupt to do it,
\* except inside a DPC, whose caller looks for a Standby thread itself.
KiUnlockDispatcherDatabase ==
    /\ pc = "release" /\ ~crashed
    /\ ~frame.wait
    /\ IF frame.old < DISPATCH_LEVEL /\ next # NoThread
       THEN SwitchToNext
       ELSE UNCHANGED <<readyVars, state, prcbVars>>
    /\ dispatchPending' = (\/ dispatchPending
                           \/ /\ frame.old >= DISPATCH_LEVEL
                              /\ next # NoThread /\ ~dpcActive)
    /\ irql' = frame.old
    /\ pc' = "run"
    /\ frame' = NoFrame
    /\ UNCHANGED <<priority, basePriority, quantum, waitNext, waitStatus,
                   objectVars, waitVars, dpcVars, quantumEnd, crashed>>

\* KiSwapThread: the current thread is Waiting; run the Standby thread, or the
\* best ready one, or the idle thread.  Every thread is switched out below
\* DISPATCH_LEVEL, so the one that continues goes back there.
KiSwapThread ==
    /\ pc = "swap" /\ ~crashed
    /\ next' = NoThread
    /\ \/ /\ next # NoThread
          /\ current' = next
          /\ UNCHANGED readyVars
       \/ /\ next = NoThread /\ readyMask # {}
          /\ current' = HighestPriorityThread
          /\ RemoveHighestPriorityThread
       \/ /\ next = NoThread /\ readyMask = {}
          /\ current' = Idle
          /\ UNCHANGED readyVars
    /\ state' = [t \in Threads |-> IF t = current' THEN "Running" ELSE state[t]]
    /\ irql' = IF current' = Idle THEN DISPATCH_LEVEL ELSE PASSIVE_LEVEL
    /\ pc' = "run"
    /\ UNCHANGED <<priority, basePriority, quantum, waitNext, waitStatus,
                   objectVars, waitVars, dpcVars, intVars, frame, crashed>>

-----------------------------------------------------------------------------
(* Waiting.                                                                 *)

\* The test at the top of KeWaitForSingleObject.
CanTake(o, t) == signal[o] > 0 \/ (o \in Mutants /\ owner[o] = t)

\* Mutant: the limit is never noticed.
MutantLimitIgnored(o) == FALSE

AtMutantLimit(o) == o \in Mutants /\ signal[o] = MutantLimit

\* KeWaitForSingleObject, with no timeout or (poll) a timeout of zero.  A wait
\* that is satisfied or fails at once still costs quantum, except when the
\* mutant limit is exceeded, which unlocks and raises.
KeWaitForSingleObject(o, poll) ==
    LET t == current
        old == IF waitNext[t] THEN PASSIVE_LEVEL ELSE irql
    IN /\ ThreadRuns
       /\ poll \/ old < DISPATCH_LEVEL
       /\ waitNext' = [waitNext EXCEPT ![t] = FALSE]
       /\ irql' = DISPATCH_LEVEL
       /\ \/ /\ CanTake(o, t) /\ ~AtMutantLimit(o)
             /\ KiWaitSatisfyAny(o, t)
             /\ waitStatus' = [waitStatus EXCEPT ![t] = SatisfiedStatus(o)]
             /\ pc' = "adjust" /\ frame' = [NoFrame EXCEPT !.old = old]
             /\ UNCHANGED <<state, waitVars>>
          \/ /\ CanTake(o, t) /\ AtMutantLimit(o)
             /\ waitStatus' = [waitStatus EXCEPT ![t] = "SUCCESS"]
             /\ pc' = "release" /\ frame' = [NoFrame EXCEPT !.old = old]
             /\ UNCHANGED <<state, waitVars, objectVars>>
          \/ /\ ~CanTake(o, t) /\ poll
             /\ waitStatus' = [waitStatus EXCEPT ![t] = "SUCCESS"]
             /\ pc' = "adjust" /\ frame' = [NoFrame EXCEPT !.old = old]
             /\ UNCHANGED <<state, waitVars, objectVars>>
          \/ /\ ~CanTake(o, t) /\ ~poll
             /\ waitStatus' = [waitStatus EXCEPT ![t] = "SUCCESS"]
             /\ waitList' = [waitList EXCEPT ![o] = Append(@, t)]
             /\ waitIn' = waitIn \union {t}
             /\ state' = [state EXCEPT ![t] = "Waiting"]
             /\ pc' = "swap" /\ frame' = NoFrame
             /\ UNCHANGED objectVars
       /\ UNCHANGED <<priority, basePriority, quantum, readyVars, prcbVars,
                      dpcVars, intVars, crashed>>

\* KiAdjustQuantumThread, on the way out of a wait that did not block.
KiAdjustQuantumThread ==
    /\ pc = "adjust" /\ ~crashed
    /\ IF PaysForWait(current)
       THEN KiQuantumEnd(quantum[current] - WaitQuantumDecrement)
       ELSE UNCHANGED <<quantum, priority, next, state, readyVars>>
    /\ pc' = "release"
    /\ UNCHANGED <<basePriority, waitNext, waitStatus, current, objectVars,
                   waitVars, dpcVars, intVars, irql, frame, crashed>>

\* Code that raises to DISPATCH_LEVEL around several calls, and its lowering.
KeRaiseIrqlToDpcLevel ==
    /\ ThreadCalls
    /\ irql < DISPATCH_LEVEL
    /\ irql' = DISPATCH_LEVEL
    /\ UNCHANGED <<threadVars, readyVars, prcbVars, objectVars, waitVars,
                   dpcVars, intVars, pc, frame, crashed>>

KfLowerIrql ==
    /\ ThreadCalls
    /\ irql = DISPATCH_LEVEL
    /\ irql' = PASSIVE_LEVEL
    /\ UNCHANGED <<threadVars, readyVars, prcbVars, objectVars, waitVars,
                   dpcVars, intVars, pc, frame, crashed>>

-----------------------------------------------------------------------------
(* Interrupts, deferred procedures and the idle loop.                       *)

\* KiExecuteDpcQueue and KiIdleLoop test their conditions with interrupts off.
InterruptsEnabled == pc \notin {"retire", "idle"}

\* HalpClockIsr: the tick is charged to the current thread, which is asked to
\* give up the processor when its quantum is gone.  The idle thread never is.
HalpClockIsr ==
    /\ InterruptsEnabled /\ ~crashed
    /\ current # Idle
    /\ quantum' = [quantum EXCEPT ![current] =
                     IF @ > ClockQuantumDecrement THEN @ - ClockQuantumDecrement
                                                  ELSE 0]
    /\ quantumEnd' = (quantumEnd \/ quantum'[current] = 0)
    /\ dispatchPending' = (dispatchPending \/ quantum'[current] = 0)
    /\ UNCHANGED <<state, priority, basePriority, waitNext, waitStatus,
                   readyVars, prcbVars, objectVars, waitVars, dpcVars, cpuVars,
                   crashed>>

\* KeInsertQueueDpc from a device's service routine.
KeInsertQueueDpc ==
    /\ InterruptsEnabled /\ ~crashed
    /\ dpcQueue < MaxDpcs
    /\ dpcQueue' = dpcQueue + 1
    /\ IF ~dpcActive /\ ~dpcRequested
       THEN dpcRequested' = TRUE /\ dispatchPending' = TRUE
       ELSE UNCHANGED <<dpcRequested, dispatchPending>>
    /\ UNCHANGED <<threadVars, readyVars, prcbVars, objectVars, waitVars,
                   dpcActive, quantumEnd, cpuVars, crashed>>

\* HalpSwIntDpc, entered when thread code is below DISPATCH_LEVEL.
HalpSwIntDpc ==
    /\ pc = "run" /\ ~crashed
    /\ current # Idle /\ ~dpcActive
    /\ SoftwareInterrupt
    /\ irql' = DISPATCH_LEVEL
    /\ dispatchPending' = FALSE
    /\ pc' = IF dpcQueue > 0 THEN "retire" ELSE "quantum"
    /\ UNCHANGED <<threadVars, readyVars, prcbVars, objectVars, waitVars,
                   dpcVars, quantumEnd, frame, crashed>>

\* KiExecuteDpcQueue calls the next deferred procedure, which may make any
\* call that does not block, any number of times, and returns.
KiExecuteDpcQueue ==
    /\ pc = "retire" /\ ~crashed
    /\ dpcQueue > 0
    /\ dpcQueue' = dpcQueue - 1
    /\ dpcActive' = TRUE
    /\ pc' = "run"
    /\ UNCHANGED <<threadVars, readyVars, prcbVars, objectVars, waitVars,
                   dpcRequested, intVars, irql, frame, crashed>>

DpcReturns ==
    /\ DpcCalls
    /\ dpcActive' = FALSE
    /\ pc' = "retire"
    /\ UNCHANGED <<threadVars, readyVars, prcbVars, objectVars, waitVars,
                   dpcQueue, dpcRequested, intVars, irql, frame, crashed>>

\* Mutant: DpcInterruptRequested stays set.
RetiredKeepsRequest ==
    /\ pc = "retire" /\ ~crashed
    /\ dpcQueue = 0
    /\ pc' = IF current = Idle THEN "idle" ELSE "quantum"
    /\ UNCHANGED <<threadVars, readyVars, prcbVars, objectVars, waitVars,
                   dpcVars, intVars, irql, frame, crashed>>

\* The queue is empty: back to HalpSwIntDpc or to KiIdleLoop.
DpcQueueRetired ==
    /\ pc = "retire" /\ ~crashed
    /\ dpcQueue = 0
    /\ dpcRequested' = FALSE
    /\ pc' = IF current = Idle THEN "idle" ELSE "quantum"
    /\ UNCHANGED <<threadVars, readyVars, prcbVars, objectVars, waitVars,
                   dpcQueue, dpcActive, intVars, irql, frame, crashed>>

\* HalpSwIntDpc: the quantum end a clock interrupt noted.
SwIntQuantumEnd ==
    /\ pc = "quantum" /\ ~crashed
    /\ IF quantumEnd THEN KiQuantumEnd(quantum[current])
                     ELSE UNCHANGED <<quantum, priority, next, state, readyVars>>
    /\ quantumEnd' = FALSE
    /\ pc' = "switch"
    /\ UNCHANGED <<basePriority, waitNext, waitStatus, current, objectVars,
                   waitVars, dpcVars, dispatchPending, irql, frame, crashed>>

\* HalpSwIntDpc: switch to the Standby thread, and restore the IRQL either of
\* the interrupted thread or of the one that now continues.
SwIntSwitch ==
    /\ pc = "switch" /\ ~crashed
    /\ IF next # NoThread THEN SwitchToNext
                          ELSE UNCHANGED <<readyVars, state, prcbVars>>
    /\ irql' = PASSIVE_LEVEL
    /\ pc' = "run"
    /\ UNCHANGED <<priority, basePriority, quantum, waitNext, waitStatus,
                   objectVars, waitVars, dpcVars, intVars, frame, crashed>>

\* KiIdleLoop: retire deferred procedures, quiescing their interrupt ...
KiIdleLoop ==
    /\ pc = "run" /\ ~crashed
    /\ current = Idle /\ ~dpcActive
    /\ dpcQueue > 0 \/ next # NoThread
    /\ IF dpcQueue > 0 THEN dispatchPending' = FALSE /\ pc' = "retire"
                       ELSE pc' = "idle" /\ UNCHANGED dispatchPending
    /\ UNCHANGED <<threadVars, readyVars, prcbVars, objectVars, waitVars,
                   dpcVars, quantumEnd, irql, frame, crashed>>

\* ... then switch if a thread has become Standby.  The idle thread is never
\* put on a ready list.
IdleSwitch ==
    /\ pc = "idle" /\ ~crashed
    /\ IF next # NoThread
       THEN /\ state' = [state EXCEPT ![next] = "Running"]
            /\ current' = next
            /\ next' = NoThread
            /\ irql' = PASSIVE_LEVEL
       ELSE UNCHANGED <<state, prcbVars, irql>>
    /\ pc' = "run"
    /\ UNCHANGED <<priority, basePriority, quantum, waitNext, waitStatus,
                   readyVars, objectVars, waitVars, dpcVars, intVars, frame,
                   crashed>>

-----------------------------------------------------------------------------
\* What the code under execution may call.
Calls ==
    \/ \E e \in Events, inc \in Increments, wait \in BOOLEAN :
           KeSetEvent(e, inc, wait)
    \/ \E e \in Events : KeResetEvent(e)
    \/ \E s \in Semaphores, inc \in Increments, adj \in Adjustments,
          wait \in BOOLEAN : KeReleaseSemaphore(s, inc, adj, wait)
    \/ \E m \in Mutants, inc \in Increments, abandon, wait \in BOOLEAN :
           KeReleaseMutant(m, inc, abandon, wait)
    \/ \E t \in Threads : KeScheduleThread(t)
    \/ \E o \in Objects, poll \in BOOLEAN : KeWaitForSingleObject(o, poll)
    \/ KeRaiseIrqlToDpcLevel

\* What the processor does next without anyone's choice.
Continue ==
    \/ KiWaitTest \/ KiWaitTestDone
    \/ ReturnLocked \/ KiUnlockDispatcherDatabase
    \/ KiSwapThread \/ KiAdjustQuantumThread
    \/ HalpSwIntDpc \/ KiExecuteDpcQueue \/ DpcQueueRetired
    \/ SwIntQuantumEnd \/ SwIntSwitch
    \/ KiIdleLoop \/ IdleSwitch

Next == \/ Calls \/ Continue
        \/ KfLowerIrql \/ DpcReturns
        \/ HalpClockIsr \/ KeInsertQueueDpc

Spec == Init /\ [][Next]_vars

-----------------------------------------------------------------------------
(* Properties.                                                              *)

\* Types and ranges of every variable.
TypeOK ==
    /\ state \in [Threads -> {"Initialized", "Ready", "Standby", "Running",
                              "Waiting"}]
    /\ priority \in [Threads -> Priorities]
    /\ basePriority \in [Threads -> Priorities]
    /\ quantum \in [Threads -> 0..ThreadQuantum]
    /\ waitNext \in [Threads -> BOOLEAN]
    /\ waitStatus \in [Threads -> {"SUCCESS", "ABANDONED"}]
    /\ ready \in [Priorities -> Seq(Threads)]
    /\ readyMask \subseteq Priorities
    /\ waitIn \subseteq Threads
    /\ current \in Threads \union {Idle}
    /\ next \in Threads \union {NoThread}
    /\ signal \in [Objects -> Int]
    /\ waitList \in [Objects -> Seq(Threads)]
    /\ owner \in [Mutants -> Threads \union {NoThread}]
    /\ abandoned \in [Mutants -> BOOLEAN]
    /\ mutantList \in [Threads -> SUBSET Mutants]
    /\ irql \in {PASSIVE_LEVEL, DISPATCH_LEVEL}
    /\ dispatchPending \in BOOLEAN
    /\ quantumEnd \in BOOLEAN
    /\ dpcQueue \in 0..MaxDpcs
    /\ dpcActive \in BOOLEAN
    /\ dpcRequested \in BOOLEAN
    /\ pc \in PcValues
    /\ frame \in Frames
    /\ crashed \in BOOLEAN

\* The members of a list are distinct.
NoRepeats(s) == \A i, j \in 1..Len(s) : s[i] = s[j] => i = j

Listed(s) == {s[i] : i \in 1..Len(s)}

\* The processor's two thread pointers agree with the threads' states: the
\* running thread is the current one (it is Waiting only while KiSwapThread is
\* taking it off the processor) and the Standby thread is NextThread.  A thread
\* that is selected twice, or forgotten by a switch, breaks it.
PrcbAgrees ==
    /\ \A t \in Threads : state[t] = "Running" <=> (t = current /\ pc # "swap")
    /\ \A t \in Threads : state[t] = "Standby" <=> t = next
    /\ pc = "swap" => current # Idle /\ state[current] = "Waiting"

\* A Ready thread is on the ready list of its priority, once, and only Ready
\* threads are on ready lists: no thread is lost or queued twice, whichever of
\* wake-up, preemption and quantum end moved it.
ReadyListsAgree ==
    /\ \A p \in Priorities : NoRepeats(ready[p])
    /\ \A p \in Priorities : \A i \in 1..Len(ready[p]) :
           state[ready[p][i]] = "Ready" /\ priority[ready[p][i]] = p
    /\ \A t \in Threads : state[t] = "Ready" => t \in Listed(ready[priority[t]])

\* KiReadyThreadMask has a bit for exactly the lists that have a thread: a
\* stale bit would make the scheduler dequeue from an empty list, a missing one
\* would hide ready threads from it.
ReadyMaskExact == \A p \in Priorities : p \in readyMask <=> ready[p] # <<>>

\* A Waiting thread is on KiWaitInListHead and on exactly one wait list, and
\* nobody else is on either.
WaitListsAgree ==
    /\ \A t \in Threads : state[t] = "Waiting" <=> t \in waitIn
    /\ \A o \in Objects : NoRepeats(waitList[o])
    /\ \A t \in Threads : t \in waitIn <=>
                          \E o \in Objects : t \in Listed(waitList[o])
    /\ \A o, q \in Objects : o # q =>
           Listed(waitList[o]) \intersect Listed(waitList[q]) = {}

\* No lost wake-up: outside KiWaitTest nobody waits for a signalled object.
\* KeReleaseSemaphore, KeSetEvent and KeReleaseMutant each skip KiWaitTest on a
\* test of the old state or of the wait list, and this is what makes it safe.
NoLostWakeup ==
    \A o \in Objects : signal[o] > 0 /\ waitList[o] # <<>> =>
        pc = "waittest" /\ frame.obj = o

\* A mutant has an owner exactly while it is taken, is linked in that thread's
\* MutantListHead and in no other, and its owner never waits for it.
MutantsAgree ==
    \A m \in Mutants :
        /\ signal[m] <= 1 /\ signal[m] >= MutantLimit
        /\ owner[m] = NoThread <=> signal[m] = 1
        /\ \A t \in Threads : m \in mutantList[t] <=> owner[m] = t
        /\ owner[m] \notin Listed(waitList[m])

\* The scheduler keeps its promise: nobody is ready at a higher priority than
\* the thread that runs, or than the one about to.
HighestPriorityRuns ==
    \A p \in readyMask :
        p <= IF next # NoThread THEN priority[next] ELSE CurrentPriority

\* A preemption is not forgotten: while thread code runs below DISPATCH_LEVEL
\* with no software interrupt pending, no thread is left on Standby.
NoStandbyForgotten == ThreadRuns /\ irql < DISPATCH_LEVEL => next = NoThread

\* Boosts and decays keep a thread between its base priority and the end of
\* its class: a wake-up never carries a dynamic thread into the realtime range.
PriorityInClass ==
    \A t \in Threads :
        /\ priority[t] >= basePriority[t]
        /\ basePriority[t] < LowRealtimePriority =>
           priority[t] < LowRealtimePriority

\* A queued deferred procedure is never stranded: an interrupt for it is
\* pending, the queue is being retired, or the idle loop is polling the queue.
DpcNotStranded ==
    dpcQueue > 0 => dispatchPending \/ dpcActive \/ pc = "retire"
                    \/ current = Idle

\* The structures that the scheduler keeps threads in tell the same story:
\* PRCB, ready lists, wait lists and thread states, through every switch.
StructuresAgree == PrcbAgrees /\ ReadyListsAgree /\ WaitListsAgree

\* Who runs is right, and by priorities that are right.
PrioritiesRight == HighestPriorityRuns /\ PriorityInClass

\* What has been put off to a software interrupt is not forgotten: neither a
\* switch to the Standby thread nor a queued DPC.
NothingPutOffIsForgotten == NoStandbyForgotten /\ DpcNotStranded

\* Objects agree with who owns and who awaits them, for events and mutants too.
ObjectsAgree == NoLostWakeup /\ MutantsAgree

-----------------------------------------------------------------------------
(* Liveness.  The processor keeps going, which is weak fairness of Continue. *)
(* The clock interrupt is held by the PIC until it can be delivered, and     *)
(* code that raised the IRQL lowers it again however many calls it makes in  *)
(* between: strong fairness.  A thread that returned from a call with        *)
(* Wait = TRUE has to wait.                                                 *)

WaitsNext == /\ ThreadRuns /\ waitNext[current]
             /\ \E o \in Objects : KeWaitForSingleObject(o, FALSE)

Fairness ==
    /\ WF_vars(Continue)
    /\ SF_vars(HalpClockIsr)
    /\ SF_vars(KfLowerIrql)
    /\ SF_vars(DpcReturns)
    /\ WF_vars(WaitsNext)

FairSpec == Spec /\ Fairness

\* With equal priorities nobody starves: quantum end and the FIFO order of the
\* ready list hand the processor to every ready thread.
ReadyRuns == \A t \in Threads : state[t] = "Ready" ~> state[t] = "Running"

\* A thread made Standby gets the processor (or is put back for a better one).
StandbyMoves == \A t \in Threads : state[t] = "Standby" ~> state[t] # "Standby"

\* Whoever waits for the processor gets it.
EveryThreadRuns == ReadyRuns /\ StandbyMoves
=============================================================================
