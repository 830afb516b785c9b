--------------------------- MODULE CriticalSection ---------------------------
(***************************************************************************)
(* RTL_CRITICAL_SECTION (src/nboxkrnl/rtl/critical.cpp): a counter that is *)
(* updated atomically, an owner and a recursion count that are not, and an *)
(* event for the threads that have to wait.  The routines run at           *)
(* PASSIVE_LEVEL without a lock, so a thread may be preempted between any  *)
(* two of their accesses to the structure: each access is a step.          *)
(*                                                                         *)
(* The event behaves as SyncObjects says, which is what the dispatcher     *)
(* database implements as long as the halfword that KeSetEvent takes for   *)
(* the WaitType of a waiter reads WaitAll (ke/event.cpp:165).  It lies     *)
(* behind the 28 bytes of the section, so that its value can be any: with  *)
(* another one KeSetEvent unwaits a thread that is none, and the machine   *)
(* is down.                                                                *)
(***************************************************************************)
EXTENDS Integers, Sequences, FiniteSets

CONSTANTS
    Threads,
    NoThread,      \* a null OwningThread
    Event,         \* the section's KEVENT
    MaxDepth       \* bound: how deep callers nest the section

ASSUME SectionAssumption ==
    /\ NoThread \notin Threads
    /\ MaxDepth \in Nat \ {0}

VARIABLES
    lockCount,       \* LockCount: claims on the section, minus one
    recursionCount,  \* RecursionCount
    owningThread,    \* OwningThread
    signal, waiters, \* the event
    pc,              \* where each thread is in a routine; "call": in none
    count,           \* what each thread's decrement of LockCount returned
    depth,           \* how often each thread has entered and not left
    crashed          \* KeSetEvent has unwaited something that is no thread

sectionVars == <<lockCount, recursionCount, owningThread>>
eventVars == <<signal, waiters>>
csVars == <<sectionVars, eventVars, pc, count, depth, crashed>>

SectionEvent == INSTANCE SyncObjects WITH
    NotificationEvents <- {}, SynchronizationEvents <- {Event},
    Semaphores <- {}, Mutants <- {}, SemaphoreLimit <- 0, MutantLimit <- 0,
    owner <- <<>>, abandoned <- <<>>

\* RtlInitializeCriticalSection
Init ==
    /\ lockCount = -1
    /\ recursionCount = 0
    /\ owningThread = NoThread
    /\ signal = [e \in {Event} |-> 0]
    /\ waiters = [e \in {Event} |-> <<>>]
    /\ pc = [t \in Threads |-> "call"]
    /\ count = [t \in Threads |-> -1]
    /\ depth = [t \in Threads |-> 0]
    /\ crashed = FALSE

\* A step of a thread, which there is only while the machine runs.
Goto(t, from, to) ==
    /\ pc[t] = from /\ pc' = [pc EXCEPT ![t] = to]
    /\ ~crashed /\ UNCHANGED crashed

-----------------------------------------------------------------------------
(* Entering.                                                                *)

\* RtlEnterCriticalSection: the first claim on the section is the lock.
RtlEnterCriticalSection(t) ==
    /\ depth[t] < MaxDepth
    /\ Goto(t, "call", IF lockCount = -1 THEN "first" ELSE "check")
    /\ lockCount' = lockCount + 1
    /\ UNCHANGED <<recursionCount, owningThread, eventVars, count, depth>>

\* RtlTryEnterCriticalSection: the compare-exchange ...
RtlTryEnterCriticalSection(t) ==
    /\ depth[t] < MaxDepth
    /\ Goto(t, "call", IF lockCount = -1 THEN "first" ELSE "trycheck")
    /\ lockCount' = IF lockCount = -1 THEN 0 ELSE lockCount
    /\ UNCHANGED <<recursionCount, owningThread, eventVars, count, depth>>

\* ... and, the section being taken, the test whether it is by this thread.
TryCheckOwner(t) ==
    /\ Goto(t, "trycheck", IF owningThread = t THEN "tryagain" ELSE "call")
    /\ UNCHANGED <<sectionVars, eventVars, count, depth>>

TryCountAgain(t) ==
    /\ Goto(t, "tryagain", "again")
    /\ lockCount' = lockCount + 1
    /\ UNCHANGED <<recursionCount, owningThread, eventVars, count, depth>>

\* Got it: at once ("first") or after a wait ("woken").
SetOwner(t) ==
    /\ Goto(t, "first", "setcount") \/ Goto(t, "woken", "setcount")
    /\ owningThread' = t
    /\ UNCHANGED <<lockCount, recursionCount, eventVars, count, depth>>

SetRecursionCount(t) ==
    /\ Goto(t, "setcount", "call")
    /\ recursionCount' = 1
    /\ depth' = [depth EXCEPT ![t] = @ + 1]
    /\ UNCHANGED <<lockCount, owningThread, eventVars, count>>

CheckOwner(t) ==
    /\ Goto(t, "check", IF owningThread = t THEN "again" ELSE "wait")
    /\ UNCHANGED <<sectionVars, eventVars, count, depth>>

EnterAgain(t) ==
    /\ Goto(t, "again", "call")
    /\ recursionCount' = recursionCount + 1
    /\ depth' = [depth EXCEPT ![t] = @ + 1]
    /\ UNCHANGED <<lockCount, owningThread, eventVars, count>>

\* RtlpWaitForCriticalSection: the event is signalled, or the thread blocks.
RtlpWaitForCriticalSection(t) ==
    /\ \/ Goto(t, "wait", "woken") /\ SectionEvent!TakeEvent(Event)
       \/ Goto(t, "wait", "blocked") /\ SectionEvent!Block(Event, t)
    /\ UNCHANGED <<sectionVars, count, depth>>

\* The event was handed to the thread: KeWaitForSingleObject returns.
WaitReturns(t) ==
    /\ Goto(t, "blocked", "woken")
    /\ ~SectionEvent!Waits(t)
    /\ UNCHANGED <<sectionVars, eventVars, count, depth>>

-----------------------------------------------------------------------------
(* Leaving.                                                                 *)

\* RtlLeaveCriticalSection.
RtlLeaveCriticalSection(t) ==
    /\ depth[t] > 0
    /\ Goto(t, "call", "decrement")
    /\ recursionCount' = recursionCount - 1
    /\ UNCHANGED <<lockCount, owningThread, eventVars, count, depth>>

DecrementLockCount(t) ==
    /\ Goto(t, "decrement", "test")
    /\ lockCount' = lockCount - 1
    /\ count' = [count EXCEPT ![t] = lockCount - 1]
    /\ depth' = [depth EXCEPT ![t] = @ - 1]
    /\ UNCHANGED <<recursionCount, owningThread, eventVars>>

\* RecursionCount is read again: it may be another thread's by now.
TestRecursionCount(t) ==
    /\ Goto(t, "test", IF recursionCount = 0 THEN "clear" ELSE "call")
    /\ UNCHANGED <<sectionVars, eventVars, count, depth>>

\* Mutant: a count of zero is taken for nobody else waiting.
ClearOwnerOffByOne(t) ==
    /\ Goto(t, "clear", IF count[t] > 0 THEN "signal" ELSE "call")
    /\ owningThread' = NoThread
    /\ UNCHANGED <<lockCount, recursionCount, eventVars, count, depth>>

ClearOwner(t) ==
    /\ Goto(t, "clear", IF count[t] >= 0 THEN "signal" ELSE "call")
    /\ owningThread' = NoThread
    /\ UNCHANGED <<lockCount, recursionCount, eventVars, count, depth>>

\* KeSetEvent: the event is signalled, or handed to the thread that waits.
SignalWaiter(t) ==
    /\ Goto(t, "signal", "call")
    /\ SectionEvent!SetSynchronization(Event)
    /\ UNCHANGED <<sectionVars, count, depth>>

\* KeSetEvent, the halfword behind the section not reading WaitAll.
SignalUnwaitsNoThread(t) ==
    /\ pc[t] = "signal" /\ waiters[Event] # <<>>
    /\ ~crashed /\ crashed' = TRUE
    /\ UNCHANGED <<sectionVars, eventVars, pc, count, depth>>

\* Mutant: RecursionCount is not looked at, the last level or not.
LeaveRegionAlwaysLast(t) ==
    /\ depth[t] > 0
    /\ Goto(t, "call", "lastdec")
    /\ recursionCount' = recursionCount - 1
    /\ UNCHANGED <<lockCount, owningThread, eventVars, count, depth>>

\* RtlLeaveCriticalSectionAndRegion decides on the decremented RecursionCount.
RtlLeaveCriticalSectionAndRegion(t) ==
    /\ depth[t] > 0
    /\ Goto(t, "call", IF recursionCount = 1 THEN "lastdec" ELSE "moredec")
    /\ recursionCount' = recursionCount - 1
    /\ UNCHANGED <<lockCount, owningThread, eventVars, count, depth>>

\* The flags of the last decrement survive the write of OwningThread.
DecrementLast(t) ==
    /\ Goto(t, "lastdec", "clear")
    /\ lockCount' = lockCount - 1
    /\ count' = [count EXCEPT ![t] = lockCount - 1]
    /\ depth' = [depth EXCEPT ![t] = @ - 1]
    /\ UNCHANGED <<recursionCount, owningThread, eventVars>>

DecrementMore(t) ==
    /\ Goto(t, "moredec", "call")
    /\ lockCount' = lockCount - 1
    /\ depth' = [depth EXCEPT ![t] = @ - 1]
    /\ UNCHANGED <<recursionCount, owningThread, eventVars, count>>

-----------------------------------------------------------------------------
Enter(t) == RtlEnterCriticalSection(t) \/ RtlTryEnterCriticalSection(t)

Leave(t) == RtlLeaveCriticalSection(t) \/ RtlLeaveCriticalSectionAndRegion(t)

\* The rest of a routine, once it has been called.
Proceed(t) ==
    \/ TryCheckOwner(t) \/ TryCountAgain(t)
    \/ SetOwner(t) \/ SetRecursionCount(t) \/ CheckOwner(t) \/ EnterAgain(t)
    \/ RtlpWaitForCriticalSection(t) \/ WaitReturns(t)
    \/ DecrementLockCount(t) \/ TestRecursionCount(t) \/ ClearOwner(t)
    \/ SignalWaiter(t) \/ SignalUnwaitsNoThread(t)
    \/ DecrementLast(t) \/ DecrementMore(t)

Next == \E t \in Threads : Enter(t) \/ Leave(t) \/ Proceed(t)

Spec == Init /\ [][Next]_csVars

\* The scheduler gives every thread a turn, and who has entered leaves.
FairSpec == Spec /\ \A t \in Threads : WF_csVars(Proceed(t)) /\ SF_csVars(Leave(t))

-----------------------------------------------------------------------------
PcValues == {"call", "first", "setcount", "check", "again", "wait", "blocked",
             "woken", "trycheck", "tryagain", "decrement", "test", "clear",
             "signal", "lastdec", "moredec"}

TypeOK ==
    /\ lockCount \in Int /\ lockCount >= -1
    /\ recursionCount \in Nat
    /\ owningThread \in Threads \union {NoThread}
    /\ signal \in [{Event} -> {0, 1}]
    /\ waiters \in [{Event} -> Seq(Threads)]
    /\ pc \in [Threads -> PcValues]
    /\ count \in [Threads -> Int]
    /\ depth \in [Threads -> Nat]
    /\ crashed \in BOOLEAN

\* At most one thread is between entering and leaving, counting the thread the
\* section has been given to and that has not yet written its name into it:
\* the atomic LockCount alone carries the exclusion, whatever becomes of the
\* unprotected OwningThread and RecursionCount.
HasSection(t) == \/ depth[t] > 0
                 \/ pc[t] \in {"first", "setcount", "woken"}
                 \/ pc[t] = "blocked" /\ ~SectionEvent!Waits(t)

MutualExclusion ==
    /\ TypeOK
    /\ \A t, u \in Threads : HasSection(t) /\ HasSection(u) => t = u

\* Nobody sleeps for a section that is free: someone has it, or is on the way
\* to signal the event, or the event is signalled.
NotForgotten ==
    (\E t \in Threads : SectionEvent!Waits(t)) =>
        \/ \E t \in Threads : HasSection(t)
        \/ \E t \in Threads : pc[t] \in {"test", "clear", "signal"}
                              /\ count[t] >= 0
        \/ signal[Event] = 1

\* Since OwningThread may be wiped out, a thread that nests the section can
\* find it taken by another: itself.
WaitsForItself(t) == depth[t] > 0 /\ pc[t] \in {"wait", "blocked"}

\* Every thread that finds the section taken gets it in the end, provided that
\* nobody waits for itself, everybody leaves as often as it has entered, and
\* the release of a sleeper does not bring the machine down.
Served ==
    /\ [](\A t \in Threads : ~WaitsForItself(t))
    /\ \A t \in Threads : []<>(depth[t] = 0)
    => \A t \in Threads : pc[t] = "check" ~> depth[t] > 0 \/ crashed
=============================================================================
