-------------------------- MODULE DispatcherProofs --------------------------
(***************************************************************************)
(* Theorems about Dispatcher for any number of threads, priorities and     *)
(* objects: first types and the ready mask, then the five safety           *)
(* properties.  These hold together or not at all: who is on which list    *)
(* decides who may be selected, what is selected decides who may wait, and *)
(* who waits decides what a release has to look at.  Then, that Dispatcher *)
(* implements SyncObjects, which rests on all of them; and last, that the  *)
(* routines of DispatcherExports, which break the rule that the best       *)
(* thread runs, keep the lists and the threads in agreement all the same,  *)
(* and that a pulse of an event, which is many steps, looks like one.      *)
(***************************************************************************)
EXTENDS DispatcherExports, ListLemmas

-----------------------------------------------------------------------------
(* Types and mask: the inductive invariant.                                 *)

\* What interrupt level, current thread and routine have to do with each
\* other.  The idle thread and deferred procedures never leave DISPATCH_LEVEL,
\* so neither is ever put on a ready list; the routines that act on behalf of
\* the current thread only run when there is one.
CpuConsistent ==
    /\ current = Idle \/ dpcActive \/ pc # "run" => irql = DISPATCH_LEVEL
    /\ (current = Idle \/ dpcActive) /\ pc \in {"release", "waittest"} =>
           frame.old = DISPATCH_LEVEL
    /\ pc \in {"adjust", "swap", "retire", "quantum", "switch", "idle"} =>
           ~dpcActive
    /\ pc \in {"adjust", "swap", "quantum", "switch"} => current # Idle
    /\ pc = "waittest" => frame.obj \in Objects
    /\ pc = "idle" => current = Idle

\* The ready lists alone.
ReadyOK ==
    /\ ready \in [Priorities -> Seq(Threads)]
    /\ readyMask \subseteq Priorities
    /\ ReadyMaskExact

TypeInvariant == TypeOK /\ ReadyMaskExact /\ CpuConsistent

-----------------------------------------------------------------------------
(* Lemmas about the ready lists.                                            *)

\* HighestReady is what BitScanReverse finds, and its list has a head.
LEMMA HighestReadyThread ==
    ASSUME ReadyOK, readyMask # {}
    PROVE  /\ HighestReady \in readyMask
           /\ HighestReady \in Priorities
           /\ \A r \in readyMask : r <= HighestReady
           /\ ready[HighestReady] # <<>>
           /\ HighestPriorityThread \in Threads
<1>1. HighPriority \in Nat /\ readyMask \in SUBSET (1..HighPriority)
  BY NumbersAssumption DEF ReadyOK, Priorities
<1>2. \E p \in readyMask : \A r \in readyMask : r <= p
  BY <1>1, HighestExists
<1>3. HighestReady \in readyMask /\ \A r \in readyMask : r <= HighestReady
  BY <1>2 DEF HighestReady
<1>4. HighestReady \in Priorities
  BY <1>3 DEF ReadyOK
<1>5. ready[HighestReady] \in Seq(Threads) /\ ready[HighestReady] # <<>>
  BY <1>3, <1>4 DEF ReadyOK, ReadyMaskExact
<1> QED BY <1>3, <1>4, <1>5 DEF HighestPriorityThread

\* Putting a thread at the end of a ready list sets its bit.
LEMMA AddToTailReady ==
    ASSUME ReadyOK, NEW p \in Priorities, NEW t \in Threads, AddToTail(p, t)
    PROVE  ReadyOK'
BY DEF ReadyOK, ReadyMaskExact, AddToTail

\* Putting a thread at the head of a ready list sets its bit.
LEMMA AddToHeadReady ==
    ASSUME ReadyOK, NEW p \in Priorities, NEW t \in Threads, AddToHead(p, t)
    PROVE  ReadyOK'
BY DEF ReadyOK, ReadyMaskExact, AddToHead

\* Taking the highest ready thread clears its bit if it was the last.
LEMMA RemoveHighestReady ==
    ASSUME ReadyOK, readyMask # {}, RemoveHighestPriorityThread
    PROVE  ReadyOK'
<1> DEFINE h == HighestReady
<1>1. h \in Priorities /\ ready[h] \in Seq(Threads) /\ ready[h] # <<>>
  BY HighestReadyThread DEF ReadyOK
<1>2. Tail(ready[h]) \in Seq(Threads) /\ (Tail(ready[h]) = <<>> <=> Len(ready[h]) = 1)
  BY <1>1, TailOfList
<1>3. ready' = [ready EXCEPT ![h] = Tail(@)]
  BY DEF RemoveHighestPriorityThread
<1>4. ready' \in [Priorities -> Seq(Threads)] /\ ready'[h] = Tail(ready[h])
  BY <1>1, <1>2, <1>3 DEF ReadyOK
<1>5. \A p \in Priorities : p \in readyMask' <=> ready'[p] # <<>>
  BY <1>1, <1>2, <1>3, <1>4 DEF ReadyOK, ReadyMaskExact, RemoveHighestPriorityThread
<1>6. readyMask' \subseteq Priorities
  BY DEF ReadyOK, RemoveHighestPriorityThread
<1> QED BY <1>4, <1>5, <1>6 DEF ReadyOK, ReadyMaskExact

\* What leaves the lists and the mask alone leaves them right.
LEMMA UnchangedReady ==
    ASSUME ReadyOK, UNCHANGED readyVars
    PROVE  ReadyOK'
BY DEF ReadyOK, ReadyMaskExact, readyVars

-----------------------------------------------------------------------------
(* Lemmas about the parts of actions.                                       *)

ThreadStates == {"Initialized", "Ready", "Standby", "Running", "Waiting"}

\* What scheduling decisions change.
SchedulerOK ==
    /\ ReadyOK
    /\ state \in [Threads -> ThreadStates]
    /\ next \in Threads \union {NoThread}

\* The part of the invariant that scheduling decisions are about.
LEMMA SchedulerTypes == TypeInvariant => SchedulerOK
BY DEF TypeInvariant, TypeOK, SchedulerOK, ReadyOK, ThreadStates

\* Making a thread ready: it becomes standby, or the lists get it.
LEMMA KiScheduleThreadOK ==
    ASSUME TypeInvariant, NEW t \in Threads, NEW p \in Priorities,
           KiScheduleThread(t, p)
    PROVE  SchedulerOK'
<1>1. SchedulerOK /\ priority \in [Threads -> Priorities]
  BY SchedulerTypes DEF TypeInvariant, TypeOK
<1>2. CASE next # NoThread /\ p > priority[next]
  <2>1. next \in Threads /\ priority[next] \in Priorities
    BY <1>1, <1>2 DEF SchedulerOK
  <2>2. AddToHead(priority[next], next)
    BY <1>2 DEF KiScheduleThread
  <2>3. ReadyOK'
    BY <1>1, <2>1, <2>2, AddToHeadReady DEF SchedulerOK
  <2> QED BY <1>1, <1>2, <2>3 DEF SchedulerOK, KiScheduleThread, ThreadStates
<1>3. CASE next = NoThread /\ p > CurrentPriority
  <2>1. ReadyOK'
    BY <1>1, <1>3, UnchangedReady DEF KiScheduleThread, SchedulerOK
  <2> QED BY <1>1, <1>3, <2>1 DEF SchedulerOK, KiScheduleThread, ThreadStates
<1>4. CASE ~(p > IF next # NoThread THEN priority[next] ELSE CurrentPriority)
  <2>1. AddToTail(p, t)
    BY <1>4 DEF KiScheduleThread
  <2>2. ReadyOK'
    BY <1>1, <2>1, AddToTailReady DEF SchedulerOK
  <2> QED BY <1>1, <1>4, <2>2 DEF SchedulerOK, KiScheduleThread, ThreadStates
<1> QED BY <1>2, <1>3, <1>4

\* Choosing the next thread from the lists, if none is chosen yet.
LEMMA SelectStandbyOK ==
    ASSUME TypeInvariant, NEW low, SelectStandby(low)
    PROVE  SchedulerOK'
<1>1. SchedulerOK
  BY SchedulerTypes
<1>2. CASE next = NoThread /\ SomeReady(low)
  <2>1. readyMask # {}
    BY <1>2 DEF SomeReady
  <2>2. HighestPriorityThread \in Threads
    BY <1>1, <2>1, HighestReadyThread DEF SchedulerOK
  <2>3. ReadyOK'
    BY <1>1, <1>2, <2>1, RemoveHighestReady DEF SelectStandby, SchedulerOK
  <2> QED BY <1>1, <1>2, <2>2, <2>3 DEF SelectStandby, SchedulerOK, ThreadStates
<1>3. CASE ~(next = NoThread /\ SomeReady(low))
  <2>1. ReadyOK'
    BY <1>1, <1>3, UnchangedReady DEF SelectStandby, SchedulerOK
  <2> QED BY <1>1, <1>3, <2>1 DEF SelectStandby, SchedulerOK
<1> QED BY <1>2, <1>3

\* The end of a quantum, called by the interrupt and by the wait routine.
LEMMA KiQuantumEndOK ==
    ASSUME TypeInvariant, current \in Threads, NEW q \in Int, q <= ThreadQuantum,
           KiQuantumEnd(q)
    PROVE  /\ SchedulerOK'
           /\ priority' \in [Threads -> Priorities]
           /\ quantum' \in [Threads -> 0..ThreadQuantum]
<1> DEFINE np == IF priority[current] < LowRealtimePriority
                    /\ priority[current] - 1 >= basePriority[current]
                 THEN priority[current] - 1 ELSE priority[current]
<1>1. /\ priority \in [Threads -> Priorities]
      /\ basePriority \in [Threads -> Priorities]
      /\ quantum \in [Threads -> 0..ThreadQuantum]
      /\ SchedulerOK
  BY SchedulerTypes DEF TypeInvariant, TypeOK
<1>2. ThreadQuantum \in Nat /\ HighPriority \in Nat
  BY NumbersAssumption
<1>3. np \in Priorities
  BY <1>1, <1>2 DEF Priorities
<1>4. CASE q <= 0
  <2>1. SelectStandby(np)
    BY <1>4 DEF KiQuantumEnd
  <2>2. SchedulerOK'
    BY <2>1, SelectStandbyOK
  <2> QED BY <1>1, <1>2, <1>3, <1>4, <2>2 DEF KiQuantumEnd
<1>5. CASE ~(q <= 0)
  <2>1. q \in 0..ThreadQuantum
    BY <1>2, <1>5
  <2>2. ReadyOK'
    BY <1>1, <1>5, UnchangedReady DEF KiQuantumEnd, SchedulerOK
  <2> QED BY <1>1, <1>5, <2>1, <2>2 DEF KiQuantumEnd, SchedulerOK
<1> QED BY <1>4, <1>5

\* Giving the processor to the standby thread.
LEMMA SwitchToNextOK ==
    ASSUME TypeInvariant, current \in Threads, next # NoThread, SwitchToNext
    PROVE  SchedulerOK' /\ current' \in Threads
<1>1. SchedulerOK /\ priority \in [Threads -> Priorities]
  BY SchedulerTypes DEF TypeInvariant, TypeOK
<1>2. priority[current] \in Priorities
  BY <1>1
<1>3. ReadyOK'
  BY <1>1, <1>2, AddToTailReady DEF SwitchToNext, SchedulerOK
<1> QED BY <1>1, <1>3 DEF SwitchToNext, SchedulerOK, ThreadStates

-----------------------------------------------------------------------------
(* Every action preserves the type invariant.                               *)

USE DEF threadVars, readyVars, prcbVars, objectVars, waitVars, dpcVars, intVars,
        cpuVars

\* The start.
LEMMA InitTypes == Init => TypeInvariant
<1> SUFFICES ASSUME Init PROVE TypeInvariant
  OBVIOUS
<1>1. \A S : <<>> \in Seq(S)
  BY EmptySeq
<1>2. TypeOK
  <2>1. NoFrame \in Frames
    BY DEF NoFrame, Frames
  <2>2. /\ InitialPriority \in [Threads -> Priorities]
        /\ ThreadQuantum \in 0..ThreadQuantum
        /\ 0 \in 0..MaxDpcs
        /\ FirstThread \in Threads
    BY ThreadsAssumption, NumbersAssumption
  <2>3. /\ ready \in [Priorities -> Seq(Threads)]
        /\ waitList \in [Objects -> Seq(Threads)]
        /\ signal \in [Objects -> Int]
    BY <1>1 DEF Init
  <2> QED BY <2>1, <2>2, <2>3 DEF Init, TypeOK, PcValues
<1>3. ReadyMaskExact
  BY DEF Init, ReadyMaskExact
<1>4. CpuConsistent
  BY DEF Init, CpuConsistent
<1> QED BY <1>2, <1>3, <1>4 DEF TypeInvariant

\* Entering one of the routines that the steps below describe.
LEMMA CallTypes ==
    ASSUME TypeInvariant, NEW routine \in PcValues, NEW inc \in Increments \union {0},
           NEW obj \in Objects \union {NoObject}, NEW wait \in BOOLEAN,
           Call(routine, obj, inc, wait)
    PROVE  /\ pc' \in PcValues /\ frame' \in Frames
           /\ irql' = DISPATCH_LEVEL /\ pc' = routine
           /\ frame'.obj = obj /\ frame'.wait = wait /\ frame'.old = irql
BY DEF TypeInvariant, TypeOK, Call, Frames

\* KeSetEvent, up to the test of the waiters.
LEMMA KeSetEventTypes ==
    ASSUME TypeInvariant, NEW e \in Events, NEW inc \in Increments,
           NEW wait \in BOOLEAN, KeSetEvent(e, inc, wait)
    PROVE  TypeInvariant'
<1>1. /\ pc' \in PcValues /\ frame' \in Frames
      /\ irql' \in {PASSIVE_LEVEL, DISPATCH_LEVEL}
  <2>1. CASE Call("release", NoObject, 0, wait)
    BY <2>1, CallTypes DEF PcValues
  <2>2. CASE Call("waittest", e, inc, wait)
    BY <2>2, CallTypes DEF PcValues, Objects
  <2>3. CASE UNCHANGED cpuVars
    BY <2>3 DEF TypeInvariant, TypeOK
  <2> QED BY <2>1, <2>2, <2>3 DEF KeSetEvent
<1>2. signal' \in [Objects -> Int] /\ crashed' \in BOOLEAN
  <2>1. signal' = signal \/ signal' = [signal EXCEPT ![e] = 1]
    BY DEF KeSetEvent
  <2>2. crashed' = TRUE \/ crashed' = crashed
    BY DEF KeSetEvent
  <2>3. signal' \in [Objects -> Int]
    BY <2>1 DEF TypeInvariant, TypeOK
  <2>4. crashed' \in BOOLEAN
    BY <2>2 DEF TypeInvariant, TypeOK
  <2> QED BY <2>3, <2>4
<1>3. TypeOK'
  BY <1>1, <1>2 DEF TypeInvariant, TypeOK, KeSetEvent
<1>4. ReadyMaskExact'
  BY DEF TypeInvariant, ReadyMaskExact, KeSetEvent
<1>5. CpuConsistent'
  BY DEF TypeInvariant, CpuConsistent, KeSetEvent, Call, MayCall, ThreadCalls, ThreadRuns, DpcCalls, Objects
<1> QED BY <1>3, <1>4, <1>5 DEF TypeInvariant

\* KeResetEvent.
LEMMA KeResetEventTypes ==
    ASSUME TypeInvariant, NEW e \in Events, KeResetEvent(e)
    PROVE  TypeInvariant'
<1>1. TypeOK'
  BY DEF TypeInvariant, TypeOK, KeResetEvent, Objects
<1>2. ReadyMaskExact'
  BY DEF TypeInvariant, ReadyMaskExact, KeResetEvent
<1>3. CpuConsistent'
  BY DEF TypeInvariant, CpuConsistent, KeResetEvent
<1> QED BY <1>1, <1>2, <1>3 DEF TypeInvariant

\* KeReleaseSemaphore, or the refusal to go above the limit.
LEMMA KeReleaseSemaphoreTypes ==
    ASSUME TypeInvariant, NEW s \in Semaphores, NEW inc \in Increments,
           NEW adj \in Adjustments, NEW wait \in BOOLEAN,
           KeReleaseSemaphore(s, inc, adj, wait)
    PROVE  TypeInvariant'
<1>1. signal[s] + adj \in Int
  BY NumbersAssumption DEF TypeInvariant, TypeOK, Objects
<1>2. /\ pc' \in PcValues /\ frame' \in Frames /\ irql' = DISPATCH_LEVEL
  <2>1. CASE \E w \in BOOLEAN : Call("release", NoObject, 0, w)
    BY <2>1, CallTypes DEF PcValues
  <2>2. CASE Call("waittest", s, inc, wait)
    BY <2>2, CallTypes DEF PcValues, Objects
  <2> QED BY <2>1, <2>2 DEF KeReleaseSemaphore
<1>6. signal' \in [Objects -> Int]
  BY <1>1 DEF TypeInvariant, TypeOK, KeReleaseSemaphore
<1>7. TypeOK'
  BY <1>2, <1>6 DEF TypeInvariant, TypeOK, KeReleaseSemaphore
<1>3. ReadyMaskExact'
  BY DEF TypeInvariant, ReadyMaskExact, KeReleaseSemaphore
<1>4. CpuConsistent'
  BY DEF TypeInvariant, CpuConsistent, KeReleaseSemaphore, Call, MayCall, ThreadCalls, ThreadRuns, DpcCalls, Objects
<1> QED BY <1>7, <1>3, <1>4 DEF TypeInvariant

\* KeReleaseMutant, with its refusals.
LEMMA KeReleaseMutantTypes ==
    ASSUME TypeInvariant, NEW m \in Mutants, NEW inc \in Increments,
           NEW abandon \in BOOLEAN, NEW wait \in BOOLEAN,
           KeReleaseMutant(m, inc, abandon, wait)
    PROVE  TypeInvariant'
<1>1. /\ pc' \in PcValues /\ frame' \in Frames /\ irql' = DISPATCH_LEVEL
  <2>1. CASE \E w \in BOOLEAN : Call("release", NoObject, 0, w)
    BY <2>1, CallTypes DEF PcValues
  <2>2. CASE Call("waittest", m, inc, wait)
    BY <2>2, CallTypes DEF PcValues, Objects
  <2> QED BY <2>1, <2>2 DEF KeReleaseMutant
<1>2. /\ signal' \in [Objects -> Int]
      /\ owner' \in [Mutants -> Threads \union {NoThread}]
      /\ abandoned' \in [Mutants -> BOOLEAN]
      /\ mutantList' \in [Threads -> SUBSET Mutants]
  <2>1. signal[m] + 1 \in Int
    BY DEF TypeInvariant, TypeOK, Objects
  <2>2. signal' \in [Objects -> Int]
    <3>1. \/ signal' = signal \/ signal' = [signal EXCEPT ![m] = 1]
          \/ signal' = [signal EXCEPT ![m] = @ + 1]
      BY DEF KeReleaseMutant
    <3> QED BY <2>1, <3>1 DEF TypeInvariant, TypeOK
  <2>3. owner' \in [Mutants -> Threads \union {NoThread}]
    BY DEF TypeInvariant, TypeOK, KeReleaseMutant
  <2>4. abandoned' \in [Mutants -> BOOLEAN]
    BY DEF TypeInvariant, TypeOK, KeReleaseMutant
  <2>5. mutantList' \in [Threads -> SUBSET Mutants]
    <3>1. \/ mutantList' = mutantList
          \/ mutantList' = [t \in Threads |-> mutantList[t] \ {m}]
      BY DEF KeReleaseMutant
    <3>2. mutantList \in [Threads -> SUBSET Mutants]
      BY DEF TypeInvariant, TypeOK
    <3> QED BY <3>1, <3>2
  <2> QED BY <2>2, <2>3, <2>4, <2>5
<1>3. TypeOK'
  BY <1>1, <1>2 DEF TypeInvariant, TypeOK, KeReleaseMutant
<1>4. ReadyMaskExact'
  BY DEF TypeInvariant, ReadyMaskExact, KeReleaseMutant
<1>5. CpuConsistent'
  BY DEF TypeInvariant, CpuConsistent, KeReleaseMutant, Call, ThreadCalls, ThreadRuns, Objects
<1> QED BY <1>3, <1>4, <1>5 DEF TypeInvariant

\* A thread that is started.
LEMMA KeScheduleThreadTypes ==
    ASSUME TypeInvariant, NEW t \in Threads, KeScheduleThread(t)
    PROVE  TypeInvariant'
<1>1. SchedulerOK'
  BY KiScheduleThreadOK DEF TypeInvariant, TypeOK, KeScheduleThread
<1>2. TypeOK'
  BY <1>1 DEF TypeInvariant, TypeOK, KeScheduleThread, Call, Frames, PcValues, SchedulerOK, ReadyOK, ThreadStates
<1>3. CpuConsistent'
  BY DEF TypeInvariant, CpuConsistent, KeScheduleThread, Call, MayCall, ThreadCalls, ThreadRuns, DpcCalls
<1> QED BY <1>1, <1>2, <1>3 DEF TypeInvariant, SchedulerOK, ReadyOK

\* What a satisfied wait takes from the object.
LEMMA KiWaitSatisfyAnyTypes ==
    ASSUME TypeInvariant, NEW o \in Objects, NEW t \in Threads,
           KiWaitSatisfyAny(o, t)
    PROVE  /\ signal' \in [Objects -> Int]
           /\ owner' \in [Mutants -> Threads \union {NoThread}]
           /\ abandoned' \in [Mutants -> BOOLEAN]
           /\ mutantList' \in [Threads -> SUBSET Mutants]
<1>1. signal[o] - 1 \in Int
  BY DEF TypeInvariant, TypeOK
<1>2. signal' \in [Objects -> Int]
  <2>1. \/ signal' = signal \/ signal' = [signal EXCEPT ![o] = 0]
        \/ signal' = [signal EXCEPT ![o] = @ - 1]
    BY DEF KiWaitSatisfyAny, KiWaitSatisfyMutant
  <2>2. signal \in [Objects -> Int]
    BY DEF TypeInvariant, TypeOK
  <2> QED BY <1>1, <2>1, <2>2
<1>3. owner' \in [Mutants -> Threads \union {NoThread}]
  BY DEF KiWaitSatisfyAny, KiWaitSatisfyMutant, TypeInvariant, TypeOK
<1>4. abandoned' \in [Mutants -> BOOLEAN]
  BY DEF KiWaitSatisfyAny, KiWaitSatisfyMutant, TypeInvariant, TypeOK
<1>5. mutantList' \in [Threads -> SUBSET Mutants]
  <2>1. \/ mutantList' = mutantList
        \/ o \in Mutants /\ mutantList' = [mutantList EXCEPT ![t] = @ \union {o}]
    BY DEF KiWaitSatisfyAny, KiWaitSatisfyMutant
  <2>2. mutantList \in [Threads -> SUBSET Mutants]
    BY DEF TypeInvariant, TypeOK
  <2> QED BY <2>1, <2>2
<1> QED BY <1>2, <1>3, <1>4, <1>5

\* What KiUnwaitThread leaves a thread with.
LEMMA UnwaitTypes ==
    ASSUME TypeInvariant, NEW t \in Threads, NEW inc \in Nat
    PROVE  /\ PriorityAfterWait(t, inc) \in Priorities
           /\ QuantumAfterWait(t) \in 0..ThreadQuantum
<1>1. /\ priority[t] \in 1..HighPriority /\ basePriority[t] \in 1..HighPriority
      /\ quantum[t] \in 0..ThreadQuantum
  BY DEF TypeInvariant, TypeOK, Priorities
<1>2. /\ HighPriority \in Nat /\ LowRealtimePriority \in Nat
      /\ LowRealtimePriority > 1 /\ HighPriority >= LowRealtimePriority
      /\ ThreadQuantum \in Nat \ {0} /\ WaitQuantumDecrement \in Nat \ {0}
      /\ TimeCriticalBasePriority \in Nat
  BY NumbersAssumption
<1>3. BoostedPriority(t, inc) \in Priorities
  BY <1>1, <1>2 DEF BoostedPriority, Priorities
<1>4. PriorityAfterWait(t, inc) \in Priorities
  BY <1>1, <1>2, <1>3 DEF PriorityAfterWait, Priorities
<1>5. QuantumAfterWait(t) \in 0..ThreadQuantum
  BY <1>1, <1>2 DEF QuantumAfterWait, UsesUpQuantum, PaysForWait
<1> QED BY <1>4, <1>5

\* One waiter released.
LEMMA KiWaitTestTypes ==
    ASSUME TypeInvariant, KiWaitTest
    PROVE  TypeInvariant'
<1> DEFINE o == frame.obj
           t == Head(waitList[o])
<1>1. o \in Objects /\ waitList[o] \in Seq(Threads) /\ waitList[o] # <<>>
  BY DEF KiWaitTest, MoreToWake, TypeInvariant, TypeOK, CpuConsistent
<1>2. t \in Threads /\ Tail(waitList[o]) \in Seq(Threads)
  BY <1>1, TailOfList
<1>3. frame.inc \in Nat
  <2>1. CASE frame.inc = 0
    BY <2>1
  <2>2. CASE frame.inc \in Increments
    BY <2>2, NumbersAssumption
  <2>3. frame.inc \in Increments \/ frame.inc = 0
    BY DEF TypeInvariant, TypeOK, Frames
  <2> QED BY <2>1, <2>2, <2>3
<1>4. KiWaitSatisfyAny(o, t) /\ KiUnwaitThread(o, t, frame.inc)
  BY DEF KiWaitTest
<1>5. /\ signal' \in [Objects -> Int]
      /\ owner' \in [Mutants -> Threads \union {NoThread}]
      /\ abandoned' \in [Mutants -> BOOLEAN]
      /\ mutantList' \in [Threads -> SUBSET Mutants]
  BY <1>1, <1>2, <1>4, KiWaitSatisfyAnyTypes
<1>6. /\ PriorityAfterWait(t, frame.inc) \in Priorities
      /\ QuantumAfterWait(t) \in 0..ThreadQuantum
  BY <1>2, <1>3, UnwaitTypes
<1>7. SchedulerOK'
  BY <1>2, <1>4, <1>6, KiScheduleThreadOK DEF KiUnwaitThread
<1>8. /\ priority' \in [Threads -> Priorities]
      /\ quantum' \in [Threads -> 0..ThreadQuantum]
      /\ waitList' \in [Objects -> Seq(Threads)]
      /\ waitIn' \subseteq Threads
  <2> HIDE DEF t
  <2> QED BY <1>2, <1>4, <1>6 DEF KiUnwaitThread, TypeInvariant, TypeOK
<1>9. waitStatus' \in [Threads -> {"SUCCESS", "ABANDONED"}]
  BY DEF KiWaitTest, SatisfiedStatus, TypeInvariant, TypeOK
<1>10. TypeOK'
  BY <1>5, <1>7, <1>8, <1>9
     DEF KiWaitTest, TypeInvariant, TypeOK, SchedulerOK, ReadyOK, ThreadStates
<1>11. CpuConsistent'
  BY DEF KiWaitTest, TypeInvariant, CpuConsistent
<1> QED BY <1>7, <1>10, <1>11 DEF TypeInvariant, SchedulerOK, ReadyOK

\* No waiter can be released any more.
LEMMA KiWaitTestDoneTypes ==
    ASSUME TypeInvariant, KiWaitTestDone
    PROVE  TypeInvariant'
<1>1. frame' \in Frames
  BY DEF KiWaitTestDone, TypeInvariant, TypeOK, Frames
<1>2. TypeOK'
  BY <1>1 DEF KiWaitTestDone, TypeInvariant, TypeOK, PcValues
<1>3. ReadyMaskExact'
  BY DEF KiWaitTestDone, TypeInvariant, ReadyMaskExact
<1>4. CpuConsistent'
  <2>1. frame'.old = frame.old
    BY DEF KiWaitTestDone, TypeInvariant, TypeOK, Frames
  <2> QED BY <2>1 DEF KiWaitTestDone, TypeInvariant, CpuConsistent
<1> QED BY <1>2, <1>3, <1>4 DEF TypeInvariant

\* A routine returns to a caller that announced a wait.
LEMMA ReturnLockedTypes ==
    ASSUME TypeInvariant, ReturnLocked
    PROVE  TypeInvariant'
<1>1. NoFrame \in Frames
  BY DEF NoFrame, Frames
<1>2. TypeOK'
  BY <1>1 DEF ReturnLocked, TypeInvariant, TypeOK, PcValues
<1>3. ReadyMaskExact'
  BY DEF ReturnLocked, TypeInvariant, ReadyMaskExact
<1>4. CpuConsistent'
  BY DEF ReturnLocked, TypeInvariant, CpuConsistent
<1> QED BY <1>2, <1>3, <1>4 DEF TypeInvariant

\* The end of a routine: go on, switch, or ask for the switch.
LEMMA KiUnlockDispatcherDatabaseTypes ==
    ASSUME TypeInvariant, KiUnlockDispatcherDatabase
    PROVE  TypeInvariant'
<1>1. NoFrame \in Frames /\ frame.old \in {PASSIVE_LEVEL, DISPATCH_LEVEL}
  BY DEF NoFrame, Frames, TypeInvariant, TypeOK
<1>2. /\ SchedulerOK' /\ current' \in Threads \union {Idle}
      /\ frame.old = PASSIVE_LEVEL => current' # Idle
  <2>1. CASE frame.old < DISPATCH_LEVEL /\ next # NoThread
    <3>1. current \in Threads
      BY <2>1 DEF KiUnlockDispatcherDatabase, TypeInvariant, TypeOK, CpuConsistent,
                  DISPATCH_LEVEL
    <3> QED BY <2>1, <3>1, SwitchToNextOK, ThreadsAssumption
            DEF KiUnlockDispatcherDatabase
  <2>2. CASE ~(frame.old < DISPATCH_LEVEL /\ next # NoThread)
    <3>1. UNCHANGED <<readyVars, state, prcbVars>>
      BY <2>2 DEF KiUnlockDispatcherDatabase
    <3>2. SchedulerOK'
      BY <3>1, SchedulerTypes, UnchangedReady DEF SchedulerOK
    <3> QED BY <3>1, <3>2 DEF KiUnlockDispatcherDatabase, TypeInvariant, TypeOK,
                              CpuConsistent, PASSIVE_LEVEL, DISPATCH_LEVEL
  <2> QED BY <2>1, <2>2
<1>3. dispatchPending' \in BOOLEAN
  BY DEF KiUnlockDispatcherDatabase, TypeInvariant, TypeOK
<1>4. TypeOK'
  BY <1>1, <1>2, <1>3 DEF KiUnlockDispatcherDatabase, TypeInvariant, TypeOK, PcValues,
                          SchedulerOK, ReadyOK, ThreadStates
<1>5. CpuConsistent'
  BY <1>1, <1>2 DEF KiUnlockDispatcherDatabase, TypeInvariant, CpuConsistent
<1> QED BY <1>2, <1>4, <1>5 DEF TypeInvariant, SchedulerOK, ReadyOK

\* The wait routine gives up the processor.
LEMMA KiSwapThreadTypes ==
    ASSUME TypeInvariant, KiSwapThread
    PROVE  TypeInvariant'
<1>1. ReadyOK' /\ current' \in Threads \union {Idle}
  <2>1. SchedulerOK
    BY SchedulerTypes
  <2>2. CASE next # NoThread /\ current' = next /\ UNCHANGED readyVars
    BY <2>1, <2>2, UnchangedReady DEF SchedulerOK
  <2>3. CASE readyMask # {} /\ current' = HighestPriorityThread
             /\ RemoveHighestPriorityThread
    BY <2>1, <2>3, HighestReadyThread, RemoveHighestReady DEF SchedulerOK
  <2>4. CASE current' = Idle /\ UNCHANGED readyVars
    BY <2>1, <2>4, UnchangedReady DEF SchedulerOK
  <2> QED BY <2>2, <2>3, <2>4 DEF KiSwapThread
<1>2. state' \in [Threads -> ThreadStates]
  BY DEF KiSwapThread, TypeInvariant, TypeOK, ThreadStates
<1>3. irql' \in {PASSIVE_LEVEL, DISPATCH_LEVEL} /\ next' = NoThread
  BY DEF KiSwapThread
<1>4. TypeOK'
  BY <1>1, <1>2, <1>3 DEF KiSwapThread, TypeInvariant, TypeOK, PcValues, ReadyOK,
                          ThreadStates
<1>5. CpuConsistent'
  BY DEF KiSwapThread, TypeInvariant, CpuConsistent
<1> QED BY <1>1, <1>4, <1>5 DEF TypeInvariant, ReadyOK

\* A wait: satisfied at once, refused, or begun.
LEMMA KeWaitForSingleObjectTypes ==
    ASSUME TypeInvariant, NEW o \in Objects, NEW poll \in BOOLEAN,
           KeWaitForSingleObject(o, poll)
    PROVE  TypeInvariant'
<1> DEFINE old == IF waitNext[current] THEN PASSIVE_LEVEL ELSE irql
<1>1. /\ current \in Threads /\ ~dpcActive /\ pc = "run"
      /\ NoFrame \in Frames
      /\ old \in {PASSIVE_LEVEL, DISPATCH_LEVEL}
  BY DEF KeWaitForSingleObject, ThreadRuns, TypeInvariant, TypeOK, NoFrame, Frames
<1>2. /\ frame' \in Frames
      /\ pc' \in {"adjust", "release", "swap"}
  <2>1. [NoFrame EXCEPT !.old = old] \in Frames
    BY <1>1 DEF Frames
  <2> QED BY <1>1, <2>1 DEF KeWaitForSingleObject
<1>3. /\ signal' \in [Objects -> Int]
      /\ owner' \in [Mutants -> Threads \union {NoThread}]
      /\ abandoned' \in [Mutants -> BOOLEAN]
      /\ mutantList' \in [Threads -> SUBSET Mutants]
  <2>1. CASE KiWaitSatisfyAny(o, current)
    BY <1>1, <2>1, KiWaitSatisfyAnyTypes
  <2>2. CASE UNCHANGED objectVars
    BY <2>2 DEF TypeInvariant, TypeOK
  <2> QED BY <2>1, <2>2 DEF KeWaitForSingleObject
<1>4. /\ waitList' \in [Objects -> Seq(Threads)]
      /\ waitIn' \subseteq Threads
      /\ state' \in [Threads -> ThreadStates]
  <2>1. waitList \in [Objects -> Seq(Threads)] /\ waitIn \subseteq Threads
        /\ state \in [Threads -> ThreadStates]
    BY DEF TypeInvariant, TypeOK, ThreadStates
  <2>2. CASE UNCHANGED <<waitVars, state>>
    BY <2>1, <2>2
  <2>3. CASE /\ waitList' = [waitList EXCEPT ![o] = Append(@, current)]
             /\ waitIn' = waitIn \union {current}
             /\ state' = [state EXCEPT ![current] = "Waiting"]
    BY <1>1, <2>1, <2>3 DEF ThreadStates
  <2> QED BY <2>2, <2>3 DEF KeWaitForSingleObject
<1>5. /\ waitStatus' \in [Threads -> {"SUCCESS", "ABANDONED"}]
      /\ waitNext' \in [Threads -> BOOLEAN]
      /\ irql' = DISPATCH_LEVEL
  BY DEF KeWaitForSingleObject, TypeInvariant, TypeOK, SatisfiedStatus
<1>6. TypeOK'
  BY <1>2, <1>3, <1>4, <1>5
     DEF KeWaitForSingleObject, TypeInvariant, TypeOK, PcValues, ThreadStates
<1>7. ReadyMaskExact'
  BY DEF KeWaitForSingleObject, TypeInvariant, ReadyMaskExact
<1>8. CpuConsistent'
  BY <1>1, <1>2, <1>5, ThreadsAssumption
     DEF KeWaitForSingleObject, TypeInvariant, CpuConsistent
<1> QED BY <1>6, <1>7, <1>8 DEF TypeInvariant

\* A wait that was satisfied at once costs quantum.
LEMMA KiAdjustQuantumThreadTypes ==
    ASSUME TypeInvariant, KiAdjustQuantumThread
    PROVE  TypeInvariant'
<1> DEFINE q == quantum[current] - WaitQuantumDecrement
<1>1. current \in Threads
  BY DEF KiAdjustQuantumThread, TypeInvariant, TypeOK, CpuConsistent
<1>2. /\ SchedulerOK' /\ priority' \in [Threads -> Priorities]
      /\ quantum' \in [Threads -> 0..ThreadQuantum]
  <2>1. CASE KiQuantumEnd(q)
    <3>1. /\ quantum[current] \in 0..ThreadQuantum
          /\ ThreadQuantum \in Nat /\ WaitQuantumDecrement \in Nat
      BY <1>1, NumbersAssumption DEF TypeInvariant, TypeOK
    <3>2. q \in Int /\ q <= ThreadQuantum
      BY <3>1
    <3> QED BY <1>1, <2>1, <3>2, KiQuantumEndOK
  <2>2. CASE UNCHANGED <<quantum, priority, next, state, readyVars>>
    BY <2>2, SchedulerTypes, UnchangedReady DEF SchedulerOK, TypeInvariant, TypeOK
  <2> QED BY <2>1, <2>2 DEF KiAdjustQuantumThread
<1>3. TypeOK'
  BY <1>2 DEF KiAdjustQuantumThread, TypeInvariant, TypeOK, PcValues, SchedulerOK,
              ReadyOK, ThreadStates
<1>4. CpuConsistent'
  BY DEF KiAdjustQuantumThread, TypeInvariant, CpuConsistent
<1> QED BY <1>2, <1>3, <1>4 DEF TypeInvariant, SchedulerOK, ReadyOK

\* Raising and lowering the interrupt level.
LEMMA IrqlTypes ==
    ASSUME TypeInvariant, KeRaiseIrqlToDpcLevel \/ KfLowerIrql
    PROVE  TypeInvariant'
<1>1. TypeOK'
  BY DEF KeRaiseIrqlToDpcLevel, KfLowerIrql, TypeInvariant, TypeOK
<1>2. ReadyMaskExact'
  BY DEF KeRaiseIrqlToDpcLevel, KfLowerIrql, TypeInvariant, ReadyMaskExact
<1>3. CpuConsistent'
  BY DEF KeRaiseIrqlToDpcLevel, KfLowerIrql, ThreadCalls, ThreadRuns, TypeInvariant,
         CpuConsistent
<1> QED BY <1>1, <1>2, <1>3 DEF TypeInvariant

\* The clock interrupt.
LEMMA HalpClockIsrTypes ==
    ASSUME TypeInvariant, HalpClockIsr
    PROVE  TypeInvariant'
<1>1. quantum' \in [Threads -> 0..ThreadQuantum]
  <2>1. /\ quantum \in [Threads -> 0..ThreadQuantum]
        /\ ThreadQuantum \in Nat /\ ClockQuantumDecrement \in Nat
    BY NumbersAssumption DEF TypeInvariant, TypeOK
  <2>2. \A n \in 0..ThreadQuantum :
            (IF n > ClockQuantumDecrement THEN n - ClockQuantumDecrement ELSE 0)
                \in 0..ThreadQuantum
    BY <2>1
  <2> QED BY <2>1, <2>2 DEF HalpClockIsr
<1>2. quantumEnd' \in BOOLEAN /\ dispatchPending' \in BOOLEAN
  BY DEF HalpClockIsr, TypeInvariant, TypeOK
<1>3. TypeOK'
  BY <1>1, <1>2 DEF HalpClockIsr, TypeInvariant, TypeOK
<1>4. ReadyMaskExact'
  BY DEF HalpClockIsr, TypeInvariant, ReadyMaskExact
<1>5. CpuConsistent'
  BY DEF HalpClockIsr, TypeInvariant, CpuConsistent
<1> QED BY <1>3, <1>4, <1>5 DEF TypeInvariant

\* A deferred procedure is queued.
LEMMA KeInsertQueueDpcTypes ==
    ASSUME TypeInvariant, KeInsertQueueDpc
    PROVE  TypeInvariant'
<1>1. dpcQueue' \in 0..MaxDpcs
  BY NumbersAssumption DEF KeInsertQueueDpc, TypeInvariant, TypeOK
<1>2. dpcRequested' \in BOOLEAN /\ dispatchPending' \in BOOLEAN
  BY DEF KeInsertQueueDpc, TypeInvariant, TypeOK
<1>3. TypeOK'
  BY <1>1, <1>2 DEF KeInsertQueueDpc, TypeInvariant, TypeOK
<1>4. ReadyMaskExact'
  BY DEF KeInsertQueueDpc, TypeInvariant, ReadyMaskExact
<1>5. CpuConsistent'
  BY DEF KeInsertQueueDpc, TypeInvariant, CpuConsistent
<1> QED BY <1>3, <1>4, <1>5 DEF TypeInvariant

\* The software interrupt begins.
LEMMA HalpSwIntDpcTypes ==
    ASSUME TypeInvariant, HalpSwIntDpc
    PROVE  TypeInvariant'
<1>1. TypeOK'
  BY DEF HalpSwIntDpc, TypeInvariant, TypeOK, PcValues
<1>2. ReadyMaskExact'
  BY DEF HalpSwIntDpc, TypeInvariant, ReadyMaskExact
<1>3. CpuConsistent'
  BY DEF HalpSwIntDpc, TypeInvariant, CpuConsistent
<1> QED BY <1>1, <1>2, <1>3 DEF TypeInvariant

\* The loop over the queued procedures.
LEMMA DpcTypes ==
    ASSUME TypeInvariant, KiExecuteDpcQueue \/ DpcReturns \/ DpcQueueRetired
    PROVE  TypeInvariant'
<1>1. dpcQueue' \in 0..MaxDpcs
  BY NumbersAssumption DEF KiExecuteDpcQueue, DpcReturns, DpcQueueRetired,
                           TypeInvariant, TypeOK
<1>2. TypeOK'
  BY <1>1 DEF KiExecuteDpcQueue, DpcReturns, DpcQueueRetired, TypeInvariant, TypeOK,
              PcValues
<1>3. ReadyMaskExact'
  BY DEF KiExecuteDpcQueue, DpcReturns, DpcQueueRetired, TypeInvariant, ReadyMaskExact
<1>4. CpuConsistent'
  BY DEF KiExecuteDpcQueue, DpcReturns, DpcQueueRetired, DpcCalls, TypeInvariant,
         CpuConsistent
<1> QED BY <1>2, <1>3, <1>4 DEF TypeInvariant

\* The interrupt handles the end of the quantum.
LEMMA SwIntQuantumEndTypes ==
    ASSUME TypeInvariant, SwIntQuantumEnd
    PROVE  TypeInvariant'
<1>1. current \in Threads
  BY DEF SwIntQuantumEnd, TypeInvariant, TypeOK, CpuConsistent
<1>2. /\ SchedulerOK' /\ priority' \in [Threads -> Priorities]
      /\ quantum' \in [Threads -> 0..ThreadQuantum]
  <2>1. CASE KiQuantumEnd(quantum[current])
    <3>1. quantum[current] \in 0..ThreadQuantum /\ ThreadQuantum \in Nat
      BY <1>1, NumbersAssumption DEF TypeInvariant, TypeOK
    <3>2. quantum[current] \in Int /\ quantum[current] <= ThreadQuantum
      BY <3>1
    <3> QED BY <1>1, <2>1, <3>2, KiQuantumEndOK
  <2>2. CASE UNCHANGED <<quantum, priority, next, state, readyVars>>
    BY <2>2, SchedulerTypes, UnchangedReady DEF SchedulerOK, TypeInvariant, TypeOK
  <2> QED BY <2>1, <2>2 DEF SwIntQuantumEnd
<1>3. TypeOK'
  BY <1>2 DEF SwIntQuantumEnd, TypeInvariant, TypeOK, PcValues, SchedulerOK, ReadyOK,
              ThreadStates
<1>4. CpuConsistent'
  BY DEF SwIntQuantumEnd, TypeInvariant, CpuConsistent
<1> QED BY <1>2, <1>3, <1>4 DEF TypeInvariant, SchedulerOK, ReadyOK

\* The interrupt switches to the standby thread.
LEMMA SwIntSwitchTypes ==
    ASSUME TypeInvariant, SwIntSwitch
    PROVE  TypeInvariant'
<1>1. current \in Threads /\ ~dpcActive
  BY DEF SwIntSwitch, TypeInvariant, TypeOK, CpuConsistent
<1>2. SchedulerOK' /\ current' \in Threads
  <2>1. CASE next # NoThread /\ SwitchToNext
    BY <1>1, <2>1, SwitchToNextOK
  <2>2. CASE UNCHANGED <<readyVars, state, prcbVars>>
    BY <1>1, <2>2, SchedulerTypes, UnchangedReady DEF SchedulerOK
  <2> QED BY <2>1, <2>2 DEF SwIntSwitch
<1>3. TypeOK'
  BY <1>2 DEF SwIntSwitch, TypeInvariant, TypeOK, PcValues, SchedulerOK, ReadyOK,
              ThreadStates
<1>4. CpuConsistent'
  BY <1>1, <1>2, ThreadsAssumption DEF SwIntSwitch, TypeInvariant, CpuConsistent
<1> QED BY <1>2, <1>3, <1>4 DEF TypeInvariant, SchedulerOK, ReadyOK

\* The idle loop looks for work and switches to a thread.
LEMMA IdleTypes ==
    ASSUME TypeInvariant, KiIdleLoop \/ IdleSwitch
    PROVE  TypeInvariant'
<1>1. /\ state' \in [Threads -> ThreadStates]
      /\ next' \in Threads \union {NoThread} /\ current' \in Threads \union {Idle}
      /\ irql' \in {PASSIVE_LEVEL, DISPATCH_LEVEL}
      /\ dispatchPending' \in BOOLEAN
      /\ pc' \in PcValues
  BY DEF KiIdleLoop, IdleSwitch, TypeInvariant, TypeOK, ThreadStates, PcValues
<1>2. TypeOK'
  BY <1>1 DEF KiIdleLoop, IdleSwitch, TypeInvariant, TypeOK, ThreadStates
<1>3. ReadyMaskExact'
  BY DEF KiIdleLoop, IdleSwitch, TypeInvariant, ReadyMaskExact
<1>4. CpuConsistent'
  BY ThreadsAssumption DEF KiIdleLoop, IdleSwitch, TypeInvariant, TypeOK, CpuConsistent
<1> QED BY <1>2, <1>3, <1>4 DEF TypeInvariant

\* A step of something else.
LEMMA StutterTypes == TypeInvariant /\ UNCHANGED vars => TypeInvariant'
<1> SUFFICES ASSUME TypeInvariant, UNCHANGED vars PROVE TypeInvariant'
  OBVIOUS
<1>1. TypeOK'
  BY DEF TypeInvariant, TypeOK, vars
<1>2. ReadyMaskExact'
  BY DEF TypeInvariant, ReadyMaskExact, vars
<1>3. CpuConsistent'
  BY DEF TypeInvariant, CpuConsistent, vars
<1> QED BY <1>1, <1>2, <1>3 DEF TypeInvariant

\* Every step keeps the invariant.
LEMMA NextTypes == TypeInvariant /\ [Next]_vars => TypeInvariant'
<1> SUFFICES ASSUME TypeInvariant, [Next]_vars PROVE TypeInvariant'
  OBVIOUS
<1>1. CASE Calls
  BY <1>1, KeSetEventTypes, KeResetEventTypes, KeReleaseSemaphoreTypes,
     KeReleaseMutantTypes, KeScheduleThreadTypes, KeWaitForSingleObjectTypes,
     IrqlTypes DEF Calls
<1>2. CASE Continue
  BY <1>2, KiWaitTestTypes, KiWaitTestDoneTypes, ReturnLockedTypes,
     KiUnlockDispatcherDatabaseTypes, KiSwapThreadTypes, KiAdjustQuantumThreadTypes,
     HalpSwIntDpcTypes, DpcTypes, SwIntQuantumEndTypes, SwIntSwitchTypes, IdleTypes
     DEF Continue
<1>3. CASE KfLowerIrql \/ DpcReturns \/ HalpClockIsr \/ KeInsertQueueDpc
  BY <1>3, IrqlTypes, DpcTypes, HalpClockIsrTypes, KeInsertQueueDpcTypes
<1>4. CASE UNCHANGED vars
  BY <1>4, StutterTypes
<1> QED BY <1>1, <1>2, <1>3, <1>4 DEF Next

-----------------------------------------------------------------------------
\* Every variable keeps its type, and no routine takes a thread off an empty
\* ready list or acts for a current thread there is not: KiSwapThread,
\* KiQuantumEnd, KiScheduleThread and KiUnlockDispatcherDatabase.
THEOREM TypeCorrect == Spec => []TypeOK
<1>1. Spec => []TypeInvariant
  BY InitTypes, NextTypes, PTL DEF Spec
<1>2. TypeInvariant => TypeOK
  BY DEF TypeInvariant
<1> QED BY <1>1, <1>2, PTL

\* KiReadyThreadMask has a bit for exactly the ready lists that are not empty,
\* which KiFindAndRemoveHighestPriorityThread relies on when it takes the first
\* thread of the list the highest bit names.
THEOREM MaskCorrect == Spec => []ReadyMaskExact
<1>1. Spec => []TypeInvariant
  BY InitTypes, NextTypes, PTL DEF Spec
<1>2. TypeInvariant => ReadyMaskExact
  BY DEF TypeInvariant
<1> QED BY <1>1, <1>2, PTL

-----------------------------------------------------------------------------
(* The five properties: the inductive invariant.                            *)

\* The ready lists from the side of a thread: it is on the list of its
\* priority if it is Ready, and on no other.
ReadyAre ==
    /\ \A p \in Priorities : NoRepeats(ready[p])
    /\ \A p \in Priorities, t \in Threads :
           t \in Listed(ready[p]) <=> state[t] = "Ready" /\ priority[t] = p

\* The Standby thread is not worse than the one it will replace.
StandbyBeatsCurrent == next # NoThread => priority[next] >= CurrentPriority

\* A semaphore is never taken more often than it was released.
CountsAreLeft == \A s \in Semaphores : signal[s] >= 0

\* The promise to wait next is made by the running thread in a call of its own,
\* and the thread stays at DISPATCH_LEVEL until it keeps it.
LockedToWait ==
    /\ frame.wait => pc \in {"waittest", "release"} /\ current # Idle /\ ~dpcActive
    /\ \A t \in Threads : waitNext[t] =>
           t = current /\ pc = "run" /\ irql = DISPATCH_LEVEL /\ ~dpcActive

\* Whenever a thread runs while another is Standby, the interrupt that will
\* switch is pending, or the thread is about to wait.
SwitchIsDue ==
    next # NoThread /\ pc = "run" /\ current # Idle /\ ~dpcActive =>
        dispatchPending \/ waitNext[current]

\* A request for the DPC interrupt stands for something that is still to be
\* done, and the idle loop switches only when nothing is.
DpcsRetired ==
    /\ dpcRequested => dpcQueue > 0 \/ dpcActive \/ pc = "retire"
    /\ pc = "idle" => dpcQueue = 0

SelectionRight == PrcbAgrees /\ ReadyAre /\ HighestPriorityRuns /\ StandbyBeatsCurrent

ObjectsRight == NoLostWakeup /\ MutantsAgree /\ CountsAreLeft

NothingForgotten == LockedToWait /\ SwitchIsDue /\ DpcNotStranded /\ DpcsRetired

SchedulerInv ==
    /\ TypeInvariant
    /\ SelectionRight
    /\ WaitListsAgree
    /\ ObjectsRight
    /\ PriorityInClass
    /\ NothingForgotten

\* The part of it that objects and their waiters need: to them it makes no
\* difference which of the Ready threads runs.
WaitsRight ==
    /\ TypeInvariant
    /\ PrcbAgrees
    /\ WaitListsAgree
    /\ ObjectsRight

\* It is a part.
LEMMA SchedulerWaits == SchedulerInv => WaitsRight
BY DEF SchedulerInv, SelectionRight, WaitsRight

-----------------------------------------------------------------------------
(* What the changes of the ready lists do to who is on them.                *)

\* The names of Dispatcher for what ListLemmas speaks of.
LEMMA ListNames == \A q : Listed(q) = Members(q) /\ (NoRepeats(q) <=> Distinct(q))
BY DEF Listed, NoRepeats, Members, Distinct

\* Priorities are integers, and the idle thread's is below all of them.
LEMMA PriorityRanges ==
    ASSUME TypeInvariant
    PROVE  /\ \A t \in Threads : priority[t] \in Int /\ priority[t] >= 1
           /\ \A t \in Threads : priority[t] \in Priorities
           /\ \A p \in Priorities : p \in Int /\ p >= 1
           /\ \A p \in readyMask : p \in Priorities
           /\ CurrentPriority \in Int
<1>1. HighPriority \in Nat /\ priority \in [Threads -> Priorities]
      /\ readyMask \subseteq Priorities /\ current \in Threads \union {Idle}
  BY NumbersAssumption DEF TypeInvariant, TypeOK
<1>2. \A p \in Priorities : p \in Int /\ p >= 1
  BY <1>1 DEF Priorities
<1>3. CurrentPriority \in Int
  BY <1>1, <1>2 DEF CurrentPriority
<1> QED BY <1>1, <1>2, <1>3

\* A thread that was not Ready is put last or first on a list.
LEMMA QueueReady ==
    ASSUME TypeInvariant, ReadyAre, NEW p \in Priorities, NEW t \in Threads,
           state[t] # "Ready", AddToTail(p, t) \/ AddToHead(p, t)
    PROVE  /\ \A r \in Priorities : NoRepeats(ready'[r])
           /\ \A r \in Priorities, u \in Threads :
                  u \in Listed(ready'[r]) <=> u \in Listed(ready[r]) \/ (u = t /\ r = p)
           /\ readyMask' = readyMask \union {p}
<1>1. ready \in [Priorities -> Seq(Threads)]
  BY DEF TypeInvariant, TypeOK
<1>2. ready[p] \in Seq(Threads) /\ Distinct(ready[p]) /\ t \notin Members(ready[p])
  BY <1>1, ListNames DEF ReadyAre
<1>3. /\ Members(Append(ready[p], t)) = Members(ready[p]) \union {t}
      /\ Distinct(Append(ready[p], t))
  BY <1>2, AppendMember
<1>4. /\ Members(<<t>> \o ready[p]) = Members(ready[p]) \union {t}
      /\ Distinct(<<t>> \o ready[p])
  BY <1>2, PrependMember
<1>5. /\ Members(ready'[p]) = Members(ready[p]) \union {t}
      /\ Distinct(ready'[p])
      /\ \A r \in Priorities \ {p} : ready'[r] = ready[r]
  BY <1>1, <1>3, <1>4 DEF AddToTail, AddToHead
<1>6. \A r \in Priorities : NoRepeats(ready'[r])
  BY <1>5, ListNames DEF ReadyAre
<1>7. ASSUME NEW r \in Priorities, NEW u \in Threads
      PROVE  u \in Listed(ready'[r]) <=> u \in Listed(ready[r]) \/ (u = t /\ r = p)
  <2>1. CASE r = p
    BY <1>5, <2>1, ListNames
  <2>2. CASE r # p
    BY <1>5, <2>2
  <2> QED BY <2>1, <2>2
<1> QED BY <1>6, <1>7 DEF AddToTail, AddToHead

\* The first of the highest list leaves it, and is on no other.
LEMMA DequeueReady ==
    ASSUME TypeInvariant, ReadyAre, readyMask # {}, RemoveHighestPriorityThread
    PROVE  /\ HighestPriorityThread \in Threads
           /\ state[HighestPriorityThread] = "Ready"
           /\ priority[HighestPriorityThread] \in readyMask
           /\ \A r \in readyMask : r <= priority[HighestPriorityThread]
           /\ \A r \in Priorities : NoRepeats(ready'[r])
           /\ \A r \in Priorities, u \in Threads :
                  u \in Listed(ready'[r]) <=>
                      u \in Listed(ready[r]) /\ u # HighestPriorityThread
           /\ readyMask' \subseteq readyMask
<1>1. ReadyOK
  BY DEF TypeInvariant, TypeOK, ReadyOK
<1>2. PICK h \in Priorities : h = HighestReady
  BY <1>1, HighestReadyThread
<1>3. PICK t \in Threads : t = HighestPriorityThread
  BY <1>1, HighestReadyThread
<1>4. /\ h \in readyMask /\ \A r \in readyMask : r <= h
      /\ ready \in [Priorities -> Seq(Threads)]
      /\ ready[h] \in Seq(Threads) /\ ready[h] # <<>> /\ Distinct(ready[h])
      /\ t = Head(ready[h])
  BY <1>1, <1>2, <1>3, HighestReadyThread, ListNames
     DEF ReadyOK, ReadyAre, HighestPriorityThread
<1>5. /\ t \in Members(ready[h])
      /\ Members(Tail(ready[h])) = Members(ready[h]) \ {t}
      /\ Distinct(Tail(ready[h]))
  BY <1>4, TailLeaves
<1>6. state[t] = "Ready" /\ priority[t] = h
  BY <1>5, ListNames DEF ReadyAre
<1>7. /\ ready' = [ready EXCEPT ![h] = Tail(ready[h])]
      /\ readyMask' \subseteq readyMask
  BY <1>2 DEF RemoveHighestPriorityThread
<1>8. /\ ready'[h] = Tail(ready[h])
      /\ \A r \in Priorities \ {h} : ready'[r] = ready[r]
  BY <1>4, <1>7
<1>9. \A r \in Priorities : NoRepeats(ready'[r])
  BY <1>5, <1>8, ListNames DEF ReadyAre
<1>10. ASSUME NEW r \in Priorities, NEW u \in Threads
       PROVE  u \in Listed(ready'[r]) <=> u \in Listed(ready[r]) /\ u # t
  <2>1. CASE r = h
    BY <1>5, <1>8, <2>1, ListNames
  <2>2. CASE r # h
    BY <1>6, <1>8, <2>2 DEF ReadyAre
  <2> QED BY <2>1, <2>2
<1> QED BY <1>3, <1>4, <1>6, <1>7, <1>9, <1>10

-----------------------------------------------------------------------------
(* Selecting and switching.                                                 *)

\* A step that touches nothing the scheduler looks at.
LEMMA SelectionUntouched ==
    ASSUME SelectionRight, UNCHANGED <<state, priority, readyVars, prcbVars>>,
           pc' = "swap" <=> pc = "swap"
    PROVE  SelectionRight'
<1>1. PrcbAgrees'
  BY DEF SelectionRight, PrcbAgrees
<1>2. ReadyAre' /\ HighestPriorityRuns' /\ StandbyBeatsCurrent'
  BY DEF SelectionRight, ReadyAre, HighestPriorityRuns, StandbyBeatsCurrent,
         CurrentPriority
<1> QED BY <1>1, <1>2 DEF SelectionRight

\* KiScheduleThread for a thread that was on no list and on no processor; its
\* priority may have changed while it was not.
LEMMA ScheduleSelects ==
    ASSUME TypeInvariant, SelectionRight, NEW t \in Threads, NEW p \in Priorities,
           state[t] \in {"Initialized", "Waiting"}, KiScheduleThread(t, p),
           priority' = [priority EXCEPT ![t] = p], current' = current,
           pc # "swap", pc' # "swap"
    PROVE  /\ SelectionRight'
           /\ state'[t] # "Waiting"
           /\ \A u \in Threads \ {t} : state'[u] = "Waiting" <=> state[u] = "Waiting"
<1>1. /\ priority \in [Threads -> Priorities] /\ next \in Threads \union {NoThread}
      /\ state \in [Threads -> ThreadStates] /\ current \in Threads \union {Idle}
      /\ NoThread \notin Threads
  BY ThreadsAssumption DEF TypeInvariant, TypeOK, ThreadStates
<1>2. t # current /\ t # next /\ state[t] # "Ready"
  BY DEF SelectionRight, PrcbAgrees
<1>3. /\ priority'[t] = p /\ \A u \in Threads \ {t} : priority'[u] = priority[u]
      /\ CurrentPriority' = CurrentPriority
  BY <1>1, <1>2 DEF CurrentPriority
<1>4. CASE next # NoThread /\ p > priority[next]
  <2>1. PICK s \in Threads : s = next
    BY <1>1, <1>4
  <2>2. state[s] = "Standby" /\ s # current /\ s # t
    BY <1>2, <2>1 DEF SelectionRight, PrcbAgrees
  <2>3. /\ AddToHead(priority[s], s) /\ next' = t
        /\ state' = [state EXCEPT ![s] = "Ready", ![t] = "Standby"]
    BY <1>4, <2>1 DEF KiScheduleThread
  <2>4. /\ state'[s] = "Ready" /\ state'[t] = "Standby"
        /\ \A u \in Threads \ {s, t} : state'[u] = state[u]
    BY <1>1, <2>2, <2>3
  <2>5. /\ \A r \in Priorities : NoRepeats(ready'[r])
        /\ \A r \in Priorities, u \in Threads :
               u \in Listed(ready'[r]) <=>
                   u \in Listed(ready[r]) \/ (u = s /\ r = priority[s])
        /\ readyMask' = readyMask \union {priority[s]}
    BY <1>1, <2>2, <2>3, QueueReady DEF SelectionRight
  <2>6. PrcbAgrees'
    BY <1>1, <1>2, <2>1, <2>2, <2>3, <2>4 DEF SelectionRight, PrcbAgrees
  <2>7. ReadyAre'
    <3>1. ASSUME NEW r \in Priorities, NEW u \in Threads
          PROVE  u \in Listed(ready'[r]) <=> state'[u] = "Ready" /\ priority'[u] = r
      <4>1. CASE u = s
        BY <1>3, <2>2, <2>4, <2>5, <4>1 DEF SelectionRight, ReadyAre
      <4>2. CASE u = t
        BY <1>2, <2>2, <2>4, <2>5, <4>2 DEF SelectionRight, ReadyAre
      <4>3. CASE u # s /\ u # t
        BY <1>3, <2>4, <2>5, <4>3 DEF SelectionRight, ReadyAre
      <4> QED BY <4>1, <4>2, <4>3
    <3> QED BY <2>5, <3>1 DEF ReadyAre
  <2>8. HighestPriorityRuns' /\ StandbyBeatsCurrent'
    <3>1. /\ p > priority[s] /\ priority[s] >= CurrentPriority
          /\ \A r \in readyMask : r <= priority[s]
      BY <1>4, <2>1 DEF SelectionRight, HighestPriorityRuns, StandbyBeatsCurrent
    <3>2. /\ p \in Int /\ priority[s] \in Int /\ CurrentPriority \in Int
          /\ \A r \in readyMask : r \in Int
      BY PriorityRanges
    <3>3. next' # NoThread /\ priority'[next'] = p
      BY <1>1, <1>3, <2>3
    <3>4. \A r \in readyMask' : r <= p
      BY <2>5, <3>1, <3>2
    <3>5. p >= CurrentPriority'
      BY <1>3, <3>1, <3>2
    <3> QED BY <3>3, <3>4, <3>5 DEF HighestPriorityRuns, StandbyBeatsCurrent
  <2>9. /\ state'[t] # "Waiting"
        /\ \A u \in Threads \ {t} : state'[u] = "Waiting" <=> state[u] = "Waiting"
    BY <2>2, <2>4
  <2> QED BY <2>6, <2>7, <2>8, <2>9 DEF SelectionRight
<1>5. CASE next = NoThread /\ p > CurrentPriority
  <2>1. next' = t /\ state' = [state EXCEPT ![t] = "Standby"] /\ UNCHANGED readyVars
    BY <1>5 DEF KiScheduleThread
  <2>2. state'[t] = "Standby" /\ \A u \in Threads \ {t} : state'[u] = state[u]
    BY <1>1, <2>1
  <2>3. PrcbAgrees'
    BY <1>1, <1>2, <1>5, <2>1, <2>2 DEF SelectionRight, PrcbAgrees
  <2>4. ReadyAre'
    <3>1. ASSUME NEW r \in Priorities, NEW u \in Threads
          PROVE  u \in Listed(ready'[r]) <=> state'[u] = "Ready" /\ priority'[u] = r
      <4>1. CASE u = t
        BY <1>2, <2>1, <2>2, <4>1 DEF SelectionRight, ReadyAre
      <4>2. CASE u # t
        BY <1>3, <2>1, <2>2, <4>2 DEF SelectionRight, ReadyAre
      <4> QED BY <4>1, <4>2
    <3> QED BY <2>1, <3>1 DEF SelectionRight, ReadyAre
  <2>5. HighestPriorityRuns' /\ StandbyBeatsCurrent'
    <3>1. \A r \in readyMask : r <= CurrentPriority
      BY <1>5 DEF SelectionRight, HighestPriorityRuns
    <3>2. p \in Int /\ CurrentPriority \in Int /\ \A r \in readyMask : r \in Int
      BY PriorityRanges
    <3>3. next' # NoThread /\ priority'[next'] = p
      BY <1>1, <1>3, <2>1
    <3>4. (\A r \in readyMask' : r <= p) /\ p >= CurrentPriority'
      BY <1>3, <1>5, <2>1, <3>1, <3>2
    <3> QED BY <3>3, <3>4 DEF HighestPriorityRuns, StandbyBeatsCurrent
  <2>6. /\ state'[t] # "Waiting"
        /\ \A u \in Threads \ {t} : state'[u] = "Waiting" <=> state[u] = "Waiting"
    BY <2>2
  <2> QED BY <2>3, <2>4, <2>5, <2>6 DEF SelectionRight
<1>6. CASE ~(p > IF next # NoThread THEN priority[next] ELSE CurrentPriority)
  <2>1. AddToTail(p, t) /\ state' = [state EXCEPT ![t] = "Ready"] /\ next' = next
    BY <1>6 DEF KiScheduleThread
  <2>2. state'[t] = "Ready" /\ \A u \in Threads \ {t} : state'[u] = state[u]
    BY <1>1, <2>1
  <2>3. /\ \A r \in Priorities : NoRepeats(ready'[r])
        /\ \A r \in Priorities, u \in Threads :
               u \in Listed(ready'[r]) <=> u \in Listed(ready[r]) \/ (u = t /\ r = p)
        /\ readyMask' = readyMask \union {p}
    BY <1>2, <2>1, QueueReady DEF SelectionRight
  <2>4. PrcbAgrees'
    BY <1>1, <1>2, <2>1, <2>2 DEF SelectionRight, PrcbAgrees
  <2>5. ReadyAre'
    <3>1. ASSUME NEW r \in Priorities, NEW u \in Threads
          PROVE  u \in Listed(ready'[r]) <=> state'[u] = "Ready" /\ priority'[u] = r
      <4>1. CASE u = t
        BY <1>2, <1>3, <2>2, <2>3, <4>1 DEF SelectionRight, ReadyAre
      <4>2. CASE u # t
        BY <1>3, <2>2, <2>3, <4>2 DEF SelectionRight, ReadyAre
      <4> QED BY <4>1, <4>2
    <3> QED BY <2>3, <3>1 DEF ReadyAre
  <2>6. HighestPriorityRuns' /\ StandbyBeatsCurrent'
    <3>1. next # NoThread => priority'[next'] = priority[next]
      BY <1>1, <1>2, <1>3, <2>1
    <3>2. CASE next # NoThread
      <4>1. /\ ~(p > priority[next]) /\ priority[next] >= CurrentPriority
            /\ \A r \in readyMask : r <= priority[next]
        BY <1>6, <3>2 DEF SelectionRight, HighestPriorityRuns, StandbyBeatsCurrent
      <4>2. p \in Int /\ priority[next] \in Int /\ \A r \in readyMask : r \in Int
        BY <1>1, <3>2, PriorityRanges
      <4>3. \A r \in readyMask' : r <= priority[next]
        BY <2>3, <4>1, <4>2
      <4> QED BY <1>3, <2>1, <3>1, <3>2, <4>1, <4>3
              DEF HighestPriorityRuns, StandbyBeatsCurrent
    <3>3. CASE next = NoThread
      <4>1. ~(p > CurrentPriority) /\ \A r \in readyMask : r <= CurrentPriority
        BY <1>6, <3>3 DEF SelectionRight, HighestPriorityRuns
      <4>2. p \in Int /\ CurrentPriority \in Int /\ \A r \in readyMask : r \in Int
        BY PriorityRanges
      <4>3. \A r \in readyMask' : r <= CurrentPriority
        BY <2>3, <4>1, <4>2
      <4> QED BY <1>3, <2>1, <3>3, <4>3 DEF HighestPriorityRuns, StandbyBeatsCurrent
    <3> QED BY <3>2, <3>3
  <2>7. /\ state'[t] # "Waiting"
        /\ \A u \in Threads \ {t} : state'[u] = "Waiting" <=> state[u] = "Waiting"
    BY <2>2
  <2> QED BY <2>4, <2>5, <2>6, <2>7 DEF SelectionRight
<1> QED BY <1>4, <1>5, <1>6

\* KiQuantumEnd for the running thread, whose priority may drop a level.
LEMMA QuantumEndSelects ==
    ASSUME TypeInvariant, SelectionRight, PriorityInClass, NEW q \in Int,
           current \in Threads, KiQuantumEnd(q), current' = current,
           basePriority' = basePriority, pc # "swap", pc' # "swap"
    PROVE  /\ SelectionRight' /\ PriorityInClass'
           /\ \A u \in Threads : state'[u] = "Waiting" <=> state[u] = "Waiting"
<1> DEFINE np == IF priority[current] < LowRealtimePriority
                    /\ priority[current] - 1 >= basePriority[current]
                 THEN priority[current] - 1 ELSE priority[current]
<1>1. /\ priority \in [Threads -> Priorities] /\ next \in Threads \union {NoThread}
      /\ basePriority \in [Threads -> Priorities]
      /\ state \in [Threads -> ThreadStates] /\ NoThread \notin Threads
      /\ current # Idle
  BY ThreadsAssumption DEF TypeInvariant, TypeOK, ThreadStates
<1>2. state[current] = "Running" /\ current # next
  BY DEF SelectionRight, PrcbAgrees
<1>3. CASE q <= 0
  <2>1. /\ np \in Int /\ np <= priority[current] /\ np >= basePriority[current]
        /\ priority[current] \in Int
        /\ basePriority[current] < LowRealtimePriority => np < LowRealtimePriority
    <3>1. \A p \in Priorities : p \in Int
      BY PriorityRanges
    <3>2. basePriority[current] \in Int /\ priority[current] \in Int
          /\ LowRealtimePriority \in Int
      BY <1>1, <3>1, NumbersAssumption
    <3>3. /\ priority[current] >= basePriority[current]
          /\ basePriority[current] < LowRealtimePriority =>
             priority[current] < LowRealtimePriority
      BY DEF PriorityInClass
    <3> QED BY <3>2, <3>3
  <2>2. priority' = [priority EXCEPT ![current] = np] /\ SelectStandby(np)
    BY <1>3 DEF KiQuantumEnd
  <2> HIDE DEF np
  <2>3. /\ priority'[current] = np
        /\ \A u \in Threads \ {current} : priority'[u] = priority[u]
        /\ CurrentPriority' = np /\ CurrentPriority = priority[current]
    BY <1>1, <2>2 DEF CurrentPriority
  <2>4. PriorityInClass'
    BY <2>1, <2>3 DEF PriorityInClass
  <2>5. CASE next = NoThread /\ SomeReady(np)
    <3>1. PICK low \in readyMask : low >= np
      BY <2>5 DEF SomeReady
    <3>2. RemoveHighestPriorityThread /\ readyMask # {}
      BY <2>2, <2>5, <3>1 DEF SelectStandby
    <3>3. PICK h \in Threads : h = HighestPriorityThread
      BY <3>2, DequeueReady DEF SelectionRight
    <3>4. /\ state[h] = "Ready" /\ \A r \in readyMask : r <= priority[h]
          /\ \A r \in Priorities : NoRepeats(ready'[r])
          /\ \A r \in Priorities, u \in Threads :
                 u \in Listed(ready'[r]) <=> u \in Listed(ready[r]) /\ u # h
          /\ readyMask' \subseteq readyMask
      BY <3>2, <3>3, DequeueReady DEF SelectionRight
    <3>5. next' = h /\ state' = [state EXCEPT ![h] = "Standby"] /\ h # current
      BY <1>2, <2>2, <2>5, <3>3, <3>4 DEF SelectStandby
    <3>6. state'[h] = "Standby" /\ \A u \in Threads \ {h} : state'[u] = state[u]
      BY <1>1, <3>5
    <3>7. PrcbAgrees'
      BY <1>1, <1>2, <2>5, <3>4, <3>5, <3>6 DEF SelectionRight, PrcbAgrees
    <3>8. ReadyAre'
      <4>1. ASSUME NEW r \in Priorities, NEW u \in Threads
            PROVE  u \in Listed(ready'[r]) <=> state'[u] = "Ready" /\ priority'[u] = r
        <5>1. CASE u = h
          BY <3>4, <3>6, <5>1
        <5>2. CASE u = current
          BY <1>2, <3>4, <3>5, <3>6, <5>2 DEF SelectionRight, ReadyAre
        <5>3. CASE u # h /\ u # current
          BY <2>3, <3>4, <3>6, <5>3 DEF SelectionRight, ReadyAre
        <5> QED BY <5>1, <5>2, <5>3
      <4> QED BY <3>4, <4>1 DEF ReadyAre
    <3>9. HighestPriorityRuns' /\ StandbyBeatsCurrent'
      <4>1. next' # NoThread /\ priority'[next'] = priority[h]
        BY <1>1, <2>3, <3>5
      <4>2. \A r \in readyMask' : r <= priority[h]
        BY <3>4
      <4>3. priority[h] >= low /\ priority[h] \in Int /\ low \in Int
        BY <3>4, PriorityRanges
      <4>4. priority[h] >= np
        BY <2>1, <3>1, <4>3
      <4> QED BY <2>3, <4>1, <4>2, <4>4 DEF HighestPriorityRuns, StandbyBeatsCurrent
    <3>10. \A u \in Threads : state'[u] = "Waiting" <=> state[u] = "Waiting"
      BY <3>4, <3>6
    <3> QED BY <2>4, <3>7, <3>8, <3>9, <3>10 DEF SelectionRight
  <2>6. CASE ~(next = NoThread /\ SomeReady(np))
    <3>1. UNCHANGED <<next, state, readyVars>>
      BY <2>2, <2>6 DEF SelectStandby
    <3>2. PrcbAgrees'
      BY <3>1 DEF SelectionRight, PrcbAgrees
    <3>3. ReadyAre'
      <4>1. ASSUME NEW r \in Priorities, NEW u \in Threads
            PROVE  u \in Listed(ready'[r]) <=> state'[u] = "Ready" /\ priority'[u] = r
        <5>1. CASE u = current
          BY <1>2, <3>1, <5>1 DEF SelectionRight, ReadyAre
        <5>2. CASE u # current
          BY <2>3, <3>1, <5>2 DEF SelectionRight, ReadyAre
        <5> QED BY <5>1, <5>2
      <4> QED BY <3>1, <4>1 DEF SelectionRight, ReadyAre
    <3>4. HighestPriorityRuns' /\ StandbyBeatsCurrent'
      <4>1. CASE next # NoThread
        <5>1. priority'[next'] = priority[next] /\ priority[next] \in Int
          BY <1>1, <1>2, <2>3, <3>1, <4>1, PriorityRanges
        <5>2. priority[next] >= priority[current]
          BY <2>3, <4>1 DEF SelectionRight, StandbyBeatsCurrent
        <5>3. priority[next] >= np
          BY <2>1, <5>1, <5>2
        <5> QED BY <2>3, <3>1, <4>1, <5>1, <5>3
                DEF SelectionRight, HighestPriorityRuns, StandbyBeatsCurrent
      <4>2. CASE next = NoThread
        <5>1. \A r \in readyMask : ~(r >= np) /\ r \in Int
          BY <2>6, <4>2, PriorityRanges DEF SomeReady
        <5>2. \A r \in readyMask : r <= np
          BY <2>1, <5>1
        <5> QED BY <2>3, <3>1, <4>2, <5>2 DEF HighestPriorityRuns, StandbyBeatsCurrent
      <4> QED BY <4>1, <4>2
    <3> QED BY <2>4, <3>1, <3>2, <3>3, <3>4 DEF SelectionRight
  <2> QED BY <2>5, <2>6
<1>4. CASE ~(q <= 0)
  <2>1. UNCHANGED <<priority, next, state, readyVars>>
    BY <1>4 DEF KiQuantumEnd
  <2>2. SelectionRight'
    BY <2>1, SelectionUntouched
  <2> QED BY <2>1, <2>2 DEF PriorityInClass
<1> QED BY <1>3, <1>4

\* The running thread goes to the tail of its list, the Standby thread runs.
LEMMA SwitchSelects ==
    ASSUME TypeInvariant, SelectionRight, current \in Threads, next # NoThread,
           SwitchToNext, priority' = priority, pc # "swap", pc' # "swap"
    PROVE  /\ SelectionRight' /\ next' = NoThread /\ current' \in Threads
           /\ \A u \in Threads : state'[u] = "Waiting" <=> state[u] = "Waiting"
<1>1. /\ priority \in [Threads -> Priorities] /\ state \in [Threads -> ThreadStates]
      /\ NoThread \notin Threads /\ Idle \notin Threads
  BY ThreadsAssumption DEF TypeInvariant, TypeOK, ThreadStates
<1>2. PICK s \in Threads : s = next
  BY DEF TypeInvariant, TypeOK
<1>3. PICK t \in Threads : t = current
  OBVIOUS
<1>4. state[t] = "Running" /\ state[s] = "Standby" /\ s # t
  BY <1>2, <1>3 DEF SelectionRight, PrcbAgrees
<1>5. /\ AddToTail(priority[t], t) /\ current' = s /\ next' = NoThread
      /\ state' = [state EXCEPT ![t] = "Ready", ![s] = "Running"]
  BY <1>2, <1>3 DEF SwitchToNext
<1>6. /\ state'[t] = "Ready" /\ state'[s] = "Running"
      /\ \A u \in Threads \ {s, t} : state'[u] = state[u]
  BY <1>1, <1>4, <1>5
<1>7. /\ \A r \in Priorities : NoRepeats(ready'[r])
      /\ \A r \in Priorities, u \in Threads :
             u \in Listed(ready'[r]) <=>
                 u \in Listed(ready[r]) \/ (u = t /\ r = priority[t])
      /\ readyMask' = readyMask \union {priority[t]}
  BY <1>1, <1>4, <1>5, QueueReady DEF SelectionRight
<1>8. PrcbAgrees'
  BY <1>1, <1>2, <1>3, <1>4, <1>5, <1>6 DEF SelectionRight, PrcbAgrees
<1>9. ReadyAre'
  <2>1. ASSUME NEW r \in Priorities, NEW u \in Threads
        PROVE  u \in Listed(ready'[r]) <=> state'[u] = "Ready" /\ priority'[u] = r
    <3>1. CASE u = t
      BY <1>4, <1>6, <1>7, <3>1 DEF SelectionRight, ReadyAre
    <3>2. CASE u = s
      BY <1>4, <1>6, <1>7, <3>2 DEF SelectionRight, ReadyAre
    <3>3. CASE u # t /\ u # s
      BY <1>6, <1>7, <3>3 DEF SelectionRight, ReadyAre
    <3> QED BY <3>1, <3>2, <3>3
  <2> QED BY <1>7, <2>1 DEF ReadyAre
<1>10. HighestPriorityRuns' /\ StandbyBeatsCurrent'
  <2>1. priority[s] >= priority[t] /\ \A r \in readyMask : r <= priority[s]
    BY <1>1, <1>2, <1>3
       DEF SelectionRight, HighestPriorityRuns, StandbyBeatsCurrent, CurrentPriority
  <2>2. priority[s] \in Int /\ priority[t] \in Int
    BY PriorityRanges
  <2>3. \A r \in readyMask' : r <= priority[s]
    BY <1>7, <2>1, <2>2
  <2>4. CurrentPriority' = priority[s]
    BY <1>1, <1>5 DEF CurrentPriority
  <2> QED BY <1>5, <2>3, <2>4 DEF HighestPriorityRuns, StandbyBeatsCurrent
<1>11. \A u \in Threads : state'[u] = "Waiting" <=> state[u] = "Waiting"
  BY <1>4, <1>6
<1> QED BY <1>5, <1>8, <1>9, <1>10, <1>11 DEF SelectionRight

\* KiSwapThread: the Standby thread, the best ready one or the idle thread
\* takes over from the thread that waits.
LEMMA SwapSelects ==
    ASSUME TypeInvariant, SelectionRight, KiSwapThread
    PROVE  /\ SelectionRight'
           /\ \A u \in Threads : state'[u] = "Waiting" <=> state[u] = "Waiting"
<1>1. /\ priority \in [Threads -> Priorities] /\ next \in Threads \union {NoThread}
      /\ state \in [Threads -> ThreadStates] /\ current \in Threads \union {Idle}
      /\ NoThread \notin Threads /\ Idle \notin Threads /\ Idle # NoThread
  BY ThreadsAssumption DEF TypeInvariant, TypeOK, ThreadStates
<1>2. pc = "swap" /\ pc' = "run" /\ next' = NoThread /\ priority' = priority
  BY DEF KiSwapThread
<1>3. \A u \in Threads : state[u] # "Running" /\ (state[u] = "Standby" <=> u = next)
  BY <1>2 DEF SelectionRight, PrcbAgrees
<1>4. \A u \in Threads : state'[u] = IF u = current' THEN "Running" ELSE state[u]
  BY DEF KiSwapThread
<1>5. CASE next # NoThread
  <2>1. PICK s \in Threads : s = next
    BY <1>1, <1>5
  <2>2. current' = s /\ UNCHANGED readyVars
    BY <1>5, <2>1 DEF KiSwapThread
  <2>3. PrcbAgrees'
    BY <1>1, <1>2, <1>3, <1>4, <2>1, <2>2 DEF PrcbAgrees
  <2>4. ReadyAre'
    <3>1. ASSUME NEW r \in Priorities, NEW u \in Threads
          PROVE  u \in Listed(ready'[r]) <=> state'[u] = "Ready" /\ priority'[u] = r
      BY <1>2, <1>3, <1>4, <2>1, <2>2 DEF SelectionRight, ReadyAre
    <3> QED BY <2>2, <3>1 DEF SelectionRight, ReadyAre
  <2>5. HighestPriorityRuns' /\ StandbyBeatsCurrent'
    <3>1. \A r \in readyMask : r <= priority[s]
      BY <1>5, <2>1 DEF SelectionRight, HighestPriorityRuns
    <3>2. CurrentPriority' = priority[s]
      BY <1>1, <1>2, <2>2 DEF CurrentPriority
    <3> QED BY <1>2, <2>2, <3>1, <3>2 DEF HighestPriorityRuns, StandbyBeatsCurrent
  <2>6. \A u \in Threads : state'[u] = "Waiting" <=> state[u] = "Waiting"
    BY <1>3, <1>4, <2>1, <2>2
  <2> QED BY <2>3, <2>4, <2>5, <2>6 DEF SelectionRight
<1>6. CASE next = NoThread /\ readyMask # {}
  <2>1. RemoveHighestPriorityThread /\ current' = HighestPriorityThread
    BY <1>6 DEF KiSwapThread
  <2>2. PICK h \in Threads : h = HighestPriorityThread
    BY <1>6, <2>1, DequeueReady DEF SelectionRight
  <2>3. /\ state[h] = "Ready" /\ \A r \in readyMask : r <= priority[h]
        /\ \A r \in Priorities : NoRepeats(ready'[r])
        /\ \A r \in Priorities, u \in Threads :
               u \in Listed(ready'[r]) <=> u \in Listed(ready[r]) /\ u # h
        /\ readyMask' \subseteq readyMask
    BY <1>6, <2>1, <2>2, DequeueReady DEF SelectionRight
  <2>4. PrcbAgrees'
    BY <1>1, <1>2, <1>3, <1>4, <1>6, <2>1, <2>2 DEF PrcbAgrees
  <2>5. ReadyAre'
    <3>1. ASSUME NEW r \in Priorities, NEW u \in Threads
          PROVE  u \in Listed(ready'[r]) <=> state'[u] = "Ready" /\ priority'[u] = r
      BY <1>2, <1>4, <2>1, <2>2, <2>3 DEF SelectionRight, ReadyAre
    <3> QED BY <2>3, <3>1 DEF ReadyAre
  <2>6. HighestPriorityRuns' /\ StandbyBeatsCurrent'
    <3>1. CurrentPriority' = priority[h]
      BY <1>1, <1>2, <2>1, <2>2 DEF CurrentPriority
    <3> QED BY <1>2, <2>3, <3>1 DEF HighestPriorityRuns, StandbyBeatsCurrent
  <2>7. \A u \in Threads : state'[u] = "Waiting" <=> state[u] = "Waiting"
    BY <1>4, <2>1, <2>2, <2>3
  <2> QED BY <2>4, <2>5, <2>6, <2>7 DEF SelectionRight
<1>7. CASE next = NoThread /\ readyMask = {}
  <2>1. current' = Idle /\ UNCHANGED readyVars
    BY <1>7 DEF KiSwapThread
  <2>2. \A u \in Threads : state'[u] = state[u]
    BY <1>1, <1>4, <2>1
  <2>3. PrcbAgrees'
    BY <1>1, <1>2, <1>3, <1>7, <2>1, <2>2 DEF PrcbAgrees
  <2>4. ReadyAre'
    BY <1>2, <2>1, <2>2 DEF SelectionRight, ReadyAre
  <2>5. HighestPriorityRuns' /\ StandbyBeatsCurrent'
    BY <1>2, <1>7, <2>1 DEF HighestPriorityRuns, StandbyBeatsCurrent
  <2> QED BY <2>2, <2>3, <2>4, <2>5 DEF SelectionRight
<1> QED BY <1>5, <1>6, <1>7

\* The idle loop hands the processor to the Standby thread.
LEMMA IdleSelects ==
    ASSUME TypeInvariant, SelectionRight, IdleSwitch
    PROVE  /\ SelectionRight' /\ next' = NoThread
           /\ \A u \in Threads : state'[u] = "Waiting" <=> state[u] = "Waiting"
<1>1. /\ priority \in [Threads -> Priorities] /\ next \in Threads \union {NoThread}
      /\ state \in [Threads -> ThreadStates]
      /\ NoThread \notin Threads /\ Idle \notin Threads
  BY ThreadsAssumption DEF TypeInvariant, TypeOK, ThreadStates
<1>2. /\ pc = "idle" /\ pc' = "run" /\ current = Idle /\ priority' = priority
      /\ UNCHANGED readyVars
  BY DEF IdleSwitch, TypeInvariant, CpuConsistent
<1>3. CASE next # NoThread
  <2>1. PICK s \in Threads : s = next
    BY <1>1, <1>3
  <2>2. /\ current' = s /\ next' = NoThread
        /\ state'[s] = "Running" /\ \A u \in Threads \ {s} : state'[u] = state[u]
    BY <1>1, <1>3, <2>1 DEF IdleSwitch
  <2>3. state[s] = "Standby" /\ \A u \in Threads : state[u] # "Running"
    BY <1>1, <1>2, <2>1 DEF SelectionRight, PrcbAgrees
  <2>4. PrcbAgrees'
    BY <1>1, <1>2, <2>1, <2>2, <2>3 DEF SelectionRight, PrcbAgrees
  <2>5. ReadyAre'
    <3>1. ASSUME NEW r \in Priorities, NEW u \in Threads
          PROVE  u \in Listed(ready'[r]) <=> state'[u] = "Ready" /\ priority'[u] = r
      <4>1. CASE u = s
        BY <1>2, <2>2, <2>3, <4>1 DEF SelectionRight, ReadyAre
      <4>2. CASE u # s
        BY <1>2, <2>2, <4>2 DEF SelectionRight, ReadyAre
      <4> QED BY <4>1, <4>2
    <3> QED BY <1>2, <3>1 DEF SelectionRight, ReadyAre
  <2>6. HighestPriorityRuns' /\ StandbyBeatsCurrent'
    <3>1. \A r \in readyMask : r <= priority[s]
      BY <1>3, <2>1 DEF SelectionRight, HighestPriorityRuns
    <3>2. CurrentPriority' = priority[s]
      BY <1>1, <1>2, <2>2 DEF CurrentPriority
    <3> QED BY <1>2, <2>2, <3>1, <3>2 DEF HighestPriorityRuns, StandbyBeatsCurrent
  <2>7. \A u \in Threads : state'[u] = "Waiting" <=> state[u] = "Waiting"
    BY <2>2, <2>3
  <2> QED BY <2>2, <2>4, <2>5, <2>6, <2>7 DEF SelectionRight
<1>4. CASE next = NoThread
  <2>1. UNCHANGED <<state, prcbVars>>
    BY <1>4 DEF IdleSwitch
  <2>2. SelectionRight'
    BY <1>2, <2>1, SelectionUntouched
  <2> QED BY <1>4, <2>1, <2>2
<1> QED BY <1>3, <1>4

\* The running thread begins to wait; KiSwapThread is next.
LEMMA BlockSelects ==
    ASSUME TypeInvariant, SelectionRight, current \in Threads, pc # "swap", pc' = "swap",
           state' = [state EXCEPT ![current] = "Waiting"],
           UNCHANGED <<priority, readyVars, prcbVars>>
    PROVE  SelectionRight'
<1>1. state \in [Threads -> ThreadStates] /\ Idle \notin Threads
  BY ThreadsAssumption DEF TypeInvariant, TypeOK, ThreadStates
<1>2. state[current] = "Running" /\ current # next
  BY DEF SelectionRight, PrcbAgrees
<1>3. /\ state'[current] = "Waiting"
      /\ \A u \in Threads \ {current} : state'[u] = state[u]
  BY <1>1
<1>4. PrcbAgrees'
  BY <1>1, <1>2, <1>3 DEF SelectionRight, PrcbAgrees
<1>5. ReadyAre'
  <2>1. ASSUME NEW r \in Priorities, NEW u \in Threads
        PROVE  u \in Listed(ready'[r]) <=> state'[u] = "Ready" /\ priority'[u] = r
    <3>1. CASE u = current
      BY <1>2, <1>3, <3>1 DEF SelectionRight, ReadyAre
    <3>2. CASE u # current
      BY <1>3, <3>2 DEF SelectionRight, ReadyAre
    <3> QED BY <3>1, <3>2
  <2> QED BY <2>1 DEF SelectionRight, ReadyAre
<1>6. HighestPriorityRuns' /\ StandbyBeatsCurrent'
  BY DEF SelectionRight, HighestPriorityRuns, StandbyBeatsCurrent, CurrentPriority
<1> QED BY <1>4, <1>5, <1>6 DEF SelectionRight

-----------------------------------------------------------------------------
(* Waiting and waking.                                                      *)

\* What leaves the wait lists alone, and who waits, leaves them right.
LEMMA WaitsUntouched ==
    ASSUME WaitListsAgree, UNCHANGED waitVars,
           \A u \in Threads : state'[u] = "Waiting" <=> state[u] = "Waiting"
    PROVE  WaitListsAgree'
BY DEF WaitListsAgree

\* The wait lists from the side of an object: what one of them has and gets.
LEMMA WaitListKinds ==
    ASSUME TypeInvariant, WaitListsAgree, NEW o \in Objects
    PROVE  /\ waitList[o] \in Seq(Threads) /\ Distinct(waitList[o])
           /\ Listed(waitList[o]) \subseteq Threads
           /\ Listed(waitList[o]) \subseteq waitIn
           /\ waitList[o] = <<>> <=> Listed(waitList[o]) = {}
<1>1. waitList[o] \in Seq(Threads)
  BY DEF TypeInvariant, TypeOK
<1>2. /\ Listed(waitList[o]) \subseteq Threads
      /\ waitList[o] = <<>> <=> Listed(waitList[o]) = {}
  <2>1. /\ Members(waitList[o]) \subseteq Threads
        /\ waitList[o] = <<>> <=> Members(waitList[o]) = {}
    BY <1>1, NoMembers
  <2> QED BY <2>1, ListNames
<1>3. Distinct(waitList[o])
  BY ListNames DEF WaitListsAgree
<1>4. Listed(waitList[o]) \subseteq waitIn
  BY <1>2 DEF WaitListsAgree
<1> QED BY <1>1, <1>2, <1>3, <1>4

\* What the lists are without the first waiter of one of them.
LEMMA FirstWaiterLeaves ==
    ASSUME TypeInvariant, WaitListsAgree, NEW o \in Objects, waitList[o] # <<>>,
           NEW t, t = Head(waitList[o]), waitList' = [waitList EXCEPT ![o] = Tail(@)]
    PROVE  /\ t \in Threads /\ t \in Listed(waitList[o])
           /\ \A q \in Objects : /\ Listed(waitList'[q]) = Listed(waitList[q]) \ {t}
                                 /\ waitList'[q] # <<>> => waitList[q] # <<>>
                                 /\ NoRepeats(waitList'[q])
<1>1. /\ waitList[o] \in Seq(Threads) /\ Distinct(waitList[o])
      /\ waitList \in [Objects -> Seq(Threads)]
  BY WaitListKinds DEF TypeInvariant, TypeOK
<1>2. /\ t \in Members(waitList[o]) /\ t \in Threads
      /\ Members(Tail(waitList[o])) = Members(waitList[o]) \ {t}
      /\ Distinct(Tail(waitList[o]))
  BY <1>1, TailLeaves
<1>3. /\ waitList'[o] = Tail(waitList[o])
      /\ \A q \in Objects \ {o} : waitList'[q] = waitList[q]
  BY <1>1
<1>4. \A q \in Objects \ {o} : t \notin Listed(waitList[q])
  BY <1>2, ListNames DEF WaitListsAgree
<1>5. \A q \in Objects : Listed(waitList'[q]) = Listed(waitList[q]) \ {t}
  BY <1>2, <1>3, <1>4, ListNames
<1>6. \A q \in Objects : NoRepeats(waitList'[q])
  BY <1>2, <1>3, ListNames DEF WaitListsAgree
<1> QED BY <1>2, <1>3, <1>5, <1>6, ListNames

\* KiUnwaitThread takes the first waiter of an object off both its lists.
LEMMA WaitsUnwait ==
    ASSUME TypeInvariant, WaitListsAgree, NEW o \in Objects, waitList[o] # <<>>,
           NEW t, t = Head(waitList[o]),
           waitList' = [waitList EXCEPT ![o] = Tail(@)], waitIn' = waitIn \ {t},
           state'[t] # "Waiting",
           \A u \in Threads \ {t} : state'[u] = "Waiting" <=> state[u] = "Waiting"
    PROVE  WaitListsAgree'
<1>1. /\ t \in Threads
      /\ \A q \in Objects : Listed(waitList'[q]) = Listed(waitList[q]) \ {t}
      /\ \A q \in Objects : NoRepeats(waitList'[q])
  BY FirstWaiterLeaves
<1>2. \A u \in Threads : state'[u] = "Waiting" <=> u \in waitIn'
  BY <1>1 DEF WaitListsAgree
<1>3. \A u \in Threads : u \in waitIn' <=>
                         \E q \in Objects : u \in Listed(waitList'[q])
  <2> TAKE u \in Threads
  <2>1. u \in waitIn <=> \E q \in Objects : u \in Listed(waitList[q])
    BY DEF WaitListsAgree
  <2>2. \A q \in Objects : u \in Listed(waitList'[q]) <=>
                            u \in Listed(waitList[q]) /\ u # t
    BY <1>1
  <2> QED BY <2>1, <2>2
<1>4. \A a, b \in Objects : a # b =>
          Listed(waitList'[a]) \intersect Listed(waitList'[b]) = {}
  BY <1>1 DEF WaitListsAgree
<1> QED BY <1>1, <1>2, <1>3, <1>4 DEF WaitListsAgree

\* KeWaitForSingleObject puts the running thread on both.
LEMMA WaitsBlock ==
    ASSUME TypeInvariant, WaitListsAgree, NEW o \in Objects, NEW t \in Threads,
           state[t] # "Waiting",
           waitList' = [waitList EXCEPT ![o] = Append(@, t)],
           waitIn' = waitIn \union {t},
           state' = [state EXCEPT ![t] = "Waiting"]
    PROVE  /\ WaitListsAgree'
           /\ Listed(waitList'[o]) = Listed(waitList[o]) \union {t}
           /\ \A q \in Objects \ {o} : waitList'[q] = waitList[q]
<1>1. /\ waitList[o] \in Seq(Threads) /\ Distinct(waitList[o])
      /\ waitList \in [Objects -> Seq(Threads)] /\ state \in [Threads -> ThreadStates]
  BY WaitListKinds DEF TypeInvariant, TypeOK, ThreadStates
<1>2. t \notin waitIn /\ \A q \in Objects : t \notin Listed(waitList[q])
  BY DEF WaitListsAgree
<1>3. /\ Members(Append(waitList[o], t)) = Members(waitList[o]) \union {t}
      /\ Distinct(Append(waitList[o], t))
  BY <1>1, <1>2, AppendMember, ListNames
<1>4. /\ waitList'[o] = Append(waitList[o], t)
      /\ \A q \in Objects \ {o} : waitList'[q] = waitList[q]
  BY <1>1
<1>5. Listed(waitList'[o]) = Listed(waitList[o]) \union {t}
  BY <1>3, <1>4, ListNames
<1>6. \A q \in Objects : NoRepeats(waitList'[q])
  BY <1>3, <1>4, ListNames DEF WaitListsAgree
<1>7. \A u \in Threads : state'[u] = "Waiting" <=> u \in waitIn'
  BY <1>1 DEF WaitListsAgree
<1>8. \A u \in Threads : u \in waitIn' <=>
                         \E q \in Objects : u \in Listed(waitList'[q])
  BY <1>4, <1>5 DEF WaitListsAgree
<1>9. ASSUME NEW a \in Objects, NEW b \in Objects, a # b
      PROVE  Listed(waitList'[a]) \intersect Listed(waitList'[b]) = {}
  <2>1. Listed(waitList[a]) \intersect Listed(waitList[b]) = {}
    BY <1>9 DEF WaitListsAgree
  <2>2. CASE a = o
    BY <1>2, <1>4, <1>5, <1>9, <2>1, <2>2
  <2>3. CASE b = o
    BY <1>2, <1>4, <1>5, <1>9, <2>1, <2>3
  <2>4. CASE a # o /\ b # o
    BY <1>4, <2>1, <2>4
  <2> QED BY <2>2, <2>3, <2>4
<1> QED BY <1>4, <1>5, <1>6, <1>7, <1>8, <1>9 DEF WaitListsAgree

-----------------------------------------------------------------------------
(* Taking and releasing.                                                    *)

\* The part of MutantsAgree that has nothing to do with who waits.
MutantsOwned ==
    \A m \in Mutants :
        /\ signal[m] <= 1 /\ signal[m] >= MutantLimit
        /\ owner[m] = NoThread <=> signal[m] = 1
        /\ \A t \in Threads : m \in mutantList[t] <=> owner[m] = t

OwnersDoNotWait == \A m \in Mutants : owner[m] \notin Listed(waitList[m])

\* The two parts are the whole.
LEMMA MutantParts == MutantsAgree <=> MutantsOwned /\ OwnersDoNotWait
BY DEF MutantsAgree, MutantsOwned, OwnersDoNotWait

\* After a step.
LEMMA MutantPartsNext == MutantsAgree' <=> MutantsOwned' /\ OwnersDoNotWait'
BY MutantParts, PTL

\* What leaves the objects and their lists alone leaves them right.
LEMMA ObjectsUntouched ==
    ASSUME ObjectsRight, UNCHANGED <<objectVars, waitList>>,
           pc = "waittest" => pc' = "waittest" /\ frame'.obj = frame.obj
    PROVE  ObjectsRight'
<1>1. NoLostWakeup'
  BY DEF ObjectsRight, NoLostWakeup
<1>2. MutantsAgree' /\ CountsAreLeft'
  BY DEF ObjectsRight, MutantsAgree, CountsAreLeft
<1> QED BY <1>1, <1>2 DEF ObjectsRight

\* A satisfied wait takes no more than there is: no object becomes signalled
\* by it, and a mutant gets an owner only if it had none.
LEMMA SatisfyTakes ==
    ASSUME TypeInvariant, MutantsOwned, CountsAreLeft, NEW o \in Objects,
           NEW t \in Threads, KiWaitSatisfyAny(o, t), CanTake(o, t), ~AtMutantLimit(o)
    PROVE  /\ MutantsOwned' /\ CountsAreLeft'
           /\ \A q \in Objects : signal'[q] > 0 => signal[q] > 0
           /\ \A m \in Mutants : owner'[m] = owner[m] \/ (m = o /\ owner'[m] = t)
<1>1. /\ signal \in [Objects -> Int] /\ owner \in [Mutants -> Threads \union {NoThread}]
      /\ mutantList \in [Threads -> SUBSET Mutants]
      /\ \A q \in Objects : signal[q] \in Int
      /\ MutantLimit \in Int /\ MutantLimit < 0 /\ NoThread \notin Threads
      /\ Mutants \subseteq Objects /\ Semaphores \subseteq Objects
      /\ Events \intersect Semaphores = {} /\ Events \intersect Mutants = {}
      /\ Semaphores \intersect Mutants = {}
  BY NumbersAssumption, ThreadsAssumption, ObjectsAssumption
     DEF TypeInvariant, TypeOK, Objects
<1>2. CASE o \in NotificationEvents /\ UNCHANGED objectVars
  BY <1>2 DEF MutantsOwned, CountsAreLeft
<1>3. CASE /\ o \in SynchronizationEvents
           /\ signal' = [signal EXCEPT ![o] = 0]
           /\ UNCHANGED <<owner, abandoned, mutantList>>
  <2>1. signal'[o] = 0 /\ \A q \in Objects \ {o} : signal'[q] = signal[q]
    BY <1>1, <1>3
  <2>2. o \notin Mutants /\ o \notin Semaphores
    BY <1>1, <1>3 DEF Events
  <2> QED BY <1>1, <1>3, <2>1, <2>2 DEF MutantsOwned, CountsAreLeft
<1>4. CASE /\ o \in Semaphores
           /\ signal' = [signal EXCEPT ![o] = @ - 1]
           /\ UNCHANGED <<owner, abandoned, mutantList>>
  <2>1. signal'[o] = signal[o] - 1 /\ \A q \in Objects \ {o} : signal'[q] = signal[q]
    BY <1>1, <1>4
  <2>2. o \notin Mutants /\ signal[o] > 0
    BY <1>1, <1>4 DEF CanTake
  <2> QED BY <1>1, <1>4, <2>1, <2>2 DEF MutantsOwned, CountsAreLeft
<1>5. CASE o \in Mutants /\ KiWaitSatisfyMutant(o, t)
  <2>1. signal' = [signal EXCEPT ![o] = signal[o] - 1]
    BY <1>5 DEF KiWaitSatisfyMutant
  <2>2. signal'[o] = signal[o] - 1 /\ \A q \in Objects \ {o} : signal'[q] = signal[q]
    BY <1>1, <2>1
  <2>3. CountsAreLeft' /\ \A q \in Objects : signal'[q] > 0 => signal[q] > 0
    BY <1>1, <1>5, <2>2 DEF CountsAreLeft
  <2>4. /\ signal[o] <= 1 /\ signal[o] >= MutantLimit /\ signal[o] # MutantLimit
        /\ owner[o] = NoThread <=> signal[o] = 1
        /\ signal[o] > 0 \/ owner[o] = t
    BY <1>5 DEF MutantsOwned, AtMutantLimit, CanTake
  <2>5. signal'[o] <= 0 /\ signal'[o] >= MutantLimit
    BY <1>1, <2>2, <2>4
  <2>6. CASE signal[o] = 1
    <3>1. /\ owner' = [owner EXCEPT ![o] = t]
          /\ mutantList' = [mutantList EXCEPT ![t] = mutantList[t] \union {o}]
      BY <1>5, <2>6 DEF KiWaitSatisfyMutant
    <3>2. /\ owner'[o] = t /\ \A m \in Mutants \ {o} : owner'[m] = owner[m]
          /\ mutantList'[t] = mutantList[t] \union {o}
          /\ \A u \in Threads \ {t} : mutantList'[u] = mutantList[u]
      BY <1>1, <1>5, <3>1
    <3>3. ASSUME NEW u \in Threads PROVE o \notin mutantList[u]
      BY <1>1, <1>5, <2>4, <2>6 DEF MutantsOwned
    <3>4. ASSUME NEW m \in Mutants, NEW u \in Threads
          PROVE  m \in mutantList'[u] <=> owner'[m] = u
      <4>1. CASE m = o
        BY <3>2, <3>3, <4>1
      <4>2. CASE m # o
        BY <3>2, <4>2 DEF MutantsOwned
      <4> QED BY <4>1, <4>2
    <3>5. ASSUME NEW m \in Mutants
          PROVE  /\ signal'[m] <= 1 /\ signal'[m] >= MutantLimit
                 /\ owner'[m] = NoThread <=> signal'[m] = 1
      <4>1. CASE m = o
        BY <1>1, <2>2, <2>5, <2>6, <3>2, <4>1
      <4>2. CASE m # o
        BY <1>1, <2>2, <3>2, <4>2 DEF MutantsOwned
      <4> QED BY <4>1, <4>2
    <3> QED BY <2>3, <3>2, <3>4, <3>5 DEF MutantsOwned
  <2>7. CASE signal[o] # 1
    <3>1. UNCHANGED <<owner, mutantList>>
      BY <1>5, <2>7 DEF KiWaitSatisfyMutant
    <3>2. ASSUME NEW m \in Mutants
          PROVE  /\ signal'[m] <= 1 /\ signal'[m] >= MutantLimit
                 /\ owner'[m] = NoThread <=> signal'[m] = 1
      <4>1. CASE m = o
        BY <1>1, <2>2, <2>4, <2>5, <2>7, <3>1, <4>1
      <4>2. CASE m # o
        BY <1>1, <2>2, <3>1, <4>2 DEF MutantsOwned
      <4> QED BY <4>1, <4>2
    <3> QED BY <2>3, <3>1, <3>2 DEF MutantsOwned
  <2> QED BY <2>6, <2>7
<1> QED BY <1>2, <1>3, <1>4, <1>5 DEF KiWaitSatisfyAny

\* KeSetEvent: nobody waited, or KiWaitTest is called for who did, or the
\* event was signalled and then nobody waited.
LEMMA KeSetEventObjects ==
    ASSUME WaitsRight, NEW e \in Events, NEW inc \in Increments,
           NEW wait \in BOOLEAN, KeSetEvent(e, inc, wait)
    PROVE  ObjectsRight'
<1>1. /\ signal \in [Objects -> Int] /\ e \in Objects /\ e \notin Mutants
      /\ e \notin Semaphores /\ Mutants \subseteq Objects /\ Semaphores \subseteq Objects
  BY ObjectsAssumption DEF WaitsRight, TypeInvariant, TypeOK, Objects
<1>2. pc = "run" /\ \A q \in Objects : ~(signal[q] > 0 /\ waitList[q] # <<>>)
  BY DEF KeSetEvent, MayCall, ThreadCalls, ThreadRuns, DpcCalls, WaitsRight,
         ObjectsRight, NoLostWakeup
<1>3. UNCHANGED <<owner, mutantList, waitList>>
  BY DEF KeSetEvent
<1>4. signal' = signal \/ signal' = [signal EXCEPT ![e] = 1]
  BY DEF KeSetEvent
<1>5. \A q \in Objects \ {e} : signal'[q] = signal[q]
  BY <1>1, <1>4
<1>6. MutantsAgree' /\ CountsAreLeft'
  BY <1>1, <1>3, <1>5 DEF WaitsRight, ObjectsRight, MutantsAgree, CountsAreLeft
<1>7. NoLostWakeup'
  <2> SUFFICES ASSUME NEW q \in Objects, signal'[q] > 0, waitList[q] # <<>>
               PROVE  pc' = "waittest" /\ frame'.obj = q
    BY <1>3 DEF NoLostWakeup
  <2>1. q = e /\ signal' # signal
    BY <1>2, <1>5
  <2>2. Call("waittest", e, inc, wait)
    BY <2>1 DEF KeSetEvent
  <2> QED BY <2>1, <2>2 DEF Call
<1> QED BY <1>6, <1>7 DEF ObjectsRight

\* A reset event can release nobody, so it overlooks nobody.
LEMMA KeResetEventObjects ==
    ASSUME WaitsRight, NEW e \in Events, KeResetEvent(e)
    PROVE  ObjectsRight'
<1>1. /\ signal \in [Objects -> Int] /\ e \in Objects /\ e \notin Mutants
      /\ e \notin Semaphores /\ Mutants \subseteq Objects /\ Semaphores \subseteq Objects
  BY ObjectsAssumption DEF WaitsRight, TypeInvariant, TypeOK, Objects
<1>2. /\ signal' = [signal EXCEPT ![e] = 0]
      /\ UNCHANGED <<owner, mutantList, waitList, pc, frame>>
  BY DEF KeResetEvent
<1>3. signal'[e] = 0 /\ \A q \in Objects \ {e} : signal'[q] = signal[q]
  BY <1>1, <1>2
<1>4. MutantsAgree' /\ CountsAreLeft'
  BY <1>1, <1>2, <1>3 DEF WaitsRight, ObjectsRight, MutantsAgree, CountsAreLeft
<1>5. NoLostWakeup'
  BY <1>2, <1>3 DEF WaitsRight, ObjectsRight, NoLostWakeup
<1> QED BY <1>4, <1>5 DEF ObjectsRight

\* KeReleaseSemaphore looks for waiters only if the count was zero: nobody
\* waits for a semaphore with a count.
LEMMA KeReleaseSemaphoreObjects ==
    ASSUME WaitsRight, NEW s \in Semaphores, NEW inc \in Increments,
           NEW adj \in Adjustments, NEW wait \in BOOLEAN,
           KeReleaseSemaphore(s, inc, adj, wait)
    PROVE  ObjectsRight'
<1>1. /\ signal \in [Objects -> Int] /\ s \in Objects /\ s \notin Mutants
      /\ Mutants \subseteq Objects /\ Semaphores \subseteq Objects
      /\ adj \in Nat /\ adj > 0 /\ signal[s] \in Int
  BY ObjectsAssumption, NumbersAssumption DEF WaitsRight, TypeInvariant, TypeOK, Objects
<1>2. /\ pc = "run" /\ \A q \in Objects : ~(signal[q] > 0 /\ waitList[q] # <<>>)
      /\ signal[s] >= 0
  BY DEF KeReleaseSemaphore, MayCall, ThreadCalls, ThreadRuns, DpcCalls, WaitsRight,
         ObjectsRight, NoLostWakeup, CountsAreLeft
<1>3. UNCHANGED <<owner, mutantList, waitList>>
  BY DEF KeReleaseSemaphore
<1>4. CASE signal' = signal
  <2>1. NoLostWakeup'
    BY <1>2, <1>3, <1>4 DEF NoLostWakeup
  <2>2. MutantsAgree' /\ CountsAreLeft'
    BY <1>3, <1>4 DEF WaitsRight, ObjectsRight, MutantsAgree, CountsAreLeft
  <2> QED BY <2>1, <2>2 DEF ObjectsRight
<1>5. CASE /\ signal' = [signal EXCEPT ![s] = signal[s] + adj]
           /\ signal[s] = 0 /\ waitList[s] # <<>> => Call("waittest", s, inc, wait)
  <2>1. signal'[s] = signal[s] + adj /\ \A q \in Objects \ {s} : signal'[q] = signal[q]
    BY <1>1, <1>5
  <2>2. MutantsAgree' /\ CountsAreLeft'
    BY <1>1, <1>2, <1>3, <2>1
       DEF WaitsRight, ObjectsRight, MutantsAgree, CountsAreLeft
  <2>3. NoLostWakeup'
    <3> SUFFICES ASSUME NEW q \in Objects, signal'[q] > 0, waitList[q] # <<>>
                 PROVE  pc' = "waittest" /\ frame'.obj = q
      BY <1>3 DEF NoLostWakeup
    <3>1. q = s
      BY <1>2, <2>1
    <3>2. signal[s] = 0
      BY <1>1, <1>2, <3>1
    <3> QED BY <1>5, <3>1, <3>2 DEF Call
  <2> QED BY <2>2, <2>3 DEF ObjectsRight
<1> QED BY <1>4, <1>5 DEF KeReleaseSemaphore

\* KeReleaseMutant: only the last release makes the mutant free, and then
\* there is nobody it could still be linked to.
LEMMA KeReleaseMutantObjects ==
    ASSUME WaitsRight, NEW m \in Mutants, NEW inc \in Increments,
           NEW abandon \in BOOLEAN, NEW wait \in BOOLEAN,
           KeReleaseMutant(m, inc, abandon, wait)
    PROVE  ObjectsRight'
<1> DEFINE new == IF abandon THEN 1 ELSE signal[m] + 1
<1>1. /\ signal \in [Objects -> Int] /\ m \in Objects /\ m \notin Semaphores
      /\ Mutants \subseteq Objects /\ Semaphores \subseteq Objects
      /\ owner \in [Mutants -> Threads \union {NoThread}]
      /\ mutantList \in [Threads -> SUBSET Mutants]
      /\ MutantLimit \in Int /\ MutantLimit < 0 /\ NoThread \notin Threads
      /\ \A q \in Objects : signal[q] \in Int
  BY ObjectsAssumption, NumbersAssumption, ThreadsAssumption
     DEF WaitsRight, TypeInvariant, TypeOK, Objects
<1>2. /\ pc = "run" /\ current \in Threads
      /\ \A q \in Objects : ~(signal[q] > 0 /\ waitList[q] # <<>>)
  BY DEF KeReleaseMutant, ThreadCalls, ThreadRuns, WaitsRight, ObjectsRight,
         NoLostWakeup, TypeInvariant, TypeOK
<1>3. waitList' = waitList
  BY DEF KeReleaseMutant
<1>4. CASE ~abandon /\ owner[m] # current
  <2>1. UNCHANGED objectVars
    BY <1>4 DEF KeReleaseMutant
  <2>2. NoLostWakeup'
    BY <1>2, <1>3, <2>1 DEF NoLostWakeup
  <2>3. MutantsAgree' /\ CountsAreLeft'
    BY <1>3, <2>1 DEF WaitsRight, ObjectsRight, MutantsAgree, CountsAreLeft
  <2> QED BY <2>2, <2>3 DEF ObjectsRight
<1>5. CASE ~(~abandon /\ owner[m] # current)
  <2>1. /\ signal' = [signal EXCEPT ![m] = new]
        /\ new = 1 =>
             /\ owner' = [owner EXCEPT ![m] = NoThread]
             /\ mutantList' = IF signal[m] <= 0
                              THEN [t \in Threads |-> mutantList[t] \ {m}]
                              ELSE mutantList
        /\ new # 1 => UNCHANGED <<owner, mutantList>>
        /\ new = 1 /\ waitList[m] # <<>> => Call("waittest", m, inc, wait)
    BY <1>5 DEF KeReleaseMutant
  <2>2. /\ signal[m] <= 1 /\ signal[m] >= MutantLimit /\ signal[m] \in Int
        /\ owner[m] = NoThread <=> signal[m] = 1
        /\ \A t \in Threads : m \in mutantList[t] <=> owner[m] = t
    BY <1>1 DEF WaitsRight, ObjectsRight, MutantsAgree
  <2>3. /\ new \in Int /\ new <= 1 /\ new >= MutantLimit
        /\ new # 1 => owner[m] # NoThread /\ new <= 0
    <3>1. CASE abandon
      BY <1>1, <3>1
    <3>2. CASE ~abandon
      <4>1. owner[m] # NoThread
        BY <1>1, <1>2, <1>5, <3>2
      <4>2. signal[m] <= 0
        BY <2>2, <4>1
      <4> QED BY <1>1, <2>2, <3>2, <4>1, <4>2
    <3> QED BY <3>1, <3>2
  <2> HIDE DEF new
  <2>4. signal'[m] = new /\ \A q \in Objects \ {m} : signal'[q] = signal[q]
    BY <1>1, <2>1
  <2>5. CountsAreLeft'
    BY <1>1, <2>4 DEF WaitsRight, ObjectsRight, CountsAreLeft
  <2>6. NoLostWakeup'
    <3> SUFFICES ASSUME NEW q \in Objects, signal'[q] > 0, waitList[q] # <<>>
                 PROVE  pc' = "waittest" /\ frame'.obj = q
      BY <1>3 DEF NoLostWakeup
    <3>1. q = m
      BY <1>2, <2>4
    <3>2. new = 1
      BY <2>3, <2>4, <3>1
    <3> QED BY <2>1, <3>1, <3>2 DEF Call
  <2>7. MutantsOwned' /\ \A l \in Mutants : owner'[l] \in {owner[l], NoThread}
    <3>1. CASE new = 1
      <4>1. owner'[m] = NoThread /\ \A l \in Mutants \ {m} : owner'[l] = owner[l]
        BY <1>1, <2>1, <3>1
      <4>2. ASSUME NEW t \in Threads
            PROVE  /\ m \notin mutantList'[t]
                   /\ \A l \in Mutants \ {m} : l \in mutantList'[t] <=> l \in mutantList[t]
        <5>1. CASE signal[m] <= 0
          BY <2>1, <3>1, <5>1
        <5>2. CASE ~(signal[m] <= 0)
          <6>1. owner[m] = NoThread
            BY <2>2, <5>2
          <6> QED BY <1>1, <2>1, <2>2, <3>1, <5>2, <6>1
        <5> QED BY <5>1, <5>2
      <4>3. ASSUME NEW l \in Mutants
            PROVE  /\ signal'[l] <= 1 /\ signal'[l] >= MutantLimit
                   /\ owner'[l] = NoThread <=> signal'[l] = 1
                   /\ \A t \in Threads : l \in mutantList'[t] <=> owner'[l] = t
        <5>1. CASE l = m
          BY <1>1, <2>3, <2>4, <3>1, <4>1, <4>2, <5>1
        <5>2. CASE l # m
          BY <1>1, <2>4, <4>1, <4>2, <5>2 DEF WaitsRight, ObjectsRight, MutantsAgree
        <5> QED BY <5>1, <5>2
      <4> QED BY <4>1, <4>3 DEF MutantsOwned
    <3>2. CASE new # 1
      <4>1. UNCHANGED <<owner, mutantList>>
        BY <2>1, <3>2
      <4>2. ASSUME NEW l \in Mutants
            PROVE  /\ signal'[l] <= 1 /\ signal'[l] >= MutantLimit
                   /\ owner'[l] = NoThread <=> signal'[l] = 1
                   /\ \A t \in Threads : l \in mutantList'[t] <=> owner'[l] = t
        <5>1. CASE l = m
          BY <2>2, <2>3, <2>4, <3>2, <4>1, <5>1
        <5>2. CASE l # m
          BY <1>1, <2>4, <4>1, <5>2 DEF WaitsRight, ObjectsRight, MutantsAgree
        <5> QED BY <5>1, <5>2
      <4> QED BY <4>1, <4>2 DEF MutantsOwned
    <3> QED BY <3>1, <3>2
  <2>8. OwnersDoNotWait'
    <3>1. \A l \in Mutants : Listed(waitList[l]) \subseteq Threads
      BY <1>1, WaitListKinds DEF WaitsRight
    <3> QED BY <1>1, <1>3, <2>7, <3>1
            DEF OwnersDoNotWait, WaitsRight, ObjectsRight, MutantsAgree
  <2> QED BY <2>5, <2>6, <2>7, <2>8, MutantPartsNext DEF ObjectsRight
<1> QED BY <1>4, <1>5

\* KiWaitTest: the waiter that leaves gets what it waited for, and whoever is
\* left is looked at next.
LEMMA KiWaitTestObjects ==
    ASSUME WaitsRight, KiWaitTest
    PROVE  ObjectsRight'
<1>1. PICK o \in Objects : o = frame.obj
  BY DEF KiWaitTest, WaitsRight, TypeInvariant, CpuConsistent
<1>2. /\ TypeInvariant /\ WaitListsAgree
      /\ MutantsOwned /\ OwnersDoNotWait /\ CountsAreLeft /\ NoLostWakeup
  BY MutantParts DEF WaitsRight, ObjectsRight
<1>3. /\ pc = "waittest" /\ pc' = pc /\ frame' = frame
      /\ signal[o] > 0 /\ waitList[o] # <<>>
  BY <1>1 DEF KiWaitTest, MoreToWake
<1>4. PICK t : t = Head(waitList[o])
  OBVIOUS
<1>5. KiWaitSatisfyAny(o, t) /\ waitList' = [waitList EXCEPT ![o] = Tail(@)]
  BY <1>1, <1>4 DEF KiWaitTest, KiUnwaitThread
<1>6. /\ t \in Threads /\ t \in Listed(waitList[o])
      /\ \A q \in Objects : /\ Listed(waitList'[q]) = Listed(waitList[q]) \ {t}
                            /\ waitList'[q] # <<>> => waitList[q] # <<>>
  BY <1>2, <1>3, <1>4, <1>5, FirstWaiterLeaves
<1>7. CanTake(o, t) /\ ~AtMutantLimit(o)
  <2>1. signal[o] \in Int /\ MutantLimit \in Int /\ MutantLimit < 0
    BY <1>2, NumbersAssumption DEF TypeInvariant, TypeOK
  <2> QED BY <1>3, <2>1 DEF CanTake, AtMutantLimit
<1>8. /\ MutantsOwned' /\ CountsAreLeft'
      /\ \A q \in Objects : signal'[q] > 0 => signal[q] > 0
      /\ \A m \in Mutants : owner'[m] = owner[m] \/ (m = o /\ owner'[m] = t)
  BY <1>2, <1>5, <1>6, <1>7, SatisfyTakes
<1>9. OwnersDoNotWait'
  BY <1>2, <1>6, <1>8 DEF OwnersDoNotWait, Objects
<1>10. NoLostWakeup'
  BY <1>2, <1>3, <1>6, <1>8 DEF NoLostWakeup
<1> QED BY <1>8, <1>9, <1>10, MutantPartsNext DEF ObjectsRight

\* KeWaitForSingleObject: what can be taken is taken, or the thread waits, and
\* it waits only for what is not there and for no mutant of its own.
LEMMA KeWaitForSingleObjectObjects ==
    ASSUME WaitsRight, NEW o \in Objects, NEW poll \in BOOLEAN,
           KeWaitForSingleObject(o, poll)
    PROVE  ObjectsRight'
<1>1. /\ TypeInvariant /\ PrcbAgrees /\ WaitListsAgree
      /\ MutantsOwned /\ OwnersDoNotWait /\ CountsAreLeft /\ NoLostWakeup
  BY MutantParts DEF WaitsRight, ObjectsRight
<1>2. pc = "run" /\ pc' \in {"adjust", "release", "swap"}
  BY DEF KeWaitForSingleObject, ThreadRuns
<1>3. PICK t \in Threads : t = current
  BY <1>1 DEF KeWaitForSingleObject, ThreadRuns, TypeInvariant, TypeOK
<1>4. state[t] = "Running" /\ \A q \in Objects : t \notin Listed(waitList[q])
  <2>1. state[t] = "Running"
    BY <1>1, <1>2, <1>3 DEF PrcbAgrees
  <2> QED BY <1>1, <2>1 DEF WaitListsAgree
<1>5. \A q \in Objects : ~(signal[q] > 0 /\ waitList[q] # <<>>)
  BY <1>1, <1>2 DEF NoLostWakeup
<1>6. CASE /\ CanTake(o, t) /\ ~AtMutantLimit(o) /\ KiWaitSatisfyAny(o, t)
           /\ UNCHANGED waitVars
  <2>1. /\ MutantsOwned' /\ CountsAreLeft'
        /\ \A q \in Objects : signal'[q] > 0 => signal[q] > 0
        /\ \A m \in Mutants : owner'[m] = owner[m] \/ (m = o /\ owner'[m] = t)
    BY <1>1, <1>6, SatisfyTakes
  <2>2. OwnersDoNotWait' /\ NoLostWakeup'
    BY <1>1, <1>4, <1>5, <1>6, <2>1 DEF OwnersDoNotWait, NoLostWakeup, Objects
  <2> QED BY <2>1, <2>2, MutantPartsNext DEF ObjectsRight
<1>7. CASE UNCHANGED <<waitVars, objectVars>>
  BY <1>2, <1>7, ObjectsUntouched DEF WaitsRight
<1>8. CASE /\ ~CanTake(o, t)
           /\ waitList' = [waitList EXCEPT ![o] = Append(@, t)]
           /\ waitIn' = waitIn \union {t}
           /\ state' = [state EXCEPT ![t] = "Waiting"]
           /\ UNCHANGED objectVars
  <2>1. /\ Listed(waitList'[o]) = Listed(waitList[o]) \union {t}
        /\ \A q \in Objects \ {o} : waitList'[q] = waitList[q]
    BY <1>1, <1>4, <1>8, WaitsBlock
  <2>2. ~(signal[o] > 0) /\ (o \in Mutants => owner[o] # t)
    BY <1>8 DEF CanTake
  <2>3. NoLostWakeup'
    BY <1>5, <1>8, <2>1, <2>2 DEF NoLostWakeup
  <2>4. MutantsOwned' /\ CountsAreLeft'
    BY <1>1, <1>8 DEF MutantsOwned, CountsAreLeft
  <2>5. OwnersDoNotWait'
    <3>1. ASSUME NEW m \in Mutants PROVE owner[m] \notin Listed(waitList'[m])
      <4>1. m \in Objects /\ owner[m] \notin Listed(waitList[m])
        BY <1>1 DEF OwnersDoNotWait, Objects
      <4>2. CASE m = o
        BY <2>1, <2>2, <4>1, <4>2
      <4>3. CASE m # o
        BY <2>1, <4>1, <4>3
      <4> QED BY <4>2, <4>3
    <3> QED BY <1>8, <3>1 DEF OwnersDoNotWait
  <2> QED BY <2>3, <2>4, <2>5, MutantPartsNext DEF ObjectsRight
<1> QED BY <1>3, <1>6, <1>7, <1>8 DEF KeWaitForSingleObject

\* No step of the dispatcher leaves an object wrong, whichever thread it lets run.
LEMMA NextObjects ==
    ASSUME WaitsRight, Next
    PROVE  ObjectsRight'
<1>1. ASSUME UNCHANGED <<objectVars, waitList>>, pc # "waittest"
      PROVE  ObjectsRight'
  BY <1>1, ObjectsUntouched DEF WaitsRight
<1>2. CASE Calls
  <2>1. ASSUME NEW t \in Threads, KeScheduleThread(t) PROVE ObjectsRight'
    BY <1>1, <2>1 DEF KeScheduleThread, MayCall, ThreadCalls, ThreadRuns, DpcCalls
  <2>2. CASE KeRaiseIrqlToDpcLevel
    BY <1>1, <2>2 DEF KeRaiseIrqlToDpcLevel, ThreadCalls, ThreadRuns
  <2> QED BY <1>2, <2>1, <2>2, KeSetEventObjects, KeResetEventObjects,
             KeReleaseSemaphoreObjects, KeReleaseMutantObjects,
             KeWaitForSingleObjectObjects DEF Calls
<1>3. CASE KiWaitTestDone
  <2>1. /\ pc = "waittest" /\ ~MoreToWake /\ UNCHANGED <<objectVars, waitVars>>
    BY <1>3 DEF KiWaitTestDone
  <2>2. NoLostWakeup'
    BY <2>1 DEF MoreToWake, WaitsRight, ObjectsRight, NoLostWakeup
  <2>3. MutantsAgree' /\ CountsAreLeft'
    BY <2>1 DEF WaitsRight, ObjectsRight, MutantsAgree, CountsAreLeft
  <2> QED BY <2>2, <2>3 DEF ObjectsRight
<1>4. CASE Continue
  <2>1. CASE ReturnLocked \/ KiUnlockDispatcherDatabase \/ KiSwapThread
             \/ KiAdjustQuantumThread
    BY <1>1, <2>1 DEF ReturnLocked, KiUnlockDispatcherDatabase, KiSwapThread,
                      KiAdjustQuantumThread
  <2>2. CASE HalpSwIntDpc \/ KiExecuteDpcQueue \/ DpcQueueRetired \/ SwIntQuantumEnd
             \/ SwIntSwitch \/ KiIdleLoop \/ IdleSwitch
    BY <1>1, <2>2 DEF HalpSwIntDpc, KiExecuteDpcQueue, DpcQueueRetired,
                      SwIntQuantumEnd, SwIntSwitch, KiIdleLoop, IdleSwitch
  <2> QED BY <1>3, <1>4, <2>1, <2>2, KiWaitTestObjects DEF Continue
<1>5. CASE KfLowerIrql \/ DpcReturns
  BY <1>1, <1>5 DEF KfLowerIrql, DpcReturns, ThreadCalls, ThreadRuns, DpcCalls
<1>6. CASE HalpClockIsr \/ KeInsertQueueDpc
  BY <1>6, ObjectsUntouched DEF HalpClockIsr, KeInsertQueueDpc, WaitsRight
<1> QED BY <1>2, <1>4, <1>5, <1>6 DEF Next

\* The boost of KiUnwaitThread and the price of the wait leave a thread's
\* priority in its class.
LEMMA UnwaitInClass ==
    ASSUME TypeInvariant, PriorityInClass, NEW t \in Threads, NEW inc \in Nat
    PROVE  /\ PriorityAfterWait(t, inc) >= basePriority[t]
           /\ basePriority[t] < LowRealtimePriority =>
              PriorityAfterWait(t, inc) < LowRealtimePriority
<1>1. /\ priority[t] \in Int /\ basePriority[t] \in Int
      /\ LowRealtimePriority \in Int
  BY NumbersAssumption DEF TypeInvariant, TypeOK, Priorities
<1>2. /\ priority[t] >= basePriority[t]
      /\ basePriority[t] < LowRealtimePriority => priority[t] < LowRealtimePriority
  BY DEF PriorityInClass
<1>3. CASE priority[t] >= LowRealtimePriority
  <2>1. PriorityAfterWait(t, inc) = priority[t]
    BY <1>3 DEF PriorityAfterWait
  <2> QED BY <1>2, <2>1
<1>4. CASE ~(priority[t] >= LowRealtimePriority)
  <2>1. PICK b \in Int : b = BoostedPriority(t, inc)
    BY <1>1 DEF BoostedPriority
  <2>2. b >= priority[t] /\ b < LowRealtimePriority
    BY <1>1, <1>4, <2>1 DEF BoostedPriority
  <2>3. PriorityAfterWait(t, inc) \in {b, b - 1, basePriority[t]}
        /\ PriorityAfterWait(t, inc) >= basePriority[t]
    BY <1>1, <1>2, <1>4, <2>1, <2>2 DEF PriorityAfterWait
  <2> QED BY <1>1, <1>2, <1>4, <2>2, <2>3
<1> QED BY <1>3, <1>4

\* KiWaitTest: one waiter is taken off the object and its lists, gets what it
\* waited for, and is scheduled.
LEMMA KiWaitTestKeeps ==
    ASSUME SchedulerInv, KiWaitTest
    PROVE  SelectionRight' /\ WaitListsAgree' /\ ObjectsRight' /\ PriorityInClass'
<1>1. PICK o \in Objects : o = frame.obj
  BY DEF KiWaitTest, SchedulerInv, TypeInvariant, CpuConsistent
<1>2. TypeInvariant /\ SelectionRight /\ WaitListsAgree /\ PriorityInClass
  BY DEF SchedulerInv
<1>3. /\ pc = "waittest" /\ pc' = pc /\ frame' = frame /\ current' = current
      /\ basePriority' = basePriority
      /\ signal[o] > 0 /\ waitList[o] # <<>>
  BY <1>1 DEF KiWaitTest, MoreToWake
<1>4. PICK t \in Threads : t = Head(waitList[o]) /\ t \in Listed(waitList[o])
  BY <1>2, <1>3, WaitListKinds, TailLeaves, ListNames
<1>5. KiUnwaitThread(o, t, frame.inc)
  BY <1>1, <1>4 DEF KiWaitTest
<1>6. frame.inc \in Nat
  <2>1. frame.inc \in Increments \/ frame.inc = 0
    BY DEF SchedulerInv, TypeInvariant, TypeOK, Frames
  <2>2. Increments \subseteq Nat /\ 0 \in Nat
    BY NumbersAssumption
  <2> QED BY <2>1, <2>2, Zenon
<1>7. PICK p : p = PriorityAfterWait(t, frame.inc)
  OBVIOUS
<1>8. /\ p \in Priorities
      /\ p >= basePriority[t]
      /\ basePriority[t] < LowRealtimePriority => p < LowRealtimePriority
  BY <1>2, <1>6, <1>7, UnwaitTypes, UnwaitInClass
<1>9. /\ waitList' = [waitList EXCEPT ![o] = Tail(@)] /\ waitIn' = waitIn \ {t}
      /\ priority' = [priority EXCEPT ![t] = p] /\ KiScheduleThread(t, p)
  BY <1>5, <1>7 DEF KiUnwaitThread
<1>10. state[t] = "Waiting"
  BY <1>2, <1>4, WaitListKinds DEF WaitListsAgree
<1>11. /\ SelectionRight' /\ state'[t] # "Waiting"
       /\ \A u \in Threads \ {t} : state'[u] = "Waiting" <=> state[u] = "Waiting"
  BY <1>2, <1>3, <1>8, <1>9, <1>10, ScheduleSelects
<1>12. WaitListsAgree'
  BY <1>2, <1>3, <1>4, <1>9, <1>11, WaitsUnwait
<1>13. PriorityInClass'
  BY <1>2, <1>3, <1>8, <1>9 DEF PriorityInClass, TypeInvariant, TypeOK
<1> QED BY <1>11, <1>12, <1>13, SchedulerWaits, KiWaitTestObjects

\* KeWaitForSingleObject moves the running thread to the wait lists or no thread.
LEMMA KeWaitForSingleObjectKeeps ==
    ASSUME SchedulerInv, NEW o \in Objects, NEW poll \in BOOLEAN,
           KeWaitForSingleObject(o, poll)
    PROVE  SelectionRight' /\ WaitListsAgree' /\ ObjectsRight' /\ PriorityInClass'
<1>1. TypeInvariant /\ SelectionRight /\ WaitListsAgree /\ PriorityInClass
  BY DEF SchedulerInv
<1>2. /\ pc = "run" /\ UNCHANGED <<priority, basePriority, readyVars, prcbVars>>
      /\ pc' \in {"adjust", "release", "swap"}
  BY DEF KeWaitForSingleObject, ThreadRuns
<1>3. PICK t \in Threads : t = current
  BY DEF KeWaitForSingleObject, ThreadRuns, SchedulerInv, TypeInvariant, TypeOK
<1>4. state[t] = "Running"
  BY <1>1, <1>2, <1>3 DEF SelectionRight, PrcbAgrees
<1>5. PriorityInClass' /\ ObjectsRight'
  BY <1>1, <1>2, SchedulerWaits, KeWaitForSingleObjectObjects DEF PriorityInClass
<1>6. CASE pc' \in {"adjust", "release"} /\ UNCHANGED <<state, waitVars>>
  BY <1>1, <1>2, <1>5, <1>6, SelectionUntouched, WaitsUntouched
<1>7. CASE /\ waitList' = [waitList EXCEPT ![o] = Append(@, t)]
           /\ waitIn' = waitIn \union {t}
           /\ state' = [state EXCEPT ![t] = "Waiting"]
           /\ pc' = "swap"
  <2>1. SelectionRight'
    BY <1>1, <1>2, <1>3, <1>7, BlockSelects
  <2>2. WaitListsAgree'
    BY <1>1, <1>4, <1>7, WaitsBlock
  <2> QED BY <1>5, <2>1, <2>2
<1> QED BY <1>3, <1>6, <1>7 DEF KeWaitForSingleObject

-----------------------------------------------------------------------------
(* What is put off to a software interrupt.                                 *)

\* A step that changes neither the processor's state nor who runs next.
LEMMA QuietForgetsNothing ==
    ASSUME NothingForgotten,
           UNCHANGED <<waitNext, prcbVars, cpuVars, dpcVars, dispatchPending>>
    PROVE  NothingForgotten'
BY DEF NothingForgotten, LockedToWait, SwitchIsDue, DpcNotStranded, DpcsRetired

\* Who may call has not promised to wait.
LEMMA CallerIsFree ==
    ASSUME SchedulerInv, NEW wait \in BOOLEAN, MayCall(wait)
    PROVE  /\ pc = "run" /\ \A t \in Threads : ~waitNext[t]
           /\ wait => current # Idle /\ ~dpcActive
BY DEF MayCall, ThreadCalls, ThreadRuns, DpcCalls, SchedulerInv, NothingForgotten,
       LockedToWait

\* A call goes on with KiWaitTest or the release of the database, whatever it
\* has selected.
LEMMA CallForgetsNothing ==
    ASSUME SchedulerInv, NEW wait \in BOOLEAN, MayCall(wait),
           NEW routine \in {"waittest", "release"}, NEW obj, NEW inc,
           NEW w \in BOOLEAN, w => wait, Call(routine, obj, inc, w),
           UNCHANGED <<waitNext, current, dpcVars, intVars>>
    PROVE  NothingForgotten'
<1>1. /\ pc = "run" /\ \A t \in Threads : ~waitNext[t]
      /\ wait => current # Idle /\ ~dpcActive
  BY CallerIsFree
<1>2. pc' = routine /\ frame'.wait = w
  BY DEF Call
<1>3. LockedToWait' /\ SwitchIsDue'
  BY <1>1, <1>2 DEF LockedToWait, SwitchIsDue
<1>4. DpcNotStranded' /\ DpcsRetired'
  BY <1>1, <1>2 DEF SchedulerInv, NothingForgotten, DpcNotStranded, DpcsRetired
<1> QED BY <1>3, <1>4 DEF NothingForgotten

\* The releasing calls and KeScheduleThread.
LEMMA CallsForgetNothing ==
    ASSUME SchedulerInv,
           \/ \E e \in Events, inc \in Increments, wait \in BOOLEAN :
                  KeSetEvent(e, inc, wait)
           \/ \E e \in Events : KeResetEvent(e)
           \/ \E s \in Semaphores, inc \in Increments, adj \in Adjustments,
                 wait \in BOOLEAN : KeReleaseSemaphore(s, inc, adj, wait)
           \/ \E m \in Mutants, inc \in Increments, abandon, wait \in BOOLEAN :
                  KeReleaseMutant(m, inc, abandon, wait)
           \/ \E t \in Threads : KeScheduleThread(t)
    PROVE  NothingForgotten'
<1>0. NothingForgotten
  BY DEF SchedulerInv
<1>1. ASSUME NEW e \in Events, NEW inc \in Increments, NEW wait \in BOOLEAN,
             KeSetEvent(e, inc, wait)
      PROVE  NothingForgotten'
  <2>1. MayCall(wait) /\ UNCHANGED <<waitNext, prcbVars, dpcVars, intVars>>
    BY <1>1 DEF KeSetEvent
  <2>2. \/ Call("release", NoObject, 0, wait) \/ Call("waittest", e, inc, wait)
        \/ UNCHANGED cpuVars
    BY <1>1 DEF KeSetEvent
  <2>3. CASE Call("release", NoObject, 0, wait)
    BY <2>1, <2>3, CallForgetsNothing
  <2>4. CASE Call("waittest", e, inc, wait)
    BY <2>1, <2>4, CallForgetsNothing
  <2>5. CASE UNCHANGED cpuVars
    BY <1>0, <2>1, <2>5, QuietForgetsNothing
  <2> QED BY <2>2, <2>3, <2>4, <2>5
<1>2. ASSUME NEW e \in Events, KeResetEvent(e) PROVE NothingForgotten'
  BY <1>0, <1>2, QuietForgetsNothing DEF KeResetEvent
<1>3. ASSUME NEW s \in Semaphores, NEW inc \in Increments, NEW adj \in Adjustments,
             NEW wait \in BOOLEAN, KeReleaseSemaphore(s, inc, adj, wait)
      PROVE  NothingForgotten'
  <2>1. MayCall(wait) /\ UNCHANGED <<waitNext, prcbVars, dpcVars, intVars>>
    BY <1>3 DEF KeReleaseSemaphore
  <2>2. \/ Call("release", NoObject, 0, FALSE) \/ Call("release", NoObject, 0, wait)
        \/ Call("waittest", s, inc, wait)
    BY <1>3 DEF KeReleaseSemaphore
  <2>3. CASE Call("release", NoObject, 0, FALSE)
    BY <2>1, <2>3, CallForgetsNothing
  <2>4. CASE Call("release", NoObject, 0, wait)
    BY <2>1, <2>4, CallForgetsNothing
  <2>5. CASE Call("waittest", s, inc, wait)
    BY <2>1, <2>5, CallForgetsNothing
  <2> QED BY <2>2, <2>3, <2>4, <2>5
<1>4. ASSUME NEW m \in Mutants, NEW inc \in Increments, NEW abandon \in BOOLEAN,
             NEW wait \in BOOLEAN, KeReleaseMutant(m, inc, abandon, wait)
      PROVE  NothingForgotten'
  <2>1. MayCall(wait) /\ UNCHANGED <<waitNext, prcbVars, dpcVars, intVars>>
    BY <1>4 DEF KeReleaseMutant, MayCall
  <2>2. \/ Call("release", NoObject, 0, FALSE) \/ Call("release", NoObject, 0, wait)
        \/ Call("waittest", m, inc, wait)
    BY <1>4 DEF KeReleaseMutant
  <2>3. CASE Call("release", NoObject, 0, FALSE)
    BY <2>1, <2>3, CallForgetsNothing
  <2>4. CASE Call("release", NoObject, 0, wait)
    BY <2>1, <2>4, CallForgetsNothing
  <2>5. CASE Call("waittest", m, inc, wait)
    BY <2>1, <2>5, CallForgetsNothing
  <2> QED BY <2>2, <2>3, <2>4, <2>5
<1>5. ASSUME NEW t \in Threads, KeScheduleThread(t) PROVE NothingForgotten'
  <2>1. /\ MayCall(FALSE) /\ Call("release", NoObject, 0, FALSE)
        /\ UNCHANGED <<waitNext, current, dpcVars, intVars>>
    BY <1>5 DEF KeScheduleThread
  <2> QED BY <2>1, CallForgetsNothing
<1> QED BY <1>1, <1>2, <1>3, <1>4, <1>5

\* KiWaitTest may select a thread; the database is still held.
LEMMA WaitTestForgetsNothing ==
    ASSUME SchedulerInv, KiWaitTest \/ KiWaitTestDone
    PROVE  NothingForgotten'
<1>1. /\ pc = "waittest" /\ pc' \in {"waittest", "release"}
      /\ UNCHANGED <<waitNext, current, dpcVars, intVars, irql>>
  BY DEF KiWaitTest, KiWaitTestDone
<1>2. frame'.wait = frame.wait
  BY DEF KiWaitTest, KiWaitTestDone, SchedulerInv, TypeInvariant, TypeOK, Frames
<1>3. LockedToWait' /\ SwitchIsDue'
  BY <1>1, <1>2 DEF SchedulerInv, NothingForgotten, LockedToWait, SwitchIsDue
<1>4. DpcNotStranded' /\ DpcsRetired'
  BY <1>1 DEF SchedulerInv, NothingForgotten, DpcNotStranded, DpcsRetired
<1> QED BY <1>3, <1>4 DEF NothingForgotten

\* The two ends of a call: to wait next, or with a switch made or asked for.
LEMMA ReturnForgetsNothing ==
    ASSUME SchedulerInv, ReturnLocked \/ KiUnlockDispatcherDatabase
    PROVE  NothingForgotten'
<1>0. /\ pc = "release" /\ pc' = "run" /\ frame'.wait = FALSE
      /\ \A t \in Threads : ~waitNext[t]
      /\ UNCHANGED dpcVars
  <2>1. pc = "release" /\ pc' = "run" /\ frame' = NoFrame /\ UNCHANGED dpcVars
    BY DEF ReturnLocked, KiUnlockDispatcherDatabase
  <2>2. NoFrame.wait = FALSE
    BY DEF NoFrame
  <2>3. \A t \in Threads : ~waitNext[t]
    BY <2>1 DEF SchedulerInv, NothingForgotten, LockedToWait
  <2> QED BY <2>1, <2>2, <2>3
<1>1. CASE ReturnLocked
  <2>1. /\ current \in Threads /\ ~dpcActive /\ irql = DISPATCH_LEVEL
    BY <1>1 DEF ReturnLocked, SchedulerInv, NothingForgotten, LockedToWait,
                TypeInvariant, TypeOK, CpuConsistent
  <2>2. /\ waitNext'[current] = TRUE
        /\ \A t \in Threads \ {current} : waitNext'[t] = waitNext[t]
        /\ UNCHANGED <<prcbVars, dpcVars, intVars, irql>>
    BY <1>1, <2>1 DEF ReturnLocked, SchedulerInv, TypeInvariant, TypeOK
  <2>3. LockedToWait' /\ SwitchIsDue'
    BY <1>0, <2>1, <2>2 DEF LockedToWait, SwitchIsDue
  <2>4. DpcNotStranded' /\ DpcsRetired'
    BY <1>0, <2>2 DEF SchedulerInv, NothingForgotten, DpcNotStranded, DpcsRetired
  <2> QED BY <2>3, <2>4 DEF NothingForgotten
<1>2. CASE KiUnlockDispatcherDatabase
  <2>1. waitNext' = waitNext /\ (dispatchPending => dispatchPending')
    BY <1>2 DEF KiUnlockDispatcherDatabase
  <2>2. LockedToWait'
    BY <1>0, <2>1 DEF LockedToWait
  <2>3. CASE frame.old < DISPATCH_LEVEL /\ next # NoThread
    <3>1. next' = NoThread /\ current # Idle
      BY <1>2, <2>3 DEF KiUnlockDispatcherDatabase, SwitchToNext, SchedulerInv,
                        TypeInvariant, CpuConsistent, DISPATCH_LEVEL
    <3>2. SwitchIsDue'
      BY <3>1 DEF SwitchIsDue
    <3>3. DpcNotStranded' /\ DpcsRetired'
      BY <1>0, <2>1, <3>1
         DEF SchedulerInv, NothingForgotten, DpcNotStranded, DpcsRetired
    <3> QED BY <2>2, <3>2, <3>3 DEF NothingForgotten
  <2>4. CASE ~(frame.old < DISPATCH_LEVEL /\ next # NoThread)
    <3>1. UNCHANGED prcbVars
      BY <1>2, <2>4 DEF KiUnlockDispatcherDatabase
    <3>2. next # NoThread /\ ~dpcActive => dispatchPending'
      <4>1. frame.old \in {PASSIVE_LEVEL, DISPATCH_LEVEL}
        BY DEF SchedulerInv, TypeInvariant, TypeOK, Frames
      <4> QED BY <1>2, <2>4, <4>1
              DEF KiUnlockDispatcherDatabase, PASSIVE_LEVEL, DISPATCH_LEVEL
    <3>3. SwitchIsDue'
      BY <1>0, <3>1, <3>2 DEF SwitchIsDue
    <3>4. DpcNotStranded' /\ DpcsRetired'
      BY <1>0, <2>1, <3>1
         DEF SchedulerInv, NothingForgotten, DpcNotStranded, DpcsRetired
    <3> QED BY <2>2, <3>3, <3>4 DEF NothingForgotten
  <2> QED BY <2>3, <2>4
<1> QED BY <1>1, <1>2

\* A wait ends the promise to wait, and continues with the thread's quantum or
\* without the thread.
LEMMA WaitForgetsNothing ==
    ASSUME SchedulerInv,
           \/ \E o \in Objects, poll \in BOOLEAN : KeWaitForSingleObject(o, poll)
           \/ KiAdjustQuantumThread \/ KiSwapThread
    PROVE  NothingForgotten'
<1>1. CASE \E o \in Objects, poll \in BOOLEAN : KeWaitForSingleObject(o, poll)
  <2>1. /\ pc = "run" /\ pc' \in {"adjust", "release", "swap"}
        /\ frame'.wait = FALSE
        /\ waitNext' = [waitNext EXCEPT ![current] = FALSE]
        /\ UNCHANGED <<prcbVars, dpcVars, intVars>>
    BY <1>1 DEF KeWaitForSingleObject, ThreadRuns, NoFrame
  <2>2. \A t \in Threads : ~waitNext'[t]
    BY <2>1 DEF SchedulerInv, NothingForgotten, LockedToWait, TypeInvariant, TypeOK
  <2>3. LockedToWait' /\ SwitchIsDue'
    BY <2>1, <2>2 DEF LockedToWait, SwitchIsDue
  <2>4. DpcNotStranded' /\ DpcsRetired'
    BY <2>1 DEF SchedulerInv, NothingForgotten, DpcNotStranded, DpcsRetired
  <2> QED BY <2>3, <2>4 DEF NothingForgotten
<1>2. CASE KiAdjustQuantumThread
  <2>1. /\ pc = "adjust" /\ pc' = "release"
        /\ UNCHANGED <<waitNext, current, dpcVars, intVars, irql, frame>>
    BY <1>2 DEF KiAdjustQuantumThread
  <2>2. LockedToWait' /\ SwitchIsDue'
    BY <2>1 DEF SchedulerInv, NothingForgotten, LockedToWait, SwitchIsDue
  <2>3. DpcNotStranded' /\ DpcsRetired'
    BY <2>1 DEF SchedulerInv, NothingForgotten, DpcNotStranded, DpcsRetired
  <2> QED BY <2>2, <2>3 DEF NothingForgotten
<1>3. CASE KiSwapThread
  <2>1. /\ pc = "swap" /\ pc' = "run" /\ next' = NoThread /\ current # Idle
        /\ UNCHANGED <<waitNext, dpcVars, intVars, frame>>
    BY <1>3 DEF KiSwapThread, SchedulerInv, TypeInvariant, CpuConsistent
  <2>2. LockedToWait' /\ SwitchIsDue'
    BY <2>1 DEF SchedulerInv, NothingForgotten, LockedToWait, SwitchIsDue
  <2>3. DpcNotStranded' /\ DpcsRetired'
    BY <2>1 DEF SchedulerInv, NothingForgotten, DpcNotStranded, DpcsRetired
  <2> QED BY <2>2, <2>3 DEF NothingForgotten
<1> QED BY <1>1, <1>2, <1>3

\* Raising and lowering the interrupt level: who promised to wait may do neither.
LEMMA IrqlForgetsNothing ==
    ASSUME SchedulerInv, KeRaiseIrqlToDpcLevel \/ KfLowerIrql
    PROVE  NothingForgotten'
<1>1. /\ \A t \in Threads : ~waitNext[t]
      /\ UNCHANGED <<waitNext, prcbVars, dpcVars, intVars, pc, frame>>
  BY DEF KeRaiseIrqlToDpcLevel, KfLowerIrql, ThreadCalls, ThreadRuns, SchedulerInv,
         NothingForgotten, LockedToWait
<1>2. LockedToWait' /\ SwitchIsDue'
  BY <1>1 DEF SchedulerInv, NothingForgotten, LockedToWait, SwitchIsDue
<1>3. DpcNotStranded' /\ DpcsRetired'
  BY <1>1 DEF SchedulerInv, NothingForgotten, DpcNotStranded, DpcsRetired
<1> QED BY <1>2, <1>3 DEF NothingForgotten

\* The interrupts: one asks for more, and one DPC is queued with a request for
\* the DPC interrupt, or under one, or to be found by who is at the queue.
LEMMA InterruptsForgetNothing ==
    ASSUME SchedulerInv, HalpClockIsr \/ KeInsertQueueDpc
    PROVE  NothingForgotten'
<1>1. /\ UNCHANGED <<waitNext, prcbVars, cpuVars, dpcActive>>
      /\ dispatchPending => dispatchPending'
      /\ pc \notin {"retire", "idle"}
  BY DEF HalpClockIsr, KeInsertQueueDpc, InterruptsEnabled
<1>2. LockedToWait' /\ SwitchIsDue'
  BY <1>1 DEF SchedulerInv, NothingForgotten, LockedToWait, SwitchIsDue
<1>3. CASE HalpClockIsr
  BY <1>1, <1>2, <1>3
     DEF HalpClockIsr, SchedulerInv, NothingForgotten, DpcNotStranded, DpcsRetired
<1>4. CASE KeInsertQueueDpc
  <2>1. dpcQueue' > 0
    BY <1>4 DEF KeInsertQueueDpc, SchedulerInv, TypeInvariant, TypeOK
  <2>2. DpcsRetired'
    BY <1>1, <2>1 DEF DpcsRetired
  <2>3. CASE ~dpcActive /\ ~dpcRequested
    BY <1>2, <1>4, <2>2, <2>3 DEF KeInsertQueueDpc, NothingForgotten, DpcNotStranded
  <2>4. CASE ~(~dpcActive /\ ~dpcRequested)
    <3>1. dpcActive \/ dpcQueue > 0
      BY <1>1, <2>4 DEF SchedulerInv, NothingForgotten, DpcsRetired
    <3>2. DpcNotStranded'
      BY <1>1, <3>1 DEF SchedulerInv, NothingForgotten, DpcNotStranded
    <3> QED BY <1>2, <2>2, <3>2 DEF NothingForgotten
  <2> QED BY <2>3, <2>4
<1> QED BY <1>3, <1>4

\* HalpSwIntDpc and what it goes through, and the idle loop.
LEMMA DispatchForgetsNothing ==
    ASSUME SchedulerInv,
           \/ HalpSwIntDpc \/ KiExecuteDpcQueue \/ DpcReturns \/ DpcQueueRetired
           \/ SwIntQuantumEnd \/ SwIntSwitch \/ KiIdleLoop \/ IdleSwitch
    PROVE  NothingForgotten'
<1>0. dpcQueue \in Nat /\ PASSIVE_LEVEL # DISPATCH_LEVEL
  BY NumbersAssumption
     DEF SchedulerInv, TypeInvariant, TypeOK, PASSIVE_LEVEL, DISPATCH_LEVEL
<1>1. \A t \in Threads : ~waitNext[t]
  BY ThreadsAssumption
     DEF HalpSwIntDpc, KiExecuteDpcQueue, DpcReturns, DpcQueueRetired, DpcCalls,
         SwIntQuantumEnd, SwIntSwitch, KiIdleLoop, IdleSwitch, SoftwareInterrupt,
         DISPATCH_LEVEL, SchedulerInv, NothingForgotten, LockedToWait
<1>2. /\ waitNext' = waitNext /\ frame' = frame /\ ~frame.wait
  BY DEF HalpSwIntDpc, KiExecuteDpcQueue, DpcReturns, DpcQueueRetired, DpcCalls,
         SwIntQuantumEnd, SwIntSwitch, KiIdleLoop, IdleSwitch,
         SchedulerInv, NothingForgotten, LockedToWait
<1>3. LockedToWait'
  BY <1>1, <1>2 DEF LockedToWait
<1>4. CASE HalpSwIntDpc
  BY <1>0, <1>3, <1>4
     DEF HalpSwIntDpc, SchedulerInv, NothingForgotten, SwitchIsDue, DpcNotStranded,
         DpcsRetired
<1>5. CASE KiExecuteDpcQueue \/ DpcReturns
  BY <1>0, <1>3, <1>5
     DEF KiExecuteDpcQueue, DpcReturns, SchedulerInv, NothingForgotten, SwitchIsDue,
         DpcNotStranded, DpcsRetired
<1>6. CASE DpcQueueRetired
  BY <1>0, <1>3, <1>6
     DEF DpcQueueRetired, SchedulerInv, NothingForgotten, SwitchIsDue, DpcNotStranded,
         DpcsRetired
<1>7. CASE SwIntQuantumEnd
  BY <1>0, <1>3, <1>7
     DEF SwIntQuantumEnd, SchedulerInv, NothingForgotten, SwitchIsDue, DpcNotStranded,
         DpcsRetired
<1>8. CASE SwIntSwitch
  <2>1. next' = NoThread /\ current # Idle /\ ~dpcActive
    BY <1>8 DEF SwIntSwitch, SwitchToNext, SchedulerInv, TypeInvariant, CpuConsistent
  <2> QED BY <1>0, <1>3, <1>8, <2>1
          DEF SwIntSwitch, SchedulerInv, NothingForgotten, SwitchIsDue, DpcNotStranded,
              DpcsRetired
<1>9. CASE KiIdleLoop
  BY <1>0, <1>3, <1>9
     DEF KiIdleLoop, SchedulerInv, NothingForgotten, SwitchIsDue, DpcNotStranded,
         DpcsRetired
<1>10. CASE IdleSwitch
  <2>1. next' = NoThread /\ dpcQueue = 0
    BY <1>10 DEF IdleSwitch, SchedulerInv, NothingForgotten, DpcsRetired
  <2> QED BY <1>0, <1>3, <1>10, <2>1
          DEF IdleSwitch, SchedulerInv, NothingForgotten, SwitchIsDue, DpcNotStranded,
              DpcsRetired
<1> QED BY <1>4, <1>5, <1>6, <1>7, <1>8, <1>9, <1>10

-----------------------------------------------------------------------------
(* The invariant is inductive.                                              *)

\* Nothing is Ready, nobody waits, no object has an owner, and the first
\* thread is Standby.
LEMMA InitScheduler == Init => SchedulerInv
<1> SUFFICES ASSUME Init PROVE SchedulerInv
  OBVIOUS
<1>1. TypeInvariant
  BY InitTypes
<1>2. /\ FirstThread \in Threads /\ Idle \notin Threads /\ NoThread \notin Threads
      /\ \A q : q = <<>> => Listed(q) = {} /\ NoRepeats(q)
  BY ThreadsAssumption, EmptyMembers, ListNames
<1>3. SelectionRight
  <2>1. PrcbAgrees
    BY <1>2 DEF Init, PrcbAgrees
  <2>2. ReadyAre
    BY <1>2 DEF Init, ReadyAre
  <2>3. HighestPriorityRuns /\ StandbyBeatsCurrent
    <3>1. \A t \in Threads : priority[t] \in Int /\ priority[t] >= 1
      BY <1>1, PriorityRanges
    <3> QED BY <1>2, <3>1 DEF Init, HighestPriorityRuns, StandbyBeatsCurrent,
                              CurrentPriority
  <2> QED BY <2>1, <2>2, <2>3 DEF SelectionRight
<1>4. WaitListsAgree
  BY <1>2 DEF Init, WaitListsAgree
<1>5. ObjectsRight
  <2>1. NoLostWakeup
    BY DEF Init, NoLostWakeup
  <2>2. /\ Mutants \subseteq Objects /\ Semaphores \subseteq Objects
        /\ MutantLimit \in Int /\ MutantLimit < 0
    BY NumbersAssumption DEF Objects
  <2>3. MutantsAgree
    BY <1>2, <2>2 DEF Init, MutantsAgree
  <2>4. CountsAreLeft
    BY <2>2, ObjectsAssumption DEF Init, CountsAreLeft
  <2> QED BY <2>1, <2>3, <2>4 DEF ObjectsRight
<1>6. PriorityInClass
  <2>1. \A t \in Threads : priority[t] \in Int /\ basePriority[t] = priority[t]
    BY <1>1, PriorityRanges DEF Init
  <2> QED BY <2>1 DEF PriorityInClass
<1>7. NothingForgotten
  BY DEF Init, NothingForgotten, LockedToWait, SwitchIsDue, DpcNotStranded, DpcsRetired,
         NoFrame
<1> QED BY <1>1, <1>3, <1>4, <1>5, <1>6, <1>7 DEF SchedulerInv

\* What the lemmas above leave to be shown of an action.
StructuresRight == SelectionRight /\ WaitListsAgree /\ ObjectsRight /\ PriorityInClass

\* A step that moves no thread and wakes nobody.
LEMMA StructuresUntouched ==
    ASSUME SchedulerInv,
           UNCHANGED <<state, priority, basePriority, readyVars, prcbVars, waitVars>>,
           pc' = "swap" <=> pc = "swap", ObjectsRight'
    PROVE  StructuresRight'
<1>1. SelectionRight' /\ WaitListsAgree'
  BY SelectionUntouched, WaitsUntouched DEF SchedulerInv
<1>2. PriorityInClass'
  BY DEF SchedulerInv, PriorityInClass
<1> QED BY <1>1, <1>2 DEF StructuresRight

\* The same with the objects untouched as well.
LEMMA AllUntouched ==
    ASSUME SchedulerInv,
           UNCHANGED <<state, priority, basePriority, readyVars, prcbVars, waitVars,
                       objectVars>>,
           pc' = "swap" <=> pc = "swap",
           pc = "waittest" => pc' = "waittest" /\ frame'.obj = frame.obj
    PROVE  StructuresRight'
<1>1. ObjectsRight'
  BY ObjectsUntouched DEF SchedulerInv
<1> QED BY <1>1, StructuresUntouched

\* A step that moves threads about but neither waits nor touches an object.
LEMMA OnlySelection ==
    ASSUME SchedulerInv, SelectionRight', PriorityInClass',
           \A u \in Threads : state'[u] = "Waiting" <=> state[u] = "Waiting",
           UNCHANGED <<waitVars, objectVars>>, pc # "waittest"
    PROVE  StructuresRight'
<1>1. ObjectsRight' /\ WaitListsAgree'
  BY ObjectsUntouched, WaitsUntouched DEF SchedulerInv
<1> QED BY <1>1 DEF StructuresRight

\* Each call keeps the structures right.
LEMMA CallsKeepStructures ==
    ASSUME SchedulerInv, Calls
    PROVE  StructuresRight'
<1>1. ASSUME NEW e \in Events, NEW inc \in Increments, NEW wait \in BOOLEAN,
             KeSetEvent(e, inc, wait)
      PROVE  StructuresRight'
  <2>1. pc = "run" /\ pc' # "swap"
    BY <1>1 DEF KeSetEvent, Call, MayCall, ThreadCalls, ThreadRuns, DpcCalls
  <2>2. ObjectsRight'
    BY <1>1, SchedulerWaits, KeSetEventObjects
  <2> QED BY <1>1, <2>1, <2>2, StructuresUntouched DEF KeSetEvent
<1>2. ASSUME NEW e \in Events, KeResetEvent(e) PROVE StructuresRight'
  <2>1. ObjectsRight'
    BY <1>2, SchedulerWaits, KeResetEventObjects
  <2> QED BY <1>2, <2>1, StructuresUntouched DEF KeResetEvent
<1>3. ASSUME NEW s \in Semaphores, NEW inc \in Increments, NEW adj \in Adjustments,
             NEW wait \in BOOLEAN, KeReleaseSemaphore(s, inc, adj, wait)
      PROVE  StructuresRight'
  <2>1. pc = "run" /\ pc' # "swap"
    BY <1>3 DEF KeReleaseSemaphore, Call, MayCall, ThreadCalls, ThreadRuns, DpcCalls
  <2>2. ObjectsRight'
    BY <1>3, SchedulerWaits, KeReleaseSemaphoreObjects
  <2> QED BY <1>3, <2>1, <2>2, StructuresUntouched DEF KeReleaseSemaphore
<1>4. ASSUME NEW m \in Mutants, NEW inc \in Increments, NEW abandon \in BOOLEAN,
             NEW wait \in BOOLEAN, KeReleaseMutant(m, inc, abandon, wait)
      PROVE  StructuresRight'
  <2>1. pc = "run" /\ pc' # "swap"
    BY <1>4 DEF KeReleaseMutant, Call, ThreadCalls, ThreadRuns
  <2>2. ObjectsRight'
    BY <1>4, SchedulerWaits, KeReleaseMutantObjects
  <2> QED BY <1>4, <2>1, <2>2, StructuresUntouched DEF KeReleaseMutant
<1>5. ASSUME NEW t \in Threads, KeScheduleThread(t) PROVE StructuresRight'
  <2>1. PICK p \in Priorities : p = priority[t]
    BY PriorityRanges DEF SchedulerInv
  <2>2. /\ pc = "run" /\ pc' = "release" /\ current' = current
        /\ state[t] = "Initialized" /\ KiScheduleThread(t, p)
        /\ UNCHANGED <<priority, basePriority, objectVars, waitVars>>
    BY <1>5, <2>1 DEF KeScheduleThread, Call, MayCall, ThreadCalls, ThreadRuns, DpcCalls
  <2>3. priority' = [priority EXCEPT ![t] = p]
    BY <2>1, <2>2 DEF SchedulerInv, TypeInvariant, TypeOK
  <2>4. /\ SelectionRight' /\ state'[t] # "Waiting"
        /\ \A u \in Threads \ {t} : state'[u] = "Waiting" <=> state[u] = "Waiting"
    BY <2>2, <2>3, ScheduleSelects DEF SchedulerInv
  <2>5. PriorityInClass'
    BY <2>2 DEF SchedulerInv, PriorityInClass
  <2> QED BY <2>2, <2>4, <2>5, OnlySelection
<1>6. ASSUME NEW o \in Objects, NEW poll \in BOOLEAN, KeWaitForSingleObject(o, poll)
      PROVE  StructuresRight'
  BY <1>6, KeWaitForSingleObjectKeeps DEF StructuresRight
<1>7. CASE KeRaiseIrqlToDpcLevel
  BY <1>7, AllUntouched DEF KeRaiseIrqlToDpcLevel
<1> QED BY <1>1, <1>2, <1>3, <1>4, <1>5, <1>6, <1>7 DEF Calls

\* Each step within a routine keeps the structures right.
LEMMA ContinueKeepsStructures ==
    ASSUME SchedulerInv, Continue
    PROVE  StructuresRight'
<1>0. /\ TypeInvariant /\ SelectionRight /\ WaitListsAgree /\ PriorityInClass
      /\ current \in Threads \union {Idle}
  BY DEF SchedulerInv, TypeInvariant, TypeOK
<1>1. CASE KiWaitTest
  BY <1>1, KiWaitTestKeeps DEF StructuresRight
<1>2. CASE KiWaitTestDone
  <2>1. /\ pc = "waittest" /\ pc' = "release" /\ ~MoreToWake
        /\ UNCHANGED <<threadVars, readyVars, prcbVars, objectVars, waitVars>>
    BY <1>2 DEF KiWaitTestDone
  <2>2. NoLostWakeup'
    BY <2>1 DEF MoreToWake, SchedulerInv, ObjectsRight, NoLostWakeup
  <2>3. MutantsAgree' /\ CountsAreLeft'
    BY <2>1 DEF SchedulerInv, ObjectsRight, MutantsAgree, CountsAreLeft
  <2> QED BY <2>1, <2>2, <2>3, StructuresUntouched DEF ObjectsRight
<1>3. CASE ReturnLocked
  BY <1>3, AllUntouched DEF ReturnLocked
<1>4. CASE KiUnlockDispatcherDatabase
  <2>1. CASE frame.old < DISPATCH_LEVEL /\ next # NoThread
    <3>1. /\ SwitchToNext /\ pc = "release" /\ pc' = "run"
          /\ UNCHANGED <<priority, basePriority, objectVars, waitVars>>
      BY <1>4, <2>1 DEF KiUnlockDispatcherDatabase
    <3>2. current \in Threads
      BY <1>0, <2>1, <3>1 DEF TypeInvariant, CpuConsistent, DISPATCH_LEVEL
    <3>3. /\ SelectionRight'
          /\ \A u \in Threads : state'[u] = "Waiting" <=> state[u] = "Waiting"
      BY <1>0, <2>1, <3>1, <3>2, SwitchSelects
    <3>4. PriorityInClass'
      BY <1>0, <3>1 DEF PriorityInClass
    <3> QED BY <3>1, <3>3, <3>4, OnlySelection
  <2>2. CASE ~(frame.old < DISPATCH_LEVEL /\ next # NoThread)
    BY <1>4, <2>2, AllUntouched DEF KiUnlockDispatcherDatabase
  <2> QED BY <2>1, <2>2
<1>5. CASE KiSwapThread
  <2>1. /\ SelectionRight'
        /\ \A u \in Threads : state'[u] = "Waiting" <=> state[u] = "Waiting"
    BY <1>0, <1>5, SwapSelects
  <2>2. pc = "swap" /\ UNCHANGED <<priority, basePriority, objectVars, waitVars>>
    BY <1>5 DEF KiSwapThread
  <2>3. PriorityInClass'
    BY <1>0, <2>2 DEF PriorityInClass
  <2> QED BY <2>1, <2>2, <2>3, OnlySelection
<1>6. CASE KiAdjustQuantumThread \/ SwIntQuantumEnd
  <2>1. /\ pc \in {"adjust", "quantum"} /\ pc' \in {"release", "switch"}
        /\ UNCHANGED <<basePriority, current, objectVars, waitVars>>
    BY <1>6 DEF KiAdjustQuantumThread, SwIntQuantumEnd
  <2>2. current \in Threads
    BY <1>0, <2>1 DEF TypeInvariant, CpuConsistent
  <2>3. CASE \E q \in Int : KiQuantumEnd(q)
    <3>1. /\ SelectionRight' /\ PriorityInClass'
          /\ \A u \in Threads : state'[u] = "Waiting" <=> state[u] = "Waiting"
      BY <1>0, <2>1, <2>2, <2>3, QuantumEndSelects
    <3> QED BY <2>1, <3>1, OnlySelection
  <2>4. CASE UNCHANGED <<quantum, priority, next, state, readyVars>>
    BY <2>1, <2>4, AllUntouched
  <2>5. /\ quantum[current] \in Int
        /\ quantum[current] - WaitQuantumDecrement \in Int
    BY <1>0, <2>2, NumbersAssumption DEF TypeInvariant, TypeOK
  <2>6. \/ KiQuantumEnd(quantum[current] - WaitQuantumDecrement)
        \/ KiQuantumEnd(quantum[current])
        \/ UNCHANGED <<quantum, priority, next, state, readyVars>>
    BY <1>6 DEF KiAdjustQuantumThread, SwIntQuantumEnd
  <2> QED BY <2>3, <2>4, <2>5, <2>6
<1>7. CASE HalpSwIntDpc \/ KiExecuteDpcQueue \/ DpcQueueRetired \/ KiIdleLoop
  BY <1>7, AllUntouched DEF HalpSwIntDpc, KiExecuteDpcQueue, DpcQueueRetired, KiIdleLoop
<1>8. CASE SwIntSwitch
  <2>1. CASE next # NoThread
    <3>1. /\ SwitchToNext /\ pc = "switch" /\ pc' = "run"
          /\ UNCHANGED <<priority, basePriority, objectVars, waitVars>>
      BY <1>8, <2>1 DEF SwIntSwitch
    <3>2. current \in Threads
      BY <1>0, <3>1 DEF TypeInvariant, CpuConsistent
    <3>3. /\ SelectionRight'
          /\ \A u \in Threads : state'[u] = "Waiting" <=> state[u] = "Waiting"
      BY <1>0, <2>1, <3>1, <3>2, SwitchSelects
    <3>4. PriorityInClass'
      BY <1>0, <3>1 DEF PriorityInClass
    <3> QED BY <3>1, <3>3, <3>4, OnlySelection
  <2>2. CASE next = NoThread
    BY <1>8, <2>2, AllUntouched DEF SwIntSwitch
  <2> QED BY <2>1, <2>2
<1>9. CASE IdleSwitch
  <2>1. /\ SelectionRight'
        /\ \A u \in Threads : state'[u] = "Waiting" <=> state[u] = "Waiting"
    BY <1>0, <1>9, IdleSelects
  <2>2. pc = "idle" /\ UNCHANGED <<priority, basePriority, objectVars, waitVars>>
    BY <1>9 DEF IdleSwitch
  <2>3. PriorityInClass'
    BY <1>0, <2>2 DEF PriorityInClass
  <2> QED BY <2>1, <2>2, <2>3, OnlySelection
<1> QED BY <1>1, <1>2, <1>3, <1>4, <1>5, <1>6, <1>7, <1>8, <1>9 DEF Continue

\* Every step keeps the invariant.
LEMMA NextScheduler == SchedulerInv /\ [Next]_vars => SchedulerInv'
<1> SUFFICES ASSUME SchedulerInv, [Next]_vars PROVE SchedulerInv'
  OBVIOUS
<1>1. TypeInvariant'
  BY NextTypes DEF SchedulerInv
<1>2. CASE Calls
  <2>1. StructuresRight'
    BY <1>2, CallsKeepStructures
  <2>2. NothingForgotten'
    BY <1>2, CallsForgetNothing, WaitForgetsNothing, IrqlForgetsNothing DEF Calls
  <2> QED BY <1>1, <2>1, <2>2 DEF SchedulerInv, StructuresRight
<1>3. CASE Continue
  <2>1. StructuresRight'
    BY <1>3, ContinueKeepsStructures
  <2>2. NothingForgotten'
    BY <1>3, WaitTestForgetsNothing, ReturnForgetsNothing, WaitForgetsNothing,
       DispatchForgetsNothing DEF Continue
  <2> QED BY <1>1, <2>1, <2>2 DEF SchedulerInv, StructuresRight
<1>4. CASE KfLowerIrql \/ DpcReturns \/ HalpClockIsr \/ KeInsertQueueDpc
  <2>1. StructuresRight'
    BY <1>4, AllUntouched DEF KfLowerIrql, DpcReturns, DpcCalls, HalpClockIsr,
                              KeInsertQueueDpc
  <2>2. NothingForgotten'
    BY <1>4, IrqlForgetsNothing, DispatchForgetsNothing, InterruptsForgetNothing
  <2> QED BY <1>1, <2>1, <2>2 DEF SchedulerInv, StructuresRight
<1>5. CASE UNCHANGED vars
  <2>1. StructuresRight'
    BY <1>5, AllUntouched DEF vars
  <2>2. NothingForgotten'
    BY <1>5, QuietForgetsNothing DEF vars, SchedulerInv
  <2> QED BY <1>1, <2>1, <2>2 DEF SchedulerInv, StructuresRight
<1> QED BY <1>2, <1>3, <1>4, <1>5 DEF Next

-----------------------------------------------------------------------------
\* The inductive invariant holds in every state the dispatcher can reach.
THEOREM SchedulerInvariant == Spec => []SchedulerInv
BY InitScheduler, NextScheduler, PTL DEF Spec

\* No thread is lost or in two places, whatever moved it: PRCB, ready lists,
\* wait lists and thread states tell the same story, through KiScheduleThread,
\* KiQuantumEnd, KiSwapThread, KiWaitTest and both kinds of switch.
THEOREM SchedulerStructures == Spec => []StructuresAgree
<1>1. SchedulerInv => StructuresAgree
  <2> SUFFICES ASSUME SchedulerInv PROVE ReadyListsAgree
    BY DEF SchedulerInv, SelectionRight, StructuresAgree
  <2>1. ReadyAre
    BY DEF SchedulerInv, SelectionRight
  <2>2. ASSUME NEW p \in Priorities, NEW i \in 1..Len(ready[p])
        PROVE  state[ready[p][i]] = "Ready" /\ priority[ready[p][i]] = p
    <3>1. ready[p] \in Seq(Threads)
      BY DEF SchedulerInv, TypeInvariant, TypeOK
    <3>2. ready[p][i] \in Threads /\ ready[p][i] \in Listed(ready[p])
      BY <3>1, ElementOfSeq DEF Listed
    <3> QED BY <2>1, <3>2 DEF ReadyAre
  <2>3. \A t \in Threads : priority[t] \in Priorities
    BY PriorityRanges DEF SchedulerInv
  <2> QED BY <2>1, <2>2, <2>3 DEF ReadyAre, ReadyListsAgree
<1> QED BY <1>1, SchedulerInvariant, PTL

\* Nobody sleeps on a signalled object, although KeSetEvent, KeReleaseSemaphore
\* and KeReleaseMutant each skip KiWaitTest on a test of the old state.
THEOREM NoWakeupIsLost == Spec => []NoLostWakeup
<1>1. SchedulerInv => NoLostWakeup
  BY DEF SchedulerInv, ObjectsRight
<1> QED BY <1>1, SchedulerInvariant, PTL

\* Mutants agree with their owners' lists, and no owner waits for its own.
THEOREM ObjectsAndOwners == Spec => []ObjectsAgree
<1>1. SchedulerInv => ObjectsAgree
  BY DEF SchedulerInv, ObjectsRight, ObjectsAgree
<1> QED BY <1>1, SchedulerInvariant, PTL

\* Nobody is ready at a higher priority than the thread that runs or is about
\* to, and boosts and decays keep every thread in its class.
THEOREM BestThreadRuns == Spec => []PrioritiesRight
<1>1. SchedulerInv => PrioritiesRight
  BY DEF SchedulerInv, SelectionRight, PrioritiesRight
<1> QED BY <1>1, SchedulerInvariant, PTL

\* No preemption is forgotten below DISPATCH_LEVEL, and no DPC stays queued
\* without an interrupt to come or someone at the queue.
THEOREM PutOffIsDone == Spec => []NothingPutOffIsForgotten
<1>1. SchedulerInv => NothingPutOffIsForgotten
  <2> SUFFICES ASSUME SchedulerInv PROVE NoStandbyForgotten
    BY DEF SchedulerInv, NothingForgotten, NothingPutOffIsForgotten
  <2>1. ASSUME ThreadRuns, irql < DISPATCH_LEVEL, next # NoThread PROVE FALSE
    <3>1. /\ pc = "run" /\ current # Idle /\ ~dpcActive /\ ~dispatchPending
          /\ current \in Threads /\ irql # DISPATCH_LEVEL
      BY <2>1 DEF ThreadRuns, SoftwareInterrupt, SchedulerInv, TypeInvariant, TypeOK,
                  DISPATCH_LEVEL
    <3>2. waitNext[current]
      BY <2>1, <3>1 DEF SchedulerInv, NothingForgotten, SwitchIsDue
    <3> QED BY <3>1, <3>2 DEF SchedulerInv, NothingForgotten, LockedToWait
  <2> QED BY <2>1 DEF NoStandbyForgotten
<1> QED BY <1>1, SchedulerInvariant, PTL

-----------------------------------------------------------------------------
(* Dispatcher implements the atomic objects of SyncObjects: every step of   *)
(* the dispatcher is, to who looks through the mapping of                   *)
(* DispatcherRefinement, one step of the abstract objects or none.          *)

-----------------------------------------------------------------------------
(* What is needed of events besides the scheduler's invariant.              *)

\* An event is signalled or not: it does not count.
EventsAreBits == \A e \in Events : signal[e] \in {0, 1}

\* The start.
LEMMA InitBits == Init => EventsAreBits
BY ObjectsAssumption DEF Init, EventsAreBits, Events, Objects

\* KeSetEvent stores 1, KeResetEvent and a satisfied wait 0; nothing else stores.
LEMMA NextBits == TypeInvariant /\ EventsAreBits /\ [Next]_vars => EventsAreBits'
<1> SUFFICES ASSUME TypeInvariant, EventsAreBits, [Next]_vars PROVE EventsAreBits'
  OBVIOUS
<1>1. /\ signal \in [Objects -> Int] /\ Events \subseteq Objects
      /\ Events \intersect Semaphores = {} /\ Events \intersect Mutants = {}
  BY ObjectsAssumption DEF TypeInvariant, TypeOK, Objects
<1>2. ASSUME NEW o \in Events, NEW b \in {0, 1}, signal' = [signal EXCEPT ![o] = b]
      PROVE  EventsAreBits'
  BY <1>1, <1>2 DEF EventsAreBits
<1>3. ASSUME NEW o \in Objects \ Events, NEW n, signal' = [signal EXCEPT ![o] = n]
      PROVE  EventsAreBits'
  BY <1>1, <1>3 DEF EventsAreBits
<1>4. CASE signal' = signal
  BY <1>4 DEF EventsAreBits
<1>5. ASSUME NEW o \in Objects, NEW t, KiWaitSatisfyAny(o, t) PROVE EventsAreBits'
  <2>1. CASE o \in Events
    BY <1>1, <1>2, <1>4, <1>5, <2>1 DEF KiWaitSatisfyAny, Events
  <2>2. CASE o \notin Events
    BY <1>3, <1>4, <1>5, <2>2 DEF KiWaitSatisfyAny, KiWaitSatisfyMutant
  <2> QED BY <2>1, <2>2
<1>6. CASE Calls
  <2>1. ASSUME NEW e \in Events, NEW inc, NEW wait, KeSetEvent(e, inc, wait)
        PROVE  EventsAreBits'
    BY <1>2, <1>4, <2>1 DEF KeSetEvent
  <2>2. ASSUME NEW e \in Events, KeResetEvent(e) PROVE EventsAreBits'
    BY <1>2, <2>2 DEF KeResetEvent
  <2>3. ASSUME NEW s \in Semaphores, NEW inc, NEW adj, NEW wait,
               KeReleaseSemaphore(s, inc, adj, wait)
        PROVE  EventsAreBits'
    <3>1. s \in Objects \ Events
      BY <1>1 DEF Objects
    <3> QED BY <1>3, <1>4, <2>3, <3>1 DEF KeReleaseSemaphore
  <2>4. ASSUME NEW m \in Mutants, NEW inc, NEW abandon, NEW wait,
               KeReleaseMutant(m, inc, abandon, wait)
        PROVE  EventsAreBits'
    <3>1. m \in Objects \ Events
      BY <1>1 DEF Objects
    <3> QED BY <1>3, <1>4, <2>4, <3>1 DEF KeReleaseMutant
  <2>5. ASSUME NEW t \in Threads, KeScheduleThread(t) PROVE EventsAreBits'
    BY <1>4, <2>5 DEF KeScheduleThread
  <2>6. ASSUME NEW o \in Objects, NEW poll, KeWaitForSingleObject(o, poll)
        PROVE  EventsAreBits'
    BY <1>4, <1>5, <2>6 DEF KeWaitForSingleObject
  <2>7. CASE KeRaiseIrqlToDpcLevel
    BY <1>4, <2>7 DEF KeRaiseIrqlToDpcLevel
  <2> QED BY <1>6, <2>1, <2>2, <2>3, <2>4, <2>5, <2>6, <2>7 DEF Calls
<1>7. CASE Continue
  <2>1. CASE KiWaitTest
    <3>1. frame.obj \in Objects
      BY <2>1 DEF KiWaitTest, TypeInvariant, CpuConsistent
    <3> QED BY <1>5, <2>1, <3>1 DEF KiWaitTest
  <2>2. CASE signal' = signal
    BY <1>4, <2>2
  <2> QED BY <1>7, <2>1, <2>2
          DEF Continue, KiWaitTestDone, ReturnLocked, KiUnlockDispatcherDatabase,
              KiSwapThread, KiAdjustQuantumThread, HalpSwIntDpc, KiExecuteDpcQueue,
              DpcQueueRetired, SwIntQuantumEnd, SwIntSwitch, KiIdleLoop, IdleSwitch
<1>8. CASE KfLowerIrql \/ DpcReturns \/ HalpClockIsr \/ KeInsertQueueDpc
  BY <1>4, <1>8 DEF KfLowerIrql, DpcReturns, HalpClockIsr, KeInsertQueueDpc
<1>9. CASE UNCHANGED vars
  BY <1>4, <1>9 DEF vars
<1> QED BY <1>6, <1>7, <1>8, <1>9 DEF Next

-----------------------------------------------------------------------------
(* The mapping.                                                             *)

\* A list without its first entry is the list from the second entry on, and a
\* list from the first entry on is the list.
LEMMA WholeList ==
    ASSUME NEW S, NEW q \in Seq(S)
    PROVE  SubSeq(q, 1, Len(q)) = q /\ SubSeq(q, 0 + 1, Len(q)) = q
<1> DEFINE r == SubSeq(q, 1, Len(q))
<1>1. Len(q) \in Nat /\ Len(q) \in 0..Len(q)
  OBVIOUS
<1>2. r \in Seq(S) /\ Len(r) = Len(q) /\ \A i \in 1..Len(q) : r[i] = q[i]
  BY <1>1, TakeFirst
<1> HIDE DEF r
<1>3. r = q
  BY <1>2, SeqEqual
<1>4. 0 + 1 = 1
  OBVIOUS
<1> QED BY <1>3, <1>4 DEF r

\* Leaving out one and then the others is leaving them all out.
LEMMA DropFromTail ==
    ASSUME NEW S, NEW q \in Seq(S), q # <<>>, NEW k \in 1..Len(q)
    PROVE  SubSeq(Tail(q), (k - 1) + 1, Len(Tail(q))) = SubSeq(q, k + 1, Len(q))
<1>1. /\ Tail(q) \in Seq(S) /\ Len(Tail(q)) = Len(q) - 1 /\ Len(q) \in Nat
      /\ \A i \in 1..Len(Tail(q)) : Tail(q)[i] = q[i + 1]
  BY TailOfList
<1> DEFINE a == SubSeq(Tail(q), (k - 1) + 1, Len(Tail(q)))
           b == SubSeq(q, k + 1, Len(q))
<1>2. k - 1 \in 0..Len(Tail(q)) /\ k \in 0..Len(q)
  BY <1>1
<1>3. \A s \in Seq(S) : \A j \in 0..Len(s) :
          /\ SubSeq(s, j + 1, Len(s)) \in Seq(S)
          /\ Len(SubSeq(s, j + 1, Len(s))) = Len(s) - j
          /\ \A i \in 1..(Len(s) - j) : SubSeq(s, j + 1, Len(s))[i] = s[i + j]
  BY DropFirst
<1>4. /\ a \in Seq(S) /\ Len(a) = Len(Tail(q)) - (k - 1)
      /\ \A i \in 1..(Len(Tail(q)) - (k - 1)) : a[i] = Tail(q)[i + (k - 1)]
  BY <1>1, <1>2, <1>3
<1>5. /\ b \in Seq(S) /\ Len(b) = Len(q) - k
      /\ \A i \in 1..(Len(q) - k) : b[i] = q[i + k]
  BY <1>1, <1>2, <1>3
<1> HIDE DEF a, b
<1>6. Len(a) = Len(b)
  BY <1>1, <1>4, <1>5
<1>7. ASSUME NEW i \in 1..Len(a) PROVE a[i] = b[i]
  <2>1. /\ i \in 1..(Len(Tail(q)) - (k - 1)) /\ i \in 1..(Len(q) - k)
        /\ i + (k - 1) \in 1..Len(Tail(q)) /\ (i + (k - 1)) + 1 = i + k
    BY <1>1, <1>4
  <2> QED BY <1>1, <1>4, <1>5, <2>1
<1> QED BY <1>4, <1>5, <1>6, <1>7, SeqEqual DEF a, b

\* As long as KiWaitTest is not at work, threads see what there is.
AtRest == pc # "waittest"

SeenAsItIs ==
    /\ SignalSeen = signal /\ WaitersSeen = waitList
    /\ OwnerSeen = owner /\ AbandonedSeen = abandoned

\* Between calls the abstract objects are the objects themselves.
LEMMA SeenAtRest == TypeInvariant /\ AtRest => SeenAsItIs
<1> SUFFICES ASSUME TypeInvariant, AtRest PROVE SeenAsItIs
  OBVIOUS
<1>1. /\ signal \in [Objects -> Int] /\ waitList \in [Objects -> Seq(Threads)]
      /\ owner \in [Mutants -> Threads \union {NoThread}]
      /\ abandoned \in [Mutants -> BOOLEAN]
  BY DEF TypeInvariant, TypeOK
<1>2. \A o : Releasing(o) = 0
  BY DEF Releasing, AtRest
<1>3. SignalSeen = signal
  BY <1>1, <1>2 DEF SignalSeen
<1>4. WaitersSeen = waitList
  <2>1. \A o \in Objects : SubSeq(waitList[o], 0 + 1, Len(waitList[o])) = waitList[o]
    BY <1>1, WholeList
  <2> QED BY <1>1, <1>2, <2>1 DEF WaitersSeen
<1>5. OwnerSeen = owner
  BY <1>1, <1>2 DEF OwnerSeen
<1>6. AbandonedSeen = abandoned
  BY <1>1, <1>2 DEF AbandonedSeen
<1> QED BY <1>3, <1>4, <1>5, <1>6 DEF SeenAsItIs

\* After a step.
LEMMA SeenAtRestNext == TypeInvariant' /\ AtRest' => SeenAsItIs'
BY SeenAtRest, PTL

\* While it is, they see the object it works on as it will be.
AtWork == pc = "waittest"

SeenAsItWillBe ==
    \A o \in Objects, k \in Nat : frame.obj = o /\ k = Releasing(o) =>
        /\ SignalSeen = [signal EXCEPT ![o] = IF o \in NotificationEvents
                                              THEN signal[o] ELSE signal[o] - k]
        /\ WaitersSeen = [waitList EXCEPT ![o] =
                             SubSeq(waitList[o], k + 1, Len(waitList[o]))]
        /\ OwnerSeen = IF k > 0 THEN [owner EXCEPT ![o] = Head(waitList[o])] ELSE owner
        /\ AbandonedSeen = IF k > 0 THEN [abandoned EXCEPT ![o] = FALSE] ELSE abandoned

\* While KiWaitTest works the abstract object is what it will leave behind.
LEMMA SeenAtWork == TypeInvariant /\ AtWork => SeenAsItWillBe
<1> SUFFICES ASSUME TypeInvariant, AtWork, NEW o \in Objects, NEW k \in Nat,
                    frame.obj = o, k = Releasing(o)
             PROVE  /\ SignalSeen = [signal EXCEPT ![o] =
                           IF o \in NotificationEvents THEN signal[o] ELSE signal[o] - k]
                    /\ WaitersSeen = [waitList EXCEPT ![o] =
                           SubSeq(waitList[o], k + 1, Len(waitList[o]))]
                    /\ OwnerSeen = IF k > 0 THEN [owner EXCEPT ![o] = Head(waitList[o])]
                                            ELSE owner
                    /\ AbandonedSeen = IF k > 0 THEN [abandoned EXCEPT ![o] = FALSE]
                                                ELSE abandoned
  BY DEF SeenAsItWillBe
<1>1. /\ signal \in [Objects -> Int] /\ waitList \in [Objects -> Seq(Threads)]
      /\ owner \in [Mutants -> Threads \union {NoThread}]
      /\ abandoned \in [Mutants -> BOOLEAN] /\ Mutants \subseteq Objects
  BY DEF TypeInvariant, TypeOK, Objects
<1>2. \A q : q # o => Releasing(q) = 0
  BY DEF Releasing
<1>3. SignalSeen = [signal EXCEPT ![o] = IF o \in NotificationEvents
                                         THEN signal[o] ELSE signal[o] - k]
  <2>1. SignalSeen[o] = IF o \in NotificationEvents THEN signal[o] ELSE signal[o] - k
    BY DEF SignalSeen
  <2>2. ASSUME NEW q \in Objects, q # o PROVE SignalSeen[q] = signal[q]
    <3>1. Releasing(q) = 0 /\ signal[q] \in Int
      BY <1>1, <1>2, <2>2
    <3> QED BY <3>1 DEF SignalSeen
  <2>3. SignalSeen = [q \in Objects |-> SignalSeen[q]]
    BY DEF SignalSeen
  <2> QED BY <1>1, <2>1, <2>2, <2>3
<1>4. WaitersSeen = [waitList EXCEPT ![o] =
                        SubSeq(waitList[o], k + 1, Len(waitList[o]))]
  <2>1. \A q \in Objects : SubSeq(waitList[q], 0 + 1, Len(waitList[q])) = waitList[q]
    BY <1>1, WholeList
  <2> QED BY <1>1, <1>2, <2>1 DEF WaitersSeen
<1>5. OwnerSeen = IF k > 0 THEN [owner EXCEPT ![o] = Head(waitList[o])] ELSE owner
  <2>1. ASSUME NEW m \in Mutants
        PROVE  OwnerSeen[m] = IF k > 0 /\ m = o THEN Head(waitList[o]) ELSE owner[m]
    BY <1>2 DEF OwnerSeen
  <2>2. OwnerSeen = [m \in Mutants |-> OwnerSeen[m]]
    BY DEF OwnerSeen
  <2> QED BY <1>1, <2>1, <2>2
<1>6. AbandonedSeen = IF k > 0 THEN [abandoned EXCEPT ![o] = FALSE] ELSE abandoned
  <2>1. ASSUME NEW m \in Mutants
        PROVE  AbandonedSeen[m] = IF k > 0 /\ m = o THEN FALSE ELSE abandoned[m]
    <3>1. abandoned[m] \in BOOLEAN
      BY <1>1
    <3>2. AbandonedSeen[m] = (abandoned[m] /\ Releasing(m) = 0)
      BY DEF AbandonedSeen
    <3>3. CASE m = o
      <4>1. (k > 0) <=> ~(Releasing(m) = 0)
        BY <3>3
      <4> QED BY <3>1, <3>2, <3>3, <4>1, Zenon
    <3>4. CASE m # o
      <4>1. Releasing(m) = 0
        BY <1>2, <3>4
      <4> QED BY <3>1, <3>2, <3>4, <4>1, Zenon
    <3> QED BY <3>3, <3>4
  <2>2. AbandonedSeen = [m \in Mutants |-> AbandonedSeen[m]]
    BY DEF AbandonedSeen
  <2> QED BY <1>1, <2>1, <2>2
<1> QED BY <1>3, <1>4, <1>5, <1>6

\* After a step.
LEMMA SeenAtWorkNext == TypeInvariant' /\ AtWork' => SeenAsItWillBe'
BY SeenAtWork, PTL

\* How many KiWaitTest is going to release.
LEMMA HowManyReleased ==
    ASSUME TypeInvariant, pc = "waittest", NEW o \in Objects, frame.obj = o
    PROVE  /\ Releasing(o) \in 0..Len(waitList[o]) /\ Len(waitList[o]) \in Nat
           /\ Releasing(o) = 0 <=> ~MoreToWake
<1>1. signal[o] \in Int /\ waitList[o] \in Seq(Threads)
  BY DEF TypeInvariant, TypeOK
<1>2. Len(waitList[o]) \in Nat /\ (waitList[o] = <<>> <=> Len(waitList[o]) = 0)
  BY <1>1, NoMembers
<1> QED BY <1>1, <1>2 DEF Releasing, MoreToWake

\* An object that is not a mutant has no owner to speak of.
LEMMA OthersHaveNoOwner ==
    ASSUME TypeInvariant, NEW o, o \notin Mutants
    PROVE  \A v : [owner EXCEPT ![o] = v] = owner /\ [abandoned EXCEPT ![o] = v] = abandoned
BY DEF TypeInvariant, TypeOK

\* So it makes no difference to see it as it will be.
LEMMA OthersSeen ==
    ASSUME TypeInvariant, UNCHANGED <<owner, abandoned>>, NEW o, o \notin Mutants,
           NEW v, NEW w, NEW c,
           OwnerSeen = [owner EXCEPT ![o] = v],
           AbandonedSeen = [abandoned EXCEPT ![o] = FALSE],
           OwnerSeen' = IF c THEN [owner' EXCEPT ![o] = w] ELSE owner',
           AbandonedSeen' = IF c THEN [abandoned' EXCEPT ![o] = FALSE] ELSE abandoned'
    PROVE  OwnerSeen' = OwnerSeen /\ AbandonedSeen' = AbandonedSeen
<1>1. \A u : [owner EXCEPT ![o] = u] = owner /\ [abandoned EXCEPT ![o] = u] = abandoned
  BY OthersHaveNoOwner
<1>2. OwnerSeen = owner /\ AbandonedSeen = abandoned
  BY <1>1
<1>3. OwnerSeen' = owner /\ AbandonedSeen' = abandoned
  BY <1>1
<1> QED BY <1>2, <1>3

-----------------------------------------------------------------------------
(* Steps that nobody sees.                                                  *)

Unseen == UNCHANGED Abstract!vars

\* A step between calls that leaves the objects alone.
LEMMA RestUnseen ==
    ASSUME pc # "waittest", pc' # "waittest",
           UNCHANGED <<signal, waitList, owner, abandoned>>
    PROVE  Unseen
<1>1. \A o : Releasing(o) = 0 /\ Releasing(o)' = 0
  BY DEF Releasing
<1> QED BY <1>1 DEF Unseen, Abstract!vars, SignalSeen, WaitersSeen, OwnerSeen, AbandonedSeen

\* A step that leaves the objects and the routine alone.
LEMMA SameUnseen ==
    ASSUME UNCHANGED <<signal, waitList, owner, abandoned, pc, frame>>
    PROVE  Unseen
BY DEF Unseen, Abstract!vars, SignalSeen, WaitersSeen, OwnerSeen, AbandonedSeen, Releasing

\* KiWaitTest hands out what its caller already has given away: one less to
\* give, one less to give it to.
LEMMA KiWaitTestUnseen ==
    ASSUME WaitsRight, TypeInvariant', EventsAreBits, KiWaitTest
    PROVE  Unseen
<1>1. PICK o \in Objects : o = frame.obj
  BY DEF KiWaitTest, WaitsRight, TypeInvariant, CpuConsistent
<1>2. /\ TypeInvariant /\ AtWork /\ AtWork' /\ frame' = frame /\ MoreToWake
      /\ signal[o] > 0 /\ waitList[o] # <<>>
  BY <1>1 DEF KiWaitTest, MoreToWake, AtWork, WaitsRight
<1>3. /\ signal \in [Objects -> Int] /\ waitList \in [Objects -> Seq(Threads)]
      /\ signal[o] \in Int /\ waitList[o] \in Seq(Threads)
      /\ owner \in [Mutants -> Threads \union {NoThread}]
      /\ abandoned \in [Mutants -> BOOLEAN]
  BY <1>2 DEF TypeInvariant, TypeOK
<1>4. /\ KiWaitSatisfyAny(o, Head(waitList[o]))
      /\ waitList' = [waitList EXCEPT ![o] = Tail(waitList[o])]
  BY <1>1 DEF KiWaitTest, KiUnwaitThread
<1>5. PICK k \in Nat : k = Releasing(o)
  BY <1>1, <1>2, HowManyReleased DEF AtWork
<1>6. k \in 1..Len(waitList[o]) /\ Len(waitList[o]) \in Nat
  BY <1>1, <1>2, <1>5, HowManyReleased DEF AtWork
<1>7. /\ waitList'[o] = Tail(waitList[o]) /\ Len(waitList'[o]) = Len(waitList[o]) - 1
      /\ SubSeq(waitList'[o], (k - 1) + 1, Len(waitList'[o]))
             = SubSeq(waitList[o], k + 1, Len(waitList[o]))
  <2>1. waitList'[o] = Tail(waitList[o])
    BY <1>3, <1>4
  <2>2. Len(Tail(waitList[o])) = Len(waitList[o]) - 1
    BY <1>2, <1>3, TailOfList
  <2>3. SubSeq(Tail(waitList[o]), (k - 1) + 1, Len(Tail(waitList[o])))
            = SubSeq(waitList[o], k + 1, Len(waitList[o]))
    BY <1>2, <1>3, <1>6, DropFromTail
  <2> QED BY <2>1, <2>2, <2>3
<1>8. /\ SignalSeen = [signal EXCEPT ![o] = IF o \in NotificationEvents
                                            THEN signal[o] ELSE signal[o] - k]
      /\ WaitersSeen = [waitList EXCEPT ![o] =
                           SubSeq(waitList[o], k + 1, Len(waitList[o]))]
      /\ OwnerSeen = [owner EXCEPT ![o] = Head(waitList[o])]
      /\ AbandonedSeen = [abandoned EXCEPT ![o] = FALSE]
  BY <1>1, <1>2, <1>5, <1>6, SeenAtWork DEF SeenAsItWillBe
<1>9. ASSUME k - 1 = Releasing(o)'
      PROVE  /\ SignalSeen' = [signal' EXCEPT ![o] = IF o \in NotificationEvents
                                  THEN signal'[o] ELSE signal'[o] - (k - 1)]
             /\ WaitersSeen' = [waitList' EXCEPT ![o] =
                    SubSeq(waitList'[o], (k - 1) + 1, Len(waitList'[o]))]
             /\ OwnerSeen' = IF k - 1 > 0
                             THEN [owner' EXCEPT ![o] = Head(waitList'[o])] ELSE owner'
             /\ AbandonedSeen' = IF k - 1 > 0
                                 THEN [abandoned' EXCEPT ![o] = FALSE] ELSE abandoned'
  <2>1. PICK j \in Nat : j = k - 1
    BY <1>6
  <2>2. frame'.obj = o /\ j = Releasing(o)' /\ SeenAsItWillBe'
    BY <1>1, <1>2, <1>9, <2>1, SeenAtWorkNext
  <2>3. /\ SignalSeen' = [signal' EXCEPT ![o] = IF o \in NotificationEvents
                                          THEN signal'[o] ELSE signal'[o] - j]
        /\ WaitersSeen' = [waitList' EXCEPT ![o] =
               SubSeq(waitList'[o], j + 1, Len(waitList'[o]))]
        /\ OwnerSeen' = IF j > 0 THEN [owner' EXCEPT ![o] = Head(waitList'[o])]
                                 ELSE owner'
        /\ AbandonedSeen' = IF j > 0 THEN [abandoned' EXCEPT ![o] = FALSE]
                                     ELSE abandoned'
    BY <2>2 DEF SeenAsItWillBe
  <2> QED BY <2>1, <2>3
<1>10. ASSUME k - 1 = Releasing(o)' PROVE WaitersSeen' = WaitersSeen
  BY <1>3, <1>4, <1>7, <1>8, <1>9, <1>10
<1>11. CASE o \in NotificationEvents
  <2>1. UNCHANGED <<signal, owner, abandoned>> /\ o \notin Mutants
    BY <1>4, <1>11, ObjectsAssumption DEF KiWaitSatisfyAny, KiWaitSatisfyMutant, Events
  <2>2. k = Len(waitList[o])
    BY <1>1, <1>2, <1>3, <1>5, <1>11 DEF Releasing, AtWork
  <2>3. k - 1 = Releasing(o)'
    BY <1>1, <1>2, <1>3, <1>7, <1>11, <2>1, <2>2 DEF Releasing, AtWork
  <2>4. SignalSeen' = SignalSeen
    BY <1>8, <1>9, <1>11, <2>1, <2>3
  <2>5. OwnerSeen' = OwnerSeen /\ AbandonedSeen' = AbandonedSeen
    BY <1>2, <1>8, <1>9, <2>1, <2>3, OthersSeen
  <2> QED BY <1>10, <2>3, <2>4, <2>5 DEF Unseen, Abstract!vars
<1>12. CASE o \notin NotificationEvents
  <2>1. signal' = [signal EXCEPT ![o] = signal[o] - 1]
    <3>1. CASE o \in SynchronizationEvents /\ signal' = [signal EXCEPT ![o] = 0]
      <4>1. signal[o] = 1
        BY <1>2, <3>1 DEF EventsAreBits, Events
      <4> QED BY <3>1, <4>1
    <3>2. CASE signal' = [signal EXCEPT ![o] = @ - 1]
      BY <3>2
    <3> QED BY <1>4, <1>12, <3>1, <3>2 DEF KiWaitSatisfyAny, KiWaitSatisfyMutant
  <2>2. signal'[o] = signal[o] - 1
    BY <1>3, <2>1
  <2>3. k = IF signal[o] < Len(waitList[o]) THEN signal[o] ELSE Len(waitList[o])
    BY <1>1, <1>2, <1>3, <1>5, <1>12 DEF Releasing, AtWork
  <2>4. k - 1 = Releasing(o)'
    <3>1. Releasing(o)' = IF signal'[o] <= 0 THEN 0
                          ELSE IF signal'[o] < Len(waitList'[o]) THEN signal'[o]
                          ELSE Len(waitList'[o])
      BY <1>1, <1>2, <1>12 DEF Releasing, AtWork
    <3>2. PICK s \in Int : s = signal[o]
      BY <1>3
    <3>3. PICK n \in Nat : n = Len(waitList[o])
      BY <1>6
    <3>4. /\ s > 0 /\ signal'[o] = s - 1 /\ Len(waitList'[o]) = n - 1 /\ n > 0
          /\ k = IF s < n THEN s ELSE n
      BY <1>2, <1>6, <1>7, <2>2, <2>3, <3>2, <3>3
    <3> HIDE DEF Releasing
    <3>5. Releasing(o)' = IF s - 1 <= 0 THEN 0 ELSE IF s - 1 < n - 1 THEN s - 1 ELSE n - 1
      BY <3>1, <3>4
    <3> QED BY <3>4, <3>5
  <2>5. SignalSeen' = SignalSeen
    <3>1. signal'[o] - (k - 1) = signal[o] - k
      BY <1>3, <1>6, <2>2
    <3> QED BY <1>3, <1>8, <1>9, <1>12, <2>1, <2>4, <3>1
  <2>6. OwnerSeen' = OwnerSeen /\ AbandonedSeen' = AbandonedSeen
    <3>1. CASE o \in Mutants
      <4>1. signal[o] = 1
        BY <1>2, <1>3, <3>1 DEF WaitsRight, ObjectsRight, MutantsAgree
      <4>2. k = 1
        <5>1. PICK n \in Nat : n = Len(waitList[o])
          BY <1>6
        <5>2. n > 0 /\ k = IF 1 < n THEN 1 ELSE n
          BY <1>6, <2>3, <4>1, <5>1
        <5> QED BY <5>2
      <4>3. o \notin Events /\ o \notin Semaphores
        BY <3>1, ObjectsAssumption
      <4>4. KiWaitSatisfyMutant(o, Head(waitList[o]))
        BY <1>4, <4>3 DEF KiWaitSatisfyAny, Events
      <4>5. /\ owner' = [owner EXCEPT ![o] = Head(waitList[o])]
            /\ abandoned' = [abandoned EXCEPT ![o] = FALSE]
        BY <4>1, <4>4 DEF KiWaitSatisfyMutant
      <4> QED BY <1>8, <1>9, <2>4, <4>2, <4>5
    <3>2. CASE o \notin Mutants
      <4>1. UNCHANGED <<owner, abandoned>>
        BY <1>4, <3>2 DEF KiWaitSatisfyAny
      <4> QED BY <1>2, <1>8, <1>9, <2>4, <3>2, <4>1, OthersSeen
    <3> QED BY <3>1, <3>2
  <2> QED BY <1>10, <2>4, <2>5, <2>6 DEF Unseen, Abstract!vars
<1> QED BY <1>11, <1>12

\* There is nothing left to hand out when it ends.
LEMMA KiWaitTestDoneUnseen ==
    ASSUME WaitsRight, TypeInvariant', KiWaitTestDone
    PROVE  Unseen
<1>1. PICK o \in Objects : o = frame.obj
  BY DEF KiWaitTestDone, WaitsRight, TypeInvariant, CpuConsistent
<1>2. /\ TypeInvariant /\ AtWork /\ AtRest' /\ ~MoreToWake
      /\ UNCHANGED <<signal, owner, abandoned, waitList>>
  BY DEF KiWaitTestDone, AtWork, AtRest, WaitsRight
<1>3. /\ signal \in [Objects -> Int] /\ waitList \in [Objects -> Seq(Threads)]
      /\ signal[o] \in Int
  BY <1>2 DEF TypeInvariant, TypeOK
<1>4. 0 = Releasing(o)
  BY <1>1, <1>2, HowManyReleased DEF AtWork
<1>5. /\ SignalSeen = [signal EXCEPT ![o] = IF o \in NotificationEvents
                                            THEN signal[o] ELSE signal[o] - 0]
      /\ WaitersSeen = [waitList EXCEPT ![o] =
                           SubSeq(waitList[o], 0 + 1, Len(waitList[o]))]
      /\ OwnerSeen = owner /\ AbandonedSeen = abandoned
  <2>1. PICK k \in Nat : k = 0
    OBVIOUS
  <2>2. frame.obj = o /\ k = Releasing(o) /\ SeenAsItWillBe /\ ~(k > 0)
    BY <1>1, <1>2, <1>4, <2>1, SeenAtWork
  <2>3. /\ SignalSeen = [signal EXCEPT ![o] = IF o \in NotificationEvents
                                              THEN signal[o] ELSE signal[o] - k]
        /\ WaitersSeen = [waitList EXCEPT ![o] =
                             SubSeq(waitList[o], k + 1, Len(waitList[o]))]
        /\ OwnerSeen = owner /\ AbandonedSeen = abandoned
    BY <2>2 DEF SeenAsItWillBe
  <2> QED BY <2>1, <2>3
<1>6. SubSeq(waitList[o], 0 + 1, Len(waitList[o])) = waitList[o]
  BY <1>3, WholeList
<1>7. SignalSeen = signal /\ WaitersSeen = waitList
  BY <1>3, <1>5, <1>6
<1>8. SeenAsItIs'
  BY <1>2, SeenAtRestNext
<1> QED BY <1>2, <1>5, <1>7, <1>8 DEF SeenAsItIs, Unseen, Abstract!vars


-----------------------------------------------------------------------------
(* Steps that threads see.                                                  *)

\* Code that makes a call finds no release half done.
LEMMA SeenByCallers ==
    ASSUME WaitsRight, pc = "run"
    PROVE  /\ TypeInvariant /\ SeenAsItIs
           /\ \A o \in Objects : signal[o] > 0 => waitList[o] = <<>>
           /\ signal \in [Objects -> Int] /\ waitList \in [Objects -> Seq(Threads)]
           /\ owner \in [Mutants -> Threads \union {NoThread}]
           /\ abandoned \in [Mutants -> BOOLEAN]
<1>1. TypeInvariant /\ AtRest
  BY DEF WaitsRight, AtRest
<1>2. \A o \in Objects : signal[o] > 0 => waitList[o] = <<>>
  BY DEF WaitsRight, ObjectsRight, NoLostWakeup
<1> QED BY <1>1, <1>2, SeenAtRest DEF TypeInvariant, TypeOK

\* After a call that leaves for KiWaitTest the object is seen as it will be.
LEMMA SeenOnRelease ==
    ASSUME TypeInvariant', NEW o \in Objects, pc' = "waittest", frame'.obj = o,
           NEW k \in Nat, k = Releasing(o)'
    PROVE  /\ SignalSeen' = [signal' EXCEPT ![o] = IF o \in NotificationEvents
                                THEN signal'[o] ELSE signal'[o] - k]
           /\ WaitersSeen' = [waitList' EXCEPT ![o] =
                  SubSeq(waitList'[o], k + 1, Len(waitList'[o]))]
           /\ OwnerSeen' = IF k > 0 THEN [owner' EXCEPT ![o] = Head(waitList'[o])]
                                    ELSE owner'
           /\ AbandonedSeen' = IF k > 0 THEN [abandoned' EXCEPT ![o] = FALSE]
                                        ELSE abandoned'
<1>1. SeenAsItWillBe'
  BY SeenAtWorkNext DEF AtWork
<1> QED BY <1>1 DEF SeenAsItWillBe

\* Any other call shows what it did.
LEMMA SeenOnReturn ==
    ASSUME TypeInvariant', pc' # "waittest"
    PROVE  /\ SignalSeen' = signal' /\ WaitersSeen' = waitList'
           /\ OwnerSeen' = owner' /\ AbandonedSeen' = abandoned'
BY SeenAtRestNext DEF AtRest, SeenAsItIs

\* KeSetEvent lets the waiters through in one step.
LEMMA KeSetEventSeen ==
    ASSUME WaitsRight, TypeInvariant', EventsAreBits,
           NEW e \in Events, NEW inc \in Increments, NEW wait \in BOOLEAN,
           KeSetEvent(e, inc, wait)
    PROVE  Abstract!Next \/ Unseen
<1>1. pc = "run" /\ UNCHANGED <<owner, abandoned, waitList>>
  BY DEF KeSetEvent, MayCall, ThreadCalls, ThreadRuns, DpcCalls
<1>2. /\ TypeInvariant /\ SeenAsItIs
      /\ signal \in [Objects -> Int] /\ waitList \in [Objects -> Seq(Threads)]
      /\ signal[e] > 0 => waitList[e] = <<>>
      /\ e \in Objects /\ e \notin Mutants
  BY <1>1, SeenByCallers, ObjectsAssumption DEF Objects
<1>3. signal[e] \in {0, 1} /\ waitList[e] \in Seq(Threads)
  BY <1>2 DEF EventsAreBits
<1>4. CASE waitList[e] = <<>> /\ signal' = [signal EXCEPT ![e] = 1] /\ pc' = "release"
  <2>1. /\ SignalSeen' = [SignalSeen EXCEPT ![e] = 1] /\ WaitersSeen' = WaitersSeen
        /\ OwnerSeen' = OwnerSeen /\ AbandonedSeen' = AbandonedSeen
        /\ WaitersSeen[e] = <<>> /\ WaitersSeen \in [Objects -> Seq(Threads)]
    BY <1>1, <1>2, <1>4, SeenOnReturn DEF SeenAsItIs
  <2>2. CASE e \in NotificationEvents
    <3>1. WaitersSeen = [WaitersSeen EXCEPT ![e] = <<>>]
      BY <1>2, <2>1
    <3> QED BY <2>1, <2>2, <3>1 DEF Abstract!Next, Abstract!SetNotification
  <2>3. CASE e \in SynchronizationEvents
    BY <2>1, <2>3 DEF Abstract!Next, Abstract!SetSynchronization
  <2> QED BY <2>2, <2>3 DEF Events
<1>5. CASE waitList[e] # <<>> /\ ~crashed' /\ signal[e] = 0
           /\ signal' = [signal EXCEPT ![e] = 1] /\ Call("waittest", e, inc, wait)
  <2>1. pc' = "waittest" /\ frame'.obj = e /\ signal'[e] = 1 /\ waitList'[e] = waitList[e]
    BY <1>1, <1>2, <1>5 DEF Call
  <2>2. PICK n \in Nat : n = Len(waitList[e]) /\ n > 0
    BY <1>3, <1>5, TailOfList
  <2>3. Releasing(e)' = IF e \in NotificationEvents THEN n
                        ELSE IF 1 < n THEN 1 ELSE n
    BY <2>1, <2>2 DEF Releasing
  <2>4. CASE e \in NotificationEvents
    <3>1. n = Releasing(e)'
      BY <2>3, <2>4
    <3>2. /\ SignalSeen' = [signal' EXCEPT ![e] = signal'[e]]
          /\ WaitersSeen' = [waitList EXCEPT ![e] = SubSeq(waitList[e], n + 1, n)]
          /\ OwnerSeen' = [owner EXCEPT ![e] = Head(waitList[e])]
          /\ AbandonedSeen' = [abandoned EXCEPT ![e] = FALSE]
      BY <1>1, <1>2, <2>1, <2>2, <2>4, <3>1, SeenOnRelease
    <3>3. SubSeq(waitList[e], n + 1, n) = <<>>
      <4>1. n \in 0..Len(waitList[e])
        BY <2>2
      <4>2. /\ SubSeq(waitList[e], n + 1, Len(waitList[e])) \in Seq(Threads)
            /\ Len(SubSeq(waitList[e], n + 1, Len(waitList[e]))) = n - n
        BY <1>3, <2>2, <4>1, DropFirst
      <4> QED BY <2>2, <4>2, EmptySeq
    <3>4. \A u : [owner EXCEPT ![e] = u] = owner /\ [abandoned EXCEPT ![e] = u] = abandoned
      BY <1>2, OthersHaveNoOwner
    <3>5. /\ SignalSeen' = [SignalSeen EXCEPT ![e] = 1]
          /\ WaitersSeen' = [WaitersSeen EXCEPT ![e] = <<>>]
          /\ OwnerSeen' = OwnerSeen /\ AbandonedSeen' = AbandonedSeen
      BY <1>2, <1>5, <3>2, <3>3, <3>4 DEF SeenAsItIs
    <3> QED BY <2>4, <3>5 DEF Abstract!Next, Abstract!SetNotification
  <2>5. CASE e \in SynchronizationEvents
    <3>1. 1 = Releasing(e)' /\ e \notin NotificationEvents
      <4>1. e \notin NotificationEvents
        BY <2>5, ObjectsAssumption
      <4>2. (IF 1 < n THEN 1 ELSE n) = 1
        <5>1. 1 < n \/ n = 1
          <6>1. \A j \in Nat : j > 0 => 1 < j \/ j = 1
            OBVIOUS
          <6> QED BY <2>2, <6>1
        <5> QED BY <5>1
      <4> QED BY <2>3, <4>1, <4>2
    <3>2. PICK k \in Nat : k = 1
      OBVIOUS
    <3>3. /\ SignalSeen' = [signal' EXCEPT ![e] = signal'[e] - k]
          /\ WaitersSeen' = [waitList EXCEPT ![e] =
                                SubSeq(waitList[e], k + 1, Len(waitList[e]))]
          /\ OwnerSeen' = [owner EXCEPT ![e] = Head(waitList[e])]
          /\ AbandonedSeen' = [abandoned EXCEPT ![e] = FALSE]
      <4>1. k = Releasing(e)' /\ k > 0
        BY <3>1, <3>2
      <4> QED BY <1>1, <1>2, <2>1, <3>1, <4>1, SeenOnRelease
    <3>4. \A u : [owner EXCEPT ![e] = u] = owner /\ [abandoned EXCEPT ![e] = u] = abandoned
      BY <1>2, OthersHaveNoOwner
    <3>5. /\ SignalSeen' = SignalSeen
          /\ WaitersSeen' = [WaitersSeen EXCEPT ![e] =
                                SubSeq(WaitersSeen[e], 1 + 1, Len(WaitersSeen[e]))]
          /\ OwnerSeen' = OwnerSeen /\ AbandonedSeen' = AbandonedSeen
          /\ WaitersSeen[e] # <<>>
      BY <1>2, <1>5, <2>1, <3>2, <3>3, <3>4 DEF SeenAsItIs
    <3> QED BY <2>5, <3>5
            DEF Abstract!Next, Abstract!SetSynchronization, Abstract!Leave
  <2> QED BY <2>4, <2>5 DEF Events
<1>6. CASE UNCHANGED <<signal, cpuVars>>
  BY <1>1, <1>6, SameUnseen
<1> QED BY <1>1, <1>2, <1>3, <1>4, <1>5, <1>6 DEF KeSetEvent, Call, MayCall, ThreadCalls,
           ThreadRuns, DpcCalls

\* KeResetEvent is Reset.
LEMMA KeResetEventSeen ==
    ASSUME WaitsRight, TypeInvariant', NEW e \in Events, KeResetEvent(e)
    PROVE  Abstract!Next
<1>1. /\ pc = "run" /\ pc' = "run" /\ UNCHANGED <<owner, abandoned, waitList>>
      /\ signal' = [signal EXCEPT ![e] = 0]
  BY DEF KeResetEvent, MayCall, ThreadCalls, ThreadRuns, DpcCalls
<1>2. /\ SignalSeen' = [SignalSeen EXCEPT ![e] = 0] /\ WaitersSeen' = WaitersSeen
      /\ OwnerSeen' = OwnerSeen /\ AbandonedSeen' = AbandonedSeen
  BY <1>1, SeenByCallers, SeenOnReturn DEF SeenAsItIs
<1> QED BY <1>2 DEF Abstract!Next, Abstract!Reset, Events


\* KeReleaseSemaphore gives each count to a waiter as long as there are any,
\* and what is left over to those who come later.
LEMMA KeReleaseSemaphoreSeen ==
    ASSUME WaitsRight, TypeInvariant', NEW s \in Semaphores, NEW inc \in Increments,
           NEW adj \in Adjustments, NEW wait \in BOOLEAN,
           KeReleaseSemaphore(s, inc, adj, wait)
    PROVE  Abstract!Next \/ Unseen
<1>1. pc = "run" /\ UNCHANGED <<owner, abandoned, waitList>>
  BY DEF KeReleaseSemaphore, MayCall, ThreadCalls, ThreadRuns, DpcCalls
<1>2. /\ TypeInvariant /\ SeenAsItIs
      /\ signal \in [Objects -> Int] /\ waitList \in [Objects -> Seq(Threads)]
      /\ signal[s] > 0 => waitList[s] = <<>>
      /\ s \in Objects /\ s \notin Mutants /\ s \notin NotificationEvents
  BY <1>1, SeenByCallers, ObjectsAssumption DEF Objects, Events
<1>3. signal[s] \in Nat /\ waitList[s] \in Seq(Threads) /\ adj \in Nat \ {0}
  <2>1. signal[s] >= 0 /\ signal[s] \in Int
    BY <1>2 DEF WaitsRight, ObjectsRight, CountsAreLeft
  <2> QED BY <1>2, <2>1, NumbersAssumption
<1>4. CASE signal[s] + adj > SemaphoreLimit
  <2>1. UNCHANGED <<signal, owner, abandoned, waitList>> /\ pc' # "waittest"
    BY <1>1, <1>4 DEF KeReleaseSemaphore, Call
  <2> QED BY <1>1, <1>2, <2>1, RestUnseen
<1>5. CASE signal[s] + adj <= SemaphoreLimit
  <2>1. PICK new \in Nat : new = signal[s] + adj /\ new > 0
    BY <1>3
  <2>2. PICK n \in Nat : n = Len(waitList[s]) /\ (n = 0 <=> waitList[s] = <<>>)
    BY <1>3, NoMembers
  <2>3. /\ signal' = [signal EXCEPT ![s] = new] /\ signal'[s] = new
        /\ adj \in 1..SemaphoreLimit /\ new <= SemaphoreLimit
    <3>1. ~(signal[s] + adj > SemaphoreLimit)
      BY <1>3, <1>5, NumbersAssumption
    <3>2. signal' = [signal EXCEPT ![s] = signal[s] + adj]
      BY <3>1 DEF KeReleaseSemaphore
    <3> QED BY <1>2, <1>3, <1>5, <2>1, <3>2, NumbersAssumption
  <2>4. PICK k \in Nat : k = IF new < n THEN new ELSE n
    OBVIOUS
  <2>5. /\ SignalSeen' = [signal EXCEPT ![s] = new - k]
        /\ WaitersSeen' = [waitList EXCEPT ![s] = SubSeq(waitList[s], k + 1, n)]
        /\ OwnerSeen' = owner /\ AbandonedSeen' = abandoned
    <3>1. CASE signal[s] = 0 /\ waitList[s] # <<>>
      <4>1. /\ pc' = "waittest" /\ frame'.obj = s
            /\ waitList'[s] = waitList[s]
        <5>1. ~(signal[s] + adj > SemaphoreLimit)
          BY <1>3, <1>5, NumbersAssumption
        <5>2. Call("waittest", s, inc, wait)
          BY <3>1, <5>1 DEF KeReleaseSemaphore
        <5> QED BY <1>1, <5>2 DEF Call
      <4>2. k = Releasing(s)' /\ k > 0
        <5>1. ~(new <= 0)
          BY <2>1
        <5>2. Releasing(s)' = IF new < n THEN new ELSE n
          BY <1>2, <2>2, <2>3, <4>1, <5>1 DEF Releasing
        <5> QED BY <2>1, <2>2, <2>4, <3>1, <5>2
      <4>3. /\ SignalSeen' = [signal' EXCEPT ![s] = signal'[s] - k]
            /\ WaitersSeen' = [waitList EXCEPT ![s] = SubSeq(waitList[s], k + 1, n)]
            /\ OwnerSeen' = [owner EXCEPT ![s] = Head(waitList[s])]
            /\ AbandonedSeen' = [abandoned EXCEPT ![s] = FALSE]
        BY <1>1, <1>2, <2>2, <4>1, <4>2, SeenOnRelease
      <4>4. \A u : [owner EXCEPT ![s] = u] = owner /\ [abandoned EXCEPT ![s] = u] = abandoned
        BY <1>2, OthersHaveNoOwner
      <4> QED BY <2>3, <4>3, <4>4
    <3>2. CASE ~(signal[s] = 0 /\ waitList[s] # <<>>)
      <4>1. pc' # "waittest"
        <5>1. ~(signal[s] + adj > SemaphoreLimit)
          BY <1>3, <1>5, NumbersAssumption
        <5>2. Call("release", NoObject, 0, wait)
          BY <3>2, <5>1 DEF KeReleaseSemaphore
        <5> QED BY <5>2 DEF Call
      <4>2. n = 0 /\ k = 0
        <5>1. waitList[s] = <<>>
          BY <1>2, <1>3, <3>2
        <5>2. n = 0
          BY <2>2, <5>1
        <5> QED BY <2>4, <5>2
      <4>3. /\ new - k = new
            /\ SubSeq(waitList[s], k + 1, n) = waitList[s]
        BY <1>3, <2>2, <4>2, WholeList
      <4>4. [waitList EXCEPT ![s] = SubSeq(waitList[s], k + 1, n)] = waitList
        BY <1>2, <4>3
      <4> QED BY <1>1, <2>3, <4>1, <4>3, <4>4, SeenOnReturn
    <3> QED BY <3>1, <3>2
  <2>6. /\ new <= SemaphoreLimit /\ new = SignalSeen[s] + adj
        /\ SignalSeen' = [SignalSeen EXCEPT ![s] = new - k]
        /\ WaitersSeen' = [WaitersSeen EXCEPT ![s] =
                              SubSeq(WaitersSeen[s], k + 1, Len(WaitersSeen[s]))]
        /\ k = IF new < Len(WaitersSeen[s]) THEN new ELSE Len(WaitersSeen[s])
        /\ OwnerSeen' = OwnerSeen /\ AbandonedSeen' = AbandonedSeen
    BY <1>2, <2>1, <2>2, <2>3, <2>4, <2>5 DEF SeenAsItIs
  <2>7. Abstract!ReleaseSemaphore(s, adj)
    BY <2>6 DEF Abstract!ReleaseSemaphore, Abstract!Leave
  <2> QED BY <2>3, <2>7 DEF Abstract!Next
<1> QED BY <1>3, <1>4, <1>5, NumbersAssumption

\* KeReleaseMutant gives a level back, or the mutant to its first waiter.
LEMMA KeReleaseMutantSeen ==
    ASSUME WaitsRight, TypeInvariant', NEW m \in Mutants, NEW inc \in Increments,
           NEW abandon \in BOOLEAN, NEW wait \in BOOLEAN,
           KeReleaseMutant(m, inc, abandon, wait)
    PROVE  Abstract!Next \/ Unseen
<1>1. pc = "run" /\ UNCHANGED waitList /\ current # Idle
  BY DEF KeReleaseMutant, ThreadCalls, ThreadRuns
<1>2. /\ TypeInvariant /\ SeenAsItIs
      /\ signal \in [Objects -> Int] /\ waitList \in [Objects -> Seq(Threads)]
      /\ owner \in [Mutants -> Threads \union {NoThread}]
      /\ abandoned \in [Mutants -> BOOLEAN]
      /\ signal[m] > 0 => waitList[m] = <<>>
      /\ m \in Objects /\ m \notin NotificationEvents
      /\ current \in Threads /\ current # NoThread
  <2>1. m \in Objects /\ m \notin NotificationEvents
    BY ObjectsAssumption DEF Objects, Events
  <2>2. current \in Threads /\ current # NoThread
    BY <1>1, ThreadsAssumption DEF WaitsRight, TypeInvariant, TypeOK
  <2> QED BY <1>1, <2>1, <2>2, SeenByCallers
<1>3. /\ signal[m] \in Int /\ signal[m] <= 1 /\ waitList[m] \in Seq(Threads)
      /\ owner[m] = NoThread <=> signal[m] = 1
  BY <1>2 DEF WaitsRight, ObjectsRight, MutantsAgree
<1>4. CASE ~abandon /\ owner[m] # current
  <2>1. UNCHANGED <<signal, owner, abandoned, waitList>> /\ pc' # "waittest"
    BY <1>1, <1>4 DEF KeReleaseMutant, Call
  <2> QED BY <1>1, <1>2, <2>1, RestUnseen
<1>5. CASE ~abandon /\ owner[m] = current /\ signal[m] < 0
  <2>1. /\ signal[m] + 1 # 1 /\ signal[m] # 1
    BY <1>3, <1>5
  <2>2. /\ signal' = [signal EXCEPT ![m] = signal[m] + 1] /\ owner' = owner
        /\ abandoned' = [abandoned EXCEPT ![m] = @ \/ abandon]
        /\ pc' # "waittest"
    BY <1>5, <2>1 DEF KeReleaseMutant, Call
  <2>3. abandoned' = abandoned
    BY <1>2, <1>5, <2>2
  <2>4. /\ SignalSeen' = [SignalSeen EXCEPT ![m] = @ + 1] /\ WaitersSeen' = WaitersSeen
        /\ OwnerSeen' = OwnerSeen /\ AbandonedSeen' = AbandonedSeen
        /\ OwnerSeen[m] # NoThread /\ SignalSeen[m] < 0
    BY <1>1, <1>2, <1>5, <2>2, <2>3, SeenOnReturn DEF SeenAsItIs
  <2> QED BY <2>4 DEF Abstract!Next, Abstract!ReleaseOneLevel
<1>6. CASE abandon \/ (owner[m] = current /\ ~(signal[m] < 0))
  <2>1. abandon \/ (signal[m] = 0 /\ owner[m] # NoThread)
    BY <1>2, <1>3, <1>6
  <2>2. (IF abandon THEN 1 ELSE signal[m] + 1) = 1 /\ ~(~abandon /\ owner[m] # current)
    BY <1>6, <2>1
  <2>3. /\ signal' = [signal EXCEPT ![m] = 1]
        /\ abandoned' = [abandoned EXCEPT ![m] = @ \/ abandon]
        /\ owner' = [owner EXCEPT ![m] = NoThread]
        /\ IF waitList[m] # <<>> THEN Call("waittest", m, inc, wait)
                                 ELSE Call("release", NoObject, 0, wait)
    BY <2>2 DEF KeReleaseMutant
  <2>4. CASE waitList[m] = <<>>
    <3>1. pc' # "waittest"
      BY <2>3, <2>4 DEF Call
    <3>2. /\ SignalSeen' = [SignalSeen EXCEPT ![m] = 1] /\ WaitersSeen' = WaitersSeen
          /\ OwnerSeen' = [OwnerSeen EXCEPT ![m] = NoThread]
          /\ AbandonedSeen' = [AbandonedSeen EXCEPT ![m] = @ \/ abandon]
          /\ WaitersSeen[m] = <<>>
          /\ abandon \/ (OwnerSeen[m] # NoThread /\ SignalSeen[m] = 0)
      BY <1>1, <1>2, <2>1, <2>3, <2>4, <3>1, SeenOnReturn DEF SeenAsItIs
    <3>3. Abstract!ReleaseMutant(m, abandon)
      BY <3>2 DEF Abstract!ReleaseMutant
    <3> QED BY <3>3 DEF Abstract!Next
  <2>5. CASE waitList[m] # <<>>
    <3>1. /\ pc' = "waittest" /\ frame'.obj = m /\ signal'[m] = 1
          /\ waitList'[m] = waitList[m]
      BY <1>1, <1>2, <2>3, <2>5 DEF Call
    <3>2. PICK n \in Nat : n = Len(waitList[m]) /\ n > 0
      BY <1>3, <2>5, TailOfList
    <3>3. PICK k \in Nat : k = 1
      OBVIOUS
    <3>4. k = Releasing(m)' /\ k > 0
      <4>1. Releasing(m)' = IF 1 < n THEN 1 ELSE n
        BY <1>2, <3>1, <3>2 DEF Releasing
      <4>2. (IF 1 < n THEN 1 ELSE n) = 1
        <5>1. 1 < n \/ n = 1
          <6>1. \A j \in Nat : j > 0 => 1 < j \/ j = 1
            OBVIOUS
          <6> QED BY <3>2, <6>1
        <5> QED BY <5>1
      <4> QED BY <3>3, <4>1, <4>2
    <3>5. /\ SignalSeen' = [signal' EXCEPT ![m] = signal'[m] - k]
          /\ WaitersSeen' = [waitList EXCEPT ![m] =
                                SubSeq(waitList[m], k + 1, Len(waitList[m]))]
          /\ OwnerSeen' = [owner' EXCEPT ![m] = Head(waitList[m])]
          /\ AbandonedSeen' = [abandoned' EXCEPT ![m] = FALSE]
      BY <1>1, <1>2, <3>1, <3>4, SeenOnRelease
    <3>6. /\ SignalSeen' = [SignalSeen EXCEPT ![m] = 0]
          /\ WaitersSeen' = [WaitersSeen EXCEPT ![m] =
                                SubSeq(WaitersSeen[m], 1 + 1, Len(WaitersSeen[m]))]
          /\ OwnerSeen' = [OwnerSeen EXCEPT ![m] = Head(WaitersSeen[m])]
          /\ AbandonedSeen' = [AbandonedSeen EXCEPT ![m] = FALSE]
          /\ WaitersSeen[m] # <<>>
          /\ abandon \/ (OwnerSeen[m] # NoThread /\ SignalSeen[m] = 0)
      BY <1>2, <2>1, <2>3, <2>5, <3>1, <3>3, <3>5 DEF SeenAsItIs
    <3>7. Abstract!ReleaseMutant(m, abandon)
      BY <3>6 DEF Abstract!ReleaseMutant, Abstract!Leave
    <3> QED BY <3>7 DEF Abstract!Next
  <2> QED BY <2>4, <2>5
<1> QED BY <1>4, <1>5, <1>6


\* The two names of the set of objects.
LEMMA SameObjects == Objects = Abstract!Objects
BY DEF Objects, Events, Abstract!Objects

\* A satisfied wait takes the object, and no other thread was there first.
LEMMA TakeSeen ==
    ASSUME WaitsRight, TypeInvariant', EventsAreBits, pc = "run", pc' # "waittest",
           NEW o \in Objects, NEW t \in Threads, CanTake(o, t), ~AtMutantLimit(o),
           KiWaitSatisfyAny(o, t), UNCHANGED waitList
    PROVE  Abstract!Next
<1>1. /\ TypeInvariant /\ SeenAsItIs
      /\ signal \in [Objects -> Int] /\ waitList \in [Objects -> Seq(Threads)]
      /\ owner \in [Mutants -> Threads \union {NoThread}]
      /\ abandoned \in [Mutants -> BOOLEAN]
  BY SeenByCallers
<1>2. WaitersSeen' = WaitersSeen
  BY <1>1, SeenOnReturn DEF SeenAsItIs
<1>3. CASE o \in Events
  <2>1. o \notin Semaphores /\ o \notin Mutants
    BY <1>3, ObjectsAssumption
  <2>2. signal[o] = 1
    BY <1>3, <2>1 DEF EventsAreBits, CanTake
  <2>3. CASE o \in NotificationEvents /\ UNCHANGED objectVars
    <3>1. signal' = [signal EXCEPT ![o] = IF o \in NotificationEvents THEN 1 ELSE 0]
      BY <1>1, <2>2, <2>3
    <3>2. /\ SignalSeen' = [SignalSeen EXCEPT ![o] =
                               IF o \in NotificationEvents THEN 1 ELSE 0]
          /\ OwnerSeen' = OwnerSeen /\ AbandonedSeen' = AbandonedSeen /\ SignalSeen[o] > 0
      BY <1>1, <2>2, <2>3, <3>1, SeenOnReturn DEF SeenAsItIs
    <3> QED BY <1>2, <2>3, <3>2 DEF Abstract!Next, Abstract!TakeEvent
  <2>4. CASE o \in SynchronizationEvents /\ signal' = [signal EXCEPT ![o] = 0]
             /\ UNCHANGED <<owner, abandoned>>
    <3>1. o \notin NotificationEvents
      BY <2>4, ObjectsAssumption
    <3>2. /\ SignalSeen' = [SignalSeen EXCEPT ![o] =
                               IF o \in NotificationEvents THEN 1 ELSE 0]
          /\ OwnerSeen' = OwnerSeen /\ AbandonedSeen' = AbandonedSeen /\ SignalSeen[o] > 0
      BY <1>1, <2>2, <2>4, <3>1, SeenOnReturn DEF SeenAsItIs
    <3> QED BY <1>2, <2>4, <3>2 DEF Abstract!Next, Abstract!TakeEvent
  <2> QED BY <2>1, <2>3, <2>4 DEF KiWaitSatisfyAny
<1>4. CASE o \in Semaphores
  <2>1. o \notin Mutants /\ o \notin NotificationEvents /\ o \notin SynchronizationEvents
    BY <1>4, ObjectsAssumption DEF Events
  <2>2. signal[o] > 0 /\ signal' = [signal EXCEPT ![o] = @ - 1]
        /\ UNCHANGED <<owner, abandoned>>
    BY <2>1 DEF CanTake, KiWaitSatisfyAny
  <2>3. /\ SignalSeen' = [SignalSeen EXCEPT ![o] = @ - 1] /\ SignalSeen[o] > 0
        /\ OwnerSeen' = OwnerSeen /\ AbandonedSeen' = AbandonedSeen
    BY <1>1, <2>2, SeenOnReturn DEF SeenAsItIs
  <2> QED BY <1>2, <1>4, <2>3 DEF Abstract!Next, Abstract!TakeSemaphore
<1>5. CASE o \in Mutants
  <2>1. o \notin Events /\ o \notin Semaphores
    BY <1>5, ObjectsAssumption
  <2>2. KiWaitSatisfyMutant(o, t)
    BY <2>1 DEF KiWaitSatisfyAny, Events
  <2>3. /\ signal[o] \in Int /\ signal[o] <= 1 /\ signal[o] >= MutantLimit
        /\ signal[o] # MutantLimit /\ MutantLimit \in Int
    BY <1>1, <1>5, NumbersAssumption
       DEF WaitsRight, ObjectsRight, MutantsAgree, AtMutantLimit
  <2>4. signal[o] = 1 \/ (owner[o] = t /\ signal[o] > MutantLimit)
    BY <2>3 DEF CanTake
  <2>5. /\ signal' = [signal EXCEPT ![o] = @ - 1]
        /\ owner' = [owner EXCEPT ![o] = t]
        /\ abandoned' = [abandoned EXCEPT ![o] = @ /\ signal[o] # 1]
    <3>1. CASE signal[o] = 1
      BY <1>1, <2>2, <3>1 DEF KiWaitSatisfyMutant
    <3>2. CASE signal[o] # 1
      <4>1. owner[o] = t /\ owner' = owner /\ abandoned' = abandoned
            /\ signal' = [signal EXCEPT ![o] = @ - 1]
        BY <2>2, <2>4, <3>2 DEF KiWaitSatisfyMutant
      <4>2. owner = [owner EXCEPT ![o] = t]
        BY <1>1, <4>1
      <4>3. abandoned = [abandoned EXCEPT ![o] = @ /\ signal[o] # 1]
        BY <1>1, <3>2
      <4> QED BY <4>1, <4>2, <4>3
    <3> QED BY <3>1, <3>2
  <2>6. /\ SignalSeen' = [SignalSeen EXCEPT ![o] = @ - 1]
        /\ OwnerSeen' = [OwnerSeen EXCEPT ![o] = t]
        /\ AbandonedSeen' = [AbandonedSeen EXCEPT ![o] = @ /\ SignalSeen[o] # 1]
        /\ SignalSeen[o] = 1 \/ (OwnerSeen[o] = t /\ SignalSeen[o] > MutantLimit)
    BY <1>1, <2>4, <2>5, SeenOnReturn DEF SeenAsItIs
  <2> QED BY <1>2, <1>5, <2>6 DEF Abstract!Next, Abstract!TakeMutant
<1> QED BY <1>3, <1>4, <1>5 DEF Objects

\* KeWaitForSingleObject takes the object, or joins those who wait for it.
LEMMA KeWaitForSingleObjectSeen ==
    ASSUME WaitsRight, TypeInvariant', EventsAreBits,
           NEW o \in Objects, NEW poll \in BOOLEAN, KeWaitForSingleObject(o, poll)
    PROVE  Abstract!Next \/ Unseen
<1>1. pc = "run" /\ current # Idle /\ pc' # "waittest"
  BY DEF KeWaitForSingleObject, ThreadRuns
<1>2. /\ TypeInvariant /\ SeenAsItIs
      /\ signal \in [Objects -> Int] /\ waitList \in [Objects -> Seq(Threads)]
  BY <1>1, SeenByCallers
<1>3. PICK t \in Threads : t = current
  BY <1>1, <1>2 DEF TypeInvariant, TypeOK
<1>4. CASE CanTake(o, t) /\ ~AtMutantLimit(o) /\ KiWaitSatisfyAny(o, t)
           /\ UNCHANGED waitList
  BY <1>1, <1>4, TakeSeen
<1>5. CASE UNCHANGED <<signal, owner, abandoned, waitList>>
  BY <1>1, <1>2, <1>5, RestUnseen
<1>6. CASE /\ ~CanTake(o, t) /\ waitList' = [waitList EXCEPT ![o] = Append(@, t)]
           /\ UNCHANGED objectVars
  <2>1. signal[o] <= 0 /\ (o \in Mutants => owner[o] # t)
    BY <1>2, <1>6 DEF CanTake
  <2>2. ASSUME NEW q \in Objects, NEW i \in 1..Len(waitList[q]) PROVE waitList[q][i] # t
    <3>1. state[t] = "Running" /\ t \in Threads
      BY <1>1, <1>3 DEF WaitsRight, PrcbAgrees
    <3>2. t \notin waitIn
      BY <3>1 DEF WaitsRight, WaitListsAgree
    <3>3. t \notin Listed(waitList[q])
      BY <3>2 DEF WaitsRight, WaitListsAgree
    <3> QED BY <3>3 DEF Listed
  <2>3. ~Abstract!Waits(t)
    BY <1>2, <2>2, SameObjects DEF Abstract!Waits, SeenAsItIs
  <2>4. /\ SignalSeen' = SignalSeen /\ OwnerSeen' = OwnerSeen
        /\ AbandonedSeen' = AbandonedSeen
        /\ WaitersSeen' = [WaitersSeen EXCEPT ![o] = Append(@, t)]
        /\ SignalSeen[o] <= 0 /\ (o \in Mutants => OwnerSeen[o] # t)
    BY <1>1, <1>2, <1>6, <2>1, SeenOnReturn DEF SeenAsItIs
  <2>5. Abstract!Block(o, t)
    BY <2>3, <2>4 DEF Abstract!Block
  <2> QED BY <2>5, SameObjects DEF Abstract!Next
<1> QED BY <1>3, <1>4, <1>5, <1>6 DEF KeWaitForSingleObject

-----------------------------------------------------------------------------
(* The refinement.                                                          *)

RefinementInv == WaitsRight /\ EventsAreBits

\* The invariant the refinement uses holds throughout.
LEMMA RefinementHolds == Spec => []RefinementInv
<1>1. SchedulerInv => TypeInvariant
  BY DEF SchedulerInv
<1>2. EventsAreBits /\ TypeInvariant /\ [Next]_vars => EventsAreBits'
  BY NextBits
<1> QED BY <1>1, <1>2, InitBits, SchedulerWaits, SchedulerInvariant, PTL
        DEF Spec, RefinementInv

\* At the start nothing is signalled and nobody waits.
LEMMA InitSeen == Init => Abstract!Init
<1> SUFFICES ASSUME Init PROVE Abstract!Init
  OBVIOUS
<1>1. SeenAsItIs
  BY InitTypes, SeenAtRest DEF Init, AtRest
<1> QED BY <1>1, SameObjects DEF Init, SeenAsItIs, Abstract!Init

\* Every step of the dispatcher is a step of the objects, or nobody sees it.
LEMMA NextSeen == RefinementInv /\ [Next]_vars => [Abstract!Next]_Abstract!vars
<1> SUFFICES ASSUME RefinementInv, [Next]_vars PROVE Abstract!Next \/ Unseen
  BY DEF Unseen
<1>1. WaitsRight /\ EventsAreBits /\ TypeInvariant /\ TypeInvariant'
  BY NextTypes DEF RefinementInv, WaitsRight
<1>2. ASSUME pc # "waittest", pc' # "waittest",
             UNCHANGED <<signal, waitList, owner, abandoned>>
      PROVE  Unseen
  BY <1>1, <1>2, RestUnseen
<1>3. ASSUME UNCHANGED <<signal, waitList, owner, abandoned, pc, frame>> PROVE Unseen
  BY <1>3, SameUnseen
<1>4. CASE Calls
  <2>1. ASSUME NEW e \in Events, NEW inc \in Increments, NEW wait \in BOOLEAN,
               KeSetEvent(e, inc, wait)
        PROVE  Abstract!Next \/ Unseen
    BY <1>1, <2>1, KeSetEventSeen
  <2>2. ASSUME NEW e \in Events, KeResetEvent(e) PROVE Abstract!Next \/ Unseen
    BY <1>1, <2>2, KeResetEventSeen
  <2>3. ASSUME NEW s \in Semaphores, NEW inc \in Increments, NEW adj \in Adjustments,
               NEW wait \in BOOLEAN, KeReleaseSemaphore(s, inc, adj, wait)
        PROVE  Abstract!Next \/ Unseen
    BY <1>1, <2>3, KeReleaseSemaphoreSeen
  <2>4. ASSUME NEW m \in Mutants, NEW inc \in Increments, NEW abandon \in BOOLEAN,
               NEW wait \in BOOLEAN, KeReleaseMutant(m, inc, abandon, wait)
        PROVE  Abstract!Next \/ Unseen
    BY <1>1, <2>4, KeReleaseMutantSeen
  <2>5. ASSUME NEW t \in Threads, KeScheduleThread(t) PROVE Unseen
    BY <1>2, <2>5 DEF KeScheduleThread, MayCall, ThreadCalls, ThreadRuns, DpcCalls, Call
  <2>6. ASSUME NEW o \in Objects, NEW poll \in BOOLEAN, KeWaitForSingleObject(o, poll)
        PROVE  Abstract!Next \/ Unseen
    BY <1>1, <2>6, KeWaitForSingleObjectSeen
  <2>7. CASE KeRaiseIrqlToDpcLevel
    BY <1>2, <2>7 DEF KeRaiseIrqlToDpcLevel, ThreadCalls, ThreadRuns
  <2> QED BY <1>4, <2>1, <2>2, <2>3, <2>4, <2>5, <2>6, <2>7 DEF Calls
<1>5. CASE Continue
  <2>1. CASE KiWaitTest
    BY <1>1, <2>1, KiWaitTestUnseen
  <2>2. CASE KiWaitTestDone
    BY <1>1, <2>2, KiWaitTestDoneUnseen
  <2>3. CASE ReturnLocked \/ KiUnlockDispatcherDatabase \/ KiSwapThread
             \/ KiAdjustQuantumThread
    BY <1>2, <2>3 DEF ReturnLocked, KiUnlockDispatcherDatabase, KiSwapThread,
                      KiAdjustQuantumThread
  <2>4. CASE HalpSwIntDpc \/ KiExecuteDpcQueue \/ DpcQueueRetired \/ SwIntQuantumEnd
             \/ SwIntSwitch \/ KiIdleLoop \/ IdleSwitch
    BY <1>2, <2>4 DEF HalpSwIntDpc, KiExecuteDpcQueue, DpcQueueRetired,
                      SwIntQuantumEnd, SwIntSwitch, KiIdleLoop, IdleSwitch
  <2> QED BY <1>5, <2>1, <2>2, <2>3, <2>4 DEF Continue
<1>6. CASE KfLowerIrql \/ DpcReturns
  BY <1>2, <1>6 DEF KfLowerIrql, DpcReturns, ThreadCalls, ThreadRuns, DpcCalls
<1>7. CASE HalpClockIsr \/ KeInsertQueueDpc
  BY <1>3, <1>7 DEF HalpClockIsr, KeInsertQueueDpc
<1>8. CASE UNCHANGED vars
  BY <1>3, <1>8 DEF vars
<1> QED BY <1>4, <1>5, <1>6, <1>7, <1>8 DEF Next

\* Seen through the mapping, every behaviour of the dispatcher is one of the
\* atomic events, semaphores and mutants: KiWaitTest releases the waiters one
\* at a time, with preemptions and interrupts in between, and threads still see
\* each KeSetEvent, KeReleaseSemaphore and KeReleaseMutant as a single step.
THEOREM AtomicObjects == Spec => ImplementsSyncObjects
BY InitSeen, NextSeen, RefinementHolds, PTL DEF Spec, ImplementsSyncObjects, Abstract!Spec

-----------------------------------------------------------------------------
(* The exported routines of DispatcherExports: threads, lists and mask.     *)

Readies == {t \in Threads : state[t] = "Ready"}

\* Lists and a mask that hold the threads of R, each once, on the list of its
\* priority.  Some routines edit the lists twice in one step, so this is about
\* any lists, not only about ready.
Holds(lists, mask, R, pr) ==
    /\ lists \in [Priorities -> Seq(Threads)]
    /\ mask \subseteq Priorities
    /\ \A p \in Priorities : p \in mask <=> lists[p] # <<>>
    /\ \A p \in Priorities : NoRepeats(lists[p])
    /\ \A p \in Priorities, t \in Threads :
           t \in Listed(lists[p]) <=> t \in R /\ pr[t] = p

\* Where the threads are.
Placed ==
    /\ state \in [Threads -> ThreadStates]
    /\ priority \in [Threads -> Priorities]
    /\ next \in Threads \union {NoThread}
    /\ current \in Threads \union {Idle}
    /\ PrcbAgrees
    /\ Holds(ready, readyMask, Readies, priority)

\* A list that has got one thread more sets its bit.
LEMMA LongerHolds ==
    ASSUME NEW l, NEW m, NEW R, NEW pr, NEW pr2, Holds(l, m, R, pr),
           NEW t \in Threads, t \notin R, NEW p \in Priorities, pr2[t] = p,
           \A u \in R : pr2[u] = pr[u],
           NEW q \in Seq(Threads), Distinct(q), Members(q) = Members(l[p]) \union {t}
    PROVE  Holds([l EXCEPT ![p] = q], m \union {p}, R \union {t}, pr2)
<1> DEFINE l2 == [l EXCEPT ![p] = q]
<1>1. l \in [Priorities -> Seq(Threads)] /\ m \subseteq Priorities
  BY DEF Holds
<1>2. /\ l2 \in [Priorities -> Seq(Threads)] /\ l2[p] = q
      /\ \A r \in Priorities \ {p} : l2[r] = l[r]
  BY <1>1
<1> HIDE DEF l2
<1>3. q # <<>>
  BY NoMembers
<1>4. \A r \in Priorities : r \in m \union {p} <=> l2[r] # <<>>
  BY <1>2, <1>3 DEF Holds
<1>5. \A r \in Priorities : NoRepeats(l2[r])
  BY <1>2, ListNames DEF Holds
<1>6. ASSUME NEW r \in Priorities, NEW u \in Threads
      PROVE  u \in Listed(l2[r]) <=> u \in R \union {t} /\ pr2[u] = r
  <2>1. u \in Listed(l[r]) <=> u \in R /\ pr[u] = r
    BY DEF Holds
  <2>2. CASE r = p
    <3>1. u \in Listed(l2[r]) <=> u \in Listed(l[r]) \/ u = t
      BY <1>2, <2>2, ListNames
    <3> QED BY <2>1, <2>2, <3>1
  <2>3. CASE r # p
    BY <1>2, <2>1, <2>3
  <2> QED BY <2>2, <2>3
<1>7. m \union {p} \subseteq Priorities
  BY <1>1
<1>8. Holds(l2, m \union {p}, R \union {t}, pr2)
  BY <1>2, <1>4, <1>5, <1>6, <1>7 DEF Holds
<1> QED BY <1>8 DEF l2

\* A list that has lost a thread clears its bit if it became empty.
LEMMA ShorterHolds ==
    ASSUME NEW l, NEW m, NEW R, NEW pr, Holds(l, m, R, pr),
           NEW t \in Threads, NEW p \in Priorities, pr[t] = p,
           NEW q \in Seq(Threads), Distinct(q), Members(q) = Members(l[p]) \ {t}
    PROVE  Holds([l EXCEPT ![p] = q], IF q = <<>> THEN m \ {p} ELSE m, R \ {t}, pr)
<1> DEFINE l2 == [l EXCEPT ![p] = q]
           m2 == IF q = <<>> THEN m \ {p} ELSE m
<1>1. l \in [Priorities -> Seq(Threads)] /\ m \subseteq Priorities
  BY DEF Holds
<1>2. /\ l2 \in [Priorities -> Seq(Threads)] /\ l2[p] = q
      /\ \A r \in Priorities \ {p} : l2[r] = l[r]
  BY <1>1
<1>3. /\ m2 \subseteq Priorities
      /\ \A r \in Priorities \ {p} : r \in m2 <=> r \in m
      /\ p \in m2 <=> p \in m /\ q # <<>>
  BY <1>1
<1> HIDE DEF l2, m2
<1>4. q # <<>> => l[p] # <<>>
  BY <1>1, NoMembers
<1>5. \A r \in Priorities : r \in m2 <=> l2[r] # <<>>
  BY <1>2, <1>3, <1>4 DEF Holds
<1>6. \A r \in Priorities : NoRepeats(l2[r])
  BY <1>2, ListNames DEF Holds
<1>7. ASSUME NEW r \in Priorities, NEW u \in Threads
      PROVE  u \in Listed(l2[r]) <=> u \in R \ {t} /\ pr[u] = r
  <2>1. u \in Listed(l[r]) <=> u \in R /\ pr[u] = r
    BY DEF Holds
  <2>2. CASE r = p
    <3>1. u \in Listed(l2[r]) <=> u \in Listed(l[r]) /\ u # t
      BY <1>2, <2>2, ListNames
    <3> QED BY <2>1, <2>2, <3>1
  <2>3. CASE r # p
    BY <1>2, <2>1, <2>3
  <2> QED BY <2>2, <2>3
<1>8. Holds(l2, m2, R \ {t}, pr)
  BY <1>2, <1>3, <1>5, <1>6, <1>7 DEF Holds
<1> QED BY <1>8 DEF l2, m2

\* A thread is put last on a list.
LEMMA QueuedHolds ==
    ASSUME NEW l, NEW m, NEW R, NEW pr, NEW pr2, Holds(l, m, R, pr),
           NEW t \in Threads, t \notin R, NEW p \in Priorities, pr2[t] = p,
           \A u \in R : pr2[u] = pr[u]
    PROVE  Holds([l EXCEPT ![p] = Append(@, t)], m \union {p}, R \union {t}, pr2)
<1>1. l[p] \in Seq(Threads) /\ Distinct(l[p]) /\ t \notin Members(l[p])
  BY ListNames DEF Holds
<1>2. /\ Append(l[p], t) \in Seq(Threads) /\ Distinct(Append(l[p], t))
      /\ Members(Append(l[p], t)) = Members(l[p]) \union {t}
  BY <1>1, AppendMember
<1>3. PICK q \in Seq(Threads) : q = Append(l[p], t)
  BY <1>2
<1>4. Holds([l EXCEPT ![p] = q], m \union {p}, R \union {t}, pr2)
  BY <1>2, <1>3, LongerHolds
<1> QED BY <1>3, <1>4

\* A thread is put first on a list.
LEMMA PushedHolds ==
    ASSUME NEW l, NEW m, NEW R, NEW pr, NEW pr2, Holds(l, m, R, pr),
           NEW t \in Threads, t \notin R, NEW p \in Priorities, pr2[t] = p,
           \A u \in R : pr2[u] = pr[u]
    PROVE  Holds([l EXCEPT ![p] = <<t>> \o @], m \union {p}, R \union {t}, pr2)
<1>1. l[p] \in Seq(Threads) /\ Distinct(l[p]) /\ t \notin Members(l[p])
  BY ListNames DEF Holds
<1>2. /\ <<t>> \o l[p] \in Seq(Threads) /\ Distinct(<<t>> \o l[p])
      /\ Members(<<t>> \o l[p]) = Members(l[p]) \union {t}
  BY <1>1, PrependMember
<1>3. PICK q \in Seq(Threads) : q = <<t>> \o l[p]
  BY <1>2
<1>4. Holds([l EXCEPT ![p] = q], m \union {p}, R \union {t}, pr2)
  BY <1>2, <1>3, LongerHolds
<1> QED BY <1>3, <1>4

\* RemoveEntryList takes a thread off its list.
LEMMA UnlinkedHolds ==
    ASSUME NEW l, NEW m, NEW R, NEW pr, Holds(l, m, R, pr),
           NEW t \in Threads, t \in R, NEW p \in Priorities, pr[t] = p
    PROVE  Holds([l EXCEPT ![p] = Unlinked(@, t)],
                 IF Unlinked(l[p], t) = <<>> THEN m \ {p} ELSE m, R \ {t}, pr)
<1>1. l[p] \in Seq(Threads) /\ Distinct(l[p]) /\ t \in Members(l[p])
  BY ListNames DEF Holds
<1>2. PICK k \in 1..Len(l[p]) : k = CHOOSE i \in 1..Len(l[p]) : l[p][i] = t
  BY <1>1 DEF Members
<1>3. l[p][k] = t
  BY <1>1, <1>2 DEF Members
<1>4. /\ Unlinked(l[p], t) \in Seq(Threads) /\ Distinct(Unlinked(l[p], t))
      /\ Members(Unlinked(l[p], t)) = Members(l[p]) \ {t}
  <2>1. Unlinked(l[p], t) = SubSeq(l[p], 1, k - 1) \o SubSeq(l[p], k + 1, Len(l[p]))
    BY <1>2 DEF Unlinked
  <2>2. PICK q : q = l[p]
    OBVIOUS
  <2>3. LET r == SubSeq(q, 1, k - 1) \o SubSeq(q, k + 1, Len(q))
        IN  /\ r \in Seq(Threads) /\ Distinct(r) /\ q[k] \in Members(q)
            /\ Members(r) = Members(q) \ {q[k]}
    BY <1>1, <2>2, RemoveMember
  <2> QED BY <1>3, <2>1, <2>2, <2>3
<1>5. PICK q \in Seq(Threads) : q = Unlinked(l[p], t)
  BY <1>4
<1>6. Holds([l EXCEPT ![p] = q], IF q = <<>> THEN m \ {p} ELSE m, R \ {t}, pr)
  BY <1>4, <1>5, ShorterHolds
<1> QED BY <1>5, <1>6

\* The first of the highest list leaves it.
LEMMA DequeuedHolds ==
    ASSUME NEW R, NEW pr, Holds(ready, readyMask, R, pr), readyMask # {}
    PROVE  /\ HighestReady \in Priorities /\ HighestPriorityThread \in Threads
           /\ HighestPriorityThread \in R
           /\ Holds([ready EXCEPT ![HighestReady] = Tail(@)],
                    IF Tail(ready[HighestReady]) = <<>> THEN readyMask \ {HighestReady}
                    ELSE readyMask,
                    R \ {HighestPriorityThread}, pr)
           /\ Len(ready[HighestReady]) = 1 <=> Tail(ready[HighestReady]) = <<>>
<1>1. ReadyOK
  BY DEF Holds, ReadyOK, ReadyMaskExact
<1>2. PICK h \in Priorities : h = HighestReady
  BY <1>1, HighestReadyThread
<1>3. PICK t \in Threads : t = HighestPriorityThread
  BY <1>1, HighestReadyThread
<1>4. /\ ready[h] \in Seq(Threads) /\ ready[h] # <<>> /\ Distinct(ready[h])
      /\ t = Head(ready[h])
  BY <1>1, <1>2, <1>3, HighestReadyThread, ListNames
     DEF ReadyOK, Holds, HighestPriorityThread
<1>5. /\ t \in Members(ready[h]) /\ Tail(ready[h]) \in Seq(Threads)
      /\ Members(Tail(ready[h])) = Members(ready[h]) \ {t}
      /\ Distinct(Tail(ready[h]))
      /\ Tail(ready[h]) = <<>> <=> Len(ready[h]) = 1
  BY <1>4, TailLeaves, TailOfList
<1>6. t \in R /\ pr[t] = h
  BY <1>5, ListNames DEF Holds
<1>7. PICK q \in Seq(Threads) : q = Tail(ready[h])
  BY <1>5
<1>8. Holds([ready EXCEPT ![h] = q], IF q = <<>> THEN readyMask \ {h} ELSE readyMask,
            R \ {t}, pr)
  BY <1>5, <1>6, <1>7, ShorterHolds
<1> QED BY <1>2, <1>3, <1>5, <1>6, <1>7, <1>8

\* Priorities of threads that are on no list do not matter.
LEMMA SameHolds ==
    ASSUME NEW l, NEW m, NEW R, NEW S, NEW pr, NEW pr2, Holds(l, m, R, pr),
           \A u \in Threads : u \in R <=> u \in S, \A u \in R : pr2[u] = pr[u]
    PROVE  Holds(l, m, S, pr2)
BY DEF Holds

-----------------------------------------------------------------------------
(* Selecting and switching, wherever the priorities stand.                  *)

\* Who waits does not change.
SameWait == \A u \in Threads : state'[u] = "Waiting" <=> state[u] = "Waiting"

\* What has to be seen of a step.
LEMMA PlacedNext ==
    ASSUME state' \in [Threads -> ThreadStates], priority' \in [Threads -> Priorities],
           next' \in Threads \union {NoThread}, current' \in Threads \union {Idle},
           PrcbAgrees', NEW R, Holds(ready', readyMask', R, priority'),
           \A u \in Threads : u \in R <=> state'[u] = "Ready"
    PROVE  Placed'
BY DEF Placed, Holds, Readies

\* The kinds of values, and that nobody is in two places.
LEMMA PlacedKinds ==
    ASSUME Placed
    PROVE  /\ state \in [Threads -> ThreadStates] /\ priority \in [Threads -> Priorities]
           /\ next \in Threads \union {NoThread} /\ current \in Threads \union {Idle}
           /\ NoThread \notin Threads /\ Idle \notin Threads /\ Idle # NoThread
           /\ Readies = {t \in Threads : state[t] = "Ready"}
           /\ Holds(ready, readyMask, Readies, priority)
           /\ \A u \in Threads : state[u] = "Standby" <=> u = next
           /\ \A u \in Threads : state[u] = "Running" <=> (u = current /\ pc # "swap")
BY ThreadsAssumption DEF Placed, Readies, PrcbAgrees

\* A step that moves no thread.
LEMMA UnmovedPlaces ==
    ASSUME Placed, UNCHANGED <<state, readyVars, prcbVars>>, pc' = "swap" <=> pc = "swap",
           priority' \in [Threads -> Priorities],
           \A u \in Threads : state[u] = "Ready" => priority'[u] = priority[u]
    PROVE  Placed' /\ SameWait
<1>1. Holds(ready', readyMask', Readies, priority')
  BY PlacedKinds, SameHolds
<1>2. PrcbAgrees'
  BY DEF Placed, PrcbAgrees
<1> QED BY <1>1, <1>2, PlacedKinds, PlacedNext DEF SameWait

\* KiScheduleThread for a thread that is on no list and on no processor.
LEMMA ScheduledPlaces ==
    ASSUME Placed, NEW t \in Threads, NEW p \in Priorities, NEW lists, NEW mask,
           Holds(lists, mask, Readies \ {t}, priority),
           state[t] \in {"Initialized", "Waiting", "Ready"},
           ScheduleInto(lists, mask, t, p),
           priority' \in [Threads -> Priorities], priority'[t] = p,
           \A u \in Threads \ {t} : state[u] \in {"Ready", "Standby"} =>
                                        priority'[u] = priority[u],
           current' = current, pc # "swap", pc' # "swap"
    PROVE  /\ Placed' /\ state'[t] # "Waiting"
           /\ \A u \in Threads \ {t} : state'[u] = "Waiting" <=> state[u] = "Waiting"
<1> DEFINE R == Readies \ {t}
<1>1. /\ state \in [Threads -> ThreadStates] /\ next \in Threads \union {NoThread}
      /\ current \in Threads \union {Idle} /\ NoThread \notin Threads
      /\ \A u \in Threads : u \in Readies <=> state[u] = "Ready"
  BY PlacedKinds
<1>2. /\ \A u \in Threads : state[u] = "Running" <=> u = current
      /\ \A u \in Threads : state[u] = "Standby" <=> u = next
      /\ t # current /\ t # next
  BY PlacedKinds
<1>3. \A u \in R : u \in Threads /\ u # t /\ state[u] = "Ready" /\ priority'[u] = priority[u]
  BY DEF Readies
<1>4. CASE next # NoThread /\ p > priority[next]
  <2>1. PICK s \in Threads : s = next
    BY <1>1, <1>4
  <2>2. PICK b \in Priorities : b = priority[s]
    BY PlacedKinds
  <2>3. state[s] = "Standby" /\ s # current /\ s # t /\ s \notin R /\ priority'[s] = b
    BY <1>1, <1>2, <2>1, <2>2
  <2>4. CASE next' = next
    <3>1. FALSE
      <4>1. p > priority[next] => ~(p <= priority[next])
        BY <2>1, PlacedKinds, NumbersAssumption DEF Priorities
      <4> QED BY <1>2, <1>4, <2>4, <4>1 DEF ScheduleInto
    <3> QED BY <3>1
  <2>5. CASE next' # next
    <3>1. /\ ready' = [lists EXCEPT ![b] = <<s>> \o @] /\ readyMask' = mask \union {b}
          /\ state' = [state EXCEPT ![s] = "Ready", ![t] = "Standby"] /\ next' = t
      BY <1>4, <2>1, <2>2, <2>5 DEF ScheduleInto
    <3>2. /\ state'[s] = "Ready" /\ state'[t] = "Standby"
          /\ \A u \in Threads \ {s, t} : state'[u] = state[u]
          /\ state' \in [Threads -> ThreadStates]
      BY <1>1, <2>3, <3>1 DEF ThreadStates
    <3> HIDE DEF R
    <3>3. Holds(ready', readyMask', R \union {s}, priority')
      <4>1. Holds(lists, mask, R, priority)
        BY DEF R
      <4>2. PICK pr2 : pr2 = priority'
        OBVIOUS
      <4>3. s \notin R /\ pr2[s] = b /\ \A u \in R : pr2[u] = priority[u]
        BY <1>3, <2>3, <4>2
      <4>4. Holds([lists EXCEPT ![b] = <<s>> \o @], mask \union {b}, R \union {s}, pr2)
        BY <4>1, <4>3, PushedHolds
      <4> QED BY <3>1, <4>2, <4>4
    <3>4. \A u \in Threads : u \in R \union {s} <=> state'[u] = "Ready"
      BY <1>1, <2>3, <3>2 DEF R
    <3>5. PrcbAgrees'
      BY <1>1, <1>2, <2>1, <2>3, <3>1, <3>2 DEF PrcbAgrees
    <3>6. Placed'
      BY <1>1, <3>1, <3>2, <3>3, <3>4, <3>5, PlacedNext
    <3> QED BY <2>3, <3>2, <3>6
  <2> QED BY <2>4, <2>5
<1>5. CASE ~(next # NoThread /\ p > priority[next]) /\ next' = t
  <2>1. /\ next = NoThread /\ ready' = lists /\ readyMask' = mask
        /\ state' = [state EXCEPT ![t] = "Standby"]
    BY <1>2, <1>5 DEF ScheduleInto
  <2>2. /\ state'[t] = "Standby" /\ \A u \in Threads \ {t} : state'[u] = state[u]
        /\ state' \in [Threads -> ThreadStates]
    BY <1>1, <2>1 DEF ThreadStates
  <2>3. Holds(ready', readyMask', R, priority')
    BY <1>3, <2>1, SameHolds
  <2>4. \A u \in Threads : u \in R <=> state'[u] = "Ready"
    BY <1>1, <2>2
  <2>5. PrcbAgrees'
    BY <1>1, <1>2, <1>5, <2>1, <2>2 DEF PrcbAgrees
  <2> HIDE DEF R
  <2>6. Placed'
    BY <1>1, <1>5, <2>2, <2>3, <2>4, <2>5, PlacedNext
  <2> QED BY <2>2, <2>6
<1>6. CASE ~(next # NoThread /\ p > priority[next]) /\ next' # t
  <2>1. /\ ready' = [lists EXCEPT ![p] = Append(@, t)] /\ readyMask' = mask \union {p}
        /\ state' = [state EXCEPT ![t] = "Ready"] /\ next' = next
    BY <1>6 DEF ScheduleInto
  <2>2. /\ state'[t] = "Ready" /\ \A u \in Threads \ {t} : state'[u] = state[u]
        /\ state' \in [Threads -> ThreadStates]
    BY <1>1, <2>1 DEF ThreadStates
  <2>3. Holds(ready', readyMask', R \union {t}, priority')
    <3>1. Holds(lists, mask, R, priority) /\ t \notin R
      OBVIOUS
    <3> HIDE DEF R
    <3>2. PICK pr2 : pr2 = priority'
      OBVIOUS
    <3>3. pr2[t] = p /\ \A u \in R : pr2[u] = priority[u]
      BY <1>3, <3>2
    <3>4. Holds([lists EXCEPT ![p] = Append(@, t)], mask \union {p}, R \union {t}, pr2)
      BY <3>1, <3>3, QueuedHolds
    <3> QED BY <2>1, <3>2, <3>4
  <2>4. \A u \in Threads : u \in R \union {t} <=> state'[u] = "Ready"
    BY <1>1, <2>2
  <2>5. PrcbAgrees'
    BY <1>1, <1>2, <2>1, <2>2 DEF PrcbAgrees
  <2> HIDE DEF R
  <2>6. Placed'
    BY <1>1, <2>1, <2>2, <2>3, <2>4, <2>5, PlacedNext
  <2> QED BY <2>2, <2>6
<1> QED BY <1>4, <1>5, <1>6

\* KiScheduleThread itself works on the ready lists as they are.
LEMMA ScheduleIsInto ==
    ASSUME Placed, NEW t \in Threads, NEW p \in Priorities, KiScheduleThread(t, p)
    PROVE  ScheduleInto(ready, readyMask, t, p)
<1>1. /\ next # NoThread => priority[next] \in Int
      /\ CurrentPriority \in Int /\ p \in Int
  BY PlacedKinds, NumbersAssumption DEF Priorities, CurrentPriority
<1> QED BY <1>1 DEF KiScheduleThread, ScheduleInto, AddToHead, AddToTail

\* A thread that was neither Ready nor selected is scheduled.
LEMMA WokenPlaces ==
    ASSUME Placed, NEW t \in Threads, NEW p \in Priorities,
           state[t] \in {"Initialized", "Waiting"}, KiScheduleThread(t, p),
           priority' \in [Threads -> Priorities], priority'[t] = p,
           \A u \in Threads \ {t} : state[u] \in {"Ready", "Standby"} =>
                                        priority'[u] = priority[u],
           current' = current, pc # "swap", pc' # "swap"
    PROVE  /\ Placed' /\ state'[t] # "Waiting"
           /\ \A u \in Threads \ {t} : state'[u] = "Waiting" <=> state[u] = "Waiting"
<1>1. Readies \ {t} = Readies
  BY DEF Readies
<1> QED BY <1>1, PlacedKinds, ScheduleIsInto, ScheduledPlaces

\* The best ready thread becomes Standby, if nobody is.
LEMMA SelectPlaces ==
    ASSUME Placed, NEW low, SelectStandby(low), priority' \in [Threads -> Priorities],
           \A u \in Threads : state[u] = "Ready" => priority'[u] = priority[u],
           current' = current, pc # "swap", pc' # "swap"
    PROVE  Placed' /\ SameWait
<1>1. CASE next = NoThread /\ SomeReady(low)
  <2>1. readyMask # {}
    BY <1>1 DEF SomeReady
  <2>2. PICK h \in Threads : h = HighestPriorityThread
    BY <2>1, PlacedKinds, DequeuedHolds
  <2>3. /\ next' = h /\ state' = [state EXCEPT ![h] = "Standby"]
        /\ RemoveHighestPriorityThread
    BY <1>1, <2>2 DEF SelectStandby
  <2>4. h \in Readies /\ Holds(ready', readyMask', Readies \ {h}, priority)
    BY <2>1, <2>2, <2>3, PlacedKinds, DequeuedHolds DEF RemoveHighestPriorityThread
  <2>5. Holds(ready', readyMask', Readies \ {h}, priority')
    BY <2>4, SameHolds DEF Readies
  <2>6. /\ state[h] = "Ready" /\ state'[h] = "Standby"
        /\ \A u \in Threads \ {h} : state'[u] = state[u]
        /\ state' \in [Threads -> ThreadStates]
    BY <2>3, <2>4, PlacedKinds DEF Readies, ThreadStates
  <2>7. PrcbAgrees'
    BY <1>1, <2>3, <2>6, PlacedKinds DEF PrcbAgrees
  <2>8. \A u \in Threads : u \in Readies \ {h} <=> state'[u] = "Ready"
    BY <2>6 DEF Readies
  <2>9. Placed'
    BY <2>3, <2>5, <2>6, <2>7, <2>8, PlacedKinds, PlacedNext
  <2> QED BY <2>6, <2>9 DEF SameWait
<1>2. CASE ~(next = NoThread /\ SomeReady(low))
  BY <1>2, UnmovedPlaces DEF SelectStandby
<1> QED BY <1>1, <1>2

\* KiQuantumEnd for the running thread.
LEMMA QuantumPlaces ==
    ASSUME Placed, basePriority \in [Threads -> Priorities], NEW q \in Int,
           current \in Threads, KiQuantumEnd(q), current' = current,
           pc # "swap", pc' # "swap"
    PROVE  Placed' /\ SameWait
<1> DEFINE np == IF priority[current] < LowRealtimePriority
                    /\ priority[current] - 1 >= basePriority[current]
                 THEN priority[current] - 1 ELSE priority[current]
<1>1. CASE q <= 0
  <2>1. np \in Priorities
    BY PlacedKinds, NumbersAssumption DEF Priorities
  <2>2. priority' = [priority EXCEPT ![current] = np] /\ SelectStandby(np)
    BY <1>1 DEF KiQuantumEnd
  <2> HIDE DEF np
  <2>3. /\ priority' \in [Threads -> Priorities]
        /\ \A u \in Threads : state[u] = "Ready" => priority'[u] = priority[u]
    BY <2>1, <2>2, PlacedKinds
  <2> QED BY <2>2, <2>3, SelectPlaces
<1>2. CASE ~(q <= 0)
  <2>1. UNCHANGED <<priority, next, state, readyVars>>
    BY <1>2 DEF KiQuantumEnd
  <2> QED BY <2>1, PlacedKinds, UnmovedPlaces
<1> QED BY <1>1, <1>2

\* The running thread goes to the end of a list, and the Standby thread runs.
LEMMA SwitchPlaces ==
    ASSUME Placed, current \in Threads, next # NoThread, NEW p \in Priorities,
           priority' \in [Threads -> Priorities], priority'[current] = p,
           \A u \in Threads : state[u] = "Ready" => priority'[u] = priority[u],
           AddToTail(p, current), current' = next, next' = NoThread,
           state' = [state EXCEPT ![current] = "Ready", ![next] = "Running"],
           pc # "swap", pc' # "swap"
    PROVE  Placed' /\ SameWait
<1>1. PICK s \in Threads : s = next
  BY PlacedKinds
<1>2. PICK t \in Threads : t = current
  OBVIOUS
<1>3. state[t] = "Running" /\ state[s] = "Standby" /\ s # t
  BY <1>1, <1>2, PlacedKinds
<1>4. /\ state'[t] = "Ready" /\ state'[s] = "Running"
      /\ \A u \in Threads \ {s, t} : state'[u] = state[u]
      /\ state' \in [Threads -> ThreadStates]
  BY <1>1, <1>2, <1>3, PlacedKinds DEF ThreadStates
<1>5. t \notin Readies /\ \A u \in Readies : priority'[u] = priority[u]
  BY <1>3 DEF Readies
<1>6. Holds(ready', readyMask', Readies \union {t}, priority')
  BY <1>2, <1>5, PlacedKinds, QueuedHolds DEF AddToTail
<1>7. \A u \in Threads : u \in Readies \union {t} <=> state'[u] = "Ready"
  BY <1>3, <1>4 DEF Readies
<1>8. PrcbAgrees'
  BY <1>1, <1>2, <1>3, <1>4, PlacedKinds DEF PrcbAgrees
<1>9. Placed'
  BY <1>1, <1>4, <1>6, <1>7, <1>8, PlacedNext
<1> QED BY <1>3, <1>4, <1>9 DEF SameWait

\* The same when the running thread is put behind others at its own priority.
LEMMA SwitchToNextPlaces ==
    ASSUME Placed, current \in Threads, next # NoThread, SwitchToNext,
           priority' = priority, pc # "swap", pc' # "swap"
    PROVE  Placed' /\ SameWait
<1>1. PICK p \in Priorities : p = priority[current]
  BY PlacedKinds
<1> QED BY <1>1, PlacedKinds, SwitchPlaces DEF SwitchToNext

\* KiSwapThread: who takes over is taken off Standby or off its list.
LEMMA SwapPlaces ==
    ASSUME Placed, KiSwapThread
    PROVE  Placed' /\ SameWait
<1>1. pc = "swap" /\ pc' = "run" /\ next' = NoThread /\ priority' = priority
  BY DEF KiSwapThread
<1>2. \A u \in Threads : state[u] # "Running" /\ (state[u] = "Standby" <=> u = next)
  BY <1>1, PlacedKinds
<1>3. /\ \A u \in Threads : state'[u] = IF u = current' THEN "Running" ELSE state[u]
      /\ state' \in [Threads -> ThreadStates]
  BY PlacedKinds DEF KiSwapThread, ThreadStates
<1>4. CASE next = NoThread /\ readyMask # {}
  <2>1. RemoveHighestPriorityThread /\ current' = HighestPriorityThread
    BY <1>4 DEF KiSwapThread
  <2>2. PICK h \in Threads : h = HighestPriorityThread
    BY <1>4, PlacedKinds, DequeuedHolds
  <2>3. h \in Readies /\ Holds(ready', readyMask', Readies \ {h}, priority')
    BY <1>1, <1>4, <2>1, <2>2, PlacedKinds, DequeuedHolds DEF RemoveHighestPriorityThread
  <2>4. PrcbAgrees'
    BY <1>1, <1>2, <1>3, <1>4, <2>1, <2>2, PlacedKinds DEF PrcbAgrees
  <2>5. \A u \in Threads : u \in Readies \ {h} <=> state'[u] = "Ready"
    BY <1>3, <2>1, <2>2 DEF Readies
  <2>6. Placed'
    BY <1>1, <1>3, <2>1, <2>2, <2>3, <2>4, <2>5, PlacedKinds, PlacedNext
  <2>7. state[h] = "Ready"
    BY <2>3 DEF Readies
  <2> QED BY <1>3, <2>1, <2>2, <2>6, <2>7 DEF SameWait
<1>5. CASE ~(next = NoThread /\ readyMask # {})
  <2>1. /\ UNCHANGED readyVars /\ current' = IF next = NoThread THEN Idle ELSE next
        /\ current' \in Threads \union {Idle}
    BY <1>5, PlacedKinds DEF KiSwapThread
  <2>2. \A u \in Threads : state'[u] = IF u = next THEN "Running" ELSE state[u]
    BY <1>3, <2>1, PlacedKinds
  <2>3. PrcbAgrees'
    BY <1>1, <1>2, <2>1, <2>2, PlacedKinds DEF PrcbAgrees
  <2>4. Holds(ready', readyMask', Readies, priority')
    BY <1>1, <2>1, PlacedKinds
  <2>5. \A u \in Threads : u \in Readies <=> state'[u] = "Ready"
    BY <1>2, <2>2 DEF Readies
  <2>6. Placed'
    BY <1>1, <1>3, <2>1, <2>3, <2>4, <2>5, PlacedKinds, PlacedNext
  <2> QED BY <1>2, <2>2, <2>6 DEF SameWait
<1> QED BY <1>4, <1>5

\* The idle loop hands over to the Standby thread, if there is one.
LEMMA IdlePlaces ==
    ASSUME TypeInvariant, Placed, IdleSwitch
    PROVE  Placed' /\ SameWait
<1>1. /\ pc = "idle" /\ pc' = "run" /\ current = Idle /\ priority' = priority
      /\ UNCHANGED readyVars
  BY DEF IdleSwitch, TypeInvariant, CpuConsistent
<1>2. CASE next # NoThread
  <2>1. PICK s \in Threads : s = next
    BY <1>2, PlacedKinds
  <2>2. /\ current' = s /\ next' = NoThread /\ state' \in [Threads -> ThreadStates]
        /\ state'[s] = "Running" /\ \A u \in Threads \ {s} : state'[u] = state[u]
    BY <1>2, <2>1, PlacedKinds DEF IdleSwitch, ThreadStates
  <2>3. state[s] = "Standby" /\ \A u \in Threads : state[u] # "Running"
    BY <1>1, <2>1, PlacedKinds
  <2>4. PrcbAgrees'
    BY <1>1, <2>1, <2>2, <2>3, PlacedKinds DEF PrcbAgrees
  <2>5. Holds(ready', readyMask', Readies, priority')
    BY <1>1, PlacedKinds
  <2>6. \A u \in Threads : u \in Readies <=> state'[u] = "Ready"
    BY <2>2, <2>3 DEF Readies
  <2>7. Placed'
    BY <1>1, <2>2, <2>4, <2>5, <2>6, PlacedKinds, PlacedNext
  <2> QED BY <2>2, <2>3, <2>7 DEF SameWait
<1>3. CASE next = NoThread
  <2>1. UNCHANGED <<state, prcbVars>>
    BY <1>3 DEF IdleSwitch
  <2> QED BY <1>1, <2>1, PlacedKinds, UnmovedPlaces
<1> QED BY <1>2, <1>3

\* The running thread begins to wait.
LEMMA BlockPlaces ==
    ASSUME Placed, current \in Threads, pc # "swap", pc' = "swap",
           state' = [state EXCEPT ![current] = "Waiting"],
           UNCHANGED <<priority, readyVars, prcbVars>>
    PROVE  Placed'
<1>1. state[current] = "Running" /\ current # next /\ current # Idle
  BY PlacedKinds
<1>2. /\ state'[current] = "Waiting" /\ state' \in [Threads -> ThreadStates]
      /\ \A u \in Threads \ {current} : state'[u] = state[u]
  BY PlacedKinds DEF ThreadStates
<1>3. PrcbAgrees'
  BY <1>1, <1>2, PlacedKinds DEF PrcbAgrees
<1>4. Holds(ready', readyMask', Readies, priority')
  BY PlacedKinds
<1>5. \A u \in Threads : u \in Readies <=> state'[u] = "Ready"
  BY <1>1, <1>2 DEF Readies
<1> QED BY <1>2, <1>3, <1>4, <1>5, PlacedKinds, PlacedNext

-----------------------------------------------------------------------------
(* Changing priorities and yielding.                                        *)

\* A Ready thread changes its list, or is selected.
LEMMA MoveReadyPlaces ==
    ASSUME Placed, NEW t \in Threads, NEW p \in Priorities, state[t] = "Ready",
           MoveReady(t, p), priority' = [priority EXCEPT ![t] = p],
           current' = current, pc # "swap", pc' # "swap"
    PROVE  Placed' /\ SameWait
<1>1. PICK old \in Priorities : old = priority[t]
  BY PlacedKinds
<1> DEFINE lists == [ready EXCEPT ![old] = Unlinked(@, t)]
           mask == IF Unlinked(ready[old], t) = <<>> THEN readyMask \ {old} ELSE readyMask
<1>2. t \in Readies
  BY DEF Readies
<1>3. Holds(lists, mask, Readies \ {t}, priority)
  <2>1. PICK S : S = Readies
    OBVIOUS
  <2>2. Holds(ready, readyMask, S, priority) /\ t \in S
    BY <1>2, <2>1, PlacedKinds
  <2>3. Holds([ready EXCEPT ![old] = Unlinked(@, t)],
              IF Unlinked(ready[old], t) = <<>> THEN readyMask \ {old} ELSE readyMask,
              S \ {t}, priority)
    BY <1>1, <2>2, UnlinkedHolds
  <2> QED BY <2>1, <2>3
<1>4. lists[old] = Unlinked(ready[old], t)
  BY PlacedKinds DEF Holds
<1>5. IF p < old
      THEN /\ ready' = [lists EXCEPT ![p] = Append(@, t)]
           /\ readyMask' = mask \union {p}
           /\ UNCHANGED <<state, next>>
      ELSE ScheduleInto(lists, mask, t, p)
  BY <1>1, <1>4 DEF MoveReady
<1> HIDE DEF lists, mask
<1>6. /\ priority' \in [Threads -> Priorities] /\ priority'[t] = p
      /\ \A u \in Threads \ {t} : priority'[u] = priority[u]
  BY PlacedKinds
<1>7. CASE p < old
  <2>1. PICK R : R = Readies \ {t}
    OBVIOUS
  <2>2. PICK pr : pr = priority'
    OBVIOUS
  <2>3. Holds(lists, mask, R, priority) /\ t \notin R
    BY <1>3, <2>1
  <2>4. pr[t] = p /\ \A u \in R : pr[u] = priority[u]
    BY <1>6, <2>1, <2>2 DEF Readies
  <2>5. Holds([lists EXCEPT ![p] = Append(@, t)], mask \union {p}, R \union {t}, pr)
    BY <2>3, <2>4, QueuedHolds
  <2>6. Holds(ready', readyMask', R \union {t}, priority')
    BY <1>5, <1>7, <2>2, <2>5
  <2>7. UNCHANGED <<state, next>>
    BY <1>5, <1>7
  <2>8. \A u \in Threads : u \in R \union {t} <=> state'[u] = "Ready"
    BY <1>2, <2>1, <2>7 DEF Readies
  <2>9. PrcbAgrees'
    BY <2>7, PlacedKinds DEF PrcbAgrees
  <2>10. Placed'
    BY <1>6, <2>6, <2>7, <2>8, <2>9, PlacedKinds, PlacedNext
  <2> QED BY <2>7, <2>10 DEF SameWait
<1>8. CASE ~(p < old)
  <2>1. ScheduleInto(lists, mask, t, p)
    BY <1>5, <1>8
  <2>2. /\ Placed' /\ state'[t] # "Waiting"
        /\ \A u \in Threads \ {t} : state'[u] = "Waiting" <=> state[u] = "Waiting"
    BY <1>3, <1>6, <2>1, ScheduledPlaces
  <2> QED BY <2>2 DEF SameWait
<1> QED BY <1>7, <1>8

\* The first of the highest list leaves, and another thread is put last on a
\* list: LowerStandby and YieldSwap.
LEMMA ReplacedHolds ==
    ASSUME Placed, readyMask # {}, NEW t \in Threads, state[t] # "Ready",
           NEW p \in Priorities, NEW pr, pr[t] = p,
           \A u \in Threads \ {t} : pr[u] = priority[u],
           NEW lists, lists = [ready EXCEPT ![HighestReady] = Tail(@)],
           NEW l, l = [lists EXCEPT ![p] = Append(@, t)],
           NEW m, m = (IF lists[HighestReady] = <<>> THEN readyMask \ {HighestReady}
                                                     ELSE readyMask) \union {p}
    PROVE  /\ HighestPriorityThread \in Threads
           /\ state[HighestPriorityThread] = "Ready"
           /\ Holds(l, m, (Readies \ {HighestPriorityThread}) \union {t}, pr)
<1>1. PICK h \in Threads : h = HighestPriorityThread
  BY PlacedKinds, DequeuedHolds
<1>2. PICK R : R = Readies \ {h}
  OBVIOUS
<1>3. PICK mask : mask = IF Tail(ready[HighestReady]) = <<>>
                         THEN readyMask \ {HighestReady} ELSE readyMask
  OBVIOUS
<1>4. /\ h \in Readies /\ HighestReady \in Priorities
      /\ Holds(lists, mask, R, priority)
  BY <1>1, <1>2, <1>3, PlacedKinds, DequeuedHolds
<1>5. lists[HighestReady] = Tail(ready[HighestReady])
  BY <1>4, PlacedKinds DEF Holds
<1>6. t \notin R /\ \A u \in R : pr[u] = priority[u]
  BY <1>2 DEF Readies
<1>7. Holds([lists EXCEPT ![p] = Append(@, t)], mask \union {p}, R \union {t}, pr)
  BY <1>4, <1>6, QueuedHolds
<1>8. state[h] = "Ready"
  BY <1>4 DEF Readies
<1> QED BY <1>1, <1>2, <1>3, <1>5, <1>7, <1>8

\* The Standby thread gives way to the best ready one.
LEMMA LowerStandbyPlaces ==
    ASSUME Placed, NEW t \in Threads, NEW p \in Priorities, state[t] = "Standby",
           LowerStandby(t, p), priority' = [priority EXCEPT ![t] = p],
           current' = current, pc # "swap", pc' # "swap"
    PROVE  Placed' /\ SameWait
<1>1. /\ priority' \in [Threads -> Priorities] /\ priority'[t] = p
      /\ \A u \in Threads \ {t} : priority'[u] = priority[u]
  BY PlacedKinds
<1>2. CASE SomeReady(p)
  <2>1. readyMask # {}
    BY <1>2 DEF SomeReady
  <2>2. PICK h : h = HighestPriorityThread
    OBVIOUS
  <2>3. /\ next' = h /\ state' = [state EXCEPT ![h] = "Standby", ![t] = "Ready"]
    BY <1>2, <2>2 DEF LowerStandby
  <2>4. PICK lists : lists = [ready EXCEPT ![HighestReady] = Tail(@)]
    OBVIOUS
  <2>5. /\ ready' = [lists EXCEPT ![p] = Append(@, t)]
        /\ readyMask' = (IF lists[HighestReady] = <<>> THEN readyMask \ {HighestReady}
                                                       ELSE readyMask) \union {p}
    BY <1>2, <2>4 DEF LowerStandby
  <2>6. PICK pr : pr = priority'
    OBVIOUS
  <2>7. pr[t] = p /\ (\A u \in Threads \ {t} : pr[u] = priority[u]) /\ state[t] # "Ready"
    BY <1>1, <2>6
  <2>8. /\ h \in Threads /\ state[h] = "Ready"
        /\ Holds(ready', readyMask', (Readies \ {h}) \union {t}, pr)
    BY <2>1, <2>2, <2>4, <2>5, <2>7, ReplacedHolds
  <2>9. /\ h # t /\ state'[h] = "Standby" /\ state'[t] = "Ready"
        /\ \A u \in Threads \ {h, t} : state'[u] = state[u]
        /\ state' \in [Threads -> ThreadStates]
    BY <2>3, <2>8, PlacedKinds DEF ThreadStates
  <2>10. PrcbAgrees'
    BY <2>3, <2>8, <2>9, PlacedKinds DEF PrcbAgrees
  <2>11. \A u \in Threads : u \in (Readies \ {h}) \union {t} <=> state'[u] = "Ready"
    BY <2>9 DEF Readies
  <2>12. Placed'
    BY <1>1, <2>3, <2>6, <2>8, <2>9, <2>10, <2>11, PlacedKinds, PlacedNext
  <2> QED BY <2>8, <2>9, <2>12 DEF SameWait
<1>3. CASE ~SomeReady(p)
  <2>1. UNCHANGED <<state, next, readyVars>>
    BY <1>3 DEF LowerStandby
  <2> QED BY <1>1, <2>1, UnmovedPlaces
<1> QED BY <1>2, <1>3

\* KiSetPriorityThread, whatever the thread is doing.
LEMMA SetPriorityPlaces ==
    ASSUME Placed, NEW t \in Threads, NEW p \in Priorities, KiSetPriorityThread(t, p),
           current' = current, pc # "swap", pc' # "swap"
    PROVE  Placed' /\ SameWait
<1>1. /\ priority' = [priority EXCEPT ![t] = p]
      /\ priority' \in [Threads -> Priorities] /\ priority'[t] = p
      /\ \A u \in Threads \ {t} : priority'[u] = priority[u]
  BY PlacedKinds DEF KiSetPriorityThread
<1>2. CASE state[t] = "Ready" /\ MoveReady(t, p)
  BY <1>1, <1>2, MoveReadyPlaces
<1>3. CASE state[t] = "Standby" /\ LowerStandby(t, p)
  BY <1>1, <1>3, LowerStandbyPlaces
<1>4. CASE state[t] = "Running" /\ SelectStandby(p)
  <2>1. \A u \in Threads : state[u] = "Ready" => priority'[u] = priority[u]
    BY <1>1, <1>4
  <2> QED BY <1>1, <1>4, <2>1, SelectPlaces
<1>5. CASE (state[t] # "Ready" \/ p = priority[t]) /\ UNCHANGED <<state, next, readyVars>>
  <2>1. \A u \in Threads : state[u] = "Ready" => priority'[u] = priority[u]
    BY <1>1, <1>5
  <2> QED BY <1>1, <1>5, <2>1, UnmovedPlaces
<1> QED BY <1>2, <1>3, <1>4, <1>5 DEF KiSetPriorityThread

\* NtYieldExecution makes way for the Standby thread, or for the best ready one.
LEMMA YieldPlaces ==
    ASSUME Placed, basePriority \in [Threads -> Priorities], current \in Threads,
           YieldSwap
    PROVE  Placed' /\ SameWait /\ current' \in Threads
<1> DEFINE np == KiComputeNewPriority(current, 1)
<1>1. pc # "swap" /\ pc' # "swap"
  BY DEF YieldSwap
<1>2. PICK p \in Priorities : p = np
  <2>1. priority[current] \in 1..HighPriority /\ basePriority[current] \in 1..HighPriority
    BY PlacedKinds DEF Priorities
  <2> QED BY <2>1, NumbersAssumption DEF KiComputeNewPriority, HigherOf, Priorities
<1>3. PICK t \in Threads : t = current
  OBVIOUS
<1>4. state[t] = "Running"
  BY <1>1, <1>3, PlacedKinds
<1>5. CASE readyMask = {}
  <2>1. UNCHANGED <<quantum, priority, state, prcbVars, readyVars>>
    BY <1>5 DEF YieldSwap
  <2> QED BY <1>1, <2>1, PlacedKinds, UnmovedPlaces
<1>6. CASE readyMask # {}
  <2>1. /\ priority' = [priority EXCEPT ![t] = p] /\ next' = NoThread
        /\ state' = [state EXCEPT ![t] = "Ready", ![current'] = "Running"]
    BY <1>2, <1>3, <1>6 DEF YieldSwap
  <2>2. /\ priority' \in [Threads -> Priorities] /\ priority'[t] = p
        /\ \A u \in Threads \ {t} : priority'[u] = priority[u]
    BY <2>1, PlacedKinds
  <2>3. CASE next # NoThread
    <3>1. current' = next /\ AddToTail(p, current) /\ current' \in Threads
      BY <1>2, <1>6, <2>3, PlacedKinds DEF YieldSwap
    <3>2. \A u \in Threads : state[u] = "Ready" => priority'[u] = priority[u]
      BY <1>4, <2>2
    <3> QED BY <1>1, <1>3, <2>1, <2>2, <2>3, <3>1, <3>2, SwitchPlaces
  <2>4. CASE next = NoThread
    <3>1. PICK h : h = HighestPriorityThread
      OBVIOUS
    <3>2. PICK lists : lists = [ready EXCEPT ![HighestReady] = Tail(@)]
      OBVIOUS
    <3>3. /\ current' = h /\ ready' = [lists EXCEPT ![p] = Append(@, t)]
          /\ readyMask' = (IF lists[HighestReady] = <<>> THEN readyMask \ {HighestReady}
                                                         ELSE readyMask) \union {p}
      BY <1>2, <1>3, <1>6, <2>4, <3>1, <3>2 DEF YieldSwap
    <3>4. PICK pr : pr = priority'
      OBVIOUS
    <3>5. /\ pr[t] = p /\ \A u \in Threads \ {t} : pr[u] = priority[u]
          /\ state[t] # "Ready"
      BY <1>4, <2>2, <3>4
    <3>6. /\ h \in Threads /\ state[h] = "Ready"
          /\ Holds(ready', readyMask', (Readies \ {h}) \union {t}, pr)
      BY <1>6, <3>1, <3>2, <3>3, <3>5, ReplacedHolds
    <3>7. /\ h # t /\ state'[h] = "Running" /\ state'[t] = "Ready"
          /\ \A u \in Threads \ {h, t} : state'[u] = state[u]
          /\ state' \in [Threads -> ThreadStates]
      BY <1>4, <2>1, <3>3, <3>6, PlacedKinds DEF ThreadStates
    <3>8. PrcbAgrees'
      BY <1>1, <1>3, <1>4, <2>1, <2>4, <3>3, <3>6, <3>7, PlacedKinds DEF PrcbAgrees
    <3>9. \A u \in Threads : u \in (Readies \ {h}) \union {t} <=> state'[u] = "Ready"
      BY <3>7 DEF Readies
    <3>10. Placed'
      BY <2>1, <2>2, <3>3, <3>4, <3>6, <3>7, <3>8, <3>9, PlacedNext
    <3> QED BY <1>4, <3>3, <3>6, <3>7, <3>10 DEF SameWait
  <2> QED BY <2>3, <2>4
<1> QED BY <1>5, <1>6

-----------------------------------------------------------------------------
(* The inductive invariant of DispatcherExports.                            *)

\* The kinds of the other variables, but for the level and the routine.
Elsewhere ==
    /\ basePriority \in [Threads -> Priorities]
    /\ quantum \in [Threads -> 0..ThreadQuantum]
    /\ waitNext \in [Threads -> BOOLEAN]
    /\ waitStatus \in [Threads -> {"SUCCESS", "ABANDONED"}]
    /\ waitIn \subseteq Threads
    /\ signal \in [Objects -> Int]
    /\ waitList \in [Objects -> Seq(Threads)]
    /\ owner \in [Mutants -> Threads \union {NoThread}]
    /\ abandoned \in [Mutants -> BOOLEAN]
    /\ mutantList \in [Threads -> SUBSET Mutants]
    /\ dispatchPending \in BOOLEAN
    /\ quantumEnd \in BOOLEAN
    /\ dpcQueue \in 0..MaxDpcs
    /\ dpcActive \in BOOLEAN
    /\ dpcRequested \in BOOLEAN
    /\ frame \in Frames
    /\ crashed \in BOOLEAN
    /\ pulsed \in Events \union {NoObject}
\* After KeSetEventBoostPriority the wait lists are gone, and so is the machine.
\* Between the two steps of a yield the processor is at SYNC_LEVEL.
ExportsInv ==
    /\ Elsewhere
    /\ Placed
    /\ crashed \/ WaitListsAgree
    /\ IF pc = "yield"
       THEN irql = SYNC_LEVEL /\ current \in Threads /\ ~dpcActive
       ELSE /\ irql \in {PASSIVE_LEVEL, DISPATCH_LEVEL} /\ pc \in PcValues
            /\ CpuConsistent

\* Outside of a yield the types are those of Dispatcher.
LEMMA ExportsTypes ==
    ASSUME ExportsInv, pc # "yield"
    PROVE  TypeInvariant
BY DEF ExportsInv, Elsewhere, Placed, Holds, TypeInvariant, TypeOK, ReadyMaskExact,
       ThreadStates

\* And a step that keeps those keeps the invariant.
LEMMA ExportsTypesNext ==
    ASSUME TypeInvariant', Placed', pulsed' \in Events \union {NoObject},
           crashed' \/ WaitListsAgree'
    PROVE  ExportsInv'
BY DEF ExportsInv, Elsewhere, TypeInvariant, TypeOK, PcValues

\* The invariant at the start.
LEMMA InitExports == ExportsInit => ExportsInv
<1> SUFFICES ASSUME ExportsInit PROVE ExportsInv
  OBVIOUS
<1>1. SchedulerInv /\ pulsed \in Events \union {NoObject} /\ pc = "run"
  BY InitScheduler DEF ExportsInit, Init
<1>2. TypeInvariant /\ PrcbAgrees /\ ReadyAre /\ WaitListsAgree
  BY <1>1 DEF SchedulerInv, SelectionRight
<1>3. Placed
  BY <1>2 DEF TypeInvariant, TypeOK, ReadyMaskExact, ReadyAre, Placed, Holds, Readies,
              ThreadStates
<1> QED BY <1>1, <1>2, <1>3 DEF ExportsInv, Elsewhere, TypeInvariant, TypeOK

-----------------------------------------------------------------------------
(* The dispatcher's own steps, whatever the priorities.                     *)

\* A step that moves no thread.
LEMMA QuietStep ==
    ASSUME Placed, WaitListsAgree,
           UNCHANGED <<state, priority, readyVars, prcbVars, waitVars>>,
           pc' = "swap" <=> pc = "swap"
    PROVE  Placed' /\ WaitListsAgree'
<1>1. Placed'
  BY PlacedKinds, UnmovedPlaces
<1> QED BY <1>1, WaitsUntouched

\* A thread is started, or a call only notes what has to be done.
LEMMA CallsPlace ==
    ASSUME TypeInvariant, Placed, WaitListsAgree, Calls
    PROVE  Placed' /\ WaitListsAgree'
<1>1. CASE \/ \E e \in Events, inc \in Increments, wait \in BOOLEAN :
                  KeSetEvent(e, inc, wait)
           \/ \E e \in Events : KeResetEvent(e)
  <2>1. pc = "run" /\ pc' # "swap"
    BY <1>1 DEF KeSetEvent, KeResetEvent, Call, MayCall, ThreadCalls, ThreadRuns, DpcCalls
  <2> QED BY <1>1, <2>1, QuietStep DEF KeSetEvent, KeResetEvent
<1>2. CASE \/ \E s \in Semaphores, inc \in Increments, adj \in Adjustments,
                 wait \in BOOLEAN : KeReleaseSemaphore(s, inc, adj, wait)
           \/ \E m \in Mutants, inc \in Increments, abandon, wait \in BOOLEAN :
                  KeReleaseMutant(m, inc, abandon, wait)
  <2>1. pc = "run" /\ pc' # "swap"
    BY <1>2 DEF KeReleaseSemaphore, KeReleaseMutant, Call, MayCall, ThreadCalls,
                ThreadRuns, DpcCalls
  <2> QED BY <1>2, <2>1, QuietStep DEF KeReleaseSemaphore, KeReleaseMutant
<1>3. ASSUME NEW t \in Threads, KeScheduleThread(t)
      PROVE  Placed' /\ WaitListsAgree'
  <2>1. PICK p \in Priorities : p = priority[t]
    BY PlacedKinds
  <2>2. /\ pc = "run" /\ pc' = "release" /\ current' = current
        /\ state[t] = "Initialized" /\ KiScheduleThread(t, p)
        /\ UNCHANGED <<priority, waitVars>>
    BY <1>3, <2>1 DEF KeScheduleThread, Call, MayCall, ThreadCalls, ThreadRuns, DpcCalls
  <2>3. /\ Placed' /\ state'[t] # "Waiting"
        /\ \A u \in Threads \ {t} : state'[u] = "Waiting" <=> state[u] = "Waiting"
    BY <2>1, <2>2, PlacedKinds, WokenPlaces
  <2> QED BY <2>2, <2>3, WaitsUntouched
<1>4. ASSUME NEW o \in Objects, NEW poll \in BOOLEAN, KeWaitForSingleObject(o, poll)
      PROVE  Placed' /\ WaitListsAgree'
  <2>1. /\ pc = "run" /\ current # Idle
        /\ UNCHANGED <<priority, readyVars, prcbVars>>
    BY <1>4 DEF KeWaitForSingleObject, ThreadRuns
  <2>2. PICK t \in Threads : t = current
    BY <2>1, PlacedKinds
  <2>3. CASE pc' = "swap"
    <3>1. /\ waitList' = [waitList EXCEPT ![o] = Append(@, t)]
          /\ waitIn' = waitIn \union {t} /\ state' = [state EXCEPT ![t] = "Waiting"]
      BY <1>4, <2>2, <2>3 DEF KeWaitForSingleObject
    <3>2. state[t] = "Running"
      BY <2>1, <2>2, PlacedKinds
    <3> QED BY <2>1, <2>2, <2>3, <3>1, <3>2, BlockPlaces, WaitsBlock
  <2>4. CASE pc' # "swap"
    <3>1. UNCHANGED <<state, waitVars>>
      BY <1>4, <2>4 DEF KeWaitForSingleObject
    <3> QED BY <2>1, <2>4, <3>1, QuietStep
  <2> QED BY <2>3, <2>4
<1>5. CASE KeRaiseIrqlToDpcLevel
  BY <1>5, QuietStep DEF KeRaiseIrqlToDpcLevel
<1> QED BY <1>1, <1>2, <1>3, <1>4, <1>5 DEF Calls

\* KiWaitTest moves the first waiter from its lists to the scheduler's.
LEMMA WaitTestPlaces ==
    ASSUME TypeInvariant, Placed, WaitListsAgree, KiWaitTest
    PROVE  Placed' /\ WaitListsAgree'
<1>1. PICK o \in Objects : o = frame.obj
  BY DEF KiWaitTest, TypeInvariant, CpuConsistent
<1>2. PICK t : t = Head(waitList[o])
  OBVIOUS
<1>3. waitList[o] # <<>> /\ waitList[o] \in Seq(Threads) /\ Distinct(waitList[o])
  BY <1>1, WaitListKinds DEF KiWaitTest, MoreToWake
<1>4. t \in Threads /\ state[t] = "Waiting"
  <2>1. t \in Members(waitList[o]) /\ t \in Threads
    BY <1>2, <1>3, TailLeaves
  <2> QED BY <2>1, ListNames DEF WaitListsAgree
<1>5. frame.inc \in Nat
  <2>1. frame.inc \in Increments \/ frame.inc = 0
    BY DEF TypeInvariant, TypeOK, Frames
  <2>2. CASE frame.inc = 0
    BY <2>2
  <2>3. CASE frame.inc \in Increments
    BY <2>3, NumbersAssumption
  <2> QED BY <2>1, <2>2, <2>3
<1>6. PICK p \in Priorities : p = PriorityAfterWait(t, frame.inc)
  BY <1>4, <1>5, UnwaitTypes
<1>7. /\ waitList' = [waitList EXCEPT ![o] = Tail(@)] /\ waitIn' = waitIn \ {t}
      /\ priority' = [priority EXCEPT ![t] = p] /\ KiScheduleThread(t, p)
      /\ pc = "waittest" /\ pc' = "waittest" /\ current' = current
  BY <1>1, <1>2, <1>6 DEF KiWaitTest, KiUnwaitThread
<1>8. /\ priority' \in [Threads -> Priorities] /\ priority'[t] = p
      /\ \A u \in Threads \ {t} : priority'[u] = priority[u]
  BY <1>4, <1>7, PlacedKinds
<1>9. /\ Placed' /\ state'[t] # "Waiting"
      /\ \A u \in Threads \ {t} : state'[u] = "Waiting" <=> state[u] = "Waiting"
  BY <1>4, <1>7, <1>8, WokenPlaces
<1> QED BY <1>2, <1>3, <1>7, <1>9, WaitsUnwait

\* Each step within a routine.
LEMMA ContinuePlaces ==
    ASSUME TypeInvariant, Placed, WaitListsAgree, Continue
    PROVE  Placed' /\ WaitListsAgree'
<1>1. CASE KiWaitTest
  BY <1>1, WaitTestPlaces
<1>2. CASE KiWaitTestDone \/ ReturnLocked
  BY <1>2, QuietStep DEF KiWaitTestDone, ReturnLocked
<1>3. CASE KiUnlockDispatcherDatabase \/ SwIntSwitch
  <2>1. /\ pc \in {"release", "switch"} /\ pc' = "run" /\ UNCHANGED <<priority, waitVars>>
        /\ \/ next # NoThread /\ SwitchToNext
              /\ (pc = "release" => frame.old < DISPATCH_LEVEL)
           \/ UNCHANGED <<readyVars, state, prcbVars>>
    BY <1>3 DEF KiUnlockDispatcherDatabase, SwIntSwitch
  <2>2. CASE next # NoThread /\ SwitchToNext /\ (pc = "release" => frame.old < DISPATCH_LEVEL)
    <3>1. current \in Threads
      BY <2>1, <2>2, PlacedKinds DEF TypeInvariant, CpuConsistent, DISPATCH_LEVEL
    <3>2. Placed' /\ SameWait
      BY <2>1, <2>2, <3>1, SwitchToNextPlaces
    <3> QED BY <2>1, <3>2, WaitsUntouched DEF SameWait
  <2>3. CASE UNCHANGED <<readyVars, state, prcbVars>>
    BY <2>1, <2>3, QuietStep
  <2> QED BY <2>1, <2>2, <2>3
<1>4. CASE KiSwapThread
  BY <1>4, SwapPlaces, WaitsUntouched DEF KiSwapThread, SameWait
<1>5. CASE KiAdjustQuantumThread \/ SwIntQuantumEnd
  <2>1. /\ pc \in {"adjust", "quantum"} /\ pc' \in {"release", "switch"}
        /\ UNCHANGED <<current, waitVars>>
    BY <1>5 DEF KiAdjustQuantumThread, SwIntQuantumEnd
  <2>2. current \in Threads
    BY <2>1, PlacedKinds DEF TypeInvariant, CpuConsistent
  <2>3. CASE \E q \in Int : KiQuantumEnd(q)
    <3>1. basePriority \in [Threads -> Priorities]
      BY DEF TypeInvariant, TypeOK
    <3>2. Placed' /\ SameWait
      BY <2>1, <2>2, <2>3, <3>1, QuantumPlaces
    <3> QED BY <2>1, <3>2, WaitsUntouched DEF SameWait
  <2>4. CASE UNCHANGED <<quantum, priority, next, state, readyVars>>
    BY <2>1, <2>4, QuietStep
  <2>5. /\ quantum[current] \in Int
        /\ quantum[current] - WaitQuantumDecrement \in Int
    BY <2>2, NumbersAssumption DEF TypeInvariant, TypeOK
  <2>6. \/ KiQuantumEnd(quantum[current] - WaitQuantumDecrement)
        \/ KiQuantumEnd(quantum[current])
        \/ UNCHANGED <<quantum, priority, next, state, readyVars>>
    BY <1>5 DEF KiAdjustQuantumThread, SwIntQuantumEnd
  <2> QED BY <2>3, <2>4, <2>5, <2>6
<1>6. CASE HalpSwIntDpc \/ KiExecuteDpcQueue \/ DpcQueueRetired \/ KiIdleLoop
  BY <1>6, QuietStep DEF HalpSwIntDpc, KiExecuteDpcQueue, DpcQueueRetired, KiIdleLoop
<1>7. CASE IdleSwitch
  BY <1>7, IdlePlaces, WaitsUntouched DEF IdleSwitch, SameWait
<1> QED BY <1>1, <1>2, <1>3, <1>4, <1>5, <1>6, <1>7 DEF Continue

\* All of them, and nothing moves any more once the machine is gone.
LEMMA CoreExports ==
    ASSUME ExportsInv, CoreStep
    PROVE  ExportsInv'
<1>1. TypeInvariant /\ TypeInvariant'
  BY ExportsTypes, NextTypes DEF CoreStep
<1>2. Next /\ pulsed' = pulsed
  BY DEF CoreStep
<1>3. ~crashed
  <2>1. CASE Calls
    BY <2>1 DEF Calls, KeSetEvent, KeResetEvent, KeReleaseSemaphore, KeReleaseMutant,
                KeScheduleThread, KeWaitForSingleObject, KeRaiseIrqlToDpcLevel,
                MayCall, ThreadCalls, ThreadRuns, DpcCalls
  <2>2. CASE Continue
    BY <2>2 DEF Continue, KiWaitTest, KiWaitTestDone, ReturnLocked,
                KiUnlockDispatcherDatabase, KiSwapThread, KiAdjustQuantumThread,
                HalpSwIntDpc, KiExecuteDpcQueue, DpcQueueRetired, SwIntQuantumEnd,
                SwIntSwitch, KiIdleLoop, IdleSwitch
  <2>3. CASE KfLowerIrql \/ DpcReturns \/ HalpClockIsr \/ KeInsertQueueDpc
    BY <2>3 DEF KfLowerIrql, DpcReturns, HalpClockIsr, KeInsertQueueDpc, ThreadCalls,
                ThreadRuns, DpcCalls
  <2> QED BY <1>2, <2>1, <2>2, <2>3 DEF Next
<1>4. Placed /\ WaitListsAgree /\ pulsed' \in Events \union {NoObject}
  BY <1>2, <1>3 DEF ExportsInv, Elsewhere
<1>5. Placed' /\ WaitListsAgree'
  <2>1. CASE Calls
    BY <1>1, <1>4, <2>1, CallsPlace
  <2>2. CASE Continue
    BY <1>1, <1>4, <2>2, ContinuePlaces
  <2>3. CASE KfLowerIrql \/ DpcReturns \/ HalpClockIsr \/ KeInsertQueueDpc
    BY <1>4, <2>3, QuietStep DEF KfLowerIrql, DpcReturns, DpcCalls, HalpClockIsr,
                                 KeInsertQueueDpc
  <2> QED BY <1>2, <2>1, <2>2, <2>3 DEF Next
<1> QED BY <1>1, <1>4, <1>5, ExportsTypesNext

-----------------------------------------------------------------------------
(* The exported routines.                                                   *)

\* Who may call one.
LEMMA ExportCallers ==
    ASSUME ExportsInv, NEW wait, MayCall(wait)
    PROVE  /\ pc = "run" /\ ~crashed /\ TypeInvariant /\ Placed /\ WaitListsAgree
           /\ pulsed \in Events \union {NoObject}
<1>1. pc = "run" /\ ~crashed
  BY DEF MayCall, ThreadCalls, ThreadRuns, DpcCalls
<1> QED BY <1>1, ExportsTypes DEF ExportsInv, Elsewhere

\* A priority is set between two steps of anything else, and the database is
\* released at once or by KiUnlockDispatcherDatabase.
LEMMA PriorityExports ==
    ASSUME ExportsInv, MayCall(FALSE), NEW t \in Threads, NEW p \in Priorities,
           \/ SetPriorityAndQuantum(t, p)
           \/ UNCHANGED <<priority, quantum, state, next, readyVars>>,
           basePriority' \in [Threads -> Priorities],
           Call("release", NoObject, 0, FALSE) \/ UNCHANGED cpuVars,
           UNCHANGED <<waitNext, waitStatus, current, objectVars, waitVars, dpcVars,
                       intVars, crashed, pulsed>>
    PROVE  ExportsInv'
<1>1. /\ pc = "run" /\ TypeInvariant /\ Placed /\ WaitListsAgree
      /\ pulsed \in Events \union {NoObject}
  BY ExportCallers
<1>2. pc' \in {"run", "release"}
  BY <1>1 DEF Call
<1>3. Placed' /\ SameWait
  <2>1. CASE SetPriorityAndQuantum(t, p)
    BY <1>1, <1>2, <2>1, SetPriorityPlaces DEF SetPriorityAndQuantum
  <2>2. CASE UNCHANGED <<priority, quantum, state, next, readyVars>>
    BY <1>1, <1>2, <2>2, PlacedKinds, UnmovedPlaces
  <2> QED BY <2>1, <2>2
<1>4. WaitListsAgree'
  BY <1>1, <1>3, WaitsUntouched DEF SameWait
<1>5. quantum' \in [Threads -> 0..ThreadQuantum]
  <2>1. quantum \in [Threads -> 0..ThreadQuantum] /\ ThreadQuantum \in 0..ThreadQuantum
    BY <1>1, NumbersAssumption DEF TypeInvariant, TypeOK
  <2> QED BY <2>1 DEF SetPriorityAndQuantum
<1>6. /\ frame' \in Frames /\ irql' \in {PASSIVE_LEVEL, DISPATCH_LEVEL}
      /\ irql' = irql \/ irql' = DISPATCH_LEVEL
      /\ pc' = "release" => irql' = DISPATCH_LEVEL /\ frame'.old = irql
  <2>1. CASE Call("release", NoObject, 0, FALSE)
    BY <1>1, <2>1, CallTypes DEF PcValues
  <2>2. CASE UNCHANGED cpuVars
    BY <1>1, <2>2 DEF TypeInvariant, TypeOK
  <2> QED BY <2>1, <2>2
<1>7. CpuConsistent'
  BY <1>1, <1>2, <1>6 DEF TypeInvariant, CpuConsistent
<1>8. Elsewhere'
  BY <1>1, <1>5, <1>6 DEF TypeInvariant, TypeOK, Elsewhere
<1> QED BY <1>2, <1>3, <1>4, <1>6, <1>7, <1>8 DEF ExportsInv, PcValues

\* What KeBoostPriorityThread and KeSetBasePriorityThread ask for is a priority.
LEMMA PrioritiesAskedFor ==
    ASSUME TypeInvariant, NEW t \in Threads
    PROVE  /\ \A inc \in Nat : basePriority[t] + inc > priority[t] =>
                  LowerOf(basePriority[t] + inc, LowRealtimePriority - 1) \in Priorities
           /\ \A inc \in Int : NewBasePriority(inc) \in Priorities
           /\ \A inc \in Int : NewPriority(t, inc) \in Priorities
<1>1. /\ priority[t] \in 1..HighPriority /\ basePriority[t] \in 1..HighPriority
      /\ ProcessBase \in 1..HighPriority
  BY ExportsAssumption DEF TypeInvariant, TypeOK, Priorities
<1>2. /\ HighPriority \in Nat /\ LowRealtimePriority \in Nat
      /\ LowRealtimePriority > 1 /\ HighPriority >= LowRealtimePriority
  BY NumbersAssumption
<1>3. \A inc \in Nat : basePriority[t] + inc > priority[t] =>
          LowerOf(basePriority[t] + inc, LowRealtimePriority - 1) \in Priorities
  BY <1>1, <1>2 DEF LowerOf, Priorities
<1>4. ASSUME NEW inc \in Int PROVE NewBasePriority(inc) \in Priorities
  BY <1>1, <1>2 DEF NewBasePriority, LowerOf, HigherOf, Priorities
<1>5. ASSUME NEW inc \in Int PROVE NewPriority(t, inc) \in Priorities
  <2>1. NewBasePriority(inc) \in 1..HighPriority
    BY <1>4 DEF Priorities
  <2>2. KiComputeNewPriority(t, 0) \in Int
    BY <1>1, <1>2 DEF KiComputeNewPriority, HigherOf
  <2>3. PICK moved \in Int : moved = KiComputeNewPriority(t, 0) + NewBasePriority(inc)
                                      - basePriority[t]
    BY <1>1, <2>1, <2>2
  <2>4. HigherOf(LowerOf(moved, LowRealtimePriority - 1), 1) \in Priorities
    BY <1>2 DEF HigherOf, LowerOf, Priorities
  <2> QED BY <1>4, <2>3, <2>4 DEF NewPriority
<1> QED BY <1>3, <1>4, <1>5

\* Setting, boosting and changing the base of a priority.
LEMMA SettingExports ==
    ASSUME ExportsInv, NEW t \in Threads,
           \/ \E p \in NewPriorities : KeSetPriorityThread(t, p)
           \/ \E inc \in Increments : KeBoostPriorityThread(t, inc)
           \/ \E inc \in BaseIncrements : KeSetBasePriorityThread(t, inc)
    PROVE  ExportsInv'
<1>1. MayCall(FALSE) /\ pulsed' = pulsed
  BY DEF KeSetPriorityThread, KeBoostPriorityThread, KeSetBasePriorityThread, Called
<1>2. TypeInvariant /\ basePriority \in [Threads -> Priorities]
  BY <1>1, ExportCallers DEF TypeInvariant, TypeOK
<1>3. CASE \E p \in NewPriorities : KeSetPriorityThread(t, p)
  <2>1. PICK p \in Priorities : KeSetPriorityThread(t, p)
    BY <1>3, ExportsAssumption
  <2> QED BY <1>1, <1>2, <2>1, PriorityExports DEF KeSetPriorityThread
<1>4. CASE \E inc \in Increments : KeBoostPriorityThread(t, inc)
  <2>1. PICK inc \in Nat : KeBoostPriorityThread(t, inc)
    BY <1>4, NumbersAssumption
  <2>2. CASE priority[t] < LowRealtimePriority /\ basePriority[t] + inc > priority[t]
    <3>1. PICK p \in Priorities :
              p = LowerOf(basePriority[t] + inc, LowRealtimePriority - 1)
      BY <1>2, <2>2, PrioritiesAskedFor
    <3>2. SetPriorityAndQuantum(t, p)
      BY <2>1, <2>2, <3>1 DEF KeBoostPriorityThread
    <3> QED BY <1>1, <1>2, <2>1, <3>2, PriorityExports DEF KeBoostPriorityThread
  <2>3. CASE ~(priority[t] < LowRealtimePriority /\ basePriority[t] + inc > priority[t])
    <3>1. UNCHANGED <<priority, quantum, state, next, readyVars>>
      BY <2>1, <2>3 DEF KeBoostPriorityThread
    <3>2. ProcessBase \in Priorities
      BY ExportsAssumption
    <3> QED BY <1>1, <1>2, <2>1, <3>1, <3>2, PriorityExports DEF KeBoostPriorityThread
  <2> QED BY <2>2, <2>3
<1>5. CASE \E inc \in BaseIncrements : KeSetBasePriorityThread(t, inc)
  <2>1. PICK inc \in Int : KeSetBasePriorityThread(t, inc)
    BY <1>5, ExportsAssumption
  <2>2. PICK p \in Priorities : p = NewPriority(t, inc)
    BY <1>2, PrioritiesAskedFor
  <2>3. PICK b \in Priorities : b = NewBasePriority(inc)
    BY <1>2, PrioritiesAskedFor
  <2>4. basePriority' \in [Threads -> Priorities]
    BY <1>2, <2>1, <2>3 DEF KeSetBasePriorityThread
  <2>5. \/ SetPriorityAndQuantum(t, p)
        \/ UNCHANGED <<priority, quantum, state, next, readyVars>>
    BY <2>1, <2>2 DEF KeSetBasePriorityThread
  <2> QED BY <1>1, <2>1, <2>4, <2>5, PriorityExports DEF KeSetBasePriorityThread
<1> QED BY <1>3, <1>4, <1>5

\* A yield begins: no thread has moved yet.
LEMMA YieldExports ==
    ASSUME ExportsInv, NtYieldExecution
    PROVE  ExportsInv'
<1>1. /\ MayCall(FALSE) /\ ThreadCalls
      /\ irql' = SYNC_LEVEL /\ pc' = "yield"
      /\ UNCHANGED <<threadVars, readyVars, prcbVars, objectVars, waitVars, dpcVars,
                     intVars, frame, crashed, pulsed>>
  BY DEF NtYieldExecution, Called
<1>2. /\ pc = "run" /\ TypeInvariant /\ Placed /\ WaitListsAgree /\ Elsewhere
      /\ current # Idle /\ ~dpcActive
  BY <1>1, ExportCallers DEF ThreadCalls, ThreadRuns, ExportsInv
<1>3. Placed' /\ WaitListsAgree'
  BY <1>1, <1>2, QuietStep
<1>4. Elsewhere'
  BY <1>1, <1>2 DEF Elsewhere
<1>5. current' \in Threads /\ ~dpcActive'
  BY <1>1, <1>2, PlacedKinds
<1> QED BY <1>1, <1>3, <1>4, <1>5 DEF ExportsInv

\* It ends with another thread, or the same one, below DISPATCH_LEVEL.
LEMMA YieldSwapExports ==
    ASSUME ExportsInv, YieldSwap
    PROVE  ExportsInv'
<1>1. /\ pc = "yield" /\ pc' = "run" /\ irql' = PASSIVE_LEVEL /\ ~crashed
      /\ UNCHANGED <<basePriority, waitNext, waitStatus, objectVars, waitVars, dpcVars,
                     intVars, frame, crashed, pulsed>>
  BY DEF YieldSwap
<1>2. Elsewhere /\ Placed /\ WaitListsAgree /\ current \in Threads /\ ~dpcActive
  BY <1>1 DEF ExportsInv
<1>3. Placed' /\ SameWait /\ current' \in Threads
  BY <1>2, YieldPlaces DEF Elsewhere
<1>4. WaitListsAgree'
  BY <1>1, <1>2, <1>3, WaitsUntouched DEF SameWait
<1>5. quantum' \in [Threads -> 0..ThreadQuantum]
  <2>1. quantum \in [Threads -> 0..ThreadQuantum] /\ ThreadQuantum \in 0..ThreadQuantum
    BY <1>2, NumbersAssumption DEF Elsewhere
  <2> QED BY <2>1 DEF YieldSwap
<1>6. Elsewhere'
  BY <1>1, <1>2, <1>5 DEF Elsewhere
<1>7. CpuConsistent'
  BY <1>1, <1>2, <1>3, PlacedKinds DEF CpuConsistent
<1> QED BY <1>1, <1>3, <1>4, <1>6, <1>7 DEF ExportsInv, PcValues

\* KePulseEvent signals the event, for KiWaitTest to find, or does nothing.
LEMMA PulseExports ==
    ASSUME ExportsInv, NEW e \in Events, NEW inc \in Increments, NEW wait \in BOOLEAN,
           KePulseEvent(e, inc, wait)
    PROVE  ExportsInv'
<1>1. /\ MayCall(wait) /\ pulsed' = e
      /\ \/ Call("waittest", e, inc, wait) \/ Call("release", NoObject, 0, wait)
      /\ UNCHANGED <<threadVars, readyVars, prcbVars, owner, abandoned, mutantList,
                     waitVars, dpcVars, intVars, crashed>>
  BY DEF KePulseEvent
<1>2. /\ pc = "run" /\ TypeInvariant /\ Placed /\ WaitListsAgree /\ Elsewhere
  BY <1>1, ExportCallers DEF ExportsInv
<1>3. /\ pc' \in {"waittest", "release"} /\ irql' = DISPATCH_LEVEL
      /\ frame' \in Frames /\ frame'.old = irql
      /\ pc' = "waittest" => frame'.obj \in Objects
  <2>1. CASE Call("waittest", e, inc, wait)
    BY <1>2, <2>1, CallTypes DEF PcValues, Objects
  <2>2. CASE Call("release", NoObject, 0, wait)
    BY <1>2, <2>2, CallTypes DEF PcValues
  <2> QED BY <1>1, <2>1, <2>2
<1>4. Placed' /\ WaitListsAgree'
  BY <1>1, <1>2, <1>3, QuietStep
<1>5. signal' \in [Objects -> Int]
  BY <1>2 DEF KePulseEvent, Elsewhere
<1>6. Elsewhere'
  BY <1>1, <1>2, <1>3, <1>5 DEF Elsewhere
<1>7. CpuConsistent'
  BY <1>1, <1>2, <1>3 DEF TypeInvariant, CpuConsistent
<1> QED BY <1>3, <1>4, <1>6, <1>7 DEF ExportsInv, PcValues

\* The event is reset and the caller returns, to wait or not.
LEMMA PulseDoneExports ==
    ASSUME ExportsInv, PulseDone
    PROVE  ExportsInv'
<1>1. /\ pc = "release" /\ ~crashed /\ pc' = "run" /\ frame' = NoFrame
      /\ pulsed' = NoObject
      /\ UNCHANGED <<state, priority, basePriority, quantum, waitStatus, owner,
                     abandoned, mutantList, readyVars, prcbVars, waitVars,
                     dpcVars, intVars, crashed>>
  BY DEF PulseDone
<1>2. TypeInvariant /\ Placed /\ WaitListsAgree /\ Elsewhere
  BY <1>1, ExportsTypes DEF ExportsInv
<1>3. Placed' /\ WaitListsAgree'
  BY <1>1, <1>2, QuietStep
<1>4. /\ signal' \in [Objects -> Int] /\ waitNext' \in [Threads -> BOOLEAN]
      /\ NoFrame \in Frames
  <2>1. signal' = [signal EXCEPT ![pulsed] = 0] /\ signal \in [Objects -> Int]
    BY <1>2 DEF PulseDone, Elsewhere
  <2>2. waitNext' \in [Threads -> BOOLEAN]
    <3>1. CASE frame.wait
      BY <1>2, <3>1 DEF PulseDone, Elsewhere
    <3>2. CASE ~frame.wait
      BY <1>2, <3>2 DEF PulseDone, Elsewhere
    <3> QED BY <3>1, <3>2
  <2>3. NoFrame \in Frames
    BY DEF NoFrame, Frames
  <2>4. pulsed \in Objects
    BY <1>2 DEF PulseDone, Elsewhere, Objects
  <2>5. signal' \in [Objects -> Int]
    BY <2>1, <2>4
  <2> QED BY <2>2, <2>3, <2>5
<1>5. /\ irql' \in {PASSIVE_LEVEL, DISPATCH_LEVEL}
      /\ current = Idle \/ dpcActive => irql' = DISPATCH_LEVEL
  <2>1. /\ frame.old \in {PASSIVE_LEVEL, DISPATCH_LEVEL} /\ irql = DISPATCH_LEVEL
        /\ current = Idle \/ dpcActive => frame.old = DISPATCH_LEVEL
    BY <1>1, <1>2 DEF TypeInvariant, TypeOK, CpuConsistent, Frames
  <2>2. irql' = irql \/ irql' = frame.old
    BY DEF PulseDone
  <2> QED BY <2>1, <2>2
<1>6. Elsewhere'
  BY <1>1, <1>2, <1>4 DEF Elsewhere
<1>7. CpuConsistent'
  BY <1>1, <1>5 DEF CpuConsistent
<1> QED BY <1>1, <1>3, <1>5, <1>6, <1>7 DEF ExportsInv, PcValues

\* KeSetEventBoostPriority signals the event, or readies a thread that stays on
\* the wait lists: that is the end.
LEMMA BoostExports ==
    ASSUME ExportsInv, NEW e \in SynchronizationEvents, KeSetEventBoostPriority(e)
    PROVE  ExportsInv'
<1>1. /\ MayCall(FALSE) /\ pulsed' = pulsed
      /\ UNCHANGED <<basePriority, quantum, waitNext, waitStatus, current, owner,
                     abandoned, mutantList, waitVars, dpcVars, intVars, cpuVars>>
  BY DEF KeSetEventBoostPriority, Called
<1>2. /\ pc = "run" /\ TypeInvariant /\ Placed /\ WaitListsAgree /\ Elsewhere
      /\ e \in Objects
  BY <1>1, ExportCallers DEF ExportsInv, Objects, Events
<1>3. signal' \in [Objects -> Int] /\ crashed' \in BOOLEAN
  <2>1. CASE waitList[e] = <<>>
    BY <1>2, <2>1 DEF KeSetEventBoostPriority, Elsewhere
  <2>2. CASE waitList[e] # <<>>
    <3>1. crashed' = TRUE /\ signal' = signal
      BY <2>2 DEF KeSetEventBoostPriority
    <3> QED BY <1>2, <3>1 DEF Elsewhere
  <2> QED BY <2>1, <2>2
<1>4. Elsewhere'
  BY <1>1, <1>2, <1>3 DEF Elsewhere
<1>5. CpuConsistent' /\ pc' = "run" /\ irql' \in {PASSIVE_LEVEL, DISPATCH_LEVEL}
  BY <1>1, <1>2 DEF TypeInvariant, TypeOK, CpuConsistent
<1>6. CASE waitList[e] = <<>>
  <2>1. Placed' /\ WaitListsAgree'
    BY <1>1, <1>2, <1>6, QuietStep DEF KeSetEventBoostPriority
  <2> QED BY <1>4, <1>5, <2>1 DEF ExportsInv, PcValues
<1>7. CASE waitList[e] # <<>>
  <2>1. PICK t : t = Head(waitList[e])
    OBVIOUS
  <2>2. t \in Threads /\ state[t] = "Waiting"
    <3>1. waitList[e] \in Seq(Threads) /\ Distinct(waitList[e])
      BY <1>2, WaitListKinds
    <3>2. t \in Members(waitList[e]) /\ t \in Threads
      BY <1>7, <2>1, <3>1, TailLeaves
    <3> QED BY <1>2, <3>2, ListNames DEF WaitListsAgree
  <2>3. PICK p \in Priorities : p = priority[t]
    BY <1>2, <2>2, PlacedKinds
  <2>4. /\ KiScheduleThread(t, p) /\ crashed'
        /\ priority' = IF current = Idle THEN priority
                       ELSE [priority EXCEPT ![current] = KiComputeNewPriority(current, 0)]
    BY <1>7, <2>1, <2>3 DEF KeSetEventBoostPriority
  <2>5. current # t
    BY <1>2, <2>2, PlacedKinds
  <2>6. current # Idle => KiComputeNewPriority(current, 0) \in Priorities
    <3>1. current # Idle => /\ priority[current] \in 1..HighPriority
                            /\ basePriority[current] \in 1..HighPriority
      BY <1>2, PlacedKinds DEF TypeInvariant, TypeOK, Priorities
    <3> QED BY <3>1, NumbersAssumption DEF KiComputeNewPriority, HigherOf, Priorities
  <2>7. /\ priority' \in [Threads -> Priorities] /\ priority'[t] = p
        /\ \A u \in Threads : u # current => priority'[u] = priority[u]
    BY <1>2, <2>2, <2>3, <2>4, <2>5, <2>6, PlacedKinds
  <2>8. \A u \in Threads \ {t} : state[u] \in {"Ready", "Standby"} =>
            priority'[u] = priority[u]
    BY <1>2, <2>7, PlacedKinds
  <2>9. Placed'
    BY <1>1, <1>2, <2>2, <2>4, <2>7, <2>8, WokenPlaces
  <2> QED BY <1>4, <1>5, <2>4, <2>9 DEF ExportsInv, PcValues
<1> QED BY <1>6, <1>7

\* Every step keeps the invariant.
LEMMA NextExports == ExportsInv /\ [ExportsNext]_exportVars => ExportsInv'
<1> SUFFICES ASSUME ExportsInv, [ExportsNext]_exportVars PROVE ExportsInv'
  OBVIOUS
<1>1. CASE CoreStep
  BY <1>1, CoreExports
<1>2. CASE ExportCalls
  BY <1>2, SettingExports, YieldExports, PulseExports, BoostExports DEF ExportCalls
<1>3. CASE YieldSwap
  BY <1>3, YieldSwapExports
<1>4. CASE PulseDone
  BY <1>4, PulseDoneExports
<1>5. CASE UNCHANGED exportVars
  <2>1. Placed' /\ (crashed' \/ WaitListsAgree')
    <3>1. UNCHANGED <<state, readyVars, prcbVars, priority, pc, waitVars, crashed>>
      BY <1>5 DEF exportVars, vars
    <3>2. Placed'
      BY <3>1, PlacedKinds, UnmovedPlaces DEF ExportsInv
    <3> QED BY <3>1, <3>2, WaitsUntouched DEF ExportsInv
  <2>2. Elsewhere' /\ (CpuConsistent <=> CpuConsistent')
    BY <1>5 DEF exportVars, vars, ExportsInv, Elsewhere, CpuConsistent
  <2> QED BY <1>5, <2>1, <2>2 DEF exportVars, vars, ExportsInv
<1> QED BY <1>1, <1>2, <1>3, <1>4, <1>5 DEF ExportsNext

\* The exported routines that change priorities, yield, pulse and boost leave
\* PRCB, ready lists and mask in agreement, whatever they interrupt: no thread
\* is lost, queued twice or left on the list of a priority it no longer has,
\* although several of them release the database without looking at Standby.
THEOREM ExportsKeepAgreement == ExportsSpec => []ExportsAgree
<1>1. ExportsInv => ExportsAgree
  <2> SUFFICES ASSUME ExportsInv PROVE ExportsAgree
    OBVIOUS
  <2>1. /\ Placed /\ Elsewhere /\ pc \in PcValues \union {"yield"}
        /\ irql \in {PASSIVE_LEVEL, DISPATCH_LEVEL, SYNC_LEVEL}
    BY DEF ExportsInv
  <2>2. ExportsTypeOK
    BY <2>1 DEF Placed, Elsewhere, ExportsTypeOK
  <2>3. PrcbAgrees /\ ReadyMaskExact
    BY <2>1 DEF Placed, Holds, ReadyMaskExact
  <2>4. ASSUME NEW p \in Priorities, NEW i \in 1..Len(ready[p])
        PROVE  state[ready[p][i]] = "Ready" /\ priority[ready[p][i]] = p
    <3>1. ready[p] \in Seq(Threads)
      BY <2>1 DEF Placed, Holds
    <3>2. ready[p][i] \in Threads /\ ready[p][i] \in Listed(ready[p])
      BY <3>1, ElementOfSeq DEF Listed
    <3> QED BY <2>1, <3>2 DEF Placed, Holds, Readies
  <2>5. ReadyListsAgree
    BY <2>1, <2>4 DEF Placed, Holds, Readies, ReadyListsAgree
  <2> QED BY <2>2, <2>3, <2>5 DEF ExportsAgree
<1> QED BY <1>1, InitExports, NextExports, PTL DEF ExportsSpec

-----------------------------------------------------------------------------
(* The exported routines and the objects: KePulseEvent.                     *)

\* A pulse is under way from KePulseEvent's call to its own ending, and all
\* that KiWaitTest works on meanwhile is the event.
PulseUnderWay ==
    pulsed # NoObject => /\ pc \in {"waittest", "release"}
                         /\ pc = "waittest" => frame.obj = pulsed

PulseInv == ExportsInv /\ ObjectsRight /\ EventsAreBits /\ PulseUnderWay

\* A running machine, except half-way through a yield, has what the objects need.
LEMMA PulseWaits ==
    ASSUME PulseInv, pc # "yield", ~crashed
    PROVE  RefinementInv /\ TypeInvariant
<1>1. TypeInvariant /\ PrcbAgrees /\ WaitListsAgree
  BY ExportsTypes DEF PulseInv, ExportsInv, Placed
<1> QED BY <1>1 DEF PulseInv, RefinementInv, WaitsRight

\* The start.
LEMMA InitPulse == ExportsInit => PulseInv
<1> SUFFICES ASSUME ExportsInit PROVE PulseInv
  OBVIOUS
<1>1. SchedulerInv /\ EventsAreBits /\ ExportsInv
  BY InitScheduler, InitBits, InitExports DEF ExportsInit
<1> QED BY <1>1 DEF PulseInv, PulseUnderWay, ExportsInit, SchedulerInv

\* A step that stores 0 or 1 in an event keeps its hands off everything else.
LEMMA EventStored ==
    ASSUME TypeInvariant, ObjectsRight, EventsAreBits, NEW e \in Events, NEW b \in {0, 1},
           signal' = [signal EXCEPT ![e] = b],
           UNCHANGED <<owner, mutantList, waitList>>
    PROVE  /\ EventsAreBits' /\ MutantsAgree' /\ CountsAreLeft'
           /\ signal'[e] = b /\ \A q \in Objects \ {e} : signal'[q] = signal[q]
<1>1. /\ signal \in [Objects -> Int] /\ e \in Objects /\ e \notin Mutants
      /\ e \notin Semaphores /\ Mutants \subseteq Objects /\ Semaphores \subseteq Objects
      /\ Events \subseteq Objects
  BY ObjectsAssumption DEF TypeInvariant, TypeOK, Objects
<1>2. signal'[e] = b /\ \A q \in Objects \ {e} : signal'[q] = signal[q]
  BY <1>1
<1>3. EventsAreBits'
  BY <1>1, <1>2 DEF EventsAreBits
<1>4. MutantsAgree' /\ CountsAreLeft'
  BY <1>1, <1>2 DEF ObjectsRight, MutantsAgree, CountsAreLeft
<1> QED BY <1>2, <1>3, <1>4

\* Priorities and yields do not touch objects.
LEMMA QuietPulse ==
    ASSUME PulseInv, UNCHANGED <<objectVars, waitList, pulsed>>, pc # "waittest",
           pulsed = NoObject
    PROVE  ObjectsRight' /\ EventsAreBits' /\ PulseUnderWay'
BY ObjectsUntouched DEF PulseInv, EventsAreBits, PulseUnderWay

\* What the exported routines do between calls and to nobody's object.
LEMMA QuietExports ==
    ASSUME ExportsInv,
           \/ \E t \in Threads, p \in NewPriorities : KeSetPriorityThread(t, p)
           \/ \E t \in Threads, inc \in Increments : KeBoostPriorityThread(t, inc)
           \/ \E t \in Threads, inc \in BaseIncrements : KeSetBasePriorityThread(t, inc)
           \/ NtYieldExecution
    PROVE  /\ UNCHANGED <<objectVars, waitList, pulsed>>
           /\ pc = "run" /\ pc' # "waittest"
<1>1. ASSUME NEW t, NEW p, KeSetPriorityThread(t, p)
      PROVE  /\ UNCHANGED <<objectVars, waitList, pulsed>>
             /\ pc = "run" /\ pc' # "waittest"
  BY <1>1 DEF KeSetPriorityThread, Called, Call, MayCall, ThreadCalls, ThreadRuns, DpcCalls
<1>2. ASSUME NEW t, NEW inc, KeBoostPriorityThread(t, inc) \/ KeSetBasePriorityThread(t, inc)
      PROVE  /\ UNCHANGED <<objectVars, waitList, pulsed>>
             /\ pc = "run" /\ pc' # "waittest"
  BY <1>2 DEF KeBoostPriorityThread, KeSetBasePriorityThread, Called, MayCall,
              ThreadCalls, ThreadRuns, DpcCalls
<1>3. CASE NtYieldExecution
  BY <1>3 DEF NtYieldExecution, Called, ThreadCalls, ThreadRuns
<1> QED BY <1>1, <1>2, <1>3

\* KePulseEvent signals only what somebody waits for, and says so.
LEMMA PulsePulse ==
    ASSUME PulseInv, NEW e \in Events, NEW inc \in Increments, NEW wait \in BOOLEAN,
           KePulseEvent(e, inc, wait)
    PROVE  ObjectsRight' /\ EventsAreBits' /\ PulseUnderWay'
<1>1. /\ MayCall(wait) /\ pulsed' = e /\ UNCHANGED <<owner, mutantList, waitList>>
  BY DEF KePulseEvent
<1>2. pc = "run" /\ ~crashed
  BY <1>1, ExportCallers DEF PulseInv
<1>3. /\ TypeInvariant /\ ObjectsRight /\ EventsAreBits
      /\ \A q \in Objects : ~(signal[q] > 0 /\ waitList[q] # <<>>)
  BY <1>2, PulseWaits DEF PulseInv, ObjectsRight, NoLostWakeup
<1>4. CASE signal[e] = 0 /\ waitList[e] # <<>>
  <2>1. signal' = [signal EXCEPT ![e] = 1] /\ Call("waittest", e, inc, wait)
    BY <1>4 DEF KePulseEvent
  <2>2. /\ EventsAreBits' /\ MutantsAgree' /\ CountsAreLeft'
        /\ \A q \in Objects \ {e} : signal'[q] = signal[q]
    BY <1>1, <1>3, <2>1, EventStored
  <2>3. pc' = "waittest" /\ frame'.obj = e
    BY <2>1 DEF Call
  <2>4. NoLostWakeup'
    BY <1>1, <1>3, <2>2, <2>3 DEF NoLostWakeup
  <2> QED BY <1>1, <2>2, <2>3, <2>4 DEF ObjectsRight, PulseUnderWay
<1>5. CASE ~(signal[e] = 0 /\ waitList[e] # <<>>)
  <2>1. signal' = signal /\ pc' = "release"
    BY <1>5 DEF KePulseEvent, Call
  <2>2. ObjectsRight' /\ EventsAreBits'
    <3>1. NoLostWakeup'
      BY <1>1, <1>3, <2>1 DEF NoLostWakeup
    <3>2. MutantsAgree' /\ CountsAreLeft'
      BY <1>1, <1>3, <2>1 DEF ObjectsRight, MutantsAgree, CountsAreLeft
    <3> QED BY <1>3, <2>1, <3>1, <3>2 DEF ObjectsRight, EventsAreBits
  <2> QED BY <1>1, <2>1, <2>2 DEF PulseUnderWay
<1> QED BY <1>4, <1>5

\* The reset at the end overlooks nobody.
LEMMA PulseDonePulse ==
    ASSUME PulseInv, PulseDone
    PROVE  ObjectsRight' /\ EventsAreBits' /\ PulseUnderWay'
<1>1. /\ pulsed # NoObject /\ pulsed' = NoObject /\ pc = "release" /\ ~crashed
      /\ signal' = [signal EXCEPT ![pulsed] = 0]
      /\ UNCHANGED <<owner, mutantList, waitList>>
  BY DEF PulseDone
<1>2. PICK e \in Events : e = pulsed
  BY <1>1 DEF PulseInv, ExportsInv, Elsewhere
<1>3. /\ TypeInvariant /\ ObjectsRight /\ EventsAreBits
      /\ \A q \in Objects : ~(signal[q] > 0 /\ waitList[q] # <<>>)
  BY <1>1, PulseWaits DEF PulseInv, ObjectsRight, NoLostWakeup
<1>4. /\ EventsAreBits' /\ MutantsAgree' /\ CountsAreLeft' /\ signal'[e] = 0
      /\ \A q \in Objects \ {e} : signal'[q] = signal[q]
  BY <1>1, <1>2, <1>3, EventStored
<1>5. NoLostWakeup'
  BY <1>1, <1>3, <1>4 DEF NoLostWakeup
<1> QED BY <1>1, <1>4, <1>5 DEF ObjectsRight, PulseUnderWay

\* KeSetEventBoostPriority signals an event nobody waits for, or none.
LEMMA BoostPulse ==
    ASSUME PulseInv, NEW e \in SynchronizationEvents, KeSetEventBoostPriority(e)
    PROVE  ObjectsRight' /\ EventsAreBits' /\ PulseUnderWay'
<1>1. /\ MayCall(FALSE) /\ UNCHANGED <<owner, abandoned, mutantList, waitList, pc, pulsed>>
  BY DEF KeSetEventBoostPriority, Called
<1>2. pc = "run" /\ ~crashed /\ e \in Events
  BY <1>1, ExportCallers DEF PulseInv, Events
<1>3. pulsed = NoObject /\ pulsed' = NoObject
  BY <1>1, <1>2 DEF PulseInv, PulseUnderWay
<1>4. CASE waitList[e] = <<>>
  <2>1. /\ TypeInvariant /\ ObjectsRight /\ EventsAreBits
        /\ \A q \in Objects : ~(signal[q] > 0 /\ waitList[q] # <<>>)
    BY <1>2, PulseWaits DEF PulseInv, ObjectsRight, NoLostWakeup
  <2>2. signal' = [signal EXCEPT ![e] = 1]
    BY <1>4 DEF KeSetEventBoostPriority
  <2>3. /\ EventsAreBits' /\ MutantsAgree' /\ CountsAreLeft'
        /\ \A q \in Objects \ {e} : signal'[q] = signal[q]
    BY <1>1, <1>2, <2>1, <2>2, EventStored
  <2>4. NoLostWakeup'
    BY <1>1, <1>4, <2>1, <2>3 DEF NoLostWakeup
  <2> QED BY <1>3, <2>3, <2>4 DEF ObjectsRight, PulseUnderWay
<1>5. CASE waitList[e] # <<>>
  <2>1. signal' = signal
    BY <1>5 DEF KeSetEventBoostPriority
  <2> QED BY <1>1, <1>2, <1>3, <2>1, QuietPulse
<1> QED BY <1>4, <1>5

\* Nothing of the dispatcher moves once the machine is gone.
LEMMA CoreRuns == Next => ~crashed
<1> SUFFICES ASSUME Next PROVE ~crashed
  OBVIOUS
<1>1. CASE Calls
  BY <1>1 DEF Calls, KeSetEvent, KeResetEvent, KeReleaseSemaphore, KeReleaseMutant,
              KeScheduleThread, KeWaitForSingleObject, KeRaiseIrqlToDpcLevel,
              MayCall, ThreadCalls, ThreadRuns, DpcCalls
<1>2. CASE Continue
  BY <1>2 DEF Continue, KiWaitTest, KiWaitTestDone, ReturnLocked,
              KiUnlockDispatcherDatabase, KiSwapThread, KiAdjustQuantumThread,
              HalpSwIntDpc, KiExecuteDpcQueue, DpcQueueRetired, SwIntQuantumEnd,
              SwIntSwitch, KiIdleLoop, IdleSwitch
<1>3. CASE KfLowerIrql \/ DpcReturns \/ HalpClockIsr \/ KeInsertQueueDpc
  BY <1>3 DEF KfLowerIrql, DpcReturns, HalpClockIsr, KeInsertQueueDpc, ThreadCalls,
              ThreadRuns, DpcCalls
<1> QED BY <1>1, <1>2, <1>3 DEF Next

\* While a pulse is under way only KiWaitTest and interrupts go on.
LEMMA DuringPulse ==
    ASSUME PulseInv, CoreStep, pulsed # NoObject
    PROVE  \/ KiWaitTest \/ KiWaitTestDone
           \/ HalpClockIsr \/ KeInsertQueueDpc
<1>1. pc \in {"waittest", "release"} /\ Next /\ (pc = "release" => pc' = "release")
  BY DEF PulseInv, PulseUnderWay, CoreStep
<1>2. ~Calls /\ ~KfLowerIrql /\ ~DpcReturns
  BY <1>1, Zenon DEF Calls, KeSetEvent, KeResetEvent, KeReleaseSemaphore, KeReleaseMutant,
              KeScheduleThread, KeWaitForSingleObject, KeRaiseIrqlToDpcLevel,
              MayCall, ThreadCalls, ThreadRuns, DpcCalls, KfLowerIrql, DpcReturns
<1>3. Continue => KiWaitTest \/ KiWaitTestDone
  BY <1>1 DEF Continue, ReturnLocked, KiUnlockDispatcherDatabase, KiSwapThread,
              KiAdjustQuantumThread, HalpSwIntDpc, KiExecuteDpcQueue, DpcQueueRetired,
              SwIntQuantumEnd, SwIntSwitch, KiIdleLoop, IdleSwitch
<1> QED BY <1>1, <1>2, <1>3 DEF Next

\* Every step keeps the invariant.
LEMMA NextPulse == PulseInv /\ [ExportsNext]_exportVars => PulseInv'
<1> SUFFICES ASSUME PulseInv, [ExportsNext]_exportVars PROVE PulseInv'
  OBVIOUS
<1>1. ExportsInv'
  BY NextExports DEF PulseInv
<1>2. CASE CoreStep
  <2>1. RefinementInv /\ TypeInvariant /\ Next /\ pulsed' = pulsed
    BY <1>2, CoreRuns, PulseWaits DEF CoreStep
  <2>2. ObjectsRight' /\ EventsAreBits'
    BY <2>1, NextObjects, NextBits DEF RefinementInv
  <2>3. PulseUnderWay'
    <3>1. CASE pulsed = NoObject
      BY <2>1, <3>1 DEF PulseUnderWay
    <3>2. CASE pulsed # NoObject
      <4>1. \/ KiWaitTest \/ KiWaitTestDone \/ HalpClockIsr \/ KeInsertQueueDpc
        BY <1>2, <3>2, DuringPulse
      <4>2. \/ pc' = pc /\ frame' = frame
            \/ pc' = "release"
        BY <4>1 DEF KiWaitTest, KiWaitTestDone, HalpClockIsr, KeInsertQueueDpc
      <4> QED BY <2>1, <4>2 DEF PulseInv, PulseUnderWay
    <3> QED BY <3>1, <3>2
  <2> QED BY <1>1, <2>2, <2>3 DEF PulseInv
<1>3. CASE \/ \E t \in Threads, p \in NewPriorities : KeSetPriorityThread(t, p)
           \/ \E t \in Threads, inc \in Increments : KeBoostPriorityThread(t, inc)
           \/ \E t \in Threads, inc \in BaseIncrements : KeSetBasePriorityThread(t, inc)
           \/ NtYieldExecution
  <2>1. UNCHANGED <<objectVars, waitList, pulsed>> /\ pc = "run"
    BY <1>3, QuietExports DEF PulseInv
  <2>2. pulsed = NoObject
    BY <2>1 DEF PulseInv, PulseUnderWay
  <2> QED BY <1>1, <2>1, <2>2, QuietPulse DEF PulseInv
<1>4. CASE \/ \E e \in Events, inc \in Increments, wait \in BOOLEAN :
                  KePulseEvent(e, inc, wait)
           \/ \E e \in SynchronizationEvents : KeSetEventBoostPriority(e)
  BY <1>1, <1>4, PulsePulse, BoostPulse DEF PulseInv
<1>5. CASE YieldSwap
  <2>1. UNCHANGED <<objectVars, waitList, pulsed>> /\ pc = "yield"
    BY <1>5 DEF YieldSwap
  <2>2. pulsed = NoObject
    BY <2>1 DEF PulseInv, PulseUnderWay
  <2> QED BY <1>1, <2>1, <2>2, QuietPulse DEF PulseInv
<1>6. CASE PulseDone
  BY <1>1, <1>6, PulseDonePulse DEF PulseInv
<1>7. CASE UNCHANGED exportVars
  <2>1. UNCHANGED <<objectVars, waitList, pulsed, pc, frame>>
    BY <1>7 DEF exportVars, vars
  <2>2. ObjectsRight' /\ EventsAreBits' /\ PulseUnderWay'
    BY <2>1, ObjectsUntouched DEF PulseInv, EventsAreBits, PulseUnderWay
  <2> QED BY <1>1, <2>2 DEF PulseInv
<1> QED BY <1>2, <1>3, <1>4, <1>5, <1>6, <1>7 DEF ExportsNext, ExportCalls

-----------------------------------------------------------------------------
(* The pulse seen from outside.                                             *)

PulseUnseen == UNCHANGED PulseSeen!vars

\* Without a pulse there is nothing to hide.
LEMMA NoPulseSeen ==
    ASSUME pulsed = NoObject
    PROVE  SignalPulsed = SignalSeen
<1>1. \A o \in Objects : o # pulsed
  BY ObjectsAssumption
<1> QED BY <1>1 DEF SignalPulsed, SignalSeen

\* After a step.
LEMMA NoPulseSeenNext == pulsed' = NoObject => SignalPulsed' = SignalSeen'
<1> SUFFICES ASSUME pulsed' = NoObject PROVE SignalPulsed' = SignalSeen'
  OBVIOUS
<1>1. \A o \in Objects : o # pulsed'
  BY ObjectsAssumption
<1> QED BY <1>1 DEF SignalPulsed, SignalSeen

\* Then what SyncObjects says of the one mapping it says of the other.
LEMMA SameSteps ==
    ASSUME SignalPulsed = SignalSeen, SignalPulsed' = SignalSeen'
    PROVE  Abstract!Next => PulseSeen!Next
<1>1. /\ \A e : Abstract!SetNotification(e) => PulseSeen!SetNotification(e)
      /\ \A e : Abstract!SetSynchronization(e) => PulseSeen!SetSynchronization(e)
  BY DEF Abstract!SetNotification, PulseSeen!SetNotification,
         Abstract!SetSynchronization, PulseSeen!SetSynchronization,
         Abstract!Leave, PulseSeen!Leave
<1>2. /\ \A e : Abstract!Pulse(e) => PulseSeen!Pulse(e)
      /\ \A e : Abstract!Reset(e) => PulseSeen!Reset(e)
      /\ \A e : Abstract!TakeEvent(e) => PulseSeen!TakeEvent(e)
  BY DEF Abstract!Pulse, PulseSeen!Pulse, Abstract!Reset, PulseSeen!Reset,
         Abstract!TakeEvent, PulseSeen!TakeEvent, Abstract!Leave, PulseSeen!Leave
<1>3. /\ \A s : Abstract!TakeSemaphore(s) => PulseSeen!TakeSemaphore(s)
      /\ \A s, n : Abstract!ReleaseSemaphore(s, n) => PulseSeen!ReleaseSemaphore(s, n)
  BY DEF Abstract!TakeSemaphore, PulseSeen!TakeSemaphore, Abstract!ReleaseSemaphore,
         PulseSeen!ReleaseSemaphore, Abstract!Leave, PulseSeen!Leave
<1>4. /\ \A m : Abstract!ReleaseOneLevel(m) => PulseSeen!ReleaseOneLevel(m)
      /\ \A m, abandon : Abstract!ReleaseMutant(m, abandon)
                             => PulseSeen!ReleaseMutant(m, abandon)
  BY DEF Abstract!ReleaseOneLevel, PulseSeen!ReleaseOneLevel, Abstract!ReleaseMutant,
         PulseSeen!ReleaseMutant, Abstract!Leave, PulseSeen!Leave
<1>5. \A m, t : Abstract!TakeMutant(m, t) => PulseSeen!TakeMutant(m, t)
  BY DEF Abstract!TakeMutant, PulseSeen!TakeMutant
<1>6. \A o, t : Abstract!Block(o, t) => PulseSeen!Block(o, t)
  BY DEF Abstract!Block, PulseSeen!Block, Abstract!Waits, PulseSeen!Waits,
         Abstract!Objects, PulseSeen!Objects
<1> QED BY <1>1, <1>2, <1>3, <1>4, <1>5, <1>6
        DEF Abstract!Next, PulseSeen!Next, Abstract!Objects, PulseSeen!Objects

\* What is hidden from one is hidden from the other, while the same pulse goes on.
LEMMA UnseenIsUnseen ==
    ASSUME Unseen, pulsed' = pulsed
    PROVE  PulseUnseen
BY DEF Unseen, PulseUnseen, Abstract!vars, PulseSeen!vars, SignalPulsed

\* The dispatcher's own steps.
LEMMA CoreStepSeen ==
    ASSUME PulseInv, CoreStep
    PROVE  PulseSeen!Next \/ PulseUnseen
<1>1. /\ RefinementInv /\ WaitsRight /\ TypeInvariant /\ TypeInvariant' /\ EventsAreBits
      /\ Next /\ pulsed' = pulsed
  <2>1. RefinementInv /\ TypeInvariant /\ Next /\ pulsed' = pulsed
    BY CoreRuns, PulseWaits DEF CoreStep
  <2> QED BY <2>1, NextTypes DEF RefinementInv
<1>2. CASE pulsed = NoObject
  <2>1. Abstract!Next \/ Unseen
    BY <1>1, NextSeen DEF Unseen
  <2>2. SignalPulsed = SignalSeen /\ SignalPulsed' = SignalSeen'
    BY <1>1, <1>2, NoPulseSeen, NoPulseSeenNext
  <2> QED BY <1>1, <2>1, <2>2, SameSteps, UnseenIsUnseen
<1>3. CASE pulsed # NoObject
  <2>1. KiWaitTest \/ KiWaitTestDone \/ HalpClockIsr \/ KeInsertQueueDpc
    BY <1>3, DuringPulse
  <2>2. CASE HalpClockIsr \/ KeInsertQueueDpc
    <3>1. Unseen
      BY <2>2, SameUnseen DEF HalpClockIsr, KeInsertQueueDpc
    <3> QED BY <1>1, <3>1, UnseenIsUnseen
  <2>3. CASE KiWaitTest \/ KiWaitTestDone
    <3>1. Unseen
      BY <1>1, <2>3, KiWaitTestUnseen, KiWaitTestDoneUnseen
    <3> QED BY <1>1, <3>1, UnseenIsUnseen
  <2> QED BY <2>1, <2>2, <2>3
<1> QED BY <1>2, <1>3

\* KePulseEvent lets through who waits, in the step that begins it.
LEMMA KePulseEventSeen ==
    ASSUME PulseInv, PulseInv', NEW e \in Events, NEW inc \in Increments,
           NEW wait \in BOOLEAN, KePulseEvent(e, inc, wait)
    PROVE  PulseSeen!Pulse(e)
<1>1. /\ MayCall(wait) /\ pulsed' = e /\ UNCHANGED <<owner, abandoned, waitList>>
      /\ \/ /\ signal[e] = 0 /\ waitList[e] # <<>>
            /\ signal' = [signal EXCEPT ![e] = 1] /\ Call("waittest", e, inc, wait)
         \/ /\ ~(signal[e] = 0 /\ waitList[e] # <<>>)
            /\ signal' = signal /\ Call("release", NoObject, 0, wait)
      /\ crashed' = crashed
  BY DEF KePulseEvent
<1>2. pc = "run" /\ ~crashed /\ pulsed = NoObject
  BY <1>1, ExportCallers DEF PulseInv, PulseUnderWay
<1>3. WaitsRight /\ EventsAreBits /\ TypeInvariant /\ TypeInvariant'
  <2>1. pc' # "yield"
    BY <1>1 DEF Call
  <2>2. (pc # "yield" /\ ExportsInv => TypeInvariant)'
    BY ExportsTypes, PTL
  <2> QED BY <1>2, <2>1, <2>2, PulseWaits DEF RefinementInv, PulseInv
<1>4. /\ SeenAsItIs /\ SignalPulsed = SignalSeen
      /\ signal \in [Objects -> Int] /\ waitList \in [Objects -> Seq(Threads)]
      /\ e \in Objects /\ e \notin Mutants
      /\ signal[e] \in {0, 1} /\ waitList[e] \in Seq(Threads)
  <2>1. e \in Objects /\ e \notin Mutants
    BY ObjectsAssumption DEF Objects
  <2> QED BY <1>2, <1>3, <2>1, SeenByCallers, NoPulseSeen DEF EventsAreBits
<1>5. ASSUME NEW sig, SignalSeen' = sig, sig \in [Objects -> Int],
             \A o \in Objects \ {e} : sig[o] = signal[o]
      PROVE  SignalPulsed' = [SignalPulsed EXCEPT ![e] = 0]
  BY <1>1, <1>4, <1>5 DEF SignalPulsed, SeenAsItIs
<1>6. CASE ~(signal[e] = 0 /\ waitList[e] # <<>>)
  <2>1. signal' = signal /\ pc' # "waittest"
    BY <1>1, <1>6 DEF Call
  <2>2. /\ SignalSeen' = signal /\ WaitersSeen' = WaitersSeen
        /\ OwnerSeen' = OwnerSeen /\ AbandonedSeen' = AbandonedSeen
    BY <1>1, <1>3, <1>4, <2>1, SeenOnReturn DEF SeenAsItIs
  <2>3. SignalPulsed' = [SignalPulsed EXCEPT ![e] = 0]
    BY <1>4, <1>5, <2>2
  <2>4. \/ SignalPulsed[e] # 0
        \/ SignalPulsed[e] = 0 /\ WaitersSeen[e] = <<>>
    BY <1>4, <1>6 DEF SeenAsItIs
  <2>5. ASSUME WaitersSeen[e] = <<>>
        PROVE  WaitersSeen' = [WaitersSeen EXCEPT ![e] =
                                  SubSeq(@, Len(@) + 1, Len(@))]
    <3>1. SubSeq(<<>>, Len(<<>>) + 1, Len(<<>>)) = <<>>
      OBVIOUS
    <3> QED BY <1>4, <2>2, <2>5, <3>1 DEF SeenAsItIs
  <2> QED BY <2>2, <2>3, <2>4, <2>5 DEF PulseSeen!Pulse, PulseSeen!Leave, Events
<1>7. CASE signal[e] = 0 /\ waitList[e] # <<>>
  <2>1. /\ pc' = "waittest" /\ frame'.obj = e /\ signal'[e] = 1
        /\ waitList'[e] = waitList[e] /\ signal' = [signal EXCEPT ![e] = 1]
    BY <1>1, <1>4, <1>7 DEF Call
  <2>2. PICK n \in Nat : n = Len(waitList[e]) /\ n > 0
    BY <1>4, <1>7, TailOfList
  <2>3. PICK k \in Nat : k = Releasing(e)' /\ k > 0
                         /\ k = IF e \in NotificationEvents THEN n ELSE 1
    <3>1. Releasing(e)' = IF e \in NotificationEvents THEN n
                          ELSE IF 1 < n THEN 1 ELSE n
      BY <2>1, <2>2 DEF Releasing
    <3>2. (IF 1 < n THEN 1 ELSE n) = 1
      <4>1. \A j \in Nat : j > 0 => 1 < j \/ j = 1
        OBVIOUS
      <4>2. 1 < n \/ n = 1
        BY <2>2, <4>1
      <4> QED BY <4>2
    <3> QED BY <2>2, <3>1, <3>2
  <2>4. /\ SignalSeen' = [signal' EXCEPT ![e] = IF e \in NotificationEvents
                              THEN signal'[e] ELSE signal'[e] - k]
        /\ WaitersSeen' = [waitList EXCEPT ![e] = SubSeq(waitList[e], k + 1, n)]
        /\ OwnerSeen' = [owner EXCEPT ![e] = Head(waitList[e])]
        /\ AbandonedSeen' = [abandoned EXCEPT ![e] = FALSE]
    BY <1>1, <1>3, <1>4, <2>1, <2>2, <2>3, SeenOnRelease
  <2>5. OwnerSeen' = OwnerSeen /\ AbandonedSeen' = AbandonedSeen
    BY <1>3, <1>4, <2>4, OthersHaveNoOwner DEF SeenAsItIs
  <2>6. SignalPulsed' = [SignalPulsed EXCEPT ![e] = 0]
    <3> DEFINE S == IF e \in NotificationEvents
                       THEN signal'[e] ELSE signal'[e] - k
               sig == [signal' EXCEPT ![e] = S]
    <3>1. SignalSeen' = sig
      BY <2>4
    <3>2. /\ signal' = [signal EXCEPT ![e] = 1] /\ signal'[e] = 1
          /\ signal \in [Objects -> Int] /\ e \in Objects
      BY <1>4, <2>1
    <3>3. S \in Int
      BY <3>2
    <3> HIDE DEF S
    <3>4. sig \in [Objects -> Int] /\ \A o \in Objects \ {e} : sig[o] = signal[o]
      BY <3>2, <3>3
    <3> HIDE DEF sig
    <3> QED BY <1>5, <3>1, <3>4
  <2>7. SignalPulsed[e] = 0 /\ WaitersSeen[e] = waitList[e]
    BY <1>4, <1>7 DEF SeenAsItIs
  <2>8. CASE e \in NotificationEvents
    <3>1. WaitersSeen' = [WaitersSeen EXCEPT ![e] = SubSeq(WaitersSeen[e],
                              Len(WaitersSeen[e]) + 1, Len(WaitersSeen[e]))]
      BY <1>4, <2>2, <2>3, <2>4, <2>8 DEF SeenAsItIs
    <3> QED BY <2>5, <2>6, <2>7, <2>8, <3>1 DEF PulseSeen!Pulse, PulseSeen!Leave
  <2>9. CASE e \notin NotificationEvents
    <3>1. WaitersSeen' = [WaitersSeen EXCEPT ![e] = SubSeq(WaitersSeen[e],
                              1 + 1, Len(WaitersSeen[e]))]
      BY <1>4, <2>2, <2>3, <2>4, <2>9 DEF SeenAsItIs
    <3>2. e \in SynchronizationEvents /\ WaitersSeen[e] # <<>>
      BY <1>7, <2>7, <2>9 DEF Events
    <3> QED BY <2>5, <2>6, <2>7, <3>1, <3>2 DEF PulseSeen!Pulse, PulseSeen!Leave
  <2> QED BY <2>8, <2>9
<1> QED BY <1>6, <1>7

\* The reset at the end is what everybody has seen all along.
LEMMA PulseDoneSeen ==
    ASSUME PulseInv, PulseDone
    PROVE  PulseUnseen
<1>1. /\ pc = "release" /\ pc' = "run" /\ ~crashed /\ pulsed' = NoObject
      /\ pulsed # NoObject
      /\ signal' = [signal EXCEPT ![pulsed] = 0]
      /\ UNCHANGED <<owner, abandoned, waitList>>
  BY DEF PulseDone
<1>2. \A o : Releasing(o) = 0 /\ Releasing(o)' = 0
  BY <1>1 DEF Releasing
<1>3. UNCHANGED <<WaitersSeen, OwnerSeen, AbandonedSeen>>
  BY <1>1, <1>2 DEF WaitersSeen, OwnerSeen, AbandonedSeen
<1>4. /\ signal \in [Objects -> Int] /\ pulsed \in Objects
      /\ signal'[pulsed] = 0 /\ \A o \in Objects \ {pulsed} : signal'[o] = signal[o]
      /\ signal' \in [Objects -> Int]
  <2>1. signal \in [Objects -> Int] /\ pulsed \in Objects
    BY <1>1 DEF PulseInv, ExportsInv, Elsewhere, Objects
  <2> QED BY <1>1, <2>1
<1>5. ASSUME NEW o \in Objects
      PROVE  /\ SignalSeen[o] = signal[o] /\ SignalSeen'[o] = signal'[o]
  <2>1. signal[o] \in Int /\ signal'[o] \in Int
    BY <1>4
  <2> QED BY <1>2, <2>1 DEF SignalSeen
<1>6. \A o \in Objects : SignalPulsed'[o] = SignalPulsed[o]
  <2> TAKE o \in Objects
  <2>1. pulsed' # o
    BY <1>1, ObjectsAssumption
  <2>2. SignalPulsed'[o] = signal'[o]
    BY <1>5, <2>1 DEF SignalPulsed
  <2>3. SignalPulsed[o] = IF o = pulsed THEN 0 ELSE signal[o]
    BY <1>5 DEF SignalPulsed
  <2> QED BY <1>4, <2>2, <2>3
<1>7. SignalPulsed' = SignalPulsed
  BY <1>6 DEF SignalPulsed
<1> QED BY <1>3, <1>7 DEF PulseUnseen, PulseSeen!vars

\* KeSetEventBoostPriority sets an event nobody waits for.
LEMMA BoostSeen ==
    ASSUME PulseInv, NEW e \in SynchronizationEvents, KeSetEventBoostPriority(e)
    PROVE  PulseSeen!Next \/ PulseUnseen
<1>1. /\ MayCall(FALSE) /\ UNCHANGED <<owner, abandoned, waitList, pc, frame, pulsed>>
  BY DEF KeSetEventBoostPriority, Called
<1>2. pc = "run" /\ ~crashed /\ e \in Events
  BY <1>1, ExportCallers DEF PulseInv, Events
<1>3. pulsed = NoObject /\ pulsed' = NoObject
  BY <1>1, <1>2 DEF PulseInv, PulseUnderWay
<1>4. CASE waitList[e] = <<>>
  <2>1. WaitsRight /\ signal' = [signal EXCEPT ![e] = 1]
    BY <1>2, <1>4, PulseWaits DEF KeSetEventBoostPriority, RefinementInv
  <2>2. /\ SeenAsItIs /\ signal \in [Objects -> Int] /\ e \in Objects
        /\ SignalPulsed = SignalSeen /\ SignalPulsed' = SignalSeen'
    BY <1>2, <1>3, <2>1, SeenByCallers, NoPulseSeen, NoPulseSeenNext DEF Objects
  <2>3. \A o : Releasing(o) = 0 /\ Releasing(o)' = 0
    BY <1>1, <1>2 DEF Releasing
  <2>4. UNCHANGED <<WaitersSeen, OwnerSeen, AbandonedSeen>>
    BY <1>1, <2>3 DEF WaitersSeen, OwnerSeen, AbandonedSeen
  <2>5. SignalSeen' = signal'
    <3>1. signal' \in [Objects -> Int]
      BY <2>1, <2>2
    <3> QED BY <2>3, <3>1 DEF SignalSeen
  <2>6. SignalPulsed' = [SignalPulsed EXCEPT ![e] = 1] /\ WaitersSeen[e] = <<>>
    BY <1>4, <2>1, <2>2, <2>5 DEF SeenAsItIs
  <2> QED BY <2>4, <2>6 DEF PulseSeen!Next, PulseSeen!SetSynchronization
<1>5. CASE waitList[e] # <<>>
  <2>1. signal' = signal
    BY <1>5 DEF KeSetEventBoostPriority
  <2> QED BY <1>1, <1>2, <2>1, RestUnseen, UnseenIsUnseen
<1> QED BY <1>4, <1>5

\* At the start.
LEMMA InitPulseSeen == ExportsInit => PulseSeen!Init
<1> SUFFICES ASSUME ExportsInit PROVE PulseSeen!Init
  OBVIOUS
<1>1. Abstract!Init /\ SignalPulsed = SignalSeen
  BY InitSeen, NoPulseSeen DEF ExportsInit
<1> QED BY <1>1 DEF Abstract!Init, PulseSeen!Init, Abstract!Objects, PulseSeen!Objects

\* Every step is one of the objects, a pulse among them, or nobody sees it.
LEMMA NextPulseSeen ==
    PulseInv /\ PulseInv' /\ [ExportsNext]_exportVars => [PulseSeen!Next]_PulseSeen!vars
<1> SUFFICES ASSUME PulseInv, PulseInv', [ExportsNext]_exportVars
             PROVE  PulseSeen!Next \/ PulseUnseen
  BY DEF PulseUnseen
<1>1. CASE CoreStep
  BY <1>1, CoreStepSeen
<1>2. CASE \/ \E t \in Threads, p \in NewPriorities : KeSetPriorityThread(t, p)
           \/ \E t \in Threads, inc \in Increments : KeBoostPriorityThread(t, inc)
           \/ \E t \in Threads, inc \in BaseIncrements : KeSetBasePriorityThread(t, inc)
           \/ NtYieldExecution
  BY <1>2, QuietExports, RestUnseen, UnseenIsUnseen DEF PulseInv
<1>3. ASSUME NEW e \in Events, NEW inc \in Increments, NEW wait \in BOOLEAN,
             KePulseEvent(e, inc, wait)
      PROVE  PulseSeen!Next
  BY <1>3, KePulseEventSeen DEF PulseSeen!Next, Events
<1>4. CASE \E e \in SynchronizationEvents : KeSetEventBoostPriority(e)
  BY <1>4, BoostSeen
<1>5. CASE YieldSwap
  <2>1. /\ UNCHANGED <<signal, waitList, owner, abandoned, pulsed>>
        /\ pc = "yield" /\ pc' = "run"
    BY <1>5 DEF YieldSwap
  <2> QED BY <2>1, RestUnseen, UnseenIsUnseen
<1>6. CASE PulseDone
  BY <1>6, PulseDoneSeen
<1>7. CASE UNCHANGED exportVars
  <2>1. UNCHANGED <<signal, waitList, owner, abandoned, pc, frame, pulsed>>
    BY <1>7 DEF exportVars, vars
  <2> QED BY <2>1, SameUnseen, UnseenIsUnseen
<1> QED BY <1>1, <1>2, <1>3, <1>4, <1>5, <1>6, <1>7 DEF ExportsNext, ExportCalls

\* A pulse is atomic: KePulseEvent sets the event, releases the waiters one by
\* one between interrupts and resets it, and all that threads see is that those
\* who waited when it was called go on, all or the first, and nobody else does.
THEOREM PulsesAreAtomic == ExportsSpec => PulseIsAtomic
<1>1. ExportsSpec => []PulseInv
  BY InitPulse, NextPulse, PTL DEF ExportsSpec
<1>2. PulseInv /\ PulseInv' /\ [ExportsNext]_exportVars
          => [PulseSeen!Next]_PulseSeen!vars
  BY NextPulseSeen
<1> QED BY <1>1, <1>2, InitPulseSeen, PTL DEF ExportsSpec, PulseIsAtomic, PulseSeen!Spec
=============================================================================
