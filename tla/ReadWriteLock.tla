---------------------------- MODULE ReadWriteLock ----------------------------
(***************************************************************************)
(* ERWLOCK (src/nboxkrnl/ex/rwlock.cpp): a lock shared by readers or held  *)
(* by one writer, made of four counters, an event for the writers and a    *)
(* semaphore for the readers.  Each routine changes the counters with      *)
(* interrupts off, which is one step, and waits or releases after they are *)
(* on again, which is another: anything may happen in between.             *)
(*                                                                         *)
(* The semaphore behaves as SyncObjects says, which is what the dispatcher *)
(* database implements, and so does the event except where KeSetEvent      *)
(* finds a writer asleep: what it takes for the WaitType of that thread's  *)
(* wait block is the upper half of a pointer in ReaderSemaphore, the next  *)
(* field of the lock (ke/event.cpp:165, ex/ex.hpp:132), never 0.  So it    *)
(* never hands the event over but unwaits a thread that is none, and the   *)
(* machine is down.                                                        *)
(***************************************************************************)
EXTENDS Integers, Sequences, FiniteSets

CONSTANTS
    Threads,
    NoThread,                     \* SyncObjects' null owner
    WriterEvent, ReaderSemaphore, \* the lock's KEVENT and KSEMAPHORE
    MaxShares,                    \* bound: how often a thread nests a shared hold
    MaxLong                       \* MAXLONG, the semaphore's limit

ASSUME LockAssumption ==
    /\ WriterEvent # ReaderSemaphore
    /\ MaxShares \in Nat \ {0}
    /\ MaxLong \in Nat \ {0}

VARIABLES
    lockCount,            \* LockCount: holders and waiters, minus one
    writersWaitingCount, readersWaitingCount, readersEntryCount,
    signal, waiters,      \* the event and the semaphore
    pc,                   \* where each thread is in a routine; "call": in none
    permits,              \* OriReadersWaiting of a thread in a release
    writer,               \* the threads that hold the lock exclusively
    shares,               \* how many shared holds each thread has
    crashed               \* KeSetEvent has unwaited something that is no thread

counters == <<lockCount, writersWaitingCount, readersWaitingCount, readersEntryCount>>
objectVars == <<signal, waiters>>
holds == <<writer, shares>>
rwVars == <<counters, objectVars, pc, permits, holds, crashed>>

LockObjects == INSTANCE SyncObjects WITH
    NotificationEvents <- {}, SynchronizationEvents <- {WriterEvent},
    Semaphores <- {ReaderSemaphore}, Mutants <- {},
    SemaphoreLimit <- MaxLong, MutantLimit <- 0,
    owner <- <<>>, abandoned <- <<>>

\* ExInitializeReadWriteLock
Init ==
    /\ lockCount = -1
    /\ writersWaitingCount = 0 /\ readersWaitingCount = 0 /\ readersEntryCount = 0
    /\ signal = [o \in {WriterEvent, ReaderSemaphore} |-> 0]
    /\ waiters = [o \in {WriterEvent, ReaderSemaphore} |-> <<>>]
    /\ pc = [t \in Threads |-> "call"]
    /\ permits = [t \in Threads |-> 0]
    /\ writer = {}
    /\ shares = [t \in Threads |-> 0]
    /\ crashed = FALSE

\* A step of a thread, which there is only while the machine runs.
Goto(t, from, to) ==
    /\ pc[t] = from /\ pc' = [pc EXCEPT ![t] = to]
    /\ ~crashed /\ UNCHANGED crashed

HoldExclusive(t) == writer' = writer \union {t} /\ UNCHANGED shares
HoldShared(t) == shares' = [shares EXCEPT ![t] = @ + 1] /\ UNCHANGED writer

-----------------------------------------------------------------------------
(* Acquiring.                                                               *)

\* The first claim on the lock has it, any other waits for the event.
ExAcquireReadWriteLockExclusive(t) ==
    /\ t \notin writer /\ shares[t] = 0
    /\ lockCount' = lockCount + 1
    /\ \/ lockCount = -1 /\ Goto(t, "call", "call") /\ HoldExclusive(t)
          /\ UNCHANGED writersWaitingCount
       \/ lockCount # -1 /\ Goto(t, "call", "waitwriter") /\ UNCHANGED holds
          /\ writersWaitingCount' = writersWaitingCount + 1
    /\ UNCHANGED <<readersWaitingCount, readersEntryCount, objectVars, permits>>

\* Mutant: a queued writer does not make a reader wait.
MustWaitOnActiveWrite == readersEntryCount = 0

MustWait == \/ readersEntryCount = 0                              \* an active writer
            \/ readersEntryCount # 0 /\ writersWaitingCount # 0   \* a queued one

ExAcquireReadWriteLockShared(t) ==
    /\ t \notin writer /\ shares[t] < MaxShares
    /\ lockCount' = lockCount + 1
    /\ LET waits == lockCount # -1 /\ MustWait IN
       \/ ~waits /\ Goto(t, "call", "call") /\ HoldShared(t)
          /\ readersEntryCount' = readersEntryCount + 1
          /\ UNCHANGED readersWaitingCount
       \/ waits /\ Goto(t, "call", "waitreader") /\ UNCHANGED holds
          /\ readersWaitingCount' = readersWaitingCount + 1
          /\ UNCHANGED readersEntryCount
    /\ UNCHANGED <<writersWaitingCount, objectVars, permits>>

\* KeWaitForSingleObject: the object is signalled, or the thread blocks.
WaitForWriterEvent(t) ==
    /\ \/ /\ Goto(t, "waitwriter", "call")
          /\ LockObjects!TakeEvent(WriterEvent) /\ HoldExclusive(t)
       \/ /\ Goto(t, "waitwriter", "blockedwriter")
          /\ LockObjects!Block(WriterEvent, t) /\ UNCHANGED holds
    /\ UNCHANGED <<counters, permits>>

WaitForReaderSemaphore(t) ==
    /\ \/ /\ Goto(t, "waitreader", "call")
          /\ LockObjects!TakeSemaphore(ReaderSemaphore) /\ HoldShared(t)
       \/ /\ Goto(t, "waitreader", "blockedreader")
          /\ LockObjects!Block(ReaderSemaphore, t) /\ UNCHANGED holds
    /\ UNCHANGED <<counters, permits>>

\* A permit of the semaphore was handed to the thread; the event never is.
WaitReturns(t) ==
    /\ ~LockObjects!Waits(t)
    /\ Goto(t, "blockedreader", "call") /\ HoldShared(t)
    /\ UNCHANGED <<counters, objectVars, permits>>

-----------------------------------------------------------------------------
(* Releasing: the last claim goes; or a writer lets in all waiting readers; *)
(* or a reader leaves others behind; or the next writer is let in.          *)

ReleaseLast(t) ==
    /\ lockCount = 0
    /\ readersEntryCount' = 0
    /\ Goto(t, "call", "call")
    /\ UNCHANGED <<writersWaitingCount, readersWaitingCount, permits>>

\* Mutant: the readers that are let in are not entered in ReadersEntryCount.
ReleaseForgetsEntries(t) ==
    /\ lockCount # 0 /\ readersEntryCount = 0 /\ readersWaitingCount # 0
    /\ permits' = [permits EXCEPT ![t] = readersWaitingCount]
    /\ readersEntryCount' = 1
    /\ readersWaitingCount' = 0
    /\ Goto(t, "call", "releasesemaphore")
    /\ UNCHANGED writersWaitingCount

ReleaseToReaders(t) ==
    /\ lockCount # 0 /\ readersEntryCount = 0 /\ readersWaitingCount # 0
    /\ permits' = [permits EXCEPT ![t] = readersWaitingCount]
    /\ readersEntryCount' = readersWaitingCount
    /\ readersWaitingCount' = 0
    /\ Goto(t, "call", "releasesemaphore")
    /\ UNCHANGED writersWaitingCount

ReleaseAmongReaders(t) ==
    /\ lockCount # 0 /\ readersEntryCount > 1
    /\ readersEntryCount' = readersEntryCount - 1
    /\ Goto(t, "call", "call")
    /\ UNCHANGED <<writersWaitingCount, readersWaitingCount, permits>>

\* Mutant: the writer let in is still counted as waiting.
ReleaseKeepsWriterCount(t) ==
    /\ lockCount # 0
    /\ \/ readersEntryCount = 0 /\ readersWaitingCount = 0 /\ UNCHANGED readersEntryCount
       \/ readersEntryCount = 1 /\ readersEntryCount' = 0
    /\ Goto(t, "call", "setevent")
    /\ UNCHANGED <<writersWaitingCount, readersWaitingCount, permits>>

ReleaseToWriter(t) ==
    /\ lockCount # 0
    /\ \/ readersEntryCount = 0 /\ readersWaitingCount = 0 /\ UNCHANGED readersEntryCount
       \/ readersEntryCount = 1 /\ readersEntryCount' = 0
    /\ writersWaitingCount' = writersWaitingCount - 1
    /\ Goto(t, "call", "setevent")
    /\ UNCHANGED <<readersWaitingCount, permits>>

ExReleaseReadWriteLock(t) ==
    /\ \/ t \in writer /\ writer' = writer \ {t} /\ UNCHANGED shares
       \/ shares[t] > 0 /\ shares' = [shares EXCEPT ![t] = @ - 1] /\ UNCHANGED writer
    /\ lockCount' = lockCount - 1
    /\ \/ ReleaseLast(t) \/ ReleaseToReaders(t)
       \/ ReleaseAmongReaders(t) \/ ReleaseToWriter(t)
    /\ UNCHANGED objectVars

ReleaseReaders(t) ==
    /\ Goto(t, "releasesemaphore", "call")
    /\ LockObjects!ReleaseSemaphore(ReaderSemaphore, permits[t])
    /\ permits' = [permits EXCEPT ![t] = 0]
    /\ UNCHANGED <<counters, holds>>

\* The writer to be let in has not blocked yet: it will find the event
\* signalled.
SetWriterEvent(t) ==
    /\ Goto(t, "setevent", "call")
    /\ waiters[WriterEvent] = <<>>
    /\ LockObjects!SetSynchronization(WriterEvent)
    /\ UNCHANGED <<counters, permits, holds>>

\* A writer sleeps: KeSetEvent unwaits something that is no thread.
SetEventOfSleepers(t) ==
    /\ pc[t] = "setevent" /\ waiters[WriterEvent] # <<>>
    /\ ~crashed /\ crashed' = TRUE
    /\ UNCHANGED <<counters, objectVars, pc, permits, holds>>

-----------------------------------------------------------------------------
Acquire(t) == ExAcquireReadWriteLockExclusive(t) \/ ExAcquireReadWriteLockShared(t)

\* The rest of a routine, once its counters are changed.
Proceed(t) == \/ WaitForWriterEvent(t) \/ WaitForReaderSemaphore(t)
              \/ WaitReturns(t) \/ ReleaseReaders(t)
              \/ SetWriterEvent(t) \/ SetEventOfSleepers(t)

Next == \E t \in Threads : Acquire(t) \/ ExReleaseReadWriteLock(t) \/ Proceed(t)

Spec == Init /\ [][Next]_rwVars

\* The scheduler gives every thread a turn, and who has the lock releases it.
FairSpec == Spec /\ \A t \in Threads : /\ WF_rwVars(Proceed(t))
                                       /\ WF_rwVars(ExReleaseReadWriteLock(t))

-----------------------------------------------------------------------------
PcValues == {"call", "waitwriter", "blockedwriter", "waitreader",
             "blockedreader", "setevent", "releasesemaphore"}

TypeOK ==
    /\ lockCount \in Nat \union {-1}
    /\ writersWaitingCount \in Nat
    /\ readersWaitingCount \in Nat
    /\ readersEntryCount \in Nat
    /\ signal \in [{WriterEvent, ReaderSemaphore} -> Nat]
    /\ waiters \in [{WriterEvent, ReaderSemaphore} -> Seq(Threads)]
    /\ pc \in [Threads -> PcValues]
    /\ permits \in [Threads -> Nat]
    /\ writer \subseteq Threads
    /\ shares \in [Threads -> Nat]
    /\ crashed \in BOOLEAN

\* Who has the lock, the readers it has been handed to in their sleep included.
Writes(t) == t \in writer
Reads(t) == shares[t] > 0 \/ (pc[t] = "blockedreader" /\ ~LockObjects!Waits(t))

\* A writer is alone with the lock, although counters and objects change in
\* separate steps and a late comer can take a permit meant for another.
Exclusion ==
    /\ TypeOK
    /\ \A t, u \in Threads : Writes(t) /\ (Writes(u) \/ Reads(u)) => t = u /\ ~Reads(t)

\* An object is on its way to a thread that waits for it or is about to: it is
\* about to be released, or has been.
InFlight(o, releasing, waiting, blocked) ==
    \/ /\ \E t \in Threads : pc[t] = releasing
       /\ \E t \in Threads : pc[t] \in {waiting, blocked}
    \/ signal[o] > 0 /\ \E t \in Threads : pc[t] = waiting

\* Nobody sleeps for a lock that nobody has or is about to be given: a
\* release that misjudges from the counters whom to let in leaves a sleeper
\* that no call is ever made for.  (Of a sleeping writer this says that
\* somebody is about to call KeSetEvent for it, not that it will wake up.)
NotForgotten ==
    (\E t \in Threads : LockObjects!Waits(t)) =>
        \/ \E t \in Threads : Writes(t) \/ Reads(t)
        \/ InFlight(WriterEvent, "setevent", "waitwriter", "blockedwriter")
        \/ InFlight(ReaderSemaphore, "releasesemaphore", "waitreader", "blockedreader")

\* A reader that nests behind a queued writer waits for itself.
WaitsForItself(t) == shares[t] > 0 /\ pc[t] \in {"waitreader", "blockedreader"}

\* Readers cannot starve the writers nor writers the readers: unless some
\* thread waits for itself, the turn of every thread that has to wait comes.
\* It gets the lock, or the machine is down, from the release that finds the
\* writer whose turn it is asleep: nobody waits for ever in a machine that runs.
Served ==
    [](\A t \in Threads : ~WaitsForItself(t)) =>
        \A t \in Threads : /\ pc[t] = "waitwriter" ~> t \in writer \/ crashed
                           /\ pc[t] = "waitreader" ~> shares[t] > 0 \/ crashed
=============================================================================
