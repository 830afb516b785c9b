---------------------------- MODULE SyncObjects ----------------------------
(***************************************************************************)
(* What the kernel's events, semaphores and mutants promise to threads,    *)
(* with no scheduler, no interrupt level and no lock in sight: a release   *)
(* hands the object to the threads waiting for it, in the order in which   *)
(* they came, in one indivisible step; what is left over is the object's   *)
(* signal state; and a thread that comes later never overtakes a waiter.   *)
(* Dispatcher implements this specification (see DispatcherRefinement).    *)
(***************************************************************************)
EXTENDS Integers, Sequences

CONSTANTS
    Threads, NoThread,
    NotificationEvents, SynchronizationEvents, Semaphores, Mutants,
    SemaphoreLimit, MutantLimit

VARIABLES
    signal,     \* DISPATCHER_HEADER.SignalState
    waiters,    \* the threads that wait, first come first
    owner,      \* KMUTANT.OwnerThread
    abandoned   \* KMUTANT.Abandoned

Objects == NotificationEvents \union SynchronizationEvents
           \union Semaphores \union Mutants

vars == <<signal, waiters, owner, abandoned>>

Init ==
    /\ signal = [o \in Objects |-> IF o \in Mutants THEN 1 ELSE 0]
    /\ waiters = [o \in Objects |-> <<>>]
    /\ owner = [m \in Mutants |-> NoThread]
    /\ abandoned = [m \in Mutants |-> FALSE]

Waits(t) == \E o \in Objects : \E i \in 1..Len(waiters[o]) : waiters[o][i] = t

\* The first "k" waiters of "o" get it.
Leave(o, k) ==
    waiters' = [waiters EXCEPT ![o] = SubSeq(@, k + 1, Len(@))]

\* A notification event lets everyone through and stays signalled.
SetNotification(e) ==
    /\ signal' = [signal EXCEPT ![e] = 1]
    /\ waiters' = [waiters EXCEPT ![e] = <<>>]
    /\ UNCHANGED <<owner, abandoned>>

\* A synchronization event lets one through, or stays signalled for the next.
SetSynchronization(e) ==
    /\ IF waiters[e] = <<>>
       THEN signal' = [signal EXCEPT ![e] = 1] /\ UNCHANGED waiters
       ELSE Leave(e, 1) /\ UNCHANGED signal
    /\ UNCHANGED <<owner, abandoned>>

\* A pulse lets the same threads through as a set would, and leaves nothing.
Pulse(e) ==
    /\ signal' = [signal EXCEPT ![e] = 0]
    /\ \/ signal[e] # 0 /\ UNCHANGED waiters
       \/ signal[e] = 0 /\ e \in NotificationEvents /\ Leave(e, Len(waiters[e]))
       \/ /\ signal[e] = 0 /\ e \in SynchronizationEvents
          /\ IF waiters[e] = <<>> THEN UNCHANGED waiters ELSE Leave(e, 1)
    /\ UNCHANGED <<owner, abandoned>>

Reset(e) ==
    /\ signal' = [signal EXCEPT ![e] = 0]
    /\ UNCHANGED <<waiters, owner, abandoned>>

\* Each count released goes to a waiter as long as there are any.
ReleaseSemaphore(s, n) ==
    LET new == signal[s] + n
        k == IF new < Len(waiters[s]) THEN new ELSE Len(waiters[s])
    IN /\ new <= SemaphoreLimit
       /\ signal' = [signal EXCEPT ![s] = new - k]
       /\ Leave(s, k)
       /\ UNCHANGED <<owner, abandoned>>

\* One level of a recursive acquisition is given back.
ReleaseOneLevel(m) ==
    /\ owner[m] # NoThread /\ signal[m] < 0
    /\ signal' = [signal EXCEPT ![m] = @ + 1]
    /\ UNCHANGED <<waiters, owner, abandoned>>

\* The last level is given back, or all of them at once with "abandon": the
\* first waiter becomes the owner, otherwise the mutant is free.
ReleaseMutant(m, abandon) ==
    /\ abandon \/ (owner[m] # NoThread /\ signal[m] = 0)
    /\ IF waiters[m] = <<>>
       THEN /\ signal' = [signal EXCEPT ![m] = 1]
            /\ owner' = [owner EXCEPT ![m] = NoThread]
            /\ abandoned' = [abandoned EXCEPT ![m] = @ \/ abandon]
            /\ UNCHANGED waiters
       ELSE /\ signal' = [signal EXCEPT ![m] = 0]
            /\ owner' = [owner EXCEPT ![m] = Head(waiters[m])]
            /\ abandoned' = [abandoned EXCEPT ![m] = FALSE]
            /\ Leave(m, 1)

\* A thread takes an object that is signalled, or a mutant it already owns.
TakeEvent(e) ==
    /\ signal[e] > 0
    /\ signal' = [signal EXCEPT ![e] = IF e \in NotificationEvents THEN 1 ELSE 0]
    /\ UNCHANGED <<waiters, owner, abandoned>>

TakeSemaphore(s) ==
    /\ signal[s] > 0
    /\ signal' = [signal EXCEPT ![s] = @ - 1]
    /\ UNCHANGED <<waiters, owner, abandoned>>

TakeMutant(m, t) ==
    /\ signal[m] = 1 \/ (owner[m] = t /\ signal[m] > MutantLimit)
    /\ signal' = [signal EXCEPT ![m] = @ - 1]
    /\ owner' = [owner EXCEPT ![m] = t]
    /\ abandoned' = [abandoned EXCEPT ![m] = @ /\ signal[m] # 1]
    /\ UNCHANGED waiters

\* A thread that cannot take the object queues up behind those before it.
Block(o, t) ==
    /\ signal[o] <= 0
    /\ o \in Mutants => owner[o] # t
    /\ ~Waits(t)
    /\ waiters' = [waiters EXCEPT ![o] = Append(@, t)]
    /\ UNCHANGED <<signal, owner, abandoned>>

Next ==
    \/ \E e \in NotificationEvents : SetNotification(e)
    \/ \E e \in SynchronizationEvents : SetSynchronization(e)
    \/ \E e \in NotificationEvents \union SynchronizationEvents :
           Pulse(e) \/ Reset(e) \/ TakeEvent(e)
    \/ \E s \in Semaphores : TakeSemaphore(s)
    \/ \E s \in Semaphores, n \in 1..SemaphoreLimit : ReleaseSemaphore(s, n)
    \/ \E m \in Mutants : ReleaseOneLevel(m)
    \/ \E m \in Mutants, abandon \in BOOLEAN : ReleaseMutant(m, abandon)
    \/ \E t \in Threads, m \in Mutants : TakeMutant(m, t)
    \/ \E t \in Threads, o \in Objects : Block(o, t)

Spec == Init /\ [][Next]_vars

\* Nobody waits for an object that could be taken.
NobodyWaitsForSignalled == \A o \in Objects : signal[o] > 0 => waiters[o] = <<>>
=============================================================================
