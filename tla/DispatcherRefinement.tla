------------------------ MODULE DispatcherRefinement ------------------------
(***************************************************************************)
(* The dispatcher database implements the atomic synchronization objects   *)
(* of SyncObjects: although KiWaitTest releases waiters one at a time,     *)
(* each of them possibly preempting, with interrupts coming in between,    *)
(* threads see every release as a single step.                             *)
(***************************************************************************)
EXTENDS Dispatcher

\* While KiWaitTest works on "o" the threads it is going to release are, to
\* the rest of the system, already gone and have what they waited for.
Releasing(o) ==
    IF ~(pc = "waittest" /\ frame.obj = o) \/ signal[o] <= 0 THEN 0
    ELSE IF o \in NotificationEvents THEN Len(waitList[o])
    ELSE IF signal[o] < Len(waitList[o]) THEN signal[o] ELSE Len(waitList[o])

SignalSeen == [o \in Objects |->
    IF o \in NotificationEvents THEN signal[o] ELSE signal[o] - Releasing(o)]

WaitersSeen == [o \in Objects |->
    SubSeq(waitList[o], Releasing(o) + 1, Len(waitList[o]))]

OwnerSeen == [m \in Mutants |->
    IF Releasing(m) > 0 THEN Head(waitList[m]) ELSE owner[m]]

AbandonedSeen == [m \in Mutants |-> abandoned[m] /\ Releasing(m) = 0]

Abstract == INSTANCE SyncObjects WITH
    signal <- SignalSeen, waiters <- WaitersSeen,
    owner <- OwnerSeen, abandoned <- AbandonedSeen

\* Every behaviour of the dispatcher is, seen through this mapping, one of the
\* atomic objects: releases are indivisible and first come first served, no
\* thread overtakes a waiter, and no count, ownership or wake-up gets lost
\* between KeReleaseSemaphore, KeSetEvent, KeReleaseMutant, KiWaitTest and
\* KeWaitForSingleObject.
ImplementsSyncObjects == Abstract!Spec
=============================================================================
