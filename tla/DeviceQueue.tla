----------------------------- MODULE DeviceQueue -----------------------------
(***************************************************************************)
(* A device's queue of requests: src/nboxkrnl/ke/device_queue.cpp and what *)
(* io/io.cpp makes of it (IoStartPacket, IoStartNextPacket).               *)
(*                                                                         *)
(* The queue's routines run at DISPATCH_LEVEL and are one step each, and   *)
(* so is IoStartPacket.  IoStartNextPacket may be called below it and is   *)
(* three: it forgets the current request, takes the next from the queue,   *)
(* starts it.  The driver is external: it calls IoStartNextPacket once for *)
(* each request it was given, whenever it is done with it.                 *)
(*                                                                         *)
(* A driver gives a key with all its requests or with none.                *)
(***************************************************************************)
EXTENDS Integers, Sequences, FiniteSets, SequencesExt

CONSTANTS
    Irps,     \* requests, used again once they are done
    NoIrp,    \* a null CurrentIrp
    Callers,  \* threads that call IoStartNextPacket
    Keys      \* sort keys

ASSUME DeviceQueueAssumption ==
    NoIrp \notin Irps /\ Keys \subseteq Nat /\ Keys # {}

VARIABLES
    dqKeyed,   \* the driver gives keys
    dqBusy,    \* DeviceQueue.Busy
    dqList,    \* DeviceListHead
    dqEntry,   \* each request's KDEVICE_QUEUE_ENTRY
    dqCurrent, \* CurrentIrp
    dqStarted, \* requests the driver was given and is not done with
    dqCall     \* for each caller, what of IoStartNextPacket is still to do

dqVars == <<dqKeyed, dqBusy, dqList, dqEntry, dqCurrent, dqStarted, dqCall>>

NoCall == [step |-> "none", key |-> 0, irp |-> NoIrp]

DqInit ==
    /\ dqKeyed \in BOOLEAN
    /\ dqBusy = FALSE /\ dqList = <<>>
    /\ dqEntry = [i \in Irps |-> [inserted |-> FALSE, key |-> 0]]
    /\ dqCurrent = NoIrp /\ dqStarted = {}
    /\ dqCall = [c \in Callers |-> NoCall]

DqKey(irp) == dqEntry[irp].key

\* The request is neither queued nor with the driver.
DqFree(irp) ==
    /\ irp \notin Range(dqList) \union dqStarted
    /\ \A c \in Callers : dqCall[c].irp # irp

-----------------------------------------------------------------------------
(* Starting a request, or queueing it.                                      *)

\* Mutant: the search stops at an equal key already, and ends at the tail.
PlaceBeforeEqual(key) ==
    SelectInSeq(dqList, LAMBDA i : key <= DqKey(i))

\* KeInsertByKeyDeviceQueue: the first entry with a larger key, 0 for the tail.
Place(key) == SelectInSeq(dqList, LAMBDA i : key < DqKey(i))

\* KeInsertByKeyDeviceQueue when busy; it leaves Inserted as it is.
InsertedByKey(irp, key) ==
    IF Place(key) = 0 THEN Append(dqList, irp) ELSE InsertAt(dqList, Place(key), irp)

\* IoStartPacket, with KeInsertDeviceQueue or KeInsertByKeyDeviceQueue.
IoStartPacket(irp) ==
    /\ DqFree(irp)
    /\ \E key \in Keys :
         dqEntry' = [dqEntry EXCEPT ![irp] =
             IF dqKeyed THEN [@ EXCEPT !.key = key] ELSE [@ EXCEPT !.inserted = dqBusy]]
         /\ dqList' = IF ~dqBusy THEN dqList
                      ELSE IF dqKeyed THEN InsertedByKey(irp, key)
                      ELSE Append(dqList, irp)
    /\ dqBusy' = TRUE
    /\ dqStarted' = IF dqBusy THEN dqStarted ELSE dqStarted \union {irp}
    /\ dqCurrent' = IF dqBusy THEN dqCurrent ELSE irp
    /\ UNCHANGED <<dqKeyed, dqCall>>

\* RemoveEntryList.
Unlinked(list, irp) == RemoveAt(list, CHOOSE i \in 1..Len(list) : list[i] = irp)

\* KeRemoveEntryDeviceQueue, for a request that is queued.
KeRemoveEntryDeviceQueue(irp) ==
    /\ irp \in Range(dqList) /\ dqEntry[irp].inserted
    /\ dqList' = Unlinked(dqList, irp)
    /\ dqEntry' = [dqEntry EXCEPT ![irp].inserted = FALSE]
    /\ UNCHANGED <<dqKeyed, dqBusy, dqCurrent, dqStarted, dqCall>>

-----------------------------------------------------------------------------
(* IoStartNextPacket and IoStartNextPacketByKey.                            *)

\* The driver is done with a request and asks for the next.
IoStartNextPacket(c, irp) ==
    /\ dqCall[c] = NoCall
    /\ irp \in dqStarted
    /\ \E key \in IF dqKeyed THEN Keys ELSE {0} :
         dqCall' = [dqCall EXCEPT ![c] = [step |-> "remove", key |-> key, irp |-> NoIrp]]
    /\ dqStarted' = dqStarted \ {irp}
    /\ dqCurrent' = NoIrp
    /\ UNCHANGED <<dqKeyed, dqBusy, dqList, dqEntry>>

\* KeRemoveByKeyDeviceQueue: the first entry if all keys are at most this one,
\* else the first that is not below it.
NextByKey(key) ==
    IF DqKey(Last(dqList)) <= key THEN 1 ELSE SelectInSeq(dqList, LAMBDA i : key <= DqKey(i))

TakenFrom(key) == IF dqKeyed THEN NextByKey(key) ELSE 1

\* Mutant: the queue is idle as soon as it is empty.
BusyIfMore == Len(dqList) > 1

\* Busy after a removal: until there was nothing to remove.
BusyAfterRemoval == dqList # <<>>

\* KeRemoveDeviceQueue and KeRemoveByKeyDeviceQueue.
KeRemoveDeviceQueue(c) ==
    /\ dqCall[c].step = "remove"
    /\ dqBusy' = BusyAfterRemoval
    /\ IF dqList = <<>>
       THEN /\ dqCall' = [dqCall EXCEPT ![c] = NoCall]
            /\ UNCHANGED <<dqList, dqEntry>>
       ELSE LET place == TakenFrom(dqCall[c].key)
            IN  /\ dqCall' = [dqCall EXCEPT ![c].step = "start", ![c].irp = dqList[place]]
                /\ dqList' = RemoveAt(dqList, place)
                /\ dqEntry' = [dqEntry EXCEPT ![dqList[place]].inserted = FALSE]
    /\ UNCHANGED <<dqKeyed, dqCurrent, dqStarted>>

\* The end of IoStartNextPacket.
DriverStartIo(c) ==
    /\ dqCall[c].step = "start"
    /\ dqCurrent' = dqCall[c].irp
    /\ dqStarted' = dqStarted \union {dqCall[c].irp}
    /\ dqCall' = [dqCall EXCEPT ![c] = NoCall]
    /\ UNCHANGED <<dqKeyed, dqBusy, dqList, dqEntry>>

-----------------------------------------------------------------------------
DqNext ==
    \/ \E irp \in Irps : IoStartPacket(irp) \/ KeRemoveEntryDeviceQueue(irp)
    \/ \E c \in Callers :
         \/ \E irp \in Irps : IoStartNextPacket(c, irp)
         \/ KeRemoveDeviceQueue(c) \/ DriverStartIo(c)

DqSpec == DqInit /\ [][DqNext]_dqVars

-----------------------------------------------------------------------------
(* Properties.                                                              *)

DqTypeOK ==
    /\ dqKeyed \in BOOLEAN /\ dqBusy \in BOOLEAN
    /\ dqList \in Seq(Irps) /\ IsInjective(dqList)
    /\ dqEntry \in [Irps -> [inserted : BOOLEAN, key : Keys \union {0}]]
    /\ dqCurrent \in Irps \union {NoIrp} /\ dqStarted \subseteq Irps
    /\ dqCall \in [Callers -> [step : {"none", "remove", "start"}, key : Keys \union {0},
                               irp : Irps \union {NoIrp}]]

\* The driver has one request at a time, CurrentIrp names it, and the queue is
\* busy exactly as long as the driver has one or is being given the next:
\* nothing is left in the queue with nobody to start it.
DqOneAtATime ==
    /\ DqTypeOK
    /\ Cardinality(dqStarted) + Cardinality({c \in Callers : dqCall[c] # NoCall})
         = (IF dqBusy THEN 1 ELSE 0)
    /\ \A irp \in dqStarted : dqCurrent = irp
    /\ dqStarted = {} => dqCurrent = NoIrp
    /\ dqList # <<>> => dqBusy

\* Where a request is in the queue.
DqPlaceOf(irp, list) == SelectInSeq(list, LAMBDA i : i = irp)

\* What the driver gets next is, with keys, the nearest request at or above the
\* key it asks with, or the one with the lowest key if none is above; without
\* keys any.  Of those that qualify it is the one that has waited longest: a
\* request queues up behind those that came before it with the same key.
DqNearestOldestNext ==
    [][/\ \A c \in Callers :
            dqCall[c].step = "remove" /\ dqCall'[c].step = "start" =>
              LET irp == dqCall'[c].irp
                  key == dqCall[c].key
                  queued == Range(dqList)
                  pool == IF dqKeyed /\ \E i \in queued : DqKey(i) > key
                          THEN {i \in queued : DqKey(i) >= key} ELSE queued
                  least == {i \in pool : ~dqKeyed \/ \A j \in pool : DqKey(i) <= DqKey(j)}
              IN  /\ irp \in least
                  /\ \A i \in least : DqPlaceOf(irp, dqList) <= DqPlaceOf(i, dqList)
       /\ \A irp \in Range(dqList') \ Range(dqList), i \in Range(dqList) :
            ~dqKeyed \/ DqKey(i) = dqEntry'[irp].key =>
                DqPlaceOf(i, dqList') < DqPlaceOf(irp, dqList')]_dqVars
=============================================================================
