------------------------------- MODULE FscCache -------------------------------
(***************************************************************************)
(* The file system cache: src/nboxkrnl/io/fsc.cpp as io/hdd/fatx.cpp uses  *)
(* it.  A thread that mounts a volume maps pages of it one at a time, to   *)
(* read them, and flushes them when the volume is deleted.                 *)
(*                                                                         *)
(* MiLock raises the IRQL to DISPATCH_LEVEL, so that what is done under it *)
(* is one step.  It is given up for the host to read a page, and to wait.  *)
(*                                                                         *)
(* A volume has one thread that mounts or deletes it, so that no two look  *)
(* for the same page and FscConcurrentWriteEvent is never waited for.      *)
(* FscSetCacheSize is only called to grow.  Which of two threads that wait *)
(* for FscUpdateNumOfPages gets it is left open; that one gets it at all   *)
(* takes memory behind the event that reads as WaitAll (ke/event.cpp:165), *)
(* as with any other KeSetEvent unwaits a thread that is none.             *)
(***************************************************************************)
EXTENDS Integers, Sequences, FiniteSets, SequencesExt

CONSTANTS
    Volumes,      \* volumes, with the thread that mounts and deletes each
    NoVolume,     \* the CacheExtension of an element that is not valid
    FscPages,     \* pages of a volume
    FirstSize,    \* elements to begin with, 16
    Growth,       \* elements added at a time, 16
    MaxSize       \* MAX_NUMBER_OF_CACHE_PAGES

ASSUME FscCacheAssumption ==
    /\ IsFiniteSet(Volumes) /\ NoVolume \notin Volumes
    /\ FirstSize \in Nat \ {0} /\ Growth \in Nat \ {0} /\ MaxSize \in Nat
    /\ FirstSize <= MaxSize

VARIABLES
    fscElements, \* FscCacheElementArray
    fscList,     \* FscCacheElementListHead: indices of the array, head first
    fscUpdating, \* FscUpdateNumOfPages is taken
    fscThread    \* what each volume's thread is at

fscVars == <<fscElements, fscList, fscUpdating, fscThread>>

Invalid == [ext |-> NoVolume, page |-> 0, users |-> 0, marked |-> FALSE, filling |-> FALSE]

\* stale: the array that Element points into has been freed.
FscIdle == [step |-> "idle", page |-> 0, element |-> 0, stale |-> FALSE, left |-> 0]

\* Indices in the order of the array.
Ascending(indices) ==
    [k \in 1..Cardinality(indices) |->
        CHOOSE i \in indices : Cardinality({j \in indices : j <= i}) = k]

\* FscReBuildCacheElementList: invalid elements at the head, last one first,
\* valid ones at the tail.
FscReBuild(elements) ==
    LET valid == {i \in DOMAIN elements : elements[i].ext # NoVolume}
    IN  Reverse(Ascending(DOMAIN elements \ valid)) \o Ascending(valid)

\* RemoveEntryList of element i.
WithoutElement(list, i) == RemoveAt(list, CHOOSE k \in DOMAIN list : list[k] = i)

Enlarged(elements, size) ==
    elements \o [i \in 1..(size - Len(elements)) |-> Invalid]

FscInit ==
    /\ fscElements = Enlarged(<<>>, FirstSize)
    /\ fscList = FscReBuild(Enlarged(<<>>, FirstSize))
    /\ fscUpdating = FALSE
    /\ fscThread = [v \in Volumes |-> FscIdle]

-----------------------------------------------------------------------------
(* FscMapElementPage.                                                       *)

\* A search from the tail ends at the first invalid element: what it can see.
Reachable ==
    LET stop == SelectLastInSeq(fscList, LAMBDA i : fscElements[i].ext = NoVolume)
    IN  SubSeq(fscList, stop + 1, Len(fscList))

\* FscFindElement, 0 if it finds none.
FscFindElement(v, page) ==
    LET isIt(i) == fscElements[i].ext = v /\ fscElements[i].page = page
        at == SelectLastInSeq(Reachable, isIt)
    IN  IF at = 0 THEN 0 ELSE Reachable[at]

\* Mutant: an element in use is taken.
NoneButFirst(elements, list) == list = <<>>

\* FscAllocateFreeElement looks only at the head of the list.
NoneFree(elements, list) == list = <<>> \/ elements[Head(list)].users > 0

\* The head becomes the page's element, and the host is asked to read it.  The
\* element stays at the head.
FscTake(v, page, elements, list, threads) ==
    /\ fscElements' = [elements EXCEPT ![Head(list)] =
           [@ EXCEPT !.ext = v, !.page = page, !.users = 1, !.filling = TRUE]]
    /\ fscList' = list
    /\ fscThread' = [threads EXCEPT ![v] =
           [FscIdle EXCEPT !.step = "read", !.page = page, !.element = Head(list)]]
    /\ UNCHANGED fscUpdating

FscMapFails(v) ==
    /\ fscThread' = [fscThread EXCEPT ![v] = FscIdle]
    /\ UNCHANGED <<fscElements, fscList, fscUpdating>>

\* FscIncreaseCacheSize copies the elements.
FscIncreased(size) == Enlarged(fscElements, size)

\* FscSetCacheSize in FscAllocateFreeElement, with FscUpdateNumOfPages, and the
\* element that is taken then.  A thread that the host reads a page for is left
\* with a pointer into the array that is freed.  There may be no memory.
FscGrow(v, page, size) ==
    \/ FscMapFails(v)
    \/ LET grown == FscIncreased(size)
       IN  FscTake(v, page, grown, FscReBuild(grown),
                   [w \in Volumes |-> [fscThread[w] EXCEPT !.stale = @ \/ fscThread[w].step = "read"]])

\* FscAllocateFreeElement and what FscMapElementPage does up to the host.
FscAllocate(v, page) ==
    LET size == Len(fscElements) + Min({Growth, MaxSize - Len(fscElements)})
    IN  CASE ~NoneFree(fscElements, fscList) ->
               FscTake(v, page, fscElements, fscList, fscThread)
          [] NoneFree(fscElements, fscList) /\ Len(fscElements) = MaxSize ->
               FscMapFails(v)
          [] NoneFree(fscElements, fscList) /\ Len(fscElements) < MaxSize /\ ~fscUpdating ->
               FscGrow(v, page, size)
          [] OTHER ->
               /\ fscThread' = [fscThread EXCEPT ![v] =
                      [FscIdle EXCEPT !.step = "grow", !.page = page, !.left = size]]
               /\ UNCHANGED <<fscElements, fscList, fscUpdating>>

FscMapElementPage(v, page) ==
    LET i == FscFindElement(v, page)
    IN  /\ fscThread[v].step = "idle"
        /\ IF i = 0 THEN FscAllocate(v, page)
           ELSE /\ fscElements' = [fscElements EXCEPT ![i].users = @ + 1]
                /\ fscList' = Append(WithoutElement(fscList, i), i)
                /\ fscThread' = [fscThread EXCEPT ![v] =
                       [FscIdle EXCEPT !.step = "mapped", !.page = page, !.element = i]]
                /\ UNCHANGED fscUpdating

\* A thread that has waited for FscUpdateNumOfPages in FscSetCacheSize asks for
\* the size it has worked out before.
FscSetCacheSize(v) ==
    LET page == fscThread[v].page
    IN  /\ fscThread[v].step = "grow" /\ ~fscUpdating
        /\ IF fscThread[v].left > Len(fscElements)
           THEN FscGrow(v, page, fscThread[v].left)
           ELSE FscAllocate(v, page)

\* The host has read the page, or has failed to: then the element is given up,
\* but stays valid.  A pointer into the old array writes to freed memory.
FscPageRead(v) ==
    LET i == fscThread[v].element
    IN  /\ fscThread[v].step = "read"
        /\ \/ /\ fscThread[v].stale
              /\ fscThread' = [fscThread EXCEPT ![v].step = "lost"]
              /\ UNCHANGED fscElements
           \/ /\ ~fscThread[v].stale
              /\ fscElements' = [fscElements EXCEPT ![i].filling = FALSE]
              /\ fscThread' = [fscThread EXCEPT ![v].step = "mapped"]
           \/ /\ ~fscThread[v].stale
              /\ fscElements' = [fscElements EXCEPT ![i] =
                     [@ EXCEPT !.users = 0, !.marked = FALSE, !.filling = FALSE]]
              /\ fscThread' = [fscThread EXCEPT ![v] = FscIdle]
        /\ UNCHANGED <<fscList, fscUpdating>>

\* FscUnmapElementPage wakes who waits for an element to be released.
FscUnmapElementPage(v) ==
    LET i == fscThread[v].element
        awake(w) == fscThread[w].step = "wait" /\ fscElements[i].users = 1
    IN  /\ fscThread[v].step = "mapped"
        /\ fscElements' = [fscElements EXCEPT ![i] =
               [fscElements[i] EXCEPT !.users = @ - 1, !.filling = FALSE]]
        /\ fscThread' = [w \in Volumes |->
               IF w = v THEN FscIdle
               ELSE IF awake(w) THEN [fscThread[w] EXCEPT !.step = "flush"]
               ELSE fscThread[w]]
        /\ UNCHANGED <<fscList, fscUpdating>>

-----------------------------------------------------------------------------
(* FscFlushPartitionElements.                                               *)

\* What is removed: the volume's own, when idle.
MayFlush(v, i) ==
    fscElements[i].ext = v /\ fscElements[i].users = 0 /\ ~fscElements[i].marked

\* One pass: the element it removes is invalid then and ends it.  What is left
\* is waited for, with FscUpdateNumOfPages.
FscFlushPass(v, left) ==
    LET at == SelectLastInSeq(Reachable, LAMBDA i : MayFlush(v, i))
        still == IF at = 0 THEN left ELSE left - 1
    IN  /\ IF at = 0 THEN UNCHANGED <<fscElements, fscList>>
           ELSE /\ fscElements' = [fscElements EXCEPT ![Reachable[at]] =
                       [@ EXCEPT !.ext = NoVolume, !.marked = TRUE]]
                /\ fscList' = WithoutElement(fscList, Reachable[at])
        /\ fscUpdating' = (still > 0)
        /\ fscThread' = [fscThread EXCEPT ![v] =
               IF still = 0 THEN FscIdle
               ELSE [FscIdle EXCEPT !.step = "unlocked", !.left = still]]

FscFlushPartitionElements(v) ==
    /\ fscThread[v].step = "idle" /\ ~fscUpdating
    /\ FscFlushPass(v, Cardinality({k \in DOMAIN Reachable : fscElements[Reachable[k]].ext = v}))

\* MiUnlock and KeWaitForSingleObject are two steps.
FscWaitForRelease(v) ==
    /\ fscThread[v].step = "unlocked"
    /\ fscThread' = [fscThread EXCEPT ![v].step = "wait"]
    /\ UNCHANGED <<fscElements, fscList, fscUpdating>>

FscFlushGoesOn(v) ==
    /\ fscThread[v].step = "flush"
    /\ FscFlushPass(v, fscThread[v].left)

-----------------------------------------------------------------------------
FscNext ==
    /\ \A v \in Volumes : fscThread[v].step # "lost"
    /\ \E v \in Volumes :
         \/ \E page \in FscPages : FscMapElementPage(v, page)
         \/ FscSetCacheSize(v) \/ FscPageRead(v) \/ FscUnmapElementPage(v)
         \/ FscFlushPartitionElements(v) \/ FscWaitForRelease(v) \/ FscFlushGoesOn(v)

FscSpec == FscInit /\ [][FscNext]_fscVars

-----------------------------------------------------------------------------
(* Properties.                                                              *)

FscTypeOK ==
    /\ fscElements \in Seq([ext : Volumes \union {NoVolume}, page : FscPages \union {0},
                            users : 0..Cardinality(Volumes), marked : BOOLEAN, filling : BOOLEAN])
    /\ Len(fscElements) \in FirstSize..MaxSize
    /\ fscUpdating \in BOOLEAN
    /\ fscThread \in [Volumes ->
         [step : {"idle", "grow", "read", "mapped", "unlocked", "wait", "flush", "lost"},
          page : FscPages \union {0}, element : 0..MaxSize, stale : BOOLEAN, left : 0..MaxSize]]

\* A page that a thread has mapped stays in its buffer until the thread unmaps
\* it, through searches, growth and flushes by others: its element is the
\* volume's, is in the list and counts its users exactly, and none is shared.
\* Outside the list are only elements a flush has left there.
FscMappedStays ==
    /\ FscTypeOK
    /\ \A v \in Volumes : fscThread[v].step \in {"read", "mapped"} =>
         LET i == fscThread[v].element
         IN  /\ fscElements[i].ext = v /\ fscElements[i].page = fscThread[v].page
             /\ fscElements[i].filling = (fscThread[v].step = "read")
             /\ i \in Range(fscList)
    /\ \A i \in DOMAIN fscElements :
         fscElements[i].users = Cardinality({v \in Volumes :
             fscThread[v].step \in {"read", "mapped", "lost"} /\ fscThread[v].element = i})
    /\ IsInjective(fscList)
    /\ \A i \in DOMAIN fscElements \ Range(fscList) :
         fscElements[i].marked /\ fscElements[i].ext = NoVolume
=============================================================================
