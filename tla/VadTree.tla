------------------------------- MODULE VadTree -------------------------------
(***************************************************************************)
(* The tree of virtual address descriptors: src/nboxkrnl/mm/vad_tree.cpp   *)
(* and its only user, NtAllocateVirtualMemory (nt/memory.cpp), which runs  *)
(* under VadLock and is one step.                                          *)
(*                                                                         *)
(* Addresses and sizes are in bytes of few and small pages; 0 is the null  *)
(* address.  A tree is a node with its subtrees, and a pointer to a node   *)
(* is its key (m_Start).  MiLastFree is kept between calls, so that it     *)
(* must be followed where an erasure moves a node or frees its memory.     *)
(*                                                                         *)
(* The model is of a build without _DEBUG, where assertions are null: with *)
(* them DestructVAD stops where it splits the node behind the region.      *)
(*                                                                         *)
(* Left out: protection, and committing pages of a region that is reserved *)
(* already, which leaves the tree alone.  Whether there are enough pages   *)
(* to commit is left open.                                                 *)
(***************************************************************************)
EXTENDS Integers, Sequences, FiniteSets, SequencesExt

CONSTANTS
    Lowest,      \* LOWEST_USER_ADDRESS
    Highest,     \* HIGHEST_USER_ADDRESS
    PageSize,    \* 4 KiB
    Granularity, \* 64 KiB
    Sizes,       \* bound: sizes asked for
    Bases,       \* bound: addresses asked for
    Limits       \* bound: HIGHEST_USER_ADDRESS and what ZeroBits makes of it

ASSUME VadTreeAssumption ==
    /\ PageSize \in Nat \ {0, 1} /\ Granularity \in Nat \ {0} /\ Granularity % PageSize = 0
    /\ 0 < Lowest /\ Lowest < Highest - Granularity
    /\ Lowest % Granularity = 0 /\ (Highest + 1) % Granularity = 0
    /\ Sizes \subseteq 1..(Highest - Granularity + 1)
    /\ Bases \subseteq 1..(Highest - Granularity) /\ Limits \subseteq 1..Highest

VARIABLES
    vadRoot,     \* MiVadRoot
    vadLastFree, \* MiLastFree: a key, or Null, or Dangling
    vadReserved, \* MiVirtualMemoryBytesReserved
    vadLost,     \* what failed splits have cut off free regions; in no variable of the code
    vadCrashed   \* which corruption has happened, if any

vadVars == <<vadRoot, vadLastFree, vadReserved, vadLost, vadCrashed>>

-----------------------------------------------------------------------------
(* AVL trees.                                                               *)

Nil == [height |-> -1]
Null == 0
Dangling == -1

\* VAD_NODE, with key for its m_Start and vad for its m_Vad.
NewNode(vad) ==
    [key |-> vad.start, vad |-> vad, height |-> 0, left |-> Nil, right |-> Nil]

Vad(start, size, type) == [start |-> start, size |-> size, type |-> type]
EndOf(vad) == vad.start + vad.size

Higher(a, b) == IF a > b THEN a ELSE b
Resized(n) == [n EXCEPT !.height = Higher(n.left.height, n.right.height) + 1]
CalcBalance(n) == n.left.height - n.right.height

RotateL(n) ==
    Resized([n.right EXCEPT !.left = Resized([n EXCEPT !.right = n.right.left])])
RotateR(n) ==
    Resized([n.left EXCEPT !.right = Resized([n EXCEPT !.left = n.left.right])])

\* Mutant: the inner rotation is left out.
SinglyRotated(node) ==
    LET n == Resized(node)
    IN  IF CalcBalance(n) > 1 THEN RotateR(n)
        ELSE IF CalcBalance(n) < -1 THEN RotateL(n)
        ELSE n

\* The end of InsertVADNode and of EraseVADNode.
Rebalanced(node) ==
    LET n == Resized(node)
    IN  IF CalcBalance(n) > 1
        THEN RotateR(IF CalcBalance(n.left) >= 0 THEN n ELSE [n EXCEPT !.left = RotateL(@)])
        ELSE IF CalcBalance(n) < -1
        THEN RotateL(IF CalcBalance(n.right) <= 0 THEN n ELSE [n EXCEPT !.right = RotateR(@)])
        ELSE n

RECURSIVE InsertVADNode(_, _)
\* The key is there already when CarveVADRange splits at the start of a node.
InsertVADNode(tree, vad) ==
    IF tree = Nil THEN NewNode(vad)
    ELSE IF tree.key = vad.start THEN [tree EXCEPT !.vad = vad]
    ELSE Rebalanced(IF tree.key < vad.start
                    THEN [tree EXCEPT !.right = InsertVADNode(@, vad)]
                    ELSE [tree EXCEPT !.left = InsertVADNode(@, vad)])

RECURSIVE InOrder(_)
InOrder(tree) ==
    IF tree = Nil THEN <<>> ELSE InOrder(tree.left) \o <<tree>> \o InOrder(tree.right)

RECURSIVE EraseVADNode(_, _)
\* A node with two children takes the key of its successor, which is erased
\* instead, and keeps its own m_Vad; one with one child takes all from it.
EraseVADNode(tree, key) ==
    CASE tree = Nil -> Nil
      [] tree.key < key -> Rebalanced([tree EXCEPT !.right = EraseVADNode(@, key)])
      [] tree.key > key -> Rebalanced([tree EXCEPT !.left = EraseVADNode(@, key)])
      [] tree.left # Nil /\ tree.right # Nil ->
           LET successor == Head(InOrder(tree.right)).key
           IN  Rebalanced([tree EXCEPT !.key = successor, !.right = EraseVADNode(@, successor)])
      [] tree.left # Nil /\ tree.right = Nil ->
           NewNode(tree.left.vad)
      [] tree.left = Nil /\ tree.right # Nil ->
           NewNode(tree.right.vad)
      [] OTHER -> Nil

RECURSIVE Changed(_, _, _)
\* The tree with another m_Vad in the node of this key.
Changed(tree, key, vad) ==
    IF tree.key = key THEN [tree EXCEPT !.vad = vad]
    ELSE IF tree.key < key THEN [tree EXCEPT !.right = Changed(@, key, vad)]
    ELSE [tree EXCEPT !.left = Changed(@, key, vad)]

\* GetVADNode, as a place in order: the last node that starts at or below the
\* address, 0 if there is none.
GetVADNode(tree, address) ==
    SelectLastInSeq(InOrder(tree), LAMBDA n : n.key <= address)

RECURSIVE NodeAt(_, _)
\* The node GetVADNode finds for an address that is not below the first.
NodeAt(tree, address) ==
    IF tree.key > address THEN NodeAt(tree.left, address)
    ELSE IF tree.right = Nil \/ Head(InOrder(tree.right)).key > address THEN tree
    ELSE NodeAt(tree.right, address)

-----------------------------------------------------------------------------
(* Carving a region out of a free one, and giving it back.                  *)

\* SplitVAD.
SplitVAD(tree, key, offset) ==
    LET old == NodeAt(tree, key).vad
    IN  InsertVADNode(Changed(tree, key, [old EXCEPT !.size = offset]),
                      Vad(old.start + offset, old.size - offset, old.type))

\* What CarveVAD has to split off the free region around a new one.
SplitsAtEnd(old, start, size) == start + size # old.start + old.size
SplitsAtStart(old, start) == start # old.start

\* CarveVAD.
CarveVAD(tree, start, size) ==
    LET old == NodeAt(tree, start).vad
        cut == IF SplitsAtEnd(old, start, size)
               THEN SplitVAD(tree, old.start, start - old.start + size) ELSE tree
    IN  IF SplitsAtStart(old, start) THEN SplitVAD(cut, old.start, start - old.start) ELSE cut

\* CarveVAD when there is no memory for the second of two splits: the first is
\* undone.
CarveUndone(tree, start, size) ==
    LET old == NodeAt(tree, start).vad
        cut == SplitVAD(tree, old.start, start - old.start + size)
    IN  EraseVADNode(Changed(cut, old.start, old), start + size)

\* Of a node with one child, it is the child's memory that is freed.
LastFreeAfterUndo(tree, start, size, last) ==
    LET old == NodeAt(tree, start).vad
        erased == NodeAt(SplitVAD(tree, old.start, start - old.start + size), start + size)
        children == Range(InOrder(erased)) \ {erased}
    IN  IF last \in {n.key : n \in children} THEN Dangling ELSE last

HasTwoChildren(node) == node.left # Nil /\ node.right # Nil

\* What the undoing erases cannot be erased without losing the successor.
UndoLosesVad(tree, start, size) ==
    LET old == NodeAt(tree, start).vad
        cut == SplitVAD(tree, old.start, start - old.start + size)
    IN  HasTwoChildren(NodeAt(cut, start + size))

\* MergeAdjacentVAD for a node that has become free: which node is to hold the
\* free region, which keys are to be erased, in order.
MergeAdjacentVAD(tree, start) ==
    LET order == InOrder(tree)
        place == GetVADNode(tree, start)
        isFree(k) == k \in DOMAIN order /\ order[k].vad.type = "Free"
        size(k) == IF isFree(k) THEN order[k].vad.size ELSE 0
        from == IF isFree(place - 1) THEN order[place - 1].key ELSE start
    IN  [from |-> from,
         erased |-> (IF isFree(place + 1) THEN <<order[place + 1].key>> ELSE <<>>)
                    \o (IF isFree(place - 1) THEN <<start>> ELSE <<>>),
         vad |-> Vad(from, size(place - 1) + order[place].vad.size + size(place + 1), "Free")]

\* CarveVADRange for a region that is one node.  A node that begins where the
\* region ends is split at offset 0, and its new half takes its place.
CarveVADRange(tree, start, size) ==
    LET end == start + size
        behind == NodeAt(tree, end).vad
    IN  IF end = EndOf(behind) THEN tree
        ELSE SplitVAD(tree, behind.start, end - behind.start)

\* DestructVAD for a region that is one node, as it has just been constructed.
DestructVAD(tree, start, size) ==
    LET carved == CarveVADRange(tree, start, size)
        merge == MergeAdjacentVAD(carved, start)
    IN  FoldLeft(EraseVADNode, Changed(carved, merge.from, merge.vad), merge.erased)

\* One of the nodes that DestructVAD erases has two children when it is its turn.
DestructLosesVad(tree, start) ==
    LET merge == MergeAdjacentVAD(tree, start)
        before(k) == FoldLeft(EraseVADNode, tree, SubSeq(merge.erased, 1, k - 1))
    IN  \E k \in DOMAIN merge.erased : HasTwoChildren(NodeAt(before(k), merge.erased[k]))

-----------------------------------------------------------------------------
(* NtAllocateVirtualMemory.                                                 *)

\* MmInitSystem.  The first region is given the highest address for its size,
\* and so ends beyond it, a byte before a page does.
VadInit ==
    /\ vadRoot = NewNode(Vad(Lowest, Highest, "Free"))
    /\ vadLastFree = Lowest
    /\ vadReserved = 0
    /\ vadLost = 0
    /\ vadCrashed = "no"

RoundDown(address) == address - (address % Granularity)
RoundUp(address) == RoundDown(address + Granularity - 1)
WholePages(size) == ((size + PageSize - 1) \div PageSize) * PageSize

\* Where MiLastFree is in order, 0 for null.
PlaceOf(tree, last) == SelectInSeq(InOrder(tree), LAMBDA n : n.key = last)

\* A free node in which a block fits, in front of an address.
FitsBelow(node, size, end) ==
    node.vad.type = "Free" /\ RoundUp(node.key) + size - 1 < end

\* MapMemoryBlock: where it stops to look, the node after the highest address;
\* behind the last one if no node begins at or below that address.
EndPlace(tree, highest) ==
    LET place == GetVADNode(tree, highest)
    IN  IF place = 0 THEN Len(InOrder(tree)) + 1 ELSE place + 1

\* MapMemoryBlock starts behind the end, or nowhere, and runs off the tree.
RunsOff(tree, last, highest) ==
    /\ EndPlace(tree, highest) <= Len(InOrder(tree))
    /\ PlaceOf(tree, last) > EndPlace(tree, highest) \/ PlaceOf(tree, last) = 0

\* MapMemoryBlock: the first node that fits from MiLastFree on, else the last
\* that fits before it, where the highest address is not looked at.  0 if none.
MapMemoryBlock(tree, last, size, highest) ==
    LET order == InOrder(tree)
        from == PlaceOf(tree, last)
        after == {k \in DOMAIN order :
                    /\ from # 0 /\ from <= k /\ k < EndPlace(tree, highest)
                    /\ FitsBelow(order[k], size,
                                 IF EndOf(order[k].vad) > highest + 1 THEN highest + 1
                                 ELSE EndOf(order[k].vad))}
        before == {k \in DOMAIN order :
                    /\ from = 0 \/ k < from
                    /\ FitsBelow(order[k], size, EndOf(order[k].vad))}
    IN  IF after # {} THEN RoundUp(order[Min(after)].key)
        ELSE IF before # {} THEN RoundUp(order[Max(before)].key)
        ELSE 0

\* Mutant: the end of the region is not compared.
ConflictsAtStart(tree, start, size) ==
    \/ GetVADNode(tree, start) = 0
    \/ NodeAt(tree, start).vad.type # "Free"

\* CheckConflictingVAD finds no node, a reserved one, or one that is too small.
Conflicts(tree, start, size) ==
    \/ GetVADNode(tree, start) = 0
    \/ NodeAt(tree, start).vad.type # "Free"
    \/ EndOf(NodeAt(tree, start).vad) < start + size

\* Where ConstructVAD sets MiLastFree: the next free node, else the one before.
NearestFree(tree, start) ==
    LET order == InOrder(tree)
        free == {k \in DOMAIN order : order[k].vad.type = "Free"}
        after == {k \in free : order[k].key > start}
    IN  IF after # {} THEN order[Min(after)].key
        ELSE IF free # {} THEN order[Max(free)].key
        ELSE Null

Constructed(tree, start, size) ==
    Changed(CarveVAD(tree, start, size), start, Vad(start, size, "Reserved"))

Corrupted(why) ==
    /\ vadCrashed' = why
    /\ UNCHANGED <<vadRoot, vadLastFree, vadReserved, vadLost>>

\* Where DestructVAD sets MiLastFree: the free node that has the region now.
Freed(tree, start) == NodeAt(tree, start).key

\* ConstructVAD.  With MEM_COMMIT there may not be enough pages, and then the
\* region is given back.
Reserve(start, size) ==
    LET tree == Constructed(vadRoot, start, size)
        given == DestructVAD(tree, start, size)
    IN  \/ /\ vadRoot' = tree
           /\ vadLastFree' = NearestFree(tree, start)
           /\ vadReserved' = vadReserved + size
           /\ UNCHANGED <<vadLost, vadCrashed>>
        \/ /\ ~DestructLosesVad(tree, start)
           /\ vadRoot' = given
           /\ vadLastFree' = Freed(given, start)
           /\ UNCHANGED <<vadReserved, vadLost, vadCrashed>>
        \/ /\ DestructLosesVad(tree, start)
           /\ Corrupted("vad lost")

\* ConstructVAD fails for want of memory for a split.  Only the first of two is
\* undone, and a split at the end: one at the start alone has cut the free
\* region short, and the rest is in no region any more.
ReserveFails(start, size, last) ==
    LET old == NodeAt(vadRoot, start).vad
        atEnd == SplitsAtEnd(old, start, size)
        atStart == SplitsAtStart(old, start)
    IN  \/ /\ atEnd
           /\ vadRoot' = vadRoot /\ vadLastFree' = last
           /\ UNCHANGED <<vadReserved, vadLost, vadCrashed>>
        \/ /\ atStart /\ ~atEnd
           /\ vadRoot' = Changed(vadRoot, old.start, [old EXCEPT !.size = start - old.start])
           /\ vadLastFree' = last
           /\ vadLost' = vadLost + (EndOf(old) - start)
           /\ UNCHANGED <<vadReserved, vadCrashed>>
        \/ /\ atStart /\ atEnd /\ UndoLosesVad(vadRoot, start, size)
           /\ Corrupted("vad lost")
        \/ /\ atStart /\ atEnd /\ ~UndoLosesVad(vadRoot, start, size)
           /\ vadRoot' = CarveUndone(vadRoot, start, size)
           /\ vadLastFree' = LastFreeAfterUndo(vadRoot, start, size, last)
           /\ UNCHANGED <<vadReserved, vadLost, vadCrashed>>

\* A region at an address.
AllocateAt(base, size) ==
    LET start == RoundDown(base)
        pages == WholePages(size)
    IN  /\ size <= Highest - Granularity + 1 - base
        /\ ~Conflicts(vadRoot, start, pages)
        /\ \/ Reserve(start, pages)
           \/ ReserveFails(start, pages, vadLastFree)

\* A region anywhere up to a limit; with MEM_TOP_DOWN, MiLastFree is moved to
\* it first, or to null if the limit is below all nodes, and stays there if
\* there is no room.
AllocateAnywhere(size, limit, topDown) ==
    LET pages == WholePages(size)
        last == IF ~topDown THEN vadLastFree
                ELSE IF GetVADNode(vadRoot, limit) = 0 THEN Null
                ELSE NodeAt(vadRoot, limit).key
        start == MapMemoryBlock(vadRoot, last, pages, limit)
    IN  IF RunsOff(vadRoot, last, limit) THEN Corrupted("null node")
        ELSE IF start = 0
        THEN /\ vadLastFree' = last
             /\ UNCHANGED <<vadRoot, vadReserved, vadLost, vadCrashed>>
        ELSE Reserve(start, pages) \/ ReserveFails(start, pages, last)

VadNext ==
    /\ vadCrashed = "no"
    /\ \E size \in Sizes :
         \/ \E base \in Bases : AllocateAt(base, size)
         \/ \E limit \in Limits, topDown \in BOOLEAN :
              AllocateAnywhere(size, limit, topDown)

VadSpec == VadInit /\ [][VadNext]_vadVars

-----------------------------------------------------------------------------
(* Properties.                                                              *)

\* A tree that searches find their way in and that stays low: keys in order,
\* heights right, subtrees of nearly the same height.
RECURSIVE IsAvl(_)
IsAvl(tree) ==
    tree = Nil \/
    /\ IsAvl(tree.left) /\ IsAvl(tree.right)
    /\ tree.height = Higher(tree.left.height, tree.right.height) + 1
    /\ CalcBalance(tree) \in -1..1

VadTypeOK ==
    /\ \A n \in Range(InOrder(vadRoot)) :
         n.vad.size \in Nat \ {0} /\ n.vad.type \in {"Free", "Reserved"}
    /\ vadLastFree \in Nat \union {Dangling} /\ vadReserved \in Nat /\ vadLost \in Nat
    /\ vadCrashed \in {"no", "vad lost", "null node"}

Regions == {[start |-> n.vad.start, size |-> n.vad.size] :
                n \in {m \in Range(InOrder(vadRoot)) : m.vad.type = "Reserved"}}

\* Through all splitting, merging, rotating and undoing the nodes describe the
\* user's address space in order, without overlap and in a balanced tree, and
\* nothing is missing but what failed splits have cut off.  No two free regions
\* are left side by side, where neither may be big enough for what both are.
\* MiVirtualMemoryBytesReserved is the sum of the reserved ones, and MiLastFree
\* is null or points to a node, whatever has moved.
VadsPartition ==
    LET order == InOrder(vadRoot)
    IN  /\ VadTypeOK
        /\ vadLastFree = Null \/ PlaceOf(vadRoot, vadLastFree) # 0
        /\ vadReserved = MapThenSumSet(LAMBDA r : r.size, Regions)
        /\ IsAvl(vadRoot)
        /\ MapThenSumSet(LAMBDA n : n.vad.size, Range(order)) + vadLost = Highest
        /\ order[1].key = Lowest /\ EndOf(Last(order).vad) <= Lowest + Highest
        /\ \A k \in DOMAIN order : order[k].key = order[k].vad.start
        /\ \A k \in 1..(Len(order) - 1) :
             /\ EndOf(order[k].vad) <= order[k + 1].key
             /\ ~(order[k].vad.type = "Free" /\ order[k + 1].vad.type = "Free")

\* What is reserved in the tree is what has been promised to callers, up to the
\* end of the first region: the search backwards heeds no limit.
Space == INSTANCE AddressSpace WITH regions <- Regions, Highest <- Lowest + Highest - 1

VadImplementsAddressSpace == Space!Spec
=============================================================================
