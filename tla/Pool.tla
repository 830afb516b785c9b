--------------------------------- MODULE Pool ---------------------------------
(***************************************************************************)
(* The pool allocator, src/nboxkrnl/ex/pool.cpp: blocks of up to half a    *)
(* page are chunks of a page that was cut into chunks of one size, with a  *)
(* header in front; larger ones are pages of their own.  A pointer does    *)
(* not say which it is but by its alignment.                               *)
(*                                                                         *)
(* PoolLock makes each routine one step.  Pages come from SystemMemory's   *)
(* MiAllocateSystemMemory, which here gives the first that are free; where *)
(* it fails nothing changes.  Callers free what they were given, once.     *)
(* Tags are only compared in assertions and are left out.                  *)
(***************************************************************************)
EXTENDS Integers, Sequences, FiniteSets, SequencesExt

CONSTANTS
    PoolSize,      \* POOL_SIZE, a page
    ChunkOverhead, \* CHUNK_OVERHEAD
    ChunkUnit,     \* 1 << CHUNK_SHIFT
    PoolPages,     \* bound: pages of system memory
    PoolBytes      \* bound: sizes asked for

ASSUME PoolAssumption ==
    /\ ChunkUnit \in Nat \ {0} /\ PoolSize \in Nat \ {0} /\ PoolSize % (2 * ChunkUnit) = 0
    /\ ChunkOverhead \in 1..(ChunkUnit - 1)
    /\ PoolPages \in Nat \ {0} /\ PoolBytes \subseteq Nat

\* NUM_CHUNK_LISTS, as the index of the last list.
LastList == (PoolSize \div 2) \div ChunkUnit - 1

VARIABLES
    poolLists, \* ChunkListsHead, the chunks along the links
    poolCut,   \* pages that CreatePool has cut, with the size of their chunks
    poolBlocks \* what callers hold: the pointer, the bytes they asked for, and
               \* what is stored in front (Busy.Size) or, of pages, their size

poolVars == <<poolLists, poolCut, poolBlocks>>

PoolInit ==
    /\ poolLists = [i \in 0..LastList |-> <<>>]
    /\ poolCut = {} /\ poolBlocks = {}

IsPages(p) == p % PoolSize = 0      \* CHECK_ALIGNMENT(P, POOL_SIZE)

\* What a block takes up, its header included.
BlockStart(b) == IF IsPages(b.at) THEN b.at ELSE b.at - ChunkOverhead
ExQueryPoolBlockSize(b) == IF IsPages(b.at) THEN b.size ELSE b.size - ChunkOverhead

PageFree(p) ==
    /\ \A c \in poolCut : c.page # p
    /\ \A b \in poolBlocks : IsPages(b.at) => p \notin b.at..(b.at + b.size - 1)

\* The first n pages in a row that are free, none if there are none.
PagesInRow(n) ==
    LET free(k) == \A j \in k..(k + n - 1) : j <= PoolPages /\ PageFree(j * PoolSize)
    IN  {k * PoolSize : k \in {k \in 1..PoolPages : free(k) /\ \A j \in 1..(k - 1) : ~free(j)}}

\* Mutant: the rest of the page becomes a chunk, too.
ChunksRoundedUp(page, size) ==
    [i \in 1..((PoolSize + size - 1) \div size) |-> page + (i - 1) * size]

\* The chunks of CreatePool, as they are linked.
Chunks(page, size) == [i \in 1..(PoolSize \div size) |-> page + (i - 1) * size]

ListIdx(bytes) == (bytes + ChunkOverhead - 1) \div ChunkUnit

\* AllocChunk, from a list that has chunks.
TakeChunk(list, size, bytes) ==
    /\ poolLists' = [poolLists EXCEPT ![ListIdx(bytes)] = Tail(list)]
    /\ poolBlocks' = poolBlocks \union
           {[at |-> Head(list) + ChunkOverhead, bytes |-> bytes, size |-> size]}

AllocChunk(bytes) ==
    LET list == poolLists[ListIdx(bytes)]
        size == (ListIdx(bytes) + 1) * ChunkUnit
    IN  \/ list # <<>> /\ TakeChunk(list, size, bytes) /\ UNCHANGED poolCut
        \/ /\ list = <<>>
           /\ \E page \in PagesInRow(1) :
                /\ poolCut' = poolCut \union {[page |-> page, size |-> size]}
                /\ TakeChunk(Chunks(page, size), size, bytes)

AllocPages(bytes) ==
    LET n == (bytes + PoolSize - 1) \div PoolSize
    IN  \E page \in PagesInRow(n) :
          /\ poolBlocks' = poolBlocks \union
                 {[at |-> page, bytes |-> bytes, size |-> n * PoolSize]}
          /\ UNCHANGED <<poolLists, poolCut>>

ExAllocatePoolWithTag(bytes) ==
    IF bytes > PoolSize \div 2 - ChunkOverhead THEN AllocPages(bytes) ELSE AllocChunk(bytes)

\* ExFreePoolWithTag: FreeChunk puts the chunk in front of the list of the size
\* in its header.
ExFreePool(b) ==
    /\ poolBlocks' = poolBlocks \ {b}
    /\ poolLists' = IF IsPages(b.at) THEN poolLists
                    ELSE [poolLists EXCEPT ![(b.size - 1) \div ChunkUnit] = <<BlockStart(b)>> \o @]
    /\ UNCHANGED poolCut

PoolNext ==
    \/ \E bytes \in PoolBytes : ExAllocatePoolWithTag(bytes)
    \/ \E b \in poolBlocks : ExFreePool(b)

PoolSpec == PoolInit /\ [][PoolNext]_poolVars

-----------------------------------------------------------------------------
(* Properties.                                                              *)

PoolTypeOK ==
    /\ DOMAIN poolLists = 0..LastList
    /\ \A i \in 0..LastList : poolLists[i] \in Seq(Nat)
    /\ poolBlocks \subseteq [at : Nat, bytes : PoolBytes, size : Nat]

\* Where chunks and pages lie that are held or can be handed out.
Extents ==
    {[first |-> BlockStart(b), size |-> b.size] : b \in poolBlocks}
    \union UNION {{[first |-> poolLists[i][k], size |-> (i + 1) * ChunkUnit] :
                       k \in DOMAIN poolLists[i]} : i \in 0..LastList}

\* However sizes are mixed, blocks are apart from each other and from all that
\* the lists can hand out, and lie in the page that was cut for their size; a
\* list has no chunk twice and no chunk is lost; a caller has room for what it
\* asked for, and the alignment of its pointer says how to free it.
PoolBlocksApart ==
    /\ PoolTypeOK
    /\ \A x \in Extents, y \in Extents :
         x = y \/ x.first + x.size <= y.first \/ y.first + y.size <= x.first
    /\ \A i \in 0..LastList : IsInjective(poolLists[i])
    /\ \A b \in poolBlocks :
         /\ b.bytes <= ExQueryPoolBlockSize(b)
         /\ IsPages(b.at) <=> b.bytes > PoolSize \div 2 - ChunkOverhead
         /\ \A i \in 0..LastList : BlockStart(b) \notin Range(poolLists[i])
    /\ \A c \in poolCut :
         {x \in Extents : x.first \in c.page..(c.page + PoolSize - 1)}
             = {[first |-> f, size |-> c.size] : f \in {c.page + k * c.size : k \in 0..(PoolSize \div c.size - 1)}}
=============================================================================
