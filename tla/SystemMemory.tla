----------------------------- MODULE SystemMemory -----------------------------
(***************************************************************************)
(* The allocator of system memory, src/nboxkrnl/mm/mi.cpp: pool blocks,    *)
(* kernel stacks and cache buffers are ranges of page table entries, and   *)
(* what is free is a list of blocks, by address, written into the free     *)
(* entries themselves: the first of a block holds its link, the second its *)
(* size, unless OnePte of the first says that there is no second.          *)
(*                                                                         *)
(* MiLock makes each routine one step.  Physical pages are counted, not    *)
(* named.  MiRemovePageFromFreeListInRegion takes them from the first of   *)
(* the two free lists, the even ones, as long as that has any; taking its  *)
(* last one decodes PFN_LIST_END as a page and writes outside of the PFN   *)
(* database, which is where the model stops.  The counters PtesUsed and    *)
(* MiPagesByUsage, which these routines do not read, are left out.         *)
(***************************************************************************)
EXTENDS Integers, FiniteSets

CONSTANTS
    PtesPerTable, \* PTE_PER_PAGE
    Tables,       \* page tables the region has room for
    EvenPages,    \* pages in the first free list to begin with
    OddPages,     \* pages in the second
    Requests      \* numbers of pages that are asked for

ASSUME SystemMemoryAssumption ==
    /\ PtesPerTable \in Nat \ {0} /\ Tables \in Nat \ {0}
    /\ EvenPages \in Nat /\ OddPages \in Nat
    /\ Requests \subseteq Nat \ {0}

VARIABLES
    smPtes,    \* the entries; 0 stands for the Head of the region
    smNext,    \* Next4MiBlock: the first entry without a page table
    smEven,    \* pages in the first free list
    smRegions, \* what has been allocated, as the callers know it
    smFaulted  \* the last page of the list has been taken

smVars == <<smPtes, smNext, smEven, smRegions, smFaulted>>

LastPte == PtesPerTable * Tables
PTE_LIST_END == LastPte + 2

ZeroPte == [flink |-> 0, one |-> FALSE, valid |-> FALSE, end |-> FALSE]
PagesAvailable == smEven + OddPages

SmInit ==
    /\ smPtes = [p \in 0..LastPte |-> IF p = 0 THEN [ZeroPte EXCEPT !.flink = PTE_LIST_END] ELSE ZeroPte]
    /\ smNext = 1
    /\ smEven = EvenPages
    /\ smRegions = {}
    /\ smFaulted = FALSE

-----------------------------------------------------------------------------
(* The list of free blocks.                                                 *)

BlockSize(ptes, p) == IF ptes[p].one THEN 1 ELSE ptes[p + 1].flink

\* The n entries from p on as a block in front of next.
AsBlock(ptes, p, n, next) ==
    IF n = 1 THEN [ptes EXCEPT ![p].one = TRUE, ![p].flink = next]
    ELSE [ptes EXCEPT ![p].one = FALSE, ![p].flink = next, ![p + 1].flink = n]

\* The last block, or the Head, whose successor comes after start.
BlockBefore(ptes, start) ==
    LET from[p \in 0..LastPte] ==
          LET next == ptes[p].flink
          IN  IF next = PTE_LIST_END \/ next > start THEN p ELSE from[next]
    IN  from[0]

\* Mutant: the size is written first, over the link of a next block that is
\* one entry further.
MergedSizeFirst(ptes, p, n, next) ==
    LET size == BlockSize(ptes, next) + n
        sized == [ptes EXCEPT ![p + 1].flink = size]
    IN  [sized EXCEPT ![p].one = FALSE, ![p].flink = sized[next].flink]

\* Blocks p, of n entries, and next, which follows it at once, made one.
Merged(ptes, p, n, next) ==
    [ptes EXCEPT ![p].one = FALSE, ![p].flink = ptes[next].flink,
                 ![p + 1].flink = BlockSize(ptes, next) + n]

MiReleasePtes(ptes, start, n) ==
    LET zeroed == [p \in 0..LastPte |-> IF p \in start..(start + n - 1) THEN ZeroPte ELSE ptes[p]]
        last == BlockBefore(zeroed, start)
        next == zeroed[last].flink
        inserted == [AsBlock(zeroed, start, n, next) EXCEPT ![last].flink = start]
        joined == IF next = start + n THEN Merged(inserted, start, n, next) ELSE inserted
    IN  IF last # 0 /\ last + BlockSize(joined, last) = start
        THEN Merged(joined, last, BlockSize(joined, last), start)
        ELSE joined

\* Whose successor is the first block of at least n entries; PTE_LIST_END if
\* there is no such block.
BeforeFit(ptes, n) ==
    LET from[p \in 0..LastPte] ==
          LET next == ptes[p].flink
          IN  IF next = PTE_LIST_END THEN PTE_LIST_END
              ELSE IF BlockSize(ptes, next) >= n THEN p ELSE from[next]
    IN  from[0]

HasFit(ptes, n) == BeforeFit(ptes, n) # PTE_LIST_END
FirstFit(ptes, n) == ptes[BeforeFit(ptes, n)].flink

\* MiReservePtes where a block fits: its first n entries are cut off.
Reserved(ptes, n) ==
    LET last == BeforeFit(ptes, n)
        p == ptes[last].flink
        left == BlockSize(ptes, p) - n
    IN  IF left = 0 THEN [ptes EXCEPT ![last].flink = ptes[p].flink]
        ELSE [AsBlock(ptes, p + n, left, ptes[p].flink) EXCEPT ![last].flink = p + n]

-----------------------------------------------------------------------------
(* Operations.                                                              *)

\* Page tables MiReservePtes adds, and the entries then.
TablesFor(n) == IF HasFit(smPtes, n) THEN 0 ELSE (n + PtesPerTable - 1) \div PtesPerTable
WithTables(n) ==
    IF HasFit(smPtes, n) THEN smPtes
    ELSE MiReleasePtes(smPtes, smNext, TablesFor(n) * PtesPerTable)

\* The entries of a region written: the guard page stays zero, the last one is
\* marked.
Mapped(ptes, region) ==
    [p \in 0..LastPte |->
        IF p \notin region.first..region.last THEN ptes[p]
        ELSE IF region.guard /\ p = region.first THEN ZeroPte
        ELSE [ZeroPte EXCEPT !.valid = TRUE, !.end = (p = region.last)]]

MiAllocateSystemMemory(pages, guard) ==
    LET n == pages + (IF guard THEN 1 ELSE 0)
        tables == TablesFor(n)
        ptes == WithTables(n)
        region == [first |-> FirstFit(ptes, n), last |-> FirstFit(ptes, n) + n - 1, guard |-> guard]
        enough == pages <= PagesAvailable - tables
        taken == tables + (IF enough THEN pages ELSE 0)
    IN  /\ pages <= PagesAvailable
        /\ tables <= PagesAvailable
        /\ smNext + tables * PtesPerTable - 1 <= LastPte
        /\ smFaulted' = (taken >= smEven /\ taken > 0)
        /\ IF smFaulted' THEN UNCHANGED <<smPtes, smNext, smEven, smRegions>>
           ELSE /\ smNext' = smNext + tables * PtesPerTable
                /\ smEven' = smEven - taken
                /\ IF enough
                   THEN /\ smPtes' = Mapped(Reserved(ptes, n), region)
                        /\ smRegions' = smRegions \union {region}
                   ELSE /\ smPtes' = MiReleasePtes(Reserved(ptes, n), region.first, n)
                        /\ UNCHANGED smRegions

\* A stack is freed with its size and from its guard page on, pool memory
\* without one, up to the entry that is marked as its end.
FreedUpTo(region) ==
    IF region.guard THEN region.last
    ELSE CHOOSE p \in region.first..LastPte :
           smPtes[p].end /\ \A q \in region.first..(p - 1) : ~smPtes[q].end

MiFreeSystemMemory(region) ==
    LET range == region.first..FreedUpTo(region)
    IN  /\ smPtes' = MiReleasePtes(smPtes, region.first, Cardinality(range))
        /\ smEven' = smEven + Cardinality({p \in range : smPtes[p].valid})
        /\ smRegions' = smRegions \ {region}
        /\ UNCHANGED <<smNext, smFaulted>>

SmNext ==
    /\ ~smFaulted
    /\ \/ \E pages \in Requests, guard \in BOOLEAN : MiAllocateSystemMemory(pages, guard)
       \/ \E region \in smRegions : MiFreeSystemMemory(region)

SmSpec == SmInit /\ [][SmNext]_smVars

-----------------------------------------------------------------------------
(* Properties.                                                              *)

SmTypeOK ==
    /\ smPtes \in [0..LastPte -> [flink : 0..PTE_LIST_END, one : BOOLEAN,
                                  valid : BOOLEAN, end : BOOLEAN]]
    /\ smNext \in 1..(LastPte + 1)
    /\ smEven \in 0..EvenPages
    /\ smFaulted \in BOOLEAN

\* The free blocks, found along the links however these may run.
SmBlocks ==
    LET nth[k \in 0..LastPte] ==
          IF k = 0 \/ nth[k - 1] \notin 0..LastPte THEN smPtes[0].flink
          ELSE smPtes[nth[k - 1]].flink
    IN  {nth[k] : k \in 0..LastPte} \ {PTE_LIST_END}

\* However memory is allocated and freed, the free blocks and what is allocated
\* divide the entries that have a page table between them.  The list is by
\* address and no two blocks in it touch, so that no space is lost to pieces.
\* Of an allocation all but the guard page are mapped, nothing else is, and only
\* its last entry is marked.  No physical page is lost.
SmPtesPartition ==
    /\ SmTypeOK
    /\ \A b \in SmBlocks :
         /\ b \in 1..LastPte /\ (~smPtes[b].one => b < LastPte)
         /\ b + BlockSize(smPtes, b) \in (b + 1)..smNext
         /\ smPtes[b].flink > b + BlockSize(smPtes, b)
    /\ \A b \in SmBlocks, c \in SmBlocks :
         b < c => b + BlockSize(smPtes, b) < c
    /\ \A r \in smRegions, s \in smRegions :
         r = s \/ r.last < s.first \/ s.last < r.first
    /\ \A p \in 1..(smNext - 1) :
         (\E b \in SmBlocks : p \in b..(b + BlockSize(smPtes, b) - 1))
           <=> ~(\E r \in smRegions : p \in r.first..r.last)
    /\ \A p \in 1..LastPte :
         /\ smPtes[p].valid <=> \E r \in smRegions :
              p \in r.first..r.last /\ ~(r.guard /\ p = r.first)
         /\ smPtes[p].end <=> \E r \in smRegions : p = r.last
    /\ smEven + Cardinality({p \in 1..LastPte : smPtes[p].valid})
         + (smNext - 1) \div PtesPerTable = EvenPages
=============================================================================
