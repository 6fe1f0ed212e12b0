-------------------------------- MODULE Heap5 --------------------------------
(***************************************************************************)
(* The allocator of src/middlewares/FreeRTOS-Kernel/portable/MemMang/      *)
(* heap_5.c with one region: the list of free blocks in the order of the   *)
(* links, first fit with splitting, and the insertion that joins a freed   *)
(* block with its neighbours.  Memory is counted in alignment units (8     *)
(* bytes), the size of a block header: an address is the unit its header   *)
(* is in, and sizes include the header.                                    *)
(*                                                                         *)
(* A heap is a record: the free list, xFreeBytesRemaining, and what the    *)
(* headers of the blocks given away say of their sizes.                    *)
(***************************************************************************)
EXTENDS Integers, Sequences, FiniteSets, FiniteSetsExt

NULL == -1

\* heapMINIMUM_BLOCK_SIZE: two headers.
MinimumBlock == 2

\* The blocks of the list in front of an address; the iterator of the insertion
\* stops at the last of them (xStart if there is none).
InFront(list, at) == {i \in DOMAIN list : list[i].at < at}

\* Whether the block b ends where the block c begins.
NeverTouches(b, c) == FALSE                            \* mutant
Touches(b, c) == b.at + b.size = c.at

Join(b, c) == [b EXCEPT !.size = @ + c.size]

\* prvInsertBlockIntoFreeList.
Insert(list, block) ==
    LET before == Cardinality(InFront(list, block.at))
        joinsFront == before > 0 /\ Touches(list[before], block)
        front == IF joinsFront THEN Join(list[before], block) ELSE block
        joinsBack == before < Len(list) /\ Touches(front, list[before + 1])
        whole == IF joinsBack THEN Join(front, list[before + 1]) ELSE front
    IN  SubSeq(list, 1, IF joinsFront THEN before - 1 ELSE before)
          \o <<whole>>
          \o SubSeq(list, IF joinsBack THEN before + 2 ELSE before + 1, Len(list))

\* vPortDefineHeapRegions of one aligned region: all of it is one free block,
\* but for the end marker.
DefineRegion(size) ==
    [free |-> <<[at |-> 0, size |-> size - 1]>>,
     left |-> size - 1,
     used |-> << >>]

\* The walk of pvPortMalloc along the list: the blocks it can stop at.
Fitting(h, n) == {i \in DOMAIN h.free : h.free[i].size >= n}

\* Whether pvPortMalloc returns a block.
CanMalloc(h, n) == n <= h.left /\ Fitting(h, n) # {}

\* What is left over is put back when it is more than the minimum.
NeverSplit(rest) == FALSE                              \* mutant
Splits(rest) == rest > MinimumBlock

\* pvPortMalloc of a block that CanMalloc.
Malloc(h, n) ==
    LET i == Min(Fitting(h, n))
        block == h.free[i]
        others == SubSeq(h.free, 1, i - 1) \o SubSeq(h.free, i + 1, Len(h.free))
        rest == [at |-> block.at + n, size |-> block.size - n]
        size == IF Splits(rest.size) THEN n ELSE block.size
    IN  [free |-> IF Splits(rest.size) THEN Insert(others, rest) ELSE others,
         left |-> h.left - size,
         used |-> [a \in DOMAIN h.used \cup {block.at} |->
                      IF a = block.at THEN size ELSE h.used[a]]]

\* The pointer pvPortMalloc returns.
MallocAt(h, n) == h.free[Min(Fitting(h, n))].at

\* vPortFree of a block the heap gave away: the size is that of its header.
Free(h, a) ==
    [free |-> Insert(h.free, [at |-> a, size |-> h.used[a]]),
     left |-> h.left + h.used[a],
     used |-> [b \in DOMAIN h.used \ {a} |-> h.used[b]]]

-----------------------------------------------------------------------------

\* The units a heap's blocks cover, given away or free.
UnitsOf(at, size) == at .. at + size - 1

\* The blocks of a region of the given size cover it exactly once, and the free
\* list is in the order of the addresses with no two neighbours left apart.
Tiled(h, size) ==
    /\ \A i \in 1 .. Len(h.free) - 1 :
          h.free[i].at + h.free[i].size < h.free[i + 1].at
    /\ \A a \in DOMAIN h.used : \A i \in DOMAIN h.free :
          UnitsOf(a, h.used[a]) \cap UnitsOf(h.free[i].at, h.free[i].size) = {}
    /\ \A a, b \in DOMAIN h.used :
          a # b => UnitsOf(a, h.used[a]) \cap UnitsOf(b, h.used[b]) = {}
    /\ UNION ({UnitsOf(a, h.used[a]) : a \in DOMAIN h.used}
              \cup {UnitsOf(h.free[i].at, h.free[i].size) : i \in DOMAIN h.free})
         = 0 .. size - 2

\* The units of the blocks of the free list.
FreeUnits(h) ==
    UNION {UnitsOf(h.free[i].at, h.free[i].size) : i \in DOMAIN h.free}

\* xFreeBytesRemaining is what the free blocks add up to: no two of a tiled heap
\* share a unit.
CountTrue(h) == h.left = Cardinality(FreeUnits(h))
=============================================================================
