---------------------------- MODULE MmProperties ----------------------------
(***************************************************************************)
(* What the allocator must do, stated over module Mm.                       *)
(***************************************************************************)
EXTENDS Mm

Word == UNION {[size : 0 .. MAX_HEAP, alloc : {0, 1}],
               [suc : Addr \cup {NULL}], [data : Addr], {Junk}}

\* Sizes and pointers keep the alignment of two words.
TypeOK ==
  /\ mem \in [Addr -> Word]
  /\ mem_brk \in mem_start_brk .. mem_max_addr /\ mem_brk % DSIZE = 0
  /\ class_listp \in {NULL, mem_start_brk}
  /\ \A p \in DOMAIN held : p \in Addr /\ p % DSIZE = 0 /\ held[p] \in Request

-----------------------------------------------------------------------------
(***************************************************************************)
(* The heap as a walk over its headers sees it.                             *)
(***************************************************************************)
IsTag(p) == "size" \in DOMAIN mem[p]
SizeAt(p) == GET_SIZE(mem, HDRP(p))
Allocated(p) == GET_ALLOC(mem, HDRP(p))

first_block == ClassAt(Classes) + 2 * DSIZE

WellFormed(p) ==
  /\ p \in first_block .. mem_brk - 2 * DSIZE /\ p % DSIZE = 0
  /\ IsTag(HDRP(p))
  /\ SizeAt(p) >= 2 * DSIZE /\ SizeAt(p) % DSIZE = 0 /\ p + SizeAt(p) <= mem_brk
  /\ mem[FTRP(mem, p)] = mem[HDRP(p)]

Walk ==
  LET from[p \in first_block .. mem_brk] ==
        IF WellFormed(p) THEN {p} \cup from[p + SizeAt(p)] ELSE {p}
  IN  from[first_block]

Blocks == Walk \ {mem_brk}
FreeBlocks == {p \in Blocks : ~Allocated(p)}

Ready == class_listp # NULL

(***************************************************************************)
(* The boundary tags are never damaged: the walk from the first header      *)
(* meets well-formed blocks only, whose footers agree with their headers,   *)
(* and ends at the epilogue, whatever is split, merged, or written by the   *)
(* client into its own blocks.                                              *)
(***************************************************************************)
HeapTiled ==
  Ready =>
    /\ \A p \in Blocks : WellFormed(p)
    /\ mem_brk \in Walk
    /\ mem[HDRP(mem_brk)] = PACK(0, 1)

\* No two free blocks are neighbours: coalesce merges all it can, when a block
\* is freed and when the heap is extended.
FreeApart ==
  Ready => \A p \in FreeBlocks : p + SizeAt(p) \notin FreeBlocks

(***************************************************************************)
(* Each free list holds exactly the free blocks of its class, each once:    *)
(* none is lost, listed twice, or left on a list when it is allocated, is   *)
(* merged, or changes its class.                                            *)
(***************************************************************************)
FreeOf(i) == {p \in FreeBlocks : Class(SizeAt(p)) = i}
IsLink(p) == "suc" \in DOMAIN mem[p]

ListsHoldFree ==
  Ready => \A i \in 0 .. Classes - 1 :
    /\ \A p \in {ClassAt(i)} \cup FreeOf(i) :
         IsLink(p) /\ GET_SUC(mem, p) \in FreeOf(i) \cup {NULL}
    /\ ToSet(List(mem, i)) = FreeOf(i)
    /\ IsInjective(List(mem, i))

(***************************************************************************)
(* The allocated blocks are the ones the client holds, so nothing leaks,    *)
(* and each has room for what was asked.                                    *)
(***************************************************************************)
HeldAllocated ==
  Ready =>
    /\ Blocks \ FreeBlocks = DOMAIN held
    /\ \A p \in DOMAIN held : held[p] + DSIZE <= SizeAt(p)

\* find_fit fails only when no free block is large enough.
FitFound ==
  Ready => \A size \in Request :
    find_fit(mem, asize(size)) = NULL => \A p \in FreeBlocks : SizeAt(p) < asize(size)

(***************************************************************************)
(* The allocator keeps the promise of module Heap: the client's blocks are  *)
(* aligned and disjoint, keep their contents while it allocates, frees and  *)
(* reallocates others, and a reallocation moves the contents, or leaves     *)
(* the block alone if it fails.                                             *)
(***************************************************************************)
ClientBlock ==
  [p \in DOMAIN held |-> [k \in 1 .. held[p] \div WSIZE |-> mem[p + WSIZE * (k - 1)]]]

H == INSTANCE Heap WITH Align <- DSIZE, WordBytes <- WSIZE, block <- ClientBlock
ImplementsHeap == H!Spec
=============================================================================
