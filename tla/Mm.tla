--------------------------------- MODULE Mm ---------------------------------
(***************************************************************************)
(* The allocator of icslabs/lab7/mm.c on the simulated heap of memlib.c:    *)
(* boundary tags in the heap's own words, free lists segregated by size and *)
(* linked through the free blocks.                                          *)
(*                                                                         *)
(* Everything the allocator knows is in `mem`, one function from addresses  *)
(* to 4-byte words, as in the program.  Addresses count bytes, and 0 is     *)
(* NULL.  The program is sequential, and an action is one call from the     *)
(* client (mdriver.c); the client frees and reallocates what it holds only. *)
(* The sizes are assumed to fit an int, so nothing overflows.               *)
(***************************************************************************)
EXTENDS Integers, SequencesExt

CONSTANTS MAX_HEAP,     \* bytes of the simulated memory
          CHUNKSIZE,    \* the least extension of the heap, in bytes
          Classes,      \* number of free lists
          Request       \* sizes in bytes that the client asks for

WSIZE == 4
DSIZE == 8

\* Requests are counted in words; the first mem_sbrk of mm_init succeeds.
ASSUME HeapAssumption ==
  /\ Classes \in Nat \ {0}
  /\ CHUNKSIZE \in Nat /\ CHUNKSIZE >= 2 * DSIZE /\ CHUNKSIZE % DSIZE = 0
  /\ MAX_HEAP \in Nat /\ MAX_HEAP % DSIZE = 0
  /\ MAX_HEAP >= Classes * DSIZE + 4 * WSIZE
  /\ Request \subseteq Nat /\ \A size \in Request : size % WSIZE = 0

NULL == 0

mem_start_brk == DSIZE
mem_max_addr  == mem_start_brk + MAX_HEAP

Addr == {mem_start_brk + WSIZE * n : n \in 0 .. (MAX_HEAP \div WSIZE) - 1}

VARIABLES mem,          \* the words of the simulated memory
          mem_brk,      \* end of the heap
          class_listp,  \* the free lists' heads; NULL before mm_init
          held          \* the client's blocks: the size asked for, by pointer

vars == <<mem, mem_brk, class_listp, held>>

-----------------------------------------------------------------------------
(***************************************************************************)
(* Words: a tag, half of a pointer, the client's data, or never written.    *)
(* The operators below take the memory m and return it changed.             *)
(***************************************************************************)
PACK(size, alloc) == [size |-> size, alloc |-> alloc]
Pointer(p)        == [suc |-> p]
Data(p)           == [data |-> p]
Junk              == [junk |-> NULL]

GET_SIZE(m, p)  == m[p].size
GET_ALLOC(m, p) == m[p].alloc = 1
GET_SUC(m, p)   == m[p].suc

PUT(m, p, val)   == [m EXCEPT ![p] = val]
PUT_SUC(m, p, q) == PUT(PUT(m, p, Pointer(q)), p + WSIZE, Pointer(q))

HDRP(bp)         == bp - WSIZE
FTRP(m, bp)      == bp + GET_SIZE(m, HDRP(bp)) - DSIZE
NEXT_BLKP(m, bp) == bp + GET_SIZE(m, HDRP(bp))
PREV_BLKP(m, bp) == bp - GET_SIZE(m, bp - DSIZE)

\* Header and footer of the block at bp, whose size becomes `size`.  The words
\* between them are not defined from then on: no one may rely on the old ones.
PutTags(m, bp, size, alloc) ==
  LET ftrp == bp + size - DSIZE
  IN  [p \in Addr |-> CASE p \in {HDRP(bp), ftrp} -> PACK(size, alloc)
                       [] p \in bp .. ftrp - 1 -> Junk
                       [] OTHER -> m[p]]

(***************************************************************************)
(* The free lists.  A list's head is at get_class of its sizes, the first   *)
(* class below 32 bytes, each next one twice as far, the last without end.  *)
(***************************************************************************)
Class(size) ==
  LET below == {i \in 0 .. Classes - 2 : size < 2 ^ (i + 5)}
  IN  IF below = {} THEN Classes - 1 ELSE Min(below)

ClassAt(i)      == mem_start_brk + i * DSIZE
get_class(size) == ClassAt(Class(size))

\* The places that hold a pointer of the list whose head is at c, in order.  A
\* list has no more of them than the memory has words.
Onward(m, places) ==
  IF GET_SUC(m, Last(places)) = NULL THEN places
  ELSE Append(places, GET_SUC(m, Last(places)))

Links(m, c) ==
  LET upto[n \in 0 .. MAX_HEAP \div WSIZE] == IF n = 0 THEN <<c>> ELSE Onward(m, upto[n - 1])
  IN  upto[MAX_HEAP \div WSIZE]

List(m, i) == Tail(Links(m, ClassAt(i)))

free_from_list(m, bp) ==
  LET links  == Links(m, get_class(GET_SIZE(m, HDRP(bp))))
      before == {k \in 1 .. Len(links) - 1 : links[k + 1] = bp}
  IN  IF before = {} THEN m ELSE PUT_SUC(m, links[Min(before)], GET_SUC(m, bp))

attatch_to_list(m, bp) ==
  LET class == get_class(GET_SIZE(m, HDRP(bp)))
  IN  PUT_SUC(PUT_SUC(m, bp, GET_SUC(m, class)), class, bp)

\* The positions in list i of the blocks with room for asize bytes
Fits(m, i, asize) ==
  LET list == List(m, i)
  IN  {k \in DOMAIN list : asize <= GET_SIZE(m, HDRP(list[k]))}

FirstFit(m, i, asize) == List(m, i)[Min(Fits(m, i, asize))]

\* Faulty: looks at the list of its own class only.
find_fitOwnClass(m, asize) ==
  IF Fits(m, Class(asize), asize) = {} THEN NULL ELSE FirstFit(m, Class(asize), asize)

\* First fit, from the class of asize upwards
find_fit(m, asize) ==
  LET fitting == {i \in Class(asize) .. Classes - 1 : Fits(m, i, asize) # {}}
  IN  IF fitting = {} THEN NULL ELSE FirstFit(m, Min(fitting), asize)
-----------------------------------------------------------------------------
\* Faulty: does not merge with the block before.
coalesceNext(m, bp) ==
  LET next   == NEXT_BLKP(m, bp)
      size   == GET_SIZE(m, HDRP(bp)) + GET_SIZE(m, HDRP(next))
      merged == IF GET_ALLOC(m, HDRP(next)) THEN m
                ELSE PutTags(free_from_list(m, next), bp, size, 0)
  IN  [mem |-> attatch_to_list(merged, bp), bp |-> bp]

\* Faulty: takes the block before off the list of the merged size.
coalesceLate(m, bp) ==
  LET prev == PREV_BLKP(m, bp)
      size == GET_SIZE(m, HDRP(bp)) + GET_SIZE(m, HDRP(prev))
      suc  == GET_SUC(m, prev)
      tagged == PUT_SUC(PutTags(m, prev, size, 0), prev, suc)
  IN  IF GET_ALLOC(m, HDRP(prev))
      THEN coalesceNext(m, bp)
      ELSE [mem |-> attatch_to_list(free_from_list(tagged, prev), prev), bp |-> prev]

(***************************************************************************)
(* coalesce merges the free block at bp with its free neighbours and puts   *)
(* the result on its list.  The neighbours leave their lists, which are     *)
(* found by their sizes, before the tags change.                            *)
(***************************************************************************)
coalesce(m, bp) ==
  LET prev == PREV_BLKP(m, bp)
      next == NEXT_BLKP(m, bp)
      prev_alloc == GET_ALLOC(m, FTRP(m, prev))
      next_alloc == GET_ALLOC(m, HDRP(next))
      size == GET_SIZE(m, HDRP(bp))
             + (IF prev_alloc THEN 0 ELSE GET_SIZE(m, HDRP(prev)))
             + (IF next_alloc THEN 0 ELSE GET_SIZE(m, HDRP(next)))
      unprev == IF prev_alloc THEN m ELSE free_from_list(m, prev)
      unnext == IF next_alloc THEN unprev ELSE free_from_list(unprev, next)
      start  == IF prev_alloc THEN bp ELSE prev
      merged == IF prev_alloc /\ next_alloc THEN m ELSE PutTags(unnext, start, size, 0)
  IN  [mem |-> attatch_to_list(merged, start), bp |-> start]

\* The heap, and the new free block (NULL if memory is used up)
extend_heap(m, brk, bytes) ==
  LET size   == DSIZE * ((bytes \div WSIZE + 1) \div 2)
      tagged == PUT(PutTags(m, brk, size, 0), HDRP(brk + size), PACK(0, 1))
      free   == coalesce(tagged, brk)
  IN  IF brk + size > mem_max_addr
      THEN [mem |-> m, brk |-> brk, bp |-> NULL]
      ELSE [mem |-> free.mem, brk |-> brk + size, bp |-> free.bp]

\* Faulty: splits off a block below the minimum.
placeSmallRest(m, bp, asize) ==
  LET csize == GET_SIZE(m, HDRP(bp))
      taken == free_from_list(m, bp)
      rest  == PutTags(PutTags(taken, bp, asize, 1), bp + asize, csize - asize, 0)
  IN  IF csize - asize >= DSIZE
      THEN attatch_to_list(rest, bp + asize)
      ELSE PutTags(taken, bp, csize, 1)

place(m, bp, asize) ==
  LET csize == GET_SIZE(m, HDRP(bp))
      taken == free_from_list(m, bp)
      rest  == PutTags(PutTags(taken, bp, asize, 1), bp + asize, csize - asize, 0)
  IN  IF csize - asize >= 2 * DSIZE
      THEN attatch_to_list(rest, bp + asize)
      ELSE PutTags(taken, bp, csize, 1)

\* mm_init on the empty heap; bp is NULL if it returns -1.
mm_init ==
  LET prologue == mem_start_brk + Classes * DSIZE + DSIZE
      brk   == prologue + DSIZE
      heads == [p \in Addr |-> IF p < ClassAt(Classes) THEN Pointer(NULL) ELSE Junk]
      empty == PUT(PutTags(heads, prologue, DSIZE, 1), HDRP(brk), PACK(0, 1))
  IN  extend_heap(empty, brk, CHUNKSIZE)

\* Faulty: does not round the size up.
asizeUnrounded(size) == IF size <= DSIZE THEN 2 * DSIZE ELSE size + DSIZE

asize(size) ==
  IF size <= DSIZE THEN 2 * DSIZE ELSE DSIZE * ((size + DSIZE + (DSIZE - 1)) \div DSIZE)

\* The heap h with bp, a free block of at least a bytes (NULL if there is none)
with_fit(h, a) ==
  LET fit == find_fit(h.mem, a)
  IN  IF fit # NULL THEN [h EXCEPT !.bp = fit]
      ELSE extend_heap(h.mem, h.brk, Max({a, CHUNKSIZE}))

placed(h, a) == IF h.bp = NULL THEN h ELSE [h EXCEPT !.mem = place(h.mem, h.bp, a)]

\* mm_malloc: the heap, and the pointer it returns.  It calls mm_init first if
\* nobody has, and does not look at the result.
heap ==
  IF class_listp = NULL THEN [mm_init EXCEPT !.bp = NULL]
  ELSE [mem |-> mem, brk |-> mem_brk, bp |-> NULL]

malloc(size) ==
  IF size = 0 THEN heap ELSE placed(with_fit(heap, asize(size)), asize(size))

free(m, bp) == coalesce(PutTags(m, bp, GET_SIZE(m, HDRP(bp)), 0), bp).mem

\* memcpy of the first n bytes, by the word
memcpy(m, to, from, n) ==
  [p \in Addr |-> IF p \in to .. to + n - 1 THEN m[p - to + from] ELSE m[p]]
-----------------------------------------------------------------------------
(***************************************************************************)
(* The calls.                                                               *)
(***************************************************************************)
NoBlocks == [p \in {} |-> 0]

Blank == [p \in Addr |-> Junk]

Init ==
  /\ mem = Blank
  /\ mem_brk = mem_start_brk
  /\ class_listp = NULL
  /\ held = NoBlocks

\* mem_reset_brk() and mm_init(), as mdriver does before each trace.  What the
\* memory held is left there and is as good as never written.
MmInit ==
  /\ mem' = mm_init.mem
  /\ mem_brk' = mm_init.brk
  /\ class_listp' = mem_start_brk
  /\ held' = NoBlocks

\* What the client holds once bp, of `size` bytes, has come to `others`
With(others, bp, size) ==
  [p \in DOMAIN others \cup {bp} |-> IF p = bp THEN size ELSE others[p]]

\* A call that leaves the heap as in h and returns h.bp, a block for `size`
\* bytes (or NULL); the client has gone on holding `others`.
Returns(h, size, others) ==
  /\ mem' = h.mem
  /\ mem_brk' = h.brk
  /\ class_listp' = mem_start_brk
  /\ held' = IF h.bp = NULL THEN held ELSE With(others, h.bp, size)

mm_malloc(size) == Returns(malloc(size), size, held)

mm_free(bp) ==
  /\ bp \in DOMAIN held
  /\ mem' = free(mem, bp)
  /\ held' = Restrict(held, DOMAIN held \ {bp})
  /\ UNCHANGED <<mem_brk, class_listp>>

\* Faulty: does not free the old block.
moveLeak(h, ptr, size) ==
  LET oldsize == Min({size, GET_SIZE(h.mem, HDRP(ptr))})
  IN  IF h.bp = NULL THEN h ELSE [h EXCEPT !.mem = memcpy(@, h.bp, ptr, oldsize)]

\* Faulty: frees the old block before it copies.
moveFreeFirst(h, ptr, size) ==
  LET oldsize == Min({size, GET_SIZE(h.mem, HDRP(ptr))})
  IN  IF h.bp = NULL THEN h
      ELSE [h EXCEPT !.mem = memcpy(free(@, ptr), h.bp, ptr, oldsize)]

\* mm_realloc once mm_malloc has returned: copy the old block, then free it.
move(h, ptr, size) ==
  LET oldsize == Min({size, GET_SIZE(h.mem, HDRP(ptr))})
  IN  IF h.bp = NULL THEN h
      ELSE [h EXCEPT !.mem = free(memcpy(@, h.bp, ptr, oldsize), ptr)]

mm_realloc(ptr, size) ==
  /\ ptr \in DOMAIN held
  /\ size # 0
  /\ Returns(move(malloc(size), ptr, size), size, Restrict(held, DOMAIN held \ {ptr}))

\* The client writes all of a block.
Write(bp) ==
  /\ bp \in DOMAIN held
  /\ mem' = [p \in Addr |-> IF p \in bp .. bp + held[bp] - 1 THEN Data(bp) ELSE mem[p]]
  /\ UNCHANGED <<mem_brk, class_listp, held>>

\* mm_free(NULL) does nothing; mm_realloc(NULL, size) is mm_malloc(size), and
\* mm_realloc(ptr, 0) is mm_free(ptr).
Next ==
  \/ MmInit
  \/ \E size \in Request : mm_malloc(size)
  \/ \E bp \in DOMAIN held : mm_free(bp) \/ Write(bp)
  \/ \E ptr \in DOMAIN held, size \in Request : mm_realloc(ptr, size)

Spec == Init /\ [][Next]_vars
=============================================================================
