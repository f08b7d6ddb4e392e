-------------------------------- MODULE Heap --------------------------------
(***************************************************************************)
(* What a memory allocator promises to its client: blocks of words that do  *)
(* not overlap, that are aligned, whose words nobody but the client         *)
(* changes, and that a reallocation moves with their contents.  A request   *)
(* may always fail, and then nothing changes.                               *)
(***************************************************************************)
EXTENDS Integers, Sequences

CONSTANTS Align,      \* pointers are multiples of Align
          WordBytes   \* bytes in a word

VARIABLE block        \* the words of each block, by the pointer to it

Held == DOMAIN block
New  == block'

Bytes(p, n) == p .. p + n * WordBytes - 1

\* Pointer p, not in `others`, to a block that overlaps none of `others`
Fresh(p, others) ==
  /\ p % Align = 0
  /\ \A q \in others :
       Bytes(p, Len(New[p])) \cap Bytes(q, Len(block[q])) = {}

Keep(others) == \A q \in others : New[q] = block[q]

Common(p, q) ==
  LET n == IF Len(block[p]) < Len(New[q]) THEN Len(block[p]) ELSE Len(New[q])
  IN  SubSeq(New[q], 1, n) = SubSeq(block[p], 1, n)

Init == block = << >>

Malloc ==
  \E p \in DOMAIN New \ Held :
    /\ DOMAIN New = Held \cup {p}
    /\ Fresh(p, Held)
    /\ Keep(Held)

Free ==
  \E p \in Held :
    /\ DOMAIN New = Held \ {p}
    /\ Keep(Held \ {p})

\* The block may move, anywhere but onto another block.
Realloc ==
  \E p \in Held, q \in DOMAIN New :
    LET others == Held \ {p}
    IN  /\ q \notin others
        /\ DOMAIN New = others \cup {q}
        /\ Fresh(q, others)
        /\ Keep(others)
        /\ Common(p, q)

\* The client writes into one of its blocks.
Write ==
  \E p \in Held :
    /\ DOMAIN New = Held
    /\ Keep(Held \ {p})
    /\ Len(New[p]) = Len(block[p])

\* The client forgets all of its blocks and starts again.
Restart == New = << >>

Next == Malloc \/ Free \/ Realloc \/ Write \/ Restart

Spec == Init /\ [][Next]_block
=============================================================================
