------------------------------ MODULE LruCache ------------------------------
(***************************************************************************)
(* A set-associative cache with least-recently-used replacement, as it is   *)
(* defined and not as it is programmed: which blocks are cached, which of   *)
(* two cached blocks of a set was used before the other, and the counts     *)
(* that the simulator of icslabs/lab8/csim.c prints.                        *)
(***************************************************************************)
EXTENDS Naturals, FiniteSets

CONSTANTS Block,      \* memory blocks
          SetOf,      \* the cache set of each block
          Ways        \* lines per set

VARIABLES access,     \* the block to be used
          cached,     \* the blocks in the cache
          before,     \* <<b, c>> : b was last used before c was
          hits, misses, evictions

counts  == <<hits, misses, evictions>>
lruVars == <<access, cached, before, counts>>

Resident(b) == {c \in cached : SetOf[c] = SetOf[b]}

\* b is used, and the cache then holds the blocks of C.
Use(b, C) ==
  /\ access' = access
  /\ cached' = C
  /\ before' = {r \in before : {r[1], r[2]} \subseteq C \ {b}}
                 \cup {<<c, b>> : c \in {d \in C \ {b} : SetOf[d] = SetOf[b]}}

Init ==
  /\ access \in Block
  /\ cached = {}
  /\ before = {}
  /\ hits = 0
  /\ misses = 0
  /\ evictions = 0

Choose(b) ==
  /\ access' = b
  /\ UNCHANGED <<cached, before, counts>>

Hit(b) ==
  /\ b \in cached
  /\ Use(b, cached)
  /\ hits' = hits + 1
  /\ UNCHANGED <<misses, evictions>>

Fill(b) ==
  /\ b \notin cached
  /\ Cardinality(Resident(b)) < Ways
  /\ Use(b, cached \cup {b})
  /\ misses' = misses + 1
  /\ UNCHANGED <<hits, evictions>>

\* The block that leaves was last used before every other block of the set.
Evict(b) ==
  /\ b \notin cached
  /\ Cardinality(Resident(b)) = Ways
  /\ \E v \in Resident(b) :
       /\ \A c \in Resident(b) \ {v} : <<v, c>> \in before
       /\ Use(b, (cached \ {v}) \cup {b})
  /\ misses' = misses + 1
  /\ evictions' = evictions + 1
  /\ UNCHANGED hits

Next == (\E b \in Block : Choose(b)) \/ Hit(access) \/ Fill(access) \/ Evict(access)

Spec == Init /\ [][Next]_lruVars
=============================================================================
