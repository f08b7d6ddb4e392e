--------------------------- MODULE CsimProperties ---------------------------
(***************************************************************************)
(* What the cache simulator must do, stated over module Csim.               *)
(***************************************************************************)
EXTENDS Csim

\* The blocks of the trace, their sets and their tags
Block == {BlockOf(a) : a \in Addr}
SetOf == [b \in Block |-> b % Sets]
BlockTag(b) == Int32(b \div Sets)

\* Line l, of the set of block b, holds b.
Holds(l, b) == l.valid = 1 /\ l.tag = BlockTag(b)

CachedBlocks == {b \in Block : \E i \in Way : Holds(mycache[SetOf[b]][i], b)}

UsedBefore ==
  {r \in Block \X Block :
     /\ SetOf[r[1]] = SetOf[r[2]]
     /\ \E i, k \in Way :
          LET set == mycache[SetOf[r[1]]]
          IN  /\ Holds(set[i], r[1])
              /\ Holds(set[k], r[2])
              /\ set[i].time_stamp > set[k].time_stamp}

(***************************************************************************)
(* The simulator implements an LRU cache: its hit, miss and eviction counts *)
(* are those of a cache that replaces the least recently used block of a    *)
(* set, although it only ages time stamps and never compares valid bits.    *)
(***************************************************************************)
Lru == INSTANCE LruCache WITH Ways <- E, access <- BlockOf(addr),
         cached <- CachedBlocks, before <- UsedBefore, hits <- hit_num, misses <- miss_num, evictions <- evc_num
ImplementsLru == Lru!Spec

(***************************************************************************)
(* The counts agree with the contents: every miss loads a block and every   *)
(* eviction drops one, so their difference is the number of valid lines.    *)
(***************************************************************************)
ValidLines == {l \in (0 .. Sets - 1) \X Way : mycache[l[1]][l[2]].valid = 1}

CountsMatchContents == miss_num - evc_num = Cardinality(ValidLines)

(***************************************************************************)
(* The second of the two accesses of a modify (M) always hits.              *)
(***************************************************************************)
ModifyHits ==
  [][operation = "M" /\ deals = 1 /\ deals' = 0 => hit_num' = hit_num + 1]_vars

(***************************************************************************)
(* The inductive invariant behind the refinement: the valid lines of a set  *)
(* have different tags and different time stamps, hold blocks of the trace  *)
(* that belong to the set, and have time stamps below the number of         *)
(* accesses; the others are as they were initialised.                       *)
(***************************************************************************)
LinesApart ==
  \A s \in 0 .. Sets - 1 : \A i, k \in Way :
    LET l == mycache[s][i]
        m == mycache[s][k]
    IN  l.valid = 1 /\ m.valid = 1 /\ i # k =>
          l.tag # m.tag /\ l.time_stamp # m.time_stamp

LinesHold ==
  \A s \in 0 .. Sets - 1 : \A i \in Way :
    LET l == mycache[s][i]
    IN  IF l.valid = 1
        THEN /\ \E a \in Addr : SetIndex(a) = s /\ TagOf(a) = l.tag
             /\ l.time_stamp \in 0 .. 2 * lines - deals
        ELSE l = emptyLine

\* The counts are those of the accesses made.
CountsBounded ==
  /\ hit_num + miss_num <= 2 * lines - deals
  /\ evc_num <= miss_num

\* Between the two accesses of a modify, the block is in the cache.
ModifyLoaded ==
  operation = "M" /\ deals = 1 => WithTag(mycache[SetIndex(addr)], Tag) # {}

CsimInv == TypeOK /\ LinesApart /\ LinesHold /\ CountsBounded /\ ModifyLoaded
=============================================================================
