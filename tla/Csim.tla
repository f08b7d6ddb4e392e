-------------------------------- MODULE Csim --------------------------------
(***************************************************************************)
(* The cache simulator icslabs/lab8/csim.c: main reads a trace line by      *)
(* line, and cache_deal plays each access on an array of lines whose time   *)
(* stamps age with every access to their set.  The program is sequential.   *)
(*                                                                         *)
(* The trace is any sequence of lines.  Sets and BlockBytes stand for the   *)
(* powers of two 1 << s_num and 1 << b_num.                                 *)
(***************************************************************************)
EXTENDS Integers, FiniteSetsExt

CONSTANTS Addr,         \* addresses that occur in the trace, and the initial 0
          BlockBytes,   \* bytes per block
          Sets,         \* cache sets
          E,            \* lines per set
          INT_MAX,      \* the largest int
          MaxLines      \* bound on the lines of the trace

ASSUME GeometryAssumption ==
  /\ BlockBytes \in Nat \ {0}
  /\ Sets \in Nat \ {0}
  /\ E \in Nat \ {0}

\* The counters and time stamps do not overflow: two accesses a line at most.
ASSUME LengthAssumption ==
  /\ MaxLines \in Nat
  /\ INT_MAX \in Nat
  /\ 2 * MaxLines <= INT_MAX

Int32(n) == IF n \in -(INT_MAX + 1) .. INT_MAX
            THEN n
            ELSE ((n + INT_MAX + 1) % (2 * (INT_MAX + 1))) - (INT_MAX + 1)

\* How cache_deal takes an address apart; the tag is cut to an int.
BlockOf(a)  == a \div BlockBytes
SetIndex(a) == BlockOf(a) % Sets
TagOf(a)    == Int32(BlockOf(a) \div Sets)

(***************************************************************************)
(* The addresses have tags that tell blocks of a set apart and that are not *)
(* the -1 of an empty line: the hit test does not look at valid.  It holds  *)
(* when every address is below 2^31 blocks times Sets.                      *)
(***************************************************************************)
ASSUME AddrAssumption ==
  /\ 0 \in Addr
  /\ Addr \subseteq Nat
  /\ \A a \in Addr : TagOf(a) # -1
  /\ \A a, c \in Addr :
       SetIndex(a) = SetIndex(c) /\ TagOf(a) = TagOf(c) => BlockOf(a) = BlockOf(c)

Way  == 1 .. E
Line == [valid : {0, 1}, tag : Int, time_stamp : Int]
Op   == {"LS", "M", "other"}   \* L and S are one case of the switch

VARIABLES
  mycache,                      \* the lines of each set
  operation, addr,              \* main's variables, kept from line to line
  deals,                        \* calls of cache_deal left for this line
  hit_num, miss_num, evc_num,   \* what is printed at the end
  lines                         \* lines read

vars == <<mycache, operation, addr, deals, hit_num, miss_num, evc_num, lines>>

TypeOK ==
  /\ mycache \in [0 .. Sets - 1 -> [Way -> Line]]
  /\ operation \in Op
  /\ addr \in Addr
  /\ deals \in 0 .. 2
  /\ hit_num \in Nat
  /\ miss_num \in Nat
  /\ evc_num \in Nat
  /\ lines \in 0 .. MaxLines

emptyLine == [valid |-> 0, tag |-> -1, time_stamp |-> 0]

\* operation has no initial value in the program.
Init ==
  /\ mycache = [s \in 0 .. Sets - 1 |-> [i \in Way |-> emptyLine]]
  /\ operation \in Op
  /\ addr = 0
  /\ deals = 0
  /\ hit_num = 0
  /\ miss_num = 0
  /\ evc_num = 0
  /\ lines = 0

(***************************************************************************)
(* main: the next line of the trace.  A line that starts with I is skipped. *)
(* Of any other, sscanf reads an operation and an address, or an operation  *)
(* only, or nothing; what it does not read keeps its value.                 *)
(***************************************************************************)
Calls(o) == CASE o = "LS" -> 1 [] o = "M" -> 2 [] OTHER -> 0

NextLine ==
  /\ deals = 0
  /\ lines < MaxLines
  /\ lines' = lines + 1

SkipLine ==
  /\ NextLine
  /\ UNCHANGED <<mycache, operation, addr, deals, hit_num, miss_num, evc_num>>

ReadLine(o, a) ==
  /\ NextLine
  /\ operation' = o
  /\ addr' = a
  /\ deals' = Calls(o)
  /\ UNCHANGED <<mycache, hit_num, miss_num, evc_num>>

Read ==
  \/ \E o \in Op, a \in Addr : ReadLine(o, a)
  \/ \E o \in Op : ReadLine(o, addr)
  \/ ReadLine(operation, addr)

-----------------------------------------------------------------------------
(***************************************************************************)
(* cache_deal: every valid line of the set ages; then the first line with   *)
(* the tag is a hit, or else the first line that is not valid is filled, or *)
(* else the line with the largest positive time stamp is replaced (the      *)
(* first of them; the first line of all if no time stamp is positive).      *)
(***************************************************************************)
\* Faulty: empty lines age too.
AgedAll(set) == [i \in Way |-> [set[i] EXCEPT !.time_stamp = Int32(@ + 1)]]

Aged(set) ==
  [i \in Way |-> IF set[i].valid = 1
                 THEN [set[i] EXCEPT !.time_stamp = Int32(@ + 1)]
                 ELSE set[i]]

WithTag(set, t) == {i \in Way : set[i].tag = t}
Empty(set)      == {i \in Way : set[i].valid = 0}

Oldest(set) ==
  LET older == {i \in Way : set[i].time_stamp > 0}
  IN  {i \in older : \A k \in older : set[k].time_stamp <= set[i].time_stamp}

Victim(set) == IF Oldest(set) = {} THEN 1 ELSE Min(Oldest(set))

\* The set of the access, aged, and its tag
Current == Aged(mycache[SetIndex(addr)])
Tag     == TagOf(addr)

Deal(line, i) ==
  /\ deals > 0
  /\ deals' = deals - 1
  /\ mycache' = [mycache EXCEPT ![SetIndex(addr)] = [Current EXCEPT ![i] = line]]
  /\ UNCHANGED <<operation, addr, lines>>

Loaded == [valid |-> 1, tag |-> Tag, time_stamp |-> 0]

\* Faulty: a hit does not make the line young (first in, first out).
HitNoReset ==
  /\ WithTag(Current, Tag) # {}
  /\ LET i == Min(WithTag(Current, Tag)) IN Deal(Current[i], i)
  /\ hit_num' = Int32(hit_num + 1)
  /\ UNCHANGED <<miss_num, evc_num>>

Hit ==
  /\ WithTag(Current, Tag) # {}
  /\ LET i == Min(WithTag(Current, Tag))
     IN  Deal([Current[i] EXCEPT !.time_stamp = 0], i)
  /\ hit_num' = Int32(hit_num + 1)
  /\ UNCHANGED <<miss_num, evc_num>>

\* Faulty: a miss that fills an empty line counts as an eviction too.
FillCountsEviction ==
  /\ WithTag(Current, Tag) = {}
  /\ Empty(Current) # {}
  /\ Deal(Loaded, Min(Empty(Current)))
  /\ miss_num' = Int32(miss_num + 1)
  /\ evc_num' = Int32(evc_num + 1)
  /\ UNCHANGED hit_num

Fill ==
  /\ WithTag(Current, Tag) = {}
  /\ Empty(Current) # {}
  /\ Deal(Loaded, Min(Empty(Current)))
  /\ miss_num' = Int32(miss_num + 1)
  /\ UNCHANGED <<hit_num, evc_num>>

\* Faulty: the replaced line keeps its tag.
EvictKeepTag ==
  /\ WithTag(Current, Tag) = {}
  /\ Empty(Current) = {}
  /\ LET i == Victim(Current)
     IN  Deal([Current[i] EXCEPT !.time_stamp = 0], i)
  /\ miss_num' = Int32(miss_num + 1)
  /\ evc_num' = Int32(evc_num + 1)
  /\ UNCHANGED hit_num

\* The replaced line keeps its valid bit.
Evict ==
  /\ WithTag(Current, Tag) = {}
  /\ Empty(Current) = {}
  /\ LET i == Victim(Current)
     IN  Deal([Loaded EXCEPT !.valid = Current[i].valid], i)
  /\ miss_num' = Int32(miss_num + 1)
  /\ evc_num' = Int32(evc_num + 1)
  /\ UNCHANGED hit_num

Next == SkipLine \/ Read \/ Hit \/ Fill \/ Evict

Spec == Init /\ [][Next]_vars
=============================================================================
