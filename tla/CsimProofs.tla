----------------------------- MODULE CsimProofs -----------------------------
(***************************************************************************)
(* Proofs about the cache simulator: its invariant, and that it implements  *)
(* an LRU cache, for any geometry and any trace.                            *)
(***************************************************************************)
EXTENDS CsimProperties, NatSets, FiniteSetTheorems

-----------------------------------------------------------------------------
(***************************************************************************)
(* The parts of an address.                                                 *)
(***************************************************************************)
SetId == 0 .. Sets - 1

LEMMA DivMod ==
  ASSUME NEW a \in Nat, NEW n \in Nat \ {0}
  PROVE  a \div n \in Nat /\ a % n \in 0 .. n - 1
OBVIOUS

LEMMA Int32Type ==
  /\ \A n \in Int : Int32(n) \in Int
  /\ \A n \in 0 .. INT_MAX : Int32(n) = n
BY LengthAssumption DEF Int32

LEMMA AddrParts ==
  ASSUME NEW a \in Addr
  PROVE  BlockOf(a) \in Nat /\ SetIndex(a) \in SetId /\ TagOf(a) \in Int \ {-1}
<1>1. a \in Nat /\ TagOf(a) # -1
  BY AddrAssumption
<1>2. BlockOf(a) \in Nat
  BY <1>1, DivMod, GeometryAssumption DEF BlockOf
<1>3. SetIndex(a) \in SetId
  BY <1>2, DivMod, GeometryAssumption DEF SetIndex, SetId
<1>4. BlockOf(a) \div Sets \in Int
  BY <1>2, DivMod, GeometryAssumption
<1>5. TagOf(a) \in Int
  BY <1>4, Int32Type DEF TagOf
<1> QED
  BY <1>1, <1>2, <1>3, <1>5

-----------------------------------------------------------------------------
(***************************************************************************)
(* What the aging at the start of cache_deal makes of the set.              *)
(***************************************************************************)
LEMMA CurrentLines ==
  ASSUME CsimInv, deals > 0
  PROVE  LET old == mycache[SetIndex(addr)]
         IN  /\ SetIndex(addr) \in SetId
             /\ old \in [Way -> Line]
             /\ Current \in [Way -> Line]
             /\ \A i \in Way :
                  /\ Current[i].valid = old[i].valid
                  /\ Current[i].tag = old[i].tag
                  /\ old[i].valid = 1 =>
                       /\ Current[i].time_stamp = old[i].time_stamp + 1
                       /\ old[i].time_stamp \in 0 .. 2 * lines - deals
                  /\ old[i].valid # 1 => Current[i] = emptyLine
<1> DEFINE s == SetIndex(addr)
<1> DEFINE old == mycache[s]
<1>1. s \in SetId /\ TypeOK /\ LinesHold
  BY AddrParts DEF CsimInv, TypeOK
<1>2. old \in [Way -> Line]
  BY <1>1 DEF TypeOK, SetId
<1>3. ASSUME NEW i \in Way
      PROVE  /\ Current[i] \in Line
             /\ Current[i].valid = old[i].valid
             /\ Current[i].tag = old[i].tag
             /\ old[i].valid = 1 =>
                  /\ Current[i].time_stamp = old[i].time_stamp + 1
                  /\ old[i].time_stamp \in 0 .. 2 * lines - deals
             /\ old[i].valid # 1 => Current[i] = emptyLine
  <2> DEFINE l == old[i]
  <2>1. l \in Line
    BY <1>2
  <2>2. Current[i] = IF l.valid = 1
                     THEN [l EXCEPT !.time_stamp = Int32(l.time_stamp + 1)]
                     ELSE l
    BY DEF Current, Aged
  <2>3. CASE l.valid = 1
    <3>1. l.time_stamp \in 0 .. 2 * lines - deals
      BY <1>1, <2>3 DEF LinesHold, SetId
    <3>2. l.time_stamp + 1 \in 0 .. INT_MAX
      BY <1>1, <3>1, LengthAssumption DEF CsimInv, TypeOK
    <3>3. Int32(l.time_stamp + 1) = l.time_stamp + 1
      BY <3>2, Int32Type
    <3> QED
      BY <2>1, <2>2, <2>3, <3>1, <3>2, <3>3 DEF Line
  <2>4. CASE l.valid # 1
    <3>1. l = emptyLine
      BY <1>1, <2>4 DEF LinesHold, SetId
    <3> QED
      BY <2>1, <2>2, <2>4, <3>1
  <2> QED
    BY <2>3, <2>4
<1>4. Current \in [Way -> Line]
  BY <1>3 DEF Current, Aged
<1> QED
  BY <1>1, <1>2, <1>3, <1>4

-----------------------------------------------------------------------------
(***************************************************************************)
(* Each outcome of cache_deal puts the line Loaded at one place, and no     *)
(* other line of the set has its tag.                                       *)
(***************************************************************************)
Puts(i) == Deal(Loaded, i) /\ \A k \in Way \ {i} : Current[k].tag # Tag

LEMMA WaysNat == \A S \in SUBSET Way : S # {} => Min(S) \in S
<1> SUFFICES ASSUME NEW S \in SUBSET Way, S # {} PROVE Min(S) \in S
  OBVIOUS
<1>1. S \subseteq Nat
  BY GeometryAssumption DEF Way
<1> QED
  BY <1>1, MinOfNats

LEMMA HitPuts ==
  ASSUME CsimInv, Hit
  PROVE  \E i \in Way : Puts(i) /\ Current[i].valid = 1 /\ Current[i].tag = Tag
<1> DEFINE i == Min(WithTag(Current, Tag))
<1>0. deals > 0
  BY DEF Hit, Deal
<1>1. i \in Way /\ Current[i].tag = Tag
  BY WaysNat DEF Hit, WithTag
<1>2. Tag # -1
  BY AddrParts DEF Tag, CsimInv, TypeOK
<1>3. Current \in [Way -> Line]
  BY <1>0, CurrentLines
<1>4. Current[i].valid = 1
  BY <1>0, <1>1, <1>2, CurrentLines DEF emptyLine
<1>5. [Current[i] EXCEPT !.time_stamp = 0] = Loaded
  BY <1>1, <1>3, <1>4 DEF Line, Loaded
<1>6. Deal(Loaded, i)
  BY <1>5 DEF Hit
<1>7. ASSUME NEW k \in Way \ {i} PROVE Current[k].tag # Tag
  <2>1. SUFFICES ASSUME Current[k].tag = Tag PROVE FALSE
    OBVIOUS
  <2> DEFINE old == mycache[SetIndex(addr)]
  <2>2. old[k].valid = 1 /\ old[i].valid = 1 /\ old[k].tag = old[i].tag
    BY <1>0, <1>1, <1>2, <1>4, <2>1, CurrentLines DEF emptyLine
  <2>3. SetIndex(addr) \in SetId
    BY <1>0, CurrentLines
  <2> QED
    BY <1>1, <2>2, <2>3 DEF CsimInv, LinesApart, SetId
<1> QED
  BY <1>1, <1>4, <1>6, <1>7 DEF Puts

LEMMA FillPuts ==
  ASSUME CsimInv, Fill
  PROVE  \E i \in Way : Puts(i) /\ Current[i].valid = 0
<1> DEFINE i == Min(Empty(Current))
<1>1. i \in Way /\ Current[i].valid = 0
  BY WaysNat DEF Fill, Empty
<1>2. Deal(Loaded, i) /\ \A k \in Way : Current[k].tag # Tag
  BY DEF Fill, WithTag
<1> QED
  BY <1>1, <1>2 DEF Puts

LEMMA EvictPuts ==
  ASSUME CsimInv, Evict
  PROVE  /\ \A k \in Way : Current[k].valid = 1 /\ Current[k].tag # Tag
         /\ \E i \in Way :
              /\ Puts(i)
              /\ \A k \in Way : Current[k].time_stamp <= Current[i].time_stamp
<1> DEFINE i == Victim(Current)
<1> DEFINE older == {j \in Way : Current[j].time_stamp > 0}
<1> DEFINE stamps == {Current[j].time_stamp : j \in Way}
<1>0. deals > 0
  BY DEF Evict, Deal
<1>1. Current \in [Way -> Line] /\ \A k \in Way : Current[k].valid = 1 /\ Current[k].tag # Tag
  BY <1>0, CurrentLines DEF Evict, Empty, WithTag, Line
<1>2. \A k \in Way : Current[k].time_stamp \in 1 .. 2 * MaxLines + 1
  BY <1>0, <1>1, CurrentLines, LengthAssumption DEF CsimInv, TypeOK
<1>3. \E j \in Way : \A k \in Way : Current[k].time_stamp <= Current[j].time_stamp
  <2>1. 1 \in Way
    BY GeometryAssumption DEF Way
  <2>2. stamps \subseteq Nat /\ stamps # {}
    BY <1>2, <2>1
  <2>3. \A x \in stamps : x <= 2 * MaxLines + 1
    BY <1>2
  <2>4. 2 * MaxLines + 1 \in Nat
    BY LengthAssumption
  <2>5. Max(stamps) \in stamps /\ \A y \in stamps : y <= Max(stamps)
    <3> HIDE DEF stamps
    <3> QED
      BY <2>2, <2>3, <2>4, MaxOfNats
  <2>6. PICK j \in Way : Max(stamps) = Current[j].time_stamp
    BY <2>5
  <2> QED
    BY <2>5, <2>6
<1>4. Oldest(Current) = {j \in Way : \A k \in Way : Current[k].time_stamp <= Current[j].time_stamp}
  BY <1>2 DEF Oldest
<1>5. i \in Oldest(Current)
  BY <1>3, <1>4, WaysNat DEF Victim
<1>6. i \in Way /\ \A k \in Way : Current[k].time_stamp <= Current[i].time_stamp
  BY <1>4, <1>5
<1>7. [Loaded EXCEPT !.valid = Current[i].valid] = Loaded
  <2>1. Current[i].valid = 1
    BY <1>1, <1>6
  <2> HIDE DEF i
  <2> QED
    BY <2>1 DEF Loaded
<1>8. Deal(Loaded, i)
  BY <1>7 DEF Evict
<1> QED
  BY <1>1, <1>6, <1>8 DEF Puts

-----------------------------------------------------------------------------
(***************************************************************************)
(* The invariant.                                                           *)
(***************************************************************************)
LEMMA PutsLines ==
  ASSUME CsimInv, NEW i \in Way, Puts(i)
  PROVE  LET s == SetIndex(addr)
         IN  /\ mycache' \in [SetId -> [Way -> Line]]
             /\ mycache'[s][i] = Loaded
             /\ \A k \in Way \ {i} : mycache'[s][k] = Current[k]
             /\ \A t \in SetId \ {s} : mycache'[t] = mycache[t]
<1>1. deals > 0
  BY DEF Puts, Deal
<1>2. Loaded \in Line
  BY AddrParts DEF Loaded, Line, Tag, CsimInv, TypeOK
<1>3. mycache \in [SetId -> [Way -> Line]]
  BY DEF CsimInv, TypeOK, SetId
<1> QED
  BY <1>1, <1>2, <1>3, CurrentLines DEF Puts, Deal

LEMMA PutsInv ==
  ASSUME CsimInv, NEW i \in Way, Puts(i)
  PROVE  /\ mycache' \in [0 .. Sets - 1 -> [Way -> Line]]
         /\ operation' = operation /\ addr' = addr /\ lines' = lines
         /\ deals' \in 0 .. 1 /\ deals' = deals - 1
         /\ LinesApart' /\ LinesHold' /\ ModifyLoaded'
<1> DEFINE s == SetIndex(addr)
<1>1. /\ operation' = operation /\ addr' = addr /\ lines' = lines
      /\ deals' = deals - 1 /\ deals > 0 /\ deals' \in 0 .. 1
  BY DEF Puts, Deal, CsimInv, TypeOK
<1>2. s \in SetId
  BY <1>1, CurrentLines
<1>3. mycache' \in [0 .. Sets - 1 -> [Way -> Line]]
  BY PutsLines DEF SetId
<1>4. LinesApart'
  <2> SUFFICES ASSUME NEW t \in SetId, NEW j \in Way, NEW k \in Way, j # k,
                      mycache'[t][j].valid = 1, mycache'[t][k].valid = 1
               PROVE  /\ mycache'[t][j].tag # mycache'[t][k].tag
                      /\ mycache'[t][j].time_stamp # mycache'[t][k].time_stamp
    BY DEF LinesApart, SetId
  <2>1. CASE t # s
    BY <2>1, PutsLines DEF CsimInv, LinesApart, SetId
  <2>2. ASSUME NEW m \in Way \ {i}, Current[m].valid = 1
        PROVE  Current[m].tag # Loaded.tag /\ Current[m].time_stamp # Loaded.time_stamp
    BY <1>1, <2>2, CurrentLines DEF Puts, Loaded, CsimInv, TypeOK
  <2>3. CASE t = s /\ j = i
    BY <2>2, <2>3, PutsLines
  <2>4. CASE t = s /\ k = i
    BY <2>2, <2>4, PutsLines
  <2>5. CASE t = s /\ j # i /\ k # i
    <3> DEFINE old == mycache[s]
    <3>1. mycache'[t][j] = Current[j] /\ mycache'[t][k] = Current[k]
      BY <2>5, PutsLines
    <3>2. old[j].valid = 1 /\ old[k].valid = 1
      BY <1>1, <3>1, CurrentLines
    <3>3. old[j].tag # old[k].tag /\ old[j].time_stamp # old[k].time_stamp
      BY <1>2, <3>2 DEF CsimInv, LinesApart, SetId
    <3>4. /\ Current[j].tag = old[j].tag /\ Current[k].tag = old[k].tag
          /\ Current[j].time_stamp = old[j].time_stamp + 1
          /\ Current[k].time_stamp = old[k].time_stamp + 1
          /\ old[j].time_stamp \in Int /\ old[k].time_stamp \in Int
      BY <1>1, <3>2, CurrentLines DEF Line
    <3> QED
      BY <3>1, <3>3, <3>4
  <2> QED
    BY <2>1, <2>3, <2>4, <2>5
<1>5. LinesHold'
  <2> SUFFICES ASSUME NEW t \in SetId, NEW k \in Way
               PROVE  LET l == mycache'[t][k]
                      IN  IF l.valid = 1
                          THEN /\ \E a \in Addr : SetIndex(a) = t /\ TagOf(a) = l.tag
                               /\ l.time_stamp \in 0 .. 2 * lines - deals'
                          ELSE l = emptyLine
    BY <1>1 DEF LinesHold, SetId
  <2>0. lines \in Nat /\ deals \in 1 .. 2 /\ addr \in Addr
    BY <1>1 DEF CsimInv, TypeOK
  <2>1. CASE t # s
    <3>1. mycache'[t][k] = mycache[t][k]
      BY <2>1, PutsLines
    <3>2. LET l == mycache[t][k]
          IN  IF l.valid = 1
              THEN /\ \E a \in Addr : SetIndex(a) = t /\ TagOf(a) = l.tag
                   /\ l.time_stamp \in 0 .. 2 * lines - deals
              ELSE l = emptyLine
      BY DEF CsimInv, LinesHold, SetId
    <3> QED
      BY <1>1, <2>0, <3>1, <3>2
  <2>2. CASE t = s /\ k = i
    <3>1. mycache'[t][k] = Loaded
      BY <2>2, PutsLines
    <3>2. Loaded.valid = 1 /\ Loaded.tag = TagOf(addr) /\ Loaded.time_stamp = 0
      BY DEF Loaded, Tag
    <3>3. 0 <= 2 * lines - deals
      BY DEF CsimInv, CountsBounded, TypeOK
    <3> QED
      BY <1>1, <2>0, <2>2, <3>1, <3>2, <3>3
  <2>3. CASE t = s /\ k # i
    <3> DEFINE l == mycache[s][k]
    <3>1. mycache'[t][k] = Current[k]
      BY <2>3, PutsLines
    <3>2. IF l.valid = 1
          THEN /\ \E a \in Addr : SetIndex(a) = s /\ TagOf(a) = l.tag
               /\ l.time_stamp \in 0 .. 2 * lines - deals
          ELSE l = emptyLine
      BY <1>2 DEF CsimInv, LinesHold, SetId
    <3>3. /\ Current[k].valid = l.valid /\ Current[k].tag = l.tag
          /\ l.valid = 1 => Current[k].time_stamp = l.time_stamp + 1
          /\ l.valid # 1 => Current[k] = emptyLine
      BY <1>1, CurrentLines
    <3> QED
      BY <1>1, <2>0, <2>3, <3>1, <3>2, <3>3
  <2> QED
    BY <2>1, <2>2, <2>3
<1>6. ModifyLoaded'
  <2>1. mycache'[s][i].tag = Tag
    BY PutsLines DEF Loaded
  <2>2. i \in WithTag(mycache'[s], Tag)
    BY <2>1 DEF WithTag
  <2>3. SetIndex(addr)' = s /\ Tag' = Tag
    BY <1>1 DEF SetIndex, Tag, TagOf, BlockOf
  <2> QED
    BY <2>2, <2>3 DEF ModifyLoaded, WithTag
<1> QED
  BY <1>1, <1>3, <1>4, <1>5, <1>6

LEMMA CountersExact ==
  ASSUME CsimInv, deals > 0
  PROVE  /\ Int32(hit_num + 1) = hit_num + 1
         /\ Int32(miss_num + 1) = miss_num + 1
         /\ Int32(evc_num + 1) = evc_num + 1
<1>1. hit_num \in Nat /\ miss_num \in Nat /\ evc_num \in Nat /\ lines \in 0 .. MaxLines
      /\ deals \in 1 .. 2
  BY DEF CsimInv, TypeOK
<1>2. hit_num + 1 \in 0 .. INT_MAX /\ miss_num + 1 \in 0 .. INT_MAX /\ evc_num + 1 \in 0 .. INT_MAX
  BY <1>1, LengthAssumption DEF CsimInv, CountsBounded
<1> QED
  BY <1>2, Int32Type

LEMMA InitInv == Init => CsimInv
<1> SUFFICES ASSUME Init PROVE CsimInv
  OBVIOUS
<1>1. emptyLine \in Line /\ emptyLine.valid = 0
  BY DEF emptyLine, Line
<1>2. TypeOK
  BY <1>1, AddrAssumption, LengthAssumption DEF Init, TypeOK
<1>3. \A s \in 0 .. Sets - 1 : \A i \in Way : mycache[s][i] = emptyLine
  BY DEF Init
<1>4. LinesApart /\ LinesHold
  BY <1>1, <1>3 DEF LinesApart, LinesHold
<1>5. CountsBounded /\ ModifyLoaded
  BY DEF Init, CountsBounded, ModifyLoaded
<1> QED
  BY <1>2, <1>4, <1>5 DEF CsimInv

\* A line allows as many accesses as it makes.
LEMMA AccessesGrow ==
  ASSUME NEW n \in Nat, NEW d \in 0 .. 2
  PROVE  /\ 2 * n - 0 = 2 * n /\ 2 * n <= 2 * (n + 1) - d
         /\ \A c \in Nat : c <= 2 * n => c <= 2 * (n + 1) - d
OBVIOUS

\* A line of the trace changes nothing that the invariant says of the cache.
LEMMA NextLineInv ==
  ASSUME CsimInv, SkipLine \/ Read
  PROVE  CsimInv' /\ UNCHANGED <<mycache, hit_num, miss_num, evc_num>>
<1>1. /\ UNCHANGED <<mycache, hit_num, miss_num, evc_num>>
      /\ lines' = lines + 1 /\ lines < MaxLines /\ deals = 0
      /\ operation' \in Op /\ addr' \in Addr
      /\ deals' = 0 \/ deals' = Calls(operation')
  BY DEF SkipLine, Read, ReadLine, NextLine, CsimInv, TypeOK
<1>2. deals' \in 0 .. 2 /\ ~(operation' = "M" /\ deals' = 1)
  BY <1>1 DEF Calls, Op
<1>3. lines \in Nat /\ lines' \in 0 .. MaxLines
  BY <1>1, LengthAssumption DEF CsimInv, TypeOK
<1>3a. deals' \in 0 .. 2 /\ deals = 0 /\ lines' = lines + 1
  BY <1>1, <1>2
<1>3b. 2 * lines - deals = 2 * lines /\ 2 * lines <= 2 * lines' - deals'
  BY <1>3, <1>3a, AccessesGrow
<1>4. TypeOK'
  BY <1>1, <1>2, <1>3 DEF CsimInv, TypeOK
<1>5. LinesApart'
  BY <1>1 DEF CsimInv, LinesApart
<1>6. LinesHold'
  <2> SUFFICES ASSUME NEW s \in 0 .. Sets - 1, NEW i \in Way
               PROVE  LET l == mycache[s][i]
                      IN  IF l.valid = 1
                          THEN /\ \E a \in Addr : SetIndex(a) = s /\ TagOf(a) = l.tag
                               /\ l.time_stamp \in 0 .. 2 * lines' - deals'
                          ELSE l = emptyLine
    BY <1>1 DEF LinesHold
  <2>1. LET l == mycache[s][i]
        IN  IF l.valid = 1
            THEN /\ \E a \in Addr : SetIndex(a) = s /\ TagOf(a) = l.tag
                 /\ l.time_stamp \in 0 .. 2 * lines - deals
            ELSE l = emptyLine
    BY DEF CsimInv, LinesHold
  <2>2. 2 * lines - deals \in Int /\ 2 * lines' - deals' \in Int
    BY <1>3, <1>3a
  <2> QED
    BY <1>3b, <2>1, <2>2
<1>7. CountsBounded'
  <2>1. hit_num + miss_num <= 2 * lines - deals /\ evc_num <= miss_num
    BY DEF CsimInv, CountsBounded
  <2>2. hit_num + miss_num \in Nat
    BY DEF CsimInv, TypeOK
  <2>3. hit_num + miss_num <= 2 * lines' - deals'
    BY <1>3, <1>3a, <1>3b, <2>1, <2>2, AccessesGrow
  <2> QED
    BY <1>1, <2>1, <2>3 DEF CountsBounded
<1>8. ModifyLoaded'
  BY <1>2 DEF ModifyLoaded
<1> QED
  BY <1>1, <1>4, <1>5, <1>6, <1>7, <1>8 DEF CsimInv

LEMMA NextInv == CsimInv /\ [Next]_vars => CsimInv'
<1> SUFFICES ASSUME CsimInv, [Next]_vars PROVE CsimInv'
  OBVIOUS
<1>0. /\ hit_num \in Nat /\ miss_num \in Nat /\ evc_num \in Nat
      /\ lines \in 0 .. MaxLines /\ deals \in 0 .. 2 /\ operation \in Op /\ addr \in Addr
      /\ MaxLines \in Nat
  BY LengthAssumption DEF CsimInv, TypeOK
<1>1. CASE SkipLine \/ Read
  BY <1>1, NextLineInv
<1>2. ASSUME Hit PROVE CsimInv'
  <2>1. PICK i \in Way : Puts(i)
    BY <1>2, HitPuts
  <2>2. deals > 0
    BY <1>2 DEF Hit, Deal
  <2>3. hit_num' = hit_num + 1 /\ UNCHANGED <<miss_num, evc_num>>
    BY <1>2, <2>2, CountersExact DEF Hit
  <2> QED
    BY <1>0, <2>1, <2>3, PutsInv DEF CsimInv, TypeOK, CountsBounded
<1>3. ASSUME Fill PROVE CsimInv'
  <2>1. PICK i \in Way : Puts(i)
    BY <1>3, FillPuts
  <2>2. deals > 0
    BY <1>3 DEF Fill, Deal
  <2>3. miss_num' = miss_num + 1 /\ UNCHANGED <<hit_num, evc_num>>
    BY <1>3, <2>2, CountersExact DEF Fill
  <2> QED
    BY <1>0, <2>1, <2>3, PutsInv DEF CsimInv, TypeOK, CountsBounded
<1>4. ASSUME Evict PROVE CsimInv'
  <2>1. PICK i \in Way : Puts(i)
    BY <1>4, EvictPuts
  <2>2. deals > 0
    BY <1>4 DEF Evict, Deal
  <2>3. miss_num' = miss_num + 1 /\ evc_num' = evc_num + 1 /\ UNCHANGED hit_num
    BY <1>4, <2>2, CountersExact DEF Evict
  <2> QED
    BY <1>0, <2>1, <2>3, PutsInv DEF CsimInv, TypeOK, CountsBounded
<1>5. CASE UNCHANGED vars
  <2>1. /\ TypeOK' = TypeOK /\ LinesApart' = LinesApart /\ LinesHold' = LinesHold
        /\ CountsBounded' = CountsBounded /\ ModifyLoaded' = ModifyLoaded
    BY <1>5 DEF vars, TypeOK, LinesApart, LinesHold, CountsBounded, ModifyLoaded,
                SetIndex, BlockOf, Tag, TagOf, WithTag
  <2> QED
    BY <2>1 DEF CsimInv
<1> QED
  BY <1>1, <1>2, <1>3, <1>4, <1>5 DEF Next

\* The valid lines of a set have different tags and different time stamps,
\* and no time stamp or counter overflows, whatever the trace.
THEOREM InvCorrect == Spec => []CsimInv
BY InitInv, NextInv, PTL DEF Spec

\* The second access of a modify hits.
THEOREM ModifyCorrect == Spec => ModifyHits
<1>1. ASSUME CsimInv, [Next]_vars
      PROVE  [operation = "M" /\ deals = 1 /\ deals' = 0 => hit_num' = hit_num + 1]_vars
  <2>1. SUFFICES ASSUME operation = "M", deals = 1, deals' = 0, Next
                 PROVE  hit_num' = hit_num + 1
    BY <1>1
  <2>2. ~(SkipLine \/ Read)
    BY <2>1 DEF SkipLine, Read, ReadLine, NextLine
  <2>3. WithTag(Current, Tag) # {}
    BY <1>1, <2>1, CurrentLines DEF CsimInv, ModifyLoaded, WithTag
  <2>4. Hit
    BY <2>1, <2>2, <2>3 DEF Next, Fill, Evict
  <2> QED
    BY <1>1, <2>1, <2>4, CountersExact DEF Hit
<1> QED
  BY <1>1, InvCorrect, PTL DEF Spec, ModifyHits

-----------------------------------------------------------------------------
(***************************************************************************)
(* Which blocks the lines hold.                                             *)
(***************************************************************************)
LEMMA BlockParts ==
  /\ \A b \in Block : SetOf[b] \in SetId
  /\ \A a \in Addr : /\ BlockOf(a) \in Block
                     /\ SetOf[BlockOf(a)] = SetIndex(a)
                     /\ BlockTag(BlockOf(a)) = TagOf(a)
  /\ \A b, c \in Block : SetOf[b] = SetOf[c] /\ BlockTag(b) = BlockTag(c) => b = c
<1>1. \A a \in Addr : /\ BlockOf(a) \in Block
                     /\ SetOf[BlockOf(a)] = SetIndex(a)
                     /\ BlockTag(BlockOf(a)) = TagOf(a)
  BY DEF Block, SetOf, SetIndex, BlockTag, TagOf
<1>2. \A b \in Block : \E a \in Addr : b = BlockOf(a)
  BY DEF Block
<1>3. \A b \in Block : SetOf[b] \in SetId
  BY <1>1, <1>2, AddrParts
<1>4. ASSUME NEW b \in Block, NEW c \in Block, SetOf[b] = SetOf[c], BlockTag(b) = BlockTag(c)
      PROVE  b = c
  <2>1. PICK x \in Addr, y \in Addr : b = BlockOf(x) /\ c = BlockOf(y)
    BY <1>2
  <2>2. SetIndex(x) = SetIndex(y) /\ TagOf(x) = TagOf(y)
    BY <1>1, <1>4, <2>1
  <2> QED
    BY <2>1, <2>2, AddrAssumption
<1> QED
  BY <1>1, <1>3, <1>4

\* A valid line holds one block of its set, and no other valid line does.
LEMMA LineHolds ==
  ASSUME CsimInv, NEW s \in SetId, NEW i \in Way
  PROVE  /\ mycache[s][i].valid = 1 => \E b \in Block : SetOf[b] = s /\ Holds(mycache[s][i], b)
         /\ \A b, c \in Block :
              /\ SetOf[b] = s /\ SetOf[c] = s
              /\ Holds(mycache[s][i], b) /\ Holds(mycache[s][i], c)
              => b = c
         /\ \A b \in Block, k \in Way :
              Holds(mycache[s][i], b) /\ Holds(mycache[s][k], b) => i = k
<1>1. ASSUME mycache[s][i].valid = 1
      PROVE  \E b \in Block : SetOf[b] = s /\ Holds(mycache[s][i], b)
  <2>1. PICK a \in Addr : SetIndex(a) = s /\ TagOf(a) = mycache[s][i].tag
    BY <1>1 DEF CsimInv, LinesHold, SetId
  <2> QED
    BY <1>1, <2>1, BlockParts DEF Holds
<1>2. ASSUME NEW b \in Block, NEW k \in Way, Holds(mycache[s][i], b), Holds(mycache[s][k], b)
      PROVE  i = k
  BY <1>2 DEF Holds, CsimInv, LinesApart, SetId
<1> QED
  BY <1>1, <1>2, BlockParts DEF Holds

\* After an access the loaded line holds its block; the others are as before,
\* one access older.
LEMMA PutsHolds ==
  ASSUME CsimInv, NEW i \in Way, Puts(i)
  PROVE  LET s == SetIndex(addr)
             b == BlockOf(addr)
         IN  /\ \A t \in SetId \ {s} : mycache'[t] = mycache[t]
             /\ \A c \in Block : SetOf[c] = s => (Holds(mycache'[s][i], c) <=> c = b)
             /\ mycache'[s][i].time_stamp = 0
             /\ \A k \in Way \ {i}, c \in Block :
                  /\ Holds(mycache'[s][k], c) <=> Holds(mycache[s][k], c)
                  /\ Holds(mycache[s][k], c) =>
                       /\ c # b
                       /\ mycache'[s][k].time_stamp = mycache[s][k].time_stamp + 1
                       /\ mycache[s][k].time_stamp \in Nat
<1> DEFINE s == SetIndex(addr)
<1> DEFINE b == BlockOf(addr)
<1>1. deals > 0 /\ addr \in Addr
  BY DEF Puts, Deal, CsimInv, TypeOK
<1>2. b \in Block /\ SetOf[b] = s /\ BlockTag(b) = Tag
  BY <1>1, BlockParts DEF Tag
<1>3. ASSUME NEW c \in Block, SetOf[c] = s PROVE Holds(mycache'[s][i], c) <=> c = b
  <2>1. mycache'[s][i].valid = 1 /\ mycache'[s][i].tag = Tag
    BY PutsLines DEF Loaded
  <2> QED
    BY <1>2, <1>3, <2>1, BlockParts DEF Holds
<1>4. mycache'[s][i].time_stamp = 0
  BY PutsLines DEF Loaded
<1>5. ASSUME NEW k \in Way \ {i}, NEW c \in Block
      PROVE  /\ Holds(mycache'[s][k], c) <=> Holds(mycache[s][k], c)
             /\ Holds(mycache[s][k], c) =>
                  /\ c # b
                  /\ mycache'[s][k].time_stamp = mycache[s][k].time_stamp + 1
                  /\ mycache[s][k].time_stamp \in Nat
  <2>1. mycache'[s][k] = Current[k] /\ Current[k].tag # Tag
    BY PutsLines DEF Puts
  <2>2. /\ Current[k].valid = mycache[s][k].valid /\ Current[k].tag = mycache[s][k].tag
        /\ mycache[s][k].valid = 1 =>
             /\ Current[k].time_stamp = mycache[s][k].time_stamp + 1
             /\ mycache[s][k].time_stamp \in 0 .. 2 * lines - deals
    BY <1>1, CurrentLines
  <2>3. 2 * lines - deals \in Int
    BY DEF CsimInv, TypeOK
  <2> QED
    BY <1>2, <2>1, <2>2, <2>3 DEF Holds
<1>6. \A t \in SetId \ {s} : mycache'[t] = mycache[t]
  BY PutsLines
<1> QED
  BY <1>3, <1>4, <1>5, <1>6

\* The cache gains the block of the access and loses the one that the loaded
\* line held.
LEMMA PutsCached ==
  ASSUME CsimInv, NEW i \in Way, Puts(i)
  PROVE  LET s == SetIndex(addr)
             b == BlockOf(addr)
         IN  CachedBlocks' =
               {c \in CachedBlocks : ~(SetOf[c] = s /\ Holds(mycache[s][i], c))} \cup {b}
<1> DEFINE s == SetIndex(addr)
<1> DEFINE b == BlockOf(addr)
<1> DEFINE Rest == {c \in CachedBlocks : ~(SetOf[c] = s /\ Holds(mycache[s][i], c))}
<1>1. addr \in Addr /\ s \in SetId
  BY AddrParts DEF CsimInv, TypeOK
<1>2. b \in Block /\ SetOf[b] = s
  BY <1>1, BlockParts
<1>3. ASSUME NEW c \in Block PROVE c \in CachedBlocks' <=> c \in Rest \cup {b}
  <2>1. c \in CachedBlocks' <=> \E k \in Way : Holds(mycache'[SetOf[c]][k], c)
    BY DEF CachedBlocks, Holds
  <2>2. c \in CachedBlocks <=> \E k \in Way : Holds(mycache[SetOf[c]][k], c)
    BY DEF CachedBlocks
  <2>3. CASE SetOf[c] # s
    BY <1>2, <2>1, <2>2, <2>3, BlockParts, PutsHolds
  <2>4. CASE SetOf[c] = s
    <3>1. (\E k \in Way : Holds(mycache'[s][k], c))
            <=> (c = b \/ \E k \in Way \ {i} : Holds(mycache[s][k], c))
      BY <2>4, PutsHolds
    <3>2. c \in Rest <=> \E k \in Way \ {i} : Holds(mycache[s][k], c)
      BY <1>1, <2>2, <2>4, LineHolds
    <3> QED
      BY <2>1, <2>4, <3>1, <3>2
  <2> QED
    BY <2>3, <2>4
<1>4. CachedBlocks' \subseteq Block /\ Rest \cup {b} \subseteq Block
  BY <1>2 DEF CachedBlocks
<1> QED
  BY <1>3, <1>4

-----------------------------------------------------------------------------
(***************************************************************************)
(* The simulator implements the LRU cache.                                  *)
(***************************************************************************)
LEMMA UsedBeforePairs ==
  /\ UsedBefore \subseteq Block \X Block
  /\ \A c, d \in Block :
       <<c, d>> \in UsedBefore <=>
         /\ SetOf[c] = SetOf[d]
         /\ \E j, k \in Way :
              /\ Holds(mycache[SetOf[c]][j], c)
              /\ Holds(mycache[SetOf[c]][k], d)
              /\ mycache[SetOf[c]][j].time_stamp > mycache[SetOf[c]][k].time_stamp
BY DEF UsedBefore

LEMMA PutsUses ==
  ASSUME CsimInv, NEW i \in Way, Puts(i)
  PROVE  Lru!Use(BlockOf(addr), CachedBlocks')
<1> DEFINE s == SetIndex(addr)
<1> DEFINE b == BlockOf(addr)
<1> DEFINE Others == CachedBlocks' \ {b}
<1> DEFINE Kept == {r \in UsedBefore : {r[1], r[2]} \subseteq Others}
<1> DEFINE New == {<<c, b>> : c \in {d \in Others : SetOf[d] = SetOf[b]}}
<1>1. addr \in Addr /\ s \in SetId
  BY AddrParts DEF CsimInv, TypeOK
<1>2. b \in Block /\ SetOf[b] = s
  BY <1>1, BlockParts
<1>3. \A c \in Block : c \in CachedBlocks' <=> \E k \in Way : Holds(mycache'[SetOf[c]][k], c)
  BY DEF CachedBlocks, Holds
<1>4. Others \subseteq Block
  BY DEF CachedBlocks
<1>5. \A c, d \in Block :
        <<c, d>> \in UsedBefore' <=>
          /\ SetOf[c] = SetOf[d]
          /\ \E j, k \in Way :
               /\ Holds(mycache'[SetOf[c]][j], c)
               /\ Holds(mycache'[SetOf[c]][k], d)
               /\ mycache'[SetOf[c]][j].time_stamp > mycache'[SetOf[c]][k].time_stamp
  BY DEF UsedBefore, Holds
<1>6. ASSUME NEW c \in Block, NEW d \in Block
      PROVE  <<c, d>> \in UsedBefore' <=> <<c, d>> \in Kept \/ <<c, d>> \in New
  <2>1. <<c, d>> \in Kept <=> <<c, d>> \in UsedBefore /\ c \in Others /\ d \in Others
    OBVIOUS
  <2>2. <<c, d>> \in New <=> d = b /\ c \in Others /\ SetOf[c] = s
    BY <1>2
  <2>3. CASE SetOf[c] # s
    <3>1. SetOf[c] = SetOf[d] => mycache'[SetOf[c]] = mycache[SetOf[c]] /\ c # b /\ d # b
      BY <1>2, <2>3, BlockParts, PutsHolds
    <3>2. <<c, d>> \in UsedBefore' => <<c, d>> \in UsedBefore /\ c \in Others /\ d \in Others
      BY <1>3, <1>5, <3>1, UsedBeforePairs
    <3>3. <<c, d>> \in UsedBefore => <<c, d>> \in UsedBefore'
      BY <1>5, <3>1, UsedBeforePairs
    <3> HIDE DEF Others, Kept, New
    <3> QED
      BY <2>1, <2>2, <2>3, <3>2, <3>3
  <2>4. CASE SetOf[c] = s /\ SetOf[d] # s
    BY <1>2, <1>5, <2>1, <2>2, <2>4, UsedBeforePairs
  <2>5. CASE SetOf[c] = s /\ SetOf[d] = s
    <3>1. ASSUME NEW x \in Block, SetOf[x] = s
          PROVE  x \in Others <=> \E k \in Way \ {i} : Holds(mycache[s][k], x)
      BY <1>3, <3>1, PutsHolds
    <3>2. ASSUME NEW j \in Way, NEW k \in Way,
                 Holds(mycache'[s][j], c), Holds(mycache'[s][k], d),
                 mycache'[s][j].time_stamp > mycache'[s][k].time_stamp
          PROVE  <<c, d>> \in Kept \/ <<c, d>> \in New
      <4>1. j # i
        <5>1. SUFFICES ASSUME j = i PROVE FALSE
          OBVIOUS
        <5>2. mycache'[s][i].time_stamp = 0 /\ ~(0 > 0)
          BY PutsHolds
        <5>3. k # i
          BY <3>2, <5>1, <5>2
        <5>4. Holds(mycache[s][k], d)
          BY <3>2, <5>3, PutsHolds
        <5>5. mycache'[s][k].time_stamp = mycache[s][k].time_stamp + 1 /\ mycache[s][k].time_stamp \in Nat
          BY <5>3, <5>4, PutsHolds
        <5> QED
          BY <3>2, <5>1, <5>2, <5>5
      <4>2. Holds(mycache[s][j], c) /\ c \in Others
        BY <2>5, <3>1, <3>2, <4>1, PutsHolds
      <4>3. CASE k = i
        <5>1. d = b
          BY <2>5, <3>2, <4>3, PutsHolds
        <5> QED
          BY <2>2, <2>5, <4>2, <5>1
      <4>4. CASE k # i
        <5>1. Holds(mycache[s][k], d) /\ d \in Others
          BY <2>5, <3>1, <3>2, <4>4, PutsHolds
        <5>2. /\ mycache'[s][j].time_stamp = mycache[s][j].time_stamp + 1
              /\ mycache'[s][k].time_stamp = mycache[s][k].time_stamp + 1
              /\ mycache[s][j].time_stamp \in Nat /\ mycache[s][k].time_stamp \in Nat
          BY <4>1, <4>2, <4>4, <5>1, PutsHolds
        <5>3. mycache[s][j].time_stamp > mycache[s][k].time_stamp
          BY <3>2, <5>2
        <5>4. <<c, d>> \in UsedBefore
          BY <2>5, <4>2, <5>1, <5>3, UsedBeforePairs
        <5> QED
          BY <2>1, <4>2, <5>1, <5>4
      <4> QED
        BY <4>3, <4>4
    <3>3. ASSUME <<c, d>> \in Kept
          PROVE  \E j, k \in Way :
                   /\ Holds(mycache'[s][j], c)
                   /\ Holds(mycache'[s][k], d)
                   /\ mycache'[s][j].time_stamp > mycache'[s][k].time_stamp
      <4>1. PICK j \in Way, k \in Way :
                   /\ Holds(mycache[s][j], c)
                   /\ Holds(mycache[s][k], d)
                   /\ mycache[s][j].time_stamp > mycache[s][k].time_stamp
        BY <2>1, <2>5, <3>3, UsedBeforePairs
      <4>2. c \in Others /\ d \in Others
        BY <2>1, <3>3
      <4>3. j # i /\ k # i
        BY <1>1, <2>5, <3>1, <4>1, <4>2, LineHolds
      <4>4. /\ mycache'[s][j].time_stamp = mycache[s][j].time_stamp + 1
            /\ mycache'[s][k].time_stamp = mycache[s][k].time_stamp + 1
            /\ mycache[s][j].time_stamp \in Nat /\ mycache[s][k].time_stamp \in Nat
            /\ Holds(mycache'[s][j], c) /\ Holds(mycache'[s][k], d)
        BY <4>1, <4>3, PutsHolds
      <4>5. mycache'[s][j].time_stamp > mycache'[s][k].time_stamp
        BY <4>1, <4>4
      <4> QED
        BY <4>4, <4>5
    <3>4. ASSUME <<c, d>> \in New
          PROVE  \E j, k \in Way :
                   /\ Holds(mycache'[s][j], c)
                   /\ Holds(mycache'[s][k], d)
                   /\ mycache'[s][j].time_stamp > mycache'[s][k].time_stamp
      <4>1. d = b /\ c \in Others
        BY <2>2, <3>4
      <4>2. PICK j \in Way \ {i} : Holds(mycache[s][j], c)
        BY <2>5, <3>1, <4>1
      <4>3. /\ Holds(mycache'[s][j], c) /\ Holds(mycache'[s][i], d)
            /\ mycache'[s][j].time_stamp = mycache[s][j].time_stamp + 1
            /\ mycache[s][j].time_stamp \in Nat
            /\ mycache'[s][i].time_stamp = 0
        BY <2>5, <4>1, <4>2, PutsHolds
      <4>4. mycache'[s][j].time_stamp > mycache'[s][i].time_stamp
        BY <4>3
      <4> QED
        BY <4>3, <4>4
    <3> HIDE DEF Others, Kept, New
    <3> QED
      BY <1>5, <2>5, <3>2, <3>3, <3>4
  <2> QED
    BY <2>3, <2>4, <2>5
<1>7. UsedBefore' \subseteq Block \X Block
  BY DEF UsedBefore
<1>8. Kept \cup New \subseteq Block \X Block
  BY <1>2, <1>4, UsedBeforePairs
<1>9. UsedBefore' = Kept \cup New
  <2> HIDE DEF Kept, New
  <2> QED
    BY <1>6, <1>7, <1>8
<1>10. BlockOf(addr)' = BlockOf(addr)
  BY DEF Puts, Deal, BlockOf
<1> QED
  BY <1>9, <1>10 DEF Lru!Use

LEMMA WayCount == IsFiniteSet(Way) /\ Cardinality(Way) = E
BY GeometryAssumption, FS_Interval DEF Way

\* A set holds as many blocks as it has valid lines.
ValidWays(s) == {k \in Way : mycache[s][k].valid = 1}

LEMMA ResidentCount ==
  ASSUME CsimInv, NEW b \in Block
  PROVE  Lru!Cardinality(Lru!Resident(b)) = Cardinality(ValidWays(SetOf[b]))
<1> DEFINE s == SetOf[b]
<1> DEFINE V == ValidWays(s)
<1> DEFINE R == Lru!Resident(b)
<1> DEFINE f == [k \in V |-> CHOOSE c \in Block : SetOf[c] = s /\ Holds(mycache[s][k], c)]
<1>1. s \in SetId /\ V \subseteq Way
  BY BlockParts DEF ValidWays
<1>2. \A c : c \in R <=>
        c \in Block /\ SetOf[c] = s /\ \E k \in Way : Holds(mycache[s][k], c)
  BY DEF Lru!Resident, CachedBlocks
<1>3. \A k \in V : f[k] \in Block /\ SetOf[f[k]] = s /\ Holds(mycache[s][k], f[k])
  BY <1>1, LineHolds DEF ValidWays
<1>4. f \in [V -> R]
  BY <1>1, <1>2, <1>3
<1>5. \A j, k \in V : f[j] = f[k] => j = k
  BY <1>1, <1>3, LineHolds
<1>6. \A c \in R : \E k \in V : f[k] = c
  <2> SUFFICES ASSUME NEW c \in R PROVE \E k \in V : f[k] = c
    OBVIOUS
  <2>1. c \in Block /\ SetOf[c] = s
    BY <1>2
  <2>2. PICK k \in Way : Holds(mycache[s][k], c)
    BY <1>2
  <2>3. k \in V
    BY <2>2 DEF ValidWays, Holds
  <2>4. f[k] = c
    BY <1>1, <1>3, <2>1, <2>2, <2>3, LineHolds
  <2> QED
    BY <2>3, <2>4
<1>7. f \in Bijection(V, R)
  <2> HIDE DEF f, V, R
  <2> QED
    BY <1>4, <1>5, <1>6, Zenon DEF Bijection, Injection, Surjection, IsInjective
<1>8. IsFiniteSet(V)
  BY <1>1, WayCount, FS_Subset
<1>9. Cardinality(R) = Cardinality(V)
  <2> HIDE DEF f, V, R
  <2> QED
    BY <1>7, <1>8, FS_Bijection DEF ExistsBijection
<1>10. Lru!Cardinality(R) = Cardinality(R)
  BY DEF Lru!Cardinality, Cardinality
<1> QED
  BY <1>9, <1>10

LEMMA HitSimulates ==
  ASSUME CsimInv, Hit
  PROVE  Lru!Hit(BlockOf(addr))
<1> DEFINE s == SetIndex(addr)
<1> DEFINE b == BlockOf(addr)
<1>1. PICK i \in Way : Puts(i) /\ Current[i].valid = 1 /\ Current[i].tag = Tag
  BY HitPuts
<1>2. deals > 0 /\ addr \in Addr /\ s \in SetId
  BY AddrParts DEF Hit, Deal, CsimInv, TypeOK
<1>3. b \in Block /\ SetOf[b] = s /\ Holds(mycache[s][i], b)
  BY <1>1, <1>2, CurrentLines, BlockParts DEF Holds, Tag
<1>4. b \in CachedBlocks
  BY <1>3 DEF CachedBlocks
<1>5. CachedBlocks' = CachedBlocks
  BY <1>1, <1>2, <1>3, <1>4, PutsCached, LineHolds DEF CachedBlocks
<1>6. Lru!Use(b, CachedBlocks)
  BY <1>1, <1>5, PutsUses
<1>7. hit_num' = hit_num + 1 /\ UNCHANGED <<miss_num, evc_num>>
  BY <1>2, CountersExact DEF Hit
<1> QED
  BY <1>4, <1>6, <1>7 DEF Lru!Hit

LEMMA FillSimulates ==
  ASSUME CsimInv, Fill
  PROVE  Lru!Fill(BlockOf(addr))
<1> DEFINE s == SetIndex(addr)
<1> DEFINE b == BlockOf(addr)
<1>1. PICK i \in Way : Puts(i) /\ Current[i].valid = 0
  BY FillPuts
<1>2. deals > 0 /\ addr \in Addr /\ s \in SetId
  BY AddrParts DEF Fill, Deal, CsimInv, TypeOK
<1>3. b \in Block /\ SetOf[b] = s
  BY <1>2, BlockParts
<1>4. mycache[s][i].valid # 1
  BY <1>1, <1>2, CurrentLines
<1>5. b \notin CachedBlocks
  <2>1. \A k \in Way : Current[k].tag # Tag
    BY DEF Fill, WithTag
  <2>2. \A k \in Way : ~Holds(mycache[s][k], b)
    BY <1>2, <2>1, CurrentLines, BlockParts DEF Holds, Tag
  <2> QED
    BY <1>3, <2>2 DEF CachedBlocks
<1>6. CachedBlocks' = CachedBlocks \cup {b}
  BY <1>1, <1>4, PutsCached DEF Holds
<1>7. Lru!Use(b, CachedBlocks \cup {b})
  BY <1>1, <1>6, PutsUses
<1>8. Lru!Cardinality(Lru!Resident(b)) < E
  <2> DEFINE V == ValidWays(s)
  <2>1. V \in SUBSET Way /\ V # Way
    BY <1>4 DEF ValidWays
  <2>2. Cardinality(V) <= E /\ Cardinality(V) # E /\ Cardinality(V) \in Nat
    BY <2>1, WayCount, FS_Subset, FS_CardinalityType
  <2> QED
    BY <1>3, <2>2, ResidentCount, GeometryAssumption
<1>9. miss_num' = miss_num + 1 /\ UNCHANGED <<hit_num, evc_num>>
  BY <1>2, CountersExact DEF Fill
<1> QED
  BY <1>5, <1>7, <1>8, <1>9 DEF Lru!Fill

LEMMA EvictSimulates ==
  ASSUME CsimInv, Evict
  PROVE  Lru!Evict(BlockOf(addr))
<1> DEFINE s == SetIndex(addr)
<1> DEFINE b == BlockOf(addr)
<1>0. \A k \in Way : Current[k].valid = 1 /\ Current[k].tag # Tag
  BY EvictPuts
<1>1. PICK i \in Way : Puts(i) /\ \A k \in Way : Current[k].time_stamp <= Current[i].time_stamp
  BY EvictPuts
<1>2. deals > 0 /\ addr \in Addr /\ s \in SetId
  BY AddrParts DEF Evict, Deal, CsimInv, TypeOK
<1>3. b \in Block /\ SetOf[b] = s
  BY <1>2, BlockParts
<1>4. \A k \in Way : mycache[s][k].valid = 1
  BY <1>0, <1>2, CurrentLines
<1>5. b \notin CachedBlocks
  <2>1. \A k \in Way : ~Holds(mycache[s][k], b)
    BY <1>0, <1>2, CurrentLines, BlockParts DEF Holds, Tag
  <2> QED
    BY <1>3, <2>1 DEF CachedBlocks
<1>6. PICK v \in Block : SetOf[v] = s /\ Holds(mycache[s][i], v)
  BY <1>2, <1>4, LineHolds
<1>7. v \in Lru!Resident(b)
  BY <1>3, <1>6 DEF Lru!Resident, CachedBlocks
<1>8. CachedBlocks' = (CachedBlocks \ {v}) \cup {b}
  BY <1>1, <1>2, <1>6, PutsCached, LineHolds DEF CachedBlocks
<1>9. Lru!Use(b, (CachedBlocks \ {v}) \cup {b})
  BY <1>1, <1>8, PutsUses
<1>10. ASSUME NEW c \in Lru!Resident(b) \ {v} PROVE <<v, c>> \in UsedBefore
  <2>1. c \in Block /\ SetOf[c] = s
    BY <1>3 DEF Lru!Resident, CachedBlocks
  <2>2. PICK k \in Way : Holds(mycache[s][k], c)
    BY <1>3 DEF Lru!Resident, CachedBlocks
  <2>3. k # i
    BY <1>2, <1>6, <1>10, <2>1, <2>2, LineHolds
  <2>4. mycache[s][k].time_stamp # mycache[s][i].time_stamp
    BY <1>2, <1>4, <2>3 DEF CsimInv, LinesApart, SetId
  <2>5. /\ Current[k].time_stamp = mycache[s][k].time_stamp + 1
        /\ Current[i].time_stamp = mycache[s][i].time_stamp + 1
        /\ mycache[s][k].time_stamp \in Int /\ mycache[s][i].time_stamp \in Int
    BY <1>2, <1>4, CurrentLines DEF Line
  <2>6. mycache[s][i].time_stamp > mycache[s][k].time_stamp
    BY <1>1, <2>4, <2>5
  <2> QED
    BY <1>6, <2>1, <2>2, <2>6, UsedBeforePairs
<1>11. Lru!Cardinality(Lru!Resident(b)) = E
  <2>1. ValidWays(s) = Way
    BY <1>4 DEF ValidWays
  <2> QED
    BY <1>3, <2>1, WayCount, ResidentCount
<1>12. miss_num' = miss_num + 1 /\ evc_num' = evc_num + 1 /\ UNCHANGED hit_num
  BY <1>2, CountersExact DEF Evict
<1> QED
  BY <1>5, <1>7, <1>9, <1>10, <1>11, <1>12 DEF Lru!Evict

\* csim counts the hits, misses and evictions of an LRU cache, whatever its
\* geometry and the trace.
THEOREM Refinement == Spec => ImplementsLru
<1>1. Init => Lru!Init
  <2> SUFFICES ASSUME Init PROVE Lru!Init
    OBVIOUS
  <2>1. \A s \in SetId, i \in Way : mycache[s][i].valid = 0
    BY DEF Init, emptyLine, SetId
  <2>2. \A b \in Block, i \in Way : ~Holds(mycache[SetOf[b]][i], b)
    BY <2>1, BlockParts DEF Holds
  <2>3. CachedBlocks = {} /\ UsedBefore = {}
    BY <2>2 DEF CachedBlocks, UsedBefore
  <2>4. BlockOf(addr) \in Block
    BY AddrAssumption, BlockParts DEF Init
  <2> QED
    BY <2>3, <2>4 DEF Init, Lru!Init
<1>2. ASSUME CsimInv, [Next]_vars PROVE [Lru!Next]_(Lru!lruVars)
  <2>1. UNCHANGED <<mycache, hit_num, miss_num, evc_num>> =>
          UNCHANGED <<CachedBlocks, UsedBefore, Lru!counts>>
    BY DEF Lru!counts, CachedBlocks, UsedBefore, Holds
  <2>2. CASE UNCHANGED vars
    BY <2>1, <2>2 DEF vars, Lru!lruVars, BlockOf
  <2>3. CASE SkipLine \/ Read
    <3>1. CsimInv' /\ UNCHANGED <<CachedBlocks, UsedBefore, Lru!counts>>
      BY <1>2, <2>1, <2>3, NextLineInv
    <3>2. BlockOf(addr)' \in Block
      <4>1. addr' \in Addr /\ BlockOf(addr)' = BlockOf(addr')
        BY <3>1 DEF CsimInv, TypeOK, BlockOf
      <4> QED
        BY <4>1, BlockParts
    <3> QED
      BY <3>1, <3>2 DEF Lru!Next, Lru!Choose
  <2>4. CASE Hit
    BY <1>2, <2>4, HitSimulates DEF Lru!Next
  <2>5. CASE Fill
    BY <1>2, <2>5, FillSimulates DEF Lru!Next
  <2>6. CASE Evict
    BY <1>2, <2>6, EvictSimulates DEF Lru!Next
  <2> QED
    BY <1>2, <2>2, <2>3, <2>4, <2>5, <2>6 DEF Next
<1> QED
  BY <1>1, <1>2, InvCorrect, PTL DEF Spec, ImplementsLru, Lru!Spec

-----------------------------------------------------------------------------
(***************************************************************************)
(* The counts and the contents.                                             *)
(***************************************************************************)
LEMMA ValidLinesFinite == IsFiniteSet(ValidLines)
<1>1. IsFiniteSet(0 .. Sets - 1) /\ IsFiniteSet(Way)
  BY GeometryAssumption, WayCount, FS_Interval
<1>2. IsFiniteSet((0 .. Sets - 1) \X Way)
  BY <1>1, FS_Product
<1>3. ValidLines \in SUBSET ((0 .. Sets - 1) \X Way)
  BY DEF ValidLines
<1> QED
  BY <1>2, <1>3, FS_Subset

\* The loaded line is valid; no other line becomes valid, and none invalid.
LEMMA PutsValid ==
  ASSUME CsimInv, NEW i \in Way, Puts(i)
  PROVE  ValidLines' = ValidLines \cup {<<SetIndex(addr), i>>}
<1> DEFINE s == SetIndex(addr)
<1>1. deals > 0 /\ s \in SetId
  BY CurrentLines DEF Puts, Deal
<1>2. ASSUME NEW t \in SetId, NEW k \in Way
      PROVE  mycache'[t][k].valid = 1 <=> mycache[t][k].valid = 1 \/ (t = s /\ k = i)
  <2>1. CASE t # s
    BY <2>1, PutsLines
  <2>2. CASE t = s /\ k # i
    BY <1>1, <2>2, PutsLines, CurrentLines
  <2>3. CASE t = s /\ k = i
    BY <2>3, PutsLines DEF Loaded
  <2> QED
    BY <2>1, <2>2, <2>3
<1>3. ValidLines' = {l \in (0 .. Sets - 1) \X Way : mycache'[l[1]][l[2]].valid = 1}
  BY DEF ValidLines
<1> QED
  BY <1>1, <1>2, <1>3 DEF ValidLines, SetId

\* Misses less evictions are the valid lines of the cache, at any time.
THEOREM CountsCorrect == Spec => []CountsMatchContents
<1>1. Init => CountsMatchContents
  <2> SUFFICES ASSUME Init PROVE CountsMatchContents
    OBVIOUS
  <2>1. ValidLines = {}
    BY DEF Init, ValidLines, emptyLine
  <2> QED
    BY <2>1, FS_EmptySet DEF Init, CountsMatchContents
<1>2. ASSUME CsimInv, CountsMatchContents, [Next]_vars PROVE CountsMatchContents'
  <2>0. miss_num \in Nat /\ evc_num \in Nat
    BY <1>2 DEF CsimInv, TypeOK
  <2>1. UNCHANGED <<mycache, miss_num, evc_num>> => CountsMatchContents'
    BY <1>2 DEF CountsMatchContents, ValidLines
  <2>2. CASE SkipLine \/ Read
    BY <1>2, <2>1, <2>2, NextLineInv
  <2>3. CASE Hit
    <3>1. PICK i \in Way : Puts(i) /\ Current[i].valid = 1
      BY <1>2, <2>3, HitPuts
    <3>2. SetIndex(addr) \in SetId /\ mycache[SetIndex(addr)][i].valid = 1
      BY <1>2, <2>3, <3>1, CurrentLines DEF Hit, Deal
    <3>3. ValidLines' = ValidLines
      BY <1>2, <3>1, <3>2, PutsValid DEF ValidLines, SetId
    <3> QED
      BY <1>2, <2>3, <3>3 DEF Hit, CountsMatchContents
  <2>4. CASE Fill
    <3>1. PICK i \in Way : Puts(i) /\ Current[i].valid = 0
      BY <1>2, <2>4, FillPuts
    <3> DEFINE x == <<SetIndex(addr), i>>
    <3>2. SetIndex(addr) \in SetId /\ mycache[SetIndex(addr)][i].valid # 1 /\ deals > 0
      BY <1>2, <2>4, <3>1, CurrentLines DEF Fill, Deal
    <3>3. x \notin ValidLines /\ ValidLines' = ValidLines \cup {x}
      BY <1>2, <3>1, <3>2, PutsValid DEF ValidLines
    <3>4. Cardinality(ValidLines') = Cardinality(ValidLines) + 1
      BY <3>3, ValidLinesFinite, FS_AddElement
    <3>5. Cardinality(ValidLines) \in Nat
      BY ValidLinesFinite, FS_CardinalityType
    <3>6. miss_num' = miss_num + 1 /\ evc_num' = evc_num
      BY <1>2, <2>4, <3>2, CountersExact DEF Fill
    <3> QED
      BY <1>2, <2>0, <3>4, <3>5, <3>6 DEF CountsMatchContents
  <2>5. CASE Evict
    <3>1. PICK i \in Way : Puts(i)
      BY <1>2, <2>5, EvictPuts
    <3>2. SetIndex(addr) \in SetId /\ mycache[SetIndex(addr)][i].valid = 1 /\ deals > 0
      BY <1>2, <2>5, <3>1, CurrentLines, EvictPuts DEF Evict, Deal
    <3>3. ValidLines' = ValidLines
      BY <1>2, <3>1, <3>2, PutsValid DEF ValidLines, SetId
    <3>4. miss_num' = miss_num + 1 /\ evc_num' = evc_num + 1
      BY <1>2, <2>5, <3>2, CountersExact DEF Evict
    <3>5. Cardinality(ValidLines) \in Nat
      BY ValidLinesFinite, FS_CardinalityType
    <3> QED
      BY <1>2, <2>0, <3>3, <3>4, <3>5 DEF CountsMatchContents
  <2>6. CASE UNCHANGED vars
    BY <2>1, <2>6 DEF vars
  <2> QED
    BY <1>2, <2>2, <2>3, <2>4, <2>5, <2>6 DEF Next
<1> QED
  BY <1>1, <1>2, InvCorrect, PTL DEF Spec
=============================================================================
