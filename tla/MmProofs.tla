------------------------------ MODULE MmProofs ------------------------------
(***************************************************************************)
(* Proofs about module Mm, for every number of lists, memory and CHUNKSIZE. *)
(* First what its functions do to a heap, in three layers: a free list, and *)
(* that taking a block off it or putting one on keeps it whole; the tags,   *)
(* and how merging, splitting and extending change the blocks that tile the *)
(* heap; and the functions themselves, from one valid heap to the next.     *)
(* Then the theorems: the inductive invariant HeapInv says that some set of *)
(* blocks tiles the heap, agrees with the tags and the lists, and has the   *)
(* client's blocks as its allocated ones.                                   *)
(***************************************************************************)
EXTENDS MmProperties, NatSets, FiniteSetTheorems

-----------------------------------------------------------------------------
(***************************************************************************)
(* Addresses.                                                               *)
(***************************************************************************)

\* Addr is the set of multiples of the word size inside the memory.
LEMMA AddrIs ==
  ASSUME NEW p
  PROVE  p \in Addr <=> p \in Int /\ p % WSIZE = 0 /\ 8 <= p /\ p + 4 <= mem_max_addr
<1> USE HeapAssumption DEF WSIZE, DSIZE, mem_start_brk, mem_max_addr
<1>1. ASSUME p \in Addr
      PROVE  p \in Int /\ p % 4 = 0 /\ 8 <= p /\ p + 4 <= 8 + MAX_HEAP
  <2>1. PICK n \in 0 .. (MAX_HEAP \div 4) - 1 : p = 8 + 4 * n
    BY <1>1 DEF Addr
  <2> QED
    BY <2>1
<1>2. ASSUME p \in Int, p % 4 = 0, 8 <= p, p + 4 <= 8 + MAX_HEAP
      PROVE  p \in Addr
  <2> DEFINE n == (p - 8) \div 4
  <2>1. n \in 0 .. (MAX_HEAP \div 4) - 1 /\ p = 8 + 4 * n
    BY <1>2
  <2> QED
    BY <2>1 DEF Addr
<1> QED
  BY <1>1, <1>2

\* NULL is not an address.
LEMMA NullIsNoAddr == NULL \notin Addr
BY AddrIs DEF NULL

\* The number of addresses is the number of words.
LEMMA AddrFinite == IsFiniteSet(Addr) /\ Cardinality(Addr) <= MAX_HEAP \div WSIZE
<1> DEFINE N == MAX_HEAP \div WSIZE
           I == 0 .. N - 1
           f == [n \in I |-> mem_start_brk + WSIZE * n]
<1>1. N \in Nat
  BY HeapAssumption DEF WSIZE
<1>2. IsFiniteSet(I) /\ Cardinality(I) = N
  BY <1>1, FS_Interval
<1>3. f \in Surjection(I, Addr)
  BY DEF Surjection, Addr
<1> QED
  BY <1>2, <1>3, FS_Surjection

Aligned(S) == \A p \in S : p \in Addr /\ p % DSIZE = 0

\* Writing a pointer changes two words, the second at no aligned address.
LEMMA PutSuc ==
  ASSUME NEW m \in [Addr -> Word], NEW x \in Addr, x % DSIZE = 0, NEW q \in Addr \cup {NULL}
  PROVE  /\ PUT_SUC(m, x, q) \in [Addr -> Word]
         /\ PUT_SUC(m, x, q)[x] = Pointer(q)
         /\ \A y \in Addr : y # x /\ y # x + 4 => PUT_SUC(m, x, q)[y] = m[y]
         /\ \A y \in Addr : y % DSIZE = 0 /\ y # x => PUT_SUC(m, x, q)[y] = m[y]
<1>1. Pointer(q) \in Word
  BY DEF Pointer, Word
<1>2. \A y \in Addr : y % 8 = 0 => y # x + 4
  BY AddrIs DEF DSIZE
<1>3. PUT_SUC(m, x, q) = [[m EXCEPT ![x] = Pointer(q)] EXCEPT ![x + 4] = Pointer(q)]
  BY DEF PUT_SUC, PUT, WSIZE
<1>4. x # x + 4
  BY AddrIs
<1> HIDE DEF Word
<1>5. /\ PUT_SUC(m, x, q) \in [Addr -> Word]
      /\ PUT_SUC(m, x, q)[x] = Pointer(q)
      /\ \A y \in Addr : y # x /\ y # x + 4 => PUT_SUC(m, x, q)[y] = m[y]
  BY <1>1, <1>3, <1>4
<1> QED
  BY <1>2, <1>5 DEF DSIZE

-----------------------------------------------------------------------------
(***************************************************************************)
(* A free list: the places of the list whose head is at c and whose blocks  *)
(* are T point to its blocks, no two of them to the same, every block is    *)
(* pointed to, and the depth of the blocks grows along the list, so there   *)
(* is no cycle.                                                             *)
(***************************************************************************)
ListOK(m, c, T, depth) ==
  /\ depth \in [T -> Nat]
  /\ \A x \in T \cup {c} : m[x] \in [suc : T \cup {NULL}]
  /\ \A x, y \in T \cup {c} :
       GET_SUC(m, x) = GET_SUC(m, y) /\ GET_SUC(m, x) # NULL => x = y
  /\ \A p \in T : \E x \in T \cup {c} : GET_SUC(m, x) = p
  /\ \A x \in T : GET_SUC(m, x) # NULL => depth[x] < depth[GET_SUC(m, x)]

\* The places of a list are read only.
LEMMA ListSame ==
  ASSUME NEW m, NEW n, NEW c, NEW T, NEW d, ListOK(m, c, T, d),
         \A x \in T \cup {c} : n[x] = m[x]
  PROVE  ListOK(n, c, T, d)
BY DEF ListOK, GET_SUC

\* Taking a block off a list: the place before it points past it.
LEMMA Unlink ==
  ASSUME NEW m \in [Addr -> Word], NEW T, NEW c, Aligned(T \cup {c}), c \notin T,
         NEW d, ListOK(m, c, T, d),
         NEW bp \in T, NEW x \in T \cup {c}, GET_SUC(m, x) = bp
  PROVE  LET n == PUT_SUC(m, x, GET_SUC(m, bp))
         IN  \E e : ListOK(n, c, T \ {bp}, e)
<1> DEFINE n == PUT_SUC(m, x, GET_SUC(m, bp))
           U == T \ {bp}
           e == [p \in U |-> d[p]]
           q == GET_SUC(m, bp)
<1>0. NULL \notin T
  BY NullIsNoAddr DEF Aligned
<1>1. q \in U \cup {NULL}
  BY <1>0 DEF ListOK, GET_SUC
<1>2. x # bp
  BY <1>0 DEF ListOK
<1>3. n[x] = Pointer(q) /\ \A y \in T \cup {c} : y # x => n[y] = m[y]
  BY <1>1, PutSuc DEF Aligned
<1>4. GET_SUC(n, x) = q /\ \A y \in T \cup {c} : y # x => GET_SUC(n, y) = GET_SUC(m, y)
  BY <1>3 DEF GET_SUC, Pointer
<1>5. \A y \in T \cup {c} : GET_SUC(m, y) = bp => y = x
  BY <1>0 DEF ListOK
<1>6. \A y \in U \cup {c} : n[y] \in [suc : U \cup {NULL}]
  <2> SUFFICES ASSUME NEW y \in U \cup {c} PROVE n[y] \in [suc : U \cup {NULL}]
    OBVIOUS
  <2>1. CASE y = x
    BY <1>1, <1>3, <2>1 DEF Pointer
  <2>2. CASE y # x
    <3>1. n[y] = m[y] /\ m[y] \in [suc : T \cup {NULL}] /\ m[y].suc # bp
      BY <1>3, <1>5, <2>2 DEF ListOK, GET_SUC
    <3> QED
      BY <3>1
  <2> QED
    BY <2>1, <2>2
<1> HIDE DEF n, q
<1>7. ASSUME NEW y \in U \cup {c}, NEW z \in U \cup {c},
             GET_SUC(n, y) = GET_SUC(n, z), GET_SUC(n, y) # NULL
      PROVE  y = z
  <2>1. \A w \in U \cup {c} : w # x /\ GET_SUC(n, w) = q => q = NULL
    <3> SUFFICES ASSUME NEW w \in U \cup {c}, w # x, GET_SUC(n, w) = q, q # NULL
                 PROVE  FALSE
      OBVIOUS
    <3>1. GET_SUC(m, w) = GET_SUC(m, bp) /\ GET_SUC(m, w) # NULL /\ w \in T \cup {c}
      BY <1>4 DEF q
    <3>2. w = bp
      BY <3>1 DEF ListOK
    <3> QED
      BY <3>2
  <2>2. CASE y # x /\ z # x
    BY <1>4, <1>7, <2>2 DEF ListOK
  <2> QED
    BY <1>4, <1>7, <2>1, <2>2
<1>8. ASSUME NEW p \in U PROVE \E y \in U \cup {c} : GET_SUC(n, y) = p
  <2>1. PICK y \in T \cup {c} : GET_SUC(m, y) = p
    BY DEF ListOK
  <2>2. CASE y = bp
    BY <1>2, <1>4, <2>1, <2>2 DEF q
  <2>3. CASE y # bp
    <3>1. y # x
      BY <2>1
    <3> QED
      BY <1>4, <2>1, <2>3, <3>1
  <2> QED
    BY <2>2, <2>3
<1>9. ASSUME NEW y \in U, GET_SUC(n, y) # NULL PROVE e[y] < e[GET_SUC(n, y)]
  <2>0. GET_SUC(n, y) \in U /\ e[y] = d[y] /\ e[GET_SUC(n, y)] = d[GET_SUC(n, y)]
    BY <1>6, <1>9 DEF GET_SUC
  <2>1. CASE y = x
    <3>1. d[x] < d[bp]
      BY <1>0, <2>1 DEF ListOK
    <3>2. q # NULL /\ d[bp] < d[q] /\ q \in T
      BY <1>1, <1>4, <1>9, <2>1 DEF ListOK, q
    <3>3. d[x] \in Nat /\ d[bp] \in Nat /\ d[q] \in Nat
      BY <2>1, <3>2 DEF ListOK
    <3> QED
      BY <1>4, <2>0, <2>1, <3>1, <3>2, <3>3
  <2>2. CASE y # x
    BY <1>4, <1>9, <2>0, <2>2 DEF ListOK
  <2> QED
    BY <2>1, <2>2
<1>10. e \in [U -> Nat]
  BY DEF ListOK
<1>11. ListOK(n, c, U, e)
  BY <1>6, <1>7, <1>8, <1>9, <1>10 DEF ListOK
<1> QED
  BY <1>11 DEF n

\* Putting a block on a list: it comes first, right after the head.
LEMMA LinkFirst ==
  ASSUME NEW m \in [Addr -> Word], NEW T, NEW c, c \notin T,
         NEW bp, bp \notin T \cup {c}, Aligned(T \cup {c, bp}),
         NEW d, ListOK(m, c, T, d)
  PROVE  LET n == PUT_SUC(PUT_SUC(m, bp, GET_SUC(m, c)), c, bp)
         IN  \E e : ListOK(n, c, T \cup {bp}, e)
<1> DEFINE q == GET_SUC(m, c)
           m1 == PUT_SUC(m, bp, q)
           n == PUT_SUC(m1, c, bp)
           U == T \cup {bp}
           e == [p \in U |-> IF p = bp THEN 0 ELSE d[p] + 1]
<1>0. NULL \notin U /\ c # bp
  BY NullIsNoAddr DEF Aligned
<1>1. q \in T \cup {NULL}
  BY DEF ListOK, GET_SUC
<1>2. /\ m1 \in [Addr -> Word] /\ m1[bp] = Pointer(q)
      /\ \A y \in T \cup {c} : m1[y] = m[y]
  BY <1>0, <1>1, PutSuc DEF Aligned
<1> HIDE DEF m1
<1>3. n[c] = Pointer(bp) /\ n[bp] = Pointer(q) /\ \A y \in T : n[y] = m[y]
  BY <1>0, <1>2, PutSuc, SMTT(20) DEF Aligned
<1> HIDE DEF n
<1>4. GET_SUC(n, c) = bp /\ GET_SUC(n, bp) = q /\ \A y \in T : GET_SUC(n, y) = GET_SUC(m, y)
  BY <1>3 DEF GET_SUC, Pointer
<1>5. \A y \in T : GET_SUC(m, y) \in T \cup {NULL}
  BY DEF ListOK, GET_SUC
<1>6. \A y \in U \cup {c} : n[y] \in [suc : U \cup {NULL}]
  BY <1>1, <1>3 DEF Pointer, ListOK
<1>7. \A y \in T : GET_SUC(m, y) = q => q = NULL
  BY DEF ListOK, q
<1> HIDE DEF q
<1>8. ASSUME NEW y \in U \cup {c}, NEW z \in U \cup {c},
             GET_SUC(n, y) = GET_SUC(n, z), GET_SUC(n, y) # NULL
      PROVE  y = z
  <2>1. CASE y \in T /\ z \in T
    BY <1>4, <1>8, <2>1 DEF ListOK
  <2> QED
    BY <1>0, <1>1, <1>4, <1>5, <1>7, <1>8, <2>1
<1>9. ASSUME NEW p \in U PROVE \E y \in U \cup {c} : GET_SUC(n, y) = p
  <2>1. CASE p = bp
    BY <1>4, <2>1
  <2>2. CASE p \in T
    <3>1. PICK y \in T \cup {c} : GET_SUC(m, y) = p
      BY <2>2 DEF ListOK
    <3> QED
      BY <1>4, <3>1 DEF q
  <2> QED
    BY <2>1, <2>2
<1>10. ASSUME NEW y \in U, GET_SUC(n, y) # NULL PROVE e[y] < e[GET_SUC(n, y)]
  <2>1. \A p \in T : d[p] \in Nat
    BY DEF ListOK
  <2>2. CASE y = bp
    BY <1>1, <1>4, <1>10, <2>1, <2>2
  <2>3. CASE y \in T
    <3>1. GET_SUC(m, y) \in T /\ d[y] < d[GET_SUC(m, y)] /\ y # bp /\ GET_SUC(m, y) # bp
      BY <1>4, <1>5, <1>10, <2>3 DEF ListOK
    <3> QED
      BY <1>4, <2>1, <2>3, <3>1
  <2> QED
    BY <2>2, <2>3
<1>11. e \in [U -> Nat]
  BY DEF ListOK
<1>12. ListOK(n, c, U, e)
  BY <1>6, <1>8, <1>9, <1>10, <1>11 DEF ListOK
<1> QED
  BY <1>12 DEF n, m1, q

-----------------------------------------------------------------------------
(***************************************************************************)
(* The walk along a list, and that it meets every block once.               *)
(***************************************************************************)

\* w holds the first places of the list, n + 1 of them or all.
Prefix(m, c, T, w, n) ==
  /\ w \in Seq(T \cup {c})
  /\ Len(w) \in 1 .. n + 1
  /\ w[1] = c
  /\ \A k \in 2 .. Len(w) : w[k] \in T
  /\ \A k \in 1 .. Len(w) - 1 : GET_SUC(m, w[k]) = w[k + 1]
  /\ \A j, k \in 1 .. Len(w) : w[j] = w[k] => j = k
  /\ Len(w) = n + 1 \/ GET_SUC(m, w[Len(w)]) = NULL

\* One more step along a list finds one more place of it, if there is one.
LEMMA OnwardPrefix ==
  ASSUME NEW m, NEW c, NEW T, c \notin T, NULL \notin T, NEW d, ListOK(m, c, T, d),
         NEW n \in Nat, NEW w, Prefix(m, c, T, w, n)
  PROVE  Prefix(m, c, T, Onward(m, w), n + 1)
<1> DEFINE q == GET_SUC(m, w[Len(w)])
           r == Append(w, q)
<1>0. /\ w \in Seq(T \cup {c}) /\ Len(w) \in Nat /\ Len(w) >= 1 /\ Len(w) <= n + 1
      /\ w[Len(w)] \in T \cup {c}
      /\ Last(w) = w[Len(w)]
  BY DEF Prefix, Last
<1>1. CASE q = NULL
  <2>1. Onward(m, w) = w
    BY <1>0, <1>1 DEF Onward
  <2> QED
    BY <1>0, <1>1, <2>1 DEF Prefix
<1>2. CASE q # NULL
  <2>1. Onward(m, w) = r
    BY <1>0, <1>2 DEF Onward
  <2>2. q \in T
    BY <1>0, <1>2 DEF ListOK, GET_SUC
  <2>3. /\ r \in Seq(T \cup {c}) /\ Len(r) = Len(w) + 1
        /\ \A k \in 1 .. Len(w) : r[k] = w[k]
        /\ r[Len(w) + 1] = q
    BY <1>0, <2>2
  <2>4. Len(w) = n + 1
    BY <1>2 DEF Prefix
  <2> HIDE DEF r
  <2>5. \A k \in 1 .. Len(w) : w[k] # q
    <3> SUFFICES ASSUME NEW k \in 1 .. Len(w), w[k] = q PROVE FALSE
      OBVIOUS
    <3>1. k # 1
      BY <2>2 DEF Prefix
    <3>2. k - 1 \in 1 .. Len(w) - 1 /\ (k - 1) + 1 = k /\ k - 1 # Len(w)
      BY <1>0, <3>1
    <3>3. GET_SUC(m, w[k - 1]) = q
      BY <3>2 DEF Prefix
    <3>4. w[k - 1] \in T \cup {c}
      BY <1>0, <3>2
    <3>5. w[k - 1] = w[Len(w)]
      BY <1>0, <1>2, <3>3, <3>4 DEF ListOK
    <3> QED
      BY <1>0, <3>2, <3>5 DEF Prefix
  <2>6. \A k \in 2 .. Len(r) : r[k] \in T
    <3> SUFFICES ASSUME NEW k \in 2 .. Len(r) PROVE r[k] \in T
      OBVIOUS
    <3>1. CASE k = Len(w) + 1
      BY <2>2, <2>3, <3>1
    <3>2. CASE k \in 2 .. Len(w)
      BY <1>0, <2>3, <3>2 DEF Prefix
    <3> QED
      BY <1>0, <2>3, <3>1, <3>2
  <2>7. \A k \in 1 .. Len(r) - 1 : GET_SUC(m, r[k]) = r[k + 1]
    <3> SUFFICES ASSUME NEW k \in 1 .. Len(w) PROVE GET_SUC(m, r[k]) = r[k + 1]
      BY <1>0, <2>3
    <3>1. CASE k = Len(w)
      BY <1>0, <2>3, <3>1
    <3>2. CASE k # Len(w)
      <4>1. k \in 1 .. Len(w) - 1 /\ k + 1 \in 1 .. Len(w)
        BY <1>0, <3>2
      <4> QED
        BY <2>3, <4>1 DEF Prefix
    <3> QED
      BY <3>1, <3>2
  <2> HIDE DEF q
  <2>8. \A j, k \in 1 .. Len(r) : r[j] = r[k] => j = k
    <3> SUFFICES ASSUME NEW j \in 1 .. Len(r), NEW k \in 1 .. Len(r), r[j] = r[k]
                 PROVE  j = k
      OBVIOUS
    <3>1. CASE j \in 1 .. Len(w) /\ k \in 1 .. Len(w)
      BY <2>3, <3>1 DEF Prefix
    <3>2. j = Len(w) + 1 \/ j \in 1 .. Len(w)
      BY <1>0, <2>3
    <3>3. k = Len(w) + 1 \/ k \in 1 .. Len(w)
      BY <1>0, <2>3
    <3> QED
      BY <2>3, <2>5, <3>1, <3>2, <3>3
  <2>9. Len(r) = n + 2 /\ r[1] = c
    BY <1>0, <2>3, <2>4 DEF Prefix
  <2>10. Prefix(m, c, T, r, n + 1)
    BY <2>3, <2>6, <2>7, <2>8, <2>9 DEF Prefix
  <2> QED
    BY <2>1, <2>10
<1> QED
  BY <1>1, <1>2

WalkTo(m, c, f, k) ==
  f = [n \in 0 .. k |-> IF n = 0 THEN <<c>> ELSE Onward(m, f[n - 1])]

\* There is a walk of every length, as the recursive definition of Links needs.
LEMMA WalkExists ==
  ASSUME NEW m, NEW c, NEW N \in Nat
  PROVE  \E f : WalkTo(m, c, f, N)
<1> DEFINE Bad == {k \in 0 .. N : ~ \E f : WalkTo(m, c, f, k)}
<1> SUFFICES ASSUME Bad # {} PROVE FALSE
  OBVIOUS
<1>1. PICK k \in Bad : \A j \in Bad : k <= j
  <2>1. Bad \subseteq Nat
    OBVIOUS
  <2> QED
    BY <2>1, MinOfNats
<1>2. CASE k = 0
  <2> DEFINE f == [n \in 0 .. 0 |-> <<c>>]
  <2>1. \A n \in 0 .. 0 : n = 0
    OBVIOUS
  <2>2. f = [n \in 0 .. 0 |-> IF n = 0 THEN <<c>> ELSE Onward(m, f[n - 1])]
    BY <2>1
  <2> HIDE DEF f
  <2>3. WalkTo(m, c, f, k)
    BY <1>2, <2>2 DEF WalkTo
  <2> QED
    BY <2>3
<1>3. CASE k # 0
  <2>1. k - 1 \in 0 .. N /\ k - 1 \notin Bad /\ k \in 1 .. N
    <3>1. k \in 1 .. N /\ ~(k <= k - 1) /\ k - 1 \in 0 .. N
      BY <1>3
    <3> QED
      BY <1>1, <3>1
  <2>2. PICK g : WalkTo(m, c, g, k - 1)
    BY <2>1
  <2> DEFINE f == [n \in 0 .. k |-> IF n = k THEN Onward(m, g[k - 1]) ELSE g[n]]
  <2>3. ASSUME NEW n \in 0 .. k
        PROVE  f[n] = IF n = 0 THEN <<c>> ELSE Onward(m, f[n - 1])
    <3>1. CASE n = k
      <4>1. k - 1 \in 0 .. k /\ k - 1 # k /\ k # 0 /\ k \in 0 .. k
        BY <2>1
      <4> QED
        BY <3>1, <4>1
    <3>2. CASE n # k
      <4>1. n \in 0 .. k - 1 /\ (n # 0 => n - 1 \in 0 .. k /\ n - 1 # k)
        BY <2>1, <3>2
      <4>2. f[n] = g[n] /\ (n # 0 => f[n - 1] = g[n - 1])
        BY <3>2, <4>1
      <4>3. g[n] = IF n = 0 THEN <<c>> ELSE Onward(m, g[n - 1])
        BY <2>2, <4>1 DEF WalkTo
      <4> QED
        BY <4>2, <4>3
    <3> QED
      BY <3>1, <3>2
  <2>4. f = [n \in 0 .. k |-> f[n]]
    OBVIOUS
  <2> HIDE DEF f
  <2>5. WalkTo(m, c, f, k)
    BY <2>3, <2>4, Zenon DEF WalkTo
  <2> QED
    BY <2>5
<1> QED
  BY <1>2, <1>3

\* Links is the end of such a walk.
LEMMA LinksWalk ==
  ASSUME NEW m, NEW c
  PROVE  \E f : WalkTo(m, c, f, MAX_HEAP \div WSIZE) /\ Links(m, c) = f[MAX_HEAP \div WSIZE]
<1> DEFINE N == MAX_HEAP \div WSIZE
           f == CHOOSE f : f = [n \in 0 .. N |-> IF n = 0 THEN <<c>> ELSE Onward(m, f[n - 1])]
<1>1. N \in Nat
  BY HeapAssumption DEF WSIZE
<1>2. Links(m, c) = f[N]
  BY DEF Links
<1>3. \E g : g = [n \in 0 .. N |-> IF n = 0 THEN <<c>> ELSE Onward(m, g[n - 1])]
  <2> HIDE DEF N
  <2>1. PICK g : WalkTo(m, c, g, N)
    BY <1>1, WalkExists
  <2>2. g = [n \in 0 .. N |-> IF n = 0 THEN <<c>> ELSE Onward(m, g[n - 1])]
    BY <2>1, Zenon DEF WalkTo
  <2> QED
    BY <2>2, Zenon
<1>4. f = [n \in 0 .. N |-> IF n = 0 THEN <<c>> ELSE Onward(m, f[n - 1])]
  BY <1>3, Zenon
<1> QED
  BY <1>2, <1>4 DEF WalkTo

\* A walk of n steps finds the first n + 1 places.
LEMMA WalkPrefix ==
  ASSUME NEW m, NEW c, NEW T, c \notin T, NULL \notin T, NEW d, ListOK(m, c, T, d),
         NEW N \in Nat, NEW f, WalkTo(m, c, f, N)
  PROVE  Prefix(m, c, T, f[N], N)
<1> DEFINE Bad == {k \in 0 .. N : ~Prefix(m, c, T, f[k], k)}
<1> SUFFICES ASSUME Bad # {} PROVE FALSE
  OBVIOUS
<1>1. PICK k \in Bad : \A j \in Bad : k <= j
  <2>1. Bad \subseteq Nat
    OBVIOUS
  <2> QED
    BY <2>1, MinOfNats
<1>2. \A n \in 0 .. N : f[n] = IF n = 0 THEN <<c>> ELSE Onward(m, f[n - 1])
  BY DEF WalkTo
<1>3. k # 0
  <2>1. Prefix(m, c, T, <<c>>, 0)
    <3> DEFINE w == <<c>>
    <3>1. w \in Seq(T \cup {c}) /\ Len(w) = 1 /\ w[1] = c
      OBVIOUS
    <3> QED
      BY <3>1 DEF Prefix
  <2>2. f[0] = <<c>>
    BY <1>2
  <2> QED
    BY <2>1, <2>2
<1>4. k - 1 \in 0 .. N /\ k - 1 \notin Bad /\ k \in 1 .. N
  <2>1. k \in 1 .. N /\ ~(k <= k - 1) /\ k - 1 \in 0 .. N
    BY <1>3
  <2> QED
    BY <1>1, <2>1
<1>5. Prefix(m, c, T, f[k - 1], k - 1)
  BY <1>4
<1>6. f[k] = Onward(m, f[k - 1]) /\ k - 1 \in Nat /\ (k - 1) + 1 = k
  BY <1>2, <1>4
<1>7. Prefix(m, c, T, f[k], k)
  <2>1. Prefix(m, c, T, Onward(m, f[k - 1]), (k - 1) + 1)
    BY <1>5, <1>6, OnwardPrefix
  <2> QED
    BY <1>6, <2>1
<1> QED
  BY <1>7

\* w is the list's head and then every block, each once, in the order of the
\* pointers.
Along(m, c, T, w) ==
  /\ w \in Seq(T \cup {c}) /\ Len(w) \in Nat /\ Len(w) >= 1 /\ w[1] = c
  /\ \A k \in 2 .. Len(w) : w[k] \in T
  /\ \A k \in 1 .. Len(w) - 1 : GET_SUC(m, w[k]) = w[k + 1]
  /\ \A j, k \in 1 .. Len(w) : w[j] = w[k] => j = k
  /\ \A p \in T : \E k \in 2 .. Len(w) : w[k] = p

\* That is what Links finds.
LEMMA LinksOfList ==
  ASSUME NEW m, NEW c, NEW T, c \notin T, Aligned(T \cup {c}), NEW d, ListOK(m, c, T, d)
  PROVE  Along(m, c, T, Links(m, c))
<1> DEFINE N == MAX_HEAP \div WSIZE
           w == Links(m, c)
<1>0. NULL \notin T /\ N \in Nat
  BY NullIsNoAddr, HeapAssumption DEF Aligned, WSIZE
<1>1. Prefix(m, c, T, w, N)
  BY <1>0, LinksWalk, WalkPrefix
<1> HIDE DEF w
<1>2. /\ w \in Seq(T \cup {c}) /\ Len(w) \in Nat /\ Len(w) >= 1 /\ w[1] = c
      /\ \A k \in 2 .. Len(w) : w[k] \in T
      /\ \A k \in 1 .. Len(w) - 1 : GET_SUC(m, w[k]) = w[k + 1]
      /\ \A j, k \in 1 .. Len(w) : w[j] = w[k] => j = k
  BY <1>1 DEF Prefix
<1>3. GET_SUC(m, w[Len(w)]) = NULL
  <2> SUFFICES ASSUME Len(w) = N + 1 PROVE FALSE
    BY <1>1 DEF Prefix
  <2> DEFINE I == 1 .. Len(w)
             g == [k \in I |-> w[k]]
  <2>1. g \in Injection(I, Addr)
    <3>1. \A k \in I : w[k] \in Addr
      BY <1>2 DEF Aligned
    <3> QED
      BY <1>2, <3>1 DEF Injection, IsInjective
  <2>2. IsFiniteSet(I) /\ Cardinality(I) = N + 1
    BY <1>0, FS_Interval
  <2>3. Cardinality(I) <= Cardinality(Addr) /\ Cardinality(Addr) <= N /\ Cardinality(Addr) \in Nat
    BY <2>1, AddrFinite, FS_Injection, FS_CardinalityType
  <2> QED
    BY <1>0, <2>2, <2>3
<1>4. ASSUME NEW p \in T PROVE \E k \in 2 .. Len(w) : w[k] = p
  <2> DEFINE X == {x \in T : \A k \in 2 .. Len(w) : w[k] # x}
             D == {d[x] : x \in X}
  <2> SUFFICES ASSUME X # {} PROVE FALSE
    OBVIOUS
  <2>1. \A x \in T : d[x] \in Nat
    BY DEF ListOK
  <2>2. PICK x \in X : \A y \in X : d[x] <= d[y]
    <3>1. D \subseteq Nat /\ D # {}
      BY <2>1
    <3>2. Min(D) \in D /\ \A y \in D : Min(D) <= y
      BY <3>1, MinOfNats
    <3> QED
      BY <3>2
  <2>3. PICK y \in T \cup {c} : GET_SUC(m, y) = x
    BY DEF ListOK
  <2>4. \A k \in 1 .. Len(w) : w[k] # y
    <3> SUFFICES ASSUME NEW k \in 1 .. Len(w), w[k] = y PROVE FALSE
      OBVIOUS
    <3>1. k # Len(w)
      BY <1>0, <1>3, <2>3
    <3>2. k \in 1 .. Len(w) - 1 /\ k + 1 \in 2 .. Len(w)
      BY <1>2, <3>1
    <3>3. w[k + 1] = x
      BY <1>2, <2>3, <3>2
    <3> QED
      BY <3>2, <3>3
  <2>5. y \in X
    <3>1. y # c /\ \A k \in 2 .. Len(w) : k \in 1 .. Len(w)
      BY <1>2, <2>4
    <3> QED
      BY <2>4, <3>1
  <2>6. d[y] < d[x]
    BY <1>0, <2>3, <2>5 DEF ListOK
  <2> QED
    BY <2>1, <2>2, <2>5, <2>6
<1>5. \A p \in T : \E k \in 2 .. Len(w) : w[k] = p
  BY <1>4
<1> QED
  BY <1>2, <1>5 DEF w, Along

-----------------------------------------------------------------------------
(***************************************************************************)
(* Classes of sizes, and the heads of the lists.                            *)
(***************************************************************************)

\* The bounds of the classes are integers.
LEMMA PowerIsInt == ASSUME NEW i \in Nat PROVE 2 ^ (i + 5) \in Int
OBVIOUS

\* A size is in the first class whose bound it is below, or in the last.
LEMMA ClassIs ==
  ASSUME NEW s \in Int
  PROVE  /\ Class(s) \in 0 .. Classes - 1
         /\ \A i \in 0 .. Classes - 2 : s < 2 ^ (i + 5) => Class(s) <= i
         /\ Class(s) # Classes - 1 => Class(s) \in 0 .. Classes - 2 /\ s < 2 ^ (Class(s) + 5)
<1> DEFINE below == {i \in 0 .. Classes - 2 : s < 2 ^ (i + 5)}
<1>1. below \subseteq Nat /\ Classes \in Nat /\ Classes >= 1
  BY HeapAssumption
<1>2. Class(s) = IF below = {} THEN Classes - 1 ELSE Min(below)
  BY DEF Class
<1>3. CASE below = {}
  BY <1>1, <1>2, <1>3
<1>4. CASE below # {}
  <2>1. Min(below) \in below /\ \A i \in below : Min(below) <= i
    BY <1>1, <1>4, MinOfNats
  <2> QED
    BY <1>1, <1>2, <1>4, <2>1
<1> QED
  BY <1>3, <1>4

\* A larger size is in the same class or a later one.
LEMMA ClassMonotone ==
  ASSUME NEW s \in Int, NEW t \in Int, s <= t
  PROVE  Class(s) <= Class(t)
<1>1. Class(s) \in 0 .. Classes - 1 /\ Classes \in Nat
  BY ClassIs, HeapAssumption
<1>2. CASE Class(t) = Classes - 1
  BY <1>1, <1>2
<1>3. CASE Class(t) # Classes - 1
  <2>1. Class(t) \in 0 .. Classes - 2 /\ t < 2 ^ (Class(t) + 5)
    BY <1>3, ClassIs
  <2>2. 2 ^ (Class(t) + 5) \in Int
    BY <2>1, PowerIsInt
  <2>3. s < 2 ^ (Class(t) + 5)
    BY <2>1, <2>2
  <2> QED
    BY <2>1, <2>3, ClassIs
<1> QED
  BY <1>2, <1>3

Index == 0 .. Classes - 1

\* The heads of the lists are separate places before the first block.
LEMMA Heads ==
  /\ \A i \in Index : /\ ClassAt(i) \in Addr /\ ClassAt(i) % DSIZE = 0
                       /\ ClassAt(i) + 8 <= ClassAt(Classes)
                       /\ ClassAt(i) >= 8
  /\ \A i, j \in Index : ClassAt(i) = ClassAt(j) => i = j
  /\ ClassAt(Classes) \in Nat /\ ClassAt(Classes) % DSIZE = 0 /\ ClassAt(Classes) >= 16
  /\ first_block = ClassAt(Classes) + 16
  /\ first_block <= mem_max_addr /\ mem_max_addr \in Nat /\ mem_max_addr % DSIZE = 0
  /\ mem_max_addr = MAX_HEAP + 8
<1> USE HeapAssumption DEF ClassAt, Index, DSIZE, WSIZE, mem_start_brk, mem_max_addr, first_block
<1>1. ASSUME NEW i \in Index
      PROVE  /\ ClassAt(i) \in Int /\ ClassAt(i) % 4 = 0 /\ ClassAt(i) % 8 = 0
             /\ ClassAt(i) + 8 <= ClassAt(Classes)
             /\ ClassAt(i) >= 8 /\ ClassAt(i) + 4 <= mem_max_addr
  OBVIOUS
<1>2. \A i \in Index : ClassAt(i) \in Addr
  BY <1>1, AddrIs
<1>3. \A i, j \in Index : ClassAt(i) = ClassAt(j) => i = j
  OBVIOUS
<1>4. /\ ClassAt(Classes) \in Nat /\ ClassAt(Classes) % 8 = 0 /\ ClassAt(Classes) >= 16
      /\ first_block = ClassAt(Classes) + 16
      /\ first_block <= mem_max_addr /\ mem_max_addr \in Nat /\ mem_max_addr % 8 = 0
      /\ mem_max_addr = MAX_HEAP + 8
  OBVIOUS
<1> QED
  BY <1>1, <1>2, <1>3, <1>4

-----------------------------------------------------------------------------
(***************************************************************************)
(* A heap up to brk that the blocks B tile: their tags are whole, the end   *)
(* of each is the start of the next, and the prologue and the epilogue are  *)
(* at the ends.                                                             *)
(***************************************************************************)
Size(m, p) == GET_SIZE(m, HDRP(p))

Tag == [size : 0 .. MAX_HEAP, alloc : {0, 1}]

BlockAt(m, brk, p) ==
  /\ p \in Nat /\ p % DSIZE = 0 /\ first_block <= p
  /\ m[p - 4] \in Tag
  /\ Size(m, p) >= 16 /\ Size(m, p) % DSIZE = 0
  /\ p + Size(m, p) <= brk
  /\ m[p + Size(m, p) - 8] = m[p - 4]

Tiled(m, brk, B) ==
  /\ brk \in first_block .. mem_max_addr /\ brk % DSIZE = 0
  /\ \A p \in B : BlockAt(m, brk, p) /\ p + Size(m, p) \in B \cup {brk}
  /\ \A p, q \in B : p < q => p + Size(m, p) <= q
  /\ \A q \in B \cup {brk} : q = first_block \/ \E p \in B : p + Size(m, p) = q
  /\ first_block \in B \cup {brk}
  /\ m[first_block - 12] = PACK(8, 1) /\ m[first_block - 8] = PACK(8, 1)
  /\ m[brk - 4] = PACK(0, 1)

\* The places of pointers: the heads and the first words of the blocks S
Places(S) == S \cup {ClassAt(i) : i \in Index}

SameOff(m, n, S) ==
  \A x \in Addr : (\A y \in Places(S) : x # y /\ x # y + 4) => n[x] = m[x]

\* What follows of a block
LEMMA BlockFacts ==
  ASSUME NEW m, NEW brk, NEW B, Tiled(m, brk, B), NEW p \in B
  PROVE  /\ p \in Nat /\ p % 8 = 0 /\ first_block <= p /\ p \in Addr
         /\ Size(m, p) \in Nat /\ Size(m, p) >= 16 /\ Size(m, p) % 8 = 0
         /\ Size(m, p) <= MAX_HEAP
         /\ brk \in Nat /\ brk % 8 = 0 /\ brk <= mem_max_addr
         /\ p + Size(m, p) <= brk /\ p + Size(m, p) \in B \cup {brk}
         /\ p - 4 \in Addr /\ p + Size(m, p) - 8 \in Addr /\ p + 4 \in Addr
         /\ m[p - 4] \in Tag /\ m[p + Size(m, p) - 8] = m[p - 4]
         /\ m[p - 4].size = Size(m, p)
<1>0. /\ first_block \in Nat /\ first_block >= 32 /\ mem_max_addr \in Nat
      /\ first_block % 8 = 0
  BY Heads DEF DSIZE
<1>1. /\ brk \in Nat /\ brk % 8 = 0 /\ brk <= mem_max_addr
      /\ BlockAt(m, brk, p) /\ p + Size(m, p) \in B \cup {brk}
  BY <1>0 DEF Tiled, DSIZE
<1>2. /\ p \in Nat /\ p % 8 = 0 /\ first_block <= p
      /\ m[p - 4] \in Tag /\ m[p + Size(m, p) - 8] = m[p - 4]
      /\ Size(m, p) >= 16 /\ Size(m, p) % 8 = 0 /\ p + Size(m, p) <= brk
  BY <1>1 DEF BlockAt, DSIZE
<1>3. m[p - 4].size = Size(m, p)
  BY DEF Size, GET_SIZE, HDRP, WSIZE
<1>4. Size(m, p) \in Nat /\ Size(m, p) <= MAX_HEAP
  BY <1>2, <1>3, HeapAssumption DEF Tag
<1> HIDE DEF Size
<1> DEFINE s == Size(m, p)
<1>5. /\ p % 4 = 0 /\ (p - 4) % 4 = 0 /\ (p + 4) % 4 = 0 /\ (p + s - 8) % 4 = 0
      /\ p + s - 8 \in Int /\ p + s - 8 >= 8 /\ p + s - 8 + 4 <= mem_max_addr
      /\ p - 4 >= 8 /\ p + 4 <= mem_max_addr /\ p + 8 <= mem_max_addr
  BY <1>0, <1>1, <1>2, <1>4
<1>6. p \in Addr /\ p - 4 \in Addr /\ p + 4 \in Addr /\ p + s - 8 \in Addr
  BY <1>0, <1>1, <1>2, <1>4, <1>5, AddrIs DEF WSIZE
<1> QED
  BY <1>1, <1>2, <1>3, <1>4, <1>6

\* Two blocks do not overlap.
LEMMA BlocksApart ==
  ASSUME NEW m, NEW brk, NEW B, Tiled(m, brk, B), NEW p \in B, NEW q \in B, p # q
  PROVE  \/ p + Size(m, p) <= q
         \/ q + Size(m, q) <= p
<1>1. p \in Nat /\ q \in Nat
  BY BlockFacts
<1> QED
  BY <1>1 DEF Tiled

\* The places of pointers are no places of tags.
LEMMA PlacesHoldNoTags ==
  ASSUME NEW m, NEW brk, NEW B, Tiled(m, brk, B), NEW S, S \subseteq B, NEW y \in Places(S)
  PROVE  /\ y \in Addr /\ y % 8 = 0
         /\ \A p \in B : /\ p - 4 # y /\ p - 4 # y + 4
                          /\ p + Size(m, p) - 8 # y /\ p + Size(m, p) - 8 # y + 4
         /\ first_block - 12 \notin {y, y + 4} /\ first_block - 8 \notin {y, y + 4}
         /\ brk - 4 \notin {y, y + 4}
<1>0. /\ first_block \in Nat /\ brk \in Nat /\ first_block <= brk /\ brk % 8 = 0
      /\ first_block % 8 = 0
  BY Heads DEF Tiled, DSIZE
<1>1. CASE y \in S
  <2>1. y \in B
    BY <1>1
  <2>2. /\ y \in Addr /\ y \in Nat /\ y % 8 = 0 /\ y >= first_block
        /\ Size(m, y) \in Nat /\ Size(m, y) >= 16 /\ y + Size(m, y) <= brk
    BY <2>1, BlockFacts
  <2>3. ASSUME NEW p \in B
        PROVE  /\ p - 4 # y /\ p - 4 # y + 4
               /\ p + Size(m, p) - 8 # y /\ p + Size(m, p) - 8 # y + 4
    <3>1. p \in Nat /\ p % 8 = 0 /\ Size(m, p) \in Nat /\ Size(m, p) >= 16
      BY BlockFacts
    <3>2. p = y \/ p + Size(m, p) <= y \/ y + Size(m, y) <= p
      BY <2>1, BlocksApart
    <3> QED
      BY <2>2, <3>1, <3>2
  <2> QED
    BY <1>0, <2>2, <2>3
<1>2. CASE y \notin S
  <2>1. PICK i \in Index : y = ClassAt(i)
    BY <1>2 DEF Places
  <2>2. y \in Addr /\ y \in Int /\ y % 8 = 0 /\ y + 24 <= first_block
    BY <2>1, Heads, AddrIs DEF DSIZE
  <2>3. ASSUME NEW p \in B
        PROVE  /\ p - 4 # y /\ p - 4 # y + 4
               /\ p + Size(m, p) - 8 # y /\ p + Size(m, p) - 8 # y + 4
    <3>1. p \in Nat /\ p >= first_block /\ Size(m, p) \in Nat /\ Size(m, p) >= 16
      BY BlockFacts
    <3> QED
      BY <1>0, <2>2, <3>1
  <2> QED
    BY <1>0, <2>2, <2>3
<1> QED
  BY <1>1, <1>2

\* A heap whose tags are the same is tiled the same.
LEMMA TiledSame ==
  ASSUME NEW m, NEW n, NEW brk, NEW B, Tiled(m, brk, B),
         \A p \in B : n[p - 4] = m[p - 4] /\ n[p + Size(m, p) - 8] = m[p + Size(m, p) - 8],
         n[first_block - 12] = m[first_block - 12], n[first_block - 8] = m[first_block - 8],
         n[brk - 4] = m[brk - 4]
  PROVE  Tiled(n, brk, B) /\ \A p \in B : Size(n, p) = Size(m, p) /\ n[p - 4] = m[p - 4]
<1>1. \A p \in B : Size(n, p) = Size(m, p)
  BY DEF Size, GET_SIZE, HDRP, WSIZE
<1> QED
  BY <1>1 DEF Tiled, BlockAt

\* Changes at places of pointers leave the tiling as it is.
LEMMA TiledOff ==
  ASSUME NEW m, NEW n, NEW brk, NEW B, Tiled(m, brk, B), NEW S, S \subseteq B, SameOff(m, n, S)
  PROVE  Tiled(n, brk, B) /\ \A p \in B : Size(n, p) = Size(m, p) /\ n[p - 4] = m[p - 4]
<1>1. ASSUME NEW p \in B
      PROVE  n[p - 4] = m[p - 4] /\ n[p + Size(m, p) - 8] = m[p + Size(m, p) - 8]
  <2>1. p - 4 \in Addr /\ p + Size(m, p) - 8 \in Addr
    BY BlockFacts
  <2> QED
    BY <2>1, PlacesHoldNoTags DEF SameOff
<1>2. /\ first_block - 12 \in Addr /\ first_block - 8 \in Addr /\ brk - 4 \in Addr
  <2>1. /\ first_block \in Nat /\ first_block >= 32 /\ first_block % 8 = 0
        /\ brk \in Nat /\ brk % 8 = 0 /\ brk >= first_block
        /\ brk <= mem_max_addr /\ mem_max_addr \in Nat
    BY Heads DEF Tiled, DSIZE
  <2> QED
    BY <2>1, AddrIs DEF WSIZE
<1>3. /\ n[first_block - 12] = m[first_block - 12] /\ n[first_block - 8] = m[first_block - 8]
      /\ n[brk - 4] = m[brk - 4]
  BY <1>2, PlacesHoldNoTags DEF SameOff
<1> QED
  BY <1>1, <1>3, TiledSame

-----------------------------------------------------------------------------
(***************************************************************************)
(* A heap tiled by B whose free lists hold the blocks S, which an operation *)
(* of the allocator may not have brought in line with the tags yet.         *)
(***************************************************************************)
OfClass(m, S, i) == {p \in S : Class(Size(m, p)) = i}

Lists(m, S) == \A i \in Index : \E d : ListOK(m, ClassAt(i), OfClass(m, S, i), d)

Shape(m, brk, B, S) ==
  /\ m \in [Addr -> Word]
  /\ Tiled(m, brk, B)
  /\ S \subseteq B
  /\ Lists(m, S)

\* The blocks K keep all their words.
Keep(m, n, K) ==
  \A p \in K : \A x \in Addr : p - 4 <= x /\ x < p + Size(m, p) - 4 => n[x] = m[x]

\* The header of a block, and that the blocks K keep theirs
TagAt(m, p) == m[p - 4]

SameTags(m, n, K) == \A p \in K : n[p - 4] = m[p - 4] /\ Size(n, p) = Size(m, p)

KeepBut(m, n, K, p) == Keep(m, n, K \ {p}) /\ SameTags(m, n, K \ {p})

\* The places of two lists are apart.
LEMMA ClassFacts ==
  ASSUME NEW m, NEW brk, NEW B, NEW S, Tiled(m, brk, B), S \subseteq B, NEW i \in Index
  PROVE  /\ OfClass(m, S, i) \subseteq S /\ ClassAt(i) \notin B
         /\ Aligned(OfClass(m, S, i) \cup {ClassAt(i)})
         /\ OfClass(m, S, i) \cup {ClassAt(i)} \subseteq Places(S)
         /\ \A j \in Index \ {i} :
              (OfClass(m, S, j) \cup {ClassAt(j)}) \cap (OfClass(m, S, i) \cup {ClassAt(i)}) = {}
<1>1. \A j \in Index : ClassAt(j) \notin B
  <2> SUFFICES ASSUME NEW j \in Index, ClassAt(j) \in B PROVE FALSE
    OBVIOUS
  <2>1. ClassAt(j) \in Int /\ ClassAt(j) + 24 <= first_block
    BY Heads, AddrIs
  <2>2. ClassAt(j) >= first_block /\ first_block \in Int
    BY BlockFacts, Heads
  <2> QED
    BY <2>1, <2>2
<1>2. OfClass(m, S, i) \subseteq S /\ \A j \in Index : OfClass(m, S, j) \subseteq B
  BY DEF OfClass
<1>3. Aligned(OfClass(m, S, i) \cup {ClassAt(i)})
  <2>1. \A p \in B : p \in Addr /\ p % DSIZE = 0
    BY BlockFacts DEF DSIZE
  <2>2. ClassAt(i) \in Addr /\ ClassAt(i) % DSIZE = 0
    BY Heads
  <2> QED
    BY <1>2, <2>1, <2>2 DEF Aligned
<1>4. \A j \in Index \ {i} : OfClass(m, S, j) \cap OfClass(m, S, i) = {} /\ ClassAt(j) # ClassAt(i)
  BY Heads DEF OfClass
<1> QED
  BY <1>1, <1>2, <1>3, <1>4 DEF Places

\* Changes at pointers only leave the tags, and every block that is not listed.
LEMMA SameOffKeeps ==
  ASSUME NEW m, NEW n, NEW brk, NEW B, NEW S, Tiled(m, brk, B), S \subseteq B, SameOff(m, n, S)
  PROVE  /\ Tiled(n, brk, B) /\ SameTags(m, n, B)
         /\ Keep(m, n, B \ S)
<1>1. Tiled(n, brk, B) /\ SameTags(m, n, B)
  BY TiledOff DEF SameTags
<1>2. ASSUME NEW p \in B \ S, NEW x \in Addr, p - 4 <= x, x < p + Size(m, p) - 4, NEW y \in Places(S)
      PROVE  x # y /\ x # y + 4
  <2>1. /\ p \in Nat /\ Size(m, p) \in Nat /\ p >= first_block /\ first_block \in Int
        /\ x \in Int /\ x % 4 = 0 /\ p % 8 = 0 /\ Size(m, p) % 8 = 0
    BY BlockFacts, AddrIs, Heads DEF WSIZE
  <2>2. CASE y \in S
    <3>1. y \in Nat /\ y % 8 = 0 /\ Size(m, y) \in Nat /\ Size(m, y) >= 16
      BY <2>2, BlockFacts
    <3>2. p + Size(m, p) <= y \/ y + Size(m, y) <= p
      BY <2>2, BlocksApart
    <3> QED
      BY <1>2, <2>1, <3>1, <3>2
  <2>3. CASE y \notin S
    <3>1. PICK i \in Index : y = ClassAt(i)
      BY <2>3 DEF Places
    <3>2. y \in Int /\ y + 24 <= first_block
      BY <3>1, Heads, AddrIs
    <3> QED
      BY <1>2, <2>1, <3>2
  <2> QED
    BY <2>2, <2>3
<1>3. Keep(m, n, B \ S)
  BY <1>2, Zenon DEF Keep, SameOff
<1> QED
  BY <1>1, <1>3

\* Lists whose places and sizes are the same are the same.
LEMMA ListsSame ==
  ASSUME NEW m, NEW n, NEW S, Lists(m, S),
         \A y \in Places(S) : n[y] = m[y],
         \A p \in S : Size(n, p) = Size(m, p)
  PROVE  Lists(n, S)
<1> SUFFICES ASSUME NEW i \in Index PROVE \E d : ListOK(n, ClassAt(i), OfClass(n, S, i), d)
  BY DEF Lists
<1>1. OfClass(n, S, i) = OfClass(m, S, i)
  BY DEF OfClass
<1>2. \A x \in OfClass(m, S, i) \cup {ClassAt(i)} : n[x] = m[x]
  BY DEF OfClass, Places
<1>3. PICK d : ListOK(m, ClassAt(i), OfClass(m, S, i), d)
  BY DEF Lists
<1>4. ListOK(n, ClassAt(i), OfClass(m, S, i), d)
  BY <1>2, <1>3, ListSame, Zenon
<1> QED
  BY <1>1, <1>4

\* free_from_list takes a listed block off its list.
LEMMA FreeFromList ==
  ASSUME NEW m, NEW brk, NEW B, NEW S, Shape(m, brk, B, S), NEW bp \in S
  PROVE  LET n == free_from_list(m, bp)
         IN  /\ Shape(n, brk, B, S \ {bp})
             /\ SameTags(m, n, B) /\ Keep(m, n, B \ S)
<1> DEFINE i == Class(Size(m, bp))
           c == ClassAt(i)
           T == OfClass(m, S, i)
           w == Links(m, c)
           before == {k \in 1 .. Len(w) - 1 : w[k + 1] = bp}
           x == w[Min(before)]
           n == free_from_list(m, bp)
<1>1. m \in [Addr -> Word] /\ Tiled(m, brk, B) /\ S \subseteq B /\ Lists(m, S)
  BY DEF Shape
<1>2. i \in Index /\ bp \in T
  <2>1. Size(m, bp) \in Int
    BY <1>1, BlockFacts
  <2> QED
    BY <2>1, ClassIs DEF Index, OfClass
<1>3. /\ T \subseteq S /\ c \notin B /\ c \notin T /\ Aligned(T \cup {c}) /\ T \cup {c} \subseteq Places(S)
      /\ \A j \in Index \ {i} : (OfClass(m, S, j) \cup {ClassAt(j)}) \cap (T \cup {c}) = {}
  BY <1>1, <1>2, ClassFacts
<1>4. PICK d : ListOK(m, c, T, d)
  BY <1>1, <1>2 DEF Lists
<1>5. n = IF before = {} THEN m ELSE PUT_SUC(m, x, GET_SUC(m, bp))
  BY DEF free_from_list, get_class, Size
<1> HIDE DEF n
<1>6. /\ w \in Seq(T \cup {c}) /\ Len(w) \in Nat
      /\ \A k \in 1 .. Len(w) - 1 : GET_SUC(m, w[k]) = w[k + 1]
      /\ \A p \in T : \E k \in 2 .. Len(w) : w[k] = p
  <2>1. Along(m, c, T, w)
    BY <1>3, <1>4, LinksOfList
  <2> QED
    BY <2>1 DEF Along
<1> HIDE DEF w, c, T, i
<1>7. before # {} /\ before \subseteq Nat
  <2>1. PICK k \in 2 .. Len(w) : w[k] = bp
    BY <1>2, <1>6
  <2>2. k - 1 \in 1 .. Len(w) - 1 /\ w[(k - 1) + 1] = bp
    BY <1>6, <2>1
  <2>3. k - 1 \in before
    BY <2>2
  <2>4. before \subseteq Nat
    OBVIOUS
  <2> QED
    BY <2>3, <2>4
<1>8. Min(before) \in before
  BY <1>7, MinOfNats
<1>9. x \in T \cup {c} /\ GET_SUC(m, x) = bp
  <2>1. Min(before) \in 1 .. Len(w) - 1 /\ w[Min(before) + 1] = bp
    BY <1>8
  <2> QED
    BY <1>6, <2>1
<1> HIDE DEF x, before
<1>10. n = PUT_SUC(m, x, GET_SUC(m, bp))
  BY <1>5, <1>7
<1>11. x \in Addr /\ x % DSIZE = 0 /\ GET_SUC(m, bp) \in Addr \cup {NULL}
  BY <1>2, <1>3, <1>4, <1>9 DEF Aligned, ListOK, GET_SUC
<1>12. /\ n \in [Addr -> Word]
       /\ \A y \in Addr : y # x /\ y # x + 4 => n[y] = m[y]
       /\ \A y \in Addr : y % DSIZE = 0 /\ y # x => n[y] = m[y]
  BY <1>1, <1>10, <1>11, PutSuc
<1>13. SameOff(m, n, S)
  BY <1>3, <1>9, <1>12 DEF SameOff
<1>14. Tiled(n, brk, B) /\ SameTags(m, n, B) /\ Keep(m, n, B \ S)
  BY <1>1, <1>13, SameOffKeeps
<1>15. ASSUME NEW j \in Index
       PROVE  \E e : ListOK(n, ClassAt(j), OfClass(n, S \ {bp}, j), e)
  <2>1. OfClass(n, S \ {bp}, j) = OfClass(m, S, j) \ {bp}
    BY <1>1, <1>14 DEF OfClass, SameTags
  <2>2. CASE j = i
    <3>1. \E e : ListOK(n, c, T \ {bp}, e)
      BY <1>1, <1>2, <1>3, <1>4, <1>9, <1>10, Unlink
    <3> QED
      BY <2>1, <2>2, <3>1 DEF c, T
  <2>3. CASE j # i
    <3>1. bp \notin OfClass(m, S, j)
      BY <2>3 DEF OfClass, i
    <3>2. PICK e : ListOK(m, ClassAt(j), OfClass(m, S, j), e)
      BY <1>1 DEF Lists
    <3>3. Aligned(OfClass(m, S, j) \cup {ClassAt(j)}) /\ x \notin OfClass(m, S, j) \cup {ClassAt(j)}
      BY <1>1, <1>3, <1>9, <2>3, ClassFacts
    <3>4. \A y \in OfClass(m, S, j) \cup {ClassAt(j)} : n[y] = m[y]
      BY <1>12, <3>3 DEF Aligned
    <3>5. ListOK(n, ClassAt(j), OfClass(m, S, j), e)
      BY <3>2, <3>4, ListSame, Zenon
    <3>6. OfClass(n, S \ {bp}, j) = OfClass(m, S, j)
      BY <2>1, <3>1
    <3> QED
      BY <3>5, <3>6
  <2> QED
    BY <2>2, <2>3
<1>16. Shape(n, brk, B, S \ {bp})
  BY <1>1, <1>12, <1>14, <1>15 DEF Shape, Lists
<1> QED
  BY <1>14, <1>16 DEF n

\* attatch_to_list puts a block first on its list.
LEMMA AttachToList ==
  ASSUME NEW m, NEW brk, NEW B, NEW S, Shape(m, brk, B, S), NEW bp \in B, bp \notin S
  PROVE  LET n == attatch_to_list(m, bp)
         IN  /\ Shape(n, brk, B, S \cup {bp})
             /\ SameTags(m, n, B) /\ Keep(m, n, B \ (S \cup {bp}))
<1> DEFINE i == Class(Size(m, bp))
           c == ClassAt(i)
           T == OfClass(m, S, i)
           U == S \cup {bp}
           m1 == PUT_SUC(m, bp, GET_SUC(m, c))
           n == attatch_to_list(m, bp)
<1>1. m \in [Addr -> Word] /\ Tiled(m, brk, B) /\ S \subseteq B /\ U \subseteq B /\ Lists(m, S)
  BY DEF Shape
<1>2. i \in Index
  <2>1. Size(m, bp) \in Int
    BY <1>1, BlockFacts
  <2> QED
    BY <2>1, ClassIs DEF Index
<1>3. /\ T \subseteq S /\ c \notin B /\ c \notin T /\ c # bp /\ Aligned(T \cup {c})
      /\ c \in Places(U) /\ bp \in Places(U)
      /\ \A j \in Index \ {i} : (OfClass(m, S, j) \cup {ClassAt(j)}) \cap (T \cup {c}) = {}
  <2>1. /\ T \subseteq S /\ c \notin B /\ Aligned(T \cup {c})
        /\ \A j \in Index \ {i} : (OfClass(m, S, j) \cup {ClassAt(j)}) \cap (T \cup {c}) = {}
    <3> HIDE DEF i
    <3>1. Tiled(m, brk, B) /\ S \subseteq B /\ i \in Index
      BY <1>1, <1>2
    <3> QED
      BY <3>1, ClassFacts
  <2>2. c \in Places(U) /\ bp \in Places(U)
    <3>1. c \in {ClassAt(j) : j \in Index} /\ bp \in U
      BY <1>2 DEF c
    <3> QED
      BY <3>1 DEF Places
  <2> QED
    BY <1>1, <2>1, <2>2
<1>4. PICK d : ListOK(m, c, T, d)
  BY <1>1, <1>2 DEF Lists
<1>5. n = PUT_SUC(m1, c, bp)
  BY DEF attatch_to_list, get_class, Size
<1> HIDE DEF n, m1, c, T, i
<1>6. /\ bp \in Addr /\ bp % DSIZE = 0 /\ c \in Addr /\ c % DSIZE = 0
      /\ GET_SUC(m, c) \in Addr \cup {NULL}
  <2>1. bp \in Addr /\ bp % DSIZE = 0
    BY <1>1, BlockFacts DEF DSIZE
  <2>2. c \in Addr /\ c % DSIZE = 0 /\ T \subseteq Addr
    BY <1>3 DEF Aligned
  <2>3. GET_SUC(m, c) \in T \cup {NULL}
    BY <1>4 DEF ListOK, GET_SUC
  <2> QED
    BY <2>1, <2>2, <2>3
<1>7. /\ m1 \in [Addr -> Word]
      /\ \A y \in Addr : y # bp /\ y # bp + 4 => m1[y] = m[y]
      /\ \A y \in Addr : y % DSIZE = 0 /\ y # bp => m1[y] = m[y]
  BY <1>1, <1>6, PutSuc DEF m1
<1>8. /\ n \in [Addr -> Word]
      /\ \A y \in Addr : y # c /\ y # c + 4 => n[y] = m1[y]
      /\ \A y \in Addr : y % DSIZE = 0 /\ y # c => n[y] = m1[y]
  BY <1>5, <1>6, <1>7, PutSuc
<1>9. SameOff(m, n, U)
  BY <1>3, <1>7, <1>8 DEF SameOff
<1>10. Tiled(n, brk, B) /\ SameTags(m, n, B) /\ Keep(m, n, B \ U)
  BY <1>1, <1>9, SameOffKeeps
<1>11. ASSUME NEW j \in Index
       PROVE  \E e : ListOK(n, ClassAt(j), OfClass(n, U, j), e)
  <2>1. OfClass(n, U, j) = OfClass(m, U, j)
    BY <1>1, <1>10 DEF OfClass, SameTags
  <2>2. CASE j = i
    <3>1. OfClass(m, U, j) = T \cup {bp}
      BY <2>2 DEF OfClass, T, i
    <3>2. bp \notin T \cup {c} /\ Aligned(T \cup {c, bp})
      BY <1>3, <1>6 DEF Aligned
    <3>3. \E e : ListOK(n, c, T \cup {bp}, e)
      BY <1>1, <1>3, <1>4, <1>5, <3>2, LinkFirst DEF m1
    <3> QED
      BY <2>1, <2>2, <3>1, <3>3 DEF c
  <2>3. CASE j # i
    <3>1. OfClass(m, U, j) = OfClass(m, S, j)
      BY <2>3 DEF OfClass, i
    <3>2. PICK e : ListOK(m, ClassAt(j), OfClass(m, S, j), e)
      BY <1>1 DEF Lists
    <3>3. /\ Aligned(OfClass(m, S, j) \cup {ClassAt(j)})
          /\ c \notin OfClass(m, S, j) \cup {ClassAt(j)}
          /\ bp \notin OfClass(m, S, j) \cup {ClassAt(j)}
      BY <1>1, <1>3, <2>3, ClassFacts
    <3>4. \A y \in OfClass(m, S, j) \cup {ClassAt(j)} : n[y] = m[y]
      BY <1>7, <1>8, <3>3 DEF Aligned
    <3>5. ListOK(n, ClassAt(j), OfClass(m, S, j), e)
      BY <3>2, <3>4, ListSame, Zenon
    <3> QED
      BY <2>1, <3>1, <3>5
  <2> QED
    BY <2>2, <2>3
<1>12. Shape(n, brk, B, U)
  BY <1>1, <1>8, <1>10, <1>11 DEF Shape, Lists
<1> QED
  BY <1>10, <1>12 DEF n

-----------------------------------------------------------------------------
(***************************************************************************)
(* Changes of the tags.                                                     *)
(***************************************************************************)

\* PutTags writes two equal tags and touches nothing outside the block.
LEMMA PutTagsIs ==
  ASSUME NEW m \in [Addr -> Word], NEW bp \in Addr, bp % 8 = 0, bp - 4 \in Addr,
         NEW size \in Nat, size % 8 = 0, size >= 8, bp + size <= mem_max_addr, size <= MAX_HEAP,
         NEW alloc \in {0, 1}
  PROVE  LET n == PutTags(m, bp, size, alloc)
         IN  /\ n \in [Addr -> Word]
             /\ n[bp - 4] = PACK(size, alloc) /\ n[bp + size - 8] = PACK(size, alloc)
             /\ \A x \in Addr : x < bp - 4 \/ bp + size - 4 <= x => n[x] = m[x]
<1> DEFINE ftrp == bp + size - 8
           n == [p \in Addr |-> CASE p \in {bp - 4, ftrp} -> PACK(size, alloc)
                                  [] p \in bp .. ftrp - 1 -> Junk
                                  [] OTHER -> m[p]]
<1>1. PutTags(m, bp, size, alloc) = n
  BY DEF PutTags, HDRP, WSIZE, DSIZE
<1>2. PACK(size, alloc) \in Word /\ Junk \in Word
  BY DEF PACK, Word
<1>3. bp \in Int /\ bp % 4 = 0 /\ bp >= 8 /\ ftrp \in Addr
  BY AddrIs, Heads DEF WSIZE
<1>4. n \in [Addr -> Word]
  <2> HIDE DEF Word
  <2> QED
    BY <1>2
<1>5. n[bp - 4] = PACK(size, alloc) /\ n[ftrp] = PACK(size, alloc)
  BY <1>3
<1>6. ASSUME NEW x \in Addr, x < bp - 4 \/ bp + size - 4 <= x
      PROVE  n[x] = m[x]
  <2>1. x \in Int
    BY AddrIs
  <2>2. x # bp - 4 /\ x # ftrp /\ x \notin bp .. ftrp - 1
    BY <1>3, <1>6, <2>1
  <2> QED
    BY <2>2
<1> QED
  BY <1>1, <1>4, <1>5, <1>6

\* n is m but for words from lo on and before hi, none of them in a block of K.
ChangedIn(m, n, lo, hi, K) ==
  /\ lo \in Int /\ hi \in Int /\ first_block - 4 <= lo
  /\ \A x \in Addr : x < lo \/ hi <= x => n[x] = m[x]
  /\ \A p \in K : p + Size(m, p) - 4 <= lo \/ hi <= p - 4

\* A change between lo and hi keeps the blocks on both sides, and the lists
\* if all that is listed is kept.
LEMMA Outside ==
  ASSUME NEW m, NEW brk, NEW B, NEW S, Shape(m, brk, B, S), NEW K, S \subseteq K, K \subseteq B,
         NEW n, NEW lo, NEW hi, ChangedIn(m, n, lo, hi, K)
  PROVE  /\ Keep(m, n, K) /\ SameTags(m, n, K) /\ Lists(n, S)
         /\ \A p \in K : n[p + Size(m, p) - 8] = m[p + Size(m, p) - 8]
         /\ n[first_block - 12] = m[first_block - 12] /\ n[first_block - 8] = m[first_block - 8]
<1>1. Tiled(m, brk, B) /\ Lists(m, S) /\ S \subseteq B
  BY DEF Shape
<1>2. first_block \in Nat /\ first_block >= 32 /\ first_block % 8 = 0
      /\ first_block <= mem_max_addr /\ mem_max_addr \in Nat
  BY Heads DEF DSIZE
<1> /\ lo \in Int /\ hi \in Int /\ first_block - 4 <= lo
    /\ \A x \in Addr : x < lo \/ hi <= x => n[x] = m[x]
    /\ \A p \in K : p + Size(m, p) - 4 <= lo \/ hi <= p - 4
  BY DEF ChangedIn
<1>3. ASSUME NEW p \in K
      PROVE  /\ p \in Nat /\ Size(m, p) \in Nat /\ Size(m, p) >= 16 /\ p % 8 = 0
             /\ p \in Addr /\ p - 4 \in Addr /\ p + Size(m, p) - 8 \in Addr
  BY <1>1, BlockFacts
<1>4. ASSUME NEW p \in K, NEW x \in Addr, p - 4 <= x, x < p + Size(m, p) - 4
      PROVE  n[x] = m[x]
  <2>1. x \in Int
    BY AddrIs
  <2>2. x < lo \/ hi <= x
    BY <1>3, <1>4, <2>1
  <2> QED
    BY <2>2
<1>5. Keep(m, n, K)
  BY <1>4 DEF Keep
<1>6. ASSUME NEW p \in K
      PROVE  n[p - 4] = m[p - 4] /\ n[p + Size(m, p) - 8] = m[p + Size(m, p) - 8]
  <2>1. /\ p - 4 <= p - 4 /\ p - 4 < p + Size(m, p) - 4
        /\ p - 4 <= p + Size(m, p) - 8 /\ p + Size(m, p) - 8 < p + Size(m, p) - 4
    BY <1>3
  <2> QED
    BY <1>3, <1>4, <2>1
<1>7. SameTags(m, n, K)
  BY <1>6 DEF SameTags, Size, GET_SIZE, HDRP, WSIZE
<1>8. Lists(n, S)
  <2>1. ASSUME NEW y \in Places(S) PROVE n[y] = m[y]
    <3>1. CASE y \in S
      <4>1. y - 4 <= y /\ y < y + Size(m, y) - 4 /\ y \in Addr /\ y \in K
        BY <1>3, <3>1
      <4> QED
        BY <1>4, <4>1
    <3>2. CASE y \notin S
      <4>1. PICK i \in Index : y = ClassAt(i)
        BY <3>2 DEF Places
      <4>2. y \in Addr /\ y \in Int /\ y + 24 <= first_block
        BY <4>1, Heads, AddrIs
      <4>3. y < lo
        BY <1>2, <4>2
      <4> QED
        BY <4>2, <4>3
    <3> QED
      BY <3>1, <3>2
  <2>2. \A p \in S : Size(n, p) = Size(m, p)
    BY <1>7 DEF SameTags
  <2> QED
    BY <1>1, <2>1, <2>2, ListsSame
<1>9. n[first_block - 12] = m[first_block - 12] /\ n[first_block - 8] = m[first_block - 8]
  <2>1. /\ first_block - 12 \in Addr /\ first_block - 8 \in Addr
        /\ first_block - 12 < lo /\ first_block - 8 < lo
    BY <1>2, AddrIs DEF WSIZE
  <2> QED
    BY <2>1
<1> QED
  BY <1>5, <1>6, <1>7, <1>8, <1>9

\* A new tag over a row of whole blocks makes one block of them, and leaves C.
MergesTo(B, S, brk, bp, size, C) ==
  /\ bp \in B /\ size \in Nat /\ size >= 16 /\ bp + size \in B \cup {brk}
  /\ \A s \in S : s < bp \/ bp + size <= s
  /\ C = {b \in B : b <= bp \/ bp + size <= b}

\* PutTags over whole blocks merges them.
LEMMA Merge ==
  ASSUME NEW m, NEW brk, NEW B, NEW S, Shape(m, brk, B, S), NEW bp, NEW size, NEW C,
         MergesTo(B, S, brk, bp, size, C), NEW alloc \in {0, 1}
  PROVE  LET n == PutTags(m, bp, size, alloc)
         IN  /\ Shape(n, brk, C, S) /\ bp \in C
             /\ TagAt(n, bp) = PACK(size, alloc) /\ Size(n, bp) = size
             /\ KeepBut(m, n, C, bp)
<1> DEFINE n == PutTags(m, bp, size, alloc)
           K == C \ {bp}
           lo == bp - 4
           hi == bp + size - 4
<1>0. /\ bp \in B /\ size \in Nat /\ size >= 16 /\ bp + size \in B \cup {brk}
      /\ \A s \in S : s < bp \/ bp + size <= s
      /\ \A b : b \in C <=> b \in B /\ (b <= bp \/ bp + size <= b)
  BY DEF MergesTo
<1>1. m \in [Addr -> Word] /\ Tiled(m, brk, B) /\ S \subseteq B
  BY DEF Shape
<1>2. /\ first_block \in Nat /\ first_block % 8 = 0 /\ mem_max_addr = MAX_HEAP + 8 /\ MAX_HEAP \in Nat
      /\ brk \in Nat /\ brk <= mem_max_addr /\ brk % 8 = 0
  <2>1. first_block \in Nat /\ first_block % 8 = 0 /\ mem_max_addr = MAX_HEAP + 8
    BY Heads DEF DSIZE
  <2> QED
    BY <1>0, <1>1, <2>1, BlockFacts, HeapAssumption
<1>3. \A p \in B : /\ p \in Nat /\ p % 8 = 0 /\ p >= first_block /\ p \in Addr /\ p - 4 \in Addr
                   /\ Size(m, p) \in Nat /\ Size(m, p) >= 16 /\ p + Size(m, p) <= brk
                   /\ p + Size(m, p) \in B \cup {brk} /\ p + Size(m, p) - 8 \in Addr
  BY <1>0, <1>1, BlockFacts
<1>4. /\ bp \in C /\ bp \in Addr /\ bp % 8 = 0 /\ bp - 4 \in Addr /\ bp \in Nat /\ bp >= first_block
      /\ size % 8 = 0 /\ bp + size <= brk /\ bp + size <= mem_max_addr /\ size <= MAX_HEAP
  <2>1. bp \in C /\ bp \in Addr /\ bp % 8 = 0 /\ bp - 4 \in Addr /\ bp \in Nat /\ bp >= first_block
    <3>1. bp \in B /\ bp \in Int
      BY <1>0, <1>3
    <3>2. bp <= bp
      BY <3>1
    <3>3. bp \in C
      BY <1>0, <3>1, <3>2
    <3> QED
      BY <1>3, <3>1, <3>3
  <2>2. (bp + size) % 8 = 0 /\ bp + size <= brk
    <3>1. CASE bp + size \in B
      <4>1. PICK q \in B : q = bp + size
        BY <3>1
      <4> QED
        BY <1>0, <1>2, <1>3, <4>1
    <3>2. CASE bp + size = brk
      BY <1>0, <1>2, <3>2
    <3> QED
      BY <1>0, <3>1, <3>2
  <2>3. first_block >= 32
    BY Heads
  <2>4. size % 8 = 0 /\ bp + size <= mem_max_addr /\ size <= MAX_HEAP
    BY <1>0, <1>2, <2>1, <2>2, <2>3
  <2> QED
    BY <2>1, <2>2, <2>4
<1>5. /\ n \in [Addr -> Word]
      /\ n[bp - 4] = PACK(size, alloc) /\ n[bp + size - 8] = PACK(size, alloc)
      /\ \A x \in Addr : x < lo \/ hi <= x => n[x] = m[x]
  <2>1. \A k \in Nat : k % 8 = 0 /\ k >= 8 /\ k <= MAX_HEAP /\ bp + k <= mem_max_addr =>
          LET l == PutTags(m, bp, k, alloc)
          IN  /\ l \in [Addr -> Word] /\ l[bp - 4] = PACK(k, alloc) /\ l[bp + k - 8] = PACK(k, alloc)
              /\ \A x \in Addr : x < bp - 4 \/ bp + k - 4 <= x => l[x] = m[x]
    BY <1>1, <1>4, PutTagsIs
  <2>2. size \in Nat /\ size >= 8
    BY <1>0
  <2> QED
    BY <1>4, <2>1, <2>2
<1> HIDE DEF n
<1>6. Size(n, bp) = size
  BY <1>0, <1>5 DEF Size, GET_SIZE, HDRP, WSIZE, PACK
<1>7. \A p \in K : p + Size(m, p) <= bp \/ bp + size <= p
  BY <1>0, <1>1, <1>3, BlocksApart
<1>8. /\ S \subseteq K /\ K \subseteq B /\ lo \in Int /\ hi \in Int /\ first_block - 4 <= lo
      /\ \A p \in K : p + Size(m, p) - 4 <= lo \/ hi <= p - 4
  <2>1. \A p \in K : p + Size(m, p) - 4 <= lo \/ hi <= p - 4
    BY <1>0, <1>3, <1>4, <1>7
  <2>2. \A s \in S : s # bp
    BY <1>0, <1>4
  <2> QED
    BY <1>0, <1>1, <1>2, <1>4, <2>1, <2>2
<1>9. /\ Keep(m, n, K) /\ SameTags(m, n, K) /\ Lists(n, S)
      /\ \A p \in K : n[p + Size(m, p) - 8] = m[p + Size(m, p) - 8]
      /\ n[first_block - 12] = m[first_block - 12] /\ n[first_block - 8] = m[first_block - 8]
  <2> HIDE DEF K, lo, hi
  <2>1. ChangedIn(m, n, lo, hi, K)
    BY <1>0, <1>5, <1>8 DEF ChangedIn
  <2> QED
    BY <1>8, <2>1, Outside
<1>10. n[brk - 4] = m[brk - 4]
  <2>1. brk - 4 \in Addr /\ hi <= brk - 4
    BY <1>0, <1>2, <1>4, AddrIs DEF WSIZE
  <2> QED
    BY <1>0, <1>5, <2>1
<1>11. \A p \in B : p + Size(m, p) > bp /\ p < bp + size => p + Size(m, p) <= bp + size
  <2> SUFFICES ASSUME NEW p \in B, p < bp + size PROVE p + Size(m, p) <= bp + size
    OBVIOUS
  <2>0. bp + size \in B \cup {brk}
    BY <1>0
  <2>1. CASE bp + size \in B
    BY <1>0, <1>1, <2>1 DEF Tiled
  <2>2. CASE bp + size = brk
    BY <1>0, <1>3, <2>2
  <2> QED
    BY <2>0, <2>1, <2>2
<1>12. Tiled(n, brk, C)
  <2>1. ASSUME NEW p \in C
        PROVE  BlockAt(n, brk, p) /\ p + Size(n, p) \in C \cup {brk}
    <3>1. CASE p = bp
      <4>1. PACK(size, alloc) \in Tag
        BY <1>0, <1>4 DEF PACK, Tag
      <4>2. bp + size \in C \cup {brk}
        BY <1>0, <1>4
      <4> QED
        BY <1>0, <1>2, <1>4, <1>5, <1>6, <3>1, <4>1, <4>2 DEF BlockAt, DSIZE
    <3>2. CASE p # bp
      <4>1. BlockAt(m, brk, p) /\ Size(n, p) = Size(m, p) /\ n[p - 4] = m[p - 4]
            /\ n[p + Size(m, p) - 8] = m[p + Size(m, p) - 8]
        BY <1>0, <1>1, <1>9, <3>2 DEF Tiled, SameTags
      <4>2. p + Size(m, p) \in C \cup {brk}
        BY <1>0, <1>3, <1>4, <1>7, <3>2
      <4> QED
        BY <4>1, <4>2 DEF BlockAt
    <3> QED
      BY <3>1, <3>2
  <2>2. ASSUME NEW p \in C, NEW q \in C, p < q PROVE p + Size(n, p) <= q
    <3>1. CASE p = bp
      <4>1. q \in Nat /\ bp \in Nat /\ (q <= bp \/ bp + size <= q)
        BY <1>0, <1>3
      <4> QED
        BY <1>6, <2>2, <3>1, <4>1
    <3>2. CASE p # bp
      BY <1>0, <1>1, <1>9, <2>2, <3>2 DEF Tiled, SameTags
    <3> QED
      BY <3>1, <3>2
  <2>3. ASSUME NEW q \in C \cup {brk}, q # first_block PROVE \E p \in C : p + Size(n, p) = q
    <3>1. PICK p \in B : p + Size(m, p) = q
      BY <1>0, <1>1, <2>3 DEF Tiled
    <3>2. CASE p \in K
      BY <1>0, <1>9, <3>1, <3>2 DEF SameTags
    <3>3. CASE p \notin K
      <4>1. bp <= p /\ p < bp + size
        BY <1>0, <1>3, <1>4, <3>3
      <4>2. q \in Nat /\ q <= bp + size /\ q > bp
        BY <1>0, <1>3, <1>4, <1>11, <3>1, <4>1
      <4>3. bp + size <= q
        BY <1>0, <1>4, <2>3, <4>2
      <4> QED
        BY <1>0, <1>4, <1>6, <4>2, <4>3
    <3> QED
      BY <3>2, <3>3
  <2>4. first_block \in C \cup {brk}
    <3>1. first_block \in B \cup {brk}
      BY <1>1 DEF Tiled
    <3> QED
      BY <1>0, <1>4, <3>1
  <2>5. /\ brk \in first_block .. mem_max_addr /\ brk % DSIZE = 0
        /\ n[first_block - 12] = PACK(8, 1) /\ n[first_block - 8] = PACK(8, 1)
        /\ n[brk - 4] = PACK(0, 1)
    BY <1>0, <1>1, <1>9, <1>10 DEF Tiled
  <2> QED
    BY <2>1, <2>2, <2>3, <2>4, <2>5 DEF Tiled
<1>13. Shape(n, brk, C, S)
  BY <1>0, <1>5, <1>8, <1>9, <1>12 DEF Shape
<1>14. TagAt(n, bp) = PACK(size, alloc)
  BY <1>5 DEF TagAt
<1> QED
  BY <1>4, <1>6, <1>9, <1>13, <1>14 DEF n, KeepBut

\* What a tag that fits a block makes of it
TagsAt(n, p, size, alloc) == n[p - 4] = PACK(size, alloc) /\ n[p + size - 8] = PACK(size, alloc)

\* Equal tags at both ends make a block.
LEMMA BlockFromTags ==
  ASSUME NEW n, NEW brk \in Nat, brk <= mem_max_addr, NEW p \in Nat, p % 8 = 0, first_block <= p,
         NEW size \in Nat, size >= 16, size % 8 = 0, p + size <= brk, NEW alloc \in {0, 1},
         TagsAt(n, p, size, alloc)
  PROVE  BlockAt(n, brk, p) /\ Size(n, p) = size
<1>1. Size(n, p) = size
  BY DEF TagsAt, Size, GET_SIZE, HDRP, WSIZE, PACK
<1>2. size \in 0 .. MAX_HEAP
  BY Heads, HeapAssumption
<1>3. PACK(size, alloc) \in Tag
  BY <1>2 DEF PACK, Tag
<1> QED
  BY <1>1, <1>3 DEF TagsAt, BlockAt, DSIZE

\* A block that no list holds splits in two, the first part allocated.
SplitTo(m, n, brk, B, S, bp, part, rest) ==
  /\ bp + part \notin B
  /\ Shape(n, brk, B \cup {bp + part}, S)
  /\ TagAt(n, bp) = PACK(part, 1) /\ Size(n, bp) = part
  /\ TagAt(n, bp + part) = PACK(rest, 0) /\ Size(n, bp + part) = rest
  /\ KeepBut(m, n, B, bp)

\* Two new tags split it.
LEMMA Split ==
  ASSUME NEW m, NEW brk, NEW B, NEW S, Shape(m, brk, B, S),
         NEW bp \in B, bp \notin S, NEW part \in Nat, part % 8 = 0, part >= 16,
         NEW rest \in Nat, rest >= 16, Size(m, bp) = part + rest
  PROVE  SplitTo(m, PutTags(PutTags(m, bp, part, 1), bp + part, rest, 0), brk, B, S, bp, part, rest)
<1> DEFINE z == Size(m, bp)
           r == bp + part
           m1 == PutTags(m, bp, part, 1)
           n == PutTags(m1, r, rest, 0)
           C == B \cup {r}
           K == B \ {bp}
           lo == bp - 4
           hi == bp + z - 4
<1>1. m \in [Addr -> Word] /\ Tiled(m, brk, B) /\ S \subseteq B
  BY DEF Shape
<1>2. /\ first_block \in Nat /\ first_block >= 32 /\ mem_max_addr = MAX_HEAP + 8
      /\ MAX_HEAP \in Nat /\ mem_max_addr \in Nat
      /\ brk \in Nat /\ brk <= mem_max_addr /\ brk % 8 = 0
  BY <1>1, BlockFacts, Heads, HeapAssumption
<1>3. \A p \in B : /\ p \in Nat /\ p % 8 = 0 /\ p >= first_block /\ p \in Addr /\ p - 4 \in Addr
                   /\ Size(m, p) \in Nat /\ Size(m, p) >= 16 /\ p + Size(m, p) <= brk
                   /\ p + Size(m, p) \in B \cup {brk} /\ Size(m, p) % 8 = 0
  BY <1>1, BlockFacts
<1>4. \A p \in K : p + Size(m, p) <= bp \/ bp + z <= p
  BY <1>1, BlocksApart
<1>5. /\ bp \in Nat /\ bp % 8 = 0 /\ bp >= first_block /\ bp \in Addr /\ bp - 4 \in Addr
      /\ z \in Nat /\ z >= 16 /\ z % 8 = 0 /\ bp + z <= brk /\ bp + z \in B \cup {brk}
  BY <1>3
<1> HIDE DEF z
<1>6. part + 16 <= z /\ z = part + rest /\ rest % 8 = 0 /\ rest <= z
  BY <1>5 DEF z
<1>7. /\ r \in Nat /\ r % 8 = 0 /\ r + rest = bp + z /\ bp + 16 <= r /\ r + 16 <= bp + z
  BY <1>5, <1>6
<1> HIDE DEF r
<1>8. r \in Addr /\ r - 4 \in Addr
  BY <1>2, <1>5, <1>7, AddrIs DEF WSIZE
<1>9. /\ m1 \in [Addr -> Word] /\ m1[bp - 4] = PACK(part, 1) /\ m1[r - 8] = PACK(part, 1)
      /\ \A x \in Addr : x < bp - 4 \/ r - 4 <= x => m1[x] = m[x]
  <2>1. bp + part <= mem_max_addr /\ part <= MAX_HEAP /\ part >= 8 /\ bp + part = r
    BY <1>2, <1>5, <1>6 DEF r
  <2>2. /\ m1 \in [Addr -> Word] /\ m1[bp - 4] = PACK(part, 1) /\ m1[bp + part - 8] = PACK(part, 1)
        /\ \A x \in Addr : x < bp - 4 \/ bp + part - 4 <= x => m1[x] = m[x]
    <3>1. \A k \in Nat : k % 8 = 0 /\ k >= 8 /\ k <= MAX_HEAP /\ bp + k <= mem_max_addr =>
            LET l == PutTags(m, bp, k, 1)
            IN  /\ l \in [Addr -> Word] /\ l[bp - 4] = PACK(k, 1) /\ l[bp + k - 8] = PACK(k, 1)
                /\ \A x \in Addr : x < bp - 4 \/ bp + k - 4 <= x => l[x] = m[x]
      BY <1>1, <1>5, PutTagsIs
    <3> QED
      BY <2>1, <3>1
  <2>3. bp + part - 8 = r - 8 /\ bp + part - 4 = r - 4
    BY <1>5 DEF r
  <2> QED
    BY <2>2, <2>3
<1> HIDE DEF m1
<1>10. /\ n \in [Addr -> Word] /\ n[r - 4] = PACK(rest, 0) /\ n[r + rest - 8] = PACK(rest, 0)
       /\ \A x \in Addr : x < r - 4 \/ r + rest - 4 <= x => n[x] = m1[x]
  <2>1. r + rest <= mem_max_addr /\ rest <= MAX_HEAP /\ rest >= 8
    BY <1>2, <1>5, <1>6, <1>7
  <2> QED
    BY <1>6, <1>7, <1>8, <1>9, <2>1, PutTagsIs
<1> HIDE DEF n
<1>11. n[bp - 4] = PACK(part, 1) /\ n[bp + part - 8] = PACK(part, 1)
  <2>1. /\ bp - 4 \in Addr /\ bp - 4 < r - 4 /\ r - 8 < r - 4
    BY <1>5, <1>7
  <2>2. r - 8 \in Addr
    BY <1>2, <1>5, <1>7, AddrIs DEF WSIZE
  <2>3. n[bp - 4] = PACK(part, 1) /\ n[r - 8] = PACK(part, 1)
    BY <1>9, <1>10, <2>1, <2>2
  <2>4. bp + part - 8 = r - 8
    BY <1>5 DEF r
  <2> QED
    BY <2>3, <2>4
<1>12. \A x \in Addr : x < lo \/ hi <= x => n[x] = m[x]
  <2> SUFFICES ASSUME NEW x \in Addr, x < lo \/ hi <= x PROVE n[x] = m[x]
    OBVIOUS
  <2>1. x \in Int
    BY AddrIs
  <2>2. (x < r - 4 \/ r + rest - 4 <= x) /\ (x < bp - 4 \/ r - 4 <= x)
    BY <1>5, <1>7, <2>1
  <2> QED
    BY <1>9, <1>10, <2>2
<1>13. S \subseteq K /\ K \subseteq B /\ ChangedIn(m, n, lo, hi, K)
  <2>1. \A p \in K : p + Size(m, p) - 4 <= lo \/ hi <= p - 4
    BY <1>3, <1>4, <1>5
  <2> QED
    BY <1>1, <1>2, <1>5, <1>12, <2>1 DEF ChangedIn
<1>14. /\ Keep(m, n, K) /\ SameTags(m, n, K) /\ Lists(n, S)
       /\ \A p \in K : n[p + Size(m, p) - 8] = m[p + Size(m, p) - 8]
       /\ n[first_block - 12] = m[first_block - 12] /\ n[first_block - 8] = m[first_block - 8]
  <2> HIDE DEF K, lo, hi
  <2> QED
    BY <1>13, Outside
<1>15. n[brk - 4] = m[brk - 4]
  <2>1. brk - 4 \in Addr /\ hi <= brk - 4
    BY <1>2, <1>5, AddrIs DEF WSIZE
  <2> QED
    BY <1>12, <2>1
<1>16. BlockAt(n, brk, bp) /\ Size(n, bp) = part
  <2>1. bp + part <= brk
    BY <1>2, <1>5, <1>6
  <2>2. TagsAt(n, bp, part, 1)
    BY <1>11 DEF TagsAt
  <2> QED
    BY <1>2, <1>5, <2>1, <2>2, BlockFromTags
<1>17. BlockAt(n, brk, r) /\ Size(n, r) = rest
  <2>1. /\ r \in Nat /\ r % 8 = 0 /\ first_block <= r
        /\ r + rest <= brk /\ rest % 8 = 0 /\ brk \in Nat /\ brk <= mem_max_addr
    BY <1>2, <1>5, <1>6, <1>7
  <2>2. TagsAt(n, r, rest, 0)
    BY <1>10 DEF TagsAt
  <2> QED
    BY <2>1, <2>2, BlockFromTags
<1>18. r \notin B
  <2> SUFFICES ASSUME r \in K PROVE FALSE
    BY <1>5, <1>7
  <2>1. r + Size(m, r) <= bp \/ bp + z <= r
    BY <1>4
  <2>2. Size(m, r) \in Nat
    BY <1>3
  <2> QED
    BY <1>5, <1>7, <2>1, <2>2
<1>19. Tiled(n, brk, C)
  <2>1. ASSUME NEW p \in C
        PROVE  BlockAt(n, brk, p) /\ p + Size(n, p) \in C \cup {brk}
    <3>1. CASE p = bp
      BY <1>16, <3>1 DEF r
    <3>2. CASE p = r
      BY <1>5, <1>7, <1>17, <3>2
    <3>3. CASE p \in K
      <4>1. BlockAt(m, brk, p) /\ Size(n, p) = Size(m, p) /\ n[p - 4] = m[p - 4]
            /\ n[p + Size(m, p) - 8] = m[p + Size(m, p) - 8]
        BY <1>1, <1>14, <3>3 DEF Tiled, SameTags
      <4>2. p + Size(m, p) \in C \cup {brk}
        BY <1>3, <3>3
      <4> QED
        BY <4>1, <4>2 DEF BlockAt
    <3> QED
      BY <3>1, <3>2, <3>3
  <2>2. ASSUME NEW p \in C, NEW q \in C, p < q PROVE p + Size(n, p) <= q
    <3>0. \A k \in K : k < r => k + Size(m, k) <= bp
      BY <1>3, <1>4, <1>5, <1>7
    <3>1. CASE p = bp
      <4>1. \A k \in K : k > bp => bp + z <= k
        BY <1>3, <1>4, <1>5
      <4>2. q = r \/ q \in K
        BY <1>5, <2>2, <3>1
      <4>3. bp + part = r
        BY DEF r
      <4> QED
        BY <1>3, <1>5, <1>7, <1>16, <2>2, <3>1, <4>1, <4>2, <4>3
    <3>2. CASE p = r
      <4>1. q \in K
        BY <1>5, <1>7, <2>2, <3>2
      <4>2. bp + z <= q
        BY <1>3, <1>4, <1>5, <1>7, <2>2, <3>2, <4>1
      <4> QED
        BY <1>7, <1>17, <3>2, <4>2
    <3>3. CASE p \in K /\ q = r
      BY <1>3, <1>5, <1>7, <1>14, <2>2, <3>0, <3>3 DEF SameTags
    <3>4. CASE p \in K /\ q \in B
      <4>1. p + Size(m, p) <= q
        BY <1>1, <2>2, <3>4 DEF Tiled
      <4> QED
        BY <1>14, <3>4, <4>1 DEF SameTags
    <3> QED
      BY <3>1, <3>2, <3>3, <3>4
  <2>3. ASSUME NEW q \in C \cup {brk}, q # first_block PROVE \E p \in C : p + Size(n, p) = q
    <3>1. CASE q = r
      BY <1>16, <3>1 DEF r
    <3>2. CASE q # r
      <4>1. PICK p \in B : p + Size(m, p) = q
        BY <1>1, <2>3, <3>2 DEF Tiled
      <4>2. CASE p \in K
        BY <1>14, <4>1, <4>2 DEF SameTags
      <4>3. CASE p = bp
        BY <1>7, <1>17, <4>1, <4>3 DEF z
      <4> QED
        BY <4>2, <4>3
    <3> QED
      BY <3>1, <3>2
  <2>4. first_block \in C \cup {brk}
    BY <1>1 DEF Tiled
  <2>5. /\ brk \in first_block .. mem_max_addr /\ brk % DSIZE = 0
        /\ n[first_block - 12] = PACK(8, 1) /\ n[first_block - 8] = PACK(8, 1)
        /\ n[brk - 4] = PACK(0, 1)
    BY <1>1, <1>14, <1>15 DEF Tiled
  <2> HIDE DEF C
  <2> QED
    BY <2>1, <2>2, <2>3, <2>4, <2>5 DEF Tiled
<1>20. Shape(n, brk, C, S)
  BY <1>10, <1>13, <1>14, <1>19 DEF Shape
<1> QED
  <2>1. /\ Shape(n, brk, C, S) /\ r \notin B
        /\ TagAt(n, bp) = PACK(part, 1) /\ Size(n, bp) = part
        /\ TagAt(n, r) = PACK(rest, 0) /\ Size(n, r) = rest
        /\ KeepBut(m, n, B, bp)
    BY <1>10, <1>11, <1>14, <1>16, <1>17, <1>18, <1>20 DEF TagAt, KeepBut
  <2> QED
    BY <2>1, Zenon DEF SplitTo, n, m1, r

\* The heap grows by one block, which no list holds.
LEMMA Extend ==
  ASSUME NEW m, NEW brk, NEW B, NEW S, Shape(m, brk, B, S),
         NEW size \in Nat, size % 8 = 0, size >= 16, brk + size <= mem_max_addr
  PROVE  LET n == PUT(PutTags(m, brk, size, 0), HDRP(brk + size), PACK(0, 1))
             C == B \cup {brk}
         IN  /\ Shape(n, brk + size, C, S) /\ brk \notin B
             /\ TagAt(n, brk) = PACK(size, 0) /\ Size(n, brk) = size
             /\ Keep(m, n, B) /\ SameTags(m, n, B)
<1> DEFINE end == brk + size
           m1 == PutTags(m, brk, size, 0)
           n == PUT(m1, HDRP(end), PACK(0, 1))
           C == B \cup {brk}
           lo == brk - 4
           hi == end
<1>1. m \in [Addr -> Word] /\ Tiled(m, brk, B) /\ S \subseteq B
  BY DEF Shape
<1>2. /\ first_block \in Nat /\ first_block >= 32 /\ first_block % 8 = 0
      /\ mem_max_addr = MAX_HEAP + 8 /\ MAX_HEAP \in Nat /\ mem_max_addr \in Nat
  BY Heads, HeapAssumption DEF DSIZE
<1>3. brk \in Nat /\ brk <= mem_max_addr /\ brk % 8 = 0 /\ first_block <= brk
  BY <1>1, <1>2 DEF Tiled, DSIZE
<1>4. \A p \in B : /\ p \in Nat /\ p % 8 = 0 /\ p >= first_block
                   /\ Size(m, p) \in Nat /\ Size(m, p) >= 16 /\ p + Size(m, p) <= brk
                   /\ p + Size(m, p) \in B \cup {brk}
  BY <1>1, BlockFacts
<1>5. /\ brk \in Addr /\ brk - 4 \in Addr /\ end - 4 \in Addr /\ end - 8 \in Addr
      /\ end \in Nat /\ end % 8 = 0 /\ end <= mem_max_addr /\ size <= MAX_HEAP /\ size >= 8
  BY <1>2, <1>3, AddrIs DEF WSIZE
<1>6. /\ m1 \in [Addr -> Word] /\ m1[brk - 4] = PACK(size, 0) /\ m1[end - 8] = PACK(size, 0)
      /\ \A x \in Addr : x < brk - 4 \/ end - 4 <= x => m1[x] = m[x]
  BY <1>1, <1>3, <1>5, PutTagsIs
<1> HIDE DEF m1
<1>7. /\ n \in [Addr -> Word] /\ n[end - 4] = PACK(0, 1)
      /\ \A x \in Addr : x # end - 4 => n[x] = m1[x]
  <2>1. PACK(0, 1) \in Word
    BY <1>2 DEF PACK, Word
  <2>2. n = [m1 EXCEPT ![end - 4] = PACK(0, 1)]
    BY DEF PUT, HDRP, WSIZE
  <2> HIDE DEF n, Word, end
  <2> QED
    BY <1>5, <1>6, <2>1, <2>2
<1> HIDE DEF n
<1>8. n[brk - 4] = PACK(size, 0) /\ n[end - 8] = PACK(size, 0)
  <2>1. brk - 4 # end - 4 /\ end - 8 # end - 4
    BY <1>3
  <2> QED
    BY <1>5, <1>6, <1>7, <2>1
<1>9. \A x \in Addr : x < lo \/ hi <= x => n[x] = m[x]
  <2> SUFFICES ASSUME NEW x \in Addr, x < lo \/ hi <= x PROVE n[x] = m[x]
    OBVIOUS
  <2>1. x \in Int
    BY AddrIs
  <2>2. x # end - 4 /\ (x < brk - 4 \/ end - 4 <= x)
    BY <1>3, <1>5, <2>1
  <2> QED
    BY <1>6, <1>7, <2>2
<1>10. ChangedIn(m, n, lo, hi, B)
  <2>1. \A p \in B : p + Size(m, p) - 4 <= lo \/ hi <= p - 4
    BY <1>3, <1>4
  <2> QED
    BY <1>2, <1>3, <1>5, <1>9, <2>1 DEF ChangedIn
<1>11. /\ Keep(m, n, B) /\ SameTags(m, n, B) /\ Lists(n, S)
       /\ \A p \in B : n[p + Size(m, p) - 8] = m[p + Size(m, p) - 8]
       /\ n[first_block - 12] = m[first_block - 12] /\ n[first_block - 8] = m[first_block - 8]
  <2> HIDE DEF lo, hi
  <2> QED
    BY <1>1, <1>10, Outside
<1>12. BlockAt(n, end, brk) /\ Size(n, brk) = size
  <2>1. TagsAt(n, brk, size, 0)
    <3>1. end - 8 = brk + size - 8
      BY <1>3
    <3> QED
      BY <1>8, <3>1 DEF TagsAt
  <2> QED
    BY <1>3, <1>5, <2>1, BlockFromTags
<1>13. brk \notin B
  BY <1>3, <1>4
<1>14. Tiled(n, end, C)
  <2>1. ASSUME NEW p \in C
        PROVE  BlockAt(n, end, p) /\ p + Size(n, p) \in C \cup {end}
    <3>1. CASE p = brk
      BY <1>12, <3>1
    <3>2. CASE p \in B
      <4>1. BlockAt(m, brk, p) /\ Size(n, p) = Size(m, p) /\ n[p - 4] = m[p - 4]
            /\ n[p + Size(m, p) - 8] = m[p + Size(m, p) - 8]
        BY <1>1, <1>11, <3>2 DEF Tiled, SameTags
      <4>2. p + Size(m, p) \in C /\ p + Size(m, p) <= end
        BY <1>3, <1>4, <3>2
      <4> QED
        BY <4>1, <4>2 DEF BlockAt
    <3> QED
      BY <3>1, <3>2
  <2>2. ASSUME NEW p \in C, NEW q \in C, p < q PROVE p + Size(n, p) <= q
    <3>1. p \in B
      BY <1>3, <1>4, <2>2
    <3>2. CASE q = brk
      BY <1>4, <1>11, <3>1, <3>2 DEF SameTags
    <3>3. CASE q \in B
      <4>1. p + Size(m, p) <= q
        BY <1>1, <2>2, <3>1, <3>3 DEF Tiled
      <4> QED
        BY <1>11, <3>1, <4>1 DEF SameTags
    <3> QED
      BY <3>2, <3>3
  <2>3. ASSUME NEW q \in C \cup {end}, q # first_block PROVE \E p \in C : p + Size(n, p) = q
    <3>1. CASE q = end
      BY <1>12, <3>1
    <3>2. CASE q \in C
      <4>1. PICK p \in B : p + Size(m, p) = q
        BY <1>1, <2>3, <3>2 DEF Tiled
      <4> QED
        BY <1>11, <4>1 DEF SameTags
    <3> QED
      BY <3>1, <3>2
  <2>4. first_block \in C \cup {end}
    BY <1>1 DEF Tiled
  <2>5. /\ end \in first_block .. mem_max_addr /\ end % DSIZE = 0
        /\ n[first_block - 12] = PACK(8, 1) /\ n[first_block - 8] = PACK(8, 1)
        /\ n[end - 4] = PACK(0, 1)
    <3>1. m[first_block - 12] = PACK(8, 1) /\ m[first_block - 8] = PACK(8, 1)
      BY <1>1 DEF Tiled
    <3>2. first_block <= end
      BY <1>2, <1>3
    <3> QED
      BY <1>2, <1>5, <1>7, <1>11, <3>1, <3>2 DEF DSIZE
  <2> HIDE DEF C, end
  <2> QED
    BY <2>1, <2>2, <2>3, <2>4, <2>5 DEF Tiled
<1>15. Shape(n, end, C, S)
  BY <1>1, <1>7, <1>11, <1>14 DEF Shape
<1> QED
  BY <1>8, <1>11, <1>12, <1>13, <1>15 DEF n, m1, TagAt

-----------------------------------------------------------------------------
(***************************************************************************)
(* A heap as the allocator leaves it: the lists hold the free blocks, and   *)
(* no two of these are neighbours.                                          *)
(***************************************************************************)
FreeSet(m, B) == {p \in B : m[p - 4].alloc = 0}
Taken(m, B) == B \ FreeSet(m, B)

Apart(m, S) == \A p \in S : p + Size(m, p) \notin S

Valid(m, brk, B) == Shape(m, brk, B, FreeSet(m, B)) /\ Apart(m, FreeSet(m, B))

\* A block that keeps its words keeps its header.
LEMMA KeepTags ==
  ASSUME NEW m, NEW n, NEW brk, NEW B, Tiled(m, brk, B), NEW K, K \subseteq B, Keep(m, n, K)
  PROVE  SameTags(m, n, K)
<1> SUFFICES ASSUME NEW p \in K PROVE n[p - 4] = m[p - 4]
  BY DEF SameTags, Size, GET_SIZE, HDRP, WSIZE
<1>1. p \in Nat /\ p - 4 \in Addr /\ Size(m, p) \in Nat /\ Size(m, p) >= 16
  BY BlockFacts
<1>2. p - 4 <= p - 4 /\ p - 4 < p + Size(m, p) - 4
  BY <1>1
<1> QED
  BY <1>1, <1>2 DEF Keep

\* What two steps keep
LEMMA KeepTrans ==
  ASSUME NEW m, NEW n, NEW o, NEW K, NEW L, NEW M, Keep(m, n, K), Keep(n, o, L), SameTags(m, n, K),
         M \subseteq K, M \subseteq L
  PROVE  Keep(m, o, M)
BY DEF Keep, SameTags

\* The headers that two steps keep
LEMMA TagsTrans ==
  ASSUME NEW m, NEW n, NEW o, NEW K, NEW L, NEW M, SameTags(m, n, K), SameTags(n, o, L),
         M \subseteq K, M \subseteq L
  PROVE  SameTags(m, o, M)
BY DEF SameTags

\* The neighbour before a block, as its footer tells
LEMMA PrevIs ==
  ASSUME NEW m, NEW brk, NEW B, Tiled(m, brk, B), NEW bp \in B
  PROVE  LET prev == PREV_BLKP(m, bp)
             prev_alloc == GET_ALLOC(m, FTRP(m, prev))
         IN  /\ ~prev_alloc => prev \in FreeSet(m, B) /\ prev + Size(m, prev) = bp
             /\ prev_alloc => \A p \in FreeSet(m, B) : p + Size(m, p) # bp
<1> DEFINE prev == PREV_BLKP(m, bp)
           prev_alloc == GET_ALLOC(m, FTRP(m, prev))
<1>1. bp \in Nat /\ first_block \in Nat
  BY BlockFacts, Heads
<1>2. prev = bp - m[bp - 8].size /\ FTRP(m, prev) = prev + m[prev - 4].size - 8
  BY DEF PREV_BLKP, FTRP, GET_SIZE, HDRP, WSIZE, DSIZE
<1> HIDE DEF prev
<1>3. ASSUME NEW p \in B, p + Size(m, p) = bp
      PROVE  prev = p /\ FTRP(m, prev) = bp - 8 /\ m[bp - 8] = m[p - 4] /\ m[p - 4].alloc \in {0, 1}
  <2>1. /\ p \in Nat /\ Size(m, p) \in Nat /\ m[p + Size(m, p) - 8] = m[p - 4]
        /\ m[p - 4].size = Size(m, p) /\ m[p - 4] \in Tag
    BY BlockFacts
  <2>2. p + Size(m, p) - 8 = bp - 8
    BY <1>1, <1>3, <2>1
  <2>3. m[bp - 8] = m[p - 4]
    BY <2>1, <2>2
  <2>4. prev = p
    BY <1>1, <1>2, <1>3, <2>1, <2>3
  <2>5. m[p - 4].alloc \in {0, 1}
    BY <2>1 DEF Tag
  <2> QED
    BY <1>1, <1>2, <1>3, <2>1, <2>3, <2>4, <2>5
<1>4. CASE \E p \in B : p + Size(m, p) = bp
  <2>1. PICK p \in B : p + Size(m, p) = bp
    BY <1>4
  <2>2. prev = p /\ FTRP(m, prev) = bp - 8 /\ m[bp - 8] = m[p - 4] /\ m[p - 4].alloc \in {0, 1}
    BY <1>3, <2>1
  <2>3. prev_alloc <=> m[p - 4].alloc = 1
    BY <2>2 DEF GET_ALLOC
  <2>4. \A q \in FreeSet(m, B) : q + Size(m, q) = bp => q = p
    BY <1>3, <2>2 DEF FreeSet
  <2> HIDE DEF prev_alloc
  <2>5. ~prev_alloc => prev \in FreeSet(m, B) /\ prev + Size(m, prev) = bp
    BY <2>1, <2>2, <2>3 DEF FreeSet
  <2>6. prev_alloc => p \notin FreeSet(m, B)
    BY <2>3 DEF FreeSet
  <2> QED
    BY <2>4, <2>5, <2>6 DEF prev, prev_alloc
<1>5. CASE ~ \E p \in B : p + Size(m, p) = bp
  <2>1. bp = first_block
    BY <1>5 DEF Tiled
  <2>2. m[bp - 8] = PACK(8, 1) /\ m[bp - 12] = PACK(8, 1)
    BY <2>1 DEF Tiled
  <2>3. prev = bp - 8
    BY <1>2, <2>2 DEF PACK
  <2>4. prev - 4 = bp - 12 /\ prev + 8 - 8 = bp - 8
    BY <1>1, <2>3
  <2>5. FTRP(m, prev) = bp - 8
    BY <1>2, <2>2, <2>4 DEF PACK
  <2>6. prev_alloc
    BY <2>2, <2>5 DEF GET_ALLOC, PACK
  <2> HIDE DEF prev_alloc
  <2>7. prev_alloc /\ \A p \in FreeSet(m, B) : p + Size(m, p) # bp
    BY <1>5, <2>6 DEF FreeSet
  <2> QED
    BY <2>7 DEF prev, prev_alloc
<1> QED
  BY <1>4, <1>5

\* The neighbour after a block
LEMMA NextIs ==
  ASSUME NEW m, NEW brk, NEW B, Tiled(m, brk, B), NEW bp \in B
  PROVE  LET next == NEXT_BLKP(m, bp)
         IN  /\ next = bp + Size(m, bp)
             /\ ~GET_ALLOC(m, HDRP(next)) <=> next \in FreeSet(m, B)
<1> DEFINE next == NEXT_BLKP(m, bp)
<1>1. next = bp + Size(m, bp) /\ HDRP(next) = next - 4
  BY DEF NEXT_BLKP, Size, HDRP, WSIZE
<1>2. next \in B \cup {brk} /\ brk \notin B
  <2>1. \A p \in B : p \in Nat /\ Size(m, p) \in Nat /\ Size(m, p) >= 16 /\ p + Size(m, p) <= brk
    BY BlockFacts
  <2>2. brk \in Nat
    BY BlockFacts
  <2> QED
    BY <1>1, <2>1, <2>2, BlockFacts
<1> HIDE DEF next
<1>3. CASE next \in B
  <2>1. m[next - 4].alloc \in {0, 1}
    BY <1>3, BlockFacts DEF Tag
  <2>2. ~GET_ALLOC(m, HDRP(next)) <=> next \in FreeSet(m, B)
    BY <1>1, <1>3, <2>1 DEF GET_ALLOC, FreeSet
  <2> QED
    BY <1>1, <2>2 DEF next
<1>4. CASE next = brk
  <2>1. GET_ALLOC(m, HDRP(next)) /\ next \notin FreeSet(m, B)
    BY <1>1, <1>2, <1>4 DEF Tiled, PACK, GET_ALLOC, FreeSet
  <2> QED
    BY <1>1, <2>1 DEF next
<1> QED
  BY <1>2, <1>3, <1>4

\* Taking a block off its list, if there is reason to
LEMMA MaybeUnlist ==
  ASSUME NEW m, NEW brk, NEW B, NEW S, Shape(m, brk, B, S), NEW stay \in BOOLEAN,
         NEW bp, ~stay => bp \in S
  PROVE  LET n == IF stay THEN m ELSE free_from_list(m, bp)
             P == IF stay THEN {} ELSE {bp}
         IN  Shape(n, brk, B, S \ P) /\ SameTags(m, n, B) /\ Keep(m, n, B \ S)
<1>1. CASE stay
  <2>1. S \ {} = S
    OBVIOUS
  <2>2. SameTags(m, m, B) /\ Keep(m, m, B \ S)
    BY DEF SameTags, Keep
  <2> QED
    BY <1>1, <2>1, <2>2
<1>2. CASE ~stay
  BY <1>2, FreeFromList
<1> QED
  BY <1>1, <1>2

\* The outcome of merging a free block: a valid heap with a free block at bp of
\* at least `size` bytes, whose allocated blocks are the old ones, word for word
FreeIn(m, B, n, brk, bp, size) ==
  \E C : /\ Valid(n, brk, C)
         /\ bp \in FreeSet(n, C) /\ size <= Size(n, bp)
         /\ Taken(n, C) = Taken(m, B) /\ Keep(m, n, Taken(m, B))

\* coalesce makes a valid heap of one in which one free block is on no list.
LEMMA Coalesce ==
  ASSUME NEW m, NEW brk, NEW B, NEW S, Shape(m, brk, B, S), NEW bp \in B, bp \notin S,
         FreeSet(m, B) = S \cup {bp}, Apart(m, S)
  PROVE  FreeIn(m, B, coalesce(m, bp).mem, brk, coalesce(m, bp).bp, Size(m, bp))
<1> DEFINE prev == PREV_BLKP(m, bp)
           next == NEXT_BLKP(m, bp)
           prev_alloc == GET_ALLOC(m, FTRP(m, prev))
           next_alloc == GET_ALLOC(m, HDRP(next))
           P == IF prev_alloc THEN {} ELSE {prev}
           N == IF next_alloc THEN {} ELSE {next}
           S2 == (S \ P) \ N
           A == B \ (S \cup {bp})
           before == IF prev_alloc THEN 0 ELSE Size(m, prev)
           after == IF next_alloc THEN 0 ELSE Size(m, next)
           size == Size(m, bp) + before + after
           unprev == IF prev_alloc THEN m ELSE free_from_list(m, prev)
           unnext == IF next_alloc THEN unprev ELSE free_from_list(unprev, next)
           start == IF prev_alloc THEN bp ELSE prev
           merged == IF prev_alloc /\ next_alloc THEN m ELSE PutTags(unnext, start, size, 0)
           n == attatch_to_list(merged, start)
           end == bp + Size(m, bp) + after
           U == S2 \cup {start}
           C == A \cup U
<1>1. coalesce(m, bp) = [mem |-> n, bp |-> start]
  BY DEF coalesce, Size
<1>2. Tiled(m, brk, B) /\ S \subseteq B /\ m \in [Addr -> Word]
  BY DEF Shape
<1>3. \A p \in B : p \in Nat /\ Size(m, p) \in Nat /\ Size(m, p) >= 16 /\ m[p - 4].alloc \in {0, 1}
  BY <1>2, BlockFacts DEF Tag
<1>4. /\ ~prev_alloc => prev \in S \cup {bp} /\ prev + Size(m, prev) = bp
      /\ prev_alloc => \A p \in S : p + Size(m, p) # bp
  BY <1>2, PrevIs
<1>5. /\ next = bp + Size(m, bp)
      /\ ~next_alloc => next \in S \cup {bp}
      /\ next_alloc => next \notin S
  BY <1>2, NextIs
<1> HIDE DEF prev, next, prev_alloc, next_alloc
<1>6. /\ ~prev_alloc => prev \in S /\ prev # bp
      /\ ~next_alloc => next \in S /\ next # bp
  BY <1>2, <1>3, <1>4, <1>5
<1>7. ~prev_alloc /\ ~next_alloc => prev # next
  BY <1>2, <1>3, <1>4, <1>5, <1>6
<1>8. prev_alloc \in BOOLEAN /\ next_alloc \in BOOLEAN
  BY DEF prev_alloc, next_alloc, GET_ALLOC
<1>9. Shape(unprev, brk, B, S \ P) /\ SameTags(m, unprev, B) /\ Keep(m, unprev, B \ S)
  BY <1>6, <1>8, MaybeUnlist
<1> HIDE DEF unprev
<1>10. /\ Shape(unnext, brk, B, S2) /\ SameTags(unprev, unnext, B)
       /\ Keep(unprev, unnext, B \ (S \ P))
  <2>1. ~next_alloc => next \in S \ P
    BY <1>6, <1>7
  <2> HIDE DEF P
  <2> QED
    BY <1>8, <1>9, <2>1, MaybeUnlist
<1>11. prev_alloc /\ next_alloc => unnext = m
  BY DEF unprev
<1> HIDE DEF unnext
<1>12. SameTags(m, unnext, B) /\ Keep(m, unnext, A)
  <2>1. SameTags(m, unnext, B)
    BY <1>9, <1>10, TagsTrans
  <2>2. SameTags(m, unprev, B \ S)
    BY <1>9 DEF SameTags
  <2>3. A \subseteq B \ S /\ A \subseteq B \ (S \ P)
    OBVIOUS
  <2>4. Keep(m, unnext, A)
    BY <1>9, <1>10, <2>2, <2>3, KeepTrans
  <2> QED
    BY <2>1, <2>4
<1>13. /\ before \in Nat /\ after \in Nat /\ size \in Nat /\ size >= 16 /\ Size(m, bp) <= size
       /\ start \in B /\ start \in Nat /\ start + before = bp /\ start + size = end /\ end \in Nat
  <2>1. before \in Nat /\ after \in Nat /\ start \in B /\ start + before = bp
    BY <1>2, <1>3, <1>4, <1>6
  <2> HIDE DEF before, after, start
  <2> QED
    BY <1>3, <2>1
<1>14. end \in B \cup {brk}
  <2>1. CASE next_alloc
    <3>1. bp + Size(m, bp) \in B \cup {brk}
      BY <1>2, BlockFacts
    <3> QED
      BY <1>3, <2>1, <3>1
  <2>2. CASE ~next_alloc
    <3>1. next + Size(m, next) \in B \cup {brk}
      BY <1>2, <1>6, <2>2, BlockFacts
    <3> QED
      BY <1>5, <2>2, <3>1
  <2> QED
    BY <2>1, <2>2
<1>15. \A b \in A \cup S2 : b < start \/ end <= b
  <2> SUFFICES ASSUME NEW b \in A \cup S2 PROVE b < start \/ end <= b
    OBVIOUS
  <2>1. b \in B /\ b # bp /\ b \in Nat /\ Size(m, b) \in Nat /\ Size(m, b) >= 16
    BY <1>2, <1>3
  <2>2. (~prev_alloc => b # prev) /\ (~next_alloc => b # next)
    BY <1>6
  <2>3. b + Size(m, b) <= bp \/ bp + Size(m, bp) <= b
    BY <1>2, <2>1, BlocksApart
  <2>4. ~prev_alloc => b + Size(m, b) <= prev \/ bp <= b
    <3> SUFFICES ASSUME ~prev_alloc PROVE b + Size(m, b) <= prev \/ bp <= b
      OBVIOUS
    <3>1. prev \in B /\ b # prev /\ prev + Size(m, prev) = bp
      BY <1>2, <1>4, <1>6, <2>2
    <3> QED
      BY <1>2, <2>1, <3>1, BlocksApart
  <2>5. ~next_alloc => b + Size(m, b) <= next \/ next + Size(m, next) <= b
    BY <1>2, <1>6, <2>1, <2>2, BlocksApart
  <2>6. end <= b \/ b < bp
    BY <1>2, <1>3, <1>5, <1>6, <2>1, <2>3, <2>5
  <2>7. b < bp => b < start
    <3>1. CASE prev_alloc
      BY <3>1
    <3>2. CASE ~prev_alloc
      <4>1. prev \in Nat
        BY <1>2, <1>3, <1>6, <3>2
      <4> QED
        <5>1. start = prev
          BY <3>2
        <5> HIDE DEF start
        <5> QED
          BY <1>3, <2>1, <2>4, <3>2, <4>1, <5>1
    <3> QED
      BY <3>1, <3>2
  <2> QED
    BY <2>6, <2>7
<1>16. /\ C = {b \in B : b <= start \/ end <= b}
       /\ start \notin A \cup S2
  <2>1. B = A \cup S2 \cup P \cup N \cup {bp}
    BY <1>2, <1>6
  <2>2. start \notin A \cup S2
    BY <1>13, <1>15
  <2>3. \A b \in P \cup N \cup {bp} : b = start \/ (b > start /\ b < end)
    <3>1. bp = start \/ (bp > start /\ bp < end)
      BY <1>2, <1>3, <1>4, <1>6, <1>13
    <3>2. ~next_alloc => next > start /\ next < end
      BY <1>2, <1>3, <1>5, <1>6, <1>13
    <3>3. ~prev_alloc => prev = start
      OBVIOUS
    <3> QED
      BY <3>1, <3>2, <3>3
  <2>4. A \cup S2 \subseteq B
    BY <1>2
  <2> HIDE DEF A, S2, P, N, end, start
  <2>5. ASSUME NEW b \in B PROVE b \in C <=> b <= start \/ end <= b
    <3>1. CASE b \in A \cup S2
      BY <1>3, <1>13, <1>15, <3>1
    <3>2. CASE b = start
      BY <1>13, <3>2
    <3>3. CASE b \in P \cup N \cup {bp} /\ b # start /\ b \notin A \cup S2
      BY <1>3, <1>13, <2>3, <3>3
    <3> QED
      BY <2>1, <3>1, <3>2, <3>3
  <2>6. C \subseteq B
    BY <1>13, <2>4
  <2> QED
    BY <2>2, <2>5, <2>6
<1>17. /\ Shape(merged, brk, C, S2) /\ start \in C /\ merged[start - 4].alloc = 0
       /\ Size(merged, start) = size
       /\ SameTags(unnext, merged, A \cup S2) /\ Keep(unnext, merged, A \cup S2)
  <2>1. CASE prev_alloc /\ next_alloc
    <3>1. merged = m /\ unnext = m /\ start = bp /\ S2 = S /\ size = Size(m, bp)
      BY <1>3, <1>11, <2>1
    <3>2. C = B
      BY <1>2, <3>1
    <3>3. m[bp - 4].alloc = 0
      BY DEF FreeSet
    <3>4. SameTags(m, m, A \cup S2) /\ Keep(m, m, A \cup S2)
      BY DEF SameTags, Keep
    <3> HIDE DEF merged, start, S2, C, size
    <3> QED
      BY <3>1, <3>2, <3>3, <3>4
  <2>2. CASE ~(prev_alloc /\ next_alloc)
    <3>1. merged = PutTags(unnext, start, size, 0)
      BY <2>2
    <3>2. start + size \in B \cup {brk} /\ \A s \in S2 : s < start \/ start + size <= s
      BY <1>13, <1>14, <1>15
    <3>3. C = {b \in B : b <= start \/ start + size <= b} /\ C \ {start} = A \cup S2
      BY <1>13, <1>16
    <3> HIDE DEF merged, start, S2, C, size, A
    <3>4. /\ Shape(merged, brk, C, S2) /\ start \in C
          /\ TagAt(merged, start) = PACK(size, 0) /\ Size(merged, start) = size
          /\ KeepBut(unnext, merged, C, start)
      <4>1. MergesTo(B, S2, brk, start, size, C)
        BY <1>13, <3>2, <3>3 DEF MergesTo
      <4>2. 0 \in {0, 1}
        OBVIOUS
      <4> QED
        BY <1>10, <3>1, <4>1, <4>2, Merge
    <3> QED
      BY <3>3, <3>4 DEF PACK, TagAt, KeepBut
  <2> QED
    BY <2>1, <2>2
<1> HIDE DEF merged, size, start
<1>18. /\ Shape(n, brk, C, U) /\ SameTags(merged, n, C) /\ Keep(merged, n, C \ U)
  <2> HIDE DEF S2, C
  <2> QED
    BY <1>16, <1>17, AttachToList
<1> HIDE DEF n
<1>19. C \ U = A
  BY <1>16
<1>20. SameTags(m, n, A \cup S2) /\ Keep(m, n, A)
  <2>1. A \cup S2 \subseteq B /\ A \cup S2 \subseteq C /\ A \subseteq A \cup S2
    BY <1>2
  <2> HIDE DEF A, S2, C
  <2>2. SameTags(m, merged, A \cup S2)
    BY <1>12, <1>17, <2>1, TagsTrans
  <2>3. SameTags(m, n, A \cup S2)
    BY <1>18, <2>1, <2>2, TagsTrans
  <2>4. SameTags(m, unnext, A) /\ SameTags(m, merged, A)
    BY <1>12, <2>1, <2>2 DEF SameTags
  <2>5. Keep(m, merged, A)
    BY <1>12, <1>17, <2>1, <2>4, KeepTrans
  <2>6. Keep(m, n, A)
    BY <1>18, <1>19, <2>4, <2>5, KeepTrans
  <2> QED
    BY <2>3, <2>6
<1>21. FreeSet(n, C) = U
  <2>1. n[start - 4].alloc = 0
    BY <1>17, <1>18 DEF SameTags
  <2>2. \A c \in A \cup S2 : n[c - 4] = m[c - 4]
    BY <1>20 DEF SameTags
  <2>3. \A c \in S2 : m[c - 4].alloc = 0
    BY DEF FreeSet
  <2>4. \A c \in A : m[c - 4].alloc # 0
    BY DEF FreeSet
  <2> QED
    BY <2>1, <2>2, <2>3, <2>4 DEF FreeSet
<1>22. Apart(n, U)
  <2>1. \A s \in S2 : Size(n, s) = Size(m, s) /\ s \in S /\ s \in B
    BY <1>2, <1>20 DEF SameTags
  <2>2. Size(n, start) = size
    BY <1>17, <1>18 DEF SameTags
  <2>3. ASSUME NEW s \in S2 PROVE s + Size(m, s) \notin U
    <3>1. s + Size(m, s) \notin S
      BY <2>1 DEF Apart
    <3>2. s + Size(m, s) # start
      <4>1. CASE prev_alloc
        BY <1>4, <2>1, <4>1 DEF start
      <4>2. CASE ~prev_alloc
        BY <1>6, <3>1, <4>2 DEF start
      <4> QED
        BY <4>1, <4>2
    <3> QED
      BY <3>1, <3>2
  <2>4. start + size \notin U
    <3>1. start + size # start
      BY <1>13
    <3>2. end \notin S2
      <4>1. CASE next_alloc
        <5>1. end = next
          BY <1>3, <1>5, <4>1
        <5> QED
          BY <1>5, <4>1, <5>1
      <4>2. CASE ~next_alloc
        <5>1. end = next + Size(m, next)
          BY <1>5, <4>2
        <5> QED
          BY <1>6, <4>2, <5>1 DEF Apart
      <4> QED
        BY <4>1, <4>2
    <3> QED
      BY <1>13, <3>1, <3>2
  <2> QED
    BY <2>1, <2>2, <2>3, <2>4 DEF Apart
<1>23. Taken(n, C) = A /\ Taken(m, B) = A
  BY <1>19, <1>21 DEF Taken
<1>24. Size(m, bp) <= Size(n, start) /\ start \in FreeSet(n, C)
  BY <1>13, <1>17, <1>18, <1>21 DEF SameTags
<1>25. Valid(n, brk, C)
  BY <1>18, <1>21, <1>22 DEF Valid
<1>26. coalesce(m, bp).mem = n /\ coalesce(m, bp).bp = start
  BY <1>1
<1> HIDE DEF C, A
<1> QED
  BY <1>20, <1>23, <1>24, <1>25, <1>26 DEF FreeIn

\* extend_heap leaves the heap alone, or adds a free block to it.
LEMMA ExtendHeap ==
  ASSUME NEW m, NEW brk, NEW B, Valid(m, brk, B),
         NEW bytes \in Nat, bytes % 8 = 0, bytes >= 16
  PROVE  LET h == extend_heap(m, brk, bytes)
         IN  \/ h = [mem |-> m, brk |-> brk, bp |-> NULL]
             \/ FreeIn(m, B, h.mem, h.brk, h.bp, bytes)
<1> DEFINE size == DSIZE * ((bytes \div WSIZE + 1) \div 2)
           tagged == PUT(PutTags(m, brk, size, 0), HDRP(brk + size), PACK(0, 1))
           r == coalesce(tagged, brk)
           S == FreeSet(m, B)
           A == Taken(m, B)
           C == B \cup {brk}
           h == extend_heap(m, brk, bytes)
<1>1. Shape(m, brk, B, S) /\ Apart(m, S) /\ Tiled(m, brk, B) /\ S \subseteq B
  BY DEF Valid, Shape
<1>2. h = IF brk + size > mem_max_addr THEN [mem |-> m, brk |-> brk, bp |-> NULL]
          ELSE [mem |-> r.mem, brk |-> brk + size, bp |-> r.bp]
  BY DEF extend_heap
<1>3. size = bytes
  BY DEF DSIZE, WSIZE
<1> HIDE DEF h, size
<1>4. CASE brk + size > mem_max_addr
  BY <1>2, <1>4 DEF h
<1>5. CASE ~(brk + size > mem_max_addr)
  <2>1. brk + size <= mem_max_addr /\ size \in Nat /\ size % 8 = 0 /\ size >= 16
    <3>1. brk \in Int /\ mem_max_addr \in Int
      BY <1>1, Heads DEF Tiled
    <3> QED
      BY <1>3, <1>5, <3>1
  <2>2. /\ Shape(tagged, brk + size, C, S) /\ brk \notin B
        /\ TagAt(tagged, brk) = PACK(size, 0) /\ Size(tagged, brk) = size
        /\ Keep(m, tagged, B) /\ SameTags(m, tagged, B)
    BY <1>1, <2>1, Extend
  <2> HIDE DEF tagged
  <2>3. FreeSet(tagged, C) = S \cup {brk}
    <3>1. tagged[brk - 4].alloc = 0
      BY <2>2 DEF PACK, TagAt
    <3> QED
      BY <2>2, <3>1 DEF FreeSet, SameTags
  <2>4. Apart(tagged, S)
    BY <1>1, <2>2 DEF Apart, SameTags
  <2>5. FreeIn(tagged, C, r.mem, brk + size, r.bp, size)
    <3>1. brk \in C /\ brk \notin S
      BY <1>1, <2>2
    <3> HIDE DEF S, C
    <3> QED
      BY <2>2, <2>3, <2>4, <3>1, Coalesce
  <2>6. Taken(tagged, C) = A /\ A \subseteq B
    BY <1>1, <2>2, <2>3 DEF Taken
  <2>7. PICK D : /\ Valid(r.mem, brk + size, D)
                 /\ r.bp \in FreeSet(r.mem, D) /\ size <= Size(r.mem, r.bp)
                 /\ Taken(r.mem, D) = Taken(tagged, C) /\ Keep(tagged, r.mem, Taken(tagged, C))
    BY <2>5 DEF FreeIn
  <2>8. Keep(m, r.mem, A)
    <3> HIDE DEF r, A
    <3>1. Keep(tagged, r.mem, A)
      BY <2>6, <2>7
    <3> QED
      BY <2>2, <2>6, <3>1, KeepTrans
  <2>9. FreeIn(m, B, r.mem, brk + size, r.bp, size)
    <3> HIDE DEF r
    <3> QED
      BY <2>6, <2>7, <2>8 DEF FreeIn
  <2>10. h.mem = r.mem /\ h.brk = brk + size /\ h.bp = r.bp
    <3> HIDE DEF r
    <3> QED
      BY <1>2, <1>5
  <2> HIDE DEF r
  <2> QED
    BY <1>3, <2>9, <2>10 DEF h
<1> QED
  BY <1>4, <1>5

\* A block is taken: the outcome of place
TakenIn(m, B, n, brk, bp, size) ==
  \E C : /\ Valid(n, brk, C)
         /\ bp \notin Taken(m, B) /\ Taken(n, C) = Taken(m, B) \cup {bp} /\ size <= Size(n, bp)
         /\ Keep(m, n, Taken(m, B))

\* A tag over one block only changes whether it is allocated.
LEMMA Retag ==
  ASSUME NEW m, NEW brk, NEW B, NEW S, Shape(m, brk, B, S), NEW bp \in B, bp \notin S,
         NEW alloc \in {0, 1}
  PROVE  LET n == PutTags(m, bp, Size(m, bp), alloc)
         IN  /\ Shape(n, brk, B, S) /\ n[bp - 4].alloc = alloc /\ Size(n, bp) = Size(m, bp)
             /\ KeepBut(m, n, B, bp)
<1> DEFINE z == Size(m, bp)
<1>1. Tiled(m, brk, B) /\ S \subseteq B
  BY DEF Shape
<1>2. z \in Nat /\ z >= 16 /\ bp + z \in B \cup {brk}
  BY <1>1, BlockFacts
<1>3. ASSUME NEW b \in B PROVE b < bp \/ b = bp \/ bp + z <= b
  <2>1. b \in Nat /\ bp \in Nat /\ Size(m, b) \in Nat /\ Size(m, b) >= 16
    BY <1>1, BlockFacts
  <2>2. b = bp \/ b + Size(m, b) <= bp \/ bp + z <= b
    BY <1>1, BlocksApart
  <2> HIDE DEF z
  <2> QED
    BY <2>1, <2>2
<1>4. \A b \in B : b <= bp \/ bp + z <= b
  <2> SUFFICES ASSUME NEW b \in B PROVE b <= bp \/ bp + z <= b
    OBVIOUS
  <2>1. b \in Nat /\ bp \in Nat
    BY <1>1, BlockFacts
  <2> QED
    BY <1>3, <2>1
<1>5. MergesTo(B, S, brk, bp, z, B)
  <2>1. B = {b \in B : b <= bp \/ bp + z <= b}
    BY <1>4
  <2>2. \A s \in S : s < bp \/ bp + z <= s
    BY <1>1, <1>3
  <2> HIDE DEF z
  <2> QED
    BY <1>2, <2>1, <2>2 DEF MergesTo
<1> HIDE DEF z
<1>6. LET n == PutTags(m, bp, z, alloc)
      IN  /\ Shape(n, brk, B, S)
          /\ TagAt(n, bp) = PACK(z, alloc) /\ Size(n, bp) = z
          /\ KeepBut(m, n, B, bp)
  <2> DEFINE n == PutTags(m, bp, z, alloc)
  <2> HIDE DEF n
  <2>1. n = PutTags(m, bp, z, alloc)
    BY DEF n
  <2>2. /\ Shape(n, brk, B, S)
        /\ TagAt(n, bp) = PACK(z, alloc) /\ Size(n, bp) = z
        /\ KeepBut(m, n, B, bp)
    BY <1>5, <2>1, Merge
  <2> QED
    BY <2>2 DEF n
<1>7. PACK(z, alloc).alloc = alloc
  BY DEF PACK
<1> QED
  BY <1>6, <1>7 DEF z, TagAt

\* place takes a free block, and splits it if enough is left.
LEMMA Place ==
  ASSUME NEW m, NEW brk, NEW B, Valid(m, brk, B), NEW bp \in FreeSet(m, B),
         NEW part \in Nat, part % 8 = 0, part >= 16, part <= Size(m, bp)
  PROVE  TakenIn(m, B, place(m, bp, part), brk, bp, part)
<1> DEFINE S == FreeSet(m, B)
           A == Taken(m, B)
           z == Size(m, bp)
           taken == free_from_list(m, bp)
           rest == PutTags(PutTags(taken, bp, part, 1), bp + part, z - part, 0)
           R == S \ {bp}
<1>1. Shape(m, brk, B, S) /\ Apart(m, S) /\ Tiled(m, brk, B) /\ S \subseteq B
  BY DEF Valid, Shape
<1>2. /\ place(m, bp, part) = IF z - part >= 16 THEN attatch_to_list(rest, bp + part)
                              ELSE PutTags(taken, bp, z, 1)
  BY DEF place, Size, DSIZE
<1>3. bp \in B /\ bp \in S /\ bp \notin A /\ A = B \ S
  BY DEF FreeSet, Taken
<1>4. /\ bp \in Nat /\ z \in Nat /\ brk \in Nat /\ bp + z <= brk
  BY <1>1, <1>3, BlockFacts
<1>5. Shape(taken, brk, B, R) /\ SameTags(m, taken, B) /\ Keep(m, taken, B \ S)
  BY <1>1, <1>3, FreeFromList
<1>6. Size(taken, bp) = z
  BY <1>3, <1>5 DEF SameTags
<1> HIDE DEF z, taken, S
<1>7. A \subseteq B \ {bp} /\ R \subseteq B \ {bp} /\ SameTags(m, taken, A)
  BY <1>1, <1>3, <1>5 DEF SameTags
<1>8. CASE z - part >= 16
  <2> DEFINE f == bp + part
             C == B \cup {f}
             U == R \cup {f}
             n == attatch_to_list(rest, f)
  <2>1. /\ z - part \in Nat /\ z - part >= 16 /\ Size(taken, bp) = part + (z - part)
    BY <1>4, <1>6, <1>8
  <2>2. /\ Shape(rest, brk, C, R) /\ f \notin B
        /\ TagAt(rest, bp) = PACK(part, 1) /\ Size(rest, bp) = part
        /\ TagAt(rest, f) = PACK(z - part, 0) /\ Size(rest, f) = z - part
        /\ KeepBut(taken, rest, B, bp)
    <3> DEFINE y == z - part
    <3>1. bp \notin R /\ bp \in B
      BY <1>3
    <3> HIDE DEF R
    <3>2. SplitTo(taken, PutTags(PutTags(taken, bp, part, 1), bp + part, y, 0), brk, B, R, bp, part, y)
      <4> HIDE DEF y
      <4> QED
        BY <1>5, <2>1, <3>1, Split DEF y
    <3> QED
      BY <2>1, <3>2, Zenon DEF SplitTo
  <2> HIDE DEF f
  <2>3. Shape(n, brk, C, U) /\ SameTags(rest, n, C) /\ Keep(rest, n, C \ U)
    <3>1. f \in C /\ f \notin R
      BY <1>7, <2>2
    <3> HIDE DEF R, C, rest
    <3> QED
      BY <2>2, <3>1, AttachToList
  <2> HIDE DEF rest
  <2>4. SameTags(m, n, A \cup R)
    BY <1>5, <1>7, <2>2, <2>3 DEF SameTags, KeepBut
  <2>5. Keep(m, n, A)
    <3>1. A \subseteq B \ S /\ A \subseteq B \ {bp} /\ A \subseteq C \ U
      BY <1>3, <1>7, <2>2
    <3>2. SameTags(m, rest, A)
      BY <1>5, <1>7, <2>2 DEF SameTags, KeepBut
    <3> HIDE DEF A, C, U
    <3>3. Keep(m, taken, A)
      BY <1>5, <3>1 DEF Keep
    <3>4. Keep(m, rest, A)
      BY <1>7, <2>2, <3>1, <3>3, KeepTrans DEF KeepBut
    <3> QED
      BY <2>3, <3>1, <3>2, <3>4, KeepTrans
  <2>6. FreeSet(n, C) = U
    <3>1. n[f - 4].alloc = 0 /\ n[bp - 4].alloc = 1
      BY <1>3, <2>2, <2>3 DEF SameTags, PACK, TagAt
    <3>2. \A p \in A \cup R : n[p - 4] = m[p - 4]
      BY <2>4 DEF SameTags
    <3>3. \A p \in R : m[p - 4].alloc = 0
      BY DEF S, FreeSet
    <3>4. \A p \in A : m[p - 4].alloc # 0
      BY <1>3 DEF S, FreeSet
    <3>5. C = A \cup R \cup {f, bp} /\ A \cup {bp} \cup U = C
      BY <1>1, <1>3
    <3> HIDE DEF A, R, C
    <3> QED
      BY <3>1, <3>2, <3>3, <3>4, <3>5 DEF FreeSet
  <2>7. Apart(n, U)
    <3>1. \A p \in R : Size(n, p) = Size(m, p) /\ p + Size(m, p) \in B \cup {brk}
      BY <1>1, <1>7, <2>4, BlockFacts DEF SameTags
    <3>2. f # brk /\ f + (z - part) = bp + z /\ bp + z # f
      BY <1>4, <1>8 DEF f
    <3>3. Size(n, f) = z - part
      BY <2>2, <2>3 DEF SameTags
    <3>4. ASSUME NEW p \in R PROVE p + Size(n, p) \notin U
      <4>1. p + Size(m, p) \notin S
        BY <1>1 DEF Apart
      <4>2. p + Size(m, p) # f
        BY <2>2, <3>1, <3>2
      <4> QED
        BY <3>1, <4>1, <4>2
    <3>5. f + Size(n, f) \notin U
      <4>1. bp + z \notin S
        BY <1>1, <1>3 DEF Apart, z
      <4> QED
        BY <3>2, <3>3, <4>1
    <3> QED
      BY <3>4, <3>5 DEF Apart
  <2>8. Valid(n, brk, C)
    BY <2>3, <2>6, <2>7 DEF Valid
  <2>9. Taken(n, C) = A \cup {bp}
    BY <1>1, <1>3, <2>2, <2>6 DEF Taken
  <2>10. Size(n, bp) = part
    BY <1>3, <2>2, <2>3 DEF SameTags
  <2>11. place(m, bp, part) = n
    BY <1>2, <1>8 DEF f, rest
  <2> HIDE DEF n, C, A
  <2>12. part <= part
    OBVIOUS
  <2>13. bp \notin A
    BY <1>3
  <2> QED
    BY <2>5, <2>8, <2>9, <2>10, <2>11, <2>12, <2>13 DEF TakenIn, A
<1>9. CASE ~(z - part >= 16)
  <2> DEFINE n == PutTags(taken, bp, z, 1)
  <2>1. /\ Shape(n, brk, B, R) /\ n[bp - 4].alloc = 1 /\ Size(n, bp) = z
        /\ KeepBut(taken, n, B, bp)
    <3>1. bp \notin R /\ bp \in B /\ 1 \in {0, 1}
      BY <1>3
    <3> HIDE DEF R
    <3>2. LET l == PutTags(taken, bp, Size(taken, bp), 1)
          IN  /\ Shape(l, brk, B, R) /\ l[bp - 4].alloc = 1 /\ Size(l, bp) = Size(taken, bp)
              /\ KeepBut(taken, l, B, bp)
      BY <1>5, <3>1, Retag
    <3> QED
      BY <1>6, <3>2
  <2> HIDE DEF n
  <2>2. SameTags(m, n, B \ {bp})
    BY <1>5, <2>1 DEF SameTags, KeepBut
  <2>3. Keep(m, n, A)
    <3>1. Keep(m, taken, A)
      BY <1>3, <1>5 DEF Keep
    <3> HIDE DEF A
    <3> QED
      BY <1>7, <2>1, <3>1, KeepTrans DEF KeepBut
  <2>4. FreeSet(n, B) = R
    BY <1>3, <2>1, <2>2 DEF FreeSet, SameTags, S
  <2>5. Apart(n, R)
    BY <1>1, <1>7, <2>2 DEF Apart, SameTags
  <2>6. Valid(n, brk, B)
    BY <2>1, <2>4, <2>5 DEF Valid
  <2>7. Taken(n, B) = A \cup {bp}
    BY <1>1, <1>3, <2>4 DEF Taken
  <2>8. place(m, bp, part) = n /\ part <= z
    BY <1>2, <1>9 DEF n, z
  <2>9. bp \notin A
    BY <1>3
  <2> HIDE DEF A
  <2> QED
    BY <2>1, <2>3, <2>6, <2>7, <2>8, <2>9 DEF TakenIn, A
<1> QED
  BY <1>8, <1>9

\* A free list as a sequence holds the free blocks of its class, each once.
LEMMA ListIs ==
  ASSUME NEW m, NEW brk, NEW B, NEW S, Shape(m, brk, B, S), NEW i \in Index
  PROVE  LET list == List(m, i)
             T == OfClass(m, S, i)
         IN  /\ list \in Seq(T)
             /\ \A p \in T : \E k \in DOMAIN list : list[k] = p
             /\ \A j, k \in DOMAIN list : list[j] = list[k] => j = k
<1> DEFINE T == OfClass(m, S, i)
           c == ClassAt(i)
           w == Links(m, c)
           list == List(m, i)
<1>1. Tiled(m, brk, B) /\ S \subseteq B /\ \E d : ListOK(m, c, T, d)
  BY DEF Shape, Lists
<1>2. T \subseteq B /\ c \notin T /\ Aligned(T \cup {c})
  BY <1>1, ClassFacts
<1>3. list = Tail(w)
  BY DEF List
<1> HIDE DEF T, c, list
<1>4. /\ w \in Seq(T \cup {c}) /\ Len(w) \in Nat /\ Len(w) >= 1 /\ w[1] = c
      /\ \A k \in 2 .. Len(w) : w[k] \in T
      /\ \A j, k \in 1 .. Len(w) : w[j] = w[k] => j = k
      /\ \A p \in T : \E k \in 2 .. Len(w) : w[k] = p
  <2>1. PICK d : ListOK(m, c, T, d)
    BY <1>1
  <2>2. Along(m, c, T, w)
    BY <1>2, <2>1, LinksOfList
  <2> QED
    BY <2>2 DEF Along
<1> HIDE DEF w
<1>5. /\ list \in Seq(T \cup {c}) /\ Len(list) = Len(w) - 1 /\ DOMAIN list = 1 .. Len(w) - 1
      /\ \A k \in 1 .. Len(w) - 1 : list[k] = w[k + 1]
  <2>1. w # << >>
    BY <1>4
  <2> QED
    BY <1>3, <1>4, <2>1
<1>6. \A k \in DOMAIN list : k \in Nat /\ k + 1 \in 2 .. Len(w) /\ k + 1 \in 1 .. Len(w)
  BY <1>4, <1>5
<1>7. list \in Seq(T)
  <2>1. \A k \in 1 .. Len(list) : list[k] \in T
    BY <1>4, <1>5, <1>6
  <2> QED
    BY <1>4, <1>5, <2>1
<1>8. \A p \in T : \E k \in DOMAIN list : list[k] = p
  <2> SUFFICES ASSUME NEW p \in T PROVE \E k \in DOMAIN list : list[k] = p
    OBVIOUS
  <2>1. PICK k \in 2 .. Len(w) : w[k] = p
    BY <1>4
  <2>2. k - 1 \in 1 .. Len(w) - 1 /\ (k - 1) + 1 = k
    BY <1>4
  <2>3. list[k - 1] = p
    BY <1>5, <2>1, <2>2
  <2> QED
    BY <1>5, <2>2, <2>3
<1>9. \A j, k \in DOMAIN list : list[j] = list[k] => j = k
  <2> SUFFICES ASSUME NEW j \in DOMAIN list, NEW k \in DOMAIN list, list[j] = list[k]
               PROVE  j = k
    OBVIOUS
  <2>1. w[j + 1] = w[k + 1]
    BY <1>5
  <2>2. j + 1 = k + 1
    BY <1>4, <1>6, <2>1
  <2> QED
    BY <1>6, <2>2
<1> QED
  BY <1>7, <1>8, <1>9 DEF T, list

\* find_fit finds a free block that is large enough if there is one.
LEMMA FindFit ==
  ASSUME NEW m, NEW brk, NEW B, NEW S, Shape(m, brk, B, S), NEW part \in Nat
  PROVE  LET fit == find_fit(m, part)
         IN  /\ fit = NULL => \A p \in S : Size(m, p) < part
             /\ fit # NULL => fit \in S /\ part <= Size(m, fit)
<1> DEFINE fitting == {i \in Class(part) .. Classes - 1 : Fits(m, i, part) # {}}
           fit == find_fit(m, part)
<1>1. fit = IF fitting = {} THEN NULL ELSE FirstFit(m, Min(fitting), part)
  BY DEF find_fit
<1>2. Class(part) \in Nat /\ Classes \in Nat
  <2>1. Class(part) \in 0 .. Classes - 1
    BY ClassIs
  <2> QED
    BY <2>1, HeapAssumption
<1>3. fitting \subseteq Nat /\ \A i \in fitting : i \in Index
  BY <1>2 DEF Index
<1>4. ASSUME NEW i \in Index
      PROVE  LET list == List(m, i)
             IN  /\ list \in Seq(OfClass(m, S, i))
                 /\ \A p \in OfClass(m, S, i) : \E k \in DOMAIN list : list[k] = p
                 /\ Fits(m, i, part) = {k \in DOMAIN list : part <= Size(m, list[k])}
  <2>1. Fits(m, i, part) = {k \in DOMAIN List(m, i) : part <= Size(m, List(m, i)[k])}
    BY DEF Fits, Size
  <2> QED
    BY <2>1, ListIs
<1>5. Tiled(m, brk, B) /\ S \subseteq B
  BY DEF Shape
<1> HIDE DEF fit
<1>6. CASE fitting = {}
  <2>1. ASSUME NEW p \in S, ~(Size(m, p) < part) PROVE FALSE
    <3> DEFINE i == Class(Size(m, p))
    <3>1. Size(m, p) \in Nat /\ part <= Size(m, p)
      <4>1. Size(m, p) \in Nat
        BY <1>5, BlockFacts
      <4> QED
        BY <2>1, <4>1
    <3>2. i \in 0 .. Classes - 1 /\ Class(part) <= i
      BY <3>1, ClassIs, ClassMonotone
    <3>3. i \in Class(part) .. Classes - 1 /\ i \in Index
      BY <1>2, <3>2 DEF Index
    <3>4. p \in OfClass(m, S, i)
      BY DEF OfClass
    <3> HIDE DEF i
    <3> DEFINE list == List(m, i)
    <3>5. PICK k \in DOMAIN list : list[k] = p
      BY <1>4, <3>3, <3>4
    <3>6. k \in Fits(m, i, part)
      BY <1>4, <3>1, <3>3, <3>5
    <3>7. i \in fitting
      BY <3>3, <3>6
    <3> QED
      BY <1>6, <3>7
  <2>2. fit = NULL
    BY <1>1, <1>6
  <2> QED
    BY <2>1, <2>2 DEF fit
<1>7. CASE fitting # {}
  <2> DEFINE i == Min(fitting)
             list == List(m, i)
             F == Fits(m, i, part)
             k == Min(F)
  <2>1. i \in fitting
    BY <1>3, <1>7, MinOfNats
  <2>2. i \in Index /\ F # {}
    BY <1>3, <2>1
  <2> HIDE DEF i
  <2>3. /\ list \in Seq(OfClass(m, S, i)) /\ F = {j \in DOMAIN list : part <= Size(m, list[j])}
    BY <1>4, <2>2
  <2> HIDE DEF F, list
  <2>4. F \subseteq Nat
    BY <2>3
  <2>5. k \in F
    BY <2>2, <2>4, MinOfNats
  <2> HIDE DEF k
  <2>6. list[k] \in OfClass(m, S, i) /\ part <= Size(m, list[k])
    BY <2>3, <2>5
  <2>7. fit = list[k]
    BY <1>1, <1>7 DEF FirstFit, i, list, F, k
  <2>8. fit \in S /\ part <= Size(m, fit)
    BY <2>6, <2>7 DEF OfClass
  <2>9. fit # NULL
    BY <1>5, <2>8, BlockFacts, NullIsNoAddr
  <2> QED
    BY <2>8, <2>9 DEF fit
<1> QED
  BY <1>6, <1>7

\* free gives a block back.
LEMMA FreeBlock ==
  ASSUME NEW m, NEW brk, NEW B, Valid(m, brk, B), NEW bp \in Taken(m, B)
  PROVE  \E C : LET n == free(m, bp)
                IN  /\ Valid(n, brk, C)
                    /\ Taken(n, C) = Taken(m, B) \ {bp} /\ Keep(m, n, Taken(m, B) \ {bp})
<1> DEFINE S == FreeSet(m, B)
           A == Taken(m, B)
           K == A \ {bp}
           t == PutTags(m, bp, Size(m, bp), 0)
           r == coalesce(t, bp)
<1>1. Shape(m, brk, B, S) /\ Apart(m, S) /\ Tiled(m, brk, B) /\ S \subseteq B
  BY DEF Valid, Shape
<1>2. bp \in B /\ bp \notin S /\ A = B \ S /\ \A p \in A : m[p - 4].alloc # 0
  BY DEF Taken, FreeSet
<1>3. free(m, bp) = r.mem
  BY DEF free, Size
<1>4. /\ Shape(t, brk, B, S) /\ t[bp - 4].alloc = 0 /\ Size(t, bp) = Size(m, bp)
      /\ KeepBut(m, t, B, bp)
  <2>1. 0 \in {0, 1}
    OBVIOUS
  <2> HIDE DEF S
  <2> QED
    BY <1>1, <1>2, <2>1, Retag
<1> HIDE DEF t
<1>5. Keep(m, t, B \ {bp}) /\ SameTags(m, t, B \ {bp})
  BY <1>4 DEF KeepBut
<1>6. FreeSet(t, B) = S \cup {bp}
  BY <1>1, <1>2, <1>4, <1>5 DEF FreeSet, SameTags
<1>7. Apart(t, S)
  BY <1>1, <1>2, <1>5 DEF Apart, SameTags
<1>8. FreeIn(t, B, r.mem, brk, r.bp, Size(t, bp))
  <2> HIDE DEF S
  <2> QED
    BY <1>2, <1>4, <1>6, <1>7, Coalesce
<1>9. Taken(t, B) = K
  BY <1>2, <1>6 DEF Taken
<1>10. PICK C : Valid(r.mem, brk, C) /\ Taken(r.mem, C) = K /\ Keep(t, r.mem, K)
  BY <1>8, <1>9 DEF FreeIn
<1>11. Keep(m, r.mem, K)
  <2>1. K \subseteq B \ {bp}
    BY <1>2
  <2> HIDE DEF K, r
  <2>2. Keep(m, t, K) /\ SameTags(m, t, K)
    BY <1>5, <2>1 DEF Keep, SameTags
  <2> QED
    BY <1>10, <2>2, KeepTrans
<1> HIDE DEF r
<1> QED
  BY <1>3, <1>10, <1>11

\* Writing into the payload of an allocated block
LEMMA Payload ==
  ASSUME NEW m, NEW brk, NEW B, Valid(m, brk, B), NEW bp \in Taken(m, B),
         NEW n, n \in [Addr -> Word],
         \A x \in Addr : x < bp \/ bp + (Size(m, bp) - 8) <= x => n[x] = m[x]
  PROVE  /\ Valid(n, brk, B) /\ Taken(n, B) = Taken(m, B)
         /\ SameTags(m, n, B) /\ Keep(m, n, Taken(m, B) \ {bp})
<1> DEFINE S == FreeSet(m, B)
           A == Taken(m, B)
           K == B \ {bp}
           z == Size(m, bp)
           lo == bp
           hi == bp + (z - 8)
<1>1. Shape(m, brk, B, S) /\ Apart(m, S) /\ Tiled(m, brk, B) /\ S \subseteq B
  BY DEF Valid, Shape
<1>2. bp \in B /\ bp \notin S /\ A = B \ S
  BY DEF Taken
<1>3. /\ bp \in Nat /\ z \in Nat /\ z >= 16 /\ first_block <= bp /\ bp - 4 \in Addr
      /\ bp + z - 8 \in Addr /\ bp + z - 8 = hi /\ first_block \in Nat
      /\ brk \in Nat /\ bp + z <= brk /\ brk % 8 = 0 /\ brk <= mem_max_addr
  BY <1>1, <1>2, BlockFacts, Heads
<1>4. ChangedIn(m, n, lo, hi, K)
  <2>1. ASSUME NEW p \in K PROVE p + Size(m, p) - 4 <= lo \/ hi <= p - 4
    <3>1. p \in Nat /\ Size(m, p) \in Nat
      BY <1>1, BlockFacts
    <3>2. p + Size(m, p) <= bp \/ bp + z <= p
      BY <1>1, <1>2, BlocksApart
    <3> HIDE DEF z
    <3> QED
      BY <1>3, <3>1, <3>2
  <2>2. lo \in Int /\ hi \in Int /\ first_block - 4 <= lo
    BY <1>3
  <2> QED
    BY <2>1, <2>2 DEF ChangedIn
<1>5. S \subseteq K /\ K \subseteq B
  BY <1>1, <1>2
<1>6. /\ Keep(m, n, K) /\ SameTags(m, n, K) /\ Lists(n, S)
      /\ \A p \in K : n[p + Size(m, p) - 8] = m[p + Size(m, p) - 8]
      /\ n[first_block - 12] = m[first_block - 12] /\ n[first_block - 8] = m[first_block - 8]
  <2> HIDE DEF S, K, lo, hi
  <2> QED
    BY <1>1, <1>4, <1>5, Outside
<1>7. n[bp - 4] = m[bp - 4] /\ n[bp + z - 8] = m[bp + z - 8]
  <2>1. bp - 4 < bp /\ bp + (z - 8) <= bp + z - 8
    BY <1>3
  <2> QED
    BY <1>3, <2>1
<1>8. n[brk - 4] = m[brk - 4]
  <2>1. brk - 4 \in Addr /\ hi <= brk - 4
    BY <1>3, Heads, AddrIs DEF WSIZE
  <2> QED
    BY <2>1
<1>9. Tiled(n, brk, B) /\ \A p \in B : Size(n, p) = Size(m, p) /\ n[p - 4] = m[p - 4]
  <2>1. m[bp + z - 8] = m[bp - 4]
    BY <1>1, <1>2, BlockFacts
  <2>2. \A p \in B : n[p - 4] = m[p - 4] /\ n[p + Size(m, p) - 8] = m[p + Size(m, p) - 8]
    BY <1>6, <1>7 DEF SameTags
  <2>3. n[first_block - 12] = m[first_block - 12] /\ n[first_block - 8] = m[first_block - 8]
    BY <1>6
  <2>4. Tiled(m, brk, B)
    BY <1>1
  <2> HIDE DEF S, A, K, z, lo, hi
  <2> QED
    BY ONLY <1>8, <2>2, <2>3, <2>4, TiledSame
<1>10. FreeSet(n, B) = S
  BY <1>9 DEF FreeSet
<1>11. Apart(n, S)
  BY <1>1, <1>9 DEF Apart
<1>12. Shape(n, brk, B, S)
  BY <1>1, <1>6, <1>9 DEF Shape
<1>13. Keep(m, n, A \ {bp})
  BY <1>2, <1>6 DEF Keep
<1>14. Taken(n, B) = A /\ SameTags(m, n, B)
  BY <1>2, <1>9, <1>10 DEF Taken, SameTags
<1> HIDE DEF S
<1> QED
  BY <1>10, <1>11, <1>12, <1>13, <1>14 DEF Valid

-----------------------------------------------------------------------------
(***************************************************************************)
(* The functions of the allocator, from one valid heap to the next.         *)
(***************************************************************************)

\* A valid heap with no allocated block
Fresh(m, brk) == \E C : Valid(m, brk, C) /\ Taken(m, C) = {}

\* mm_init makes the prologue, the epilogue and the empty lists, and extends
\* the heap if it can.
LEMMA InitHeap == Fresh(mm_init.mem, mm_init.brk)
<1> DEFINE prologue == mem_start_brk + Classes * DSIZE + DSIZE
           brk   == prologue + DSIZE
           heads == [p \in Addr |-> IF p < ClassAt(Classes) THEN Pointer(NULL) ELSE Junk]
           tagged == PutTags(heads, prologue, DSIZE, 1)
           empty == PUT(tagged, HDRP(brk), PACK(0, 1))
<1>0. Classes \in Nat /\ MAX_HEAP \in Nat /\ MAX_HEAP >= 24
  BY HeapAssumption DEF DSIZE, WSIZE
<1>1. /\ ClassAt(Classes) \in Nat /\ ClassAt(Classes) % 8 = 0 /\ ClassAt(Classes) >= 16
      /\ prologue = ClassAt(Classes) + 8 /\ brk = first_block /\ first_block = ClassAt(Classes) + 16
      /\ first_block <= mem_max_addr /\ mem_max_addr \in Nat /\ HDRP(brk) = first_block - 4
  BY <1>0, Heads DEF ClassAt, DSIZE, mem_start_brk, HDRP, WSIZE
<1> HIDE DEF prologue, brk
<1>2. /\ prologue \in Nat /\ prologue % 8 = 0
      /\ prologue \in Addr /\ prologue - 4 \in Addr /\ first_block - 4 \in Addr
  BY <1>1, AddrIs DEF WSIZE
<1>3. heads \in [Addr -> Word]
  BY DEF Word, Pointer, Junk
<1> HIDE DEF heads
<1>4. /\ tagged \in [Addr -> Word]
      /\ tagged[prologue - 4] = PACK(8, 1) /\ tagged[prologue] = PACK(8, 1)
      /\ \A x \in Addr : x < prologue - 4 \/ prologue + 4 <= x => tagged[x] = heads[x]
  <2>1. /\ prologue + 8 <= mem_max_addr /\ 8 <= MAX_HEAP /\ DSIZE = 8
        /\ prologue + 8 - 8 = prologue /\ prologue + 8 - 4 = prologue + 4
    BY <1>0, <1>1, <1>2 DEF DSIZE
  <2> QED
    BY <1>2, <1>3, <2>1, PutTagsIs
<1> HIDE DEF tagged
<1>5. /\ empty \in [Addr -> Word]
      /\ empty[first_block - 4] = PACK(0, 1)
      /\ \A x \in Addr : x # first_block - 4 => empty[x] = tagged[x]
  <2>1. PACK(0, 1) \in Word
    BY <1>0 DEF PACK, Word
  <2> QED
    BY <1>1, <1>2, <1>4, <2>1 DEF PUT
<1>6. empty[first_block - 12] = PACK(8, 1) /\ empty[first_block - 8] = PACK(8, 1)
  <2>1. first_block - 12 = prologue - 4 /\ first_block - 8 = prologue
    BY <1>1, <1>2
  <2>2. prologue - 4 # first_block - 4 /\ prologue # first_block - 4
    BY <1>1, <1>2
  <2> QED
    BY <1>2, <1>4, <1>5, <2>1, <2>2
<1>7. \A i \in Index : empty[ClassAt(i)] = Pointer(NULL)
  <2> TAKE i \in Index
  <2>1. ClassAt(i) \in Addr /\ ClassAt(i) \in Nat /\ ClassAt(i) + 8 <= ClassAt(Classes)
    BY Heads, AddrIs DEF WSIZE
  <2>2. heads[ClassAt(i)] = Pointer(NULL)
    BY <1>1, <2>1 DEF heads
  <2>3. ClassAt(i) < prologue - 4 /\ ClassAt(i) # first_block - 4
    BY <1>1, <2>1
  <2> QED
    BY <1>4, <1>5, <2>1, <2>2, <2>3
<1> HIDE DEF empty
<1>8. Lists(empty, {})
  <2> SUFFICES ASSUME NEW i \in Index
               PROVE  ListOK(empty, ClassAt(i), {}, [p \in {} |-> 0])
    BY DEF Lists, OfClass
  <2>1. empty[ClassAt(i)] = [suc |-> NULL]
    BY <1>7 DEF Pointer
  <2> QED
    BY <2>1 DEF ListOK, GET_SUC
<1>9. Tiled(empty, first_block, {})
  <2>1. first_block \in first_block .. mem_max_addr /\ first_block % DSIZE = 0
    BY <1>1 DEF DSIZE
  <2> QED
    BY <1>5, <1>6, <2>1 DEF Tiled
<1>10. Valid(empty, first_block, {}) /\ Taken(empty, {}) = {}
  BY <1>5, <1>8, <1>9 DEF Valid, Shape, FreeSet, Taken, Apart
<1>11. mm_init = extend_heap(empty, first_block, CHUNKSIZE)
  BY <1>1 DEF mm_init, empty, tagged, heads, prologue, brk
<1>12. CHUNKSIZE \in Nat /\ CHUNKSIZE % 8 = 0 /\ CHUNKSIZE >= 16
  BY HeapAssumption DEF DSIZE
<1>13. CASE mm_init = [mem |-> empty, brk |-> first_block, bp |-> NULL]
  BY <1>10, <1>13 DEF Fresh
<1>14. CASE FreeIn(empty, {}, mm_init.mem, mm_init.brk, mm_init.bp, CHUNKSIZE)
  BY <1>10, <1>14 DEF Fresh, FreeIn
<1> QED
  BY <1>10, <1>11, <1>12, <1>13, <1>14, ExtendHeap

\* A heap is a record, and where it comes from does not matter.
Heap3(h) == h = [mem |-> h.mem, brk |-> h.brk, bp |-> h.bp]

\* asize leaves room for the tags, and is a size of a block.
LEMMA AsizeIs ==
  ASSUME NEW size \in Nat
  PROVE  /\ asize(size) \in Nat /\ asize(size) % 8 = 0 /\ asize(size) >= 16
         /\ size + 8 <= asize(size)
BY DEF asize, DSIZE

\* Max of two numbers
LEMMA LargerOf ==
  ASSUME NEW a \in Nat, NEW b \in Nat
  PROVE  Max({a, b}) \in {a, b} /\ a <= Max({a, b}) /\ b <= Max({a, b})
<1>1. \E x \in {a, b} : \A y \in {a, b} : x >= y
  <2>1. CASE a >= b
    BY <2>1
  <2>2. CASE b >= a
    BY <2>2
  <2> QED
    BY <2>1, <2>2
<1>2. Max({a, b}) \in {a, b} /\ \A y \in {a, b} : Max({a, b}) >= y
  BY <1>1 DEF Max
<1> QED
  BY <1>2

\* A block is not NULL, and its size is a number.
LEMMA ValidFacts ==
  ASSUME NEW m, NEW brk, NEW B, Valid(m, brk, B), NEW p \in B
  PROVE  p \in Nat /\ p # NULL /\ Size(m, p) \in Nat
<1>1. Tiled(m, brk, B)
  BY DEF Valid, Shape
<1>2. p \in Nat /\ Size(m, p) \in Nat /\ first_block <= p
  BY <1>1, BlockFacts
<1>3. first_block \in Nat /\ first_block >= 16
  BY Heads
<1> QED
  BY <1>2, <1>3 DEF NULL

\* A free block is found or made, and taken; or nothing changes.
LEMMA Serve ==
  ASSUME NEW m, NEW brk, NEW B, Valid(m, brk, B),
         NEW part \in Nat, part % 8 = 0, part >= 16
  PROVE  LET h == placed(with_fit([mem |-> m, brk |-> brk, bp |-> NULL], part), part)
         IN  \/ h = [mem |-> m, brk |-> brk, bp |-> NULL]
             \/ h.bp # NULL /\ TakenIn(m, B, h.mem, h.brk, h.bp, part)
<1> DEFINE g == [mem |-> m, brk |-> brk, bp |-> NULL]
           w == with_fit(g, part)
           h == placed(w, part)
           fit == find_fit(m, part)
           bytes == Max({part, CHUNKSIZE})
           e == extend_heap(m, brk, bytes)
<1>1. Shape(m, brk, B, FreeSet(m, B))
  BY DEF Valid
<1>2. /\ fit = NULL => w = e
      /\ fit # NULL => w = [mem |-> m, brk |-> brk, bp |-> fit]
  BY DEF with_fit
<1>3. Heap3(e)
  BY DEF extend_heap, Heap3
<1> HIDE DEF w, e, fit
<1>4. /\ w.bp = NULL => h = w
      /\ w.bp # NULL /\ Heap3(w) => h = [mem |-> place(w.mem, w.bp, part), brk |-> w.brk, bp |-> w.bp]
  BY DEF placed, Heap3
<1> HIDE DEF h
<1>5. CASE fit # NULL
  <2>1. fit \in FreeSet(m, B) /\ part <= Size(m, fit)
    BY <1>1, <1>5, FindFit DEF fit
  <2>2. TakenIn(m, B, place(m, fit, part), brk, fit, part)
    BY <2>1, Place
  <2>3. w = [mem |-> m, brk |-> brk, bp |-> fit]
    BY <1>2, <1>5
  <2>4. h = [mem |-> place(m, fit, part), brk |-> brk, bp |-> fit]
    BY <1>4, <1>5, <2>3 DEF Heap3
  <2> QED
    BY <1>5, <2>2, <2>4 DEF h, w
<1>6. CASE fit = NULL
  <2>1. bytes \in Nat /\ bytes % 8 = 0 /\ bytes >= 16 /\ part <= bytes
    BY LargerOf, HeapAssumption DEF DSIZE
  <2> HIDE DEF bytes
  <2>2. w = e
    BY <1>2, <1>6
  <2>3. CASE e = [mem |-> m, brk |-> brk, bp |-> NULL]
    BY <1>4, <2>2, <2>3 DEF h, w
  <2>4. CASE FreeIn(m, B, e.mem, e.brk, e.bp, bytes)
    <3>1. PICK C : /\ Valid(e.mem, e.brk, C) /\ e.bp \in FreeSet(e.mem, C)
                   /\ bytes <= Size(e.mem, e.bp)
                   /\ Taken(e.mem, C) = Taken(m, B) /\ Keep(m, e.mem, Taken(m, B))
      BY <2>4 DEF FreeIn
    <3>2. Size(e.mem, e.bp) \in Nat /\ e.bp # NULL
      <4>1. e.bp \in C
        BY <3>1 DEF FreeSet
      <4> QED
        BY <3>1, <4>1, ValidFacts
    <3>3. part <= Size(e.mem, e.bp) /\ e.bp # NULL
      BY <2>1, <3>1, <3>2
    <3> DEFINE n == place(e.mem, e.bp, part)
    <3>4. TakenIn(e.mem, C, n, e.brk, e.bp, part)
      BY <3>1, <3>3, Place
    <3>5. h = [mem |-> n, brk |-> e.brk, bp |-> e.bp]
      BY <1>3, <1>4, <2>2, <3>3
    <3> HIDE DEF n
    <3>6. PICK D : /\ Valid(n, e.brk, D) /\ e.bp \notin Taken(e.mem, C)
                   /\ Taken(n, D) = Taken(e.mem, C) \cup {e.bp} /\ part <= Size(n, e.bp)
                   /\ Keep(e.mem, n, Taken(e.mem, C))
      BY <3>4 DEF TakenIn
    <3>7. SameTags(m, e.mem, Taken(m, B))
      <4>1. Tiled(m, brk, B) /\ Taken(m, B) \subseteq B
        BY <1>1 DEF Shape, Taken
      <4> QED
        BY <3>1, <4>1, KeepTags
    <3>8. Keep(m, n, Taken(m, B))
      <4>1. Keep(e.mem, n, Taken(m, B))
        BY <3>1, <3>6
      <4> QED
        BY <3>1, <3>7, <4>1, KeepTrans
    <3>9. TakenIn(m, B, n, e.brk, e.bp, part)
      BY <3>1, <3>6, <3>8 DEF TakenIn
    <3> QED
      BY <3>3, <3>5, <3>9 DEF h, w
  <2> QED
    BY <2>1, <2>3, <2>4, ExtendHeap DEF e
<1> QED
  BY <1>5, <1>6

\* memcpy into the payload of a block writes words of the source there.
LEMMA Memcpy ==
  ASSUME NEW m, NEW brk, NEW B, Valid(m, brk, B), NEW to \in B, NEW from \in B,
         NEW len \in Nat, len <= Size(m, to) - 8, len <= Size(m, from)
  PROVE  LET r == memcpy(m, to, from, len)
         IN  /\ r \in [Addr -> Word]
             /\ \A x \in Addr : x < to \/ to + (Size(m, to) - 8) <= x => r[x] = m[x]
             /\ \A x \in Addr : to <= x /\ x < to + len => r[x] = m[x - to + from]
<1> DEFINE r == memcpy(m, to, from, len)
           s == Size(m, from)
           z == Size(m, to)
<1>1. Tiled(m, brk, B) /\ m \in [Addr -> Word]
  BY DEF Valid, Shape
<1>2. /\ to \in Nat /\ to % 8 = 0 /\ z \in Nat
      /\ from \in Nat /\ from % 8 = 0 /\ 8 <= from /\ s \in Nat /\ s % 8 = 0
      /\ from + s <= mem_max_addr
  <2>1. /\ to \in Nat /\ to % 8 = 0 /\ z \in Nat
    BY <1>1, BlockFacts
  <2>2. /\ from \in Nat /\ from % 8 = 0 /\ from \in Addr /\ s \in Nat /\ s % 8 = 0
        /\ from + s <= brk /\ brk \in Nat /\ brk <= mem_max_addr
    BY <1>1, BlockFacts
  <2>3. 8 <= from /\ mem_max_addr \in Nat
    BY <2>2, AddrIs, Heads
  <2> QED
    BY <2>1, <2>2, <2>3
<1> HIDE DEF s, z
<1>3. \A x \in Addr : x \in Int /\ x % 4 = 0
  BY AddrIs DEF WSIZE
<1>4. \A x \in Addr : x \in to .. to + len - 1 => x - to + from \in Addr
  <2> TAKE x \in Addr
  <2> HAVE x \in to .. to + len - 1
  <2> DEFINE y == x - to + from
  <2>1. y \in Int /\ y % 4 = 0
    <3>1. x \in Int /\ x % 4 = 0
      BY <1>3
    <3> QED
      BY <1>2, <3>1
  <2>2. from <= y /\ y < from + len
    BY <1>2, <1>3
  <2>3. len <= s
    BY DEF s
  <2> HIDE DEF y
  <2>4. y + 4 <= from + s
    BY <1>2, <2>1, <2>2, <2>3
  <2>5. mem_max_addr \in Nat
    BY Heads
  <2>6. y \in Addr
    BY <1>2, <2>1, <2>2, <2>4, <2>5, AddrIs DEF WSIZE
  <2> QED
    BY <2>6 DEF y
<1>5. r = [x \in Addr |-> IF x \in to .. to + len - 1 THEN m[x - to + from] ELSE m[x]]
  BY DEF memcpy
<1>6. r \in [Addr -> Word]
  BY <1>1, <1>4, <1>5
<1>7. \A x \in Addr : x < to \/ to + (z - 8) <= x => x \notin to .. to + len - 1
  BY <1>2, <1>3 DEF z
<1>8. \A x \in Addr : to <= x /\ x < to + len => x \in to .. to + len - 1
  BY <1>2, <1>3
<1> HIDE DEF r
<1> QED
  BY <1>5, <1>6, <1>7, <1>8 DEF r, z

\* The outcome of copying `len` bytes of a block into another one and freeing it
CopiedIn(m, B, n, brk, to, from, len) ==
  \E C : /\ Valid(n, brk, C) /\ Taken(n, C) = Taken(m, B) \ {from}
         /\ Keep(m, n, Taken(m, B) \ {to, from}) /\ Size(n, to) = Size(m, to)
         /\ \A x \in Addr : to <= x /\ x < to + len => n[x] = m[x - to + from]

\* mm_realloc copies a block and frees it.
LEMMA CopyAndFree ==
  ASSUME NEW m, NEW brk, NEW B, Valid(m, brk, B),
         NEW to \in Taken(m, B), NEW from \in Taken(m, B), to # from,
         NEW len \in Nat, len <= Size(m, to) - 8, len <= Size(m, from)
  PROVE  CopiedIn(m, B, free(memcpy(m, to, from, len), from), brk, to, from, len)
<1> DEFINE r == memcpy(m, to, from, len)
           n == free(r, from)
           A == Taken(m, B)
<1>0. A \subseteq B /\ to \in B /\ from \in B /\ Tiled(m, brk, B)
  BY DEF Taken, Valid, Shape
<1>1. /\ r \in [Addr -> Word]
      /\ \A x \in Addr : x < to \/ to + (Size(m, to) - 8) <= x => r[x] = m[x]
      /\ \A x \in Addr : to <= x /\ x < to + len => r[x] = m[x - to + from]
  BY <1>0, Memcpy
<1> HIDE DEF r
<1>2. /\ Valid(r, brk, B) /\ Taken(r, B) = A /\ SameTags(m, r, B)
      /\ Keep(m, r, A \ {to})
  BY <1>1, Payload
<1>3. PICK C : /\ Valid(n, brk, C) /\ Taken(n, C) = A \ {from} /\ Keep(r, n, A \ {from})
  <2>1. from \in Taken(r, B)
    BY <1>2
  <2> HIDE DEF A
  <2> QED
    BY <1>2, <2>1, FreeBlock
<1> HIDE DEF n
<1>4. SameTags(r, n, A \ {from})
  <2>1. Tiled(r, brk, B) /\ A \ {from} \subseteq B
    BY <1>0, <1>2 DEF Valid, Shape
  <2> DEFINE K == A \ {from}
  <2>2. Keep(r, n, K) /\ K \subseteq B
    BY <1>3, <2>1
  <2> HIDE DEF K
  <2>3. SameTags(r, n, K)
    BY <2>1, <2>2, KeepTags
  <2> QED
    BY <2>3 DEF K
<1>5. Keep(m, n, A \ {to, from})
  <2> DEFINE K == A \ {to, from}
  <2>1. K \subseteq A \ {to} /\ K \subseteq A \ {from} /\ K \subseteq B
    BY <1>0
  <2> HIDE DEF K
  <2>2. Keep(m, r, K) /\ Keep(r, n, K) /\ SameTags(m, r, K)
    BY <1>2, <1>3, <2>1 DEF Keep, SameTags
  <2>3. Keep(m, n, K)
    BY <2>2, KeepTrans
  <2> QED
    BY <2>3 DEF K
<1>6. Size(r, to) = Size(m, to) /\ Size(n, to) = Size(m, to)
  <2>1. to \in A \ {from}
    OBVIOUS
  <2> QED
    BY <1>0, <1>2, <1>4, <2>1 DEF SameTags
<1>7. ASSUME NEW x \in Addr, to <= x, x < to + len PROVE n[x] = m[x - to + from]
  <2>1. x \in Int /\ to \in Nat /\ Size(m, to) \in Nat
    BY <1>0, BlockFacts, AddrIs
  <2>2. to - 4 <= x /\ x < to + Size(m, to) - 4
    BY <1>7, <2>1
  <2>3. n[x] = r[x]
    <3>1. x < to + Size(r, to) - 4
      BY <1>6, <2>2
    <3> QED
      BY <1>3, <2>2, <3>1 DEF Keep
  <2> QED
    BY <1>1, <1>7, <2>3
<1>8. CopiedIn(m, B, n, brk, to, from, len)
  BY <1>3, <1>5, <1>6, <1>7 DEF CopiedIn
<1> QED
  BY <1>8 DEF n, r

-----------------------------------------------------------------------------
(***************************************************************************)
(* The inductive invariant: some set of blocks tiles the heap, in order     *)
(* with its tags and its lists, and the allocated ones are the client's,    *)
(* each with room for what was asked.                                       *)
(***************************************************************************)
Holds(m, brk, B, f) ==
  /\ Valid(m, brk, B)
  /\ Taken(m, B) = DOMAIN f
  /\ \A p \in DOMAIN f : f[p] \in Request /\ f[p] + 8 <= Size(m, p)

HeapInv ==
  /\ class_listp \in {NULL, mem_start_brk}
  /\ ~Ready => mem = Blank /\ mem_brk = mem_start_brk /\ held = NoBlocks
  /\ Ready => \E B : Holds(mem, mem_brk, B, held)

\* After a call: f is held, and the blocks K have kept their words.
After(h, f, K) == (\E B : Holds(h.mem, h.brk, B, f)) /\ Keep(mem, h.mem, K)

\* Requests are counted in words.
LEMMA RequestIs == \A size \in Request : size \in Nat /\ size % 4 = 0
BY HeapAssumption DEF WSIZE

\* Before mm_malloc looks for a block, the heap is there.
LEMMA HeapIs ==
  ASSUME HeapInv
  PROVE  After(heap, held, DOMAIN held) /\ heap = [mem |-> heap.mem, brk |-> heap.brk, bp |-> NULL]
<1>1. CASE class_listp = NULL
  <2>1. held = NoBlocks /\ DOMAIN held = {}
    BY <1>1 DEF HeapInv, Ready, NoBlocks
  <2>2. mm_init = [mem |-> mm_init.mem, brk |-> mm_init.brk, bp |-> mm_init.bp]
    BY DEF mm_init, extend_heap
  <2>3. heap = [mem |-> mm_init.mem, brk |-> mm_init.brk, bp |-> NULL]
    <3>1. heap = [mm_init EXCEPT !.bp = NULL]
      BY <1>1 DEF heap
    <3> QED
      BY <2>2, <3>1
  <2>4. PICK C : Valid(mm_init.mem, mm_init.brk, C) /\ Taken(mm_init.mem, C) = {}
    BY InitHeap DEF Fresh
  <2>5. Holds(mm_init.mem, mm_init.brk, C, held)
    BY <2>1, <2>4 DEF Holds
  <2>6. Keep(mem, mm_init.mem, DOMAIN held)
    BY <2>1 DEF Keep
  <2> QED
    BY <2>3, <2>5, <2>6 DEF After
<1>2. CASE class_listp # NULL
  <2>1. heap = [mem |-> mem, brk |-> mem_brk, bp |-> NULL]
    BY <1>2 DEF heap
  <2>2. Keep(mem, mem, DOMAIN held)
    BY DEF Keep
  <2>3. \E B : Holds(mem, mem_brk, B, held)
    BY <1>2 DEF HeapInv, Ready
  <2> QED
    BY <2>1, <2>2, <2>3 DEF After
<1> QED
  BY <1>1, <1>2

\* mm_malloc returns a block that the client does not hold, or NULL; the
\* client's blocks keep their words.
LEMMA MallocIs ==
  ASSUME HeapInv, NEW size \in Request
  PROVE  LET h == malloc(size)
         IN  \/ h.bp = NULL /\ After(h, held, DOMAIN held)
             \/ /\ h.bp # NULL /\ h.bp \notin DOMAIN held
                /\ After(h, With(held, h.bp, size), DOMAIN held)
<1> DEFINE h == malloc(size)
           a == asize(size)
           A == DOMAIN held
           m == heap.mem
           brk == heap.brk
<1>1. /\ a \in Nat /\ a % 8 = 0 /\ a >= 16 /\ size + 8 <= a /\ size \in Nat
  BY RequestIs, AsizeIs
<1>2. /\ heap = [mem |-> m, brk |-> brk, bp |-> NULL] /\ heap.bp = NULL
      /\ After(heap, held, A)
  BY HeapIs
<1>3. PICK B : Holds(m, brk, B, held)
  BY <1>2 DEF After
<1>4. Valid(m, brk, B) /\ Taken(m, B) = A /\ Keep(mem, m, A)
  BY <1>2, <1>3 DEF Holds, After
<1>5. CASE size = 0
  BY <1>2, <1>5 DEF malloc
<1>6. CASE size # 0
  <2>1. h = placed(with_fit([mem |-> m, brk |-> brk, bp |-> NULL], a), a)
    BY <1>2, <1>6 DEF malloc
  <2> HIDE DEF h, a, m, brk, A
  <2>2. \/ h = [mem |-> m, brk |-> brk, bp |-> NULL]
        \/ h.bp # NULL /\ TakenIn(m, B, h.mem, h.brk, h.bp, a)
    BY <1>1, <1>4, <2>1, Serve
  <2>3. CASE h = [mem |-> m, brk |-> brk, bp |-> NULL]
    <3>1. h.bp = NULL /\ After(h, held, A)
      BY <1>3, <1>4, <2>3 DEF After
    <3> QED
      BY <3>1 DEF h, A
  <2>4. CASE h.bp # NULL /\ TakenIn(m, B, h.mem, h.brk, h.bp, a)
    <3> DEFINE n == h.mem
               p == h.bp
               f == With(held, p, size)
    <3>1. PICK C : /\ Valid(n, h.brk, C) /\ p \notin Taken(m, B)
                   /\ Taken(n, C) = Taken(m, B) \cup {p} /\ a <= Size(n, p)
                   /\ Keep(m, n, Taken(m, B))
      BY <2>4 DEF TakenIn
    <3> HIDE DEF n, p
    <3>2. p \notin A /\ Taken(n, C) = A \cup {p} /\ Keep(m, n, A)
      BY <1>4, <3>1
    <3>3. /\ DOMAIN f = A \cup {p} /\ f[p] = size
          /\ \A q \in A : f[q] = held[q]
      BY <3>2 DEF A, With
    <3>4. SameTags(m, n, A) /\ SameTags(mem, m, {}) /\ A \subseteq B
      <4>1. A \subseteq B /\ Tiled(m, brk, B)
        BY <1>4 DEF Taken, Valid, Shape
      <4> QED
        BY <3>2, <4>1, KeepTags DEF SameTags
    <3>5. Keep(mem, n, A)
      <4>1. CASE class_listp = NULL
        <5>1. A = {}
          BY <4>1 DEF A, HeapInv, Ready, NoBlocks
        <5> QED
          BY <5>1 DEF Keep
      <4>2. CASE class_listp # NULL
        BY <3>2, <4>2 DEF m, heap
      <4> QED
        BY <4>1, <4>2
    <3> HIDE DEF f
    <3>6. \A q \in DOMAIN f : f[q] \in Request /\ f[q] + 8 <= Size(n, q)
      <4> SUFFICES ASSUME NEW q \in DOMAIN f PROVE f[q] \in Request /\ f[q] + 8 <= Size(n, q)
        OBVIOUS
      <4>1. CASE q = p
        <5>1. Size(n, p) \in Nat
          BY <3>1, <3>2, ValidFacts DEF Taken
        <5> QED
          BY <1>1, <3>1, <3>3, <4>1, <5>1
      <4>2. CASE q \in A
        BY <1>3, <3>3, <3>4, <4>2 DEF Holds, SameTags, A
      <4> QED
        BY <3>3, <4>1, <4>2
    <3>7. Holds(n, h.brk, C, f)
      BY <3>1, <3>2, <3>3, <3>6 DEF Holds
    <3>8. After(h, f, A)
      BY <3>5, <3>7 DEF After, n
    <3> QED
      BY <2>4, <3>2, <3>8 DEF h, f, p, A
  <2> QED
    BY <2>2, <2>3, <2>4
<1> QED
  BY <1>5, <1>6

Others(ptr) == Restrict(held, DOMAIN held \ {ptr})

\* The blocks of the client but one
LEMMA OthersIs ==
  ASSUME NEW ptr
  PROVE  /\ DOMAIN Others(ptr) = DOMAIN held \ {ptr}
         /\ \A p \in DOMAIN held \ {ptr} : Others(ptr)[p] = held[p]
BY DEF Others, Restrict

\* A block that keeps its words keeps its size.
LEMMA HeldKept ==
  ASSUME NEW m, NEW brk, NEW B, NEW f, Holds(m, brk, B, f), NEW n, NEW K, K \subseteq DOMAIN f,
         Keep(m, n, K)
  PROVE  \A p \in K : f[p] \in Request /\ f[p] + 8 <= Size(n, p) /\ Size(n, p) = Size(m, p)
<1>1. Tiled(m, brk, B) /\ K \subseteq B
  BY DEF Holds, Valid, Shape, Taken
<1>2. SameTags(m, n, K)
  BY <1>1, KeepTags
<1> QED
  BY <1>2 DEF Holds, SameTags

\* mm_free gives back one block, and the others keep their words.
LEMMA FreeIs ==
  ASSUME HeapInv, NEW bp \in DOMAIN held
  PROVE  /\ Ready
         /\ After([mem |-> free(mem, bp), brk |-> mem_brk], Others(bp), DOMAIN held \ {bp})
<1> DEFINE n == free(mem, bp)
           K == DOMAIN held \ {bp}
<1>1. Ready
  BY DEF HeapInv, NoBlocks
<1>2. PICK B : Holds(mem, mem_brk, B, held)
  BY <1>1 DEF HeapInv
<1>3. Valid(mem, mem_brk, B) /\ Taken(mem, B) = DOMAIN held
  BY <1>2 DEF Holds
<1>4. PICK C : Valid(n, mem_brk, C) /\ Taken(n, C) = K /\ Keep(mem, n, K)
  <2>1. bp \in Taken(mem, B)
    BY <1>3
  <2>2. \E C : /\ Valid(n, mem_brk, C) /\ Taken(n, C) = Taken(mem, B) \ {bp}
               /\ Keep(mem, n, Taken(mem, B) \ {bp})
    BY <1>3, <2>1, FreeBlock
  <2> QED
    BY <1>3, <2>2
<1> HIDE DEF n
<1>5. \A p \in K : held[p] \in Request /\ held[p] + 8 <= Size(n, p)
  <2>1. K \subseteq DOMAIN held
    OBVIOUS
  <2> HIDE DEF K
  <2> QED
    BY <1>2, <1>4, <2>1, HeldKept
<1>6. Holds(n, mem_brk, C, Others(bp))
  BY <1>4, <1>5, OthersIs DEF Holds
<1> QED
  BY <1>1, <1>4, <1>6 DEF After, n

\* The client writes into one block, and the others keep their words.
Written(bp) == [p \in Addr |-> IF p \in bp .. bp + held[bp] - 1 THEN Data(bp) ELSE mem[p]]

\* Such a write keeps the heap in order.
LEMMA WriteIs ==
  ASSUME HeapInv, NEW bp \in DOMAIN held
  PROVE  /\ Ready
         /\ After([mem |-> Written(bp), brk |-> mem_brk], held, DOMAIN held \ {bp})
<1> DEFINE n == Written(bp)
           K == DOMAIN held \ {bp}
           z == Size(mem, bp)
<1>1. Ready
  BY DEF HeapInv, NoBlocks
<1>2. PICK B : Holds(mem, mem_brk, B, held)
  BY <1>1 DEF HeapInv
<1>3. Valid(mem, mem_brk, B) /\ Taken(mem, B) = DOMAIN held
  BY <1>2 DEF Holds
<1>4. /\ mem \in [Addr -> Word] /\ bp \in B /\ Tiled(mem, mem_brk, B)
      /\ held[bp] \in Nat /\ held[bp] + 8 <= z
  BY <1>2, <1>3, RequestIs DEF Valid, Shape, Taken, Holds
<1>5. bp \in Addr /\ bp \in Nat /\ z \in Nat
  BY <1>4, BlockFacts
<1>6. n \in [Addr -> Word]
  BY <1>4, <1>5 DEF Written, Word, Data
<1>7. \A x \in Addr : x < bp \/ bp + (z - 8) <= x => n[x] = mem[x]
  <2> TAKE x \in Addr
  <2> HAVE x < bp \/ bp + (z - 8) <= x
  <2>1. x \in Int
    BY AddrIs
  <2>2. x \notin bp .. bp + held[bp] - 1
    BY <1>4, <1>5, <2>1
  <2> QED
    BY <2>2 DEF Written
<1> HIDE DEF n
<1>8. /\ Valid(n, mem_brk, B) /\ Taken(n, B) = DOMAIN held /\ SameTags(mem, n, B)
      /\ Keep(mem, n, K)
  <2>1. bp \in Taken(mem, B)
    BY <1>3
  <2>2. /\ Valid(n, mem_brk, B) /\ Taken(n, B) = Taken(mem, B) /\ SameTags(mem, n, B)
        /\ Keep(mem, n, Taken(mem, B) \ {bp})
    BY <1>3, <1>6, <1>7, <2>1, Payload
  <2> QED
    BY <1>3, <2>2
<1>9. \A p \in DOMAIN held : held[p] \in Request /\ held[p] + 8 <= Size(n, p)
  BY <1>2, <1>3, <1>8 DEF Holds, SameTags, Taken
<1>10. Holds(n, mem_brk, B, held)
  BY <1>8, <1>9 DEF Holds
<1> QED
  BY <1>1, <1>8, <1>10 DEF After, n

\* Min of two numbers
LEMMA SmallerOf ==
  ASSUME NEW a \in Nat, NEW b \in Nat
  PROVE  Min({a, b}) \in Nat /\ Min({a, b}) <= a /\ Min({a, b}) <= b
         /\ Min({a, b}) \in {a, b}
<1>1. \E x \in {a, b} : \A y \in {a, b} : x <= y
  <2>1. CASE a <= b
    BY <2>1
  <2>2. CASE b <= a
    BY <2>2
  <2> QED
    BY <2>1, <2>2
<1>2. Min({a, b}) \in {a, b} /\ \A y \in {a, b} : Min({a, b}) <= y
  BY <1>1 DEF Min
<1> QED
  BY <1>2

\* What two steps keep, from a state of the program on
LEMMA KeptByBoth ==
  ASSUME HeapInv, NEW m, NEW n, NEW K, K \subseteq DOMAIN held, Keep(mem, m, K)
  PROVE  SameTags(mem, m, K) /\ (Keep(m, n, K) => Keep(mem, n, K))
<1>1. CASE DOMAIN held = {}
  BY <1>1 DEF Keep, SameTags
<1>2. CASE DOMAIN held # {}
  <2>1. Ready
    BY <1>2 DEF HeapInv, NoBlocks
  <2>2. PICK B : Holds(mem, mem_brk, B, held)
    BY <2>1 DEF HeapInv
  <2>3. Tiled(mem, mem_brk, B) /\ K \subseteq B
    BY <2>2 DEF Holds, Valid, Shape, Taken
  <2>4. SameTags(mem, m, K)
    BY <2>3, KeepTags
  <2> QED
    BY <2>4, KeepTrans
<1> QED
  BY <1>1, <1>2

\* mm_realloc moves the words of the block, and gives the old one back; or it
\* returns NULL and leaves all blocks.
LEMMA MoveIs ==
  ASSUME HeapInv, NEW ptr \in DOMAIN held, NEW size \in Request
  PROVE  LET h == move(malloc(size), ptr, size)
         IN  \/ h.bp = NULL /\ After(h, held, DOMAIN held)
             \/ /\ h.bp # NULL /\ h.bp \notin DOMAIN held
                /\ After(h, With(Others(ptr), h.bp, size), DOMAIN held \ {ptr})
                /\ \A x \in Addr : h.bp <= x /\ x < h.bp + size /\ x < h.bp + held[ptr]
                                     => h.mem[x] = mem[x - h.bp + ptr]
<1> DEFINE g == malloc(size)
           h == move(g, ptr, size)
           A == DOMAIN held
           to == g.bp
           m == g.mem
           brk == g.brk
           len == Min({size, Size(m, ptr)})
           n == free(memcpy(m, to, ptr, len), ptr)
<1>1. \/ to = NULL /\ After(g, held, A)
      \/ to # NULL /\ to \notin A /\ After(g, With(held, to, size), A)
  BY MallocIs
<1>2. CASE to = NULL
  <2>1. h = g
    BY <1>2 DEF move
  <2> QED
    BY <1>1, <1>2, <2>1
<1>3. CASE to # NULL
  <2>1. to \notin A /\ After(g, With(held, to, size), A)
    BY <1>1, <1>3
  <2>2. PICK B : Holds(m, brk, B, With(held, to, size))
    BY <2>1 DEF After
  <2>3. Keep(mem, m, A)
    BY <2>1 DEF After
  <2>4. g = [mem |-> m, brk |-> brk, bp |-> to]
    <3>1. heap = [mem |-> heap.mem, brk |-> heap.brk, bp |-> NULL]
      BY HeapIs
    <3>2. \A a : Heap3(with_fit(heap, a))
      BY <3>1 DEF with_fit, extend_heap, Heap3
    <3>3. \A w, a : Heap3(w) => Heap3(placed(w, a))
      BY DEF placed, Heap3
    <3> QED
      BY <3>1, <3>2, <3>3 DEF malloc, Heap3
  <2>5. h = [mem |-> n, brk |-> brk, bp |-> to]
    <3>1. h = [g EXCEPT !.mem = n]
      BY <1>3 DEF move, Size
    <3> HIDE DEF n, m, brk, to, g, h
    <3> QED
      BY <2>4, <3>1
  <2> HIDE DEF g, h, n, to, m, brk
  <2>6. /\ Valid(m, brk, B) /\ Taken(m, B) = A \cup {to}
        /\ size \in Request /\ size + 8 <= Size(m, to)
        /\ \A p \in A : held[p] \in Request /\ held[p] + 8 <= Size(m, p)
    BY <2>1, <2>2 DEF Holds, With
  <2>7. size \in Nat /\ held[ptr] \in Nat /\ held[ptr] + 8 <= Size(m, ptr)
    BY <2>6, RequestIs
  <2>8. /\ ptr \in B /\ to \in B /\ Tiled(m, brk, B)
        /\ ptr \in Nat /\ to \in Nat /\ to % 8 = 0 /\ ptr % 8 = 0
        /\ Size(m, ptr) \in Nat /\ Size(m, to) \in Nat /\ ptr + Size(m, ptr) <= mem_max_addr
        /\ ptr \in Addr
    <3>1. ptr \in B /\ to \in B /\ Tiled(m, brk, B)
      BY <2>6 DEF Taken, Valid, Shape
    <3>2. /\ to \in Nat /\ to % 8 = 0 /\ Size(m, to) \in Nat
      BY <3>1, BlockFacts
    <3>3. /\ ptr \in Nat /\ ptr % 8 = 0 /\ Size(m, ptr) \in Nat /\ ptr \in Addr
          /\ ptr + Size(m, ptr) <= brk /\ brk \in Nat /\ brk <= mem_max_addr
      BY <3>1, BlockFacts
    <3>4. mem_max_addr \in Nat
      BY Heads
    <3> QED
      BY <3>1, <3>2, <3>3, <3>4
  <2>9. len \in Nat /\ len <= size /\ len <= Size(m, ptr) /\ len \in {size, Size(m, ptr)}
    BY <2>7, <2>8, SmallerOf
  <2>10. len <= Size(m, to) - 8
    BY <2>6, <2>7, <2>8, <2>9
  <2> HIDE DEF len
  <2>11. PICK C : /\ Valid(n, brk, C) /\ Taken(n, C) = (A \cup {to}) \ {ptr}
                  /\ Keep(m, n, (A \cup {to}) \ {to, ptr}) /\ Size(n, to) = Size(m, to)
                  /\ \A x \in Addr : to <= x /\ x < to + len => n[x] = m[x - to + ptr]
    <3>1. to \in Taken(m, B) /\ ptr \in Taken(m, B) /\ to # ptr
      BY <2>1, <2>6
    <3>2. CopiedIn(m, B, n, brk, to, ptr, len)
      BY <2>6, <2>9, <2>10, <3>1, CopyAndFree DEF n
    <3> QED
      BY <2>6, <3>2 DEF CopiedIn
  <2> DEFINE K == A \ {ptr}
             f == With(Others(ptr), to, size)
  <2>12. Keep(m, n, K)
    <3>1. (A \cup {to}) \ {to, ptr} = K
      BY <2>1
    <3> QED
      BY <2>11, <3>1
  <2>13. DOMAIN f = K \cup {to} /\ f[to] = size /\ \A p \in K : f[p] = held[p]
    BY <2>1, OthersIs DEF With
  <2>14. Taken(n, C) = DOMAIN f
    BY <2>1, <2>11, <2>13
  <2>15. Keep(mem, n, K)
    <3>1. Keep(mem, m, K) /\ K \subseteq DOMAIN held
      BY <2>3 DEF Keep
    <3> HIDE DEF K
    <3> QED
      BY <2>12, <3>1, KeptByBoth
  <2>16. \A p \in DOMAIN f : f[p] \in Request /\ f[p] + 8 <= Size(n, p)
    <3>1. \A p \in K : Size(n, p) = Size(m, p)
      <4>1. K \subseteq DOMAIN With(held, to, size)
        BY DEF With
      <4> HIDE DEF K
      <4> QED
        BY <2>2, <2>12, <4>1, HeldKept
    <3> QED
      BY <2>6, <2>11, <2>13, <3>1
  <2> HIDE DEF f, K
  <2>17. Holds(n, brk, C, f)
    BY <2>11, <2>14, <2>16 DEF Holds
  <2>18. After(h, f, K)
    BY <2>5, <2>15, <2>17 DEF After
  <2>19. \A x \in Addr : to <= x /\ x < to + size /\ x < to + held[ptr]
                           => n[x] = mem[x - to + ptr]
    <3> SUFFICES ASSUME NEW x \in Addr, to <= x, x < to + size, x < to + held[ptr]
                 PROVE  n[x] = mem[x - to + ptr]
      OBVIOUS
    <3> DEFINE y == x - to + ptr
    <3>1. x \in Int /\ x % 4 = 0
      BY AddrIs DEF WSIZE
    <3>2. x < to + len
      <4>1. held[ptr] <= Size(m, ptr)
        BY <2>7, <2>8
      <4> QED
        BY <2>7, <2>8, <2>9, <3>1, <4>1
    <3>3. n[x] = m[y]
      BY <2>11, <3>2
    <3>4. y \in Int /\ y % 4 = 0 /\ ptr <= y /\ y < ptr + held[ptr]
      <4>1. y \in Int /\ ptr <= y /\ y < ptr + held[ptr]
        BY <2>7, <2>8, <3>1
      <4>2. to % 4 = 0 /\ ptr % 4 = 0 /\ to \in Int /\ ptr \in Int
        BY <2>8
      <4>3. y % 4 = 0
        BY <3>1, <4>2
      <4> QED
        BY <4>1, <4>3
    <3> HIDE DEF y
    <3>5. y + 8 <= ptr + Size(m, ptr) + 4
      BY <2>6, <2>7, <2>8, <3>4
    <3>6. y \in Addr
      <4>1. 8 <= ptr /\ mem_max_addr \in Nat
        BY <2>8, AddrIs, Heads
      <4>2. held[ptr] + 8 <= Size(m, ptr)
        BY <2>6
      <4>3. 8 <= y /\ y + 4 <= mem_max_addr
        BY <2>7, <2>8, <3>4, <4>1, <4>2
      <4> QED
        BY <3>4, <4>3, AddrIs DEF WSIZE
    <3>7. m[y] = mem[y]
      <4>1. Size(mem, ptr) = Size(m, ptr)
        BY <2>3, KeptByBoth DEF SameTags
      <4>2. ptr - 4 <= y /\ y < ptr + Size(mem, ptr) - 4
        BY <2>6, <2>7, <2>8, <3>4, <4>1
      <4> QED
        BY <2>3, <3>6, <4>2 DEF Keep
    <3> QED
      BY <3>3, <3>7 DEF y
  <2>20. h.bp = to /\ h.mem = n
    BY <2>5
  <2> QED
    BY <1>3, <2>1, <2>18, <2>19, <2>20 DEF h, g, f, K
<1> QED
  BY <1>2, <1>3

-----------------------------------------------------------------------------
(***************************************************************************)
(* The invariant holds.                                                     *)
(***************************************************************************)

\* What each call does to a heap in order, for the invariant and the promise
Reset  == held' = NoBlocks
Failed == held' = held /\ Keep(mem, mem', DOMAIN held)

Allocates(size) ==
  \E bp : /\ bp \notin DOMAIN held
          /\ held' = With(held, bp, size)
          /\ Keep(mem, mem', DOMAIN held)

Frees(bp) ==
  /\ held' = Others(bp)
  /\ Keep(mem, mem', DOMAIN held \ {bp})

Moves(ptr, size) ==
  \E bp : /\ bp \notin DOMAIN held
          /\ held' = With(Others(ptr), bp, size)
          /\ Keep(mem, mem', DOMAIN held \ {ptr})
          /\ \A x \in Addr : bp <= x /\ x < bp + size /\ x < bp + held[ptr]
                               => mem'[x] = mem[x - bp + ptr]

Writes(bp) ==
  /\ held' = held
  /\ Keep(mem, mem', DOMAIN held \ {bp})

Call ==
  \/ Reset
  \/ Failed
  \/ \E size \in Request : Allocates(size)
  \/ \E bp \in DOMAIN held : Frees(bp) \/ Writes(bp)
  \/ \E ptr \in DOMAIN held, size \in Request : Moves(ptr, size)

\* A call that leaves a heap in order establishes the invariant.
LEMMA ReadyHeap ==
  ASSUME NEW h, NEW f, NEW K, After(h, f, K), mem' = h.mem, mem_brk' = h.brk,
         class_listp' = mem_start_brk, held' = f
  PROVE  HeapInv' /\ Keep(mem, mem', K)
<1>1. class_listp' # NULL
  BY DEF mem_start_brk, DSIZE, NULL
<1> QED
  BY <1>1 DEF After, HeapInv, Ready

\* Every call keeps the invariant, and does one of the things above.
LEMMA CallIs == HeapInv /\ Next => HeapInv' /\ Call
<1> SUFFICES ASSUME HeapInv, Next PROVE HeapInv' /\ Call
  OBVIOUS
<1>1. CASE MmInit
  <2>1. PICK C : Valid(mm_init.mem, mm_init.brk, C) /\ Taken(mm_init.mem, C) = {}
    BY InitHeap DEF Fresh
  <2>2. DOMAIN NoBlocks = {}
    BY DEF NoBlocks
  <2>3. Holds(mm_init.mem, mm_init.brk, C, NoBlocks) /\ Keep(mem, mm_init.mem, {})
    BY <2>1, <2>2 DEF Holds, Keep
  <2>4. After(mm_init, NoBlocks, {})
    BY <2>3 DEF After
  <2> QED
    BY <1>1, <2>4, ReadyHeap DEF MmInit, Call, Reset
<1>2. ASSUME NEW size \in Request, mm_malloc(size) PROVE HeapInv' /\ Call
  <2> DEFINE h == malloc(size)
  <2>1. \/ h.bp = NULL /\ After(h, held, DOMAIN held)
        \/ /\ h.bp # NULL /\ h.bp \notin DOMAIN held
           /\ After(h, With(held, h.bp, size), DOMAIN held)
    BY MallocIs
  <2>2. /\ mem' = h.mem /\ mem_brk' = h.brk /\ class_listp' = mem_start_brk
        /\ held' = IF h.bp = NULL THEN held ELSE With(held, h.bp, size)
    BY <1>2 DEF mm_malloc, Returns
  <2> HIDE DEF h
  <2>3. CASE h.bp = NULL
    <3>1. HeapInv' /\ Keep(mem, mem', DOMAIN held)
      BY <2>1, <2>2, <2>3, ReadyHeap
    <3> QED
      BY <2>2, <2>3, <3>1 DEF Call, Failed
  <2>4. CASE h.bp # NULL
    <3>1. HeapInv' /\ Keep(mem, mem', DOMAIN held)
      BY <2>1, <2>2, <2>4, ReadyHeap
    <3>2. Allocates(size)
      BY <2>1, <2>2, <2>4, <3>1 DEF Allocates
    <3> QED
      BY <3>1, <3>2 DEF Call
  <2> QED
    BY <2>3, <2>4
<1>3. ASSUME NEW bp \in DOMAIN held, mm_free(bp) PROVE HeapInv' /\ Call
  <2> DEFINE h == [mem |-> free(mem, bp), brk |-> mem_brk]
             K == DOMAIN held \ {bp}
  <2>1. Ready /\ After(h, Others(bp), K)
    BY FreeIs
  <2>2. /\ mem' = h.mem /\ mem_brk' = h.brk /\ class_listp' = mem_start_brk
        /\ held' = Others(bp)
    BY <1>3, <2>1 DEF mm_free, Others, HeapInv, Ready
  <2> HIDE DEF h, K
  <2>3. HeapInv' /\ Keep(mem, mem', K)
    BY <2>1, <2>2, ReadyHeap
  <2> QED
    BY <2>2, <2>3 DEF Call, Frees, K
<1>4. ASSUME NEW bp \in DOMAIN held, Write(bp) PROVE HeapInv' /\ Call
  <2> DEFINE h == [mem |-> Written(bp), brk |-> mem_brk]
             K == DOMAIN held \ {bp}
  <2>1. Ready /\ After(h, held, K)
    BY WriteIs
  <2>2. /\ mem' = h.mem /\ mem_brk' = h.brk /\ class_listp' = mem_start_brk
        /\ held' = held
    BY <1>4, <2>1 DEF Write, Written, HeapInv, Ready
  <2> HIDE DEF h, K
  <2>3. HeapInv' /\ Keep(mem, mem', K)
    BY <2>1, <2>2, ReadyHeap
  <2> QED
    BY <2>2, <2>3 DEF Call, Writes, K
<1>5. ASSUME NEW ptr \in DOMAIN held, NEW size \in Request, mm_realloc(ptr, size)
      PROVE  HeapInv' /\ Call
  <2> DEFINE h == move(malloc(size), ptr, size)
             K == DOMAIN held \ {ptr}
  <2>1. \/ h.bp = NULL /\ After(h, held, DOMAIN held)
        \/ /\ h.bp # NULL /\ h.bp \notin DOMAIN held
           /\ After(h, With(Others(ptr), h.bp, size), K)
           /\ \A x \in Addr : h.bp <= x /\ x < h.bp + size /\ x < h.bp + held[ptr]
                                => h.mem[x] = mem[x - h.bp + ptr]
    BY MoveIs
  <2>2. /\ mem' = h.mem /\ mem_brk' = h.brk /\ class_listp' = mem_start_brk
        /\ held' = IF h.bp = NULL THEN held ELSE With(Others(ptr), h.bp, size)
    BY <1>5 DEF mm_realloc, Returns, Others
  <2> HIDE DEF h, K
  <2>3. CASE h.bp = NULL
    <3>1. HeapInv' /\ Keep(mem, mem', DOMAIN held)
      BY <2>1, <2>2, <2>3, ReadyHeap
    <3> QED
      BY <2>2, <2>3, <3>1 DEF Call, Failed
  <2>4. CASE h.bp # NULL
    <3>1. HeapInv' /\ Keep(mem, mem', K)
      BY <2>1, <2>2, <2>4, ReadyHeap
    <3>2. Moves(ptr, size)
      <4>1. \A x \in Addr : h.bp <= x /\ x < h.bp + size /\ x < h.bp + held[ptr]
                              => mem'[x] = mem[x - h.bp + ptr]
        BY <2>1, <2>2, <2>4
      <4> QED
        BY <2>1, <2>2, <2>4, <3>1, <4>1 DEF Moves, K
    <3> QED
      BY <3>1, <3>2 DEF Call
  <2> QED
    BY <2>3, <2>4
<1> QED
  BY <1>1, <1>2, <1>3, <1>4, <1>5 DEF Next

\* The invariant holds before mm_init.
LEMMA HeapInvStart == Init => HeapInv
BY DEF Init, HeapInv, Ready, Blank, NoBlocks, NULL

\* Every step keeps the invariant.
LEMMA HeapInvStep == HeapInv /\ [Next]_vars => HeapInv'
<1>1. HeapInv /\ UNCHANGED vars => HeapInv'
  BY DEF HeapInv, Ready, Blank, vars, Holds
<1> QED
  BY <1>1, CallIs

\* In every reachable state the blocks tile the heap, the lists hold the free
\* ones, and the others are the client's.
THEOREM HeapInvariant == Spec => []HeapInv
BY HeapInvStart, HeapInvStep, PTL DEF Spec

-----------------------------------------------------------------------------
(***************************************************************************)
(* The walk over the headers meets the blocks of the invariant, and only    *)
(* them.                                                                    *)
(***************************************************************************)

\* A step of the walk goes on by the size of a block.
LEMMA StepAhead ==
  ASSUME mem \in [Addr -> Word], mem_brk \in first_block .. mem_max_addr,
         NEW p, WellFormed(p)
  PROVE  /\ p \in Nat /\ SizeAt(p) \in Nat /\ SizeAt(p) >= 16 /\ p + SizeAt(p) <= mem_brk
         /\ p - 4 \in Addr /\ mem[p - 4] \in Tag
<1>1. /\ first_block \in Nat /\ first_block >= 16 /\ mem_max_addr \in Nat /\ mem_brk \in Nat
      /\ mem_brk <= mem_max_addr
  BY Heads
<1>2. /\ p \in first_block .. mem_brk - 16 /\ p % 8 = 0 /\ "size" \in DOMAIN mem[p - 4]
      /\ SizeAt(p) >= 16 /\ p + SizeAt(p) <= mem_brk
  BY DEF WellFormed, IsTag, HDRP, WSIZE, DSIZE
<1>3. p \in Nat /\ p - 4 \in Addr
  <2>1. /\ p \in Nat /\ p - 4 \in Int /\ (p - 4) % 4 = 0 /\ 8 <= p - 4 /\ p - 4 + 4 <= mem_max_addr
    BY <1>1, <1>2
  <2> QED
    BY <2>1, AddrIs DEF WSIZE
<1>4. mem[p - 4] \in Tag
  <2>1. mem[p - 4] \in Word
    BY <1>3
  <2> QED
    BY <1>2, <2>1 DEF Word, Tag, Junk
<1>5. SizeAt(p) \in Nat
  BY <1>4, HeapAssumption DEF Tag, SizeAt, GET_SIZE, HDRP, WSIZE
<1> QED
  BY <1>2, <1>3, <1>4, <1>5

\* f is the walk from each of the last k + 1 addresses.
WalkFrom(f, k) ==
  f = [p \in mem_brk - k .. mem_brk |->
         IF WellFormed(p) THEN {p} \cup f[p + SizeAt(p)] ELSE {p}]

\* There is such a walk from every address, as the definition of Walk needs.
LEMMA WalkFromExists ==
  ASSUME mem \in [Addr -> Word], mem_brk \in first_block .. mem_max_addr, NEW N \in Nat
  PROVE  \E f : WalkFrom(f, N)
<1> DEFINE Bad == {k \in 0 .. N : ~ \E f : WalkFrom(f, k)}
           brk == mem_brk
<1>0. brk \in Nat
  BY Heads
<1> SUFFICES ASSUME Bad # {} PROVE FALSE
  OBVIOUS
<1>1. PICK k \in Bad : \A j \in Bad : k <= j
  <2>1. Bad \subseteq Nat
    OBVIOUS
  <2> QED
    BY <2>1, MinOfNats
<1>2. CASE k = 0
  <2> DEFINE f == [p \in brk - 0 .. brk |-> {p}]
  <2>1. \A p \in brk - 0 .. brk : ~WellFormed(p)
    BY <1>0 DEF WellFormed, DSIZE
  <2>2. \A p \in brk - 0 .. brk : f[p] = IF WellFormed(p) THEN {p} \cup f[p + SizeAt(p)] ELSE {p}
    BY <2>1
  <2>3. f = [p \in brk - 0 .. brk |-> f[p]]
    OBVIOUS
  <2> HIDE DEF f
  <2>4. WalkFrom(f, k)
    BY <1>2, <2>2, <2>3, Zenon DEF WalkFrom
  <2> QED
    BY <2>4
<1>3. CASE k # 0
  <2>1. k - 1 \in 0 .. N /\ k - 1 \notin Bad /\ k \in 1 .. N
    <3>1. k \in 1 .. N /\ ~(k <= k - 1) /\ k - 1 \in 0 .. N
      BY <1>3
    <3> QED
      BY <1>1, <3>1
  <2>2. PICK g : WalkFrom(g, k - 1)
    BY <2>1
  <2> DEFINE D == brk - k .. brk
             E == brk - (k - 1) .. brk
             q == brk - k
             f == [p \in D |-> IF p = q THEN IF WellFormed(q) THEN {q} \cup g[q + SizeAt(q)] ELSE {q}
                               ELSE g[p]]
  <2>3. /\ q \in D /\ q \notin E /\ D = E \cup {q}
        /\ \A p \in D : WellFormed(p) => p + SizeAt(p) \in E
    <3>1. q \in D /\ q \notin E /\ D = E \cup {q}
      BY <1>0, <2>1
    <3>2. ASSUME NEW p \in D, WellFormed(p) PROVE p + SizeAt(p) \in E
      <4>1. SizeAt(p) \in Nat /\ SizeAt(p) >= 16 /\ p + SizeAt(p) <= brk
        BY <3>2, StepAhead
      <4> QED
        BY <1>0, <2>1, <4>1
    <3> QED
      BY <3>1, <3>2
  <2>4. g = [p \in E |-> IF WellFormed(p) THEN {p} \cup g[p + SizeAt(p)] ELSE {p}]
    BY <2>2, Zenon DEF WalkFrom
  <2> HIDE DEF D, E, q
  <2>5. \A p \in E : g[p] = IF WellFormed(p) THEN {p} \cup g[p + SizeAt(p)] ELSE {p}
    BY <2>4, Zenon
  <2>6. \A p \in E : p \in D /\ f[p] = g[p]
    BY <2>3
  <2>7. f[q] = IF WellFormed(q) THEN {q} \cup g[q + SizeAt(q)] ELSE {q}
    BY <2>3
  <2>8. f = [p \in D |-> f[p]]
    OBVIOUS
  <2> HIDE DEF f
  <2>9. ASSUME NEW p \in D
        PROVE  f[p] = IF WellFormed(p) THEN {p} \cup f[p + SizeAt(p)] ELSE {p}
    <3>1. WellFormed(p) => f[p + SizeAt(p)] = g[p + SizeAt(p)]
      BY <2>3, <2>6
    <3>2. CASE p = q
      BY <2>7, <3>1, <3>2
    <3>3. CASE p \in E
      BY <2>5, <2>6, <3>1, <3>3
    <3> QED
      BY <2>3, <3>2, <3>3
  <2>10. WalkFrom(f, k)
    BY <2>8, <2>9, Zenon DEF WalkFrom, D
  <2> QED
    BY <2>10
<1> QED
  BY <1>2, <1>3

\* A block of the invariant is one that the walk accepts.
LEMMA BlockWellFormed ==
  ASSUME NEW B, Tiled(mem, mem_brk, B), NEW p \in B
  PROVE  /\ WellFormed(p) /\ p \in first_block .. mem_brk /\ p \in Nat
         /\ SizeAt(p) = Size(mem, p) /\ SizeAt(p) \in Nat /\ SizeAt(p) >= 16
         /\ p + SizeAt(p) \in B \cup {mem_brk} /\ p + SizeAt(p) <= mem_brk
<1>1. /\ p \in Nat /\ p % 8 = 0 /\ first_block <= p
      /\ Size(mem, p) \in Nat /\ Size(mem, p) >= 16 /\ Size(mem, p) % 8 = 0
      /\ mem_brk \in Nat /\ p + Size(mem, p) <= mem_brk /\ p + Size(mem, p) \in B \cup {mem_brk}
      /\ mem[p - 4] \in Tag /\ mem[p + Size(mem, p) - 8] = mem[p - 4]
  BY BlockFacts
<1>2. SizeAt(p) = Size(mem, p) /\ first_block \in Nat
  BY Heads DEF SizeAt, Size
<1>3. "size" \in DOMAIN mem[HDRP(p)]
  BY <1>1 DEF Tag, HDRP, WSIZE
<1>4. p \in first_block .. mem_brk - 16 /\ p \in first_block .. mem_brk
  BY <1>1, <1>2
<1>5. mem[FTRP(mem, p)] = mem[HDRP(p)]
  BY <1>1 DEF FTRP, HDRP, WSIZE, DSIZE, Size
<1>6. WellFormed(p)
  BY <1>1, <1>2, <1>3, <1>4, <1>5 DEF WellFormed, IsTag, DSIZE
<1> QED
  BY <1>1, <1>2, <1>4, <1>6

\* The walk visits the blocks of the invariant and the end of the heap.
LEMMA WalkIs ==
  ASSUME NEW B, Holds(mem, mem_brk, B, held)
  PROVE  Walk = B \cup {mem_brk}
<1> DEFINE brk == mem_brk
           D == first_block .. brk
           f == CHOOSE f : f = [p \in D |-> IF WellFormed(p) THEN {p} \cup f[p + SizeAt(p)] ELSE {p}]
           A == B \cup {brk}
           Rest(p) == {q \in A : p <= q}
<1>1. /\ mem \in [Addr -> Word] /\ Tiled(mem, brk, B)
      /\ brk \in first_block .. mem_max_addr /\ first_block \in A
  BY DEF Holds, Valid, Shape, Tiled
<1>2. first_block \in Nat /\ first_block >= 16 /\ mem_max_addr \in Nat /\ brk \in Nat /\ first_block <= brk
  BY <1>1, Heads
<1>3. Walk = f[first_block]
  BY DEF Walk
<1>4. \E g : g = [p \in D |-> IF WellFormed(p) THEN {p} \cup g[p + SizeAt(p)] ELSE {p}]
  <2> DEFINE N == brk - first_block
  <2>1. N \in Nat /\ brk - N = first_block
    BY <1>2
  <2> HIDE DEF N
  <2>2. PICK g : WalkFrom(g, N)
    BY <1>1, <2>1, WalkFromExists
  <2>3. g = [p \in D |-> IF WellFormed(p) THEN {p} \cup g[p + SizeAt(p)] ELSE {p}]
    BY <2>1, <2>2, Zenon DEF WalkFrom
  <2> QED
    BY <2>3, Zenon
<1>5. f = [p \in D |-> IF WellFormed(p) THEN {p} \cup f[p + SizeAt(p)] ELSE {p}]
  BY <1>4, Zenon
<1> HIDE DEF f
<1>6. \A p \in D : f[p] = IF WellFormed(p) THEN {p} \cup f[p + SizeAt(p)] ELSE {p}
  BY <1>5, Zenon
<1>7. ~WellFormed(brk)
  BY <1>2 DEF WellFormed, DSIZE
<1>8. \A p \in B : /\ WellFormed(p) /\ p \in D /\ p \in Nat
                   /\ SizeAt(p) = Size(mem, p) /\ SizeAt(p) \in Nat /\ SizeAt(p) >= 16
                   /\ p + SizeAt(p) \in A /\ p + SizeAt(p) <= brk
  BY <1>1, BlockWellFormed
<1>9. \A p \in A : p \in Nat /\ p <= brk /\ p \in D
  BY <1>2, <1>8
<1>10. \A p \in B : Rest(p) = {p} \cup Rest(p + SizeAt(p))
  <2> TAKE p \in B
  <2>1. ASSUME NEW q \in A PROVE p <= q <=> q = p \/ p + SizeAt(p) <= q
    <3>1. p \in Nat /\ SizeAt(p) \in Nat /\ SizeAt(p) >= 16 /\ p + SizeAt(p) <= brk /\ q \in Nat
      BY <1>8, <1>9
    <3>2. p <= q /\ q # p => p + SizeAt(p) <= q
      <4>1. CASE q = brk
        BY <3>1, <4>1
      <4>2. CASE q \in B
        <5>1. p < q => p + Size(mem, p) <= q
          BY <1>1, <4>2 DEF Tiled
        <5> QED
          BY <1>8, <3>1, <5>1
      <4> QED
        BY <4>1, <4>2
    <3> QED
      BY <3>1, <3>2
  <2>2. p \in A
    OBVIOUS
  <2> HIDE DEF A
  <2> QED
    BY <2>1, <2>2
<1>11. f[brk] = Rest(brk)
  <2>1. f[brk] = {brk}
    <3>1. brk \in D
      BY <1>2
    <3> HIDE DEF D
    <3> QED
      BY <1>6, <1>7, <3>1
  <2>2. Rest(brk) = {brk}
    BY <1>2, <1>9
  <2> QED
    BY <2>1, <2>2
<1>12. \A p \in A : f[p] = Rest(p)
  <2> DEFINE Bad == {k \in Nat : \E p \in A : k = brk - p /\ f[p] # Rest(p)}
  <2> HIDE DEF Rest
  <2>1. CASE Bad = {}
    BY <1>2, <1>9, <2>1
  <2>2. CASE Bad # {}
    <3>1. PICK k \in Bad : \A j \in Bad : k <= j
      <4>1. Bad \subseteq Nat
        OBVIOUS
      <4> QED
        BY <2>2, <4>1, MinOfNats
    <3>2. PICK p \in A : k = brk - p /\ f[p] # Rest(p)
      BY <3>1
    <3>3. p \in B /\ p \in Nat
      BY <1>9, <1>11, <3>2
    <3> DEFINE q == p + SizeAt(p)
    <3>4. q \in A /\ q \in Nat /\ brk - q < k /\ brk - q \in Nat
      BY <1>2, <1>8, <1>9, <3>2, <3>3
    <3>5. brk - q \notin Bad
      BY <1>2, <3>1, <3>4
    <3>6. f[q] = Rest(q)
      BY <3>4, <3>5
    <3>7. f[p] = {p} \cup f[q]
      BY <1>6, <1>8, <3>3
    <3> HIDE DEF q
    <3>8. Rest(p) = {p} \cup Rest(q)
      BY <1>10, <3>3 DEF q
    <3> QED
      BY <3>2, <3>6, <3>7, <3>8
  <2> QED
    BY <2>1, <2>2
<1>13. Rest(first_block) = A
  BY <1>2, <1>8, <1>9
<1> QED
  BY <1>1, <1>3, <1>12, <1>13

\* What the walk finds is what the invariant speaks of.
LEMMA BlocksAre ==
  ASSUME NEW B, Holds(mem, mem_brk, B, held)
  PROVE  Blocks = B /\ FreeBlocks = FreeSet(mem, B) /\ Walk = B \cup {mem_brk}
<1>1. Walk = B \cup {mem_brk}
  BY WalkIs
<1>2. Tiled(mem, mem_brk, B)
  BY DEF Holds, Valid, Shape
<1>3. mem_brk \notin B
  <2> SUFFICES ASSUME mem_brk \in B PROVE FALSE
    OBVIOUS
  <2>1. Size(mem, mem_brk) >= 16 /\ Size(mem, mem_brk) \in Nat /\ mem_brk \in Nat
        /\ mem_brk + Size(mem, mem_brk) <= mem_brk
    BY <1>2, BlockFacts
  <2> QED
    BY <2>1
<1>4. Blocks = B
  BY <1>1, <1>3 DEF Blocks
<1>5. \A p \in B : ~Allocated(p) <=> mem[p - 4].alloc = 0
  <2> TAKE p \in B
  <2>1. mem[p - 4] \in Tag
    BY <1>2, BlockFacts
  <2>2. mem[p - 4].alloc \in {0, 1}
    BY <2>1 DEF Tag
  <2> QED
    BY <2>2 DEF Allocated, GET_ALLOC, HDRP, WSIZE
<1> QED
  BY <1>1, <1>4, <1>5 DEF FreeBlocks, FreeSet

\* The invariant implies TypeOK.
LEMMA TypeFromInv == HeapInv => TypeOK
<1> SUFFICES ASSUME HeapInv PROVE TypeOK
  OBVIOUS
<1>1. /\ mem_start_brk = 8 /\ mem_max_addr = MAX_HEAP + 8 /\ MAX_HEAP \in Nat
  BY HeapAssumption DEF mem_start_brk, mem_max_addr, DSIZE
<1>2. CASE ~Ready
  <2>1. mem = Blank /\ mem_brk = mem_start_brk /\ held = NoBlocks
    BY <1>2 DEF HeapInv
  <2>2. mem \in [Addr -> Word]
    BY <2>1 DEF Blank, Word
  <2>3. mem_brk \in mem_start_brk .. mem_max_addr /\ mem_brk % DSIZE = 0
    BY <1>1, <2>1 DEF DSIZE
  <2> QED
    BY <2>1, <2>2, <2>3 DEF TypeOK, HeapInv, NoBlocks
<1>3. CASE Ready
  <2>1. PICK B : Holds(mem, mem_brk, B, held)
    BY <1>3 DEF HeapInv
  <2>2. /\ mem \in [Addr -> Word] /\ Tiled(mem, mem_brk, B) /\ DOMAIN held \subseteq B
        /\ \A p \in DOMAIN held : held[p] \in Request
    BY <2>1 DEF Holds, Valid, Shape, Taken
  <2>3. mem_brk \in mem_start_brk .. mem_max_addr /\ mem_brk % DSIZE = 0
    <3>1. mem_brk \in first_block .. mem_max_addr /\ mem_brk % DSIZE = 0
      BY <2>2 DEF Tiled
    <3>2. first_block \in Nat /\ first_block >= 16
      BY Heads
    <3> QED
      BY <1>1, <3>1, <3>2
  <2>4. \A p \in DOMAIN held : p \in Addr /\ p % DSIZE = 0
    <3> TAKE p \in DOMAIN held
    <3>1. p \in B
      BY <2>2
    <3> QED
      BY <2>2, <3>1, BlockFacts DEF DSIZE
  <2> QED
    BY <2>2, <2>3, <2>4 DEF TypeOK, HeapInv
<1> QED
  BY <1>2, <1>3

\* The invariant implies HeapTiled.
LEMMA TiledFromInv == HeapInv => HeapTiled
<1> SUFFICES ASSUME HeapInv, Ready PROVE HeapTiled
  BY DEF HeapTiled
<1>1. PICK B : Holds(mem, mem_brk, B, held)
  BY DEF HeapInv
<1>2. Tiled(mem, mem_brk, B)
  BY <1>1 DEF Holds, Valid, Shape
<1>3. Blocks = B /\ Walk = B \cup {mem_brk}
  BY <1>1, BlocksAre
<1>4. \A p \in B : WellFormed(p)
  BY <1>2, BlockWellFormed
<1>5. mem[HDRP(mem_brk)] = PACK(0, 1)
  BY <1>2 DEF Tiled, HDRP, WSIZE
<1> QED
  BY <1>3, <1>4, <1>5 DEF HeapTiled

\* The invariant implies FreeApart.
LEMMA ApartFromInv == HeapInv => FreeApart
<1> SUFFICES ASSUME HeapInv, Ready PROVE FreeApart
  BY DEF FreeApart
<1>1. PICK B : Holds(mem, mem_brk, B, held)
  BY DEF HeapInv
<1>2. FreeBlocks = FreeSet(mem, B)
  BY <1>1, BlocksAre
<1> QED
  BY <1>1, <1>2 DEF FreeApart, Holds, Valid, Apart, SizeAt, Size

\* The invariant implies ListsHoldFree.
LEMMA ListsFromInv == HeapInv => ListsHoldFree
<1> SUFFICES ASSUME HeapInv, Ready, NEW i \in 0 .. Classes - 1
             PROVE  /\ \A p \in {ClassAt(i)} \cup FreeOf(i) :
                         IsLink(p) /\ GET_SUC(mem, p) \in FreeOf(i) \cup {NULL}
                    /\ ToSet(List(mem, i)) = FreeOf(i)
                    /\ IsInjective(List(mem, i))
  BY DEF ListsHoldFree
<1> DEFINE list == List(mem, i)
<1>1. PICK B : Holds(mem, mem_brk, B, held)
  BY DEF HeapInv
<1> DEFINE S == FreeSet(mem, B)
           T == OfClass(mem, S, i)
<1>2. i \in Index /\ Shape(mem, mem_brk, B, S)
  BY <1>1 DEF Index, Holds, Valid
<1>3. FreeOf(i) = T
  <2>1. FreeBlocks = S
    BY <1>1, BlocksAre
  <2> HIDE DEF S
  <2> QED
    BY <2>1 DEF FreeOf, OfClass, SizeAt, Size
<1>4. /\ list \in Seq(T)
      /\ \A p \in T : \E k \in DOMAIN list : list[k] = p
      /\ \A j, k \in DOMAIN list : list[j] = list[k] => j = k
  <2> HIDE DEF S
  <2> QED
    BY <1>2, ListIs
<1>5. \A p \in T \cup {ClassAt(i)} : mem[p] \in [suc : T \cup {NULL}]
  <2>1. PICK d : ListOK(mem, ClassAt(i), T, d)
    BY <1>2 DEF Shape, Lists
  <2> QED
    BY <2>1 DEF ListOK
<1> HIDE DEF T, list
<1>6. \A p \in T \cup {ClassAt(i)} : "suc" \in DOMAIN mem[p] /\ mem[p].suc \in T \cup {NULL}
  BY <1>5
<1>7. {list[k] : k \in DOMAIN list} = T
  BY <1>4
<1> QED
  BY <1>3, <1>4, <1>6, <1>7 DEF IsLink, GET_SUC, ToSet, IsInjective, Injection, list

\* The invariant implies HeldAllocated.
LEMMA HeldFromInv == HeapInv => HeldAllocated
<1> SUFFICES ASSUME HeapInv, Ready PROVE HeldAllocated
  BY DEF HeldAllocated
<1>1. PICK B : Holds(mem, mem_brk, B, held)
  BY DEF HeapInv
<1>2. Blocks = B /\ FreeBlocks = FreeSet(mem, B)
  BY <1>1, BlocksAre
<1>3. Blocks \ FreeBlocks = DOMAIN held
  BY <1>1, <1>2 DEF Holds, Taken
<1> QED
  BY <1>1, <1>3 DEF HeldAllocated, Holds, SizeAt, Size, DSIZE

\* The invariant implies FitFound.
LEMMA FitFromInv == HeapInv => FitFound
<1> SUFFICES ASSUME HeapInv, Ready, NEW size \in Request, find_fit(mem, asize(size)) = NULL
             PROVE  \A p \in FreeBlocks : SizeAt(p) < asize(size)
  BY DEF FitFound
<1>1. PICK B : Holds(mem, mem_brk, B, held)
  BY DEF HeapInv
<1>2. FreeBlocks = FreeSet(mem, B)
  BY <1>1, BlocksAre
<1>3. Shape(mem, mem_brk, B, FreeSet(mem, B)) /\ asize(size) \in Nat
  BY <1>1, RequestIs, AsizeIs DEF Holds, Valid
<1>4. \A p \in FreeSet(mem, B) : Size(mem, p) < asize(size)
  BY <1>3, FindFit
<1> QED
  BY <1>2, <1>4 DEF SizeAt, Size

-----------------------------------------------------------------------------
(***************************************************************************)
(* The promise to the client: each call is a step of module Heap.           *)
(***************************************************************************)
Sound(m, f) == DOMAIN f = {} \/ \E brk, B : Holds(m, brk, B, f)

Contents(m, f) == [p \in DOMAIN f |-> [k \in 1 .. f[p] \div WSIZE |-> m[p + WSIZE * (k - 1)]]]

Span(p, size) == p .. p + (size \div WSIZE) * WSIZE - 1

\* The words of a block are words of the memory, inside the block.
LEMMA WordsIn ==
  ASSUME NEW m, NEW f, Sound(m, f), NEW p \in DOMAIN f
  PROVE  /\ p \in Nat /\ p % DSIZE = 0 /\ f[p] \in Nat /\ f[p] % 4 = 0
         /\ f[p] + 8 <= Size(m, p) /\ Size(m, p) \in Nat
         /\ f[p] \div WSIZE \in Nat /\ (f[p] \div WSIZE) * WSIZE = f[p]
         /\ \A k \in 1 .. f[p] \div WSIZE :
              /\ p + WSIZE * (k - 1) \in Addr
              /\ p <= p + WSIZE * (k - 1) /\ p + WSIZE * (k - 1) + 4 <= p + f[p]
<1>1. PICK brk, B : Holds(m, brk, B, f)
  BY DEF Sound
<1>2. Tiled(m, brk, B) /\ p \in B /\ f[p] \in Request /\ f[p] + 8 <= Size(m, p)
  BY <1>1 DEF Holds, Valid, Shape, Taken
<1>3. /\ p \in Nat /\ p % 8 = 0 /\ p \in Addr /\ Size(m, p) \in Nat
      /\ p + Size(m, p) <= brk /\ brk \in Nat /\ brk <= mem_max_addr
  BY <1>2, BlockFacts
<1>4. f[p] \in Nat /\ f[p] % 4 = 0
  BY <1>2, RequestIs
<1>5. f[p] \div 4 \in Nat /\ (f[p] \div 4) * 4 = f[p]
  BY <1>4
<1>6. ASSUME NEW k \in 1 .. f[p] \div 4
      PROVE  /\ p + 4 * (k - 1) \in Addr
             /\ p <= p + 4 * (k - 1) /\ p + 4 * (k - 1) + 4 <= p + f[p]
  <2> DEFINE x == p + 4 * (k - 1)
             n == f[p] \div 4
  <2>1. k \in Nat /\ 1 <= k /\ k <= n /\ n \in Nat /\ n * 4 = f[p]
    BY <1>5
  <2> HIDE DEF n
  <2>2. x \in Nat /\ p <= x /\ x + 4 <= p + f[p] /\ x % 4 = 0
    BY <1>3, <1>4, <2>1
  <2>3. 8 <= p /\ mem_max_addr \in Nat
    BY <1>3, AddrIs, Heads
  <2> HIDE DEF x
  <2>4. 8 <= x /\ x + 4 <= mem_max_addr
    BY <1>2, <1>3, <1>4, <2>2, <2>3
  <2>5. x \in Addr
    BY <2>2, <2>4, AddrIs DEF WSIZE
  <2> QED
    BY <2>2, <2>5 DEF x
<1> QED
  BY <1>2, <1>3, <1>4, <1>5, <1>6 DEF WSIZE, DSIZE

Words(m, p, n) == [k \in 1 .. n |-> m[p + WSIZE * (k - 1)]]
Values(m)      == {m[x] : x \in Addr}

\* The contents of a client's block are a sequence of words.
LEMMA ContentsIs ==
  ASSUME NEW m, NEW f, Sound(m, f), NEW p \in DOMAIN f
  PROVE  /\ Contents(m, f)[p] = Words(m, p, f[p] \div WSIZE)
         /\ Len(Contents(m, f)[p]) = f[p] \div WSIZE
         /\ Contents(m, f)[p] \in Seq(Values(m))
<1> DEFINE n == f[p] \div WSIZE
           c == Words(m, p, n)
<1>1. Contents(m, f)[p] = c
  BY DEF Contents, Words
<1>2. n \in Nat /\ \A k \in 1 .. n : p + WSIZE * (k - 1) \in Addr
  BY WordsIn
<1> HIDE DEF n
<1>3. \A k \in 1 .. n : m[p + WSIZE * (k - 1)] \in Values(m)
  BY <1>2 DEF Values
<1>4. c \in [1 .. n -> Values(m)]
  <2> DEFINE V == Values(m)
  <2>1. \A k \in 1 .. n : m[p + WSIZE * (k - 1)] \in V
    BY <1>3
  <2> HIDE DEF V
  <2>2. c \in [1 .. n -> V]
    BY <2>1 DEF Words
  <2> QED
    BY <2>2 DEF V
<1>5. c \in Seq(Values(m)) /\ Len(c) = n
  <2> DEFINE V == Values(m)
  <2> HIDE DEF V
  <2>1. c \in [1 .. n -> V]
    BY <1>4 DEF V
  <2>2. c \in Seq(V) /\ Len(c) = n
    BY <1>2, <2>1 DEF Words
  <2> QED
    BY <2>2 DEF V
<1> QED
  BY <1>1, <1>5 DEF n

\* The client's blocks do not overlap.
LEMMA Disjoint ==
  ASSUME NEW m, NEW f, Sound(m, f), NEW p \in DOMAIN f, NEW q \in DOMAIN f, p # q
  PROVE  Span(p, f[p]) \cap Span(q, f[q]) = {}
<1>1. PICK brk, B : Holds(m, brk, B, f)
  BY DEF Sound
<1>2. Tiled(m, brk, B) /\ p \in B /\ q \in B
  BY <1>1 DEF Holds, Valid, Shape, Taken
<1>3. p + Size(m, p) <= q \/ q + Size(m, q) <= p
  BY <1>2, BlocksApart
<1>4. /\ p \in Nat /\ f[p] \in Nat /\ f[p] + 8 <= Size(m, p) /\ Size(m, p) \in Nat
      /\ (f[p] \div WSIZE) * WSIZE = f[p]
  BY WordsIn
<1>5. /\ q \in Nat /\ f[q] \in Nat /\ f[q] + 8 <= Size(m, q) /\ Size(m, q) \in Nat
      /\ (f[q] \div WSIZE) * WSIZE = f[q]
  BY WordsIn
<1>6. Span(p, f[p]) = p .. p + f[p] - 1 /\ Span(q, f[q]) = q .. q + f[q] - 1
  BY <1>4, <1>5 DEF Span
<1> QED
  BY <1>3, <1>4, <1>5, <1>6

\* A block that keeps its words has the same contents.
LEMMA SameContents ==
  ASSUME NEW m, NEW f, Sound(m, f), NEW n, NEW g, NEW K, Keep(m, n, K),
         K \subseteq DOMAIN f, K \subseteq DOMAIN g, \A p \in K : g[p] = f[p]
  PROVE  \A p \in K : Contents(n, g)[p] = Contents(m, f)[p]
<1> SUFFICES ASSUME NEW p \in K PROVE Contents(n, g)[p] = Contents(m, f)[p]
  OBVIOUS
<1>1. /\ p \in Nat /\ f[p] \in Nat /\ f[p] + 8 <= Size(m, p) /\ Size(m, p) \in Nat
      /\ \A k \in 1 .. f[p] \div WSIZE :
           /\ p + WSIZE * (k - 1) \in Addr
           /\ p <= p + WSIZE * (k - 1) /\ p + WSIZE * (k - 1) + 4 <= p + f[p]
  BY WordsIn
<1>2. ASSUME NEW x \in Addr, p <= x, x + 4 <= p + f[p] PROVE n[x] = m[x]
  <2>1. x \in Int
    BY AddrIs
  <2>2. p - 4 <= x /\ x < p + Size(m, p) - 4
    BY <1>1, <1>2, <2>1
  <2> QED
    BY <2>2 DEF Keep
<1>3. \A k \in 1 .. f[p] \div WSIZE : n[p + WSIZE * (k - 1)] = m[p + WSIZE * (k - 1)]
  BY <1>1, <1>2
<1>4. [k \in 1 .. f[p] \div WSIZE |-> n[p + WSIZE * (k - 1)]]
        = [k \in 1 .. f[p] \div WSIZE |-> m[p + WSIZE * (k - 1)]]
  BY <1>3
<1>5. g[p] = f[p] /\ p \in DOMAIN f /\ p \in DOMAIN g
  OBVIOUS
<1> QED
  BY <1>4, <1>5 DEF Contents

\* The invariant gives what the lemmas above need, before and after a step.
LEMMA SoundNow ==
  /\ HeapInv => Sound(mem, held)
  /\ HeapInv' => Sound(mem', held')
<1>1. HeapInv => Sound(mem, held)
  BY DEF HeapInv, Sound, NoBlocks
<1>2. HeapInv' => Sound(mem', held')
  <2> SUFFICES ASSUME HeapInv' PROVE Sound(mem', held')
    OBVIOUS
  <2>1. /\ ~Ready' => held' = NoBlocks
        /\ Ready' => \E B : Holds(mem', mem_brk', B, held')
    BY DEF HeapInv
  <2> QED
    BY <2>1 DEF Sound, NoBlocks
<1> QED
  BY <1>1, <1>2

\* The client's block p, new or moved, among others that it has kept
LEMMA FreshIs ==
  ASSUME Sound(mem, held), Sound(mem', held'), NEW K, K \subseteq DOMAIN held,
         NEW p, p \notin K, DOMAIN held' = K \cup {p}, \A q \in K : held'[q] = held[q]
  PROVE  H!Fresh(p, K)
<1> DEFINE old == Contents(mem, held)
           new == Contents(mem', held')
<1>1. p \in DOMAIN held' /\ p % DSIZE = 0 /\ Len(new[p]) = held'[p] \div WSIZE
  BY WordsIn, ContentsIs
<1>2. ASSUME NEW q \in K
      PROVE  H!Bytes(p, Len(new[p])) \cap H!Bytes(q, Len(old[q])) = {}
  <2>1. q \in DOMAIN held' /\ q # p /\ Len(old[q]) = held'[q] \div WSIZE
    <3>1. q \in DOMAIN held /\ held'[q] = held[q]
      OBVIOUS
    <3>2. Len(old[q]) = held[q] \div WSIZE
      BY <3>1, ContentsIs
    <3> QED
      BY <3>1, <3>2
  <2>2. Span(p, held'[p]) \cap Span(q, held'[q]) = {}
    BY <1>1, <2>1, Disjoint
  <2> HIDE DEF old, new
  <2> QED
    BY <1>1, <2>1, <2>2 DEF H!Bytes, Span
<1>3. old = ClientBlock /\ new = ClientBlock'
  BY DEF Contents, ClientBlock
<1> QED
  BY <1>1, <1>2, <1>3 DEF H!Fresh, H!New

\* A reallocated block starts with the words of the old one.
LEMMA CommonIs ==
  ASSUME Sound(mem, held), Sound(mem', held'), NEW ptr \in DOMAIN held, NEW q \in DOMAIN held',
         \A x \in Addr : q <= x /\ x < q + held'[q] /\ x < q + held[ptr]
                           => mem'[x] = mem[x - q + ptr]
  PROVE  H!Common(ptr, q)
<1> DEFINE old == Contents(mem, held)[ptr]
           new == Contents(mem', held')[q]
           a == held[ptr] \div WSIZE
           b == held'[q] \div WSIZE
           n == IF Len(old) < Len(new) THEN Len(old) ELSE Len(new)
<1>1. old = Words(mem, ptr, a) /\ Len(old) = a /\ old \in Seq(Values(mem))
  BY ContentsIs
<1>2. new = Words(mem', q, b) /\ Len(new) = b /\ new \in Seq(Values(mem'))
  BY ContentsIs
<1>3. /\ ptr \in Nat /\ held[ptr] \in Nat /\ a \in Nat
      /\ \A k \in 1 .. a : ptr + WSIZE * (k - 1) + 4 <= ptr + held[ptr]
  BY WordsIn
<1>4. /\ q \in Nat /\ held'[q] \in Nat /\ b \in Nat
      /\ \A k \in 1 .. b : /\ q + WSIZE * (k - 1) \in Addr /\ q <= q + WSIZE * (k - 1)
                             /\ q + WSIZE * (k - 1) + 4 <= q + held'[q]
  BY WordsIn
<1>5. n \in Nat /\ n <= a /\ n <= b
  BY <1>1, <1>2, <1>3, <1>4
<1> HIDE DEF a, b, n
<1>6. ASSUME NEW k \in 1 .. n PROVE new[k] = old[k]
  <2> DEFINE x == q + WSIZE * (k - 1)
  <2>1. k \in 1 .. a /\ k \in 1 .. b /\ k \in Nat
    BY <1>3, <1>4, <1>5
  <2>2. x \in Addr /\ q <= x /\ x < q + held'[q] /\ x < q + held[ptr]
    <3>1. x \in Addr /\ q <= x /\ x + 4 <= q + held'[q] /\ x \in Int
      BY <1>4, <2>1, AddrIs
    <3>2. ptr + WSIZE * (k - 1) + 4 <= ptr + held[ptr]
      BY <1>3, <2>1
    <3>3. x + 4 <= q + held[ptr]
      BY <1>3, <1>4, <2>1, <3>2 DEF WSIZE
    <3> HIDE DEF x
    <3> QED
      BY <1>3, <1>4, <3>1, <3>3
  <2>3. x - q + ptr = ptr + WSIZE * (k - 1)
    BY <1>3, <1>4, <2>1 DEF WSIZE
  <2>4. mem'[x] = mem[x - q + ptr]
    BY <2>2
  <2> QED
    BY <1>1, <1>2, <2>1, <2>3, <2>4 DEF Words
<1> HIDE DEF old, new
<1>7. SubSeq(new, 1, n) = SubSeq(old, 1, n)
  <2>1. SubSeq(new, 1, n) = [k \in 1 .. n |-> new[k]] /\ SubSeq(old, 1, n) = [k \in 1 .. n |-> old[k]]
    BY <1>1, <1>2, <1>5
  <2> QED
    BY <1>6, <2>1
<1>8. Contents(mem, held) = ClientBlock /\ Contents(mem', held') = ClientBlock'
  BY DEF Contents, ClientBlock
<1> QED
  BY <1>7, <1>8 DEF H!Common, H!New, n, old, new

\* Every call is a step of module Heap.
LEMMA HeapStep == HeapInv /\ HeapInv' /\ Call => [H!Next]_ClientBlock
<1> SUFFICES ASSUME HeapInv, HeapInv', Call PROVE [H!Next]_ClientBlock
  OBVIOUS
<1> DEFINE old == Contents(mem, held)
           new == Contents(mem', held')
           A == DOMAIN held
<1>1. old = ClientBlock /\ new = ClientBlock'
  BY DEF Contents, ClientBlock
<1>2. Sound(mem, held) /\ Sound(mem', held')
  BY SoundNow
<1>3. DOMAIN old = A /\ DOMAIN new = DOMAIN held'
  BY DEF Contents
<1>4. H!Held = A /\ H!New = new
  BY <1>1, <1>3 DEF H!Held, H!New
<1>5. ASSUME NEW K, K \subseteq A, K \subseteq DOMAIN held', \A p \in K : held'[p] = held[p],
             Keep(mem, mem', K)
      PROVE  H!Keep(K) /\ \A p \in K : new[p] = old[p]
  <2>1. \A p \in K : new[p] = old[p]
    BY <1>2, <1>5, SameContents
  <2> HIDE DEF new, old
  <2> QED
    BY <1>1, <1>4, <2>1 DEF H!Keep
<1>6. CASE Reset
  <2>1. DOMAIN held' = {}
    BY <1>6 DEF Reset, NoBlocks
  <2>2. new = << >>
    BY <1>3, <2>1 DEF Contents
  <2> QED
    BY <1>4, <2>2 DEF H!Restart, H!Next
<1>7. CASE Failed
  <2>1. held' = held /\ Keep(mem, mem', A)
    BY <1>7 DEF Failed
  <2>2. \A p \in A : new[p] = old[p]
    BY <1>2, <2>1, SameContents
  <2>3. new = old
    <3>1. old = [p \in A |-> old[p]] /\ new = [p \in A |-> new[p]]
      BY <2>1 DEF Contents
    <3> HIDE DEF old, new
    <3> QED
      BY <2>2, <3>1
  <2> QED
    BY <1>1, <2>3
<1>8. ASSUME NEW size \in Request, Allocates(size) PROVE [H!Next]_ClientBlock
  <2>1. PICK p : /\ p \notin A /\ held' = With(held, p, size) /\ Keep(mem, mem', A)
    BY <1>8 DEF Allocates
  <2>2. DOMAIN held' = A \cup {p} /\ \A q \in A : held'[q] = held[q]
    BY <2>1 DEF With
  <2>3. H!Fresh(p, A)
    BY <1>2, <2>1, <2>2, FreshIs
  <2>4. H!Keep(A)
    BY <1>5, <2>1, <2>2
  <2>5. p \in DOMAIN H!New \ H!Held /\ DOMAIN H!New = H!Held \cup {p}
    BY <1>3, <1>4, <2>1, <2>2
  <2>6. H!Malloc
    BY <1>4, <2>3, <2>4, <2>5 DEF H!Malloc
  <2> QED
    BY <2>6 DEF H!Next
<1>9. ASSUME NEW p \in A, Frees(p) PROVE [H!Next]_ClientBlock
  <2> DEFINE K == A \ {p}
  <2>1. held' = Others(p) /\ Keep(mem, mem', K)
    BY <1>9 DEF Frees
  <2>2. DOMAIN held' = K /\ \A q \in K : held'[q] = held[q]
    BY <2>1, OthersIs
  <2>3. H!Keep(K)
    BY <1>5, <2>1, <2>2
  <2>4. H!Free
    BY <1>3, <1>4, <2>2, <2>3 DEF H!Free
  <2> QED
    BY <2>4 DEF H!Next
<1>10. ASSUME NEW p \in A, Writes(p) PROVE [H!Next]_ClientBlock
  <2> DEFINE K == A \ {p}
  <2>1. held' = held /\ Keep(mem, mem', K)
    BY <1>10 DEF Writes
  <2>2. H!Keep(K)
    BY <1>5, <2>1
  <2>3. Len(new[p]) = held[p] \div WSIZE /\ Len(old[p]) = held[p] \div WSIZE
    BY <1>2, <2>1, ContentsIs
  <2>4. H!Write
    BY <1>1, <1>3, <1>4, <2>1, <2>2, <2>3 DEF H!Write
  <2> QED
    BY <2>4 DEF H!Next
<1>11. ASSUME NEW ptr \in A, NEW size \in Request, Moves(ptr, size) PROVE [H!Next]_ClientBlock
  <2> DEFINE K == A \ {ptr}
  <2>1. PICK q : /\ q \notin A /\ held' = With(Others(ptr), q, size) /\ Keep(mem, mem', K)
                 /\ \A x \in Addr : q <= x /\ x < q + size /\ x < q + held[ptr]
                                      => mem'[x] = mem[x - q + ptr]
    BY <1>11 DEF Moves
  <2>2. /\ DOMAIN held' = K \cup {q} /\ \A p \in K : held'[p] = held[p]
        /\ held'[q] = size
    BY <2>1, OthersIs DEF With
  <2>3. H!Fresh(q, K)
    BY <1>2, <2>1, <2>2, FreshIs
  <2>4. H!Keep(K)
    BY <1>5, <2>1, <2>2
  <2>5. H!Common(ptr, q)
    BY <1>2, <2>1, <2>2, CommonIs
  <2>6. q \in DOMAIN H!New /\ DOMAIN H!New = K \cup {q} /\ q \notin K
    BY <1>3, <1>4, <2>1, <2>2
  <2>7. H!Realloc
    BY <1>4, <2>3, <2>4, <2>5, <2>6 DEF H!Realloc
  <2> QED
    BY <2>7 DEF H!Next
<1> QED
  BY <1>6, <1>7, <1>8, <1>9, <1>10, <1>11 DEF Call

-----------------------------------------------------------------------------
(***************************************************************************)
(* The theorems.                                                            *)
(***************************************************************************)

\* Sizes and pointers have their types and alignment in every reachable state.
THEOREM TypeCorrect == Spec => []TypeOK
BY HeapInvariant, TypeFromInv, PTL

\* The boundary tags are never damaged, whatever the client's calls are.
THEOREM TagsWhole == Spec => []HeapTiled
BY HeapInvariant, TiledFromInv, PTL

\* coalesce and place leave no two free blocks next to each other.
THEOREM FreeBlocksApart == Spec => []FreeApart
BY HeapInvariant, ApartFromInv, PTL

\* The segregated lists hold every free block once, on the list of its class.
THEOREM ListsRight == Spec => []ListsHoldFree
BY HeapInvariant, ListsFromInv, PTL

\* Nothing leaks, and every block of the client is large enough.
THEOREM NothingLeaks == Spec => []HeldAllocated
BY HeapInvariant, HeldFromInv, PTL

\* find_fit returns NULL only if no free block has room.
THEOREM FitsAreFound == Spec => []FitFound
BY HeapInvariant, FitFromInv, PTL

\* The calls of mm.c are steps of the abstract heap.
THEOREM KeepsPromise == Spec => ImplementsHeap
<1>1. Init => H!Init
  <2> SUFFICES ASSUME Init PROVE ClientBlock = << >>
    BY DEF H!Init
  <2>1. DOMAIN held = {}
    BY DEF Init, NoBlocks
  <2> QED
    BY <2>1 DEF ClientBlock
<1>2. HeapInv /\ [Next]_vars => [H!Next]_ClientBlock
  <2>1. HeapInv /\ Next => [H!Next]_ClientBlock
    BY CallIs, HeapStep
  <2>2. UNCHANGED vars => UNCHANGED ClientBlock
    BY DEF vars, ClientBlock
  <2> QED
    BY <2>1, <2>2
<1> QED
  BY <1>1, <1>2, HeapInvariant, PTL DEF Spec, ImplementsHeap, H!Spec
=============================================================================
