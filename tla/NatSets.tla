------------------------------ MODULE NatSets ------------------------------
(***************************************************************************)
(* Facts about the least and the greatest element of a set of naturals, for *)
(* the proofs about arrays that are searched with Min and Max.  Induction   *)
(* is replaced by the choice of a least counterexample.                     *)
(***************************************************************************)
EXTENDS Integers, FiniteSetsExt, WellFoundedInduction, TLAPS

Less == {ss \in Nat \X Nat : ss[1] < ss[2]}

\* The order of the naturals, as a set of pairs, is well founded.
LEMMA LessWellFounded == IsWellFoundedOn(Less, Nat)
<1>1. OpToRel(<, Nat) = Less
  BY DEF OpToRel, Less
<1> QED
  BY <1>1, NatLessThanWellFounded, Zenon

\* Min picks the least element of a nonempty set of naturals.
LEMMA MinOfNats ==
  ASSUME NEW S, S \subseteq Nat, S # {}
  PROVE  Min(S) \in S /\ \A y \in S : Min(S) <= y
<1>1. PICK x \in S : \A y \in S : ~(<<y, x>> \in Less)
  BY LessWellFounded, WFMin
<1>2. ASSUME NEW y \in S PROVE x <= y
  <2>1. x \in Nat /\ y \in Nat
    OBVIOUS
  <2>2. <<y, x>> \in Nat \X Nat /\ <<y, x>>[1] = y /\ <<y, x>>[2] = x
    BY <2>1
  <2>3. ~(y < x)
    BY <1>1, <2>2, Zenon DEF Less
  <2> QED
    BY <2>1, <2>3
<1> QED
  BY <1>2 DEF Min

\* Max picks the greatest element of a nonempty bounded set of naturals.
LEMMA MaxOfNats ==
  ASSUME NEW S, S \subseteq Nat, S # {}, NEW b \in Nat, \A x \in S : x <= b
  PROVE  Max(S) \in S /\ \A y \in S : y <= Max(S)
<1> DEFINE U == {m \in Nat : \A x \in S : x <= m}
<1>1. U \subseteq Nat /\ U # {}
  OBVIOUS
<1>2. Min(U) \in U /\ \A m \in U : Min(U) <= m
  BY <1>1, MinOfNats
<1>3. PICK m \in U : \A n \in U : m <= n
  BY <1>2
<1>4. m \in S
  <2> SUFFICES ASSUME m \notin S PROVE FALSE
    OBVIOUS
  <2>1. PICK x \in S : TRUE
    OBVIOUS
  <2>2. m - 1 \in Nat
    BY <1>3, <2>1
  <2>3. \A y \in S : y <= m - 1
    BY <1>3
  <2>4. m - 1 \in U
    BY <2>2, <2>3
  <2> QED
    BY <1>3, <2>2, <2>4
<1> QED
  BY <1>3, <1>4 DEF Max

\* The values of an array of naturals have a bound.
LEMMA ArrayBounded ==
  ASSUME NEW n \in Nat, NEW f \in [1 .. n -> Nat]
  PROVE  \E b \in Nat : \A i \in 1 .. n : f[i] <= b
<1> DEFINE Bounds(k, b) == \A i \in 1 .. k : f[i] <= b
<1> DEFINE Bad == {k \in 0 .. n : ~ \E b \in Nat : Bounds(k, b)}
<1> SUFFICES ASSUME Bad # {} PROVE FALSE
  <2>1. n \notin Bad => \E b \in Nat : Bounds(n, b)
    OBVIOUS
  <2> QED
    BY <2>1
<1>1. Bad \subseteq Nat
  OBVIOUS
<1>2. PICK k \in Bad : \A j \in Bad : k <= j
  BY <1>1, MinOfNats
<1>3. k \in 0 .. n /\ ~ \E b \in Nat : Bounds(k, b)
  OBVIOUS
<1>4. \A j \in 0 .. n : j \notin Bad => \E b \in Nat : Bounds(j, b)
  OBVIOUS
<1>5. Bounds(0, 0)
  OBVIOUS
<1> HIDE DEF Bad
<1>6. k \in 1 .. n /\ k - 1 \in 0 .. n /\ k - 1 \notin Bad
  <2>1. k # 0
    BY <1>3, <1>5
  <2>2. k \in 1 .. n /\ k - 1 \in 0 .. n /\ ~(k <= k - 1)
    BY <1>3, <2>1
  <2> QED
    BY <1>2, <2>2
<1>7. PICK b \in Nat : Bounds(k - 1, b)
  BY <1>4, <1>6
<1> DEFINE c == IF f[k] <= b THEN b ELSE f[k]
<1>8. c \in Nat /\ b <= c /\ f[k] <= c
  <2>1. f[k] \in Nat
    BY <1>6
  <2> QED
    BY <2>1
<1>9. Bounds(k, c)
  <2> SUFFICES ASSUME NEW i \in 1 .. k PROVE f[i] <= c
    OBVIOUS
  <2>1. CASE i = k
    BY <2>1, <1>8
  <2>2. CASE i # k
    <3>1. i \in 1 .. (k - 1) /\ i \in 1 .. n
      BY <2>2, <1>6
    <3>2. f[i] \in Nat /\ f[i] <= b
      BY <3>1, <1>7
    <3> QED
      BY <3>2, <1>8
  <2> QED
    BY <2>1, <2>2
<1> QED
  BY <1>3, <1>8, <1>9
=============================================================================
