--------------------------- MODULE RangeMapProofs ---------------------------
(***************************************************************************)
(* Proofs about lists of ranges: the search is right on a tiling, and a    *)
(* tiling grows by a range that starts where it ends, and by no other.     *)
(* Also induction on the naturals, for a set in the place of a predicate,  *)
(* and the recursive functions that add numbers up.                        *)
(***************************************************************************)
EXTENDS RangeMap, WellFoundedInduction, TLAPS

IsRange(r) == r.logical_offset \in Nat /\ r.size \in Nat

IsRangeList(s) == /\ Len(s) \in Nat
                  /\ \A i \in 1..Len(s) : IsRange(s[i])

(* The range partition_point leads to, on a tiling, is the one that holds  *)
(* the offset: read_at never misses an extent and its remaining size is    *)
(* never negative or zero.                                                 *)
THEOREM FindEntry ==
  ASSUME NEW s, IsRangeList(s), NEW total \in Nat, Tiles(s, total),
         NEW o \in 0..(total - 1)
  PROVE  /\ find_entry(s, o) \in 1..Len(s)
         /\ s[find_entry(s, o)].logical_offset <= o
         /\ o < End(s[find_entry(s, o)])
<1>1. PICK i \in 1..Len(s) : s[i].logical_offset <= o /\ o < End(s[i])
  BY DEF Tiles
<1>2. \A j \in 1..Len(s) : (s[j].logical_offset <= o) <=> (j <= i)
  <2> SUFFICES ASSUME NEW j \in 1..Len(s)
               PROVE  (s[j].logical_offset <= o) <=> (j <= i)
    OBVIOUS
  <2>1. /\ s[i].logical_offset \in Nat /\ s[i].size \in Nat
        /\ s[j].logical_offset \in Nat /\ s[j].size \in Nat
    BY DEF IsRangeList, IsRange
  <2>2. /\ j < i => End(s[j]) <= s[i].logical_offset
        /\ i < j => End(s[i]) <= s[j].logical_offset
    BY DEF Tiles
  <2> QED BY <1>1, <2>1, <2>2 DEF End, IsRangeList
<1>3. ASSUME NEW k \in 0..Len(s), \A j \in 1..Len(s) : (s[j].logical_offset <= o) <=> (j <= k)
      PROVE  k = i
  <2>1. i <= k
    BY <1>1, <1>3
  <2>2. ~(i + 1 <= k)
    <3> SUFFICES ASSUME i + 1 <= k PROVE FALSE
      OBVIOUS
    <3>1. i + 1 \in 1..Len(s)
      BY DEF IsRangeList
    <3>2. s[i + 1].logical_offset <= o
      BY <3>1, <1>3
    <3>3. i + 1 <= i
      BY <3>1, <3>2, <1>2
    <3> QED BY <3>3
  <2> QED BY <2>1, <2>2 DEF IsRangeList
<1>4. i \in 0..Len(s)
  BY DEF IsRangeList
<1>5. find_entry(s, o) = i
  BY <1>2, <1>3, <1>4 DEF find_entry, partition_point
<1> QED BY <1>1, <1>5

(* Appending a range of at least one byte where the tiling ends gives a    *)
(* tiling.                                                                 *)
LEMMA TilesAppend ==
  ASSUME NEW S, NEW s \in Seq(S), IsRangeList(s), NEW total \in Nat, Tiles(s, total),
         NEW r \in S, IsRange(r), r.logical_offset = total, r.size # 0
  PROVE  /\ Tiles(Append(s, r), total + r.size)
         /\ IsRangeList(Append(s, r))
<1> DEFINE u == Append(s, r)
           n == Len(s)
           m == total + r.size
<1>1. n \in Nat /\ Len(u) = n + 1 /\ u[n + 1] = r /\ \A i \in 1..n : u[i] = s[i]
  OBVIOUS
<1>2. r.logical_offset \in Nat /\ r.size \in Nat /\ r.size > 0 /\ End(r) = m
      /\ m \in Nat /\ m > total /\ m = total + r.size
  BY DEF IsRange, End
<1> HIDE DEF u, n, m
<1>3. \A i \in 1..(n + 1) : i \in 1..n \/ i = n + 1
  BY <1>1
<1>4. IsRangeList(u)
  BY <1>1, <1>3 DEF IsRangeList, n
<1>5. \A i \in 1..Len(u) : u[i].size > 0 /\ End(u[i]) <= m
  <2>1. \A i \in 1..n : u[i].size > 0 /\ End(u[i]) <= total /\ End(u[i]) \in Nat
    <3> SUFFICES ASSUME NEW i \in 1..n
                 PROVE  s[i].size > 0 /\ End(s[i]) <= total /\ End(s[i]) \in Nat
      BY <1>1
    <3>1. s[i].logical_offset \in Nat /\ s[i].size \in Nat
      BY DEF n, IsRangeList, IsRange
    <3>2. s[i].size > 0 /\ End(s[i]) <= total
      BY DEF n, Tiles
    <3> QED BY <3>1, <3>2 DEF End
  <2> QED BY <2>1, <1>1, <1>2, <1>3
<1>6. \A i, j \in 1..Len(u) : i < j => End(u[i]) <= u[j].logical_offset
  <2> SUFFICES ASSUME NEW i \in 1..(n + 1), NEW j \in 1..(n + 1), i < j
               PROVE  End(u[i]) <= u[j].logical_offset
    BY <1>1
  <2>1. i \in 1..n
    BY <1>1
  <2>2. CASE j \in 1..n
    BY <2>1, <2>2, <1>1 DEF Tiles, n
  <2>3. CASE j = n + 1
    BY <2>1, <2>3, <1>1 DEF Tiles, n
  <2> QED BY <2>2, <2>3, <1>3
<1>7. \A p \in 0..(m - 1) :
        \E i \in 1..Len(u) : u[i].logical_offset <= p /\ p < End(u[i])
  <2> SUFFICES ASSUME NEW p \in 0..(m - 1)
               PROVE  \E i \in 1..(n + 1) : u[i].logical_offset <= p /\ p < End(u[i])
    BY <1>1
  <2>1. CASE p < total
    <3>1. p \in 0..(total - 1)
      BY <2>1, <1>2
    <3>2. PICK i \in 1..n : s[i].logical_offset <= p /\ p < End(s[i])
      BY <3>1 DEF Tiles, n
    <3>3. i \in 1..(n + 1) /\ u[i] = s[i]
      BY <1>1
    <3> QED BY <3>2, <3>3
  <2>2. CASE p >= total
    <3>1. r.logical_offset <= p /\ p < End(r) /\ n + 1 \in 1..(n + 1)
      BY <2>2, <1>1, <1>2
    <3> QED BY <3>1, <1>1
  <2> QED BY <2>1, <2>2, <1>2
<1>8. Tiles(u, m)
  BY <1>5, <1>6, <1>7, Zenon DEF Tiles
<1> QED BY <1>4, <1>8 DEF u, m

(* A range that starts elsewhere, is empty or ends past the limit makes    *)
(* the list one that tiles nothing below the limit.                        *)
LEMMA TilesNot ==
  ASSUME NEW S, NEW s \in Seq(S), IsRangeList(s), NEW total \in Nat, Tiles(s, total),
         NEW r \in S, IsRange(r), NEW limit \in Nat,
         r.size = 0 \/ r.logical_offset # total \/ total + r.size > limit,
         NEW all \in 0..limit
  PROVE  ~Tiles(Append(s, r), all)
<1> SUFFICES ASSUME Tiles(Append(s, r), all) PROVE FALSE
  OBVIOUS
<1> DEFINE u == Append(s, r)
           n == Len(s)
<1>1. n \in Nat /\ Len(u) = n + 1 /\ u[n + 1] = r /\ \A i \in 1..n : u[i] = s[i]
  OBVIOUS
<1>t. Tiles(u, all)
  OBVIOUS
<1> HIDE DEF u, n
<1>2. /\ r.logical_offset \in Nat /\ r.size \in Nat
      /\ r.size > 0 /\ r.logical_offset + r.size <= all
  <2>1. n + 1 \in 1..Len(u)
    BY <1>1
  <2> QED BY <2>1, <1>t, <1>1 DEF Tiles, IsRange, End
<1>3. r.logical_offset >= total
  <2>1. CASE total = 0
    BY <2>1, <1>2
  <2>2. CASE total > 0
    <3>1. total - 1 \in 0..(total - 1)
      BY <2>2
    <3>2. PICK i \in 1..n : s[i].logical_offset <= total - 1 /\ total - 1 < End(s[i])
      BY <3>1 DEF Tiles, n
    <3>3. End(s[i]) <= r.logical_offset
      <4>1. i \in 1..Len(u) /\ n + 1 \in 1..Len(u) /\ i < n + 1
        BY <1>1
      <4> QED BY <4>1, <1>1, <1>t DEF Tiles
    <3>4. End(s[i]) \in Nat
      BY DEF IsRangeList, IsRange, n, End
    <3> QED BY <3>2, <3>3, <3>4, <1>2
  <2> QED BY <2>1, <2>2
<1>4. r.logical_offset <= total
  <2> SUFFICES ASSUME r.logical_offset > total PROVE FALSE
    BY <1>2
  <2>1. total \in 0..(all - 1)
    BY <1>2
  <2>2. PICK i \in 1..Len(u) : u[i].logical_offset <= total /\ total < End(u[i])
    BY <2>1, <1>t DEF Tiles
  <2>3. i \in 1..n
    BY <2>2, <1>1, <1>2
  <2>4. End(s[i]) <= total /\ End(s[i]) \in Nat
    BY <2>3 DEF Tiles, n, IsRangeList, IsRange, End
  <2> QED BY <2>2, <2>3, <2>4, <1>1
<1> QED BY <1>2, <1>3, <1>4
-----------------------------------------------------------------------------
(* A set of naturals has a least member.                                   *)
LEMMA LeastOne ==
  ASSUME NEW T \in SUBSET Nat, T # {}
  PROVE  \E x \in T : \A y \in T : x <= y
<1> DEFINE R == OpToRel(<, Nat)
<1>1. IsWellFoundedOn(R, Nat)
  BY NatLessThanWellFounded, Zenon
<1>2. \A x, y \in Nat : y < x => <<y, x>> \in R
  BY DEF OpToRel
<1> HIDE DEF R
<1>3. PICK x \in T : \A y \in T : ~ (<<y, x>> \in R)
  BY <1>1, WFMin
<1>4. \A y \in T : y \in Nat /\ x \in Nat /\ ~(y < x)
  BY <1>2, <1>3
<1>5. \A y \in T : x <= y
  BY <1>4
<1> QED BY <1>5

(* Induction, for a set in the place of the predicate.                     *)
LEMMA Induct ==
  ASSUME NEW S, 0 \in S, \A n \in Nat : n \in S => n + 1 \in S
  PROVE  Nat \subseteq S
<1> DEFINE T == Nat \ S
<1> SUFFICES ASSUME T # {} PROVE FALSE
  OBVIOUS
<1>1. PICK x \in T : \A y \in T : x <= y
  <2>1. T \in SUBSET Nat
    OBVIOUS
  <2> HIDE DEF T
  <2> QED BY <2>1, LeastOne
<1>2. x \in Nat /\ x # 0 /\ x \notin S
  OBVIOUS
<1>3. x - 1 \in Nat /\ ~(x - 1 \in T) /\ (x - 1) + 1 = x
  BY <1>1, <1>2
<1>4. x - 1 \in S
  BY <1>3
<1> QED BY <1>2, <1>3, <1>4

(* The sums a + c[k + 1] + ... + c[i], for i up to n.                       *)
Upto(n, k, a, c, g) == g = [i \in 0..n |-> IF i <= k THEN a ELSE g[i - 1] + c[i]]

LEMMA UptoUnique ==
  ASSUME NEW k \in Nat, NEW a, NEW c, NEW m \in Nat, NEW n \in Nat,
         NEW g, NEW h, Upto(m, k, a, c, g), Upto(n, k, a, c, h)
  PROVE  \A i \in Nat : i <= m /\ i <= n => g[i] = h[i]
<1> DEFINE S == {i \in Nat : i <= m /\ i <= n => g[i] = h[i]}
<1>a. /\ \A i \in 0..m : g[i] = IF i <= k THEN a ELSE g[i - 1] + c[i]
      /\ \A i \in 0..n : h[i] = IF i <= k THEN a ELSE h[i - 1] + c[i]
  BY DEF Upto
<1>1. 0 \in S
  BY <1>a
<1>2. ASSUME NEW i \in Nat, i \in S PROVE i + 1 \in S
  <2> SUFFICES ASSUME i + 1 <= m, i + 1 <= n PROVE g[i + 1] = h[i + 1]
    OBVIOUS
  <2>1. g[i] = h[i] /\ i + 1 \in 0..m /\ i + 1 \in 0..n /\ (i + 1) - 1 = i
    BY <1>2
  <2> QED BY <1>a, <2>1
<1> HIDE DEF S
<1>3. Nat \subseteq S
  BY <1>1, <1>2, Induct
<1> QED BY <1>3 DEF S

LEMMA UptoExists ==
  ASSUME NEW k \in Nat, NEW a, NEW c
  PROVE  \A n \in Nat : \E g : Upto(n, k, a, c, g)
<1> DEFINE S == {n \in Nat : \E g : Upto(n, k, a, c, g)}
<1>1. 0 \in S
  <2>1. Upto(0, k, a, c, [i \in 0..0 |-> a])
    BY DEF Upto
  <2> QED BY <2>1
<1>2. ASSUME NEW n \in Nat, n \in S PROVE n + 1 \in S
  <2>1. PICK g : Upto(n, k, a, c, g)
    BY <1>2
  <2> DEFINE h == [i \in 0..(n + 1) |-> IF i <= n THEN g[i]
                                        ELSE IF i <= k THEN a ELSE g[i - 1] + c[i]]
  <2>2. \A i \in 0..n : g[i] = IF i <= k THEN a ELSE g[i - 1] + c[i]
    BY <2>1 DEF Upto
  <2>3. \A i \in 0..(n + 1) : h[i] = IF i <= k THEN a ELSE h[i - 1] + c[i]
    <3> TAKE i \in 0..(n + 1)
    <3>1. CASE i <= n
      <4>1. i \in 0..n /\ (~(i <= k) => i - 1 \in 0..(n + 1) /\ i - 1 <= n)
        BY <3>1
      <4> QED BY <2>2, <4>1
    <3>2. CASE i = n + 1
      <4>1. ~(i <= n) /\ (~(i <= k) => i - 1 \in 0..(n + 1) /\ i - 1 <= n)
        BY <3>2
      <4> QED BY <4>1
    <3> QED BY <3>1, <3>2
  <2>4. h = [i \in 0..(n + 1) |-> h[i]]
    OBVIOUS
  <2> HIDE DEF h
  <2>5. Upto(n + 1, k, a, c, h)
    BY <2>3, <2>4 DEF Upto
  <2> QED BY <2>5
<1> HIDE DEF S
<1>3. Nat \subseteq S
  BY <1>1, <1>2, Induct
<1> QED BY <1>3 DEF S

(* There is a function of them all: a recursive definition of this form    *)
(* defines what it says.                                                   *)
IsSum(f, k, a, c) == f = [i \in Nat |-> IF i <= k THEN a ELSE f[i - 1] + c[i]]

LEMMA SumExists ==
  ASSUME NEW k \in Nat, NEW a, NEW c
  PROVE  \E f : IsSum(f, k, a, c)
<1> DEFINE G(n) == CHOOSE g : Upto(n, k, a, c, g)
           f == [i \in Nat |-> G(i)[i]]
<1>1. \A n \in Nat : Upto(n, k, a, c, G(n))
  BY UptoExists
<1> HIDE DEF G
<1>2. ASSUME NEW i \in Nat PROVE f[i] = IF i <= k THEN a ELSE f[i - 1] + c[i]
  <2>1. Upto(i, k, a, c, G(i)) /\ i \in 0..i
    BY <1>1
  <2>2. G(i)[i] = IF i <= k THEN a ELSE G(i)[i - 1] + c[i]
    BY <2>1 DEF Upto
  <2>3. CASE i <= k
    BY <2>2, <2>3
  <2>4. CASE ~(i <= k)
    <3>1. i - 1 \in Nat /\ i - 1 <= i
      BY <2>4
    <3> DEFINE j == i - 1
    <3>2. Upto(j, k, a, c, G(j)) /\ j \in Nat /\ j <= i /\ j <= j
      BY <1>1, <3>1
    <3> HIDE DEF j
    <3>3. G(i)[j] = G(j)[j]
      BY <2>1, <3>2, UptoUnique
    <3> QED BY <2>2, <2>4, <3>2, <3>3 DEF j
  <2> QED BY <2>3, <2>4
<1>3. f = [i \in Nat |-> f[i]]
  OBVIOUS
<1> HIDE DEF f
<1> QED BY <1>2, <1>3 DEF IsSum

(* Sums of naturals are naturals, and do not become smaller.               *)
LEMMA Sums ==
  ASSUME NEW f, NEW m \in Nat, f[0] \in Nat,
         \A i \in 1..m : \E c \in Nat : f[i] = f[i - 1] + c
  PROVE  /\ \A i \in 0..m : f[i] \in Nat
         /\ \A i, j \in 0..m : i <= j => f[i] <= f[j]
<1>1. \A i \in 0..m : f[i] \in Nat
  <2> DEFINE S == {i \in Nat : i <= m => f[i] \in Nat}
  <2>1. 0 \in S
    OBVIOUS
  <2>2. ASSUME NEW i \in Nat, i \in S PROVE i + 1 \in S
    <3> SUFFICES ASSUME i + 1 <= m PROVE f[i + 1] \in Nat
      OBVIOUS
    <3>1. i + 1 \in 1..m /\ (i + 1) - 1 = i /\ f[i] \in Nat
      BY <2>2
    <3> QED BY <3>1
  <2> HIDE DEF S
  <2>3. Nat \subseteq S
    BY <2>1, <2>2, Induct
  <2> QED BY <2>3 DEF S
<1>2. ASSUME NEW i \in 0..m PROVE \A j \in 0..m : i <= j => f[i] <= f[j]
  <2> DEFINE S == {d \in Nat : i + d <= m => f[i] <= f[i + d]}
  <2>1. 0 \in S
    BY <1>1
  <2>2. ASSUME NEW d \in Nat, d \in S PROVE d + 1 \in S
    <3> SUFFICES ASSUME i + (d + 1) <= m PROVE f[i] <= f[i + (d + 1)]
      OBVIOUS
    <3> DEFINE j == i + d
    <3>1. i + (d + 1) = j + 1 /\ j + 1 \in 1..m /\ (j + 1) - 1 = j /\ j \in 0..m /\ f[i] <= f[j]
      BY <2>2
    <3> HIDE DEF j
    <3>2. PICK c \in Nat : f[j + 1] = f[j] + c
      BY <3>1
    <3>3. f[i] \in Nat /\ f[j] \in Nat
      BY <1>1, <3>1
    <3>4. f[i] <= f[j + 1]
      BY <3>1, <3>2, <3>3
    <3> QED BY <3>1, <3>4
  <2> HIDE DEF S
  <2>3. Nat \subseteq S
    BY <2>1, <2>2, Induct
  <2>4. \A d \in Nat : i + d <= m => f[i] <= f[i + d]
    BY <2>3 DEF S
  <2> TAKE j \in 0..m
  <2> HAVE i <= j
  <2>5. j - i \in Nat /\ i + (j - i) = j /\ i + (j - i) <= m
    OBVIOUS
  <2> DEFINE d == j - i
  <2>6. d \in Nat /\ i + d = j /\ i + d <= m
    BY <2>5
  <2> HIDE DEF d
  <2> QED BY <2>4, <2>6
<1> QED BY <1>1, <1>2
=============================================================================
