---------------------------- MODULE LayoutProofs ----------------------------
(***************************************************************************)
(* Proofs about ExtentMapNew, Layout and Layouts: the lists of extents     *)
(* that ExtentMapDataSource::new accepts are the tilings, those it rejects *)
(* are not, and a list grows by merge_extent without moving a byte.  On    *)
(* this rest the drivers: QCOW, VHDX and VHD images without a table of     *)
(* differences, VMDK, sparse bundles, split raw images, HFS forks and NTFS *)
(* attributes open exactly if their tables can be mapped, and every byte   *)
(* is then read from where these say.                                      *)
(***************************************************************************)
EXTENDS Layouts, RangeMapProofs, TLAPS

(* The strengthening of AcceptedTiles: the extents checked so far tile     *)
(* what they add up to, in every phase.                                    *)
CheckInv ==
  /\ entries \in Seq(Extents)
  /\ expected_logical_offset \in 0..MaxU64
  /\ Tiles(entries, expected_logical_offset)
  /\ phase = "err" => \E e \in Extents : rejected = <<e>> /\ ~IsGood(e)

LEMMA CheckedAreRanges ==
  ASSUME NEW s \in Seq(Extents)
  PROVE  IsRangeList(s)
<1>1. \A i \in 1..Len(s) : s[i] \in Extents
  OBVIOUS
<1> QED BY <1>1, ExtentMapNewAssumption DEF IsRangeList, IsRange

LEMMA CheckInvariance == Spec => []CheckInv
<1>1. Init => CheckInv
  BY ExtentMapNewAssumption DEF Init, CheckInv, Tiles
<1>2. CheckInv /\ [Next]_vars => CheckInv'
  <2> SUFFICES ASSUME CheckInv, [Next]_vars PROVE CheckInv'
    OBVIOUS
  <2>1. CASE \E e \in Extents : Check(e)
    <3>1. PICK e \in Extents : Check(e)
      BY <2>1
    <3>2. CASE IsGood(e)
      <4>1. e.logical_offset \in Nat /\ e.size \in Nat /\ expected_logical_offset \in Nat
            /\ IsRange(e)
        BY ExtentMapNewAssumption DEF CheckInv, IsRange
      <4>2. entries' = Append(entries, e)
            /\ expected_logical_offset' = expected_logical_offset + e.size
            /\ phase' = "check"
        BY <3>1, <3>2 DEF Check
      <4>3. Tiles(Append(entries, e), expected_logical_offset + e.size)
        BY <3>2, <4>1, TilesAppend, CheckedAreRanges DEF CheckInv, IsGood
      <4>4. expected_logical_offset + e.size \in 0..MaxU64
        BY <3>2, <4>1, ExtentMapNewAssumption DEF IsGood
      <4>5. Append(entries, e) \in Seq(Extents)
        BY DEF CheckInv
      <4> QED BY <4>2, <4>3, <4>4, <4>5 DEF CheckInv
    <3>3. CASE ~IsGood(e)
      BY <3>1, <3>3 DEF Check, CheckInv, IsGood
    <3> QED BY <3>2, <3>3
  <2>2. CASE Done
    BY <2>2 DEF Done, CheckInv, IsGood
  <2>3. CASE UNCHANGED vars
    BY <2>3 DEF vars, CheckInv, IsGood
  <2> QED BY <2>1, <2>2, <2>3 DEF Next
<1> QED BY <1>1, <1>2, PTL DEF Spec

(* The extents ExtentMapDataSource::new accepts tile the size it reports.  *)
THEOREM Accepted == Spec => []AcceptedTiles
<1>1. CheckInv => AcceptedTiles
  BY DEF CheckInv, AcceptedTiles
<1> QED BY <1>1, CheckInvariance, PTL

(* The extents it rejects tile no size that a u64 holds.                   *)
THEOREM Rejected == Spec => []RejectedDoNot
<1>1. CheckInv => RejectedDoNot
  <2> SUFFICES ASSUME CheckInv, phase = "err", NEW total \in 0..MaxU64
               PROVE  ~Tiles(entries \o rejected, total)
    BY DEF RejectedDoNot
  <2>1. PICK e \in Extents : rejected = <<e>> /\ ~IsGood(e)
    BY DEF CheckInv
  <2>2. entries \o rejected = Append(entries, e)
    BY <2>1 DEF CheckInv
  <2>3. e.logical_offset \in Nat /\ e.size \in Nat /\ expected_logical_offset \in Nat
        /\ IsRange(e) /\ MaxU64 \in Nat
    BY ExtentMapNewAssumption DEF CheckInv, IsRange
  <2>4. e.size = 0 \/ e.logical_offset # expected_logical_offset
        \/ expected_logical_offset + e.size > MaxU64
    BY <2>1, <2>3 DEF IsGood
  <2> QED BY <2>2, <2>3, <2>4, TilesNot, CheckedAreRanges DEF CheckInv
<1> QED BY <1>1, CheckInvariance, PTL

-----------------------------------------------------------------------------
(* How the drivers grow their lists.                                       *)

ExtentSet(Sources) ==
  [logical_offset : Nat, size : Nat, source : Sources, source_offset : Nat]

LEMMA ExtentsAreRanges ==
  ASSUME NEW Sources, NEW s \in Seq(ExtentSet(Sources))
  PROVE  /\ Len(s) \in Nat
         /\ \A i \in 1..Len(s) : /\ s[i] \in ExtentSet(Sources)
                                 /\ s[i].logical_offset \in Nat /\ s[i].size \in Nat
                                 /\ s[i].source_offset \in Nat
                                 /\ End(s[i]) = s[i].logical_offset + s[i].size
         /\ IsRangeList(s)
<1>1. Len(s) \in Nat /\ \A i \in 1..Len(s) : s[i] \in ExtentSet(Sources)
  OBVIOUS
<1>2. \A x \in ExtentSet(Sources) : x.logical_offset \in Nat /\ x.size \in Nat /\ x.source_offset \in Nat
  BY DEF ExtentSet
<1> QED BY <1>1, <1>2 DEF IsRangeList, IsRange, End

(* On ranges that tile, the range that holds an offset is the one found.   *)
LEMMA FoundIn ==
  ASSUME NEW Sources, NEW s \in Seq(ExtentSet(Sources)), NEW total \in Nat, Tiles(s, total),
         NEW o \in 0..(total - 1),
         NEW i \in 1..Len(s), s[i].logical_offset <= o, o < End(s[i])
  PROVE  Found(s, o) = Target(s[i].source, s[i].source_offset + o - s[i].logical_offset)
<1> DEFINE k == find_entry(s, o)
<1>1. k \in 1..Len(s) /\ s[k].logical_offset <= o /\ o < End(s[k])
  BY ExtentsAreRanges, FindEntry
<1> HIDE DEF k
<1>2. /\ \A j \in 1..Len(s) : s[j].logical_offset \in Nat /\ End(s[j]) \in Nat
      /\ Len(s) \in Nat
  BY ExtentsAreRanges
<1>3. ~(k < i)
  <2> SUFFICES ASSUME k < i PROVE FALSE
    OBVIOUS
  <2>1. End(s[k]) <= s[i].logical_offset
    BY <1>1 DEF Tiles
  <2> QED BY <1>1, <1>2, <2>1
<1>4. ~(i < k)
  <2> SUFFICES ASSUME i < k PROVE FALSE
    OBVIOUS
  <2>1. End(s[i]) <= s[k].logical_offset
    BY <1>1 DEF Tiles
  <2> QED BY <1>1, <1>2, <2>1
<1>5. k = i
  BY <1>1, <1>2, <1>3, <1>4
<1> QED BY <1>5 DEF Found, k

(* An extent that grows.                                                   *)
LEMMA Grown ==
  ASSUME NEW Sources, NEW e \in ExtentSet(Sources), NEW n \in Nat
  PROVE  /\ e.size \in Nat /\ e.logical_offset \in Nat
         /\ [e EXCEPT !.size = @ + n] \in ExtentSet(Sources)
         /\ [e EXCEPT !.size = @ + n].size = e.size + n
         /\ [e EXCEPT !.size = @ + n].logical_offset = e.logical_offset
         /\ [e EXCEPT !.size = @ + n].source = e.source
         /\ [e EXCEPT !.size = @ + n].source_offset = e.source_offset
<1>1. e.size \in Nat /\ e.size + n \in Nat /\ e.logical_offset \in Nat
  BY DEF ExtentSet
<1> QED BY <1>1 DEF ExtentSet

(* The last extent of a tiling grows by n: the list still tiles.           *)
LastGrown(s, n) == [s EXCEPT ![Len(s)].size = @ + n]

LEMMA TilesGrow ==
  ASSUME NEW Sources, NEW s \in Seq(ExtentSet(Sources)), s # <<>>,
         NEW total \in Nat, Tiles(s, total), End(s[Len(s)]) = total, NEW n \in Nat
  PROVE  /\ Len(LastGrown(s, n)) = Len(s)
         /\ \A i \in 1..(Len(s) - 1) : LastGrown(s, n)[i] = s[i]
         /\ LastGrown(s, n)[Len(s)] = [s[Len(s)] EXCEPT !.size = @ + n]
         /\ LastGrown(s, n) \in Seq(ExtentSet(Sources))
         /\ Tiles(LastGrown(s, n), total + n)
<1> DEFINE u == LastGrown(s, n)
           m == Len(s)
           last == s[m]
           grown == [last EXCEPT !.size = @ + n]
<1>1. m \in Nat /\ m \in 1..m /\ \A i \in 1..m : s[i] \in ExtentSet(Sources)
  OBVIOUS
<1>2. /\ last \in ExtentSet(Sources) /\ last.size \in Nat /\ last.logical_offset \in Nat
      /\ grown \in ExtentSet(Sources)
      /\ grown.size = last.size + n /\ grown.logical_offset = last.logical_offset
  BY <1>1, Grown
<1>3. u = [s EXCEPT ![m] = grown]
  BY DEF LastGrown
<1> HIDE DEF grown, u
<1>4. Len(u) = m /\ u \in Seq(ExtentSet(Sources)) /\ u[m] = grown /\ \A i \in 1..(m - 1) : u[i] = s[i]
  <2>1. s \in [1..m -> ExtentSet(Sources)]
    OBVIOUS
  <2>2. u \in [1..m -> ExtentSet(Sources)] /\ u[m] = grown /\ \A i \in 1..m : i # m => u[i] = s[i]
    BY <1>1, <1>2, <1>3, <2>1
  <2>3. u \in Seq(ExtentSet(Sources)) /\ Len(u) = m
    BY <1>1, <2>2
  <2>4. \A i \in 1..(m - 1) : i \in 1..m /\ i # m
    BY <1>1
  <2> QED BY <2>2, <2>3, <2>4
<1>5. End(last) = total /\ End(grown) = total + n /\ last.size > 0
  <2>1. End(last) = total /\ End(last) = last.logical_offset + last.size
    BY DEF End
  <2>2. End(grown) = total + n
    BY <1>2, <2>1 DEF End
  <2>3. last.size > 0
    BY <1>1 DEF Tiles
  <2> QED BY <2>1, <2>2, <2>3
<1>6. \A i \in 1..m : i = m \/ i \in 1..(m - 1)
  BY <1>1
<1>7. \A i \in 1..m : /\ s[i].logical_offset \in Nat /\ s[i].size \in Nat
                      /\ End(s[i]) \in Nat
                      /\ u[i].logical_offset = s[i].logical_offset
                      /\ u[i].size >= s[i].size /\ End(u[i]) >= End(s[i])
                      /\ u[i].size \in Nat /\ End(u[i]) \in Nat
  <2> SUFFICES ASSUME NEW i \in 1..m
               PROVE  /\ s[i].logical_offset \in Nat /\ s[i].size \in Nat
                      /\ End(s[i]) \in Nat
                      /\ u[i].logical_offset = s[i].logical_offset
                      /\ u[i].size >= s[i].size /\ End(u[i]) >= End(s[i])
                      /\ u[i].size \in Nat /\ End(u[i]) \in Nat
    OBVIOUS
  <2>1. s[i].logical_offset \in Nat /\ s[i].size \in Nat /\ End(s[i]) \in Nat
    BY <1>1 DEF ExtentSet, End
  <2>2. CASE i = m
    BY <1>2, <1>4, <2>1, <2>2 DEF End
  <2>3. CASE i \in 1..(m - 1)
    BY <1>4, <2>1, <2>3
  <2> QED BY <1>6, <2>2, <2>3
<1>8. \A i \in 1..m : u[i].size > 0 /\ End(u[i]) <= total + n
  <2> SUFFICES ASSUME NEW i \in 1..m PROVE u[i].size > 0 /\ End(u[i]) <= total + n
    OBVIOUS
  <2>1. s[i].size > 0 /\ End(s[i]) <= total
    BY DEF Tiles
  <2>2. CASE i = m
    <3>1. u[i] = grown /\ grown.size > 0 /\ End(grown) = total + n
      BY <1>2, <1>4, <1>5, <2>2
    <3>2. u[i].size > 0 /\ End(u[i]) = total + n
      BY <3>1, Zenon
    <3> QED BY <3>2
  <2>3. CASE i \in 1..(m - 1)
    <3>1. u[i] = s[i]
      BY <1>4, <2>3
    <3> QED BY <1>7, <2>1, <3>1
  <2> QED BY <1>6, <2>2, <2>3
<1>9. \A i, j \in 1..m : i < j => End(u[i]) <= u[j].logical_offset
  <2> SUFFICES ASSUME NEW i \in 1..m, NEW j \in 1..m, i < j PROVE End(u[i]) <= u[j].logical_offset
    OBVIOUS
  <2>1. i \in 1..(m - 1)
    BY <1>1
  <2>2. u[i] = s[i] /\ u[j].logical_offset = s[j].logical_offset
    BY <1>4, <1>7, <2>1
  <2>3. End(s[i]) <= s[j].logical_offset
    BY DEF Tiles
  <2> QED BY <2>2, <2>3
<1>10. \A p \in 0..(total + n - 1) : \E i \in 1..m : u[i].logical_offset <= p /\ p < End(u[i])
  <2> SUFFICES ASSUME NEW p \in 0..(total + n - 1)
               PROVE  \E i \in 1..m : u[i].logical_offset <= p /\ p < End(u[i])
    OBVIOUS
  <2>1. CASE p < total
    <3>1. p \in 0..(total - 1)
      BY <2>1
    <3>2. PICK i \in 1..m : s[i].logical_offset <= p /\ p < End(s[i])
      BY <3>1 DEF Tiles
    <3>3. u[i].logical_offset <= p /\ p < End(u[i])
      <4>1. /\ u[i].logical_offset = s[i].logical_offset
            /\ End(u[i]) >= End(s[i]) /\ End(u[i]) \in Nat /\ End(s[i]) \in Nat /\ p \in Nat
        BY <1>7
      <4> QED BY <3>2, <4>1
    <3> QED BY <3>3
  <2>2. CASE total <= p
    <3>1. u[m].logical_offset <= p /\ p < End(u[m])
      BY <1>2, <1>4, <1>5, <2>2 DEF End
    <3> QED BY <1>1, <3>1
  <2>3. p < total \/ total <= p
    OBVIOUS
  <2> QED BY <2>1, <2>2, <2>3
<1>11. Tiles(u, total + n)
  <2>1. Len(u) = m
    BY <1>4
  <2> HIDE DEF m
  <2>2. /\ \A i \in 1..Len(u) : u[i].size > 0 /\ End(u[i]) <= total + n
        /\ \A i, j \in 1..Len(u) : i < j => End(u[i]) <= u[j].logical_offset
        /\ \A p \in 0..(total + n - 1) : \E i \in 1..Len(u) : u[i].logical_offset <= p /\ p < End(u[i])
    BY <1>8, <1>9, <1>10, <2>1
  <2> QED BY <2>2 DEF Tiles
<1> QED BY <1>4, <1>11 DEF grown, u

(* An extent that begins where the list ends is joined to the last one, if *)
(* that one goes on there in its source, or added.                         *)
LEMMA JoinedExtent ==
  ASSUME NEW Sources, NEW list \in Seq(ExtentSet(Sources)), NEW total \in Nat, Tiles(list, total),
         NEW e \in ExtentSet(Sources), e.logical_offset = total, e.size # 0,
         NEW can \in BOOLEAN, list # <<>> /\ can => can_merge(list[Len(list)], e)
  PROVE  /\ Joined(list, e, can) \in Seq(ExtentSet(Sources))
         /\ Tiles(Joined(list, e, can), total + e.size)
         /\ \A o \in 0..(total - 1) : Found(Joined(list, e, can), o) = Found(list, o)
         /\ \A o \in total..(total + e.size - 1) :
              Found(Joined(list, e, can), o) = Target(e.source, e.source_offset + o - total)
<1> DEFINE u == Joined(list, e, can)
           m == Len(list)
           last == list[m]
           joins == list # <<>> /\ can
           all == total + e.size
<1>1. /\ e.size \in Nat /\ e.size > 0 /\ e.source_offset \in Nat
      /\ End(e) = all /\ all \in Nat /\ total < all
  BY DEF ExtentSet, End
<1>2. /\ m \in Nat
      /\ \A i \in 1..m : /\ list[i] \in ExtentSet(Sources)
                         /\ list[i].logical_offset \in Nat /\ list[i].size \in Nat
                         /\ list[i].source_offset \in Nat
                         /\ End(list[i]) = list[i].logical_offset + list[i].size
  BY ExtentsAreRanges
<1>3. \A o \in 0..(total - 1) :
        \E i \in 1..m : list[i].logical_offset <= o /\ o < End(list[i]) /\ Found(list, o) =
                          Target(list[i].source, list[i].source_offset + o - list[i].logical_offset)
  <2> SUFFICES ASSUME NEW o \in 0..(total - 1)
               PROVE  \E i \in 1..m : list[i].logical_offset <= o /\ o < End(list[i]) /\ Found(list, o) =
                        Target(list[i].source, list[i].source_offset + o - list[i].logical_offset)
    OBVIOUS
  <2>1. PICK i \in 1..m : list[i].logical_offset <= o /\ o < End(list[i])
    BY DEF Tiles
  <2>2. Found(list, o) = Target(list[i].source, list[i].source_offset + o - list[i].logical_offset)
    BY <2>1, FoundIn
  <2> QED BY <2>1, <2>2
<1> DEFINE Right == /\ u \in Seq(ExtentSet(Sources))
                    /\ Tiles(u, all)
                    /\ \A o \in 0..(total - 1) : Found(u, o) = Found(list, o)
                    /\ \A o \in total..(all - 1) :
                         Found(u, o) = Target(e.source, e.source_offset + o - total)
<1> HIDE DEF all
<1>4. ASSUME ~joins PROVE Right
  <2>1. u = Append(list, e)
    BY <1>4 DEF Joined
  <2>2. u \in Seq(ExtentSet(Sources)) /\ Len(u) = m + 1 /\ u[m + 1] = e /\ \A i \in 1..m : u[i] = list[i]
    BY <1>2, <2>1
  <2>3. Tiles(u, all)
    <3>1. IsRangeList(list) /\ IsRange(e)
      BY ExtentsAreRanges DEF IsRange, ExtentSet
    <3>2. Tiles(Append(list, e), all)
      BY <1>1, <3>1, TilesAppend DEF all
    <3> QED BY <2>1, <3>2
  <2> HIDE DEF u
  <2>4. ASSUME NEW o \in 0..(total - 1) PROVE Found(u, o) = Found(list, o)
    <3>1. PICK i \in 1..m : list[i].logical_offset <= o /\ o < End(list[i]) /\ Found(list, o) =
                              Target(list[i].source, list[i].source_offset + o - list[i].logical_offset)
      BY <1>3
    <3>2. i \in 1..Len(u) /\ u[i] = list[i] /\ o \in 0..(all - 1)
      BY <1>1, <1>2, <2>2
    <3>3. Found(u, o) = Target(u[i].source, u[i].source_offset + o - u[i].logical_offset)
      BY <1>1, <2>2, <2>3, <3>1, <3>2, FoundIn
    <3> QED BY <3>1, <3>2, <3>3
  <2>5. ASSUME NEW o \in total..(all - 1)
        PROVE  Found(u, o) = Target(e.source, e.source_offset + o - total)
    <3>1. m + 1 \in 1..Len(u) /\ o \in 0..(all - 1)
      BY <1>1, <1>2, <2>2
    <3>2. u[m + 1].logical_offset <= o /\ o < End(u[m + 1])
      BY <1>1, <2>2
    <3>3. Found(u, o) = Target(u[m + 1].source, u[m + 1].source_offset + o - u[m + 1].logical_offset)
      BY <1>1, <2>2, <2>3, <3>1, <3>2, FoundIn
    <3> QED BY <2>2, <3>3
  <2> QED BY <2>2, <2>3, <2>4, <2>5
<1>5. ASSUME joins PROVE Right
  <2>1. /\ list # <<>> /\ last.source = e.source /\ End(last) = total
        /\ last.source = "zero" \/ last.source_offset + last.size = e.source_offset
    BY <1>5 DEF can_merge
  <2>2. u = LastGrown(list, e.size)
    BY <1>5 DEF Joined, LastGrown
  <2>3. m \in 1..m
    BY <2>1
  <2> HIDE DEF u
  <2>4. /\ Len(u) = m /\ u \in Seq(ExtentSet(Sources)) /\ Tiles(u, all)
        /\ \A i \in 1..(m - 1) : u[i] = list[i]
        /\ u[m] = [last EXCEPT !.size = @ + e.size]
    <3>1. e.size \in Nat /\ list # <<>> /\ End(list[Len(list)]) = total
      BY <1>1, <2>1
    <3> QED BY <2>2, <3>1, TilesGrow DEF all
  <2>5. /\ u[m].logical_offset = last.logical_offset /\ u[m].size = last.size + e.size
        /\ u[m].source = last.source /\ u[m].source_offset = last.source_offset
    BY <1>1, <1>2, <2>3, <2>4, Grown
  <2>6. End(u[m]) = all /\ End(last) = last.logical_offset + last.size
    BY <1>1, <1>2, <2>1, <2>3, <2>5 DEF End, all
  <2>7. ASSUME NEW o \in 0..(total - 1) PROVE Found(u, o) = Found(list, o)
    <3>1. PICK i \in 1..m : list[i].logical_offset <= o /\ o < End(list[i]) /\ Found(list, o) =
                              Target(list[i].source, list[i].source_offset + o - list[i].logical_offset)
      BY <1>3
    <3>2. /\ u[i].logical_offset = list[i].logical_offset /\ u[i].source = list[i].source
          /\ u[i].source_offset = list[i].source_offset
          /\ u[i].logical_offset <= o /\ o < End(u[i])
      <4>1. CASE i = m
        BY <1>1, <1>2, <2>1, <2>5, <2>6, <3>1, <4>1
      <4>2. CASE i \in 1..(m - 1)
        BY <2>4, <3>1, <4>2
      <4> QED BY <1>2, <4>1, <4>2
    <3>3. i \in 1..Len(u) /\ o \in 0..(all - 1)
      BY <1>1, <2>4
    <3>4. Found(u, o) = Target(u[i].source, u[i].source_offset + o - u[i].logical_offset)
      <4>1. all \in Nat /\ u \in Seq(ExtentSet(Sources)) /\ Tiles(u, all)
        BY <1>1, <2>4
      <4> QED BY <3>2, <3>3, <4>1, FoundIn
    <3> QED BY <3>1, <3>2, <3>4
  <2>8. ASSUME NEW o \in total..(all - 1)
        PROVE  Found(u, o) = Target(e.source, e.source_offset + o - total)
    <3>1. m \in 1..Len(u) /\ o \in 0..(all - 1)
      BY <1>1, <2>3, <2>4
    <3>2. last.logical_offset \in Nat /\ last.size \in Nat /\ last.source_offset \in Nat
      BY <1>2, <2>3
    <3>3. u[m].logical_offset <= o /\ o < End(u[m])
      BY <1>1, <2>1, <2>5, <2>6, <3>2
    <3>4. Found(u, o) = Target(u[m].source, u[m].source_offset + o - u[m].logical_offset)
      <4>1. all \in Nat /\ u \in Seq(ExtentSet(Sources)) /\ Tiles(u, all)
        BY <1>1, <2>4
      <4> QED BY <3>1, <3>3, <4>1, FoundIn
    <3>5. Found(u, o) = Target(e.source, last.source_offset + o - last.logical_offset)
      BY <2>1, <2>5, <3>4
    <3>6. CASE last.source = "zero"
      BY <2>1, <3>5, <3>6 DEF Target
    <3>7. CASE last.source_offset + last.size = e.source_offset
      <4>1. last.source_offset + o - last.logical_offset = e.source_offset + o - total
        <5>1. total = last.logical_offset + last.size /\ o \in Int
          BY <2>1, <2>6
        <5>2. /\ last.source_offset \in Int /\ last.logical_offset \in Int /\ last.size \in Int
              /\ e.source_offset = last.source_offset + last.size
          BY <3>2, <3>7
        <5> HIDE DEF last
        <5> QED BY <5>1, <5>2
      <4> QED BY <3>5, <4>1
    <3> QED BY <2>1, <3>6, <3>7
  <2> QED BY <2>4, <2>7, <2>8
<1>6. Right
  BY <1>4, <1>5
<1>7. Joined(list, e, can) \in Seq(ExtentSet(Sources)) /\ Tiles(Joined(list, e, can), total + e.size)
  BY <1>6 DEF all
<1>8. \A o \in 0..(total - 1) : Found(Joined(list, e, can), o) = Found(list, o)
  BY <1>6
<1>9. \A o \in total..(total + e.size - 1) :
        Found(Joined(list, e, can), o) = Target(e.source, e.source_offset + o - total)
  <2> SUFFICES ASSUME NEW o \in total..(total + e.size - 1)
               PROVE  Found(u, o) = Target(e.source, e.source_offset + o - total)
    OBVIOUS
  <2>1. o \in total..(all - 1)
    BY <1>1 DEF all
  <2> QED BY <1>6, <2>1
<1> QED BY <1>7, <1>8, <1>9

(* merge_extent (vmdk/mod.rs, and its copies in pdi, ext, fat and ntfs)    *)
(* given an extent that is not empty and begins where the list ends:       *)
(* whether the extent is joined to the last one or added, the list tiles   *)
(* the media up to its new end, every offset before it is read from the    *)
(* place it was read from, and the new offsets are read from the extent.   *)
THEOREM Merging ==
  ASSUME NEW Sources, NEW list \in Seq(ExtentSet(Sources)), NEW total \in Nat, Tiles(list, total),
         NEW e \in ExtentSet(Sources), e.logical_offset = total, e.size # 0
  PROVE  /\ Tiles(merge_extent(list, e), total + e.size)
         /\ \A o \in 0..(total - 1) : Found(merge_extent(list, e), o) = Found(list, o)
         /\ \A o \in total..(total + e.size - 1) :
              Found(merge_extent(list, e), o) = Target(e.source, e.source_offset + o - total)
<1> DEFINE can == IF list = <<>> THEN FALSE ELSE can_merge(list[Len(list)], e)
<1>1. can \in BOOLEAN /\ (list # <<>> /\ can => can_merge(list[Len(list)], e))
  BY DEF can_merge
<1>2. merge_extent(list, e) = Joined(list, e, can)
  BY DEF merge_extent
<1> HIDE DEF can
<1> QED BY <1>1, <1>2, JoinedExtent

-----------------------------------------------------------------------------
(* What the drivers make of their tables, up to the source that is opened. *)

(* The sources of extents.  The literals are strings, which the provers do *)
(* not know.                                                               *)
Names == STRING \cup {"zero", "file", "volume"}

(* What the loops take for an image that can be mapped, which is that no   *)
(* round is refused, and where they look for a byte.  How this compares    *)
(* with what the formats say follows after the loops.                      *)
QcowMappable ==
  /\ ~layout.backing
  /\ \A c \in 0..(Ceil(layout.size, layout.block) - 1) : ~QcowUnmappable(c)

VhdxMappable ==
  /\ ~VhdxUnsupported
  /\ \A c \in 0..(Ceil(layout.size, layout.block) - 1) : ~VhdxUnmappable(c)

VmdkMappable ==
  /\ ~VmdkUnsupported
  /\ layout.cowd \/ Ceil(layout.capacity, layout.per_table * layout.block) <= Len(VmdkDirectory.tables)
  /\ \A g \in 0..(Ceil(layout.size, layout.block) - 1) : ~VmdkUnmappable(g)
  /\ ~VmdkTurnedDown

SparseBundleMappable ==
  /\ \E i \in 1..Len(layout.plists) : layout.plists[i]
  /\ \A i \in 0..(BandCount - 1) : ~BandFileRefused(i)

SplitRawMappable ==
  /\ layout.schema
  /\ SplitRawCount > 0
  /\ 1..SplitRawCount \subseteq DOMAIN layout.files
  /\ layout.fixed = 0 => SplitRawCount < layout.names
  /\ \A n \in 1..SplitRawCount : SegmentFile(n).size # 0
  /\ \A n \in 1..(SplitRawCount - 1) : SegmentFile(n).size = SegmentFile(1).size
  /\ SplitRawSize <= MaxU64

HfsMappable ==
  \/ layout.size = 0
  \/ /\ HfsSum >= HfsNumber
     /\ HfsTotal[Len(layout.parts)] * layout.block >= layout.size
     /\ \A i \in 1..Len(layout.parts) :
          layout.parts[i].count > 0 \/ HfsTotal[i] * layout.block >= layout.size

NtfsMappable ==
  /\ ~layout.compressed
  /\ \A i \in 1..Len(layout.runs) :
       /\ NtfsLogical[i] * layout.block <= MaxU64
       /\ NtfsHolds(i) => /\ layout.first_vcn = 0
                          /\ \/ layout.runs[i].sparse
                             \/ NtfsCluster[i] * layout.block \in 0..MaxU64

Mappable ==
  CASE layout.format = "qcow"         -> QcowMappable
    [] layout.format = "vhd"          -> TRUE
    [] layout.format = "vhdx"         -> VhdxMappable
    [] layout.format = "vmdk"         -> VmdkMappable
    [] layout.format = "sparsebundle" -> SparseBundleMappable
    [] layout.format = "splitraw"     -> SplitRawMappable
    [] layout.format = "ntfs"         -> NtfsMappable
    [] layout.format = "hfs"          -> HfsMappable

QcowCoded(o) ==
  IF QcowSparse(o \div layout.block) THEN ZeroTarget
  ELSE Target("file", QcowEntry(o \div layout.block).offset + (o % layout.block))

VhdxCoded(o) ==
  IF VhdxEntry(o \div layout.block).state < 6 THEN ZeroTarget
  ELSE Target("file", VhdxEntry(o \div layout.block).offset + (o % layout.block))

Coded(o) == CASE layout.format = "qcow" -> QcowCoded(o)
              [] layout.format = "vhdx" -> VhdxCoded(o)
              [] OTHER -> Declared(o)

(* The list maps every offset below total as the loop has it.              *)
Maps(list, total) ==
  /\ list \in Seq(ExtentSet(Names))
  /\ Tiles(list, total)
  /\ \A o \in 0..(total - 1) : Found(list, o) = Coded(o)

(* The list handed to new is the declared one, if there is one, and no     *)
(* tiling if there is none.                                                *)
Handed ==
  /\ extents \in Seq(ExtentSet(Names))
  /\ Mappable => DeclaredSize \in 0..MaxU64 /\ Maps(extents, DeclaredSize)
  /\ ~Mappable => \A total \in 0..MaxU64 : ~Tiles(extents, total)

CheckedSoFar ==
  /\ entries \in Seq(ExtentSet(Names))
  /\ Len(entries) <= Len(extents)
  /\ \A i \in 1..Len(entries) : entries[i] = extents[i]
  /\ expected_logical_offset \in 0..MaxU64
  /\ Tiles(entries, expected_logical_offset)

NewInv ==
  /\ phase \in {"check", "ok", "err"}
  /\ phase = "check" => Handed /\ CheckedSoFar
  /\ phase = "ok" => Mappable /\ Maps(entries, DeclaredSize)
  /\ phase = "err" => ~Mappable

Fresh == entries = <<>> /\ expected_logical_offset = 0 /\ phase = "check"

(* The extent after those that tile x begins at x.                         *)
LEMMA NextIsGood ==
  ASSUME NEW s, IsRangeList(s), NEW total \in Nat, Tiles(s, total),
         NEW k \in Nat, k < Len(s), NEW x \in Nat,
         \A i \in 1..k : End(s[i]) <= x,
         \A p \in 0..(x - 1) : \E i \in 1..k : s[i].logical_offset <= p /\ p < End(s[i])
  PROVE  s[k + 1].size # 0 /\ s[k + 1].logical_offset = x /\ x + s[k + 1].size <= total
<1> DEFINE n == Len(s)
           e == s[k + 1]
<1>1. n \in Nat /\ k + 1 \in 1..n /\ \A i \in 1..k : i \in 1..n /\ i < k + 1
  BY DEF IsRangeList
<1>2. \A i \in 1..n : s[i].logical_offset \in Nat /\ s[i].size \in Nat /\ End(s[i]) \in Nat
                      /\ End(s[i]) = s[i].logical_offset + s[i].size
  BY DEF IsRangeList, IsRange, End
<1>3. \A i \in 1..n : s[i].size > 0 /\ End(s[i]) <= total
  BY DEF Tiles
<1>4. \A i, j \in 1..n : i < j => End(s[i]) <= s[j].logical_offset
  BY DEF Tiles
<1>5. \A p \in 0..(total - 1) : \E i \in 1..n : s[i].logical_offset <= p /\ p < End(s[i])
  BY DEF Tiles
<1> HIDE DEF n
<1>6. e.logical_offset \in Nat /\ e.size \in Nat /\ e.size > 0 /\ e.logical_offset + e.size <= total
  BY <1>1, <1>2, <1>3
<1>7. e.logical_offset >= x
  <2> SUFFICES ASSUME e.logical_offset < x PROVE FALSE
    BY <1>6
  <2>1. x - 1 \in 0..(x - 1)
    BY <1>6
  <2>2. PICK i \in 1..k : s[i].logical_offset <= x - 1 /\ x - 1 < End(s[i])
    BY <2>1
  <2>3. End(s[i]) <= e.logical_offset /\ End(s[i]) \in Nat
    BY <1>1, <1>2, <1>4
  <2> QED BY <1>6, <2>2, <2>3
<1>8. e.logical_offset <= x
  <2> SUFFICES ASSUME x < e.logical_offset PROVE FALSE
    BY <1>6
  <2>1. x \in 0..(total - 1)
    BY <1>6
  <2>2. PICK i \in 1..n : s[i].logical_offset <= x /\ x < End(s[i])
    BY <1>5, <2>1
  <2>3. ~(i \in 1..k)
    BY <1>1, <1>2, <2>2
  <2>4. i = k + 1 \/ k + 1 < i
    BY <1>1, <2>3
  <2>5. CASE k + 1 < i
    <3>1. End(e) <= s[i].logical_offset /\ End(e) = e.logical_offset + e.size
      BY <1>1, <1>2, <1>4, <2>5
    <3>2. s[i].logical_offset \in Nat
      BY <1>2
    <3> QED BY <1>6, <2>2, <3>1, <3>2
  <2>6. CASE i = k + 1
    BY <1>6, <2>2, <2>6
  <2> QED BY <2>4, <2>5, <2>6
<1>9. e.logical_offset = x
  BY <1>6, <1>7, <1>8
<1> QED BY <1>6, <1>9

(* Two lists with the same extents.                                        *)
LEMMA SameExtents ==
  ASSUME NEW S, NEW s \in Seq(S), NEW t \in Seq(S), Len(s) = Len(t),
         \A i \in 1..Len(s) : s[i] = t[i]
  PROVE  s = t
OBVIOUS


(* A step that leaves the tables alone.                                    *)
SameTables ==
  /\ layout' = layout
  /\ Mappable' <=> Mappable
  /\ DeclaredSize' = DeclaredSize
  /\ \A o \in Nat : Coded(o)' = Coded(o)

(* Maps, of the tables after the step.                                     *)
MapsNext(list, total) ==
  /\ list \in Seq(ExtentSet(Names))
  /\ Tiles(list, total)
  /\ \A o \in 0..(total - 1) : Found(list, o) = Coded(o)'

LEMMA SameMaps ==
  ASSUME SameTables, NEW list, NEW total \in Nat, Maps(list, total)
  PROVE  MapsNext(list, total)
<1>1. \A o \in 0..(total - 1) : o \in Nat
  OBVIOUS
<1> QED BY <1>1 DEF SameTables, Maps, MapsNext

(* ExtentMapDataSource::new opens what it was handed if the tables are     *)
(* usable, and nothing else.                                               *)
LEMMA NewStep ==
  ASSUME NewInv, New, SameTables
  PROVE  NewInv'
<1>1. phase = "check" /\ UNCHANGED <<layout, at, extents, step>>
  BY DEF New, Check, Done, walkVars
<1>2. Handed /\ CheckedSoFar
  BY <1>1 DEF NewInv
<1>3. /\ Len(entries) \in Nat /\ Len(extents) \in Nat
      /\ entries \in Seq(ExtentSet(Names)) /\ extents \in Seq(ExtentSet(Names))
      /\ expected_logical_offset \in Nat /\ MaxU64 \in Nat
  BY <1>2, ExtentMapNewAssumption DEF Handed, CheckedSoFar
<1>4. IsRangeList(entries) /\ IsRangeList(extents)
  BY <1>3, ExtentsAreRanges
<1>5. Handed'
  <2>1. CASE Mappable
    <3>1. DeclaredSize \in 0..MaxU64 /\ DeclaredSize \in Nat /\ Maps(extents, DeclaredSize)
      BY <1>2, <1>3, <2>1 DEF Handed
    <3>2. MapsNext(extents, DeclaredSize)
      BY <3>1, SameMaps
    <3> QED BY <1>1, <1>3, <2>1, <3>1, <3>2 DEF Handed, Maps, MapsNext, SameTables
  <2>2. CASE ~Mappable
    BY <1>1, <1>2, <1>3, <2>2 DEF Handed, SameTables
  <2> QED BY <2>1, <2>2
<1>6. CASE Len(entries) < Len(extents)
  <2> DEFINE e == extents[Len(entries) + 1]
  <2>1. Check(e)
    BY <1>6 DEF New
  <2>2. e \in ExtentSet(Names) /\ e.logical_offset \in Nat /\ e.size \in Nat /\ IsRange(e)
    <3>1. Len(entries) + 1 \in 1..Len(extents)
      BY <1>3, <1>6
    <3> QED BY <1>3, <3>1, ExtentsAreRanges DEF IsRange
  <2>3. CASE IsGood(e)
    <3>1. /\ entries' = Append(entries, e) /\ phase' = "check"
          /\ expected_logical_offset' = expected_logical_offset + e.size
      BY <1>1, <2>1, <2>3 DEF Check
    <3>2. Tiles(Append(entries, e), expected_logical_offset + e.size)
      BY <1>2, <1>3, <1>4, <2>2, <2>3, TilesAppend DEF CheckedSoFar, IsGood
    <3>3. expected_logical_offset + e.size \in 0..MaxU64
      BY <1>3, <2>2, <2>3 DEF IsGood
    <3>4. /\ Append(entries, e) \in Seq(ExtentSet(Names))
          /\ Len(Append(entries, e)) = Len(entries) + 1
      BY <1>3, <2>2
    <3>5. \A i \in 1..Len(entries) + 1 : Append(entries, e)[i] = extents[i]
      <4> SUFFICES ASSUME NEW i \in 1..Len(entries) + 1 PROVE Append(entries, e)[i] = extents[i]
        OBVIOUS
      <4>1. CASE i = Len(entries) + 1
        BY <1>3, <4>1
      <4>2. CASE i \in 1..Len(entries)
        BY <1>2, <1>3, <4>2 DEF CheckedSoFar
      <4> QED BY <1>3, <4>1, <4>2
    <3>6. CheckedSoFar'
      BY <1>1, <1>3, <1>6, <3>1, <3>2, <3>3, <3>4, <3>5 DEF CheckedSoFar
    <3> QED BY <1>5, <3>1, <3>6 DEF NewInv
  <2>4. CASE ~IsGood(e)
    <3>1. phase' = "err"
      BY <2>1, <2>4 DEF Check
    <3>2. ~Mappable
      <4> SUFFICES ASSUME Mappable PROVE FALSE
        OBVIOUS
      <4>1. DeclaredSize \in Nat /\ DeclaredSize <= MaxU64 /\ Tiles(extents, DeclaredSize)
        BY <1>2, <1>3 DEF Handed, Maps
      <4>2. \A i \in 1..Len(entries) : entries[i] = extents[i]
        BY <1>2 DEF CheckedSoFar
      <4>3. /\ \A i \in 1..Len(entries) : End(entries[i]) <= expected_logical_offset
            /\ \A p \in 0..(expected_logical_offset - 1) :
                 \E i \in 1..Len(entries) : entries[i].logical_offset <= p /\ p < End(entries[i])
        BY <1>2 DEF CheckedSoFar, Tiles
      <4>4. /\ \A i \in 1..Len(entries) : End(extents[i]) <= expected_logical_offset
            /\ \A p \in 0..(expected_logical_offset - 1) :
                 \E i \in 1..Len(entries) : extents[i].logical_offset <= p /\ p < End(extents[i])
        BY <4>2, <4>3
      <4>5. e.size # 0 /\ e.logical_offset = expected_logical_offset
            /\ expected_logical_offset + e.size <= DeclaredSize
        BY <1>3, <1>4, <1>6, <4>1, <4>4, NextIsGood
      <4> QED BY <1>3, <2>2, <2>4, <4>1, <4>5 DEF IsGood
    <3> QED BY <3>1, <3>2 DEF NewInv, SameTables
  <2> QED BY <2>3, <2>4
<1>7. CASE ~(Len(entries) < Len(extents))
  <2>1. phase' = "ok" /\ entries' = entries
    BY <1>7 DEF New, Done
  <2>2. Len(entries) = Len(extents) /\ \A i \in 1..Len(entries) : entries[i] = extents[i]
    BY <1>2, <1>3, <1>7 DEF CheckedSoFar
  <2>3. entries = extents
    BY <1>3, <2>2, SameExtents
  <2>4. Tiles(extents, expected_logical_offset)
    BY <1>2, <2>3 DEF CheckedSoFar
  <2>5. Mappable
    BY <1>2, <2>4 DEF Handed, CheckedSoFar
  <2>6. Mappable' /\ Maps(extents, DeclaredSize)'
    BY <1>5, <2>5 DEF Handed, SameTables
  <2>7. Maps(entries, DeclaredSize)'
    <3>1. entries' = extents'
      BY <1>1, <2>1, <2>3
    <3> QED BY <2>6, <3>1 DEF Maps
  <2> QED BY <2>1, <2>6, <2>7 DEF NewInv
<1> QED BY <1>6, <1>7

LEMMA MapsLonger ==
  ASSUME NEW list, NEW longer, NEW total \in Nat, NEW n \in Nat, Maps(list, total),
         longer \in Seq(ExtentSet(Names)), Tiles(longer, total + n),
         \A o \in 0..(total - 1) : Found(longer, o) = Found(list, o),
         \A o \in total..(total + n - 1) : Found(longer, o) = Coded(o)
  PROVE  Maps(longer, total + n)
<1>1. \A o \in 0..(total + n - 1) : Found(longer, o) = Coded(o)
  <2> SUFFICES ASSUME NEW o \in 0..(total + n - 1) PROVE Found(longer, o) = Coded(o)
    OBVIOUS
  <2>1. o \in 0..(total - 1) \/ o \in total..(total + n - 1)
    OBVIOUS
  <2> QED BY <2>1 DEF Maps
<1> QED BY <1>1 DEF Maps

(* The list grows by an extent that is where the tables say.               *)
LEMMA MapsJoined ==
  ASSUME NEW list, NEW total \in Nat, Maps(list, total),
         NEW e \in ExtentSet(Names), e.logical_offset = total, e.size # 0,
         NEW can \in BOOLEAN, list # <<>> /\ can => can_merge(list[Len(list)], e),
         \A o \in total..(total + e.size - 1) :
           Target(e.source, e.source_offset + o - total) = Coded(o)
  PROVE  Maps(Joined(list, e, can), total + e.size)
<1>1. list \in Seq(ExtentSet(Names)) /\ Tiles(list, total)
  BY DEF Maps
<1>2. /\ Joined(list, e, can) \in Seq(ExtentSet(Names))
      /\ Tiles(Joined(list, e, can), total + e.size)
      /\ \A o \in 0..(total - 1) : Found(Joined(list, e, can), o) = Found(list, o)
      /\ \A o \in total..(total + e.size - 1) :
           Found(Joined(list, e, can), o) = Target(e.source, e.source_offset + o - total)
  BY <1>1, JoinedExtent
<1>3. e.size \in Nat
  BY DEF ExtentSet
<1>4. \A o \in total..(total + e.size - 1) : Found(Joined(list, e, can), o) = Coded(o)
  BY <1>2
<1> QED BY <1>2, <1>3, <1>4, MapsLonger

LEMMA MapsAppend ==
  ASSUME NEW list, NEW total \in Nat, Maps(list, total),
         NEW e \in ExtentSet(Names), e.logical_offset = total, e.size # 0,
         \A o \in total..(total + e.size - 1) :
           Target(e.source, e.source_offset + o - total) = Coded(o)
  PROVE  Maps(Append(list, e), total + e.size)
<1>1. Joined(list, e, FALSE) = Append(list, e)
  BY DEF Joined
<1>2. Maps(Joined(list, e, FALSE), total + e.size)
  BY MapsJoined
<1> QED BY <1>1, <1>2

LEMMA MapsNothing == Maps(<<>>, 0)
<1>1. <<>> \in Seq(ExtentSet(Names)) /\ Len(<<>>) = 0
  OBVIOUS
<1> QED BY <1>1 DEF Maps, Tiles

-----------------------------------------------------------------------------
(* Media cut into blocks.                                                  *)

LEMMA DivMod ==
  ASSUME NEW b \in Nat \ {0}, NEW o \in Nat
  PROVE  /\ o \div b \in Nat /\ o % b \in 0..(b - 1)
         /\ o = (o \div b) * b + (o % b)
OBVIOUS

LEMMA Times ==
  ASSUME NEW b \in Nat, NEW x \in Nat, NEW y \in Nat
  PROVE  /\ x * b \in Nat /\ (x + 1) * b = x * b + b
         /\ x <= y => x * b <= y * b
OBVIOUS

LEMMA InBlock ==
  ASSUME NEW b \in Nat \ {0}, NEW c \in Nat, NEW o \in Nat, c * b <= o, o < c * b + b
  PROVE  o \div b = c /\ o % b = o - c * b
<1> DEFINE q == o \div b
           r == o % b
<1>1. q \in Nat /\ r \in 0..(b - 1) /\ o = q * b + r
  BY DivMod
<1> HIDE DEF q, r
<1>2. ~(q < c)
  <2> SUFFICES ASSUME q < c PROVE FALSE
    OBVIOUS
  <2>1. q + 1 <= c /\ q + 1 \in Nat
    BY <1>1
  <2>2. (q + 1) * b <= c * b /\ (q + 1) * b = q * b + b /\ q * b \in Nat /\ c * b \in Nat
    BY <1>1, <2>1, Times
  <2> QED BY <1>1, <2>2
<1>3. ~(c < q)
  <2> SUFFICES ASSUME c < q PROVE FALSE
    OBVIOUS
  <2>1. c + 1 <= q /\ c + 1 \in Nat
    BY <1>1
  <2>2. (c + 1) * b <= q * b /\ (c + 1) * b = c * b + b /\ q * b \in Nat /\ c * b \in Nat
    BY <1>1, <2>1, Times
  <2> QED BY <1>1, <2>2
<1>4. q = c
  BY <1>1, <1>2, <1>3
<1>5. c * b \in Nat
  BY Times
<1>6. r = o - c * b
  BY <1>1, <1>4, <1>5
<1> QED BY <1>4, <1>6 DEF q, r

(* The blocks that begin in the media are those below Ceil.                *)
LEMMA Blocks ==
  ASSUME NEW n \in Nat, NEW b \in Nat \ {0}, NEW c \in Nat
  PROVE  /\ Ceil(n, b) \in Nat
         /\ c < Ceil(n, b) <=> c * b < n
<1> DEFINE m == n + b - 1
           q == m \div b
           r == m % b
<1>1. m \in Nat
  OBVIOUS
<1> HIDE DEF m
<1>2. q \in Nat /\ r \in 0..(b - 1) /\ m = q * b + r
  BY <1>1, DivMod
<1> HIDE DEF q, r
<1>3. c * b \in Nat /\ q * b \in Nat
  BY <1>2, Times
<1>4. ASSUME c < q PROVE c * b < n
  <2>1. c + 1 <= q /\ c + 1 \in Nat
    BY <1>2, <1>4
  <2>2. (c + 1) * b <= q * b /\ (c + 1) * b = c * b + b
    BY <1>2, <2>1, Times
  <2>3. c * b + b <= n + b - 1
    BY <1>2, <1>3, <2>2 DEF m
  <2> QED BY <1>3, <2>3
<1>5. ASSUME ~(c < q) PROVE ~(c * b < n)
  <2>1. q <= c
    BY <1>2, <1>5
  <2>2. q * b <= c * b
    BY <1>2, <2>1, Times
  <2>3. n + b - 1 = q * b + r /\ r <= b - 1
    BY <1>2 DEF m
  <2>4. n <= q * b
    BY <1>2, <1>3, <2>3
  <2> QED BY <1>3, <2>2, <2>4
<1>6. Ceil(n, b) = q
  BY DEF Ceil, q, m
<1> QED BY <1>2, <1>4, <1>5, <1>6

(* What block c of the media adds to the c blocks before it.               *)
LEMMA OneBlock ==
  ASSUME NEW n \in Nat, NEW b \in Nat \ {0}, NEW c \in Nat, c * b < n,
         NEW w \in Nat, w = Least(b, n - c * b)
  PROVE  /\ c * b \in Nat /\ w # 0 /\ w <= b /\ c * b + w <= n
         /\ Least(c * b, n) = c * b
         /\ Least((c + 1) * b, n) = c * b + w
<1>1. c * b \in Nat /\ (c + 1) * b = c * b + b
  BY Times
<1> DEFINE cb == c * b
<1>2. cb \in Nat /\ cb < n /\ w = Least(b, n - cb)
  BY <1>1
<1> HIDE DEF cb
<1>3. w # 0 /\ w <= b /\ cb + w <= n /\ Least(cb, n) = cb /\ Least(cb + b, n) = cb + w
  BY <1>2 DEF Least
<1> QED BY <1>1, <1>3 DEF cb


(* The list is handed over to new.                                         *)
LEMMA HandOverStep ==
  ASSUME NEW list, HandOver(list), Fresh, SameTables, list \in Seq(ExtentSet(Names)),
         Mappable => DeclaredSize \in 0..MaxU64 /\ Maps(list, DeclaredSize),
         ~Mappable => \A total \in 0..MaxU64 : ~Tiles(list, total)
  PROVE  NewInv' /\ step' = "new"
<1>1. /\ extents' = list /\ step' = "new" /\ phase' = "check"
      /\ entries' = <<>> /\ expected_logical_offset' = 0
  BY DEF HandOver, Fresh, vars
<1>2. MaxU64 \in Nat
  BY ExtentMapNewAssumption
<1>3. Handed'
  <2>1. CASE Mappable
    <3>1. DeclaredSize \in 0..MaxU64 /\ DeclaredSize \in Nat /\ Maps(list, DeclaredSize)
      BY <1>2, <2>1
    <3>2. MapsNext(list, DeclaredSize)
      BY <3>1, SameMaps
    <3> QED BY <1>1, <2>1, <3>1, <3>2 DEF Handed, Maps, MapsNext, SameTables
  <2>2. CASE ~Mappable
    BY <1>1, <2>2 DEF Handed, SameTables
  <2> QED BY <2>1, <2>2
<1>4. CheckedSoFar'
  <2>1. <<>> \in Seq(ExtentSet(Names)) /\ Len(<<>>) = 0 /\ Tiles(<<>>, 0)
    BY DEF Tiles
  <2>2. Len(list) >= 0
    OBVIOUS
  <2> QED BY <1>1, <1>2, <2>1, <2>2 DEF CheckedSoFar
<1> QED BY <1>1, <1>3, <1>4 DEF NewInv

(* The last extent of a tiling ends where it ends.                         *)
LEMMA LastEnds ==
  ASSUME NEW Sources, NEW s \in Seq(ExtentSet(Sources)), s # <<>>,
         NEW total \in Nat, Tiles(s, total)
  PROVE  End(s[Len(s)]) = total
<1> DEFINE m == Len(s)
<1>1. m \in Nat /\ m \in 1..m /\ \A i \in 1..m : i = m \/ i < m
  OBVIOUS
<1>2. \A i \in 1..m : s[i].logical_offset \in Nat /\ s[i].size \in Nat
                      /\ End(s[i]) = s[i].logical_offset + s[i].size
  BY ExtentsAreRanges
<1>3. End(s[m]) <= total /\ s[m].size > 0
  BY <1>1 DEF Tiles
<1> SUFFICES ASSUME End(s[m]) < total PROVE FALSE
  BY <1>1, <1>2, <1>3
<1>4. total - 1 \in 0..(total - 1)
  BY <1>1, <1>2, <1>3
<1>5. PICK i \in 1..m : s[i].logical_offset <= total - 1 /\ total - 1 < End(s[i])
  BY <1>4 DEF Tiles
<1>6. CASE i = m
  BY <1>1, <1>2, <1>5, <1>6
<1>7. CASE i < m
  <2>1. End(s[i]) <= s[m].logical_offset
    BY <1>1, <1>7 DEF Tiles
  <2> QED BY <1>1, <1>2, <1>3, <1>5, <2>1
<1> QED BY <1>1, <1>6, <1>7

LEMMA DataIs ==
  ASSUME NEW x \in Nat, NEW n \in Nat, NEW source \in Names, NEW y \in Nat
  PROVE  /\ Data(x, n, source, y) \in ExtentSet(Names)
         /\ Data(x, n, source, y).logical_offset = x /\ Data(x, n, source, y).size = n
         /\ Data(x, n, source, y).source = source /\ Data(x, n, source, y).source_offset = y
BY DEF Data, ExtentSet

LEMMA ZeroIs ==
  ASSUME NEW x \in Nat, NEW n \in Nat
  PROVE  /\ Zero(x, n) \in ExtentSet(Names)
         /\ Zero(x, n).logical_offset = x /\ Zero(x, n).size = n
         /\ Zero(x, n).source = "zero" /\ Zero(x, n).source_offset = 0
<1>1. "zero" \in Names /\ 0 \in Nat
  BY DEF Names
<1> QED BY <1>1, DataIs DEF Zero

(* A round of a walk: the extent is where the tables say, and is joined to *)
(* the last one or added.                                                  *)
LEMMA JoinedRound ==
  ASSUME SameTables, NEW x \in Nat, Maps(extents, x),
         NEW e \in ExtentSet(Names), e.logical_offset = x, e.size # 0,
         \A o \in x..(x + e.size - 1) : Target(e.source, e.source_offset + o - x) = Coded(o),
         NEW can \in BOOLEAN, extents # <<>> /\ can => can_merge(extents[Len(extents)], e)
  PROVE  MapsNext(Joined(extents, e, can), x + e.size)
<1> DEFINE y == x + e.size
           u == Joined(extents, e, can)
<1>1. e.size \in Nat
  BY DEF ExtentSet
<1>2. Maps(u, x + e.size)
  BY MapsJoined
<1>3. y \in Nat /\ Maps(u, y)
  BY <1>1, <1>2
<1> HIDE DEF y, u
<1>4. MapsNext(u, y)
  BY <1>3, SameMaps
<1> QED BY <1>4 DEF u, y

(* In a walk block by block it is that of block c.                         *)
LEMMA BlockRound ==
  ASSUME SameTables, NEW n \in Nat, NEW b \in Nat \ {0}, NEW c \in Nat, c * b < n,
         Maps(extents, Least(c * b, n)),
         NEW e \in ExtentSet(Names), e.logical_offset = c * b, e.size = Least(b, n - c * b),
         \A o \in (c * b)..(c * b + e.size - 1) :
           Target(e.source, e.source_offset + o - c * b) = Coded(o),
         NEW can \in BOOLEAN, extents # <<>> /\ can => can_merge(extents[Len(extents)], e)
  PROVE  MapsNext(Joined(extents, e, can), Least((c + 1) * b, n))
<1> DEFINE x == c * b
<1>1. e.size \in Nat
  BY DEF ExtentSet
<1>2. x \in Nat /\ e.size # 0 /\ Least(x, n) = x /\ Least((c + 1) * b, n) = x + e.size
  BY <1>1, OneBlock
<1>3. \A o \in x..(x + e.size - 1) : Target(e.source, e.source_offset + o - x) = Coded(o)
  OBVIOUS
<1>4. Maps(extents, x) /\ e.logical_offset = x
  BY <1>2
<1> HIDE DEF x
<1>5. MapsNext(Joined(extents, e, can), x + e.size)
  BY <1>2, <1>3, <1>4, JoinedRound
<1> QED BY <1>2, <1>5

LEMMA MergeIsJoined ==
  ASSUME NEW list, NEW e
  PROVE  \E can \in BOOLEAN : /\ merge_extent(list, e) = Joined(list, e, can)
                              /\ list # <<>> /\ can => can_merge(list[Len(list)], e)
<1> DEFINE can == IF list = <<>> THEN FALSE ELSE can_merge(list[Len(list)], e)
<1>1. can \in BOOLEAN /\ (list # <<>> /\ can => can_merge(list[Len(list)], e))
  BY DEF can_merge
<1>2. merge_extent(list, e) = Joined(list, e, can)
  BY DEF merge_extent
<1> QED BY <1>1, <1>2

LEMMA AppendOne ==
  ASSUME NEW S, NEW s \in Seq(S), NEW e \in S
  PROVE  s \o <<e>> = Append(s, e)
OBVIOUS

-----------------------------------------------------------------------------
(* QCOW.                                                                   *)

QcowImage ==
  /\ layout.format = "qcow" /\ layout.size \in 0..MaxU64 /\ layout.block \in Nat \ {0}
  /\ layout.file \in Nat /\ layout.per_table \in Nat \ {0} /\ layout.references \in Nat
  /\ layout.tables \in Seq(Seq([offset : Nat, compressed : BOOLEAN]))

(* After so many clusters.                                                 *)
QcowWalk ==
  /\ at \in Nat /\ at <= Ceil(layout.size, layout.block)
  /\ Maps(extents, Least(at * layout.block, layout.size))
  /\ \A c \in 0..(at - 1) : ~QcowUnmappable(c)

LEMMA QcowIs ==
  ASSUME QcowImage
  PROVE  /\ layout.format = "qcow" /\ layout.size \in Nat /\ layout.size \in 0..MaxU64
         /\ layout.block \in Nat \ {0} /\ layout.file \in Nat
         /\ layout.per_table \in Nat \ {0} /\ layout.references \in Nat
         /\ layout.tables \in Seq(Seq([offset : Nat, compressed : BOOLEAN]))
         /\ Mappable <=> QcowMappable
         /\ DeclaredSize = layout.size
         /\ \A o : Coded(o) = QcowCoded(o)
<1>1. /\ layout.format = "qcow" /\ layout.size \in 0..MaxU64
      /\ layout.block \in Nat \ {0} /\ layout.file \in Nat
      /\ layout.per_table \in Nat \ {0} /\ layout.references \in Nat
      /\ layout.tables \in Seq(Seq([offset : Nat, compressed : BOOLEAN]))
  BY DEF QcowImage
<1>2. layout.size \in Nat
  BY <1>1, ExtentMapNewAssumption
<1>3. DeclaredSize = layout.size
  BY <1>1 DEF DeclaredSize
<1>4. Mappable <=> QcowMappable
  BY <1>1 DEF Mappable
<1>5. \A o : Coded(o) = QcowCoded(o)
  BY <1>1 DEF Coded
<1> QED BY <1>1, <1>2, <1>3, <1>4, <1>5

LEMMA QcowSame ==
  ASSUME QcowImage, layout' = layout
  PROVE  SameTables
<1>1. layout.format = "qcow"
  BY QcowIs
<1>2. Mappable' <=> Mappable
  BY <1>1 DEF Mappable, QcowMappable, QcowUnmappable, QcowTable, QcowEntry, QcowIndex, QcowShifts
<1>3. DeclaredSize' = DeclaredSize
  BY <1>1 DEF DeclaredSize
<1>4. \A o \in Nat : Coded(o)' = Coded(o)
  BY <1>1 DEF Coded, QcowCoded, QcowSparse, QcowTable, QcowEntry, QcowIndex, QcowShifts
<1> QED BY <1>2, <1>3, <1>4 DEF SameTables


(* What a cluster adds is what it declares.                                *)
LEMMA QcowAdds ==
  ASSUME QcowImage, ~QcowShifts, NEW c \in Nat, c * layout.block < layout.size, ~QcowUnmappable(c)
  PROVE  /\ QcowExtent(c) \in ExtentSet(Names)
         /\ QcowExtent(c).logical_offset = c * layout.block
         /\ QcowExtent(c).size = Least(layout.block, layout.size - c * layout.block)
         /\ \A o \in (c * layout.block)..(c * layout.block + QcowExtent(c).size - 1) :
              Target(QcowExtent(c).source, QcowExtent(c).source_offset + o - c * layout.block)
                = Coded(o)
<1> DEFINE e == QcowExtent(c)
           b == layout.block
           x == c * b
           w == Least(b, layout.size - x)
<1>1. /\ layout.size \in Nat /\ b \in Nat \ {0} /\ layout.per_table \in Nat \ {0}
      /\ layout.tables \in Seq(Seq([offset : Nat, compressed : BOOLEAN]))
  BY QcowIs
<1>2. x \in Nat /\ x < layout.size /\ w \in Nat /\ w <= b
  <2>1. x \in Nat
    BY <1>1, Times
  <2> HIDE DEF x
  <2>2. x < layout.size
    BY DEF x
  <2> QED BY <1>1, <2>1, <2>2 DEF Least
<1>3. ~QcowSparse(c) => QcowEntry(c).offset \in Nat
  <2> SUFFICES ASSUME ~QcowSparse(c) PROVE QcowEntry(c).offset \in Nat
    OBVIOUS
  <2> DEFINE i == QcowIndex(c) + 1
             j == (c % layout.per_table) + 1
  <2>1. c \div layout.per_table \in Nat /\ c % layout.per_table \in Nat
    <3>1. c \div layout.per_table \in Nat /\ c % layout.per_table \in 0..(layout.per_table - 1)
      BY <1>1, DivMod
    <3> QED BY <1>1, <3>1
  <2>2. i \in 1..Len(layout.tables)
    BY <1>1, <2>1 DEF QcowUnmappable, QcowIndex
  <2>3. layout.tables[i] \in Seq([offset : Nat, compressed : BOOLEAN])
    BY <1>1, <2>2
  <2>4. QcowTable(c) = layout.tables[i] /\ QcowTable(c) # <<>>
    BY DEF QcowTable, QcowSparse
  <2>5. j \in 1..Len(QcowTable(c))
    BY <2>1, <2>3, <2>4 DEF QcowUnmappable
  <2> DEFINE S == [offset : Nat, compressed : BOOLEAN]
  <2>6. QcowTable(c) \in Seq(S)
    BY <2>3, <2>4
  <2> HIDE DEF S, j
  <2>7. QcowTable(c)[j] \in S
    BY <2>5, <2>6
  <2>8. QcowTable(c)[j].offset \in Nat
    BY <2>7 DEF S
  <2> QED BY <2>8 DEF QcowEntry, j
<1>4. ASSUME NEW o \in x..(x + w - 1)
      PROVE  o \in Nat /\ o \div b = c /\ o % b = o - x
  <2>1. o \in Nat /\ x <= o /\ o < x + b
    BY <1>1, <1>2
  <2> QED BY <1>1, <2>1, InBlock
<1>5. CASE QcowSparse(c)
  <2>1. e = Zero(x, w)
    BY <1>5 DEF QcowExtent
  <2>2. /\ e \in ExtentSet(Names) /\ e.logical_offset = x /\ e.size = w
        /\ e.source = "zero" /\ e.source_offset = 0
    BY <1>2, <2>1, ZeroIs
  <2> HIDE DEF x, w, e
  <2>3. ASSUME NEW o \in x..(x + e.size - 1)
        PROVE  Target(e.source, e.source_offset + o - x) = Coded(o)
    <3>1. Coded(o) = ZeroTarget
      BY <1>4, <1>5, <2>2, QcowIs DEF QcowCoded
    <3> QED BY <2>2, <3>1 DEF Target, ZeroTarget
  <2> QED BY <2>2, <2>3 DEF x, w, e
<1>6. CASE ~QcowSparse(c)
  <2>1. e = Data(x, w, "file", QcowEntry(c).offset)
    BY <1>6 DEF QcowExtent
  <2>2. /\ e \in ExtentSet(Names) /\ e.logical_offset = x /\ e.size = w
        /\ e.source = "file" /\ e.source_offset = QcowEntry(c).offset
    <3>1. "file" \in Names /\ QcowEntry(c).offset \in Nat
      BY <1>3, <1>6 DEF Names
    <3> HIDE DEF x, w, e
    <3> QED BY <1>2, <2>1, <3>1, DataIs
  <2> HIDE DEF x, w, e
  <2>3. ASSUME NEW o \in x..(x + e.size - 1)
        PROVE  Target(e.source, e.source_offset + o - x) = Coded(o)
    <3>1. o \in Nat /\ o \div b = c /\ o % b = o - x
      BY <1>4, <2>2
    <3>2. Coded(o) = Target("file", QcowEntry(c).offset + (o % b))
      BY <1>6, <3>1, QcowIs DEF QcowCoded
    <3>3. QcowEntry(c).offset + (o - x) = QcowEntry(c).offset + o - x
      BY <1>2, <1>3, <1>6, <3>1
    <3> QED BY <2>2, <3>1, <3>2, <3>3
  <2> QED BY <2>2, <2>3 DEF x, w, e
<1> QED BY <1>5, <1>6


LEMMA QcowStep ==
  ASSUME QcowImage, ~QcowShifts, Fresh, QcowWalk, QcowOpen
  PROVE  /\ layout' = layout
         /\ \/ step' = "walk" /\ Fresh' /\ QcowWalk'
            \/ step' = "failed" /\ Fresh' /\ ~Mappable'
            \/ step' = "new" /\ NewInv'
<1> DEFINE b == layout.block
           n == layout.size
           e == QcowExtent(at)
           can == IF extents = <<>> THEN FALSE
                  ELSE \/ extents[Len(extents)].source = "zero" /\ e.source = "zero"
                       \/ can_merge(extents[Len(extents)], e)
<1>1. n \in Nat /\ n \in 0..MaxU64 /\ b \in Nat \ {0} /\ at \in Nat /\ at <= Ceil(n, b)
      /\ Maps(extents, Least(at * b, n)) /\ \A c \in 0..(at - 1) : ~QcowUnmappable(c)
  BY QcowIs DEF QcowWalk
<1>2. Ceil(n, b) \in Nat /\ (at < Ceil(n, b) <=> at * b < n)
  BY <1>1, Blocks
<1>3. layout' = layout
  BY DEF QcowOpen, Loop, LoopTo, Fail, HandOver, Round, Panic
<1>4. SameTables
  BY <1>3, QcowSame
<1>5. Mappable <=> ~layout.backing /\ \A c \in 0..(Ceil(n, b) - 1) : ~QcowUnmappable(c)
  BY QcowIs DEF QcowMappable
<1>6. \/ layout.backing /\ Fail
      \/ ~layout.backing /\ at >= Ceil(n, b) /\ HandOver(extents)
      \/ ~layout.backing /\ ~(at >= Ceil(n, b)) /\ QcowUnmappable(at) /\ Fail
      \/ ~(at >= Ceil(n, b)) /\ ~QcowUnmappable(at) /\ Round(QcowMerged(extents, e), at + 1)
  BY DEF QcowOpen, Loop, LoopTo, QcowDone
<1>7. CASE Fail /\ (layout.backing \/ (~(at >= Ceil(n, b)) /\ QcowUnmappable(at)))
  <2>1. step' = "failed" /\ Fresh'
    BY <1>7 DEF Fail, Fresh, vars
  <2>2. ~(at >= Ceil(n, b)) => at \in 0..(Ceil(n, b) - 1)
    BY <1>1, <1>2
  <2>3. ~Mappable
    BY <1>5, <1>7, <2>2
  <2> QED BY <1>3, <1>4, <2>1, <2>3 DEF SameTables
<1>8. CASE ~layout.backing /\ at >= Ceil(n, b) /\ HandOver(extents)
  <2>1. at = Ceil(n, b) /\ ~(at * b < n) /\ at * b \in Nat
    BY <1>1, <1>2, <1>8, Times
  <2>2. Least(at * b, n) = n
    BY <1>1, <2>1 DEF Least
  <2>3. Mappable
    BY <1>1, <1>5, <1>8, <2>1
  <2>4. Maps(extents, DeclaredSize) /\ DeclaredSize \in 0..MaxU64
    BY <1>1, <2>2, QcowIs
  <2>5. extents \in Seq(ExtentSet(Names))
    BY <2>4 DEF Maps
  <2>6. NewInv' /\ step' = "new"
    BY <1>4, <1>8, <2>3, <2>4, <2>5, HandOverStep
  <2> QED BY <1>3, <2>6
<1>9. CASE ~(at >= Ceil(n, b)) /\ ~QcowUnmappable(at) /\ Round(QcowMerged(extents, e), at + 1)
  <2> DEFINE x == at * b
  <2>1. at < Ceil(n, b) /\ x < n /\ x \in Nat
    BY <1>1, <1>2, <1>9, Times
  <2>2. /\ e \in ExtentSet(Names) /\ e.logical_offset = x /\ e.size = Least(b, n - x)
        /\ \A o \in x..(x + e.size - 1) : Target(e.source, e.source_offset + o - x) = Coded(o)
    BY <1>1, <1>9, <2>1, QcowAdds
  <2> HIDE DEF e
  <2>3. can \in BOOLEAN /\ (extents # <<>> /\ can => can_merge(extents[Len(extents)], e))
    <3>1. Least(x, n) = x
      BY <1>1, <2>1 DEF Least
    <3> HIDE DEF x
    <3>2. extents \in Seq(ExtentSet(Names)) /\ Tiles(extents, x)
      BY <1>1, <3>1 DEF Maps, x
    <3>3. extents # <<>> => End(extents[Len(extents)]) = x
      BY <2>1, <3>2, LastEnds
    <3> QED BY <2>2, <3>3 DEF can_merge
  <2>4. QcowMerged(extents, e) = Joined(extents, e, can)
    BY DEF QcowMerged
  <2> HIDE DEF can
  <2>5. MapsNext(Joined(extents, e, can), Least((at + 1) * b, n))
    BY <1>1, <1>4, <2>1, <2>2, <2>3, BlockRound
  <2>9. /\ extents' = Joined(extents, e, can) /\ at' = at + 1
        /\ step' = step /\ UNCHANGED vars
    BY <1>9, <2>4 DEF Round, e
  <2>11. Maps(extents, Least(at * layout.block, layout.size))'
    BY <1>3, <2>5, <2>9 DEF Maps, MapsNext
  <2>12. \A c \in 0..at : ~QcowUnmappable(c)
    <3>1. \A c \in 0..at : c = at \/ c \in 0..(at - 1)
      BY <1>1
    <3> QED BY <1>1, <1>9, <3>1
  <2>13. QcowWalk'
    <3>1. at' \in Nat /\ at' <= Ceil(n, b) /\ at' - 1 = at
      BY <1>1, <1>2, <2>1, <2>9
    <3>2. \A c \in 0..(at' - 1) : ~QcowUnmappable(c)'
      BY <1>3, <2>12, <3>1 DEF QcowUnmappable, QcowTable, QcowEntry, QcowIndex, QcowShifts
    <3> QED BY <1>3, <2>11, <3>1, <3>2 DEF QcowWalk
  <2>14. step' = "walk" /\ Fresh'
    BY <2>9 DEF Fresh, vars, QcowOpen, Loop, LoopTo, Walking
  <2> QED BY <1>3, <2>13, <2>14
<1> QED BY <1>6, <1>7, <1>8, <1>9


-----------------------------------------------------------------------------
(* VHDX without a parent: the entries of the sector bitmaps are skipped,   *)
(* and not read.                                                           *)

VhdxImage ==
  /\ layout.format = "vhdx" /\ layout.size \in 0..MaxU64 /\ layout.block \in Nat \ {0}
  /\ layout.flags \in Nat \ {2} /\ layout.entries_per_chunk \in Nat \ {0}
  /\ layout.entries \in Nat /\ Len(layout.bat) \in Nat
  /\ \A i \in 1..Len(layout.bat) : layout.bat[i].state \in Nat /\ layout.bat[i].offset \in Nat

VhdxWalk ==
  /\ at \in Nat /\ at <= Ceil(layout.size, layout.block)
  /\ Maps(extents, Least(at * layout.block, layout.size))
  /\ \A c \in 0..(at - 1) : ~VhdxUnmappable(c)

LEMMA VhdxIs ==
  ASSUME VhdxImage
  PROVE  /\ layout.size \in Nat /\ VhdxDiskType # "differential"
         /\ Mappable <=> ~VhdxUnsupported
                       /\ \A c \in 0..(Ceil(layout.size, layout.block) - 1) : ~VhdxUnmappable(c)
         /\ DeclaredSize = layout.size
         /\ \A o : Coded(o) = VhdxCoded(o)
<1>1. layout.format = "vhdx"
  BY DEF VhdxImage
<1>2. layout.size \in Nat
  BY ExtentMapNewAssumption DEF VhdxImage
<1>3. DeclaredSize = layout.size
  BY <1>1 DEF DeclaredSize
<1>4. Mappable <=> VhdxMappable
  BY <1>1 DEF Mappable
<1>5. \A o : Coded(o) = VhdxCoded(o)
  BY <1>1 DEF Coded
<1>6. VhdxDiskType # "differential"
  BY DEF VhdxImage, VhdxDiskType
<1> QED BY <1>2, <1>3, <1>4, <1>5, <1>6 DEF VhdxMappable

LEMMA VhdxSame ==
  ASSUME VhdxImage, layout' = layout
  PROVE  SameTables
<1>1. layout.format = "vhdx"
  BY DEF VhdxImage
<1>2. Mappable' <=> Mappable
  BY <1>1 DEF Mappable, VhdxMappable, VhdxUnsupported, NoHeader, NoRegions, ActiveHeader, VhdxUnmappable, VhdxDiskType, Unreadable,
              table_entry_index, bitmap_entry_index, UsesBitmap, VhdxEntry, VhdxBitmap, Chunk
<1>3. DeclaredSize' = DeclaredSize
  BY <1>1 DEF DeclaredSize
<1>4. \A o \in Nat : Coded(o)' = Coded(o)
  BY <1>1 DEF Coded, VhdxCoded, VhdxEntry, table_entry_index, VhdxDiskType, Chunk
<1> QED BY <1>2, <1>3, <1>4 DEF SameTables

(* table_entry_index counts the entries of the bitmaps before block b.     *)
LEMMA VhdxIndexIs ==
  ASSUME VhdxImage, NEW b \in Nat
  PROVE  /\ table_entry_index(b) \in Nat
         /\ table_entry_index(b) = IF layout.flags = 0 THEN b
                                   ELSE b + (b \div layout.entries_per_chunk)
<1> DEFINE k == layout.entries_per_chunk
           q == b \div k
           r == b % k
<1>1. k \in Nat \ {0}
  BY DEF VhdxImage
<1>2. q \in Nat /\ r \in 0..(k - 1) /\ b = q * k + r
  BY <1>1, DivMod
<1>3. q * (k + 1) = q * k + q /\ q * k \in Nat
  <2> HIDE DEF q, k
  <2> QED BY <1>1, <1>2
<1>4. VhdxDiskType = "fixed" <=> layout.flags = 0
  BY DEF VhdxDiskType, VhdxImage
<1>5. CASE layout.flags = 0
  BY <1>4, <1>5 DEF table_entry_index
<1>6. CASE layout.flags # 0
  <2>1. table_entry_index(b) = q * (k + 1) + r
    BY <1>4, <1>6 DEF table_entry_index, Chunk
  <2> HIDE DEF q, r, k
  <2>2. table_entry_index(b) = b + q
    BY <1>1, <1>2, <1>3, <2>1
  <2> QED BY <1>2, <1>6, <2>2 DEF q, k
<1> QED BY <1>5, <1>6

VhdxPart(b) ==
  LET media_offset == b * layout.block
      size == Least(layout.block, layout.size - media_offset)
  IN  IF VhdxEntry(b).state < 6 THEN Zero(media_offset, size)
      ELSE Data(media_offset, size, "file", VhdxEntry(b).offset)

(* What a block adds is what it declares.                                  *)
LEMMA VhdxBlock ==
  ASSUME VhdxImage, NEW c \in Nat, c * layout.block < layout.size, ~VhdxUnmappable(c)
  PROVE  /\ VhdxExtents(c) = <<VhdxPart(c)>>
         /\ VhdxPart(c) \in ExtentSet(Names)
         /\ VhdxPart(c).logical_offset = c * layout.block
         /\ VhdxPart(c).size = Least(layout.block, layout.size - c * layout.block)
         /\ \A o \in (c * layout.block)..(c * layout.block + VhdxPart(c).size - 1) :
              Target(VhdxPart(c).source, VhdxPart(c).source_offset + o - c * layout.block)
                = Coded(o)
<1> DEFINE e == VhdxPart(c)
           b == layout.block
           x == c * b
           w == Least(b, layout.size - x)
<1>1. layout.size \in Nat /\ b \in Nat \ {0} /\ VhdxDiskType # "differential"
  BY VhdxIs DEF VhdxImage
<1>2. x \in Nat /\ x < layout.size /\ w \in Nat /\ w <= b
  <2>1. x \in Nat
    BY <1>1, Times
  <2> HIDE DEF x
  <2>2. x < layout.size
    BY DEF x
  <2> QED BY <1>1, <2>1, <2>2 DEF Least
<1>3. VhdxExtents(c) = <<e>>
  BY <1>1 DEF VhdxExtents, VhdxPart, UsesBitmap
<1>4. VhdxEntry(c).state \in Nat /\ VhdxEntry(c).offset \in Nat
  <2>1. table_entry_index(c) \in Nat
    BY VhdxIndexIs
  <2>2. table_entry_index(c) + 1 \in 1..Len(layout.bat)
    BY <2>1 DEF VhdxUnmappable, Unreadable, VhdxImage
  <2> QED BY <2>1, <2>2 DEF VhdxImage, VhdxEntry
<1>5. ASSUME NEW o \in x..(x + w - 1)
      PROVE  o \in Nat /\ o \div b = c /\ o % b = o - x
  <2>1. o \in Nat /\ x <= o /\ o < x + b
    BY <1>1, <1>2
  <2> QED BY <1>1, <2>1, InBlock
<1>6. CASE VhdxEntry(c).state < 6
  <2>1. e = Zero(x, w)
    BY <1>6 DEF VhdxPart
  <2> HIDE DEF x, w, e
  <2>2. /\ e \in ExtentSet(Names) /\ e.logical_offset = x /\ e.size = w
        /\ e.source = "zero" /\ e.source_offset = 0
    BY <1>2, <2>1, ZeroIs
  <2>3. ASSUME NEW o \in x..(x + e.size - 1)
        PROVE  Target(e.source, e.source_offset + o - x) = Coded(o)
    <3>1. o \in Nat /\ o \div b = c
      BY <1>5, <2>2
    <3>2. Coded(o) = ZeroTarget
      BY <1>1, <1>4, <1>6, <3>1, VhdxIs DEF VhdxCoded
    <3> QED BY <2>2, <3>2 DEF Target, ZeroTarget
  <2> QED BY <1>3, <2>2, <2>3 DEF x, w, e
<1>7. CASE ~(VhdxEntry(c).state < 6)
  <2>1. e = Data(x, w, "file", VhdxEntry(c).offset)
    BY <1>7 DEF VhdxPart
  <2>2. "file" \in Names
    BY DEF Names
  <2> HIDE DEF x, w, e
  <2>3. /\ e \in ExtentSet(Names) /\ e.logical_offset = x /\ e.size = w
        /\ e.source = "file" /\ e.source_offset = VhdxEntry(c).offset
    BY <1>2, <1>4, <2>1, <2>2, DataIs
  <2>4. ASSUME NEW o \in x..(x + e.size - 1)
        PROVE  Target(e.source, e.source_offset + o - x) = Coded(o)
    <3>1. o \in Nat /\ o \div b = c /\ o % b = o - x
      BY <1>5, <2>3
    <3>2. Coded(o) = Target("file", VhdxEntry(c).offset + (o % b))
      BY <1>1, <1>4, <1>7, <3>1, VhdxIs DEF VhdxCoded
    <3>3. VhdxEntry(c).offset + (o - x) = VhdxEntry(c).offset + o - x
      BY <1>2, <1>4, <3>1
    <3> QED BY <2>3, <3>1, <3>2, <3>3
  <2> QED BY <1>3, <2>3, <2>4 DEF x, w, e
<1> QED BY <1>6, <1>7

LEMMA VhdxStep ==
  ASSUME VhdxImage, Fresh, VhdxWalk, VhdxOpen
  PROVE  /\ layout' = layout
         /\ \/ step' = "walk" /\ Fresh' /\ VhdxWalk'
            \/ step' = "failed" /\ Fresh' /\ ~Mappable'
            \/ step' = "new" /\ NewInv'
<1> DEFINE b == layout.block
           n == layout.size
           e == VhdxPart(at)
<1>1. n \in Nat /\ n \in 0..MaxU64 /\ b \in Nat \ {0} /\ at \in Nat /\ at <= Ceil(n, b)
      /\ Maps(extents, Least(at * b, n)) /\ \A c \in 0..(at - 1) : ~VhdxUnmappable(c)
  BY VhdxIs DEF VhdxWalk, VhdxImage
<1>2. Ceil(n, b) \in Nat /\ (at < Ceil(n, b) <=> at * b < n)
  BY <1>1, Blocks
<1>3. layout' = layout
  BY DEF VhdxOpen, Loop, LoopTo, Fail, HandOver, Round, Panic
<1>4. SameTables
  BY <1>3, VhdxSame
<1>5. Mappable <=> ~VhdxUnsupported /\ \A c \in 0..(Ceil(n, b) - 1) : ~VhdxUnmappable(c)
  BY VhdxIs
<1>6. \/ VhdxUnsupported /\ Fail
      \/ ~VhdxUnsupported /\ at >= Ceil(n, b) /\ HandOver(extents)
      \/ ~VhdxUnsupported /\ ~(at >= Ceil(n, b)) /\ VhdxUnmappable(at) /\ Fail
      \/ ~(at >= Ceil(n, b)) /\ ~VhdxUnmappable(at) /\ Round(extents \o VhdxExtents(at), at + 1)
  BY VhdxIs DEF VhdxOpen, Loop, LoopTo, VhdxDone, VhdxOverflows, UsesBitmap
<1>7. CASE Fail /\ (VhdxUnsupported \/ (~(at >= Ceil(n, b)) /\ VhdxUnmappable(at)))
  <2>1. step' = "failed" /\ Fresh'
    BY <1>7 DEF Fail, Fresh, vars
  <2>2. ~(at >= Ceil(n, b)) => at \in 0..(Ceil(n, b) - 1)
    BY <1>1, <1>2
  <2>3. ~Mappable
    BY <1>5, <1>7, <2>2
  <2> QED BY <1>3, <1>4, <2>1, <2>3 DEF SameTables
<1>8. CASE ~VhdxUnsupported /\ at >= Ceil(n, b) /\ HandOver(extents)
  <2>1. at = Ceil(n, b) /\ ~(at * b < n) /\ at * b \in Nat
    BY <1>1, <1>2, <1>8, Times
  <2>2. Least(at * b, n) = n
    BY <1>1, <2>1 DEF Least
  <2>3. Mappable
    BY <1>1, <1>5, <1>8, <2>1
  <2>4. Maps(extents, DeclaredSize) /\ DeclaredSize \in 0..MaxU64
    BY <1>1, <2>2, VhdxIs
  <2>5. extents \in Seq(ExtentSet(Names))
    BY <2>4 DEF Maps
  <2>6. NewInv' /\ step' = "new"
    BY <1>4, <1>8, <2>3, <2>4, <2>5, HandOverStep
  <2> QED BY <1>3, <2>6
<1>9. CASE /\ ~(at >= Ceil(n, b)) /\ ~VhdxUnmappable(at)
           /\ Round(extents \o VhdxExtents(at), at + 1)
  <2> DEFINE x == at * b
  <2>1. at < Ceil(n, b) /\ x < n /\ x \in Nat
    BY <1>1, <1>2, <1>9, Times
  <2>2. /\ e \in ExtentSet(Names) /\ e.logical_offset = x /\ e.size = Least(b, n - x)
        /\ \A o \in x..(x + e.size - 1) : Target(e.source, e.source_offset + o - x) = Coded(o)
        /\ VhdxExtents(at) = <<e>>
    BY <1>1, <1>9, <2>1, VhdxBlock
  <2> HIDE DEF e
  <2>3. extents \o VhdxExtents(at) = Joined(extents, e, FALSE)
    <3>1. extents \in Seq(ExtentSet(Names))
      BY <1>1 DEF Maps
    <3> QED BY <2>2, <3>1, AppendOne DEF Joined
  <2>4. MapsNext(Joined(extents, e, FALSE), Least((at + 1) * b, n))
    BY <1>1, <1>4, <2>1, <2>2, BlockRound
  <2>5. /\ extents' = Joined(extents, e, FALSE) /\ at' = at + 1
        /\ step' = step /\ UNCHANGED vars
    BY <1>9, <2>3 DEF Round
  <2>6. Maps(extents, Least(at * layout.block, layout.size))'
    BY <1>3, <2>4, <2>5 DEF Maps, MapsNext
  <2>7. \A c \in 0..at : ~VhdxUnmappable(c)
    <3>1. \A c \in 0..at : c = at \/ c \in 0..(at - 1)
      BY <1>1
    <3> QED BY <1>1, <1>9, <3>1
  <2>8. VhdxWalk'
    <3>1. at' \in Nat /\ at' <= Ceil(n, b) /\ at' - 1 = at
      BY <1>1, <1>2, <2>1, <2>5
    <3>2. \A c \in 0..(at' - 1) : ~VhdxUnmappable(c)'
      BY <1>3, <2>7, <3>1 DEF VhdxUnmappable, VhdxDiskType, Unreadable, table_entry_index,
              bitmap_entry_index, UsesBitmap, VhdxEntry, VhdxBitmap, Chunk
    <3> QED BY <1>3, <2>6, <3>1, <3>2 DEF VhdxWalk
  <2>9. step' = "walk" /\ Fresh'
    BY <2>5 DEF Fresh, vars, VhdxOpen, Loop, LoopTo, Walking
  <2> QED BY <1>3, <2>8, <2>9
<1> QED BY <1>6, <1>7, <1>8, <1>9


-----------------------------------------------------------------------------
(* VMDK, sparse and COWD files.                                            *)

VmdkImage ==
  /\ layout.format = "vmdk" /\ layout.size \in 0..MaxU64 /\ layout.capacity \in 0..MaxU64
  /\ layout.block \in Nat \ {0} /\ layout.file \in Nat /\ layout.per_table \in Nat
  /\ layout.cowd \in BOOLEAN /\ layout.entries \in Nat
  /\ layout.cowd => layout.per_table # 0
  /\ VmdkDirectory.tables \in Seq(Seq(Nat))

(* The grains up to at.  The directory of a sparse file was read as far as *)
(* the last of them.                                                       *)
VmdkPast == Ceil(layout.size, layout.block)

(* How the rounds of a sparse file get past the media, up to grain g.      *)
VmdkEdges(g) ==
  /\ g > 0 => ~VmdkUnmappable(0)
  /\ g > VmdkPast => VmdkTable(VmdkPast) = <<>> \/ ~VmdkUnmappable(VmdkPast)
  /\ g * layout.block >= layout.size => g % layout.per_table = 0 \/ g = VmdkPast

VmdkWalk ==
  /\ at \in Nat
  /\ Maps(extents, Least(at * layout.block, layout.size))
  /\ \A g \in 0..(at - 1) : g * layout.block < layout.size => ~VmdkUnmappable(g)
  /\ at > 0 /\ ~layout.cowd => (at - 1) \div layout.per_table < Len(VmdkDirectory.tables)
  /\ ~layout.cowd => VmdkEdges(at)

LEMMA VmdkIs ==
  ASSUME VmdkImage
  PROVE  /\ layout.size \in Nat /\ layout.capacity \in Nat /\ DeclaredSize = layout.size
         /\ Mappable <=> VmdkMappable
         /\ \A o : Coded(o) = VmdkDeclared(o)
<1>1. layout.format = "vmdk"
  BY DEF VmdkImage
<1>2. layout.size \in Nat /\ layout.capacity \in Nat
  BY ExtentMapNewAssumption DEF VmdkImage
<1>3. DeclaredSize = layout.size
  BY <1>1 DEF DeclaredSize
<1>4. Mappable <=> VmdkMappable
  BY <1>1 DEF Mappable
<1>5. \A o : Coded(o) = VmdkDeclared(o)
  BY <1>1 DEF Coded, Declared
<1> QED BY <1>2, <1>3, <1>4, <1>5

LEMMA VmdkSame ==
  ASSUME VmdkImage, layout' = layout
  PROVE  SameTables
<1>1. layout.format = "vmdk"
  BY DEF VmdkImage
<1>2. Mappable' <=> Mappable
  BY <1>1 DEF Mappable, VmdkMappable, VmdkUnsupported, VmdkDirectory, VmdkUnmappable, VmdkTable,
              VmdkSector, VmdkSize, VmdkTurnedDown
<1>3. DeclaredSize' = DeclaredSize
  BY <1>1 DEF DeclaredSize
<1>4. \A o \in Nat : Coded(o)' = Coded(o)
  BY <1>1 DEF Coded, Declared, VmdkDeclared, VmdkSparse, VmdkTable, VmdkSector, VmdkDirectory
<1> QED BY <1>2, <1>3, <1>4 DEF SameTables

(* The grains of one round are those of one table.                         *)
LEMMA VmdkSpan ==
  ASSUME VmdkImage, layout.per_table # 0, NEW g \in Nat
  PROVE  /\ VmdkRound(g) \in Nat \ {0}
         /\ \A h \in g..(g + VmdkRound(g) - 1) : h \div layout.per_table = g \div layout.per_table
<1> DEFINE p == layout.per_table
           q == g \div p
           r == g % p
<1>1. p \in Nat \ {0}
  BY DEF VmdkImage
<1>2. q \in Nat /\ r \in 0..(p - 1) /\ g = q * p + r
  BY <1>1, DivMod
<1>3. q * p \in Nat
  BY <1>1, <1>2, Times
<1>4. VmdkRound(g) = p - r \/ VmdkRound(g) = 1
  BY DEF VmdkRound
<1> HIDE DEF q, r, p
<1>5. VmdkRound(g) \in Nat \ {0}
  BY <1>1, <1>2, <1>4
<1>6. ASSUME NEW h \in g..(g + VmdkRound(g) - 1) PROVE h \div p = q
  <2>1. h \in Nat /\ q * p <= h /\ h < q * p + p
    BY <1>1, <1>2, <1>3, <1>4
  <2> QED BY <1>1, <1>2, <2>1, InBlock
<1> QED BY <1>5, <1>6 DEF q, p

(* The extent of a round.                                                  *)
VmdkPart(g) ==
  LET offset == g * layout.block
      size == VmdkSize(g, VmdkRound(g) * layout.block)
  IN  IF VmdkSparse(g) THEN Zero(offset, size) ELSE Data(offset, size, "file", VmdkSector(g))

LEMMA VmdkGrain ==
  ASSUME VmdkImage, layout.per_table # 0, NEW g \in Nat, g * layout.block < layout.size,
         ~VmdkUnmappable(g)
  PROVE  /\ VmdkPart(g) \in ExtentSet(Names)
         /\ VmdkPart(g).logical_offset = g * layout.block
         /\ VmdkPart(g).size # 0
         /\ Least((g + VmdkRound(g)) * layout.block, layout.size) = g * layout.block + VmdkPart(g).size
         /\ \A o \in (g * layout.block)..(g * layout.block + VmdkPart(g).size - 1) :
              Target(VmdkPart(g).source, VmdkPart(g).source_offset + o - g * layout.block)
                = Coded(o)
<1> DEFINE b == layout.block
           n == layout.size
           p == layout.per_table
           m == VmdkRound(g)
           x == g * b
           mb == m * b
           w == Least(mb, n - x)
           e == VmdkPart(g)
<1>1. n \in Nat /\ b \in Nat \ {0} /\ p \in Nat \ {0} /\ VmdkDirectory.tables \in Seq(Seq(Nat))
  BY VmdkIs DEF VmdkImage
<1>2. m \in Nat \ {0} /\ \A h \in g..(g + m - 1) : h \div p = g \div p
  BY VmdkSpan
<1>3. x \in Nat /\ mb \in Nat /\ b <= mb /\ (g + m) * b = x + mb
  <2> HIDE DEF m
  <2>1. 1 <= m /\ m \in Nat
    BY <1>2
  <2>2. 1 * b <= m * b /\ m * b \in Nat /\ g * b \in Nat
    BY <1>1, <2>1, Times
  <2>3. (g + m) * b = g * b + m * b
    BY <1>1, <2>1
  <2> QED BY <1>1, <2>2, <2>3
<1>4. x < n
  OBVIOUS
<1>5. w \in Nat /\ w # 0 /\ w <= mb /\ Least(x + mb, n) = x + w
  <2> HIDE DEF x, mb
  <2> QED BY <1>1, <1>3, <1>4 DEF Least
<1>6. VmdkSize(g, mb) = w
  BY DEF VmdkSize
<1>7. ~VmdkSparse(g) => VmdkSector(g) \in Nat
  <2> SUFFICES ASSUME ~VmdkSparse(g) PROVE VmdkSector(g) \in Nat
    OBVIOUS
  <2> DEFINE i == (g \div p) + 1
             j == (g % p) + 1
  <2>1. g \div p \in Nat /\ g % p \in Nat
    <3>1. g \div p \in Nat /\ g % p \in 0..(p - 1)
      BY <1>1, DivMod
    <3> QED BY <1>1, <3>1
  <2>2. i \in 1..Len(VmdkDirectory.tables)
    BY <1>1, <2>1 DEF VmdkUnmappable
  <2>3. VmdkTable(g) = VmdkDirectory.tables[i] /\ VmdkTable(g) # <<>>
    BY DEF VmdkTable, VmdkSparse
  <2>4. VmdkTable(g) \in Seq(Nat)
    BY <1>1, <2>2, <2>3
  <2>5. j \in 1..Len(VmdkTable(g))
    BY <1>4, <2>1, <2>3, <2>4 DEF VmdkUnmappable
  <2>6. VmdkTable(g)[j] \in Nat
    BY <2>4, <2>5
  <2> QED BY <2>6 DEF VmdkSector
<1>8. ASSUME NEW o \in x..(x + w - 1)
      PROVE  o \in Nat /\ o \div b \in g..(g + m - 1) /\ (m = 1 => o % b = o - x)
  <2> DEFINE h == o \div b
             r == o % b
  <2>1. o \in Nat /\ x <= o /\ o < (g + m) * b
    <3> HIDE DEF x, w, mb, m
    <3> QED BY <1>3, <1>5
  <2>2. h \in Nat /\ r \in 0..(b - 1) /\ o = h * b + r
    BY <1>1, <2>1, DivMod
  <2> HIDE DEF h, r, m
  <2>3. ~(h < g)
    <3> SUFFICES ASSUME h < g PROVE FALSE
      OBVIOUS
    <3>1. h + 1 <= g /\ h + 1 \in Nat
      BY <2>2
    <3>2. (h + 1) * b <= g * b /\ (h + 1) * b = h * b + b /\ h * b \in Nat
      BY <1>1, <2>2, <3>1, Times
    <3> DEFINE hb == h * b
    <3>3. /\ hb + b <= x /\ hb \in Nat /\ b \in Nat /\ x \in Nat /\ r \in 0..(b - 1)
          /\ o = hb + r /\ x <= o
      BY <1>1, <1>3, <2>1, <2>2, <3>2
    <3> HIDE DEF x, hb, b
    <3> QED BY ONLY <3>3
  <2>4. ~(g + m <= h)
    <3> SUFFICES ASSUME g + m <= h PROVE FALSE
      OBVIOUS
    <3>1. g + m \in Nat
      BY <1>2
    <3>2. (g + m) * b <= h * b /\ h * b \in Nat /\ (g + m) * b \in Nat
      BY <1>1, <2>2, <3>1, Times
    <3> QED BY <1>1, <2>1, <2>2, <3>2
  <2>5. h \in g..(g + m - 1)
    BY <1>2, <2>2, <2>3, <2>4
  <2>6. m = 1 => r = o - x
    <3> SUFFICES ASSUME m = 1 PROVE r = o - x
      OBVIOUS
    <3>1. h = g
      BY <2>5
    <3> QED BY <1>3, <2>1, <2>2, <3>1
  <2> QED BY <2>1, <2>5, <2>6 DEF h, r
<1>9. CASE VmdkSparse(g)
  <2>1. e = Zero(x, w)
    BY <1>6, <1>9 DEF VmdkPart
  <2>2. ASSUME NEW o \in x..(x + w - 1) PROVE Coded(o) = ZeroTarget
    <3>1. o \div b \in g..(g + m - 1)
      BY <1>8
    <3>2. (o \div b) \div p = g \div p
      BY <1>2, <3>1
    <3>3. VmdkTable(o \div b) = VmdkTable(g)
      BY <3>2 DEF VmdkTable
    <3>4. CASE VmdkTable(g) = <<>>
      BY <3>3, <3>4, VmdkIs DEF VmdkDeclared, VmdkSparse
    <3>5. CASE VmdkTable(g) # <<>>
      <4>1. m = 1
        <5>1. ~(x >= n)
          BY <1>1, <1>3, <1>4
        <5> QED BY <3>5, <5>1 DEF VmdkRound
      <4>2. o \div b = g
        BY <3>1, <4>1
      <4> QED BY <1>9, <4>2, VmdkIs DEF VmdkDeclared
    <3> QED BY <3>4, <3>5
  <2> HIDE DEF x, w, e, mb
  <2>3. /\ e \in ExtentSet(Names) /\ e.logical_offset = x /\ e.size = w
        /\ e.source = "zero" /\ e.source_offset = 0
    BY <1>3, <1>5, <2>1, ZeroIs
  <2>4. ASSUME NEW o \in x..(x + e.size - 1)
        PROVE  Target(e.source, e.source_offset + o - x) = Coded(o)
    <3>1. Coded(o) = ZeroTarget
      BY <2>2, <2>3
    <3> QED BY <2>3, <3>1 DEF Target, ZeroTarget
  <2>5. e.size # 0 /\ Least((g + m) * b, n) = x + e.size
    BY <1>3, <1>5, <2>3
  <2> QED BY <2>3, <2>4, <2>5 DEF x, e
<1>10. CASE ~VmdkSparse(g)
  <2>1. e = Data(x, w, "file", VmdkSector(g))
    BY <1>6, <1>10 DEF VmdkPart
  <2>2. "file" \in Names /\ VmdkSector(g) \in Nat
    BY <1>7, <1>10 DEF Names
  <2>3. m = 1
    <3>1. ~(x >= n)
      BY <1>1, <1>3, <1>4
    <3> QED BY <1>10, <3>1 DEF VmdkRound, VmdkSparse
  <2>4. ASSUME NEW o \in x..(x + w - 1)
        PROVE  o \in Nat /\ Coded(o) = Target("file", VmdkSector(g) + (o - x))
    <3>1. o \in Nat /\ o \div b = g /\ o % b = o - x
      BY <1>8, <2>3
    <3> QED BY <1>10, <3>1, VmdkIs DEF VmdkDeclared
  <2> HIDE DEF x, w, e, mb
  <2>5. /\ e \in ExtentSet(Names) /\ e.logical_offset = x /\ e.size = w
        /\ e.source = "file" /\ e.source_offset = VmdkSector(g)
    <3>1. x \in Nat /\ w \in Nat
      BY <1>3, <1>5
    <3> QED BY ONLY <2>1, <2>2, <3>1, DataIs
  <2>6. ASSUME NEW o \in x..(x + e.size - 1)
        PROVE  Target(e.source, e.source_offset + o - x) = Coded(o)
    <3>1. o \in Nat /\ Coded(o) = Target("file", VmdkSector(g) + (o - x))
      BY <2>4, <2>5
    <3>2. VmdkSector(g) + (o - x) = VmdkSector(g) + o - x
      BY <1>3, <2>2, <3>1
    <3> QED BY <2>5, <3>1, <3>2
  <2>7. e.size # 0 /\ Least((g + m) * b, n) = x + e.size
    BY <1>3, <1>5, <2>5
  <2> QED BY <2>5, <2>6, <2>7 DEF x, e
<1> QED BY <1>9, <1>10


(* The directory of a sparse file is read to its end, which is past the    *)
(* media.                                                                  *)
LEMMA VmdkEnd ==
  ASSUME NEW p \in Nat \ {0}, NEW b \in Nat \ {0}, NEW capacity \in Nat, NEW g \in Nat,
         g \div p >= Ceil(capacity, p * b)
  PROVE  /\ g * b >= capacity
         /\ Ceil(capacity, p * b) # 0 => g > 0 /\ (g - 1) \div p >= Ceil(capacity, p * b) - 1
<1> DEFINE k == Ceil(capacity, p * b)
           q == g \div p
           r == g % p
<1>1. p * b \in Nat \ {0}
  OBVIOUS
<1>2. k \in Nat /\ ~(k * (p * b) < capacity)
  BY <1>1, Blocks
<1>3. q \in Nat /\ r \in 0..(p - 1) /\ g = q * p + r
  BY DivMod
<1>4. k <= q
  BY <1>2, <1>3
<1> HIDE DEF k, q, r
<1>5. k * p <= q * p /\ k * p \in Nat /\ q * p \in Nat
  BY <1>2, <1>3, <1>4, Times
<1>6. k * p <= g
  BY <1>3, <1>5
<1>7. (k * p) * b <= g * b /\ (k * p) * b \in Nat /\ g * b \in Nat
  BY <1>5, <1>6, Times
<1>8. (k * p) * b = k * (p * b)
  BY <1>2
<1>9. g * b >= capacity
  BY <1>2, <1>7, <1>8
<1>10. ASSUME k # 0 PROVE g > 0 /\ (g - 1) \div p >= k - 1
  <2> DEFINE t == (g - 1) \div p
             u == (g - 1) % p
  <2>1. k - 1 \in Nat /\ (k - 1) * p + p = k * p /\ (k - 1) * p \in Nat
    <3>1. k - 1 \in Nat /\ (k - 1) + 1 = k
      BY <1>2, <1>10
    <3> QED BY <3>1, Times
  <2>2. g > 0 /\ g - 1 \in Nat
    BY <1>6, <2>1
  <2>3. t \in Nat /\ u \in 0..(p - 1) /\ g - 1 = t * p + u
    BY <2>2, DivMod
  <2> HIDE DEF t, u
  <2>4. ~(t < k - 1)
    <3> SUFFICES ASSUME t < k - 1 PROVE FALSE
      OBVIOUS
    <3>1. t + 1 <= k - 1 /\ t + 1 \in Nat
      BY <2>1, <2>3
    <3>2. (t + 1) * p <= (k - 1) * p /\ (t + 1) * p = t * p + p /\ t * p \in Nat
      BY <2>1, <2>3, <3>1, Times
    <3> DEFINE tp == t * p
               kp == (k - 1) * p
               all == k * p
    <3>3. /\ tp \in Nat /\ kp \in Nat /\ tp + p <= kp /\ kp + p = all /\ all <= g
          /\ g - 1 = tp + u /\ u \in 0..(p - 1)
      BY <1>6, <2>1, <2>3, <3>2
    <3> HIDE DEF tp, kp, all
    <3> QED BY <2>2, <3>3
  <2>5. t >= k - 1
    BY <2>1, <2>3, <2>4
  <2> QED BY <2>2, <2>5 DEF t
<1> QED BY <1>9, <1>10 DEF k

(* A round keeps to the edges.                                             *)
LEMMA VmdkEdgesKept ==
  ASSUME VmdkImage, ~layout.cowd, layout.per_table # 0, NEW g \in Nat, VmdkEdges(g),
         ~VmdkUnmappable(g)
  PROVE  VmdkEdges(g + VmdkRound(g))
<1> DEFINE b == layout.block
           n == layout.size
           p == layout.per_table
           m == VmdkRound(g)
           past == VmdkPast
           q == g \div p
           r == g % p
<1>1. n \in Nat /\ b \in Nat \ {0} /\ p \in Nat \ {0}
  BY VmdkIs DEF VmdkImage
<1>2. m \in Nat \ {0} /\ \A h \in g..(g + m - 1) : h \div p = q
  BY VmdkSpan
<1>3. past \in Nat /\ \A h \in Nat : h < past <=> h * b < n
  BY <1>1, Blocks DEF VmdkPast
<1>4. q \in Nat /\ r \in 0..(p - 1) /\ g = q * p + r
  BY <1>1, DivMod
<1>5. g * b \in Nat /\ (g + m) * b \in Nat
  <2>1. g + m \in Nat
    BY <1>2
  <2> QED BY <1>1, <2>1, Times
<1>6. \/ m = p - r
      \/ m = 1 /\ VmdkTable(g) # <<>> /\ ~(g * b >= n)
  BY DEF VmdkRound
<1>7. g + m > 0 => ~VmdkUnmappable(0)
  BY DEF VmdkEdges
<1>8. ASSUME g + m > past PROVE VmdkTable(past) = <<>> \/ ~VmdkUnmappable(past)
  <2>1. CASE g > past
    BY <2>1 DEF VmdkEdges
  <2>2. CASE g = past
    BY <2>2
  <2>3. CASE g < past
    <3>1. past \in g..(g + m - 1)
      BY <1>2, <1>3, <1>8, <2>3
    <3>2. VmdkTable(past) = VmdkTable(g)
      BY <1>2, <3>1 DEF VmdkTable
    <3>3. g * b < n
      BY <1>3, <2>3
    <3>4. m # 1
      BY <1>3, <2>3, <3>1
    <3>5. ~(g * b >= n)
      BY <1>1, <1>5, <3>3
    <3> QED BY <3>2, <3>4, <3>5 DEF VmdkRound
  <2> QED BY <1>3, <2>1, <2>2, <2>3
<1>9. ASSUME (g + m) * b >= n PROVE (g + m) % p = 0 \/ g + m = past
  <2>1. CASE m = p - r
    <3> HIDE DEF q, r, m, p
    <3>1. q + 1 \in Nat /\ (q + 1) * p = q * p + p /\ q * p \in Nat
      BY <1>1, <1>4, Times
    <3>2. g + m = (q + 1) * p
      BY <1>1, <1>4, <2>1, <3>1
    <3>3. (q + 1) * p \in Nat /\ (q + 1) * p < (q + 1) * p + p
      BY <1>1, <3>1
    <3>4. ((q + 1) * p) % p = (q + 1) * p - (q + 1) * p
      <4> DEFINE o == (q + 1) * p
      <4>1. o \in Nat /\ (q + 1) * p <= o /\ o < (q + 1) * p + p
        BY <3>3
      <4> HIDE DEF o
      <4>2. o % p = o - (q + 1) * p
        BY <1>1, <3>1, <4>1, InBlock
      <4> QED BY <4>2 DEF o
    <3> QED BY <3>2, <3>3, <3>4
  <2>2. CASE m = 1 /\ ~(g * b >= n)
    <3>1. g < past
      BY <1>1, <1>3, <1>5, <2>2
    <3>2. ~(g + 1 < past)
      <4>1. ~((g + 1) * b < n)
        BY <1>1, <1>5, <1>9, <2>2
      <4> QED BY <1>3, <4>1
    <3> QED BY <1>3, <2>2, <3>1, <3>2
  <2> QED BY <1>6, <2>1, <2>2
<1> QED BY <1>7, <1>8, <1>9 DEF VmdkEdges

(* Where a table begins that is there, the offset has room.                *)
LEMMA VmdkAtTable ==
  ASSUME VmdkImage, ~layout.cowd, layout.per_table # 0, NEW g \in Nat, ~VmdkDone(g)
  PROVE  /\ g % layout.per_table = 0 => ~(g * layout.block > MaxU64)
         /\ layout.per_table * layout.block > MaxU64 => g \div layout.per_table = 0
         /\ layout.capacity > 0
<1> DEFINE b == layout.block
           p == layout.per_table
           pb == p * b
           q == g \div p
           r == g % p
<1>1. /\ b \in Nat \ {0} /\ p \in Nat \ {0} /\ layout.capacity \in Nat
      /\ MaxU64 \in Nat /\ layout.capacity <= MaxU64
  BY VmdkIs, ExtentMapNewAssumption DEF VmdkImage
<1>2. q \in Nat /\ r \in 0..(p - 1) /\ g = q * p + r
  BY <1>1, DivMod
<1>3. pb \in Nat \ {0}
  BY <1>1
<1>4. ~(q >= Ceil(layout.capacity, pb))
  BY DEF VmdkDone
<1>5. Ceil(layout.capacity, pb) \in Nat /\ (q < Ceil(layout.capacity, pb) <=> q * pb < layout.capacity)
  BY <1>1, <1>2, <1>3, Blocks
<1>6. q * pb < layout.capacity /\ q * pb \in Nat
  BY <1>2, <1>3, <1>4, <1>5, Times
<1>7. layout.capacity > 0
  BY <1>1, <1>6
<1>8. ASSUME r = 0 PROVE ~(g * b > MaxU64)
  <2> HIDE DEF q, r, p, b
  <2>1. g * b = q * pb
    <3>1. g = q * p
      BY <1>1, <1>2, <1>8, Times
    <3>2. (q * p) * b = q * (p * b)
      BY <1>1, <1>2
    <3> QED BY <3>1, <3>2
  <2> QED BY <1>1, <1>6, <2>1
<1>9. ASSUME pb > MaxU64 PROVE q = 0
  <2> SUFFICES ASSUME q # 0 PROVE FALSE
    OBVIOUS
  <2> HIDE DEF q, pb
  <2>1. 1 <= q
    BY <1>2
  <2>2. 1 * pb <= q * pb
    BY <1>2, <1>3, <2>1, Times
  <2> DEFINE all == q * pb
  <2>3. pb <= all /\ all < layout.capacity /\ all \in Nat
    BY <1>3, <1>6, <2>2
  <2> HIDE DEF all
  <2> QED BY <1>1, <1>3, <1>9, <2>3
<1> QED BY <1>7, <1>8, <1>9

(* A round past the media is refused for an image that is turned down.     *)
LEMMA VmdkPastRefused ==
  ASSUME VmdkImage, ~layout.cowd, layout.per_table # 0, NEW g \in Nat, VmdkEdges(g),
         ~VmdkDone(g), VmdkUnmappable(g), ~(g * layout.block < layout.size),
         ~(g \div layout.per_table >= Len(VmdkDirectory.tables))
  PROVE  VmdkTurnedDown
<1> DEFINE b == layout.block
           p == layout.per_table
           tables == VmdkDirectory.tables
<1>1. (IF VmdkTable(g) = <<>> THEN p ELSE g) * b > MaxU64
  BY DEF VmdkUnmappable
<1>2. /\ g % p = 0 => ~(g * b > MaxU64)
      /\ p * b > MaxU64 => g \div p = 0
      /\ layout.capacity > 0
  BY VmdkAtTable
<1>3. tables # <<>> /\ Len(tables) \in Nat /\ g \div p \in Nat
  <2>1. g \div p \in Nat
    BY DivMod DEF VmdkImage
  <2>2. Len(tables) \in Nat
    BY DEF VmdkImage
  <2> QED BY <2>1, <2>2
<1>4. CASE VmdkTable(g) = <<>>
  <2>1. p * b > MaxU64 /\ g \div p = 0
    BY <1>1, <1>2, <1>4
  <2>2. tables[1] = <<>>
    BY <1>4, <2>1 DEF VmdkTable
  <2> QED BY <1>2, <1>3, <2>1, <2>2 DEF VmdkTurnedDown
<1>5. CASE VmdkTable(g) # <<>>
  <2>1. g * b > MaxU64
    BY <1>1, <1>5
  <2>2. g % p # 0
    BY <1>2, <2>1
  <2>3. g * b >= layout.size
    <3>1. g * b \in Nat /\ layout.size \in Nat
      BY VmdkIs, Times DEF VmdkImage
    <3> QED BY <3>1
  <2>4. g = Ceil(layout.size, layout.block)
    BY <2>2, <2>3 DEF VmdkEdges, VmdkPast
  <2>5. g \div p < Len(tables)
    BY <1>3
  <2> QED BY <1>3, <1>5, <2>1, <2>2, <2>4, <2>5 DEF VmdkTurnedDown
<1> QED BY <1>4, <1>5

(* An image whose rounds all pass is not turned down.                      *)
LEMMA VmdkPastTaken ==
  ASSUME VmdkImage, ~layout.cowd, layout.per_table # 0, NEW g \in Nat, VmdkEdges(g),
         VmdkDone(g), layout.size <= layout.capacity
  PROVE  ~VmdkTurnedDown
<1> DEFINE b == layout.block
           n == layout.size
           p == layout.per_table
           k == Ceil(layout.capacity, p * b)
           past == VmdkPast
<1>1. /\ b \in Nat \ {0} /\ p \in Nat \ {0} /\ n \in Nat /\ layout.capacity \in Nat
      /\ MaxU64 \in Nat /\ Len(VmdkDirectory.tables) \in Nat
  BY VmdkIs, ExtentMapNewAssumption DEF VmdkImage
<1>2. p * b \in Nat \ {0}
  BY <1>1
<1>3. k \in Nat /\ \A i \in Nat : i < k <=> i * (p * b) < layout.capacity
  BY <1>1, <1>2, Blocks
<1>4. past \in Nat /\ \A h \in Nat : h < past <=> h * b < n
  BY <1>1, Blocks DEF VmdkPast
<1>5. g \div p >= k
  BY DEF VmdkDone
<1>6. g \div p \in Nat /\ g % p \in 0..(p - 1) /\ g = (g \div p) * p + (g % p)
  BY <1>1, DivMod
<1>7. ~(/\ layout.capacity > 0
        /\ p * b > MaxU64
        /\ VmdkDirectory.tables[1] = <<>>)
  <2> SUFFICES ASSUME layout.capacity > 0, p * b > MaxU64, VmdkDirectory.tables[1] = <<>>
               PROVE  FALSE
    OBVIOUS
  <2>1. 0 * (p * b) = 0 /\ 0 \in Nat
    BY <1>2
  <2>2. 0 < k
    BY <1>1, <1>3, <2>1
  <2>3. g # 0
    <3>1. 0 \div p = 0
      BY <1>1, <2>1, InBlock
    <3> HIDE DEF k
    <3> QED BY <1>3, <1>5, <2>2, <3>1
  <2>4. ~VmdkUnmappable(0)
    BY <2>3 DEF VmdkEdges
  <2>5. 0 \div p = 0
    BY <1>1, InBlock
  <2>6. VmdkTable(0) = <<>>
    BY <2>5 DEF VmdkTable
  <2> QED BY <2>4, <2>6 DEF VmdkUnmappable
<1>8. ~(/\ past % p # 0
        /\ past * b > MaxU64
        /\ VmdkTable(past) # <<>>)
  <2> SUFFICES ASSUME past % p # 0, past * b > MaxU64, VmdkTable(past) # <<>>
               PROVE  FALSE
    OBVIOUS
  <2> DEFINE i == past \div p
             j == past % p
             g1 == i * p
  <2>1. i \in Nat /\ j \in 0..(p - 1) /\ past = i * p + j /\ j # 0
    BY <1>1, <1>4, DivMod
  <2>2. g1 \in Nat /\ g1 < past
    <3>1. g1 \in Nat
      BY <1>1, <2>1, Times
    <3> HIDE DEF i, j, past, p
    <3>2. past = g1 + j
      BY <2>1
    <3> QED BY <1>1, <2>1, <3>1, <3>2
  <2>3. g1 * b < n /\ g1 * b \in Nat
    <3>1. g1 * b \in Nat
      BY <1>1, <2>2, Times
    <3> QED BY <1>4, <2>2, <3>1
  <2>4. g1 * b = i * (p * b)
    <3> HIDE DEF i, p, b
    <3> QED BY <1>1, <2>1
  <2>5. i < k
    <3> DEFINE y == i * (p * b)
    <3>1. y < n /\ y \in Nat
      BY <2>3, <2>4
    <3> HIDE DEF y
    <3>2. y < layout.capacity
      BY <1>1, <3>1
    <3> QED BY <1>3, <2>1, <3>2 DEF y
  <2>6. g > past
    <3>1. i + 1 <= k /\ k <= g \div p
      BY <1>3, <1>5, <1>6, <2>1, <2>5
    <3>2. i + 1 <= g \div p
      <4> HIDE DEF k, i
      <4> QED BY <1>3, <1>6, <2>1, <3>1
    <3>3. (i + 1) * p <= (g \div p) * p /\ (i + 1) * p \in Nat /\ (g \div p) * p \in Nat
      <4> DEFINE t == g \div p
      <4>1. t \in Nat /\ i + 1 \in Nat /\ i + 1 <= t
        BY <1>6, <2>1, <3>2
      <4> HIDE DEF t, i, p
      <4> QED BY <1>1, <4>1, Times DEF t
    <3>4. (i + 1) * p = i * p + p
      <4> HIDE DEF i, p
      <4> QED BY <1>1, <2>1
    <3> DEFINE gp == (g \div p) * p
               ip == i * p
               gr == g % p
    <3>5. /\ ip + p <= gp /\ ip \in Nat /\ gp \in Nat /\ g = gp + gr /\ gr \in 0..(p - 1)
          /\ past = ip + j /\ j \in 0..(p - 1)
      BY <1>6, <2>1, <2>2, <3>3, <3>4
    <3> HIDE DEF gp, ip, gr, j, p, past
    <3> QED BY <1>1, <3>5
  <2>7. ~VmdkUnmappable(past)
    BY <2>6 DEF VmdkEdges
  <2> QED BY <2>7 DEF VmdkUnmappable
<1> QED BY <1>7, <1>8 DEF VmdkTurnedDown, VmdkPast

LEMMA VmdkStep ==
  ASSUME VmdkImage, Fresh, VmdkWalk, VmdkOpen
  PROVE  /\ layout' = layout
         /\ \/ step' = "walk" /\ Fresh' /\ VmdkWalk'
            \/ step' = "failed" /\ Fresh' /\ ~Mappable'
            \/ step' = "new" /\ NewInv'
<1> DEFINE b == layout.block
           n == layout.size
           p == layout.per_table
           k == Ceil(layout.capacity, p * b)
           d == Len(VmdkDirectory.tables)
<1>1. /\ n \in Nat /\ n \in 0..MaxU64 /\ b \in Nat \ {0} /\ p \in Nat /\ at \in Nat
      /\ layout.capacity \in Nat /\ layout.cowd \in BOOLEAN /\ d \in Nat
      /\ Maps(extents, Least(at * b, n))
      /\ \A g \in 0..(at - 1) : g * b < n => ~VmdkUnmappable(g)
      /\ at > 0 /\ ~layout.cowd => (at - 1) \div p < d
      /\ ~layout.cowd => VmdkEdges(at)
  BY VmdkIs DEF VmdkWalk, VmdkImage
<1>2. \A g \in Nat : g < Ceil(n, b) <=> g * b < n
  BY <1>1, Blocks
<1>3. layout' = layout
  BY DEF VmdkOpen, Loop, LoopTo, Fail, HandOver, Round
<1>4. SameTables
  BY <1>3, VmdkSame
<1>5. Mappable <=> /\ ~VmdkUnsupported
                   /\ layout.cowd \/ k <= d
                   /\ \A g \in 0..(Ceil(n, b) - 1) : ~VmdkUnmappable(g)
                   /\ ~VmdkTurnedDown
  BY VmdkIs DEF VmdkMappable
<1>6. \/ VmdkUnsupported /\ Fail
      \/ ~VmdkUnsupported /\ VmdkDone(at) /\ HandOver(extents)
      \/ ~VmdkUnsupported /\ ~VmdkDone(at) /\ VmdkUnmappable(at) /\ Fail
      \/ /\ ~VmdkUnsupported /\ ~VmdkDone(at) /\ ~VmdkUnmappable(at)
         /\ Round(VmdkMapped(at), at + VmdkRound(at))
  BY DEF VmdkOpen, Loop, LoopTo
<1>7. Ceil(n, b) \in Nat
  BY <1>1, Blocks
<1>8. ~VmdkUnsupported => p \in Nat \ {0} /\ (~layout.cowd => n <= layout.capacity)
  BY <1>1 DEF VmdkUnsupported, VmdkImage
<1>9. ASSUME ~VmdkUnsupported PROVE p * b \in Nat \ {0} /\ k \in Nat /\ at \div p \in Nat
  <2>1. p \in Nat \ {0}
    BY <1>8, <1>9
  <2>2. p * b \in Nat \ {0}
    BY <1>1, <2>1
  <2> QED BY <1>1, <2>1, <2>2, Blocks, DivMod
<1>10. ASSUME ~VmdkUnsupported, ~VmdkDone(at), VmdkUnmappable(at) PROVE ~Mappable
  <2>1. CASE at * b < n
    <3>1. at \in 0..(Ceil(n, b) - 1)
      BY <1>1, <1>2, <1>7, <2>1
    <3> QED BY <1>5, <1>10, <3>1
  <2>2. CASE ~(at * b < n)
    <3>1. ~layout.cowd
      <4>1. ~(at < Ceil(n, b))
        BY <1>1, <1>2, <2>2
      <4>2. at >= Ceil(n, b)
        BY <1>1, <1>7, <4>1
      <4> QED BY <1>10, <4>2 DEF VmdkDone
    <3>2. CASE ~(at \div p >= d)
      <4>1. VmdkTurnedDown
        BY <1>1, <1>8, <1>10, <2>2, <3>1, <3>2, VmdkPastRefused
      <4> QED BY <1>5, <4>1
    <3>3. ~(at \div p >= k)
      BY <1>10, <3>1 DEF VmdkDone
    <3>4. CASE at \div p >= d
      <4>1. ~(k <= d)
        <5> HIDE DEF k, d
        <5> QED BY <1>1, <1>9, <1>10, <3>3, <3>4
      <4> QED BY <1>5, <3>1, <4>1
    <3> QED BY <3>2, <3>4
  <2> QED BY <2>1, <2>2
<1>11. CASE Fail /\ (VmdkUnsupported \/ (~VmdkUnsupported /\ ~VmdkDone(at) /\ VmdkUnmappable(at)))
  <2>1. step' = "failed" /\ Fresh'
    BY <1>11 DEF Fail, Fresh, vars
  <2>2. ~Mappable
    BY <1>5, <1>10, <1>11
  <2> QED BY <1>3, <1>4, <2>1, <2>2 DEF SameTables
<1>12. CASE ~VmdkUnsupported /\ VmdkDone(at) /\ HandOver(extents)
  <2>1. ~(at * b < n) /\ (layout.cowd \/ k <= d)
    <3>1. CASE layout.cowd
      BY <1>1, <1>2, <1>7, <1>12, <3>1 DEF VmdkDone
    <3>2. CASE ~layout.cowd
      <4>1. at \div p >= k
        BY <1>12, <3>2 DEF VmdkDone
      <4>2. at * b >= layout.capacity /\ (k # 0 => at > 0 /\ (at - 1) \div p >= k - 1)
        BY <1>1, <1>8, <1>12, <4>1, VmdkEnd
      <4>3. at * b \in Nat
        BY <1>1, Times
      <4>4. ~(at * b < n)
        BY <1>1, <1>8, <1>12, <3>2, <4>2, <4>3
      <4>5. k <= d
        <5>1. CASE k = 0
          BY <1>1, <5>1
        <5>2. CASE k # 0
          <6>1. at > 0 /\ (at - 1) \div p >= k - 1 /\ (at - 1) \div p < d /\ at - 1 \in Nat
            BY <1>1, <3>2, <4>2, <5>2
          <6>2. (at - 1) \div p \in Nat
            BY <1>8, <1>12, <6>1, DivMod
          <6> HIDE DEF k, d
          <6> QED BY <1>1, <1>9, <1>12, <6>1, <6>2
        <5> QED BY <5>1, <5>2
      <4> QED BY <4>4, <4>5
    <3> QED BY <1>1, <3>1, <3>2
  <2>2. at * b \in Nat
    BY <1>1, Times
  <2>3. Least(at * b, n) = n
    BY <1>1, <2>1, <2>2 DEF Least
  <2>4. ASSUME NEW g \in 0..(Ceil(n, b) - 1) PROVE ~VmdkUnmappable(g)
    <3>1. g \in Nat /\ g * b < n
      BY <1>2, <1>7
    <3>2. ~(at <= g)
      BY <1>1, <2>1, <2>2, <3>1, Times
    <3> QED BY <1>1, <3>1, <3>2
  <2>5. Mappable
    <3>1. ~layout.cowd => ~VmdkTurnedDown
      BY <1>1, <1>8, <1>12, VmdkPastTaken
    <3>2. layout.cowd => ~VmdkTurnedDown
      BY DEF VmdkTurnedDown
    <3> QED BY <1>5, <1>12, <2>1, <2>4, <3>1, <3>2
  <2>6. Maps(extents, DeclaredSize) /\ DeclaredSize \in 0..MaxU64
    BY <1>1, <2>3, VmdkIs
  <2>7. extents \in Seq(ExtentSet(Names))
    BY <2>6 DEF Maps
  <2>8. NewInv' /\ step' = "new"
    BY <1>4, <1>12, <2>5, <2>6, <2>7, HandOverStep
  <2> QED BY <1>3, <2>8
<1>13. CASE /\ ~VmdkUnsupported /\ ~VmdkDone(at) /\ ~VmdkUnmappable(at)
            /\ Round(VmdkMapped(at), at + VmdkRound(at))
  <2> DEFINE m == VmdkRound(at)
             x == at * b
  <2>1. m \in Nat \ {0} /\ \A h \in at..(at + m - 1) : h \div p = at \div p
    BY <1>1, <1>8, <1>13, VmdkSpan
  <2>2. /\ at' = at + m /\ extents' = VmdkMapped(at) /\ step' = "walk" /\ Fresh'
    BY <1>13 DEF Round, Fresh, vars, VmdkOpen, Loop, LoopTo, Walking
  <2>3. x \in Nat
    BY <1>1, Times
  <2>4. MapsNext(extents', Least((at + m) * b, n))
    <3>1. CASE x < n
      <4> DEFINE e == VmdkPart(at)
      <4>1. /\ e \in ExtentSet(Names) /\ e.logical_offset = x /\ e.size # 0
            /\ Least((at + m) * b, n) = x + e.size
            /\ \A o \in x..(x + e.size - 1) :
                 Target(e.source, e.source_offset + o - x) = Coded(o)
        BY <1>1, <1>8, <1>13, <3>1, VmdkGrain
      <4>2. VmdkMapped(at) = merge_extent(extents, e)
        <5>1. ~(x >= n)
          BY <1>1, <2>3, <3>1
        <5> QED BY <5>1 DEF VmdkMapped, VmdkPart
      <4>3. Least(x, n) = x
        BY <1>1, <2>3, <3>1 DEF Least
      <4>4. Maps(extents, x)
        BY <1>1, <4>3
      <4> HIDE DEF e, x
      <4>5. PICK can \in BOOLEAN : /\ merge_extent(extents, e) = Joined(extents, e, can)
                                   /\ extents # <<>> /\ can => can_merge(extents[Len(extents)], e)
        BY MergeIsJoined
      <4>6. MapsNext(Joined(extents, e, can), x + e.size)
        BY <1>4, <2>3, <4>1, <4>4, <4>5, JoinedRound
      <4> QED BY <2>2, <4>1, <4>2, <4>5, <4>6
    <3>2. CASE ~(x < n)
      <4>1. x >= n /\ Least(x, n) = n
        BY <1>1, <2>3, <3>2 DEF Least
      <4>2. extents' = extents
        BY <2>2, <4>1 DEF VmdkMapped
      <4>3. at <= at + m /\ at + m \in Nat
        BY <1>1, <2>1
      <4>4. x <= (at + m) * b /\ (at + m) * b \in Nat
        BY <1>1, <4>3, Times
      <4>5. Least((at + m) * b, n) = n
        BY <1>1, <2>3, <4>1, <4>4 DEF Least
      <4>6. MapsNext(extents, n)
        BY <1>1, <1>4, <4>1, SameMaps
      <4> QED BY <4>2, <4>5, <4>6
    <3> QED BY <3>1, <3>2
  <2>5. Maps(extents, Least(at * layout.block, layout.size))'
    BY <1>3, <2>2, <2>4 DEF Maps, MapsNext
  <2>6. ASSUME NEW g \in 0..(at + m - 1), g * b < n PROVE ~VmdkUnmappable(g)
    <3>1. CASE g < at
      BY <1>1, <2>6, <3>1
    <3>2. CASE g >= at
      <4>1. g \in at..(at + m - 1) /\ g \in Nat
        BY <1>1, <2>1, <3>2
      <4>2. g \div p = at \div p
        BY <2>1, <4>1
      <4>3. x <= g * b /\ g * b \in Nat
        BY <1>1, <3>2, <4>1, Times
      <4>4. ~(x >= n)
        BY <1>1, <2>3, <2>6, <4>3
      <4>5. VmdkTable(g) = VmdkTable(at)
        BY <4>2 DEF VmdkTable
      <4>6. CASE VmdkTable(at) = <<>>
        BY <1>13, <4>2, <4>5, <4>6 DEF VmdkUnmappable
      <4>7. CASE VmdkTable(at) # <<>>
        <5>1. m = 1
          BY <4>4, <4>7 DEF VmdkRound
        <5>2. g = at
          BY <1>1, <4>1, <5>1
        <5> QED BY <1>13, <5>2
      <4> QED BY <4>6, <4>7
    <3> QED BY <1>1, <3>1, <3>2
  <2>7. ~layout.cowd => (at + m - 1) \div p < d
    <3>1. at + m - 1 \in at..(at + m - 1)
      BY <1>1, <2>1
    <3>2. (at + m - 1) \div p = at \div p
      BY <2>1, <3>1
    <3>3. ~(at \div p >= d)
      BY <1>13 DEF VmdkUnmappable
    <3>4. at \div p < d
      <4> HIDE DEF d
      <4> QED BY <1>1, <1>9, <1>13, <3>3
    <3> QED BY <3>2, <3>4
  <2>8. VmdkWalk'
    <3> HIDE DEF m
    <3>1. at' \in Nat /\ at' - 1 = at + m - 1
      BY <1>1, <2>1, <2>2
    <3>2. \A g \in 0..(at' - 1) :
            (g * layout.block < layout.size)' => ~VmdkUnmappable(g)'
      BY <1>3, <2>6, <3>1 DEF VmdkUnmappable, VmdkTable, VmdkSector, VmdkSize, VmdkDirectory
    <3>3. (~layout.cowd => (at - 1) \div layout.per_table < Len(VmdkDirectory.tables))'
      BY <1>3, <2>7, <3>1 DEF VmdkDirectory
    <3>4. ~layout.cowd => VmdkEdges(at + m)
      BY <1>1, <1>8, <1>13, VmdkEdgesKept DEF m
    <3>5. (~layout.cowd => VmdkEdges(at))'
      BY <1>3, <2>2, <3>4 DEF VmdkEdges, VmdkPast, VmdkUnmappable, VmdkTable, VmdkSector, VmdkSize,
                              VmdkDirectory
    <3> QED BY <2>5, <3>1, <3>2, <3>3, <3>5 DEF VmdkWalk
  <2> QED BY <1>3, <2>2, <2>8
<1> QED BY <1>6, <1>11, <1>12, <1>13


-----------------------------------------------------------------------------
(* Sparse bundles.                                                         *)

BundleImage ==
  /\ layout.format = "sparsebundle" /\ layout.size \in 0..MaxU64 /\ layout.block \in Nat \ {0}
  /\ layout.plists \in Seq(BOOLEAN)
  /\ \A i \in 0..(BandCount - 1) : BandFile(i) \in Names /\ BandFileSize(i) \in Nat

BundleWalk ==
  /\ at \in Nat /\ at <= BandCount
  /\ Maps(extents, Least(at * layout.block, layout.size))
  /\ \A i \in 0..(at - 1) : ~BandFileRefused(i)

NoPlist == \A i \in 1..Len(layout.plists) : ~layout.plists[i]

LEMMA BundleIs ==
  ASSUME BundleImage
  PROVE  /\ layout.size \in Nat /\ DeclaredSize = layout.size
         /\ Mappable <=> ~NoPlist /\ \A i \in 0..(BandCount - 1) : ~BandFileRefused(i)
         /\ \A o : Coded(o) = SparseBundleDeclared(o)
<1>1. layout.format = "sparsebundle"
  BY DEF BundleImage
<1>2. layout.size \in Nat
  BY ExtentMapNewAssumption DEF BundleImage
<1>3. DeclaredSize = layout.size
  BY <1>1 DEF DeclaredSize
<1>4. Mappable <=> SparseBundleMappable
  BY <1>1 DEF Mappable
<1>5. \A o : Coded(o) = SparseBundleDeclared(o)
  BY <1>1 DEF Coded, Declared
<1> QED BY <1>2, <1>3, <1>4, <1>5 DEF SparseBundleMappable, NoPlist

LEMMA BundleSame ==
  ASSUME BundleImage, layout' = layout
  PROVE  SameTables
<1>1. layout.format = "sparsebundle"
  BY DEF BundleImage
<1>2. Mappable' <=> Mappable
  BY <1>1 DEF Mappable, SparseBundleMappable, BandFileRefused, BandFile, BandFileSize, BandSize,
              BandOffset, BandCount
<1>3. DeclaredSize' = DeclaredSize
  BY <1>1 DEF DeclaredSize
<1>4. \A o \in Nat : Coded(o)' = Coded(o)
  BY <1>1 DEF Coded, Declared, SparseBundleDeclared, BandFileSize, BandFile
<1> QED BY <1>2, <1>3, <1>4 DEF SameTables

LEMMA Two ==
  ASSUME NEW S, NEW d \in S, NEW z \in S
  PROVE  <<d>> \o <<z>> = <<d, z>>
<1> DEFINE l == <<d>> \o <<z>>
           r == <<d, z>>
<1>1. l \in Seq(S) /\ r \in Seq(S) /\ Len(l) = 2 /\ Len(r) = 2
  OBVIOUS
<1>2. \A i \in 1..2 : l[i] = r[i]
  OBVIOUS
<1> HIDE DEF l, r
<1>3. l = r
  BY <1>1, <1>2, SameExtents
<1> QED BY <1>3 DEF l, r

(* What a band adds: the bytes of its file, and zeros for the rest.        *)
LEMMA BundleBand ==
  ASSUME BundleImage, NEW c \in Nat, c < BandCount, c * layout.block < layout.size,
         ~BandFileRefused(c), NEW list, Maps(list, c * layout.block)
  PROVE  Maps(list \o BandFileExtents(c), Least((c + 1) * layout.block, layout.size))
<1> DEFINE b == layout.block
           x == c * b
           w == BandSize(c)
           f == BandFileSize(c)
           name == BandFile(c)
           d == Data(x, f, name, 0)
           z == Zero(x + f, w - f)
<1>1. layout.size \in Nat /\ b \in Nat \ {0} /\ x \in Nat /\ x < layout.size
  BY BundleIs, Times DEF BundleImage
<1>2. w = Least(b, layout.size - x)
  BY DEF BandSize, BandOffset
<1>3. w \in Nat
  <2> HIDE DEF x, w
  <2> QED BY <1>1, <1>2 DEF Least
<1>4. w # 0 /\ w <= b /\ Least((c + 1) * b, layout.size) = x + w
  BY <1>1, <1>2, <1>3, OneBlock
<1>5. /\ name \in Names /\ f \in Nat /\ f <= w
      /\ name = "none" => f = 0
      /\ name # "none" => f # 0
  <2>1. c \in 0..(BandCount - 1) /\ BandCount \in Nat
    BY <1>1, Blocks DEF BandCount
  <2>2. name \in Names /\ f \in Nat
    BY <2>1 DEF BundleImage
  <2>3. f <= w
    <3>1. ~(f > w)
      BY DEF BandFileRefused
    <3> HIDE DEF f, w
    <3> QED BY <1>3, <2>2, <3>1
  <2> QED BY <2>2, <2>3 DEF BandFileRefused, BandFileSize
<1>6. ASSUME NEW o \in x..(x + w - 1)
      PROVE  Coded(o) = IF o - x < f THEN Target(name, o - x) ELSE ZeroTarget
  <2>1. o \in Nat /\ x <= o /\ o < x + b
    <3> HIDE DEF x, w
    <3> QED BY <1>1, <1>3, <1>4
  <2>2. o \div b = c /\ o % b = o - x
    BY <1>1, <2>1, InBlock
  <2> QED BY <2>2, BundleIs DEF SparseBundleDeclared
<1>7. BandFileExtents(c) = (IF name = "none" THEN <<>> ELSE <<d>>) \o (IF f = w THEN <<>> ELSE <<z>>)
  BY DEF BandFileExtents, BandOffset
<1>8. list \in Seq(ExtentSet(Names)) /\ Maps(list, x)
  BY DEF Maps
<1> HIDE DEF x, w, f, name
<1>9. /\ d \in ExtentSet(Names) /\ d.logical_offset = x /\ d.size = f
      /\ d.source = name /\ d.source_offset = 0
  <2>1. 0 \in Nat
    OBVIOUS
  <2> QED BY <1>1, <1>5, <2>1, DataIs
<1>10. /\ z \in ExtentSet(Names) /\ z.logical_offset = x + f /\ z.size = w - f
       /\ z.source = "zero" /\ z.source_offset = 0
  <2>1. x + f \in Nat /\ w - f \in Nat
    BY <1>1, <1>3, <1>5
  <2> QED BY <2>1, ZeroIs
<1> HIDE DEF d, z
<1>11. ASSUME f # 0 PROVE Maps(Append(list, d), x + f)
  <2>1. ASSUME NEW o \in x..(x + d.size - 1)
        PROVE  Target(d.source, d.source_offset + o - x) = Coded(o)
    <3>1. o \in x..(x + w - 1) /\ o - x < f /\ 0 + o - x = o - x
      BY <1>1, <1>3, <1>5, <1>9
    <3>2. Coded(o) = Target(name, o - x)
      BY <1>6, <3>1
    <3> QED BY <1>9, <3>1, <3>2
  <2>2. Maps(Append(list, d), x + d.size)
    BY <1>1, <1>8, <1>9, <1>11, <2>1, MapsAppend
  <2> QED BY <1>9, <2>2
<1>12. ASSUME NEW u, Maps(u, x + f), f # w PROVE Maps(Append(u, z), x + w)
  <2> DEFINE y == x + f
  <2>1. y \in Nat /\ z.size # 0 /\ y + z.size = x + w /\ z.logical_offset = y
    BY <1>1, <1>3, <1>5, <1>10, <1>12
  <2>2. ASSUME NEW o \in y..(y + z.size - 1)
        PROVE  Target(z.source, z.source_offset + o - y) = Coded(o)
    <3>1. o \in x..(x + w - 1) /\ ~(o - x < f)
      BY <1>1, <1>3, <1>5, <1>10
    <3>2. Coded(o) = ZeroTarget
      BY <1>6, <3>1
    <3> QED BY <1>10, <3>2 DEF Target, ZeroTarget
  <2>3. Maps(u, y)
    BY <1>12
  <2> HIDE DEF y
  <2>4. Maps(Append(u, z), y + z.size)
    BY <1>10, <2>1, <2>2, <2>3, MapsAppend
  <2> QED BY <2>1, <2>4
<1>13. CASE name = "none"
  <2>1. f = 0 /\ f # w
    BY <1>4, <1>5, <1>13
  <2>2. list \o BandFileExtents(c) = Append(list, z)
    <3>1. BandFileExtents(c) = <<z>>
      BY <1>7, <1>10, <1>13, <2>1
    <3> QED BY <1>8, <1>10, <3>1, AppendOne
  <2>3. Maps(list, x + f)
    BY <1>1, <1>8, <2>1
  <2> QED BY <1>4, <1>12, <2>1, <2>2, <2>3
<1>14. CASE name # "none" /\ f = w
  <2>1. list \o BandFileExtents(c) = Append(list, d)
    <3>1. BandFileExtents(c) = <<d>>
      BY <1>7, <1>9, <1>14
    <3> QED BY <1>8, <1>9, <3>1, AppendOne
  <2> QED BY <1>4, <1>5, <1>11, <1>14, <2>1
<1>15. CASE name # "none" /\ f # w
  <2>1. list \o BandFileExtents(c) = Append(Append(list, d), z)
    <3>1. BandFileExtents(c) = <<d>> \o <<z>>
      BY <1>7, <1>15
    <3>2. d \in ExtentSet(Names) /\ z \in ExtentSet(Names) /\ list \in Seq(ExtentSet(Names))
      BY <1>8, <1>9, <1>10
    <3>3. BandFileExtents(c) = <<d, z>>
      BY <3>1, <3>2, Two
    <3>4. list \o <<d, z>> = Append(Append(list, d), z)
      BY <3>2
    <3> QED BY ONLY <3>3, <3>4
  <2>2. Maps(Append(list, d), x + f)
    BY <1>5, <1>11, <1>15
  <2> QED BY <1>4, <1>12, <1>15, <2>1, <2>2
<1> QED BY <1>13, <1>14, <1>15


LEMMA BundleStep ==
  ASSUME BundleImage, Fresh, BundleWalk, SparseBundleOpen
  PROVE  /\ layout' = layout
         /\ \/ step' = "walk" /\ Fresh' /\ BundleWalk'
            \/ step' = "failed" /\ Fresh' /\ ~Mappable'
            \/ step' = "new" /\ NewInv'
<1> DEFINE b == layout.block
           n == layout.size
           bands == BandCount
<1>1. n \in Nat /\ n \in 0..MaxU64 /\ b \in Nat \ {0} /\ at \in Nat /\ at <= bands
      /\ Maps(extents, Least(at * b, n)) /\ \A i \in 0..(at - 1) : ~BandFileRefused(i)
  BY BundleIs DEF BundleWalk, BundleImage
<1>2. bands \in Nat /\ (at < bands <=> at * b < n) /\ bands = Ceil(n, b)
  BY <1>1, Blocks DEF BandCount
<1>3. layout' = layout
  BY DEF SparseBundleOpen, Loop, LoopTo, Fail, HandOver, Round
<1>4. SameTables
  BY <1>3, BundleSame
<1>5. Mappable <=> ~NoPlist /\ \A i \in 0..(bands - 1) : ~BandFileRefused(i)
  BY BundleIs
<1>6. \/ NoPlist /\ Fail
      \/ ~NoPlist /\ at >= bands /\ HandOver(extents)
      \/ ~NoPlist /\ ~(at >= bands) /\ BandFileRefused(at) /\ Fail
      \/ ~(at >= bands) /\ ~BandFileRefused(at) /\ Round(extents \o BandFileExtents(at), at + 1)
  BY DEF SparseBundleOpen, Loop, LoopTo, NoPlist
<1> HIDE DEF bands
<1>7. CASE Fail /\ (NoPlist \/ (~(at >= bands) /\ BandFileRefused(at)))
  <2>1. step' = "failed" /\ Fresh'
    BY <1>7 DEF Fail, Fresh, vars
  <2>2. ~(at >= bands) => at \in 0..(bands - 1)
    BY <1>1, <1>2
  <2>3. ~Mappable
    BY <1>5, <1>7, <2>2
  <2> QED BY <1>3, <1>4, <2>1, <2>3 DEF SameTables
<1>8. CASE ~NoPlist /\ at >= bands /\ HandOver(extents)
  <2>1. at = bands /\ ~(at * b < n) /\ at * b \in Nat
    BY <1>1, <1>2, <1>8, Times
  <2>2. Least(at * b, n) = n
    BY <1>1, <2>1 DEF Least
  <2>3. Mappable
    BY <1>1, <1>5, <1>8, <2>1
  <2>4. Maps(extents, DeclaredSize) /\ DeclaredSize \in 0..MaxU64
    BY <1>1, <2>2, BundleIs
  <2>5. extents \in Seq(ExtentSet(Names))
    BY <2>4 DEF Maps
  <2>6. NewInv' /\ step' = "new"
    BY <1>4, <1>8, <2>3, <2>4, <2>5, HandOverStep
  <2> QED BY <1>3, <2>6
<1>9. CASE /\ ~(at >= bands) /\ ~BandFileRefused(at)
           /\ Round(extents \o BandFileExtents(at), at + 1)
  <2> DEFINE u == extents \o BandFileExtents(at)
             y == Least((at + 1) * b, n)
  <2>1. at < bands /\ at * b < n /\ at * b \in Nat /\ (at + 1) * b \in Nat
    BY <1>1, <1>2, <1>9, Times
  <2>2. Least(at * b, n) = at * b
    BY <1>1, <2>1 DEF Least
  <2>3. at < BandCount
    BY <2>1 DEF bands
  <2>4. Maps(u, y)
    BY <1>1, <1>9, <2>1, <2>2, <2>3, BundleBand
  <2>5. y \in Nat
    BY <1>1, <2>1 DEF Least
  <2>6. extents' = u /\ at' = at + 1 /\ step' = step /\ UNCHANGED vars
    BY <1>9 DEF Round
  <2> HIDE DEF u, y
  <2>7. MapsNext(u, y)
    BY <1>4, <2>4, <2>5, SameMaps
  <2>8. Maps(extents, Least(at * layout.block, layout.size))'
    BY <1>3, <2>6, <2>7 DEF Maps, MapsNext, y
  <2>9. \A i \in 0..at : ~BandFileRefused(i)
    <3>1. \A i \in 0..at : i = at \/ i \in 0..(at - 1)
      BY <1>1
    <3> QED BY <1>1, <1>9, <3>1
  <2>10. BundleWalk'
    <3>1. at' \in Nat /\ at' <= bands /\ at' - 1 = at
      BY <1>1, <1>2, <2>1, <2>6
    <3>2. \A i \in 0..(at' - 1) : ~BandFileRefused(i)'
      BY <1>3, <2>9, <3>1 DEF BandFileRefused, BandFile, BandFileSize, BandSize, BandOffset
    <3>3. BandCount' = bands
      BY <1>3 DEF BandCount, bands
    <3> QED BY <1>3, <2>8, <3>1, <3>2, <3>3 DEF BundleWalk
  <2>11. step' = "walk" /\ Fresh'
    BY <2>6 DEF Fresh, vars, SparseBundleOpen, Loop, LoopTo, Walking
  <2> QED BY <1>3, <2>10, <2>11
<1> QED BY <1>6, <1>7, <1>8, <1>9


-----------------------------------------------------------------------------
(* VHD of the fixed type: a slice of the file, which new does not check.   *)

FixedImage ==
  layout.format = "vhd" /\ layout.disk_type = "fixed" /\ layout.size \in 0..MaxU64

LEMMA FixedIs ==
  ASSUME FixedImage
  PROVE  /\ layout.size \in Nat /\ DeclaredSize = layout.size /\ Mappable
         /\ \A o : Coded(o) = Target("file", o)
<1>1. layout.format = "vhd" /\ layout.disk_type = "fixed"
  BY DEF FixedImage
<1>2. layout.size \in Nat
  BY ExtentMapNewAssumption DEF FixedImage
<1>3. DeclaredSize = layout.size
  BY <1>1 DEF DeclaredSize
<1>4. Mappable
  BY <1>1 DEF Mappable
<1>5. \A o : Coded(o) = Target("file", o)
  BY <1>1 DEF Coded, Declared, VhdDeclared, VhdMapped
<1> QED BY <1>2, <1>3, <1>4, <1>5

LEMMA FixedSame ==
  ASSUME FixedImage, layout' = layout
  PROVE  SameTables
<1>1. layout.format = "vhd" /\ layout.disk_type = "fixed"
  BY DEF FixedImage
<1>2. Mappable' <=> Mappable
  BY <1>1 DEF Mappable
<1>3. DeclaredSize' = DeclaredSize
  BY <1>1 DEF DeclaredSize
<1>4. \A o \in Nat : Coded(o)' = Coded(o)
  BY <1>1 DEF Coded, Declared, VhdDeclared, VhdMapped
<1> QED BY <1>2, <1>3, <1>4 DEF SameTables

LEMMA FixedStep ==
  ASSUME FixedImage, VhdOpen
  PROVE  layout' = layout /\ step' = "new" /\ NewInv'
<1> DEFINE n == layout.size
           d == Data(0, n, "file", 0)
<1>1. n \in Nat /\ 0 \in Nat /\ "file" \in Names
  BY FixedIs DEF Names
<1>2. Slice("file", 0, n)
  BY DEF VhdOpen, FixedImage
<1>3. /\ layout' = layout /\ step' = "new" /\ phase' = "ok"
      /\ entries' = IF n = 0 THEN <<>> ELSE <<d>>
  BY <1>2 DEF Slice
<1>4. SameTables
  BY <1>3, FixedSame
<1>5. /\ d \in ExtentSet(Names) /\ d.logical_offset = 0 /\ d.size = n
      /\ d.source = "file" /\ d.source_offset = 0
  BY <1>1, DataIs
<1> HIDE DEF d
<1>6. Maps(entries', n)
  <2>1. CASE n = 0
    BY <1>3, <2>1, MapsNothing
  <2>2. CASE n # 0
    <3>1. \A o \in 0..(0 + d.size - 1) : Target(d.source, d.source_offset + o - 0) = Coded(o)
      BY <1>1, <1>5, FixedIs
    <3>2. Maps(Append(<<>>, d), 0 + d.size)
      BY <1>1, <1>5, <2>2, <3>1, MapsNothing, MapsAppend
    <3>3. Append(<<>>, d) = <<d>> /\ 0 + d.size = n
      BY <1>1, <1>5
    <3> QED BY <1>3, <2>2, <3>2, <3>3
  <2> QED BY <2>1, <2>2
<1>7. MapsNext(entries', n)
  BY <1>1, <1>4, <1>6, SameMaps
<1>8. Mappable' /\ DeclaredSize' = n
  BY <1>4, FixedIs DEF SameTables
<1> QED BY <1>3, <1>7, <1>8 DEF NewInv, Maps, MapsNext


-----------------------------------------------------------------------------
(* Split raw images.                                                       *)

SplitImage ==
  /\ layout.format = "splitraw" /\ layout.fixed \in Nat /\ layout.names \in Nat
  /\ DOMAIN layout.files \subseteq Nat \ {0}
  /\ \E last \in Nat : \A n \in DOMAIN layout.files : n <= last
  /\ \A n \in DOMAIN layout.files : SegmentFile(n).name \in Names /\ SegmentFile(n).size \in Nat

(* The extent of segment i, if all before it have the size of the first.   *)
SplitPart(i) ==
  Data((i - 1) * SegmentFile(1).size, SegmentFile(i).size, SegmentFile(i).name, 0)

(* The size of the last segment is compared when there is one more, so     *)
(* that the list need not map anything yet.                                *)
SplitWalk ==
  /\ at \in Nat /\ 1..at \subseteq DOMAIN layout.files
  /\ layout.fixed # 0 => at <= layout.fixed
  /\ \A i \in 1..at : SegmentFile(i).size # 0
  /\ \A i \in 1..(at - 1) : SegmentFile(i).size = SegmentFile(1).size
  /\ at > 0 => (at - 1) * SegmentFile(1).size + SegmentFile(at).size <= MaxU64
  /\ extents \in Seq(ExtentSet(Names)) /\ Len(extents) = at
  /\ \A i \in 1..at : extents[i] = SplitPart(i)

LEMMA SplitIs ==
  ASSUME SplitImage
  PROVE  /\ DeclaredSize = SplitRawSize /\ (Mappable <=> SplitRawMappable)
         /\ \A o : Coded(o) = SplitRawDeclared(o)
<1>1. layout.format = "splitraw"
  BY DEF SplitImage
<1>2. DeclaredSize = SplitRawSize
  BY <1>1 DEF DeclaredSize
<1>3. Mappable <=> SplitRawMappable
  BY <1>1 DEF Mappable
<1>4. \A o : Coded(o) = SplitRawDeclared(o)
  BY <1>1 DEF Coded, Declared
<1> QED BY <1>2, <1>3, <1>4

LEMMA SplitSame ==
  ASSUME SplitImage, layout' = layout
  PROVE  SameTables
<1>1. layout.format = "splitraw"
  BY DEF SplitImage
<1>2. SplitRawCount' = SplitRawCount
  <2> DEFINE Count(l) ==
               IF l.fixed # 0 THEN l.fixed
               ELSE CHOOSE n \in {0} \cup DOMAIN l.files :
                      1..n \subseteq DOMAIN l.files /\ n + 1 \notin DOMAIN l.files
  <2>1. SplitRawCount = Count(layout) /\ SplitRawCount' = Count(layout')
    BY DEF SplitRawCount, SegmentMissing
  <2> HIDE DEF Count
  <2> QED BY <2>1
<1>3. SplitRawSize' = SplitRawSize
  BY <1>2 DEF SplitRawSize, SegmentFile
<1>4. Mappable' <=> Mappable
  BY <1>1, <1>2, <1>3 DEF Mappable, SplitRawMappable, SegmentFile
<1>5. DeclaredSize' = DeclaredSize
  BY <1>1, <1>3 DEF DeclaredSize
<1>6. \A o \in Nat : Coded(o)' = Coded(o)
  BY <1>1, <1>2 DEF Coded, Declared, SplitRawDeclared, SegmentFile
<1> QED BY <1>4, <1>5, <1>6 DEF SameTables

(* The files that follow each other from the first on are at least those   *)
(* seen, and exactly those if the next is missing.                         *)
LEMMA SplitCount ==
  ASSUME SplitImage, layout.fixed = 0, NEW k \in Nat, 1..k \subseteq DOMAIN layout.files
  PROVE  /\ SplitRawCount \in Nat /\ k <= SplitRawCount
         /\ SegmentMissing(k + 1) => SplitRawCount = k
<1> DEFINE D == DOMAIN layout.files
           G(n) == 1..n \subseteq D /\ SegmentMissing(n + 1)
           T == {n \in Nat : n + 1 \notin D}
           count == CHOOSE n \in {0} \cup D : G(n)
<1>1. PICK last \in Nat : \A n \in D : n \in Nat /\ n # 0 /\ n <= last
  BY DEF SplitImage
<1>2. SplitRawCount = count
  BY DEF SplitRawCount
<1>3. PICK m \in T : \A y \in T : m <= y
  <2>1. T \in SUBSET Nat /\ last \in T
    BY <1>1
  <2> HIDE DEF T
  <2> QED BY <2>1, LeastOne
<1>4. m \in Nat /\ m + 1 \notin D
  OBVIOUS
<1>5. \A j \in 1..m : j \in D
  <2> SUFFICES ASSUME NEW j \in 1..m, j \notin D PROVE FALSE
    OBVIOUS
  <2>1. j - 1 \in Nat /\ (j - 1) + 1 = j /\ ~(m <= j - 1)
    BY <1>4
  <2>2. j - 1 \in T
    BY <2>1
  <2> QED BY <1>3, <2>1, <2>2
<1>6. G(m) /\ m \in {0} \cup D
  <2>1. m = 0 \/ m \in 1..m
    BY <1>4
  <2> QED BY <1>4, <1>5, <2>1 DEF SegmentMissing
<1>7. count \in {0} \cup D /\ G(count)
  BY <1>6
<1> HIDE DEF count
<1>8. count \in Nat /\ 1..count \subseteq D /\ count + 1 \notin D
  BY <1>1, <1>7 DEF SegmentMissing
<1>9. ~(count < k)
  BY <1>8
<1>10. k + 1 \notin D => ~(k < count)
  BY <1>8
<1>11. k <= count /\ (k + 1 \notin D => count = k)
  BY <1>8, <1>9, <1>10
<1> QED BY <1>2, <1>8, <1>11 DEF SegmentMissing

(* Where the next segment begins.                                          *)
LEMMA SplitOffset ==
  ASSUME SplitImage, SplitWalk
  PROVE  /\ logical_offset \in Nat
         /\ at = 0 => logical_offset = 0
         /\ at > 0 => /\ SegmentFile(1).size \in Nat \ {0} /\ SegmentFile(at).size \in Nat
                      /\ logical_offset = (at - 1) * SegmentFile(1).size + SegmentFile(at).size
<1>1. at \in Nat /\ Len(extents) = at /\ extents \in Seq(ExtentSet(Names))
  BY DEF SplitWalk
<1>2. CASE at = 0
  <2>1. extents = <<>>
    BY <1>1, <1>2
  <2> QED BY <1>2, <2>1 DEF logical_offset
<1>3. CASE at > 0
  <2> DEFINE s == SegmentFile(1).size
             f == SegmentFile(at).size
             x == (at - 1) * s
             name == SegmentFile(at).name
  <2>1. extents # <<>> /\ 1 \in 1..at /\ at \in 1..at /\ at - 1 \in Nat
    BY <1>1, <1>3
  <2>2. s \in Nat /\ f \in Nat /\ s # 0 /\ name \in Names
    BY <2>1 DEF SplitImage, SplitWalk
  <2>3. x \in Nat
    BY <2>1, <2>2, Times
  <2>4. extents[at] = Data(x, f, name, 0)
    BY <2>1 DEF SplitWalk, SplitPart
  <2> HIDE DEF x, s, f, name
  <2>5. extents[at].logical_offset = x /\ extents[at].size = f
    BY ONLY <2>4 DEF Data
  <2>6. logical_offset = x + f
    BY <1>1, <2>1, <2>5 DEF logical_offset, End
  <2> QED BY <1>3, <2>2, <2>3, <2>6 DEF x, s, f
<1> QED BY <1>1, <1>2, <1>3

(* The list of all segments maps the image.                                *)
LEMMA SplitEnd ==
  ASSUME SplitImage, SplitWalk, at > 0, SplitRawCount = at
  PROVE  Maps(extents, SplitRawSize) /\ SplitRawSize \in Nat
<1> DEFINE s == SegmentFile(1).size
           f(i) == SegmentFile(i).size
           all == SplitRawSize
           x(i) == (i - 1) * s
<1>1. at \in Nat /\ Len(extents) = at /\ extents \in Seq(ExtentSet(Names)) /\ 1 \in 1..at /\ at \in 1..at
  BY DEF SplitWalk
<1>2. \A i \in 1..at : f(i) \in Nat /\ f(i) # 0 /\ SegmentFile(i).name \in Names
  BY DEF SplitImage, SplitWalk
<1>3. s \in Nat \ {0}
  BY <1>1, <1>2
<1>4. \A i \in 1..at : i - 1 \in Nat /\ i \in Nat /\ x(i) \in Nat
  BY <1>3, Times
<1>5. all = x(at) + f(at) /\ all \in Nat
  BY <1>1, <1>2, <1>4 DEF SplitRawSize
<1>6. ASSUME NEW i \in 1..at
      PROVE  /\ extents[i].logical_offset = x(i) /\ extents[i].size = f(i)
             /\ extents[i].source = SegmentFile(i).name /\ extents[i].source_offset = 0
             /\ End(extents[i]) = x(i) + f(i)
  <2> DEFINE y == x(i)
             w == f(i)
             name == SegmentFile(i).name
  <2>1. extents[i] = Data(y, w, name, 0)
    BY DEF SplitWalk, SplitPart
  <2>2. y \in Nat /\ w \in Nat /\ name \in Names /\ 0 \in Nat
    BY <1>2, <1>4
  <2> HIDE DEF y, w, name
  <2>3. /\ extents[i].logical_offset = y /\ extents[i].size = w
        /\ extents[i].source = name /\ extents[i].source_offset = 0
    <3> DEFINE d == Data(y, w, name, 0)
    <3>1. d.logical_offset = y /\ d.size = w /\ d.source = name /\ d.source_offset = 0
      BY <2>2, DataIs
    <3> QED BY <2>1, <3>1
  <2> QED BY <2>3 DEF End, y, w, name
<1>7. \A i \in 1..at : i < at => f(i) = s
  <2>1. \A i \in 1..at : i < at => i \in 1..(at - 1)
    BY <1>1
  <2> QED BY <2>1 DEF SplitWalk
<1>8. \A i, j \in 1..at : i < j => x(i) + f(i) <= x(j)
  <2> SUFFICES ASSUME NEW i \in 1..at, NEW j \in 1..at, i < j PROVE x(i) + f(i) <= x(j)
    OBVIOUS
  <2>1. f(i) = s /\ i - 1 \in Nat /\ j - 1 \in Nat /\ i <= j - 1 /\ i \in Nat /\ (i - 1) + 1 = i
    BY <1>1, <1>4, <1>7
  <2> DEFINE k == i - 1
             l == j - 1
  <2>2. k \in Nat /\ l \in Nat /\ k + 1 \in Nat /\ k + 1 <= l
    BY <2>1
  <2> HIDE DEF k, l
  <2>3. (k + 1) * s <= l * s /\ (k + 1) * s = k * s + s
    BY <1>3, <2>2, Times
  <2> QED BY <2>1, <2>3 DEF k, l
<1> HIDE DEF x, all, s
<1>9. ASSUME NEW o \in 0..(all - 1)
      PROVE  \E i \in 1..at : /\ x(i) <= o /\ o < x(i) + f(i)
                              /\ Least((o \div s) + 1, at) = i
  <2> DEFINE q == o \div s
  <2>1. o \in Nat
    BY <1>5
  <2>2. q \in Nat /\ o % s \in 0..(s - 1) /\ o = q * s + (o % s) /\ q * s \in Nat
    BY <1>3, <2>1, DivMod, Times
  <2>3. q * s <= o /\ o < q * s + s
    BY <1>3, <2>2
  <2> HIDE DEF q
  <2>4. CASE q + 1 < at
    <3>1. q + 1 \in 1..at /\ f(q + 1) = s /\ (q + 1) - 1 = q
      BY <1>1, <1>7, <2>2, <2>4
    <3>2. x(q + 1) = q * s
      BY <3>1 DEF x
    <3>3. Least(q + 1, at) = q + 1
      BY <1>1, <2>2, <2>4 DEF Least
    <3> QED BY <2>3, <3>1, <3>2, <3>3 DEF q
  <2>5. CASE ~(q + 1 < at)
    <3>1. at - 1 <= q /\ at - 1 \in Nat
      BY <1>1, <2>2, <2>5
    <3>2. (at - 1) * s <= q * s
      BY <1>3, <2>2, <3>1, Times
    <3>3. x(at) = (at - 1) * s /\ x(at) \in Nat
      BY <1>1, <1>4 DEF x
    <3>4. x(at) <= o /\ o < x(at) + f(at)
      BY <1>1, <1>2, <1>5, <2>1, <2>2, <2>3, <3>2, <3>3
    <3>5. Least(q + 1, at) = at
      BY <1>1, <2>2, <2>5 DEF Least
    <3> QED BY <1>1, <3>4, <3>5 DEF q
  <2> QED BY <2>4, <2>5
<1>10. Tiles(extents, all)
  <2>1. \A i \in 1..at : extents[i].size > 0 /\ End(extents[i]) <= all
    <3> SUFFICES ASSUME NEW i \in 1..at PROVE f(i) > 0 /\ x(i) + f(i) <= all
      BY <1>6
    <3>1. i = at \/ i < at
      BY <1>1
    <3>2. i < at => x(i) + f(i) <= x(at)
      BY <1>1, <1>8
    <3>3. x(i) \in Nat /\ x(at) \in Nat /\ f(i) \in Nat /\ f(i) # 0 /\ f(at) \in Nat
      BY <1>1, <1>2, <1>4
    <3> QED BY <1>5, <3>1, <3>2, <3>3
  <2>2. \A i, j \in 1..at : i < j => End(extents[i]) <= extents[j].logical_offset
    BY <1>6, <1>8
  <2>3. \A p \in 0..(all - 1) :
          \E i \in 1..at : extents[i].logical_offset <= p /\ p < End(extents[i])
    BY <1>6, <1>9
  <2> QED BY <1>1, <2>1, <2>2, <2>3 DEF Tiles
<1>11. ASSUME NEW o \in 0..(all - 1) PROVE Found(extents, o) = Coded(o)
  <2>1. PICK i \in 1..at : x(i) <= o /\ o < x(i) + f(i) /\ Least((o \div s) + 1, at) = i
    BY <1>9
  <2>2. Found(extents, o)
          = Target(extents[i].source, extents[i].source_offset + o - extents[i].logical_offset)
    <3>1. extents[i].logical_offset <= o /\ o < End(extents[i]) /\ i \in 1..Len(extents)
      BY <1>1, <1>6, <2>1
    <3> QED BY <1>1, <1>5, <1>10, <3>1, FoundIn
  <2>3. Coded(o) = Target(SegmentFile(i).name, o - (i - 1) * s)
    BY <2>1, SplitIs DEF SplitRawDeclared, s
  <2>4. 0 + o - x(i) = o - x(i)
    BY <1>4, <1>5
  <2> QED BY <1>6, <2>2, <2>3, <2>4 DEF x
<1> QED BY <1>1, <1>5, <1>10, <1>11 DEF Maps, all

(* A segment that is refused is one the image cannot do without.           *)
LEMMA SplitRefused ==
  ASSUME SplitImage, SplitWalk, ~SegmentsDone(at + 1), SegmentRefused(at + 1)
  PROVE  ~Mappable
<1> DEFINE n == at + 1
           D == DOMAIN layout.files
           s == SegmentFile(1).size
           count == SplitRawCount
<1> SUFFICES ASSUME SplitRawMappable PROVE FALSE
  BY SplitIs
<1>1. /\ count > 0 /\ 1..count \subseteq D /\ (layout.fixed = 0 => count < layout.names)
      /\ \A i \in 1..count : SegmentFile(i).size # 0
      /\ \A i \in 1..(count - 1) : SegmentFile(i).size = s
      /\ SplitRawSize <= MaxU64
  BY DEF SplitRawMappable
<1>2. at \in Nat /\ 1..at \subseteq D /\ layout.fixed \in Nat /\ layout.names \in Nat
  BY DEF SplitWalk, SplitImage
<1>3. layout.fixed # 0 => count = layout.fixed /\ n <= count
  <2>1. layout.fixed # 0 => count = layout.fixed
    BY DEF SplitRawCount
  <2>2. layout.fixed # 0 => ~(n > layout.fixed)
    BY DEF SegmentsDone
  <2> QED BY <1>2, <2>1, <2>2
<1>4. layout.fixed = 0 => count \in Nat /\ at <= count
  BY <1>2, SplitCount
<1>5. ~Unnamed(n)
  <2> HIDE DEF count
  <2> QED BY <1>1, <1>2, <1>4 DEF Unnamed
<1>6. count \in Nat
  BY <1>2, <1>3, <1>4
<1>7. n \in D
  <2> SUFFICES ASSUME SegmentMissing(n) PROVE FALSE
    BY DEF SegmentMissing
  <2>1. layout.fixed # 0
    BY <1>5 DEF SegmentsDone
  <2>2. n \in 1..count
    BY <1>2, <1>3, <1>6, <2>1
  <2> QED BY <1>1, <2>2 DEF SegmentMissing
<1>8. n <= count
  <2>1. CASE layout.fixed = 0
    <3>1. n \in Nat /\ 1..n \subseteq D
      BY <1>2, <1>7
    <3> QED BY <2>1, <3>1, SplitCount
  <2> QED BY <1>3, <2>1
<1> HIDE DEF count
<1>9. n \in 1..count
  BY <1>2, <1>6, <1>8
<1>10. SegmentFile(n).size # 0
  BY <1>1, <1>9
<1>11. n > 1 => SegmentFile(n - 1).size = s
  BY <1>1, <1>2, <1>6, <1>8
<1>12. logical_offset + SegmentFile(n).size > MaxU64
  BY <1>5, <1>7, <1>10, <1>11 DEF SegmentRefused, SegmentMissing
<1>13. 1 \in D /\ count \in D
  BY <1>1, <1>6
<1>14. s \in Nat /\ SegmentFile(n).size \in Nat /\ SegmentFile(count).size \in Nat
  BY <1>7, <1>13 DEF SplitImage
<1>15. logical_offset = at * s
  <2>1. CASE at = 0
    BY <1>14, <2>1, SplitOffset
  <2>2. CASE at > 0
    <3>1. SegmentFile(at).size = s
      BY <1>2, <1>11, <2>2
    <3>2. logical_offset = (at - 1) * s + s /\ at - 1 \in Nat
      BY <1>2, <2>2, <3>1, SplitOffset
    <3> DEFINE k == at - 1
    <3>3. k \in Nat /\ k + 1 = at
      BY <1>2, <3>2
    <3> HIDE DEF k
    <3>4. (k + 1) * s = k * s + s
      BY <1>14, <3>3, Times
    <3> QED BY <3>2, <3>3, <3>4 DEF k
  <2> QED BY <1>2, <2>1, <2>2
<1>16. SplitRawSize = (count - 1) * s + SegmentFile(count).size
  BY DEF SplitRawSize, count
<1> HIDE DEF s
<1>17. at * s \in Nat /\ (at + 1) * s = at * s + s /\ MaxU64 \in Nat
  BY <1>2, <1>14, Times, ExtentMapNewAssumption
<1>18. CASE n = count
  <2>1. count - 1 = at
    BY <1>2, <1>18
  <2> QED BY <1>1, <1>12, <1>14, <1>15, <1>16, <1>17, <1>18, <2>1
<1>19. CASE n < count
  <2>1. n \in 1..(count - 1) /\ n \in Nat /\ count - 1 \in Nat /\ n <= count - 1
    BY <1>2, <1>6, <1>19
  <2>2. SegmentFile(n).size = s
    BY <1>1, <2>1 DEF s
  <2>3. n * s <= (count - 1) * s /\ (count - 1) * s \in Nat
    BY <1>14, <2>1, Times
  <2> DEFINE y == (count - 1) * s
             z == at * s
  <2>4. z + s <= y /\ y \in Nat /\ z \in Nat
    BY <1>17, <2>3
  <2>5. y + SegmentFile(count).size <= MaxU64 /\ z + s > MaxU64
    BY <1>1, <1>12, <1>15, <1>16, <2>2
  <2> HIDE DEF y, z
  <2> QED BY <1>14, <1>17, <2>4, <2>5
<1> QED BY <1>2, <1>6, <1>8, <1>18, <1>19

LEMMA SplitRound ==
  ASSUME SplitImage, SplitWalk, ~SegmentsDone(at + 1), ~SegmentRefused(at + 1), layout' = layout,
         Round(Append(extents, Data(logical_offset, SegmentFile(at + 1).size,
                                    SegmentFile(at + 1).name, 0)), at + 1)
  PROVE  SplitWalk'
<1> DEFINE n == at + 1
           D == DOMAIN layout.files
           s == SegmentFile(1).size
           f == SegmentFile(n).size
           name == SegmentFile(n).name
           d == Data(logical_offset, f, name, 0)
<1>1. extents' = Append(extents, d) /\ at' = n
  BY DEF Round
<1>2. /\ at \in Nat /\ 1..at \subseteq D /\ extents \in Seq(ExtentSet(Names)) /\ Len(extents) = at
      /\ \A i \in 1..at : SegmentFile(i).size # 0 /\ extents[i] = SplitPart(i)
      /\ \A i \in 1..(at - 1) : SegmentFile(i).size = s
  BY DEF SplitWalk
<1>3. /\ n \in D /\ f # 0 /\ ~(logical_offset + f > MaxU64)
      /\ n > 1 => SegmentFile(n - 1).size = s
  BY DEF SegmentRefused, SegmentMissing
<1>4. layout.fixed # 0 => n <= layout.fixed
  <2>1. layout.fixed # 0 => ~(n > layout.fixed)
    BY DEF SegmentsDone
  <2> QED BY <1>2, <2>1 DEF SplitImage
<1>5. n \in Nat /\ 1..n \subseteq D /\ 1 \in D /\ \A i \in 1..n : i \in 1..at \/ i = n
  BY <1>2, <1>3
<1>6. s \in Nat /\ f \in Nat /\ name \in Names
  BY <1>3, <1>5 DEF SplitImage
<1>7. logical_offset = at * s /\ logical_offset \in Nat
  <2>1. CASE at = 0
    BY <1>6, <2>1, SplitOffset
  <2>2. CASE at > 0
    <3>1. SegmentFile(at).size = s
      BY <1>2, <1>3, <2>2
    <3>2. logical_offset = (at - 1) * s + s /\ at - 1 \in Nat /\ logical_offset \in Nat
      BY <1>2, <2>2, <3>1, SplitOffset
    <3> DEFINE k == at - 1
    <3>3. k \in Nat /\ k + 1 = at
      BY <1>2, <3>2
    <3> HIDE DEF k
    <3>4. (k + 1) * s = k * s + s
      BY <1>6, <3>3, Times
    <3> QED BY <3>2, <3>3, <3>4 DEF k
  <2> QED BY <1>2, <2>1, <2>2
<1>8. d = SplitPart(n) /\ d \in ExtentSet(Names)
  <2>1. n - 1 = at
    BY <1>2
  <2>2. SplitPart(n) = Data(at * s, f, name, 0)
    BY <2>1 DEF SplitPart
  <2>3. 0 \in Nat
    OBVIOUS
  <2> QED BY <1>6, <1>7, <2>2, <2>3, DataIs
<1> HIDE DEF d
<1>9. /\ extents' \in Seq(ExtentSet(Names)) /\ Len(extents') = n
      /\ \A i \in 1..at : extents'[i] = extents[i]
      /\ extents'[n] = d
  BY <1>1, <1>2, <1>8
<1>10. \A i \in 1..n : SegmentFile(i).size # 0 /\ extents'[i] = SplitPart(i)
  BY <1>2, <1>3, <1>5, <1>8, <1>9
<1>11. \A i \in 1..(n - 1) : SegmentFile(i).size = s
  <2>1. \A i \in 1..(n - 1) : i \in 1..(at - 1) \/ (i = n - 1 /\ n > 1)
    BY <1>2
  <2> QED BY <1>2, <1>3, <2>1
<1>12. (n - 1) * s + f <= MaxU64
  <2>1. n - 1 = at /\ at * s \in Nat /\ MaxU64 \in Nat
    BY <1>2, <1>7, ExtentMapNewAssumption
  <2>2. ~(at * s + f > MaxU64)
    BY <1>3, <1>7
  <2> DEFINE z == at * s
  <2>3. z \in Nat /\ ~(z + f > MaxU64)
    BY <2>1, <2>2
  <2> HIDE DEF z
  <2>4. z + f <= MaxU64
    BY <1>6, <2>1, <2>3
  <2> QED BY <2>1, <2>4 DEF z
<1>13. \A i : SegmentFile(i)' = SegmentFile(i) /\ SplitPart(i)' = SplitPart(i)
  BY DEF SegmentFile, SplitPart
<1> QED BY <1>1, <1>4, <1>5, <1>9, <1>10, <1>11, <1>12, <1>13 DEF SplitWalk

LEMMA SplitStep ==
  ASSUME SplitImage, Fresh, SplitWalk, SplitRawOpen
  PROVE  /\ layout' = layout
         /\ \/ step' = "walk" /\ Fresh' /\ SplitWalk'
            \/ step' = "failed" /\ Fresh' /\ ~Mappable'
            \/ step' = "new" /\ NewInv'
<1> DEFINE D == DOMAIN layout.files
           unsupported == ~layout.schema \/ (layout.fixed = 0 /\ SegmentMissing(1))
           list == Append(extents, Data(logical_offset, SegmentFile(at + 1).size,
                                        SegmentFile(at + 1).name, 0))
<1>1. layout' = layout
  BY DEF SplitRawOpen, Loop, LoopTo, Fail, HandOver, Round
<1>2. SameTables
  BY <1>1, SplitSame
<1>3. \/ unsupported /\ Fail
      \/ ~unsupported /\ SegmentsDone(at + 1) /\ HandOver(extents)
      \/ ~SegmentsDone(at + 1) /\ SegmentRefused(at + 1) /\ Fail
      \/ ~SegmentsDone(at + 1) /\ ~SegmentRefused(at + 1) /\ Round(list, at + 1)
  BY DEF SplitRawOpen, Loop, LoopTo
<1>4. at \in Nat /\ 1..at \subseteq D /\ layout.fixed \in Nat /\ layout.names \in Nat
  BY DEF SplitWalk, SplitImage
<1>5. CASE unsupported /\ Fail
  <2>1. step' = "failed" /\ Fresh'
    BY <1>5 DEF Fail, Fresh, vars
  <2>2. ~SplitRawMappable
    <3>1. CASE ~layout.schema
      BY <3>1 DEF SplitRawMappable
    <3>2. CASE layout.fixed = 0 /\ SegmentMissing(1)
      <4>1. 0 \in Nat /\ 1..0 \subseteq D /\ 0 + 1 = 1
        OBVIOUS
      <4>2. SplitRawCount = 0
        BY <3>2, <4>1, SplitCount
      <4> QED BY <4>2 DEF SplitRawMappable
    <3> QED BY <1>5, <3>1, <3>2
  <2> QED BY <1>1, <1>2, <2>1, <2>2, SplitIs DEF SameTables
<1>6. CASE ~unsupported /\ SegmentsDone(at + 1) /\ HandOver(extents)
  <2>1. /\ at > 0 /\ SplitRawCount = at
        /\ layout.fixed = 0 => at < layout.names
    <3>1. CASE layout.fixed # 0
      <4>1. at + 1 > layout.fixed /\ at <= layout.fixed
        BY <1>6, <3>1 DEF SegmentsDone, SplitWalk
      <4> QED BY <1>4, <3>1, <4>1 DEF SplitRawCount
    <3>2. CASE layout.fixed = 0
      <4>1. SegmentMissing(at + 1) /\ ~Unnamed(at + 1) /\ ~SegmentMissing(1)
        BY <1>6, <3>2 DEF SegmentsDone
      <4>2. at # 0
        BY <4>1
      <4>3. SplitRawCount = at
        BY <1>4, <3>2, <4>1, SplitCount
      <4>4. ~(at + 1 > layout.names)
        BY <3>2, <4>1 DEF Unnamed
      <4> QED BY <1>4, <4>2, <4>3, <4>4
    <3> QED BY <3>1, <3>2
  <2>2. Maps(extents, SplitRawSize) /\ SplitRawSize \in Nat
    BY <2>1, SplitEnd
  <2>3. SplitRawSize <= MaxU64
    BY <2>1 DEF SplitWalk, SplitRawSize
  <2>4. SplitRawMappable
    BY <1>6, <2>1, <2>3 DEF SplitRawMappable, SplitWalk
  <2>5. Mappable /\ DeclaredSize \in 0..MaxU64 /\ Maps(extents, DeclaredSize)
    BY <2>2, <2>3, <2>4, SplitIs, ExtentMapNewAssumption
  <2>6. extents \in Seq(ExtentSet(Names))
    BY DEF SplitWalk
  <2>7. NewInv' /\ step' = "new"
    BY <1>2, <1>6, <2>5, <2>6, HandOverStep
  <2> QED BY <1>1, <2>7
<1>7. CASE ~SegmentsDone(at + 1) /\ SegmentRefused(at + 1) /\ Fail
  <2>1. step' = "failed" /\ Fresh'
    BY <1>7 DEF Fail, Fresh, vars
  <2>2. ~Mappable
    BY <1>7, SplitRefused
  <2> QED BY <1>1, <1>2, <2>1, <2>2 DEF SameTables
<1>8. CASE ~SegmentsDone(at + 1) /\ ~SegmentRefused(at + 1) /\ Round(list, at + 1)
  <2>1. SplitWalk'
    BY <1>1, <1>8, SplitRound
  <2>2. step' = "walk" /\ Fresh'
    BY <1>8 DEF Round, Fresh, vars, SplitRawOpen, Loop, LoopTo, Walking
  <2> QED BY <1>1, <2>1, <2>2
<1> QED BY <1>3, <1>5, <1>6, <1>7, <1>8

-----------------------------------------------------------------------------
(* HFS forks.                                                              *)

(* Offsets in blocks t to t + c - 1, which are in a row from a on.         *)
LEMMA Within ==
  ASSUME NEW b \in Nat \ {0}, NEW t \in Nat, NEW c \in Nat, NEW o \in Nat,
         t * b <= o, o < (t + c) * b, NEW a \in Nat
  PROVE  /\ o \div b \in Nat /\ t <= o \div b /\ o \div b < t + c
         /\ a * b + o - t * b = (a + (o \div b) - t) * b + (o % b)
<1> DEFINE q == o \div b
           r == o % b
<1>1. q \in Nat /\ r \in 0..(b - 1) /\ o = q * b + r
  BY DivMod
<1> HIDE DEF q, r
<1>2. t * b \in Nat /\ q * b \in Nat /\ (q + 1) * b = q * b + b /\ t + c \in Nat /\ (t + c) * b \in Nat
  BY <1>1, Times
<1>3. ~(q < t)
  <2> SUFFICES ASSUME q < t PROVE FALSE
    OBVIOUS
  <2>1. q + 1 \in Nat /\ q + 1 <= t
    BY <1>1
  <2>2. (q + 1) * b <= t * b
    BY <2>1, Times
  <2> QED BY <1>1, <1>2, <2>2
<1>4. ~(t + c <= q)
  <2> SUFFICES ASSUME t + c <= q PROVE FALSE
    OBVIOUS
  <2>1. (t + c) * b <= q * b
    BY <1>1, <1>2, Times
  <2> QED BY <1>1, <1>2, <2>1
<1>5. t <= q /\ q < t + c
  BY <1>1, <1>3, <1>4
<1>6. (a + q - t) * b = a * b + q * b - t * b
  BY <1>1
<1>7. a * b \in Nat
  BY Times
<1>8. a * b + o - t * b = (a + q - t) * b + r
  BY <1>1, <1>2, <1>6, <1>7
<1> QED BY <1>1, <1>5, <1>8 DEF q, r

HfsImage ==
  /\ layout.format = "hfs" /\ layout.size \in 0..MaxU64 /\ layout.block \in 1..MaxU32
  /\ layout.classic \in BOOLEAN /\ layout.sector \in Nat \ {0}
  /\ layout.number \in 0..MaxU32 /\ layout.first \in 0..MaxU32
  /\ layout.parts \in Seq([block : 0..MaxU32, count : 0..MaxU32])
  /\ \A i \in 1..Len(layout.parts) : layout.parts[i].block + layout.first <= MaxU32

(* After so many parts: they are mapped, or one of them had no blocks,     *)
(* which new will not accept.                                              *)
HfsWalk ==
  LET done == at.part - 1
      mapped == Least(HfsTotal[done] * layout.block, layout.size)
  IN  /\ at.part \in 1..(Len(layout.parts) + 1)
      /\ at.remaining = layout.size - mapped
      /\ extents \in Seq(ExtentSet(Names))
      /\ \/ /\ Maps(extents, mapped)
            /\ \A i \in 1..done : layout.parts[i].count > 0
         \/ ~Mappable /\ \E i \in 1..Len(extents) : extents[i].size = 0

(* The recursive definition.                                               *)
LEMMA HfsTotalIs ==
  \A i \in Nat : HfsTotal[i] = IF i = 0 THEN 0 ELSE HfsTotal[i - 1] + layout.parts[i].count
<1> DEFINE c == [i \in Nat |-> layout.parts[i].count]
           D(f) == f = [i \in Nat |-> IF i = 0 THEN 0 ELSE f[i - 1] + layout.parts[i].count]
<1>1. PICK f : IsSum(f, 0, 0, c)
  <2>1. 0 \in Nat
    OBVIOUS
  <2> HIDE DEF c
  <2> QED BY <2>1, SumExists
<1>2. \A i \in Nat : (i <= 0 <=> i = 0) /\ c[i] = layout.parts[i].count
  OBVIOUS
<1>3. D(f)
  BY <1>1, <1>2 DEF IsSum
<1>4. HfsTotal = CHOOSE g : D(g)
  BY DEF HfsTotal
<1>5. D(HfsTotal)
  BY <1>3, <1>4
<1> QED BY <1>5

LEMMA HfsIs ==
  ASSUME HfsImage
  PROVE  /\ layout.size \in Nat /\ layout.block \in Nat \ {0} /\ DeclaredSize = layout.size
         /\ Len(layout.parts) \in Nat /\ HfsTotal[0] = 0
         /\ \A i \in 1..Len(layout.parts) :
              /\ layout.parts[i].count \in Nat /\ layout.parts[i].block \in Nat
              /\ HfsTotal[i] = HfsTotal[i - 1] + layout.parts[i].count
         /\ \A i \in 0..Len(layout.parts) : HfsTotal[i] \in Nat
         /\ \A i, j \in 0..Len(layout.parts) : i <= j => HfsTotal[i] <= HfsTotal[j]
         /\ HfsSum \in Nat /\ HfsNumber \in Nat /\ layout.first \in Nat
         /\ Mappable <=> HfsMappable
         /\ \A o : Coded(o) = HfsDeclared(o)
<1> DEFINE m == Len(layout.parts)
<1>1. layout.format = "hfs" /\ m \in Nat
  BY DEF HfsImage
<1>2. layout.size \in Nat /\ layout.block \in Nat \ {0}
  BY ExtentMapNewAssumption, HfsAssumption DEF HfsImage
<1>3. DeclaredSize = layout.size
  BY <1>1 DEF DeclaredSize
<1>4. Mappable <=> HfsMappable
  BY <1>1 DEF Mappable
<1>5. \A o : Coded(o) = HfsDeclared(o)
  BY <1>1 DEF Coded, Declared
<1>6. \A i \in 1..m : layout.parts[i].count \in Nat /\ layout.parts[i].block \in Nat
  <2> DEFINE s == layout.parts
             R == [block : 0..MaxU32, count : 0..MaxU32]
  <2>1. s \in Seq(R) /\ m = Len(s)
    BY DEF HfsImage
  <2>2. \A r \in R : r.count \in Nat /\ r.block \in Nat
    BY HfsAssumption
  <2> HIDE DEF s, m, R
  <2>3. \A i \in 1..m : s[i] \in R
    BY <2>1
  <2> QED BY <2>2, <2>3 DEF s
<1>7. HfsTotal[0] = 0
  BY HfsTotalIs
<1>8. \A i \in 1..m : HfsTotal[i] = HfsTotal[i - 1] + layout.parts[i].count
  <2>1. \A i \in 1..m : i \in Nat /\ i # 0
    BY <1>1
  <2> QED BY <2>1, HfsTotalIs
<1> HIDE DEF m
<1>9. \A i \in 1..m : \E c \in Nat : HfsTotal[i] = HfsTotal[i - 1] + c
  BY <1>6, <1>8
<1>10. HfsTotal[0] \in Nat
  BY <1>7
<1> DEFINE f == HfsTotal
<1>11. /\ \A i \in 0..m : f[i] \in Nat
       /\ \A i, j \in 0..m : i <= j => f[i] <= f[j]
  <2>1. f[0] \in Nat /\ \A i \in 1..m : \E c \in Nat : f[i] = f[i - 1] + c
    BY <1>9, <1>10
  <2> HIDE DEF f
  <2> QED BY <1>1, <2>1, Sums
<1>12. HfsSum \in Nat
  <2> DEFINE all == HfsTotal[m]
             u == MaxU32 + 1
  <2>1. all \in Nat /\ u \in Nat \ {0}
    BY <1>1, <1>11, HfsAssumption
  <2>2. HfsSum = all % u
    BY DEF HfsSum, m
  <2> HIDE DEF all, u
  <2>3. all % u \in 0..(u - 1)
    BY <2>1, DivMod
  <2> QED BY <2>1, <2>2, <2>3
<1>13. HfsNumber \in Nat /\ layout.first \in Nat
  <2>1. layout.number \in Nat /\ layout.first \in Nat /\ layout.sector \in Nat \ {0}
    BY HfsAssumption DEF HfsImage
  <2>2. Ceil(layout.size, layout.sector) \in Nat
    BY <1>2, <2>1, Blocks
  <2> QED BY <2>1, <2>2 DEF HfsNumber
<1> QED BY <1>1, <1>2, <1>3, <1>4, <1>5, <1>6, <1>7, <1>8, <1>11, <1>12, <1>13 DEF m

LEMMA HfsSame ==
  ASSUME HfsImage, layout' = layout
  PROVE  SameTables /\ HfsTotal' = HfsTotal
<1>1. layout.format = "hfs"
  BY DEF HfsImage
<1>2. HfsTotal' = HfsTotal
  <2> DEFINE F(l) == CHOOSE f : f = [i \in Nat |-> IF i = 0 THEN 0 ELSE f[i - 1] + l.parts[i].count]
  <2>1. HfsTotal = F(layout) /\ HfsTotal' = F(layout')
    BY DEF HfsTotal
  <2> HIDE DEF F
  <2> QED BY <2>1
<1>3. Mappable' <=> Mappable
  BY <1>1, <1>2 DEF Mappable, HfsMappable, HfsSum, HfsNumber
<1>4. DeclaredSize' = DeclaredSize
  BY <1>1 DEF DeclaredSize
<1>5. \A o \in Nat : Coded(o)' = Coded(o)
  BY <1>1, <1>2 DEF Coded, Declared, HfsDeclared
<1> QED BY <1>2, <1>3, <1>4, <1>5 DEF SameTables

(* The part that holds an offset is the one that HfsDeclared chooses.      *)
LEMMA HfsIn ==
  ASSUME HfsImage, NEW k \in 1..Len(layout.parts), NEW o \in Nat,
         HfsTotal[k - 1] * layout.block <= o, o < HfsTotal[k] * layout.block
  PROVE  Coded(o) = Target("volume",
           (layout.parts[k].block + layout.first) * layout.block
              + o - HfsTotal[k - 1] * layout.block)
<1> DEFINE b == layout.block
           m == Len(layout.parts)
           f(i) == HfsTotal[i]
           n == o \div b
           t == f(k - 1)
           c == layout.parts[k].count
           a == layout.parts[k].block + layout.first
<1>1. /\ b \in Nat \ {0} /\ m \in Nat /\ k \in 1..m /\ k - 1 \in 0..m /\ k \in 0..m
      /\ \A i, j \in 0..m : i <= j => f(i) <= f(j)
      /\ \A i \in 0..m : f(i) \in Nat
      /\ c \in Nat /\ f(k) = t + c
  <2>1. b \in Nat \ {0} /\ m \in Nat
    BY HfsIs
  <2>2. k \in 1..m /\ k - 1 \in 0..m /\ k \in 0..m
    BY <2>1
  <2>3. \A i, j \in 0..m : i <= j => f(i) <= f(j)
    BY HfsIs
  <2>4. \A i \in 0..m : f(i) \in Nat
    BY HfsIs
  <2>5. c \in Nat /\ f(k) = t + c
    BY HfsIs
  <2> QED BY <2>1, <2>2, <2>3, <2>4, <2>5
<1>2. t \in Nat
  BY <1>1
<1>3. layout.parts[k].block \in Nat /\ layout.first \in Nat
  BY HfsIs
<1>4. a \in Nat
  BY <1>3
<1>5. t * b <= o /\ o < (t + c) * b
  BY <1>1
<1> HIDE DEF f, t, c, a, b, m
<1>6. /\ n \in Nat /\ t <= n /\ n < t + c
      /\ a * b + o - t * b = (a + n - t) * b + (o % b)
  <2>1. b \in Nat \ {0} /\ t \in Nat /\ c \in Nat /\ o \in Nat /\ a \in Nat
    BY <1>1, <1>2, <1>4
  <2> QED BY ONLY <1>5, <2>1, Within
<1> HIDE DEF n
<1>7. \A i \in 1..m : f(i - 1) <= n /\ n < f(i) => i = k
  <2> SUFFICES ASSUME NEW i \in 1..m, f(i - 1) <= n, n < f(i) PROVE i = k
    OBVIOUS
  <2>1. i - 1 \in 0..m /\ i \in 0..m /\ f(i - 1) \in Nat /\ f(i) \in Nat /\ f(k) \in Nat
    BY <1>1
  <2>2. ~(i < k)
    <3> SUFFICES ASSUME i < k PROVE FALSE
      OBVIOUS
    <3>1. i <= k - 1
      BY <1>1
    <3>2. f(i) <= f(k - 1) /\ f(k - 1) = t
      BY <1>1, <2>1, <3>1 DEF t
    <3> QED BY <1>2, <1>6, <2>1, <3>2
  <2>3. ~(k < i)
    <3> SUFFICES ASSUME k < i PROVE FALSE
      OBVIOUS
    <3>1. k <= i - 1
      BY <1>1
    <3>2. f(k) <= f(i - 1)
      BY <1>1, <2>1, <3>1
    <3> QED BY <1>1, <1>2, <1>6, <2>1, <3>2
  <2> QED BY <1>1, <2>2, <2>3
<1>8. f(k - 1) <= n /\ n < f(k)
  BY <1>1, <1>6 DEF t
<1> DEFINE i == CHOOSE j \in 1..m : f(j - 1) <= n /\ n < f(j)
<1>9. i = k
  BY <1>1, <1>7, <1>8
<1>10. Coded(o) = Target("volume", (layout.first + layout.parts[i].block + n - f(i - 1)) * b
                                         + (o % b))
  BY HfsIs DEF HfsDeclared, i, n, f, b, m
<1>11. layout.first + layout.parts[k].block + n - f(k - 1) = a + n - t
  <2> DEFINE u == layout.first
             v == layout.parts[k].block
  <2>1. u \in Nat /\ v \in Nat /\ n \in Nat /\ t \in Nat /\ a = v + u /\ t = f(k - 1)
    BY <1>2, <1>3, <1>6 DEF a, t
  <2> HIDE DEF u, v
  <2>2. u + v + n - t = a + n - t
    BY <2>1
  <2> QED BY <2>1, <2>2 DEF u, v
<1>12. Coded(o) = Target("volume", a * b + o - t * b)
  BY <1>6, <1>9, <1>10, <1>11
<1> QED BY <1>12 DEF a, b, t, f

LEMMA HfsRound ==
  ASSUME HfsImage, HfsWalk, ~HfsDone, layout' = layout,
         Round(Append(extents, Data(layout.size - at.remaining, HfsPartSize, "volume",
                                    (HfsPart.block + layout.first) * layout.block)),
               [part |-> at.part + 1, remaining |-> at.remaining - HfsPartSize])
  PROVE  HfsWalk'
<1> DEFINE b == layout.block
           n == layout.size
           m == Len(layout.parts)
           k == at.part
           t == HfsTotal[k - 1]
           c == layout.parts[k].count
           a == layout.parts[k].block + layout.first
           x == t * b
           w == HfsPartSize
           e == Data(n - at.remaining, w, "volume", a * b)
<1>1. n \in Nat /\ b \in Nat \ {0} /\ m \in Nat
  BY HfsIs
<1>2. /\ k \in 1..(m + 1) /\ at.remaining = n - Least(x, n) /\ extents \in Seq(ExtentSet(Names))
      /\ \/ Maps(extents, Least(x, n)) /\ \A i \in 1..(k - 1) : layout.parts[i].count > 0
         \/ ~Mappable /\ \E i \in 1..Len(extents) : extents[i].size = 0
  BY DEF HfsWalk
<1>3. at.remaining # 0 /\ k \in 1..m
  <2>1. at.remaining # 0 /\ ~(k > m)
    BY DEF HfsDone
  <2> QED BY <1>1, <1>2, <2>1
<1>4. /\ c \in Nat /\ layout.parts[k].block \in Nat /\ HfsTotal[k] = t + c
      /\ k - 1 \in 0..m /\ t \in Nat
  <2>1. k - 1 \in 0..m
    BY <1>1, <1>3
  <2> QED BY <1>3, <2>1, HfsIs
<1>5. a \in Nat
  <2>1. layout.first \in Nat
    BY HfsIs
  <2> QED BY <1>4, <2>1
<1>6. x \in Nat /\ c * b \in Nat /\ a * b \in Nat /\ (t + c) * b = x + c * b
  <2>1. x \in Nat /\ c * b \in Nat /\ a * b \in Nat
    BY <1>1, <1>4, <1>5, Times
  <2>2. (t + c) * b = t * b + c * b
    BY <1>1, <1>4
  <2> QED BY <2>1, <2>2
<1>7. extents' = Append(extents, e) /\ at'.part = k + 1 /\ at'.remaining = at.remaining - w
  BY DEF Round, HfsPart
<1>8. w = Least(c * b, at.remaining)
  BY DEF HfsPartSize, HfsPart
<1>9. c # 0 => c * b # 0
  BY <1>1, <1>4
<1>10. c = 0 => c * b = 0
  BY <1>1
<1> HIDE DEF x, w, c, a, t, k, m
<1>11. /\ x < n /\ Least(x, n) = x /\ at.remaining = n - x /\ n - at.remaining = x
       /\ w \in Nat /\ w <= c * b /\ x + w <= n
       /\ Least(x + c * b, n) = x + w /\ at.remaining - w = n - (x + w)
       /\ c # 0 => w # 0
       /\ c = 0 => w = 0
  <2> DEFINE cb == c * b
  <2>1. /\ cb \in Nat /\ w = Least(cb, at.remaining) /\ (c # 0 => cb # 0) /\ (c = 0 => cb = 0)
    BY <1>6, <1>8, <1>9, <1>10
  <2> HIDE DEF cb
  <2>2. x < n /\ Least(x, n) = x
    BY <1>1, <1>2, <1>3, <1>6 DEF Least
  <2>3. at.remaining = n - x /\ n - at.remaining = x
    BY <1>1, <1>2, <1>6, <2>2
  <2>4. /\ w \in Nat /\ w <= cb /\ x + w <= n /\ Least(x + cb, n) = x + w
        /\ at.remaining - w = n - (x + w)
        /\ (cb # 0 => w # 0) /\ (cb = 0 => w = 0)
    BY <1>1, <1>6, <2>1, <2>2, <2>3 DEF Least
  <2> QED BY <2>1, <2>2, <2>3, <2>4 DEF cb
<1>12. /\ e \in ExtentSet(Names) /\ e.logical_offset = x /\ e.size = w
       /\ e.source = "volume" /\ e.source_offset = a * b
  <2>1. "volume" \in Names
    BY DEF Names
  <2> DEFINE y == a * b
             d == Data(x, w, "volume", y)
  <2>2. e = d /\ y \in Nat
    BY <1>6, <1>11
  <2> HIDE DEF e, y
  <2>3. /\ d \in ExtentSet(Names) /\ d.logical_offset = x /\ d.size = w
        /\ d.source = "volume" /\ d.source_offset = y
    <3>1. x \in Nat /\ w \in Nat /\ y \in Nat
      BY <1>6, <1>11, <2>2
    <3> QED BY ONLY <2>1, <3>1, DataIs
  <2> HIDE DEF d
  <2> QED BY <2>2, <2>3 DEF y
<1> HIDE DEF e
<1>13. /\ Len(extents) \in Nat /\ extents' \in Seq(ExtentSet(Names)) /\ Len(extents') = Len(extents) + 1
       /\ \A i \in 1..Len(extents) : extents'[i] = extents[i]
       /\ extents'[Len(extents) + 1] = e
  BY <1>2, <1>7, <1>12
<1>14. SameTables /\ HfsTotal' = HfsTotal
  BY HfsSame
<1>15. \/ /\ Maps(extents', x + w)
          /\ \A i \in 1..k : layout.parts[i].count > 0
       \/ ~Mappable /\ \E i \in 1..Len(extents') : extents'[i].size = 0
  <2>1. CASE c = 0
    <3>1. ~HfsMappable
      <4>1. HfsTotal[k] = t /\ t * b = x /\ ~(layout.parts[k].count > 0)
        BY <1>4, <2>1 DEF c, x
      <4>2. ~(x >= n) /\ n # 0
        BY <1>1, <1>6, <1>11
      <4> QED BY <1>3, <4>1, <4>2 DEF HfsMappable, m
    <3>2. Len(extents) + 1 \in 1..Len(extents') /\ e.size = 0
      BY <1>11, <1>12, <1>13, <2>1
    <3> QED BY <1>13, <3>1, <3>2, HfsIs
  <2>2. CASE ~Mappable /\ \E i \in 1..Len(extents) : extents[i].size = 0
    <3>1. \A i \in 1..Len(extents) : i \in 1..Len(extents')
      BY <1>13
    <3> QED BY <1>13, <2>2, <3>1
  <2>3. CASE c # 0 /\ Maps(extents, x) /\ \A i \in 1..(k - 1) : layout.parts[i].count > 0
    <3>1. ASSUME NEW o \in x..(x + e.size - 1)
          PROVE  Target(e.source, e.source_offset + o - x) = Coded(o)
      <4>1. o \in Nat /\ x <= o /\ o < x + c * b
        <5> DEFINE cb == c * b
        <5>1. cb \in Nat /\ w <= cb /\ o \in x..(x + w - 1)
          BY <1>6, <1>11, <1>12
        <5> HIDE DEF cb
        <5>2. o \in Nat /\ x <= o /\ o < x + cb
          BY <1>6, <1>11, <5>1
        <5> QED BY <5>2 DEF cb
      <4>2. HfsTotal[k - 1] * layout.block <= o /\ o < HfsTotal[k] * layout.block
        BY <1>4, <1>6, <4>1 DEF x, t
      <4>3. Coded(o) = Target("volume",
              (layout.parts[k].block + layout.first) * layout.block + o - HfsTotal[k - 1] * layout.block)
        BY <1>3, <4>1, <4>2, HfsIn DEF m
      <4> QED BY <1>12, <4>3 DEF a, x, t
    <3>2. Maps(Append(extents, e), x + e.size)
      BY <1>6, <1>11, <1>12, <2>3, <3>1, MapsAppend
    <3>3. Maps(extents', x + w)
      BY <1>7, <1>12, <3>2
    <3>4. \A i \in 1..k : i \in 1..(k - 1) \/ i = k
      BY <1>3
    <3>5. layout.parts[k].count > 0
      BY <1>4, <2>3 DEF c
    <3> QED BY <2>3, <3>3, <3>4, <3>5
  <2> QED BY <1>2, <1>11, <2>1, <2>2, <2>3
<1>16. MapsNext(extents', x + w) \/ ~Maps(extents', x + w)
  <2> DEFINE y == x + w
  <2>1. y \in Nat
    BY <1>6, <1>11
  <2> HIDE DEF y
  <2>2. MapsNext(extents', y) \/ ~Maps(extents', y)
    BY <1>14, <2>1, SameMaps
  <2> QED BY <2>2 DEF y
<1>17. at'.part \in 1..(m + 1) /\ at'.part - 1 = k
  BY <1>1, <1>3, <1>7
<1>18. Least(HfsTotal[k] * b, n) = x + w
  BY <1>4, <1>6, <1>11
<1>19. at'.remaining = n - Least(HfsTotal[k] * b, n)
  BY <1>7, <1>11, <1>18
<1> DEFINE mapped == Least(HfsTotal[at.part - 1] * layout.block, layout.size)
<1>20. mapped' = x + w
  BY <1>14, <1>17, <1>18
<1>21. \/ /\ Maps(extents, mapped)'
          /\ \A i \in 1..k : layout'.parts[i].count > 0
       \/ ~Mappable' /\ \E i \in 1..Len(extents') : extents'[i].size = 0
  <2>1. MapsNext(extents', x + w) => Maps(extents, mapped)'
    BY <1>20 DEF Maps, MapsNext
  <2> QED BY <1>14, <1>15, <1>16, <2>1 DEF SameTables
<1> QED BY <1>13, <1>14, <1>17, <1>18, <1>19, <1>21 DEF HfsWalk, m

LEMMA HfsStep ==
  ASSUME HfsImage, Fresh, HfsWalk, HfsOpen
  PROVE  /\ layout' = layout
         /\ \/ step' = "walk" /\ Fresh' /\ HfsWalk'
            \/ step' = "failed" /\ Fresh' /\ ~Mappable'
            \/ step' = "panicked" /\ Fresh' /\ HfsSumOverflows'
            \/ step' = "new" /\ NewInv'
<1> DEFINE b == layout.block
           n == layout.size
           m == Len(layout.parts)
           t == HfsTotal[at.part - 1]
           all == HfsTotal[m]
           x == t * b
           short == n # 0 /\ HfsSum < HfsNumber
           list == Append(extents, Data(layout.size - at.remaining, HfsPartSize, "volume",
                                        (HfsPart.block + layout.first) * layout.block))
           next == [part |-> at.part + 1, remaining |-> at.remaining - HfsPartSize]
<1>1. layout' = layout
  BY DEF HfsOpen, Loop, LoopTo, Fail, HandOver, Round, Panic
<1>2. SameTables
  BY <1>1, HfsSame
<1>3. \/ (short \/ (HfsDone /\ at.remaining # 0)) /\ Fail
      \/ ~short /\ HfsDone /\ at.remaining = 0 /\ HandOver(extents)
      \/ ~HfsDone /\ Round(list, next)
      \/ HfsSumOverflows /\ Panic
  BY DEF HfsOpen, Loop, LoopTo
<1>4. n \in Nat /\ n \in 0..MaxU64 /\ b \in Nat \ {0} /\ m \in Nat /\ DeclaredSize = n
  BY HfsIs DEF HfsImage
<1>5. /\ at.part \in 1..(m + 1) /\ at.remaining = n - Least(x, n) /\ extents \in Seq(ExtentSet(Names))
      /\ \/ Maps(extents, Least(x, n)) /\ \A i \in 1..(at.part - 1) : layout.parts[i].count > 0
         \/ ~Mappable /\ \E i \in 1..Len(extents) : extents[i].size = 0
  BY DEF HfsWalk
<1>6. at.part - 1 \in 0..m /\ at.part - 1 \in Nat
  BY <1>4, <1>5
<1>7. /\ \A i \in 0..m : HfsTotal[i] \in Nat
      /\ \A i, j \in 0..m : i <= j => HfsTotal[i] <= HfsTotal[j]
  BY HfsIs
<1>8. t \in Nat /\ all \in Nat /\ x \in Nat
  <2>1. t \in Nat /\ all \in Nat
    BY <1>4, <1>6, <1>7
  <2> QED BY <1>4, <2>1, Times
<1>9. CASE (short \/ (HfsDone /\ at.remaining # 0)) /\ Fail
  <2>1. step' = "failed" /\ Fresh'
    BY <1>9 DEF Fail, Fresh, vars
  <2>2. ~HfsMappable
    <3>1. CASE short
      <4>1. HfsSum \in Nat /\ HfsNumber \in Nat
        BY HfsIs
      <4>2. ~(HfsSum >= HfsNumber) /\ n # 0
        BY <3>1, <4>1
      <4> QED BY <4>2 DEF HfsMappable
    <3>2. CASE HfsDone /\ at.remaining # 0
      <4>1. at.part > m
        BY <3>2 DEF HfsDone
      <4>2. at.part - 1 = m
        BY <1>4, <1>5, <4>1
      <4>3. t = all
        BY <4>2
      <4>4. x < n /\ n # 0
        <5> HIDE DEF x
        <5> QED BY <1>4, <1>5, <1>8, <3>2 DEF Least
      <4>5. ~(all * b >= n) /\ n # 0
        <5>1. ~(x >= n)
          <6> HIDE DEF x
          <6> QED BY <1>4, <1>8, <4>4
        <5> QED BY <4>3, <4>4, <5>1
      <4> QED BY <4>5 DEF HfsMappable
    <3> QED BY <1>9, <3>1, <3>2
  <2> QED BY <1>1, <1>2, <2>1, <2>2, HfsIs DEF SameTables
<1>10. CASE ~short /\ HfsDone /\ at.remaining = 0 /\ HandOver(extents)
  <2>1. Least(x, n) = n /\ x >= n
    <3> HIDE DEF x
    <3> QED BY <1>4, <1>5, <1>8, <1>10 DEF Least
  <2>2. CASE Maps(extents, Least(x, n)) /\ \A i \in 1..(at.part - 1) : layout.parts[i].count > 0
    <3>1. ASSUME NEW i \in 0..m, at.part - 1 <= i PROVE HfsTotal[i] * b >= n
      <4>1. t <= HfsTotal[i] /\ HfsTotal[i] \in Nat
        BY <1>6, <1>7, <3>1
      <4> DEFINE y == HfsTotal[i] * b
      <4>2. x <= y /\ y \in Nat
        BY <1>4, <1>8, <4>1, Times
      <4> HIDE DEF x, y
      <4>3. y >= n
        BY <1>4, <1>8, <2>1, <4>2
      <4> QED BY <4>3 DEF y
    <3>2. all * b >= n
      BY <1>4, <1>6, <3>1
    <3>3. \A i \in 1..m : layout.parts[i].count > 0 \/ HfsTotal[i] * layout.block >= layout.size
      <4>1. \A i \in 1..m : i \in 1..(at.part - 1) \/ (i \in 0..m /\ at.part - 1 <= i)
        BY <1>4, <1>6
      <4> QED BY <2>2, <3>1, <4>1
    <3>4. n = 0 \/ HfsSum >= HfsNumber
      <4>1. HfsSum \in Nat /\ HfsNumber \in Nat
        BY HfsIs
      <4> QED BY <1>10, <4>1
    <3>5. Mappable
      BY <3>2, <3>3, <3>4, HfsIs DEF HfsMappable
    <3>6. Maps(extents, DeclaredSize) /\ DeclaredSize \in 0..MaxU64
      BY <1>4, <2>1, <2>2
    <3>7. NewInv' /\ step' = "new"
      BY <1>2, <1>5, <1>10, <3>5, <3>6, HandOverStep
    <3> QED BY <1>1, <3>7
  <2>3. CASE ~Mappable /\ \E i \in 1..Len(extents) : extents[i].size = 0
    <3>1. \A total \in 0..MaxU64 : ~Tiles(extents, total)
      BY <2>3 DEF Tiles
    <3>2. NewInv' /\ step' = "new"
      BY <1>2, <1>5, <1>10, <2>3, <3>1, HandOverStep
    <3> QED BY <1>1, <3>2
  <2> QED BY <1>5, <2>2, <2>3
<1>11. CASE ~HfsDone /\ Round(list, next)
  <2>1. HfsWalk'
    BY <1>1, <1>11, HfsRound
  <2>2. step' = "walk" /\ Fresh'
    BY <1>11 DEF Round, Fresh, vars, HfsOpen, Loop, LoopTo, Walking
  <2> QED BY <1>1, <2>1, <2>2
<1>12. CASE HfsSumOverflows /\ Panic
  <2>1. HfsTotal' = HfsTotal
    BY <1>1, HfsSame
  <2>2. step' = "panicked" /\ Fresh' /\ HfsSumOverflows'
    BY <1>1, <1>12, <2>1 DEF Panic, Fresh, vars, HfsSumOverflows
  <2> QED BY <1>1, <2>2
<1> QED BY <1>3, <1>9, <1>10, <1>11, <1>12

-----------------------------------------------------------------------------
(* NTFS attributes.                                                        *)

NtfsImage ==
  /\ layout.format = "ntfs" /\ layout.size \in 0..MaxU64 /\ layout.block \in Nat \ {0, 1}
  /\ layout.first_vcn \in Nat
  /\ layout.runs \in Seq([clusters : Nat, sparse : BOOLEAN, relative : Int])

(* What the last extent is: its end in the volume has room in 64 bits.     *)
NtfsFits(e) ==
  e.source_offset + e.size <= MaxU64 /\ (e.source = "zero" => e.source_offset = 0)

(* A run that the code takes.                                              *)
NtfsTaken(i) ==
  /\ NtfsLogical[i] * layout.block <= MaxU64
  /\ NtfsHolds(i) => layout.runs[i].sparse \/ NtfsCluster[i] * layout.block \in 0..MaxU64

(* After so many runs: they are mapped; or they are not those of the start *)
(* of the attribute, and there is nothing yet, or a list that has a hole   *)
(* at its start.                                                           *)
NtfsWalk ==
  /\ at.run \in 1..(Len(layout.runs) + 1)
  /\ at.logical = NtfsLogical[at.run] /\ at.last = NtfsCluster[at.run - 1]
  /\ extents \in Seq(ExtentSet(Names))
  /\ extents # <<>> => NtfsFits(extents[Len(extents)])
  /\ \A i \in 1..(at.run - 1) : NtfsTaken(i)
  /\ \/ /\ layout.first_vcn = 0
        /\ Maps(extents, Least(NtfsLogical[at.run] * layout.block, layout.size))
     \/ /\ layout.first_vcn # 0 /\ extents = <<>>
        /\ \A i \in 1..(at.run - 1) : ~NtfsHolds(i)
     \/ ~Mappable /\ extents # <<>> /\ extents[1].logical_offset # 0

(* The recursive definitions.                                              *)
LEMMA NtfsLogicalIs ==
  \A i \in Nat : NtfsLogical[i] = IF i <= 1 THEN layout.first_vcn
                                  ELSE NtfsLogical[i - 1] + layout.runs[i - 1].clusters
<1> DEFINE c == [i \in Nat |-> layout.runs[i - 1].clusters]
           v == layout.first_vcn
           D(f) == f = [i \in Nat |-> IF i <= 1 THEN layout.first_vcn
                                      ELSE f[i - 1] + layout.runs[i - 1].clusters]
<1>1. PICK f : IsSum(f, 1, v, c)
  <2>1. 1 \in Nat
    OBVIOUS
  <2> HIDE DEF c, v
  <2> QED BY <2>1, SumExists
<1>2. \A i \in Nat : c[i] = layout.runs[i - 1].clusters
  OBVIOUS
<1>3. D(f)
  BY <1>1, <1>2 DEF IsSum
<1>4. NtfsLogical = CHOOSE g : D(g)
  BY DEF NtfsLogical
<1>5. D(NtfsLogical)
  BY <1>3, <1>4
<1> QED BY <1>5

LEMMA NtfsClusterIs ==
  \A i \in Nat : NtfsCluster[i] =
    IF i = 0 THEN 0
    ELSE NtfsCluster[i - 1] + (IF layout.runs[i].sparse THEN 0 ELSE layout.runs[i].relative)
<1> DEFINE c == [i \in Nat |-> IF layout.runs[i].sparse THEN 0 ELSE layout.runs[i].relative]
           D(f) == f = [i \in Nat |->
                          IF i = 0 THEN 0
                          ELSE f[i - 1] + (IF layout.runs[i].sparse THEN 0
                                           ELSE layout.runs[i].relative)]
<1>1. PICK f : IsSum(f, 0, 0, c)
  <2>1. 0 \in Nat
    OBVIOUS
  <2> HIDE DEF c
  <2> QED BY <2>1, SumExists
<1>2. \A i \in Nat : /\ i <= 0 <=> i = 0
                     /\ c[i] = IF layout.runs[i].sparse THEN 0 ELSE layout.runs[i].relative
  OBVIOUS
<1>3. D(f)
  BY <1>1, <1>2 DEF IsSum
<1>4. NtfsCluster = CHOOSE g : D(g)
  BY DEF NtfsCluster
<1>5. D(NtfsCluster)
  BY <1>3, <1>4
<1> QED BY <1>5

LEMMA NtfsIs ==
  ASSUME NtfsImage
  PROVE  /\ layout.size \in Nat /\ layout.block \in Nat \ {0} /\ layout.block >= 2
         /\ DeclaredSize = NtfsSize
         /\ layout.first_vcn \in Nat /\ Len(layout.runs) \in Nat
         /\ \A i \in 1..Len(layout.runs) :
              /\ layout.runs[i].clusters \in Nat /\ layout.runs[i].sparse \in BOOLEAN
              /\ layout.runs[i].relative \in Int
         /\ Mappable <=> NtfsMappable
         /\ \A o : Coded(o) = NtfsDeclared(o)
<1> DEFINE m == Len(layout.runs)
<1>1. layout.format = "ntfs" /\ m \in Nat /\ layout.first_vcn \in Nat
  BY DEF NtfsImage
<1>2. layout.size \in Nat /\ layout.block \in Nat \ {0} /\ layout.block >= 2
  BY ExtentMapNewAssumption DEF NtfsImage
<1>3. DeclaredSize = NtfsSize
  BY <1>1 DEF DeclaredSize
<1>4. Mappable <=> NtfsMappable
  BY <1>1 DEF Mappable
<1>5. \A o : Coded(o) = NtfsDeclared(o)
  BY <1>1 DEF Coded, Declared
<1>6. \A i \in 1..m : /\ layout.runs[i].clusters \in Nat /\ layout.runs[i].sparse \in BOOLEAN
                      /\ layout.runs[i].relative \in Int
  <2> DEFINE s == layout.runs
             R == [clusters : Nat, sparse : BOOLEAN, relative : Int]
  <2>1. s \in Seq(R) /\ m = Len(s)
    BY DEF NtfsImage
  <2>2. \A r \in R : r.clusters \in Nat /\ r.sparse \in BOOLEAN /\ r.relative \in Int
    OBVIOUS
  <2> HIDE DEF s, m, R
  <2>3. \A i \in 1..m : s[i] \in R
    BY <2>1
  <2> QED BY <2>2, <2>3 DEF s
<1> QED BY <1>1, <1>2, <1>3, <1>4, <1>5, <1>6

LEMMA NtfsSums ==
  ASSUME NtfsImage
  PROVE  /\ NtfsLogical[1] = layout.first_vcn /\ NtfsCluster[0] = 0
         /\ \A i \in 1..Len(layout.runs) :
              /\ NtfsLogical[i + 1] = NtfsLogical[i] + layout.runs[i].clusters
              /\ NtfsCluster[i] = NtfsCluster[i - 1] + (IF layout.runs[i].sparse THEN 0
                                                        ELSE layout.runs[i].relative)
         /\ \A i \in 0..Len(layout.runs) : NtfsCluster[i] \in Int
         /\ \A i \in 1..(Len(layout.runs) + 1) : NtfsLogical[i] \in Nat
         /\ \A i, j \in 1..(Len(layout.runs) + 1) : i <= j => NtfsLogical[i] <= NtfsLogical[j]
<1> DEFINE m == Len(layout.runs)
           f == NtfsLogical
           g == NtfsCluster
           v == layout.first_vcn
<1>1. m \in Nat /\ v \in Nat
  BY NtfsIs
<1>2. \A i \in 1..m : /\ layout.runs[i].clusters \in Nat /\ layout.runs[i].sparse \in BOOLEAN
                      /\ layout.runs[i].relative \in Int
  BY NtfsIs
<1>3. f[0] = v /\ f[1] = v
  BY NtfsLogicalIs
<1>4. \A i \in 1..m : f[i + 1] = f[i] + layout.runs[i].clusters
  <2> SUFFICES ASSUME NEW i \in 1..m PROVE f[i + 1] = f[i] + layout.runs[i].clusters
    OBVIOUS
  <2>1. i + 1 \in Nat /\ ~(i + 1 <= 1) /\ (i + 1) - 1 = i
    BY <1>1
  <2> DEFINE j == i + 1
  <2>2. j \in Nat /\ ~(j <= 1) /\ j - 1 = i
    BY <2>1
  <2> HIDE DEF j, f
  <2>3. f[j] = f[j - 1] + layout.runs[j - 1].clusters
    BY <2>2, NtfsLogicalIs DEF f
  <2> QED BY <2>2, <2>3 DEF j
<1>5. g[0] = 0
  BY NtfsClusterIs
<1>6. \A i \in 1..m : g[i] = g[i - 1] + (IF layout.runs[i].sparse THEN 0 ELSE layout.runs[i].relative)
  <2>1. \A i \in 1..m : i \in Nat /\ i # 0
    BY <1>1
  <2> QED BY <2>1, NtfsClusterIs
<1> HIDE DEF m, f, g, v
<1>7. \A i \in 0..m : g[i] \in Int
  <2> DEFINE S == {i \in Nat : i <= m => g[i] \in Int}
  <2>1. 0 \in S
    BY <1>5
  <2>2. ASSUME NEW i \in Nat, i \in S PROVE i + 1 \in S
    <3> SUFFICES ASSUME i + 1 <= m PROVE g[i + 1] \in Int
      OBVIOUS
    <3>1. i + 1 \in 1..m /\ (i + 1) - 1 = i /\ g[i] \in Int
      BY <1>1, <2>2
    <3>2. (IF layout.runs[i + 1].sparse THEN 0 ELSE layout.runs[i + 1].relative) \in Int
      BY <1>2, <3>1
    <3> QED BY <1>6, <3>1, <3>2
  <2> HIDE DEF S
  <2>3. Nat \subseteq S
    BY <2>1, <2>2, Induct
  <2> QED BY <2>3 DEF S
<1>8. /\ \A i \in 0..(m + 1) : f[i] \in Nat
      /\ \A i, j \in 0..(m + 1) : i <= j => f[i] <= f[j]
  <2> DEFINE p == m + 1
  <2>1. ASSUME NEW i \in 1..p PROVE \E c \in Nat : f[i] = f[i - 1] + c
    <3>1. CASE i = 1
      BY <1>1, <1>3, <3>1
    <3>2. CASE i # 1
      <4> DEFINE j == i - 1
      <4>1. j \in 1..m /\ j + 1 = i
        BY <1>1, <3>2
      <4> HIDE DEF j
      <4>2. f[j + 1] = f[j] + layout.runs[j].clusters /\ layout.runs[j].clusters \in Nat
        BY <1>2, <1>4, <4>1
      <4>3. f[i] = f[i - 1] + layout.runs[j].clusters
        BY <4>1, <4>2 DEF j
      <4> QED BY <4>2, <4>3
    <3> QED BY <3>1, <3>2
  <2>2. p \in Nat /\ f[0] \in Nat
    BY <1>1, <1>3
  <2> HIDE DEF p
  <2>3. /\ \A i \in 0..p : f[i] \in Nat
        /\ \A i, j \in 0..p : i <= j => f[i] <= f[j]
    BY <2>1, <2>2, Sums
  <2> QED BY <2>3 DEF p
<1>9. \A i \in 1..(m + 1) : i \in 0..(m + 1)
  BY <1>1
<1>10. /\ \A i \in 1..(m + 1) : f[i] \in Nat
       /\ \A i, j \in 1..(m + 1) : i <= j => f[i] <= f[j]
  BY <1>8, <1>9
<1> QED BY <1>3, <1>4, <1>5, <1>6, <1>7, <1>10 DEF m, f, g, v

LEMMA NtfsSame ==
  ASSUME NtfsImage, layout' = layout
  PROVE  /\ SameTables /\ NtfsLogical' = NtfsLogical /\ NtfsCluster' = NtfsCluster
         /\ \A i : (NtfsHolds(i)' <=> NtfsHolds(i)) /\ (NtfsTaken(i)' <=> NtfsTaken(i))
<1>1. layout.format = "ntfs"
  BY DEF NtfsImage
<1>2. NtfsLogical' = NtfsLogical
  <2> DEFINE F(l) == CHOOSE f : f = [i \in Nat |-> IF i <= 1 THEN l.first_vcn
                                                   ELSE f[i - 1] + l.runs[i - 1].clusters]
  <2>1. NtfsLogical = F(layout) /\ NtfsLogical' = F(layout')
    BY DEF NtfsLogical
  <2> HIDE DEF F
  <2> QED BY <2>1
<1>3. NtfsCluster' = NtfsCluster
  <2> DEFINE F(l) == CHOOSE f : f = [i \in Nat |->
                       IF i = 0 THEN 0
                       ELSE f[i - 1] + (IF l.runs[i].sparse THEN 0 ELSE l.runs[i].relative)]
  <2>1. NtfsCluster = F(layout) /\ NtfsCluster' = F(layout')
    BY DEF NtfsCluster
  <2> HIDE DEF F
  <2> QED BY <2>1
<1>4. Mappable' <=> Mappable
  BY <1>1, <1>2, <1>3 DEF Mappable, NtfsMappable, NtfsHolds
<1>5. DeclaredSize' = DeclaredSize
  BY <1>1, <1>2 DEF DeclaredSize, NtfsSize, Least
<1>6. \A o \in Nat : Coded(o)' = Coded(o)
  BY <1>1, <1>2, <1>3 DEF Coded, Declared, NtfsDeclared
<1>7. \A i : (NtfsHolds(i)' <=> NtfsHolds(i)) /\ (NtfsTaken(i)' <=> NtfsTaken(i))
  BY <1>2, <1>3 DEF NtfsHolds, NtfsTaken
<1> QED BY <1>2, <1>3, <1>4, <1>5, <1>6, <1>7 DEF SameTables

(* The run that holds an offset is the one that NtfsDeclared chooses.      *)
LEMMA NtfsIn ==
  ASSUME NtfsImage, NEW k \in 1..Len(layout.runs), NEW o \in Nat,
         NtfsLogical[k] * layout.block <= o, o < NtfsLogical[k + 1] * layout.block,
         layout.runs[k].sparse \/ NtfsCluster[k] >= 0
  PROVE  Coded(o) = IF layout.runs[k].sparse THEN ZeroTarget
                       ELSE Target("volume", NtfsCluster[k] * layout.block
                                               + o - NtfsLogical[k] * layout.block)
<1> DEFINE b == layout.block
           m == Len(layout.runs)
           f(i) == NtfsLogical[i]
           n == o \div b
           t == f(k)
           c == layout.runs[k].clusters
<1>1. b \in Nat \ {0} /\ m \in Nat /\ k \in 1..m /\ c \in Nat
  BY NtfsIs
<1>2. /\ \A i, j \in 1..(m + 1) : i <= j => f(i) <= f(j)
      /\ \A i \in 1..(m + 1) : f(i) \in Nat
      /\ f(k + 1) = t + c
  BY NtfsSums
<1>3. k \in 1..(m + 1) /\ k + 1 \in 1..(m + 1) /\ t \in Nat
  <2>1. k \in 1..(m + 1) /\ k + 1 \in 1..(m + 1)
    BY <1>1
  <2> QED BY <1>2, <2>1
<1>4. t * b <= o /\ o < (t + c) * b
  BY <1>2
<1> HIDE DEF f, t, c, b, m
<1>5. /\ n \in Nat /\ t <= n /\ n < t + c
      /\ \A a \in Nat : a * b + o - t * b = (a + n - t) * b + (o % b)
  <2>1. b \in Nat \ {0} /\ t \in Nat /\ c \in Nat /\ o \in Nat /\ 0 \in Nat
    BY <1>1, <1>3
  <2> QED BY ONLY <1>4, <2>1, Within
<1> HIDE DEF n
<1>6. \A i \in 1..m : f(i) <= n /\ n < f(i + 1) => i = k
  <2> SUFFICES ASSUME NEW i \in 1..m, f(i) <= n, n < f(i + 1) PROVE i = k
    OBVIOUS
  <2>1. i \in 1..(m + 1) /\ i + 1 \in 1..(m + 1)
    BY <1>1
  <2>2. f(i) \in Nat /\ f(i + 1) \in Nat /\ f(k + 1) \in Nat /\ t = f(k)
    BY <1>2, <1>3, <2>1 DEF t
  <2>3. ~(i < k)
    <3> SUFFICES ASSUME i < k PROVE FALSE
      OBVIOUS
    <3>1. i + 1 <= k
      BY <1>1
    <3>2. f(i + 1) <= f(k)
      BY <1>2, <1>3, <2>1, <3>1
    <3> QED BY <1>3, <1>5, <2>2, <3>2
  <2>4. ~(k < i)
    <3> SUFFICES ASSUME k < i PROVE FALSE
      OBVIOUS
    <3>1. k + 1 <= i
      BY <1>1
    <3>2. f(k + 1) <= f(i)
      BY <1>2, <1>3, <2>1, <3>1
    <3>3. n < f(k + 1) /\ n \in Nat
      BY <1>2, <1>5
    <3> QED BY <2>2, <3>2, <3>3
  <2> QED BY <1>1, <2>3, <2>4
<1>7. f(k) <= n /\ n < f(k + 1)
  BY <1>2, <1>5 DEF t
<1> DEFINE i == CHOOSE j \in 1..m : f(j) <= n /\ n < f(j + 1)
<1>8. i = k
  BY <1>1, <1>6, <1>7
<1>9. Coded(o) = IF layout.runs[i].sparse THEN ZeroTarget
                    ELSE Target("volume", (NtfsCluster[i] + n - f(i)) * b + (o % b))
  BY NtfsIs DEF NtfsDeclared, i, n, f, b, m
<1>10. CASE layout.runs[k].sparse
  BY <1>8, <1>9, <1>10
<1>11. CASE ~layout.runs[k].sparse
  <2> DEFINE a == NtfsCluster[k]
  <2>1. a \in Nat
    <3>1. k \in 0..m
      BY <1>1
    <3>2. a \in Int /\ a >= 0
      BY <1>11, <3>1, NtfsSums DEF m
    <3> QED BY <3>2
  <2>2. a * b + o - t * b = (a + n - f(k)) * b + (o % b)
    BY <1>5, <2>1 DEF t
  <2>3. Coded(o) = Target("volume", a * b + o - t * b)
    BY <1>8, <1>9, <1>11, <2>2
  <2> QED BY <1>11, <2>3 DEF b, t, f
<1> QED BY <1>10, <1>11

(* Joining leaves the beginning of a list where it is.                     *)
LEMMA FirstKept ==
  ASSUME NEW list \in Seq(ExtentSet(Names)), NEW e \in ExtentSet(Names), NEW can \in BOOLEAN
  PROVE  /\ Joined(list, e, can) \in Seq(ExtentSet(Names)) /\ Joined(list, e, can) # <<>>
         /\ list # <<>> => Joined(list, e, can)[1].logical_offset = list[1].logical_offset
         /\ list = <<>> => Joined(list, e, can)[1].logical_offset = e.logical_offset
<1> DEFINE S == ExtentSet(Names)
           m == Len(list)
           u == Joined(list, e, can)
<1>1. list \in Seq(S) /\ m \in Nat /\ (list = <<>> <=> m = 0) /\ e \in S /\ e.size \in Nat
  BY DEF ExtentSet
<1>2. CASE list # <<>> /\ can
  <2> DEFINE d == [list[m] EXCEPT !.size = @ + e.size]
  <2>1. m \in 1..m /\ 1 \in 1..m /\ list[m] \in S
    BY <1>1, <1>2
  <2>2. list[m].size \in Nat
    BY <2>1 DEF ExtentSet
  <2>3. d \in S /\ d.logical_offset = list[m].logical_offset
    BY <1>1, <2>1, <2>2 DEF ExtentSet
  <2>4. u = [list EXCEPT ![m] = d]
    BY <1>2 DEF Joined
  <2> HIDE DEF d, S, u
  <2>5. u \in Seq(S) /\ Len(u) = m /\ u[1] = IF m = 1 THEN d ELSE list[1]
    BY <1>1, <2>1, <2>3, <2>4
  <2>6. u # <<>>
    BY <1>1, <1>2, <2>5
  <2> QED BY <1>2, <2>3, <2>5, <2>6 DEF S, u
<1>3. CASE ~(list # <<>> /\ can)
  <2>1. u = Append(list, e)
    BY <1>3 DEF Joined
  <2> HIDE DEF S, u
  <2>2. u \in Seq(S) /\ Len(u) = m + 1 /\ u[1] = IF m = 0 THEN e ELSE list[1]
    BY <1>1, <2>1
  <2>3. u # <<>>
    BY <1>1, <2>2
  <2> QED BY <1>1, <2>2, <2>3 DEF S, u
<1> QED BY <1>2, <1>3

(* A list that begins past the start of the media is no tiling.            *)
LEMMA NoTiling ==
  ASSUME NEW list \in Seq(ExtentSet(Names)), list # <<>>, list[1].logical_offset # 0
  PROVE  \A total \in Nat : ~Tiles(list, total)
<1> SUFFICES ASSUME NEW total \in Nat, Tiles(list, total) PROVE FALSE
  OBVIOUS
<1> DEFINE m == Len(list)
<1>1. m \in Nat /\ 1 \in 1..m
  OBVIOUS
<1>2. \A i \in 1..m : list[i].logical_offset \in Nat /\ list[i].size \in Nat
                      /\ End(list[i]) = list[i].logical_offset + list[i].size
  BY ExtentsAreRanges
<1>3. End(list[1]) <= total /\ list[1].size > 0
  BY <1>1 DEF Tiles
<1>4. 0 \in 0..(total - 1)
  BY <1>1, <1>2, <1>3
<1>5. PICK i \in 1..m : list[i].logical_offset <= 0 /\ 0 < End(list[i])
  BY <1>4 DEF Tiles
<1>6. i # 1
  BY <1>1, <1>2, <1>5
<1>7. 1 < i
  BY <1>1, <1>6
<1>8. End(list[1]) <= list[i].logical_offset
  BY <1>1, <1>7 DEF Tiles
<1> QED BY <1>1, <1>2, <1>3, <1>5, <1>8

(* Numbers that have room keep their value.                                *)
LEMMA WrapIs ==
  ASSUME NEW x \in 0..MaxU64
  PROVE  Wrap(x) = x
BY ExtentMapNewAssumption DEF Wrap

LEMMA SignedIs ==
  ASSUME NEW x \in (-MaxI64 - 1)..MaxI64
  PROVE  /\ Signed(x) = x
         /\ x >= 0 => Wrap(x) = x
         /\ x < 0 => Wrap(x) \in Nat /\ Wrap(x) >= MaxI64 + 1
<1> DEFINE w == MaxU64 + 1
<1>1. MaxU64 \in Nat /\ MaxI64 \in Nat /\ w = 2 * (MaxI64 + 1)
  BY ExtentMapNewAssumption, NtfsAssumption DEF MaxI64
<1>2. x \in Int /\ w \in Nat /\ w > 0
  BY <1>1
<1>3. CASE x >= 0
  <2>1. x \in 0..MaxU64 /\ x <= MaxI64
    BY <1>1, <1>3
  <2>2. Wrap(x) = x
    BY <2>1, WrapIs
  <2> QED BY <1>3, <2>1, <2>2 DEF Signed
<1>4. CASE x < 0
  <2>1. x + w \in 0..(w - 1) /\ x + w >= MaxI64 + 1
    BY <1>1, <1>2, <1>4
  <2>2. x % w = x + w
    <3> HIDE DEF w
    <3> DEFINE q == x \div w
               r == x % w
    <3>1. q \in Int /\ r \in 0..(w - 1) /\ x = w * q + r
      BY <1>2
    <3> HIDE DEF q, r
    <3>2. q = -1
      <4>1. CASE q >= 0
        <5>1. w * q >= 0
          BY <1>2, <3>1, <4>1
        <5> QED BY <1>2, <1>4, <3>1, <5>1
      <4>2. CASE q <= -2
        <5>1. w * q <= w * (-2)
          BY <1>2, <3>1, <4>2
        <5>2. w * q + r < -w
          BY <1>2, <3>1, <5>1
        <5> QED BY <1>2, <2>1, <3>1, <5>2
      <4> QED BY <3>1, <4>1, <4>2
    <3>3. r = x + w
      BY <1>2, <3>1, <3>2
    <3> QED BY <3>3 DEF r
  <2>3. Wrap(x) = x + w
    BY <2>2 DEF Wrap
  <2> HIDE DEF w
  <2>4. Signed(x) = x
    <3>1. ~(x + w <= MaxI64) /\ x + w - w = x
      BY <1>1, <1>2, <2>1
    <3>2. Signed(x) = IF Wrap(x) <= MaxI64 THEN Wrap(x) ELSE Wrap(x) - w
      BY DEF Signed, w
    <3>3. ~(Wrap(x) <= MaxI64)
      BY <2>3, <3>1
    <3>4. Signed(x) = Wrap(x) - w
      BY <3>2, <3>3
    <3>5. Wrap(x) - w = x
      BY <1>2, <2>3
    <3> QED BY <3>4, <3>5, Zenon
  <2> QED BY <1>1, <1>2, <1>4, <2>1, <2>3, <2>4
<1> QED BY <1>2, <1>3, <1>4

(* If the numbers have room, a run is what the code computes of it.        *)
LEMMA NtfsPlain ==
  ASSUME NtfsImage, NtfsWalk, ~NtfsWraps, at.run \in 1..Len(layout.runs),
         NEW p, p = NtfsCluster[at.run], NEW x, x = NtfsLogical[at.run] * layout.block
  PROVE  /\ NtfsPhysical(NtfsRun, at.last) = p
         /\ NtfsRunSize(NtfsRun, at.logical) =
              IF x >= layout.size THEN 0
              ELSE Least(layout.runs[at.run].clusters * layout.block, layout.size - x)
         /\ Wrap(at.logical + NtfsRun.clusters) = NtfsLogical[at.run + 1]
         /\ p >= 0 => NtfsOffset(NtfsRun, at.last) = p * layout.block
         /\ p < 0 => NtfsOffset(NtfsRun, at.last) > MaxU64
<1> DEFINE b == layout.block
           m == Len(layout.runs)
           k == at.run
           c == layout.runs[k].clusters
           last == NtfsCluster[k - 1]
<1>1. b \in Nat /\ b >= 2 /\ m \in Nat /\ c \in Nat /\ layout.runs[k].sparse \in BOOLEAN
  BY NtfsIs
<1>2. at.logical = NtfsLogical[k] /\ at.last = last /\ NtfsRun = layout.runs[k]
  BY DEF NtfsWalk, NtfsRun
<1>3. /\ p = last + (IF layout.runs[k].sparse THEN 0 ELSE layout.runs[k].relative)
      /\ p \in Int /\ last \in Int /\ NtfsLogical[k + 1] = NtfsLogical[k] + c
      /\ NtfsLogical[k + 1] \in Nat
  <2>1. k - 1 \in 0..m /\ k \in 0..m /\ k + 1 \in 1..(m + 1)
    BY <1>1
  <2> QED BY <2>1, NtfsSums
<1>4. ~NtfsSumsOverflow(k) /\ ~(c * b > MaxU64)
  BY DEF NtfsWraps
<1>5. NtfsLogical[k + 1] \in 0..MaxU64 /\ p \in (-MaxI64 - 1)..MaxI64 /\ MaxU64 \in Nat
  BY <1>3, <1>4, ExtentMapNewAssumption DEF NtfsSumsOverflow
<1>6. c * b \in 0..MaxU64
  <2> DEFINE cb == c * b
  <2>1. cb \in Nat /\ ~(cb > MaxU64)
    BY <1>1, <1>4, Times
  <2> HIDE DEF cb
  <2>2. cb \in 0..MaxU64
    BY <1>5, <2>1
  <2> QED BY <2>2 DEF cb
<1>7. Wrap(c * b) = c * b
  <2> DEFINE cb == c * b
  <2>1. cb \in 0..MaxU64
    BY <1>6
  <2> HIDE DEF cb
  <2>2. Wrap(cb) = cb
    BY <2>1, WrapIs
  <2> QED BY <2>2 DEF cb
<1>8. NtfsPhysical(NtfsRun, at.last) = p
  <2>1. CASE layout.runs[k].sparse
    BY <1>2, <1>3, <2>1 DEF NtfsPhysical
  <2>2. CASE ~layout.runs[k].sparse
    <3>1. last + layout.runs[k].relative = p
      BY <1>3, <2>2
    <3>2. Signed(p) = p
      BY <1>5, SignedIs
    <3> QED BY <1>2, <2>2, <3>1, <3>2 DEF NtfsPhysical
  <2> QED BY <2>1, <2>2
<1>9. /\ NtfsRunSize(NtfsRun, at.logical) = IF x >= layout.size THEN 0
                                            ELSE Least(c * b, layout.size - x)
  BY <1>2, <1>7 DEF NtfsRunSize
<1>10. Wrap(at.logical + NtfsRun.clusters) = NtfsLogical[k + 1]
  <2> DEFINE y == NtfsLogical[k + 1]
  <2>1. at.logical + NtfsRun.clusters = y /\ y \in 0..MaxU64
    BY <1>2, <1>3, <1>5
  <2> HIDE DEF y
  <2>2. Wrap(y) = y
    BY <2>1, WrapIs
  <2> QED BY <2>1, <2>2 DEF y
<1>11. NtfsOffset(NtfsRun, at.last) = Wrap(p) * b
  BY <1>8 DEF NtfsOffset
<1>12. p >= 0 => Wrap(p) = p
  BY <1>5, SignedIs
<1>13. p < 0 => Wrap(p) * b > MaxU64
  <2> SUFFICES ASSUME p < 0 PROVE Wrap(p) * b > MaxU64
    OBVIOUS
  <2> DEFINE w == Wrap(p)
  <2>1. w \in Nat /\ w >= MaxI64 + 1
    BY <1>5, SignedIs
  <2>2. MaxI64 \in Nat /\ MaxU64 + 1 = 2 * (MaxI64 + 1)
    BY <1>5, NtfsAssumption DEF MaxI64
  <2> HIDE DEF w
  <2>3. 2 * w <= b * w /\ b * w = w * b
    BY <1>1, <2>1, Times
  <2>4. 2 * w >= MaxU64 + 1
    BY <2>1, <2>2
  <2>5. w * b \in Nat
    BY <1>1, <2>1, Times
  <2>6. w * b > MaxU64
    <3> DEFINE wb == w * b
    <3>1. wb \in Nat /\ 2 * w <= wb
      BY <2>3, <2>5
    <3> HIDE DEF wb
    <3>2. wb > MaxU64
      BY <1>5, <2>1, <2>4, <3>1
    <3> QED BY <3>2 DEF wb
  <2> QED BY <2>6 DEF w
<1> QED BY <1>8, <1>9, <1>10, <1>11, <1>12, <1>13

(* The last extent of a list that an extent was joined to.                 *)
LEMMA LastJoined ==
  ASSUME NEW list \in Seq(ExtentSet(Names)), NEW e \in ExtentSet(Names), NEW can \in BOOLEAN,
         NEW u, u = Joined(list, e, can)
  PROVE  \/ list # <<>> /\ can /\ u[Len(u)] = [list[Len(list)] EXCEPT !.size = @ + e.size]
         \/ u[Len(u)] = e
<1> DEFINE m == Len(list)
<1>1. m \in Nat /\ (list = <<>> <=> m = 0)
  OBVIOUS
<1>2. CASE list # <<>> /\ can
  <2> DEFINE d == [list[m] EXCEPT !.size = @ + e.size]
  <2>1. u = [list EXCEPT ![m] = d] /\ m \in 1..m
    BY <1>1, <1>2 DEF Joined
  <2> HIDE DEF d
  <2>2. Len(u) = m /\ u[m] = d
    BY <1>1, <2>1
  <2> QED BY <1>2, <2>2 DEF d
<1>3. CASE ~(list # <<>> /\ can)
  <2>1. u = Append(list, e)
    BY <1>3 DEF Joined
  <2>2. Len(u) = m + 1 /\ u[m + 1] = e
    BY <1>1, <2>1
  <2> QED BY <2>2
<1> QED BY <1>2, <1>3

LEMMA NtfsRound ==
  ASSUME NtfsImage, NtfsWalk, ~NtfsWraps, ~(at.run > Len(layout.runs)), ~NtfsRefused,
         layout' = layout,
         Round(NtfsMapped, [run |-> at.run + 1, logical |-> Wrap(at.logical + NtfsRun.clusters),
                            last |-> NtfsPhysical(NtfsRun, at.last)])
  PROVE  NtfsWalk'
<1> DEFINE b == layout.block
           n == layout.size
           m == Len(layout.runs)
           k == at.run
           t == NtfsLogical[k]
           c == layout.runs[k].clusters
           sp == layout.runs[k].sparse
           p == NtfsCluster[k]
           x == t * b
           w == NtfsRunSize(NtfsRun, at.logical)
           e == IF sp THEN Zero(x, w) ELSE Data(x, w, "volume", p * b)
<1>1. n \in Nat /\ b \in Nat \ {0} /\ m \in Nat /\ layout.first_vcn \in Nat
  BY NtfsIs
<1>2. /\ k \in 1..(m + 1) /\ at.logical = t /\ at.last = NtfsCluster[k - 1]
      /\ extents \in Seq(ExtentSet(Names))
      /\ extents # <<>> => NtfsFits(extents[Len(extents)])
      /\ \A i \in 1..(k - 1) : NtfsTaken(i)
      /\ \/ layout.first_vcn = 0 /\ Maps(extents, Least(x, n))
         \/ /\ layout.first_vcn # 0 /\ extents = <<>>
            /\ \A i \in 1..(k - 1) : ~NtfsHolds(i)
         \/ ~Mappable /\ extents # <<>> /\ extents[1].logical_offset # 0
  BY DEF NtfsWalk
<1>3. k \in 1..m
  BY <1>1, <1>2
<1>4. c \in Nat /\ sp \in BOOLEAN
  BY <1>3, NtfsIs
<1>5. /\ NtfsLogical[k + 1] = t + c
      /\ p \in Int /\ t \in Nat /\ layout.first_vcn <= t
  <2>1. k \in 0..m /\ 1 \in 1..(m + 1) /\ 1 <= k
    BY <1>1, <1>3
  <2> QED BY <1>2, <1>3, <2>1, NtfsSums
<1>6. x \in Nat /\ c * b \in Nat /\ (t + c) * b = x + c * b
  <2>1. x \in Nat /\ c * b \in Nat
    BY <1>1, <1>4, <1>5, Times
  <2>2. (t + c) * b = t * b + c * b
    BY <1>1, <1>4, <1>5
  <2> QED BY <2>1, <2>2
<1>7. c # 0 <=> c * b # 0
  BY <1>1, <1>4
<1>8. t # 0 => x # 0
  BY <1>1, <1>5
<1>9. NtfsRun = layout.runs[k]
  BY DEF NtfsRun
<1>10. /\ w = IF x >= n THEN 0 ELSE Least(c * b, n - x)
       /\ NtfsPhysical(NtfsRun, at.last) = p /\ Wrap(at.logical + NtfsRun.clusters) = t + c
       /\ p >= 0 => NtfsOffset(NtfsRun, at.last) = p * b
       /\ p < 0 => NtfsOffset(NtfsRun, at.last) > MaxU64
  <2> DEFINE q == NtfsCluster[at.run]
             y == NtfsLogical[at.run] * layout.block
  <2>1. /\ NtfsPhysical(NtfsRun, at.last) = q
        /\ NtfsRunSize(NtfsRun, at.logical) =
             IF y >= layout.size THEN 0
             ELSE Least(layout.runs[at.run].clusters * layout.block, layout.size - y)
        /\ Wrap(at.logical + NtfsRun.clusters) = NtfsLogical[at.run + 1]
        /\ q >= 0 => NtfsOffset(NtfsRun, at.last) = q * layout.block
        /\ q < 0 => NtfsOffset(NtfsRun, at.last) > MaxU64
    <3> HIDE DEF q, y
    <3> QED BY <1>3, NtfsPlain DEF q, y
  <2> QED BY <1>5, <2>1
<1>11. /\ extents' = IF w = 0 THEN extents
                     ELSE Joined(extents, NtfsExtent,
                                 IF extents = <<>> THEN FALSE
                                 ELSE NtfsCanMerge(extents[Len(extents)], NtfsExtent))
       /\ at'.run = k + 1 /\ at'.logical = t + c /\ at'.last = p
  BY <1>10 DEF Round, NtfsMapped
<1>12. w # 0 => sp \/ (p >= 0 /\ ~(p * b > MaxU64))
  <2> SUFFICES ASSUME w # 0, ~sp PROVE p >= 0 /\ ~(p * b > MaxU64)
    OBVIOUS
  <2>1. ~(NtfsOffset(NtfsRun, at.last) > MaxU64)
    BY <1>9 DEF NtfsRefused
  <2>2. p >= 0
    BY <1>5, <1>10, <2>1
  <2> QED BY <1>10, <2>1, <2>2
<1>13. w # 0 => NtfsExtent = e
  <2>1. ~sp /\ w # 0 => NtfsOffset(NtfsRun, at.last) = p * b
    BY <1>10, <1>12
  <2> QED BY <1>2, <1>9, <2>1 DEF NtfsExtent
<1>14. ~(x > MaxU64) /\ MaxU64 \in Nat /\ n <= MaxU64
  BY <1>2, ExtentMapNewAssumption DEF NtfsRefused, NtfsImage
<1>15. NtfsHolds(k) /\ ~sp /\ p * b <= MaxU64 => ~(p * b + Least(c * b, n - x) > MaxU64)
  BY <1>3 DEF NtfsWraps, NtfsEnd
<1>16. NtfsHolds(k) <=> c > 0 /\ x < n
  BY DEF NtfsHolds
<1>17. /\ SameTables /\ NtfsLogical' = NtfsLogical /\ NtfsCluster' = NtfsCluster
       /\ \A i : (NtfsHolds(i)' <=> NtfsHolds(i)) /\ (NtfsTaken(i)' <=> NtfsTaken(i))
  BY NtfsSame
<1> HIDE DEF x, w, c, t, k, m, sp, p
<1>18. /\ w \in Nat /\ Least(x + c * b, n) = Least(x, n) + w /\ Least(x, n) + w \in Nat
       /\ NtfsHolds(k) <=> w # 0
       /\ w # 0 => x < n /\ Least(x, n) = x /\ w <= c * b /\ x + w <= n
  <2> DEFINE cb == c * b
  <2>1. cb \in Nat /\ w = (IF x >= n THEN 0 ELSE Least(cb, n - x)) /\ (c # 0 <=> cb # 0)
    BY <1>6, <1>7, <1>10
  <2> HIDE DEF cb
  <2>2. /\ w \in Nat /\ Least(x + cb, n) = Least(x, n) + w /\ Least(x, n) + w \in Nat
        /\ (cb > 0 /\ x < n <=> w # 0)
        /\ w # 0 => x < n /\ Least(x, n) = x /\ w <= cb /\ x + w <= n
    <3>1. x \in Nat /\ n \in Nat /\ cb \in Nat
      BY <1>1, <1>6, <2>1
    <3>2. CASE x >= n
      <4>1. w = 0 /\ Least(x, n) = n /\ Least(x + cb, n) = n
        BY <2>1, <3>1, <3>2 DEF Least
      <4> QED BY ONLY <3>1, <3>2, <4>1
    <3>3. CASE x < n
      <4>1. w = Least(cb, n - x) /\ Least(x, n) = x
        BY <2>1, <3>1, <3>3 DEF Least
      <4>2. w \in Nat /\ w <= cb /\ x + w <= n /\ Least(x + cb, n) = x + w /\ (cb > 0 <=> w # 0)
        BY ONLY <3>1, <3>3, <4>1 DEF Least
      <4> QED BY ONLY <3>1, <3>3, <4>1, <4>2
    <3> QED BY <3>1, <3>2, <3>3
  <2>3. cb > 0 <=> c > 0
    BY <1>4, <2>1
  <2> QED BY <1>16, <2>2, <2>3 DEF cb
<1>19. \A i \in 1..k : i \in 1..(k - 1) \/ i = k
  BY <1>3
<1>20. p >= 0 => p \in Nat /\ p * b \in Nat
  <2> SUFFICES ASSUME p >= 0 PROVE p \in Nat /\ p * b \in Nat
    OBVIOUS
  <2>1. p \in Nat
    BY <1>5
  <2> QED BY <1>1, <2>1, Times
<1>21. NtfsTaken(k)
  <2>1. t * b <= MaxU64
    BY <1>6, <1>14 DEF x
  <2>2. NtfsHolds(k) => sp \/ p * b \in 0..MaxU64
    <3> SUFFICES ASSUME NtfsHolds(k), ~sp PROVE p * b \in 0..MaxU64
      OBVIOUS
    <3>1. p >= 0 /\ ~(p * b > MaxU64)
      BY <1>12, <1>18
    <3> DEFINE pb == p * b
    <3>2. pb \in Nat /\ ~(pb > MaxU64)
      BY <1>20, <3>1
    <3> HIDE DEF pb
    <3>3. pb \in 0..MaxU64
      BY <1>14, <3>2
    <3> QED BY <3>3 DEF pb
  <2> QED BY <2>1, <2>2 DEF NtfsTaken, t, sp, p
<1>22. /\ extents' \in Seq(ExtentSet(Names))
       /\ extents' # <<>> => NtfsFits(extents'[Len(extents')])
       /\ \/ layout.first_vcn = 0 /\ Maps(extents', Least(x, n) + w)
          \/ /\ layout.first_vcn # 0 /\ extents' = <<>>
             /\ \A i \in 1..k : ~NtfsHolds(i)
          \/ ~Mappable /\ extents' # <<>> /\ extents'[1].logical_offset # 0
  <2>1. CASE w = 0
    <3>1. extents' = extents /\ ~NtfsHolds(k) /\ Least(x, n) + w = Least(x, n)
      <4>1. Least(x, n) \in Nat
        BY <1>1, <1>6 DEF Least
      <4> QED BY <1>11, <1>18, <2>1, <4>1
    <3> QED BY <1>2, <1>19, <3>1
  <2>2. CASE w # 0
    <3>1. "volume" \in Names /\ x \in Nat /\ w \in Nat
      BY <1>6, <1>18 DEF Names
    <3>2. /\ e \in ExtentSet(Names) /\ e.logical_offset = x /\ e.size = w
          /\ sp => e.source = "zero"
          /\ sp => e.source_offset = 0
          /\ ~sp => p \in Nat /\ e.source = "volume" /\ e.source_offset = p * b
      <4>1. CASE sp
        <5> DEFINE d == Zero(x, w)
        <5>1. e = d
          BY <4>1
        <5>2. /\ d \in ExtentSet(Names) /\ d.logical_offset = x /\ d.size = w /\ d.source = "zero"
              /\ d.source_offset = 0
          BY ONLY <3>1, ZeroIs
        <5> HIDE DEF d, e
        <5> QED BY <4>1, <5>1, <5>2
      <4>2. CASE ~sp
        <5> DEFINE y == p * b
                   d == Data(x, w, "volume", y)
        <5>1. e = d
          BY <4>2
        <5>2. p \in Nat
          BY <1>5, <1>12, <2>2, <4>2
        <5>3. y \in Nat
          BY <1>1, <5>2, Times
        <5> HIDE DEF y, e
        <5>4. /\ d \in ExtentSet(Names) /\ d.logical_offset = x /\ d.size = w
              /\ d.source = "volume" /\ d.source_offset = y
          BY ONLY <3>1, <5>3, DataIs
        <5> HIDE DEF d
        <5> QED BY <4>2, <5>1, <5>2, <5>4 DEF y
      <4> QED BY <4>1, <4>2
    <3> HIDE DEF e
    <3> DEFINE last == extents[Len(extents)]
               can == IF extents = <<>> THEN FALSE ELSE NtfsCanMerge(last, e)
    <3>3. can \in BOOLEAN /\ extents' = Joined(extents, e, can)
      BY <1>11, <1>13, <2>2 DEF NtfsCanMerge
    <3>4. extents # <<>> => /\ last.source_offset \in Nat /\ last.size \in Nat
                            /\ last.logical_offset \in Nat /\ last \in ExtentSet(Names)
                            /\ NtfsFits(last)
      <4> SUFFICES ASSUME extents # <<>>
                   PROVE  /\ last.source_offset \in Nat /\ last.size \in Nat
                          /\ last.logical_offset \in Nat /\ last \in ExtentSet(Names)
                          /\ NtfsFits(last)
        OBVIOUS
      <4>1. Len(extents) \in 1..Len(extents)
        BY <1>2
      <4> QED BY <1>2, <4>1, ExtentsAreRanges
    <3>5. extents # <<>> /\ can => can_merge(last, e)
      <4> SUFFICES ASSUME extents # <<>>, can PROVE can_merge(last, e)
        OBVIOUS
      <4> DEFINE y == last.source_offset + last.size
      <4>1. NtfsCanMerge(last, e)
        OBVIOUS
      <4>2. y \in 0..MaxU64
        BY <1>14, <3>4 DEF NtfsFits
      <4> HIDE DEF y
      <4>3. Wrap(y) = y
        BY <4>2, WrapIs
      <4> QED BY <4>1, <4>3 DEF NtfsCanMerge, can_merge, y
    <3>6. /\ can \in BOOLEAN /\ extents' = Joined(extents, e, can)
          /\ extents # <<>> /\ can => can_merge(extents[Len(extents)], e)
      BY <3>3, <3>5
    <3> HIDE DEF can
    <3>7. NtfsFits(e)
      <4>1. CASE sp
        BY <1>1, <1>18, <1>14, <2>2, <3>1, <3>2, <4>1, <1>6 DEF NtfsFits
      <4>2. CASE ~sp
        <5> DEFINE pb == p * b
        <5>1. NtfsHolds(k) /\ ~(pb > MaxU64) /\ pb \in Nat
          BY <1>12, <1>18, <1>20, <2>2, <4>2
        <5>2. w = Least(c * b, n - x)
          BY <1>10, <1>18, <1>1, <1>6, <2>2
        <5> HIDE DEF pb
        <5>3. pb <= MaxU64
          BY <1>14, <5>1
        <5>4. ~(pb + w > MaxU64)
          BY <1>15, <4>2, <5>1, <5>2, <5>3 DEF pb
        <5>5. pb + w <= MaxU64
          BY <1>14, <3>1, <5>1, <5>4
        <5>6. e.source_offset = pb /\ e.size = w /\ e.source # "zero"
          BY <3>2, <4>2 DEF pb
        <5> QED BY <5>5, <5>6 DEF NtfsFits
      <4> QED BY <4>1, <4>2
    <3>8. NtfsFits(extents'[Len(extents')])
      <4> DEFINE u == extents'
                 z == u[Len(u)]
      <4>1. \/ extents # <<>> /\ can /\ z = [last EXCEPT !.size = @ + e.size]
            \/ z = e
        <5>1. u = Joined(extents, e, can)
          BY <3>6
        <5> HIDE DEF u
        <5> QED BY <1>2, <3>2, <3>6, <5>1, LastJoined
      <4> HIDE DEF z, last
      <4>2. CASE z = e
        BY <3>7, <4>2 DEF z
      <4>3. CASE extents # <<>> /\ can /\ z = [last EXCEPT !.size = @ + e.size]
        <5>1. can_merge(last, e) /\ last \in ExtentSet(Names) /\ NtfsFits(last)
          BY <3>6, <3>4, <4>3 DEF last
        <5>2. /\ z.size = last.size + w /\ z.source = last.source
              /\ z.source_offset = last.source_offset
          BY <3>1, <3>2, <4>3, <5>1, Grown
        <5>3. /\ last.source_offset \in Nat /\ last.size \in Nat /\ last.logical_offset \in Nat
              /\ last.logical_offset + last.size = x
          BY <3>2, <5>1 DEF can_merge, End, ExtentSet
        <5>4. CASE last.source = "zero"
          <6>1. last.source_offset = 0
            BY <5>1, <5>4 DEF NtfsFits
          <6>2. last.size + w <= MaxU64
            BY <1>1, <1>18, <1>14, <2>2, <3>1, <5>3
          <6> QED BY <3>1, <5>2, <5>3, <6>1, <6>2 DEF NtfsFits, z
        <5>5. CASE last.source # "zero"
          <6>1. last.source_offset + last.size = e.source_offset
            BY <5>1, <5>5 DEF can_merge
          <6>2. last.source_offset + (last.size + w) = e.source_offset + w
            BY <3>1, <5>3, <6>1
          <6>3. e.source_offset + w <= MaxU64
            BY <3>2, <3>7 DEF NtfsFits
          <6> QED BY <5>2, <5>5, <6>2, <6>3 DEF NtfsFits, z
        <5> QED BY <5>4, <5>5
      <4> QED BY <4>1, <4>2, <4>3
    <3> HIDE DEF last
    <3>9. /\ extents' \in Seq(ExtentSet(Names)) /\ extents' # <<>>
          /\ extents # <<>> => extents'[1].logical_offset = extents[1].logical_offset
          /\ extents = <<>> => extents'[1].logical_offset = x
      BY <1>2, <3>2, <3>6, FirstKept
    <3>10. CASE layout.first_vcn = 0 /\ Maps(extents, Least(x, n))
      <4>1. Maps(extents, x) /\ Least(x, n) = x
        BY <1>18, <2>2, <3>10
      <4>2. ASSUME NEW o \in x..(x + e.size - 1)
            PROVE  Target(e.source, e.source_offset + o - x) = Coded(o)
        <5>1. o \in Nat /\ x <= o /\ o < x + c * b
          <6> DEFINE cb == c * b
          <6>1. cb \in Nat /\ w <= cb /\ o \in x..(x + w - 1)
            BY <1>6, <1>18, <2>2, <3>2
          <6> HIDE DEF cb
          <6>2. o \in Nat /\ x <= o /\ o < x + cb
            BY <1>6, <1>18, <6>1
          <6> QED BY <6>2 DEF cb
        <5>2. NtfsLogical[k] * layout.block <= o /\ o < NtfsLogical[k + 1] * layout.block
          BY <1>5, <1>6, <5>1 DEF x, t
        <5>3. layout.runs[k].sparse \/ NtfsCluster[k] >= 0
          BY <1>12, <2>2 DEF sp, p
        <5>4. Coded(o) = IF layout.runs[k].sparse THEN ZeroTarget
                            ELSE Target("volume", NtfsCluster[k] * layout.block
                                                    + o - NtfsLogical[k] * layout.block)
          BY <1>3, <5>1, <5>2, <5>3, NtfsIn DEF m
        <5>5. Coded(o) = IF sp THEN ZeroTarget ELSE Target("volume", p * b + o - x)
          BY <5>4 DEF sp, p, x, t
        <5>6. CASE sp
          BY <3>2, <5>5, <5>6 DEF Target, ZeroTarget
        <5>7. CASE ~sp
          BY <3>2, <5>5, <5>7
        <5> QED BY <5>6, <5>7
      <4>3. Maps(Joined(extents, e, can), x + e.size)
        BY <2>2, <3>1, <3>2, <3>6, <4>1, <4>2, MapsJoined
      <4>4. Maps(extents', Least(x, n) + w)
        BY <3>2, <3>6, <4>1, <4>3
      <4> QED BY <3>9, <3>10, <3>8, <4>4
    <3>11. CASE layout.first_vcn # 0 /\ extents = <<>>
      <4>1. extents'[1].logical_offset # 0
        BY <1>1, <1>5, <1>8, <3>9, <3>11
      <4>2. ~NtfsMappable
        <5>1. NtfsHolds(k)
          BY <1>18, <2>2
        <5> QED BY <1>3, <3>11, <5>1 DEF NtfsMappable, m
      <4> QED BY <3>9, <3>8, <4>1, <4>2, NtfsIs
    <3>12. CASE ~Mappable /\ extents # <<>> /\ extents[1].logical_offset # 0
      BY <3>9, <3>12, <3>8
    <3> QED BY <1>2, <3>10, <3>11, <3>12
  <2> QED BY <2>1, <2>2
<1>23. MapsNext(extents', Least(x, n) + w) \/ ~Maps(extents', Least(x, n) + w)
  <2> DEFINE y == Least(x, n) + w
  <2>1. y \in Nat
    BY <1>18
  <2> HIDE DEF y
  <2>2. MapsNext(extents', y) \/ ~Maps(extents', y)
    BY <1>17, <2>1, SameMaps
  <2> QED BY <2>2 DEF y
<1>24. at'.run \in 1..(m + 1) /\ at'.run - 1 = k /\ at'.logical = NtfsLogical'[at'.run]
       /\ at'.last = NtfsCluster'[at'.run - 1]
  <2>1. at'.run \in 1..(m + 1) /\ at'.run - 1 = k
    BY <1>1, <1>3, <1>11
  <2> QED BY <1>5, <1>11, <1>17, <2>1 DEF p
<1> DEFINE mapped == Least(NtfsLogical[at.run] * layout.block, layout.size)
<1>25. mapped' = Least(x, n) + w
  BY <1>5, <1>6, <1>11, <1>17, <1>18
<1>26. MapsNext(extents', Least(x, n) + w) => Maps(extents, mapped)'
  BY <1>25 DEF Maps, MapsNext
<1>27. \A i \in 1..(at'.run - 1) : NtfsTaken(i)'
  BY <1>2, <1>17, <1>19, <1>24, <1>21
<1>28. \/ layout'.first_vcn = 0 /\ Maps(extents, mapped)'
       \/ /\ layout'.first_vcn # 0 /\ extents' = <<>>
          /\ \A i \in 1..(at'.run - 1) : ~NtfsHolds(i)'
       \/ ~Mappable' /\ extents' # <<>> /\ extents'[1].logical_offset # 0
  <2>1. CASE layout.first_vcn = 0 /\ Maps(extents', Least(x, n) + w)
    BY <1>23, <1>26, <2>1
  <2>2. CASE /\ layout.first_vcn # 0 /\ extents' = <<>>
             /\ \A i \in 1..k : ~NtfsHolds(i)
    BY <1>17, <1>24, <2>2
  <2>3. CASE ~Mappable /\ extents' # <<>> /\ extents'[1].logical_offset # 0
    BY <1>17, <2>3 DEF SameTables
  <2> QED BY <1>22, <2>1, <2>2, <2>3
<1>29. (extents # <<>> => NtfsFits(extents[Len(extents)]))'
  BY <1>22 DEF NtfsFits
<1> QED BY <1>22, <1>24, <1>27, <1>28, <1>29 DEF NtfsWalk, m

LEMMA NtfsStep ==
  ASSUME NtfsImage, Fresh, NtfsWalk, ~NtfsWraps, NtfsOpen
  PROVE  /\ layout' = layout
         /\ \/ step' = "walk" /\ Fresh' /\ NtfsWalk'
            \/ step' = "failed" /\ Fresh' /\ ~Mappable'
            \/ step' = "new" /\ NewInv'
<1> DEFINE b == layout.block
           n == layout.size
           m == Len(layout.runs)
           all == NtfsLogical[m + 1]
           done == at.run > m
           next == [run |-> at.run + 1, logical |-> Wrap(at.logical + NtfsRun.clusters),
                    last |-> NtfsPhysical(NtfsRun, at.last)]
<1>1. layout' = layout
  BY DEF NtfsOpen, Loop, LoopTo, Fail, HandOver, Round, Panic
<1>2. SameTables
  BY <1>1, NtfsSame
<1>3. \/ (layout.compressed \/ (~done /\ NtfsRefused)) /\ Fail
      \/ ~layout.compressed /\ done /\ HandOver(extents)
      \/ ~done /\ ~NtfsRefused /\ Round(NtfsMapped, next)
      \/ NtfsPanics
  BY DEF NtfsOpen, Loop, LoopTo
<1>4. n \in Nat /\ n \in 0..MaxU64 /\ b \in Nat \ {0} /\ m \in Nat /\ layout.first_vcn \in Nat
      /\ MaxU64 \in Nat
  BY NtfsIs, ExtentMapNewAssumption DEF NtfsImage
<1>5. /\ at.run \in 1..(m + 1) /\ at.logical = NtfsLogical[at.run]
      /\ at.last = NtfsCluster[at.run - 1] /\ extents \in Seq(ExtentSet(Names))
  BY DEF NtfsWalk
<1>6. CASE (layout.compressed \/ (~done /\ NtfsRefused)) /\ Fail
  <2>1. step' = "failed" /\ Fresh'
    BY <1>6 DEF Fail, Fresh, vars
  <2>2. ~NtfsMappable
    <3>1. CASE layout.compressed
      BY <3>1 DEF NtfsMappable
    <3>2. CASE ~done /\ NtfsRefused
      <4> DEFINE k == at.run
                 t == NtfsLogical[k]
                 c == layout.runs[k].clusters
      <4>1. k \in 1..m
        BY <1>4, <1>5, <3>2
      <4>2. c \in Nat /\ t \in Nat
        <5>1. k \in 1..(m + 1)
          BY <1>5
        <5> QED BY <4>1, <5>1, NtfsIs, NtfsSums
      <4> DEFINE p == NtfsCluster[k]
                 x == t * b
                 cb == c * b
      <4>3. /\ NtfsRunSize(NtfsRun, at.logical) = IF x >= n THEN 0 ELSE Least(cb, n - x)
            /\ p >= 0 => NtfsOffset(NtfsRun, at.last) = p * b
            /\ p < 0 => NtfsOffset(NtfsRun, at.last) > MaxU64
        <5> HIDE DEF p, x
        <5> QED BY <4>1, NtfsPlain DEF p, x
      <4>4. p \in Int
        <5>1. k \in 0..m
          BY <1>4, <4>1
        <5> QED BY <5>1, NtfsSums
      <4>5. CASE at.logical * b > MaxU64
        <5>1. x \in Nat /\ x > MaxU64
          BY <1>4, <1>5, <4>2, <4>5, Times
        <5> HIDE DEF x
        <5>2. ~(x <= MaxU64)
          BY <1>4, <5>1
        <5> QED BY <4>1, <5>2 DEF NtfsMappable, x
      <4>6. CASE /\ ~NtfsRun.sparse /\ NtfsRunSize(NtfsRun, at.logical) # 0
                 /\ NtfsOffset(NtfsRun, at.last) > MaxU64
        <5>1. x \in Nat /\ cb \in Nat /\ (cb = 0 <=> c = 0)
          BY <1>4, <4>2, Times
        <5>2. x < n /\ cb # 0
          <6> HIDE DEF x, cb
          <6>1. ~(x >= n) /\ Least(cb, n - x) # 0
            BY <4>3, <4>6
          <6> QED BY <1>4, <5>1, <6>1 DEF Least
        <5>3. NtfsHolds(k)
          BY <4>2, <5>1, <5>2 DEF NtfsHolds
        <5>4. p * b \notin 0..MaxU64
          <6>1. CASE p >= 0
            <7>1. p * b > MaxU64 /\ p \in Nat
              BY <4>3, <4>4, <4>6, <6>1
            <7> DEFINE pb == p * b
            <7>2. pb > MaxU64 /\ pb \in Nat
              BY <1>4, <7>1, Times
            <7> HIDE DEF pb
            <7>3. pb \notin 0..MaxU64
              BY <1>4, <7>2
            <7> QED BY <7>3 DEF pb
          <6>2. CASE p < 0
            <7>1. p * b < 0
              <8> HIDE DEF p
              <8> QED BY <1>4, <4>4, <6>2
            <7>2. p * b \in Int
              <8> HIDE DEF p
              <8> QED BY <1>4, <4>4
            <7> DEFINE pb == p * b
            <7>3. pb < 0 /\ pb \in Int
              BY <7>1, <7>2
            <7> HIDE DEF pb
            <7>4. pb \notin 0..MaxU64
              BY <7>3
            <7> QED BY <7>4 DEF pb
          <6> QED BY <4>4, <6>1, <6>2
        <5>5. ~layout.runs[k].sparse
          BY <4>6 DEF NtfsRun
        <5> QED BY <4>1, <5>3, <5>4, <5>5 DEF NtfsMappable
      <4> QED BY <3>2, <4>5, <4>6 DEF NtfsRefused
    <3> QED BY <1>6, <3>1, <3>2
  <2> QED BY <1>1, <1>2, <2>1, <2>2, NtfsIs DEF SameTables
<1>7. CASE ~layout.compressed /\ done /\ HandOver(extents)
  <2>1. at.run = m + 1 /\ at.run - 1 = m
    BY <1>4, <1>5, <1>7
  <2>2. \A i \in 1..m : NtfsTaken(i)
    BY <2>1 DEF NtfsWalk
  <2>3. \/ layout.first_vcn = 0 /\ Maps(extents, Least(all * b, n))
        \/ /\ layout.first_vcn # 0 /\ extents = <<>>
           /\ \A i \in 1..m : ~NtfsHolds(i)
        \/ ~Mappable /\ extents # <<>> /\ extents[1].logical_offset # 0
    BY <2>1 DEF NtfsWalk
  <2>4. CASE layout.first_vcn = 0 /\ Maps(extents, Least(all * b, n))
    <3>1. Mappable
      BY <1>7, <2>4, <2>2, NtfsIs DEF NtfsMappable, NtfsTaken
    <3>2. DeclaredSize = Least(n, all * b)
      BY <2>4, NtfsIs DEF NtfsSize
    <3>3. all \in Nat
      <4>1. m + 1 \in 1..(m + 1)
        BY <1>4
      <4> QED BY <4>1, NtfsSums
    <3> DEFINE x == all * b
    <3>4. x \in Nat
      BY <1>4, <3>3, Times
    <3>5. DeclaredSize = Least(n, x) /\ Maps(extents, Least(x, n))
      BY <2>4, <3>2
    <3> HIDE DEF x
    <3>6. Least(n, x) = Least(x, n) /\ Least(n, x) \in 0..MaxU64
      BY <1>4, <3>4 DEF Least
    <3>7. DeclaredSize \in 0..MaxU64 /\ Maps(extents, DeclaredSize)
      BY <3>5, <3>6
    <3>8. NewInv' /\ step' = "new"
      BY <1>2, <1>5, <1>7, <3>1, <3>7, HandOverStep
    <3> QED BY <1>1, <3>8
  <2>5. CASE /\ layout.first_vcn # 0 /\ extents = <<>>
             /\ \A i \in 1..m : ~NtfsHolds(i)
    <3>1. Mappable
      BY <1>7, <2>5, <2>2, NtfsIs DEF NtfsMappable, NtfsTaken
    <3>2. DeclaredSize = 0
      BY <2>5, NtfsIs DEF NtfsSize
    <3>3. DeclaredSize \in 0..MaxU64 /\ Maps(extents, DeclaredSize)
      BY <1>4, <2>5, <3>2, MapsNothing
    <3>4. NewInv' /\ step' = "new"
      BY <1>2, <1>5, <1>7, <3>1, <3>3, HandOverStep
    <3> QED BY <1>1, <3>4
  <2>6. CASE ~Mappable /\ extents # <<>> /\ extents[1].logical_offset # 0
    <3>1. \A total \in 0..MaxU64 : ~Tiles(extents, total)
      <4>1. \A total \in 0..MaxU64 : total \in Nat
        BY <1>4
      <4> QED BY <1>5, <2>6, <4>1, NoTiling
    <3>2. NewInv' /\ step' = "new"
      BY <1>2, <1>5, <1>7, <2>6, <3>1, HandOverStep
    <3> QED BY <1>1, <3>2
  <2> QED BY <2>3, <2>4, <2>5, <2>6
<1>8. CASE ~done /\ ~NtfsRefused /\ Round(NtfsMapped, next)
  <2>1. NtfsWalk'
    BY <1>1, <1>8, NtfsRound
  <2>2. step' = "walk" /\ Fresh'
    BY <1>8 DEF Round, Fresh, vars, NtfsOpen, Loop, LoopTo, Walking
  <2> QED BY <1>1, <2>1, <2>2
<1>9. ~NtfsPanics
  <2> SUFFICES ASSUME NtfsPanics PROVE FALSE
    OBVIOUS
  <2>1. CASE at.run = 1 /\ \E i \in 1..m : NtfsSumsOverflow(i)
    BY <2>1 DEF NtfsWraps
  <2>2. CASE at.run <= m /\ NtfsRun.clusters * b > MaxU64
    <3>1. at.run \in 1..m
      BY <1>4, <1>5, <2>2
    <3> QED BY <2>2, <3>1 DEF NtfsWraps, NtfsRun
  <2>3. CASE /\ extents # <<>>
             /\ extents[Len(extents)].source_offset + extents[Len(extents)].size > MaxU64
    <3> DEFINE last == extents[Len(extents)]
    <3>1. NtfsFits(last)
      BY <2>3 DEF NtfsWalk
    <3>2. Len(extents) \in 1..Len(extents)
      BY <1>5, <2>3
    <3>3. last.source_offset \in Nat /\ last.size \in Nat
      BY <1>5, <3>2, ExtentsAreRanges
    <3> QED BY <1>4, <2>3, <3>1, <3>3 DEF NtfsFits
  <2> QED BY <2>1, <2>2, <2>3 DEF NtfsPanics
<1> QED BY <1>3, <1>6, <1>7, <1>8, <1>9

-----------------------------------------------------------------------------
(* All of them: what stands in the state of a behaviour that opens an      *)
(* image of one of these formats.                                          *)

ProvedImage ==
  \/ QcowImage \/ VhdxImage \/ VmdkImage \/ BundleImage \/ FixedImage \/ SplitImage
  \/ HfsImage \/ NtfsImage

WalkInv ==
  /\ QcowImage => QcowWalk
  /\ VhdxImage => VhdxWalk
  /\ VmdkImage => VmdkWalk
  /\ BundleImage => BundleWalk
  /\ SplitImage => SplitWalk
  /\ HfsImage => HfsWalk
  /\ NtfsImage => NtfsWalk

(* While the tables are walked, the list maps what is behind; an early     *)
(* return is due to an image that cannot be mapped; new is handed the list *)
(* that the tables lead to, or one that it turns down; and nothing panics, *)
(* unless the blocks of an HFS fork outgrow a u32.                         *)
LayoutInv ==
  ProvedImage /\ ~Wraps =>
    \/ step = "walk" /\ Fresh /\ WalkInv
    \/ step = "failed" /\ Fresh /\ ~Mappable
    \/ step = "panicked" /\ Fresh /\ HfsImage /\ HfsSumOverflows
    \/ step = "new" /\ NewInv

LEMMA Formats ==
  /\ QcowImage => layout.format = "qcow"
  /\ VhdxImage => layout.format = "vhdx"
  /\ VmdkImage => layout.format = "vmdk"
  /\ BundleImage => layout.format = "sparsebundle"
  /\ FixedImage => layout.format = "vhd"
  /\ SplitImage => layout.format = "splitraw"
  /\ HfsImage => layout.format = "hfs"
  /\ NtfsImage => layout.format = "ntfs"
BY DEF QcowImage, VhdxImage, VmdkImage, BundleImage, FixedImage, SplitImage, HfsImage, NtfsImage

(* Opening changes nothing that is opened.                                 *)
LEMMA LayoutKept ==
  ASSUME [LayoutsNext]_layoutVars
  PROVE  layout' = layout
<1>1. \A list, next : Round(list, next) => layout' = layout
  BY DEF Round
<1>2. Fail => layout' = layout
  BY DEF Fail
<1>3. (\A list : HandOver(list) => layout' = layout) /\ (Panic => layout' = layout)
  BY DEF HandOver, Panic
<1>4. CASE QcowOpen
  BY <1>4, <1>1, <1>2, <1>3 DEF QcowOpen, Loop, LoopTo
<1>5. CASE VhdOpen
  BY <1>5, <1>1, <1>2, <1>3 DEF VhdOpen, Loop, LoopTo, Slice
<1>6. CASE VhdxOpen
  BY <1>6, <1>1, <1>2, <1>3 DEF VhdxOpen, Loop, LoopTo
<1>7. CASE VmdkOpen
  BY <1>7, <1>1, <1>2, <1>3 DEF VmdkOpen, Loop, LoopTo
<1>8. CASE SparseImageOpen
  BY <1>8, <1>1, <1>2, <1>3 DEF SparseImageOpen, LoopTo
<1>9. CASE SparseBundleOpen
  BY <1>9, <1>1, <1>2, <1>3 DEF SparseBundleOpen, Loop, LoopTo
<1>10. CASE SplitRawOpen
  BY <1>10, <1>1, <1>2, <1>3 DEF SplitRawOpen, Loop, LoopTo
<1>11. CASE PdiOpen
  BY <1>11, <1>1, <1>2, <1>3 DEF PdiOpen, PdiLayer, LoopTo
<1>12. CASE FatOpen
  BY <1>12, <1>1, <1>2, <1>3 DEF FatOpen, LoopTo
<1>13. CASE ExtOpen
  BY <1>13, <1>1, <1>2, <1>3 DEF ExtOpen, ExtRangeRound, ExtentRound, NumberRound, Loop, LoopTo
<1>14. CASE NtfsOpen
  BY <1>14, <1>1, <1>2, <1>3 DEF NtfsOpen, Loop, LoopTo
<1>15. CASE XfsOpen
  BY <1>15, <1>1, <1>2, <1>3 DEF XfsOpen, LoopTo
<1>16. CASE HfsOpen
  BY <1>16, <1>1, <1>2, <1>3 DEF HfsOpen, Loop, LoopTo
<1>17. CASE New
  BY <1>17 DEF New, walkVars
<1>18. CASE UNCHANGED layoutVars
  BY <1>18 DEF layoutVars, walkVars
<1> QED BY <1>4, <1>5, <1>6, <1>7, <1>8, <1>9, <1>10, <1>11, <1>12, <1>13, <1>14, <1>15, <1>16,
           <1>17, <1>18 DEF LayoutsNext, Walk

(* Only the walk of its own format takes an image further.                 *)
LEMMA OwnWalk ==
  ASSUME Walk
  PROVE  /\ step = "walk"
         /\ layout.format = "qcow" => QcowOpen
         /\ layout.format = "vhd" => VhdOpen
         /\ layout.format = "vhdx" => VhdxOpen
         /\ layout.format = "vmdk" => VmdkOpen
         /\ layout.format = "sparsebundle" => SparseBundleOpen
         /\ layout.format = "splitraw" => SplitRawOpen
         /\ layout.format = "hfs" => HfsOpen
         /\ layout.format = "ntfs" => NtfsOpen
<1>1. QcowOpen => step = "walk" /\ layout.format = "qcow"
  BY DEF QcowOpen, Loop, LoopTo, Walking
<1>2. VhdOpen => step = "walk" /\ layout.format = "vhd"
  BY DEF VhdOpen, Loop, LoopTo, Walking
<1>3. VhdxOpen => step = "walk" /\ layout.format = "vhdx"
  BY DEF VhdxOpen, Loop, LoopTo, Walking
<1>4. VmdkOpen => step = "walk" /\ layout.format = "vmdk"
  BY DEF VmdkOpen, Loop, LoopTo, Walking
<1>5. SparseImageOpen => step = "walk" /\ layout.format = "sparseimage"
  BY DEF SparseImageOpen, LoopTo, Walking
<1>6. SparseBundleOpen => step = "walk" /\ layout.format = "sparsebundle"
  BY DEF SparseBundleOpen, Loop, LoopTo, Walking
<1>7. SplitRawOpen => step = "walk" /\ layout.format = "splitraw"
  BY DEF SplitRawOpen, Loop, LoopTo, Walking
<1>8. PdiOpen => step = "walk" /\ layout.format = "pdi"
  BY DEF PdiOpen, Walking
<1>9. FatOpen => step = "walk" /\ layout.format = "fat"
  BY DEF FatOpen, Walking
<1>10. ExtOpen => step = "walk" /\ layout.format = "ext"
  BY DEF ExtOpen, Walking
<1>11. NtfsOpen => step = "walk" /\ layout.format = "ntfs"
  BY DEF NtfsOpen, Loop, LoopTo, Walking
<1>12. XfsOpen => step = "walk" /\ layout.format = "xfs"
  BY DEF XfsOpen, LoopTo, Walking
<1>13. HfsOpen => step = "walk" /\ layout.format = "hfs"
  BY DEF HfsOpen, Loop, LoopTo, Walking
<1> QED BY <1>1, <1>2, <1>3, <1>4, <1>5, <1>6, <1>7, <1>8, <1>9, <1>10, <1>11, <1>12, <1>13 DEF Walk

LEMMA LayoutInit ==
  ASSUME LayoutsInit
  PROVE  LayoutInv
<1> SUFFICES ASSUME ProvedImage PROVE step = "walk" /\ Fresh /\ WalkInv
  BY DEF LayoutInv
<1>1. step = "walk" /\ Fresh /\ extents = <<>> /\ at = Start(layout)
  BY DEF LayoutsInit, Init, Fresh
<1>2. Maps(extents, 0)
  BY <1>1, MapsNothing
<1>3. \A b \in Nat, n \in Nat : Least(0 * b, n) = 0
  BY DEF Least
<1>4. ASSUME QcowImage PROVE QcowWalk
  <2>1. at = 0
    BY <1>1, <1>4 DEF QcowImage, Start
  <2>2. layout.size \in Nat /\ layout.block \in Nat \ {0}
    BY <1>4, QcowIs DEF QcowImage
  <2>3. Ceil(layout.size, layout.block) \in Nat
    BY <2>2, Blocks
  <2> QED BY <1>2, <1>3, <2>1, <2>2, <2>3 DEF QcowWalk
<1>5. ASSUME VhdxImage PROVE VhdxWalk
  <2>1. at = 0
    BY <1>1, <1>5 DEF VhdxImage, Start
  <2>2. layout.size \in Nat /\ layout.block \in Nat \ {0}
    BY <1>5, VhdxIs DEF VhdxImage
  <2>3. Ceil(layout.size, layout.block) \in Nat
    BY <2>2, Blocks
  <2> QED BY <1>2, <1>3, <2>1, <2>2, <2>3 DEF VhdxWalk
<1>6. ASSUME VmdkImage PROVE VmdkWalk
  <2>1. at = 0
    BY <1>1, <1>6 DEF VmdkImage, Start
  <2>2. layout.size \in Nat /\ layout.block \in Nat \ {0}
    BY <1>6, ExtentMapNewAssumption DEF VmdkImage
  <2>3. VmdkPast \in Nat /\ (0 < VmdkPast <=> 0 * layout.block < layout.size)
    BY <2>2, Blocks DEF VmdkPast
  <2>4. ~(0 > VmdkPast) /\ (0 * layout.block >= layout.size => 0 = VmdkPast)
    BY <2>2, <2>3
  <2>5. VmdkEdges(0)
    BY <2>4 DEF VmdkEdges
  <2>6. Maps(extents, Least(0 * layout.block, layout.size))
    BY <1>2, <1>3, <2>2
  <2> QED BY <2>1, <2>5, <2>6 DEF VmdkWalk
<1>7. ASSUME BundleImage PROVE BundleWalk
  <2>1. at = 0
    BY <1>1, <1>7 DEF BundleImage, Start
  <2>2. layout.size \in Nat /\ layout.block \in Nat \ {0}
    BY <1>7, BundleIs DEF BundleImage
  <2>3. BandCount \in Nat
    BY <2>2, Blocks DEF BandCount
  <2> QED BY <1>2, <1>3, <2>1, <2>2, <2>3 DEF BundleWalk
<1>8. ASSUME SplitImage PROVE SplitWalk
  <2>1. at = 0
    BY <1>1, <1>8 DEF SplitImage, Start
  <2>2. extents \in Seq(ExtentSet(Names)) /\ Len(extents) = 0
    BY <1>1
  <2>3. 1..0 = {} /\ 1..(0 - 1) = {} /\ 0 \in Nat /\ ~(0 > 0)
    OBVIOUS
  <2> QED BY <1>8, <2>1, <2>2, <2>3 DEF SplitWalk, SplitImage
<1>9. ASSUME HfsImage PROVE HfsWalk
  <2>1. at = [part |-> 1, remaining |-> layout.size]
    BY <1>1, <1>9 DEF HfsImage, Start, HfsStart
  <2>2. /\ layout.size \in Nat /\ layout.block \in Nat /\ HfsTotal[0] = 0
        /\ Len(layout.parts) \in Nat
    BY <1>9, HfsIs
  <2>3. at.part = 1 /\ at.remaining = layout.size /\ at.part - 1 = 0
    BY <2>1
  <2>4. Least(HfsTotal[at.part - 1] * layout.block, layout.size) = 0
    BY <1>3, <2>2, <2>3
  <2>5. at.part \in 1..(Len(layout.parts) + 1) /\ at.remaining = layout.size - 0 /\ 1..0 = {}
    BY <2>2, <2>3
  <2>6. extents \in Seq(ExtentSet(Names))
    BY <1>1
  <2> QED BY <1>2, <2>3, <2>4, <2>5, <2>6 DEF HfsWalk
<1>10. ASSUME NtfsImage PROVE NtfsWalk
  <2>1. at = [run |-> 1, logical |-> layout.first_vcn, last |-> 0]
    BY <1>1, <1>10 DEF NtfsImage, Start, NtfsStart
  <2>2. /\ layout.size \in Nat /\ layout.block \in Nat /\ Len(layout.runs) \in Nat
        /\ NtfsLogical[1] = layout.first_vcn /\ NtfsCluster[0] = 0
    BY <1>10, NtfsIs, NtfsSums
  <2>3. /\ at.run = 1 /\ at.logical = layout.first_vcn /\ at.last = 0 /\ at.run - 1 = 0
    BY <2>1
  <2>4. layout.first_vcn = 0 => Least(NtfsLogical[at.run] * layout.block, layout.size) = 0
    BY <1>3, <2>2, <2>3
  <2>5. at.run \in 1..(Len(layout.runs) + 1) /\ 1..0 = {}
    BY <2>2, <2>3
  <2>6. extents \in Seq(ExtentSet(Names))
    BY <1>1
  <2> QED BY <1>1, <1>2, <2>2, <2>3, <2>4, <2>5, <2>6 DEF NtfsWalk
<1> QED BY <1>1, <1>4, <1>5, <1>6, <1>7, <1>8, <1>9, <1>10 DEF WalkInv

(* The tables stay, and what is said of them.                              *)
LEMMA ImageSame ==
  ASSUME ProvedImage, layout' = layout
  PROVE  SameTables
BY QcowSame, VhdxSame, VmdkSame, BundleSame, FixedSame, SplitSame, HfsSame, NtfsSame
   DEF ProvedImage

LEMMA ImageKept ==
  ASSUME layout' = layout
  PROVE  /\ QcowImage' <=> QcowImage
         /\ VhdxImage' <=> VhdxImage
         /\ VmdkImage' <=> VmdkImage
         /\ BundleImage' <=> BundleImage
         /\ FixedImage' <=> FixedImage
         /\ SplitImage' <=> SplitImage
         /\ HfsImage' <=> HfsImage
         /\ NtfsImage' <=> NtfsImage
<1>1. /\ QcowImage' <=> QcowImage
      /\ VhdxImage' <=> VhdxImage
      /\ BundleImage' <=> BundleImage
      /\ FixedImage' <=> FixedImage
  BY DEF QcowImage, VhdxImage, BundleImage, FixedImage, BandCount, BandFile, BandFileSize
<1>2. VmdkImage' <=> VmdkImage
  BY DEF VmdkImage, VmdkDirectory
<1>3. SplitImage' <=> SplitImage
  BY DEF SplitImage, SegmentFile
<1>4. HfsImage' <=> HfsImage
  BY DEF HfsImage
<1>5. NtfsImage' <=> NtfsImage
  BY DEF NtfsImage
<1> QED BY <1>1, <1>2, <1>3, <1>4, <1>5

LEMMA WrapsKept ==
  ASSUME ProvedImage, layout' = layout
  PROVE  Wraps' <=> Wraps
<1>1. CASE QcowImage
  BY <1>1, Formats DEF Wraps, QcowShifts
<1>2. CASE VhdxImage
  <2>1. ~VhdxWraps /\ ~VhdxWraps'
    BY <1>2 DEF VhdxImage, VhdxWraps
  <2> QED BY <1>2, <2>1, Formats DEF Wraps
<1>3. CASE NtfsImage
  <2>1. NtfsLogical' = NtfsLogical /\ NtfsCluster' = NtfsCluster
    BY <1>3, NtfsSame
  <2>2. NtfsWraps' <=> NtfsWraps
    BY <2>1 DEF NtfsWraps, NtfsSumsOverflow, NtfsHolds, NtfsEnd, Least, MaxI64
  <2> QED BY <1>3, <2>2, Formats DEF Wraps
<1>4. CASE VmdkImage \/ BundleImage \/ FixedImage \/ SplitImage \/ HfsImage
  BY <1>4, Formats DEF Wraps
<1> QED BY <1>1, <1>2, <1>3, <1>4 DEF ProvedImage

LEMMA SplitSize ==
  ASSUME SplitImage, Mappable
  PROVE  SplitRawSize \in Nat
<1> DEFINE count == SplitRawCount
           a == SegmentFile(1).size
           z == SegmentFile(count).size
<1>1. SplitRawMappable
  BY SplitIs
<1>2. count \in Nat
  <2>1. CASE layout.fixed # 0
    BY <2>1 DEF SplitRawCount, SplitImage
  <2>2. CASE layout.fixed = 0
    <3>1. 0 \in Nat /\ 1..0 \subseteq DOMAIN layout.files
      OBVIOUS
    <3> QED BY <2>2, <3>1, SplitCount
  <2> QED BY <2>1, <2>2
<1>3. count > 0 /\ 1..count \subseteq DOMAIN layout.files
  BY <1>1 DEF SplitRawMappable
<1> HIDE DEF count
<1>4. 1 \in DOMAIN layout.files /\ count \in DOMAIN layout.files /\ count - 1 \in Nat
  BY <1>2, <1>3
<1>5. a \in Nat /\ z \in Nat
  BY <1>4 DEF SplitImage
<1> HIDE DEF a, z
<1> DEFINE y == (count - 1) * a
<1>6. y \in Nat
  BY <1>4, <1>5, Times
<1> HIDE DEF y
<1>7. y + z \in Nat
  BY <1>5, <1>6
<1> QED BY <1>7 DEF SplitRawSize, y, z, a, count

LEMMA ImageSize ==
  ASSUME ProvedImage, Mappable
  PROVE  DeclaredSize \in Nat
<1>1. CASE QcowImage \/ VhdxImage \/ VmdkImage \/ BundleImage \/ FixedImage \/ HfsImage
  BY <1>1, QcowIs, VhdxIs, VmdkIs, BundleIs, FixedIs, HfsIs
<1>2. CASE SplitImage
  BY <1>2, SplitIs, SplitSize
<1>3. CASE NtfsImage
  <2> DEFINE m == Len(layout.runs)
             x == NtfsLogical[m + 1] * layout.block
  <2>1. layout.size \in Nat /\ layout.block \in Nat /\ m \in Nat /\ DeclaredSize = NtfsSize
    BY <1>3, NtfsIs
  <2>2. m + 1 \in 1..(m + 1)
    BY <2>1
  <2>3. NtfsLogical[m + 1] \in Nat
    BY <1>3, <2>2, NtfsSums
  <2>4. x \in Nat
    BY <2>1, <2>3, Times
  <2>5. NtfsSize = IF layout.first_vcn # 0 THEN 0 ELSE Least(layout.size, x)
    BY DEF NtfsSize
  <2> HIDE DEF x, m
  <2> QED BY <2>1, <2>4, <2>5 DEF Least
<1> QED BY <1>1, <1>2, <1>3 DEF ProvedImage

(* A step that changes nothing.                                            *)
LEMMA WalkKept ==
  ASSUME ProvedImage, WalkInv, SameTables, at' = at, extents' = extents
  PROVE  WalkInv'
<1>1. layout' = layout
  BY DEF SameTables
<1>2. ASSUME NEW a \in Nat, NEW b \in Nat, NEW n \in Nat, Maps(extents, Least(a * b, n))
      PROVE  MapsNext(extents, Least(a * b, n))
  <2>1. Least(a * b, n) \in Nat
    BY Times DEF Least
  <2> QED BY <1>2, <2>1, SameMaps
<1>3. ASSUME QcowImage' PROVE QcowWalk'
  <2>1. QcowImage /\ QcowWalk
    BY <1>1, <1>3 DEF QcowImage, WalkInv
  <2>2. MapsNext(extents, Least(at * layout.block, layout.size))
    BY <1>2, <2>1, QcowIs DEF QcowWalk
  <2>3. Maps(extents, Least(at * layout.block, layout.size))'
    BY <1>1, <2>2 DEF Maps, MapsNext
  <2>4. \A c \in 0..(at - 1) : ~QcowUnmappable(c)'
    BY <1>1, <2>1 DEF QcowWalk, QcowUnmappable, QcowIndex, QcowShifts, QcowTable, QcowEntry
  <2> QED BY <1>1, <2>1, <2>3, <2>4 DEF QcowWalk
<1>4. ASSUME VhdxImage' PROVE VhdxWalk'
  <2>1. VhdxImage /\ VhdxWalk
    BY <1>1, <1>4 DEF VhdxImage, WalkInv
  <2>2. MapsNext(extents, Least(at * layout.block, layout.size))
    BY <1>2, <2>1, VhdxIs DEF VhdxWalk, VhdxImage
  <2>3. Maps(extents, Least(at * layout.block, layout.size))'
    BY <1>1, <2>2 DEF Maps, MapsNext
  <2>4. \A c \in 0..(at - 1) : ~VhdxUnmappable(c)'
    BY <1>1, <2>1 DEF VhdxWalk, VhdxUnmappable, VhdxDiskType, Unreadable, table_entry_index,
              bitmap_entry_index, UsesBitmap, VhdxEntry, VhdxBitmap, Chunk
  <2> QED BY <1>1, <2>1, <2>3, <2>4 DEF VhdxWalk
<1>5. ASSUME VmdkImage' PROVE VmdkWalk'
  <2>1. VmdkImage /\ VmdkWalk
    BY <1>1, <1>5 DEF VmdkImage, VmdkDirectory, WalkInv
  <2>2. MapsNext(extents, Least(at * layout.block, layout.size))
    BY <1>2, <2>1, VmdkIs DEF VmdkWalk, VmdkImage
  <2>3. Maps(extents, Least(at * layout.block, layout.size))'
    BY <1>1, <2>2 DEF Maps, MapsNext
  <2>4. \A g \in 0..(at - 1) : (g * layout.block < layout.size)' => ~VmdkUnmappable(g)'
    BY <1>1, <2>1 DEF VmdkWalk, VmdkUnmappable, VmdkTable, VmdkSector, VmdkSize, VmdkDirectory
  <2>5. VmdkEdges(at)' <=> VmdkEdges(at)
    BY <1>1 DEF VmdkEdges, VmdkPast, Ceil, VmdkUnmappable, VmdkTable, VmdkSector, VmdkSize,
                VmdkDirectory
  <2> QED BY <1>1, <2>1, <2>3, <2>4, <2>5 DEF VmdkWalk, VmdkDirectory
<1>6. ASSUME BundleImage' PROVE BundleWalk'
  <2>1. BundleImage /\ BundleWalk
    BY <1>1, <1>6 DEF BundleImage, BandCount, BandFile, BandFileSize, WalkInv
  <2>2. MapsNext(extents, Least(at * layout.block, layout.size))
    BY <1>2, <2>1, BundleIs DEF BundleWalk, BundleImage
  <2>3. Maps(extents, Least(at * layout.block, layout.size))'
    BY <1>1, <2>2 DEF Maps, MapsNext
  <2>4. \A i \in 0..(at - 1) : ~BandFileRefused(i)'
    BY <1>1, <2>1 DEF BundleWalk, BandFileRefused, BandFile, BandFileSize, BandSize, BandOffset
  <2> QED BY <1>1, <2>1, <2>3, <2>4 DEF BundleWalk, BandCount
<1>7. ASSUME SplitImage' PROVE SplitWalk'
  <2>1. SplitWalk
    BY <1>1, <1>7, ImageKept DEF WalkInv
  <2> QED BY <1>1, <2>1 DEF SplitWalk, SplitPart, SegmentFile
<1>8. ASSUME HfsImage' PROVE HfsWalk'
  <2>1. HfsImage /\ HfsWalk
    BY <1>1, <1>8, ImageKept DEF WalkInv
  <2>2. HfsTotal' = HfsTotal
    BY <1>1, <2>1, HfsSame
  <2> DEFINE mapped == Least(HfsTotal[at.part - 1] * layout.block, layout.size)
  <2>3. mapped' = mapped
    BY <1>1, <2>2
  <2>4. Maps(extents, mapped) => MapsNext(extents, mapped)
    <3>1. at.part \in 1..(Len(layout.parts) + 1) /\ Len(layout.parts) \in Nat
      BY <2>1, HfsIs DEF HfsWalk
    <3>2. at.part - 1 \in 0..Len(layout.parts)
      BY <3>1
    <3>3. HfsTotal[at.part - 1] \in Nat /\ layout.block \in Nat /\ layout.size \in Nat
      BY <2>1, <3>2, HfsIs
    <3> QED BY <1>2, <3>3
  <2>5. Maps(extents, mapped) => Maps(extents, mapped)'
    BY <2>3, <2>4 DEF Maps, MapsNext
  <2>6. Mappable' <=> Mappable
    BY DEF SameTables
  <2> QED BY <1>1, <2>1, <2>2, <2>3, <2>5, <2>6 DEF HfsWalk
<1>9. ASSUME NtfsImage' PROVE NtfsWalk'
  <2>1. NtfsImage /\ NtfsWalk
    BY <1>1, <1>9, ImageKept DEF WalkInv
  <2>2. NtfsLogical' = NtfsLogical /\ NtfsCluster' = NtfsCluster
    BY <1>1, <2>1, NtfsSame
  <2> DEFINE mapped == Least(NtfsLogical[at.run] * layout.block, layout.size)
  <2>3. mapped' = mapped
    BY <1>1, <2>2
  <2>4. Maps(extents, mapped) => MapsNext(extents, mapped)
    <3>1. NtfsLogical[at.run] \in Nat /\ layout.block \in Nat /\ layout.size \in Nat
      BY <2>1, NtfsIs, NtfsSums DEF NtfsWalk
    <3> QED BY <1>2, <3>1
  <2>5. Maps(extents, mapped) => Maps(extents, mapped)'
    BY <2>3, <2>4 DEF Maps, MapsNext
  <2>6. Mappable' <=> Mappable
    BY DEF SameTables
  <2>7. \A i : (NtfsHolds(i)' <=> NtfsHolds(i)) /\ (NtfsTaken(i)' <=> NtfsTaken(i))
    BY <1>1, <2>1, NtfsSame
  <2> QED BY <1>1, <2>1, <2>2, <2>3, <2>5, <2>6, <2>7 DEF NtfsWalk, NtfsFits
<1> QED BY <1>3, <1>4, <1>5, <1>6, <1>7, <1>8, <1>9 DEF WalkInv

LEMMA NewKept ==
  ASSUME ProvedImage, NewInv, SameTables,
         UNCHANGED <<extents, entries, expected_logical_offset, phase>>
  PROVE  NewInv'
<1>1. Mappable => DeclaredSize \in Nat
  BY ImageSize
<1>2. Mappable => /\ Maps(extents, DeclaredSize) => MapsNext(extents, DeclaredSize)
                  /\ Maps(entries, DeclaredSize) => MapsNext(entries, DeclaredSize)
  BY <1>1, SameMaps
<1>3. Handed => Handed'
  BY <1>2 DEF Handed, SameTables, Maps, MapsNext
<1>4. CheckedSoFar => CheckedSoFar'
  BY DEF CheckedSoFar
<1>5. Mappable /\ Maps(entries, DeclaredSize) => Maps(entries, DeclaredSize)'
  BY <1>2 DEF SameTables, Maps, MapsNext
<1> QED BY <1>3, <1>4, <1>5 DEF NewInv, SameTables

LEMMA LayoutStep ==
  ASSUME LayoutInv, [LayoutsNext]_layoutVars
  PROVE  LayoutInv'
<1>1. layout' = layout
  BY LayoutKept
<1>2. /\ QcowImage' <=> QcowImage
      /\ VhdxImage' <=> VhdxImage
      /\ VmdkImage' <=> VmdkImage
      /\ BundleImage' <=> BundleImage
      /\ FixedImage' <=> FixedImage
      /\ SplitImage' <=> SplitImage
      /\ HfsImage' <=> HfsImage
      /\ NtfsImage' <=> NtfsImage
  BY <1>1, ImageKept
<1>3. ProvedImage' <=> ProvedImage
  BY <1>2 DEF ProvedImage
<1> SUFFICES ASSUME ProvedImage, ~Wraps
             PROVE  \/ step' = "walk" /\ Fresh' /\ WalkInv'
                    \/ step' = "failed" /\ Fresh' /\ ~Mappable'
                    \/ step' = "panicked" /\ Fresh' /\ HfsImage' /\ HfsSumOverflows'
                    \/ step' = "new" /\ NewInv'
  BY <1>1, <1>3, WrapsKept DEF LayoutInv
<1>4. \/ step = "walk" /\ Fresh /\ WalkInv
      \/ step = "failed" /\ Fresh /\ ~Mappable
      \/ step = "panicked" /\ Fresh /\ HfsImage /\ HfsSumOverflows
      \/ step = "new" /\ NewInv
  BY DEF LayoutInv
<1>5. SameTables
  BY <1>1, ImageSame
<1>6. CASE Walk
  <2>1. step = "walk" /\ Fresh /\ WalkInv
    BY <1>4, <1>6, OwnWalk
  <2>2. CASE QcowImage
    <3>1. layout.format = "qcow"
      BY <2>2, Formats
    <3>2. \/ step' = "walk" /\ Fresh' /\ QcowWalk'
          \/ step' = "failed" /\ Fresh' /\ ~Mappable'
          \/ step' = "new" /\ NewInv'
      BY <1>6, <2>1, <2>2, <3>1, OwnWalk, QcowStep DEF WalkInv, Wraps
    <3>3. QcowWalk' => WalkInv'
      BY <1>2, <3>1, Formats DEF WalkInv
    <3> QED BY <3>2, <3>3
  <2>3. CASE VhdxImage
    <3>1. layout.format = "vhdx"
      BY <2>3, Formats
    <3>2. \/ step' = "walk" /\ Fresh' /\ VhdxWalk'
          \/ step' = "failed" /\ Fresh' /\ ~Mappable'
          \/ step' = "new" /\ NewInv'
      BY <1>6, <2>1, <2>3, <3>1, OwnWalk, VhdxStep DEF WalkInv
    <3>3. VhdxWalk' => WalkInv'
      BY <1>2, <3>1, Formats DEF WalkInv
    <3> QED BY <3>2, <3>3
  <2>4. CASE VmdkImage
    <3>1. layout.format = "vmdk"
      BY <2>4, Formats
    <3>2. \/ step' = "walk" /\ Fresh' /\ VmdkWalk'
          \/ step' = "failed" /\ Fresh' /\ ~Mappable'
          \/ step' = "new" /\ NewInv'
      BY <1>6, <2>1, <2>4, <3>1, OwnWalk, VmdkStep DEF WalkInv
    <3>3. VmdkWalk' => WalkInv'
      BY <1>2, <3>1, Formats DEF WalkInv
    <3> QED BY <3>2, <3>3
  <2>5. CASE BundleImage
    <3>1. layout.format = "sparsebundle"
      BY <2>5, Formats
    <3>2. \/ step' = "walk" /\ Fresh' /\ BundleWalk'
          \/ step' = "failed" /\ Fresh' /\ ~Mappable'
          \/ step' = "new" /\ NewInv'
      BY <1>6, <2>1, <2>5, <3>1, OwnWalk, BundleStep DEF WalkInv
    <3>3. BundleWalk' => WalkInv'
      BY <1>2, <3>1, Formats DEF WalkInv
    <3> QED BY <3>2, <3>3
  <2>6. CASE SplitImage
    <3>1. layout.format = "splitraw"
      BY <2>6, Formats
    <3>2. \/ step' = "walk" /\ Fresh' /\ SplitWalk'
          \/ step' = "failed" /\ Fresh' /\ ~Mappable'
          \/ step' = "new" /\ NewInv'
      BY <1>6, <2>1, <2>6, <3>1, OwnWalk, SplitStep DEF WalkInv
    <3>3. SplitWalk' => WalkInv'
      BY <1>2, <3>1, Formats DEF WalkInv
    <3> QED BY <3>2, <3>3
  <2>7. CASE HfsImage
    <3>1. layout.format = "hfs"
      BY <2>7, Formats
    <3>2. \/ step' = "walk" /\ Fresh' /\ HfsWalk'
          \/ step' = "failed" /\ Fresh' /\ ~Mappable'
          \/ step' = "panicked" /\ Fresh' /\ HfsSumOverflows'
          \/ step' = "new" /\ NewInv'
      BY <1>6, <2>1, <2>7, <3>1, OwnWalk, HfsStep DEF WalkInv
    <3>3. HfsWalk' => WalkInv'
      BY <1>2, <3>1, Formats DEF WalkInv
    <3> QED BY <1>2, <2>7, <3>2, <3>3
  <2>8. CASE NtfsImage
    <3>1. layout.format = "ntfs"
      BY <2>8, Formats
    <3>2. \/ step' = "walk" /\ Fresh' /\ NtfsWalk'
          \/ step' = "failed" /\ Fresh' /\ ~Mappable'
          \/ step' = "new" /\ NewInv'
      BY <1>6, <2>1, <2>8, <3>1, OwnWalk, NtfsStep DEF WalkInv, Wraps
    <3>3. NtfsWalk' => WalkInv'
      BY <1>2, <3>1, Formats DEF WalkInv
    <3> QED BY <3>2, <3>3
  <2>9. CASE FixedImage
    BY <1>6, <2>9, OwnWalk, FixedStep, Formats
  <2> QED BY <2>2, <2>3, <2>4, <2>5, <2>6, <2>7, <2>8, <2>9 DEF ProvedImage
<1>7. CASE New
  <2>1. step = "new" /\ step' = "new" /\ NewInv
    BY <1>4, <1>7 DEF New, walkVars
  <2> QED BY <1>5, <1>7, <2>1, NewStep
<1>8. CASE UNCHANGED layoutVars
  <2>1. UNCHANGED <<layout, at, extents, step, entries, expected_logical_offset, phase>>
    BY <1>8 DEF layoutVars, walkVars, vars
  <2>2. Fresh' = Fresh
    BY <2>1 DEF Fresh
  <2>3. WalkInv => WalkInv'
    BY <1>5, <2>1, WalkKept
  <2>4. NewInv => NewInv'
    BY <1>5, <2>1, NewKept
  <2>5. HfsImage /\ HfsSumOverflows => HfsSumOverflows'
    BY <1>1, HfsSame DEF HfsSumOverflows
  <2> QED BY <1>2, <1>4, <1>5, <2>1, <2>2, <2>3, <2>4, <2>5 DEF SameTables
<1> QED BY <1>6, <1>7, <1>8 DEF LayoutsNext

LEMMA LayoutInvariance == LayoutsSpec => []LayoutInv
<1>1. LayoutsInit => LayoutInv
  BY LayoutInit
<1>2. LayoutInv /\ [LayoutsNext]_layoutVars => LayoutInv'
  BY LayoutStep
<1> QED BY <1>1, <1>2, PTL DEF LayoutsSpec

-----------------------------------------------------------------------------
(* What the loops take for an image that can be mapped, and where they     *)
(* look, compared with what the formats say.                               *)

Agrees ==
  /\ ~Misread => /\ Mappable => (Usable \/ Overlooked) /\ ~TurnedDown
                 /\ ~Mappable => ~Usable \/ TurnedDown
  /\ Mappable => \A o \in 0..(DeclaredSize - 1) : (Coded(o) = Declared(o)) <=> ~Misplaced(o)

(* The media byte o is in a block of the media.                            *)
LEMMA MediaBlock ==
  ASSUME NEW n \in Nat, NEW b \in Nat \ {0}, NEW o \in 0..(n - 1)
  PROVE  o \div b \in 0..(Ceil(n, b) - 1) /\ (o \div b) * b < n
<1> DEFINE q == o \div b
           r == o % b
<1>1. q \in Nat /\ r \in 0..(b - 1) /\ o = q * b + r /\ o \in Nat
  <2>1. o \in Nat
    OBVIOUS
  <2> QED BY <2>1, DivMod
<1> HIDE DEF q, r
<1>2. q * b \in Nat
  BY <1>1, Times
<1>3. q * b < n
  <2> DEFINE x == q * b
  <2>1. x \in Nat /\ o = x + r
    BY <1>1, <1>2
  <2> HIDE DEF x
  <2>2. x < n
    BY <1>1, <2>1
  <2> QED BY <2>2 DEF x
<1>4. Ceil(n, b) \in Nat /\ q < Ceil(n, b)
  BY <1>1, <1>3, Blocks
<1>5. q \in 0..(Ceil(n, b) - 1)
  BY <1>1, <1>4
<1> QED BY <1>3, <1>5 DEF q

LEMMA InMedia ==
  ASSUME NEW n \in Nat, NEW b \in Nat \ {0}, NEW c \in 0..(Ceil(n, b) - 1)
  PROVE  c \in Nat /\ c * b < n /\ c * b \in Nat
<1>1. c \in Nat /\ 0 \in Nat
  OBVIOUS
<1>2. Ceil(n, b) \in Nat
  BY <1>1, Blocks
<1>3. c < Ceil(n, b)
  BY <1>1, <1>2
<1> QED BY <1>1, <1>3, Blocks, Times

LEMMA QcowAgrees ==
  ASSUME QcowImage, ~QcowShifts
  PROVE  Agrees
<1>1. layout.format = "qcow"
  BY DEF QcowImage
<1>2. \A c : QcowIndex(c) = c \div layout.per_table /\ QcowTable(c) = QcowListed(c)
             /\ QcowEntry(c) = QcowCluster(c)
  BY DEF QcowIndex, QcowTable, QcowListed, QcowEntry, QcowCluster
<1>3. \A c \in 0..(Ceil(layout.size, layout.block) - 1) :
        ~QcowUnmappable(c) <=>
          /\ c \div layout.per_table < Least(layout.references, Len(layout.tables))
          /\ \/ QcowListed(c) = <<>>
             \/ /\ c % layout.per_table < Len(QcowListed(c))
                /\ \/ QcowCluster(c).offset = 0
                   \/ /\ ~QcowCluster(c).compressed
                      /\ QcowCluster(c).offset + layout.block <= layout.file
  <2> SUFFICES ASSUME NEW c \in 0..(Ceil(layout.size, layout.block) - 1)
               PROVE  ~QcowUnmappable(c) <=>
                        /\ c \div layout.per_table < Least(layout.references, Len(layout.tables))
                        /\ \/ QcowListed(c) = <<>>
                           \/ /\ c % layout.per_table < Len(QcowListed(c))
                              /\ \/ QcowCluster(c).offset = 0
                                 \/ /\ ~QcowCluster(c).compressed
                                    /\ QcowCluster(c).offset + layout.block <= layout.file
    OBVIOUS
  <2> DEFINE q == c \div layout.per_table
             r == c % layout.per_table
             l == QcowListed(c)
             m == Len(layout.tables)
             S == [offset : Nat, compressed : BOOLEAN]
  <2>1. /\ layout.size \in Nat /\ layout.block \in Nat \ {0} /\ layout.per_table \in Nat \ {0}
        /\ layout.references \in Nat /\ layout.file \in Nat /\ layout.tables \in Seq(Seq(S))
    BY QcowIs
  <2>2. c \in Nat
    OBVIOUS
  <2>3. q \in Nat /\ r \in Nat /\ m \in Nat
    <3>1. m \in Nat
      <4> HIDE DEF S
      <4> QED BY <2>1
    <3>2. q \in Nat /\ r \in 0..(layout.per_table - 1)
      BY <2>1, <2>2, DivMod
    <3> QED BY <3>1, <3>2
  <2>4. q < m => l \in Seq(S)
    <3> SUFFICES ASSUME q < m PROVE l \in Seq(S)
      OBVIOUS
    <3>1. q + 1 \in 1..m
      BY <2>3
    <3> HIDE DEF S
    <3>2. layout.tables[q + 1] \in Seq(S)
      BY <2>1, <3>1
    <3> QED BY <3>2 DEF QcowListed
  <2>5. q < m /\ r < Len(l) => QcowCluster(c).offset \in Nat
    <3> SUFFICES ASSUME q < m, r < Len(l) PROVE QcowCluster(c).offset \in Nat
      OBVIOUS
    <3>1. l \in Seq(S) /\ r + 1 \in 1..Len(l)
      BY <2>3, <2>4
    <3>2. l[r + 1] \in S
      <4> HIDE DEF S, l, r
      <4> QED BY <3>1
    <3> QED BY <3>2 DEF QcowCluster
  <2>6. q < Least(layout.references, m) <=> ~(q >= layout.references) /\ ~(q >= m)
    <3> HIDE DEF q, m
    <3> QED BY <2>1, <2>3 DEF Least
  <2>7. QcowUnmappable(c) <=>
          \/ q >= layout.references
          \/ q >= m
          \/ /\ l # <<>>
             /\ \/ r >= Len(l)
                \/ /\ QcowCluster(c).offset # 0
                   /\ \/ QcowCluster(c).compressed
                      \/ QcowCluster(c).offset + layout.block > layout.file
    BY <1>2 DEF QcowUnmappable
  <2>8. q < m => Len(l) \in Nat
    BY <2>4
  <2>9. q < m <=> ~(q >= m)
    BY <2>3
  <2> HIDE DEF q, r, l, m
  <2>10. CASE q >= m \/ q >= layout.references
    BY <2>6, <2>7, <2>10 DEF q, r, l, m
  <2>11. CASE ~(q >= m \/ q >= layout.references)
    <3>1. /\ q < m /\ Len(l) \in Nat /\ (r < Len(l) => QcowCluster(c).offset \in Nat)
          /\ (r < Len(l) <=> ~(r >= Len(l)))
      BY <2>3, <2>5, <2>8, <2>9, <2>11
    <3>2. r < Len(l) => (QcowCluster(c).offset + layout.block <= layout.file
                           <=> ~(QcowCluster(c).offset + layout.block > layout.file))
      BY <2>1, <3>1
    <3> QED BY <2>6, <2>7, <2>11, <3>1, <3>2 DEF q, r, l, m
  <2> QED BY <2>10, <2>11
<1>4. Mappable <=> Usable
  BY <1>1, <1>3 DEF Mappable, Usable, QcowMappable, QcowUsable
<1>5. \A o : Coded(o) = Declared(o)
  BY <1>1, <1>2 DEF Coded, Declared, QcowCoded, QcowDeclared, QcowSparse
<1>6. ~TurnedDown /\ \A o : ~Misplaced(o)
  BY <1>1 DEF TurnedDown, Misplaced
<1> QED BY <1>4, <1>5, <1>6 DEF Agrees

LEMMA FixedAgrees ==
  ASSUME FixedImage
  PROVE  Agrees
<1>1. layout.format = "vhd" /\ layout.disk_type = "fixed"
  BY DEF FixedImage
<1>2. Mappable /\ Usable /\ ~TurnedDown /\ \A o : ~Misplaced(o)
  BY <1>1 DEF Mappable, Usable, VhdUsable, TurnedDown, VhdTurnedDown, Misplaced, VhdMisplaced
<1>3. \A o : Coded(o) = Declared(o)
  BY <1>1 DEF Coded
<1> QED BY <1>2, <1>3 DEF Agrees

LEMMA VmdkAgrees ==
  ASSUME VmdkImage
  PROVE  Agrees
<1> DEFINE b == layout.block
           n == layout.size
           p == layout.per_table
           T == VmdkDirectory.tables
<1>1. layout.format = "vmdk"
  BY DEF VmdkImage
<1>2. /\ n \in Nat /\ n <= MaxU64 /\ MaxU64 \in Nat /\ layout.capacity \in Nat /\ b \in Nat \ {0}
      /\ p \in Nat /\ layout.entries \in Nat /\ layout.file \in Nat
      /\ T \in Seq(Seq(Nat)) /\ Len(T) \in Nat /\ layout.cowd \in BOOLEAN
      /\ layout.cowd => p # 0
  BY VmdkIs, ExtentMapNewAssumption DEF VmdkImage
<1>3. ~VmdkUnsupported <=>
        /\ VmdkDirectory.start # 0
        /\ IF layout.cowd THEN layout.entries # 0
           ELSE /\ layout.described
                /\ n <= layout.capacity
                /\ "compressed" \notin layout.flags
                /\ p # 0
                /\ b <= MaxU64
  BY <1>2 DEF VmdkUnsupported
<1> DEFINE Right(g) ==
             /\ layout.cowd => g \div p < layout.entries
             /\ g \div p < Len(T)
             /\ \/ VmdkTable(g) = <<>>
                \/ /\ g % p < Len(VmdkTable(g))
                   /\ \/ VmdkSector(g) = 0
                      \/ VmdkSector(g) + VmdkSize(g, b) <= layout.file
           Wide(g) == ~layout.cowd /\ (IF VmdkTable(g) = <<>> THEN p ELSE g) * b > MaxU64
<1>4. ASSUME NEW g \in 0..(Ceil(n, b) - 1), p # 0
      PROVE  ~VmdkUnmappable(g) <=> Right(g) /\ ~Wide(g)
  <2> DEFINE q == g \div p
             r == g % p
             l == VmdkTable(g)
             m == Len(T)
             s == VmdkSector(g)
             w == VmdkSize(g, b)
  <2>1. g \in Nat /\ g * b < n
    BY <1>2, <1>4, InMedia
  <2>2. q \in Nat /\ r \in Nat /\ m \in Nat
    <3>1. p \in Nat \ {0}
      BY <1>2, <1>4
    <3>2. q \in Nat /\ r \in 0..(p - 1)
      BY <2>1, <3>1, DivMod
    <3> QED BY <1>2, <3>2
  <2>3. q < m => l \in Seq(Nat) /\ Len(l) \in Nat
    <3> SUFFICES ASSUME q < m PROVE l \in Seq(Nat)
      OBVIOUS
    <3>1. q + 1 \in 1..m
      BY <2>2
    <3>2. T[q + 1] \in Seq(Nat)
      BY <1>2, <3>1
    <3> QED BY <3>2 DEF VmdkTable
  <2>4. q < m /\ r < Len(l) => s \in Nat
    <3> SUFFICES ASSUME q < m, r < Len(l) PROVE s \in Nat
      OBVIOUS
    <3>1. l \in Seq(Nat) /\ r + 1 \in 1..Len(l)
      BY <2>2, <2>3
    <3>2. l[r + 1] \in Nat
      BY <3>1
    <3> QED BY <3>2 DEF VmdkSector
  <2>5. w \in Nat
    <3> DEFINE x == g * b
    <3>1. x \in Nat /\ x < n
      BY <1>2, <2>1, Times
    <3>2. w = Least(b, n - x)
      BY DEF VmdkSize
    <3> HIDE DEF x, w
    <3> QED BY <1>2, <3>1, <3>2 DEF Least
  <2>6. VmdkUnmappable(g) <=>
          \/ layout.cowd /\ q >= layout.entries
          \/ q >= m
          \/ Wide(g)
          \/ /\ l # <<>>
             /\ \/ r >= Len(l)
                \/ s # 0 /\ s + w > layout.file
    BY <2>1 DEF VmdkUnmappable
  <2>7. Right(g) <=> /\ layout.cowd => q < layout.entries
                     /\ q < m
                     /\ \/ l = <<>>
                        \/ r < Len(l) /\ (s = 0 \/ s + w <= layout.file)
    OBVIOUS
  <2>8. (q < m <=> ~(q >= m)) /\ (q < layout.entries <=> ~(q >= layout.entries))
    BY <1>2, <2>2
  <2> HIDE DEF q, r, l, m, s, w, Right, Wide
  <2>9. CASE q >= m
    BY <2>6, <2>7, <2>8, <2>9
  <2>10. CASE ~(q >= m)
    <3>1. q < m /\ Len(l) \in Nat /\ (r < Len(l) <=> ~(r >= Len(l)))
      BY <2>2, <2>3, <2>8, <2>10
    <3>2. r < Len(l) => s \in Nat /\ (s + w <= layout.file <=> ~(s + w > layout.file))
      BY <1>2, <2>4, <2>5, <3>1
    <3> QED BY <2>6, <2>7, <2>8, <2>10, <3>1, <3>2
  <2> QED BY <2>9, <2>10
<1>5. ASSUME NEW g \in 0..(Ceil(n, b) - 1), p # 0, Wide(g), g \div p < Len(T), n <= layout.capacity
      PROVE  VmdkTurnedDown
  <2> DEFINE x == g * b
             pb == p * b
  <2>1. g \in Nat /\ x < n /\ x \in Nat /\ pb \in Nat
    BY <1>2, <1>5, InMedia, Times
  <2>2. VmdkTable(g) = <<>> /\ pb > MaxU64 /\ ~layout.cowd
    <3>1. CASE VmdkTable(g) # <<>>
      <4>1. x > MaxU64
        BY <1>5, <3>1
      <4> HIDE DEF x
      <4> QED BY <1>2, <2>1, <4>1
    <3> QED BY <1>5, <3>1
  <2>3. x < pb
    <3> HIDE DEF x, pb
    <3> QED BY <1>2, <2>1, <2>2
  <2>4. g < p
    <3> SUFFICES ASSUME p <= g PROVE FALSE
      BY <1>2, <2>1
    <3>1. pb <= x
      BY <1>2, <2>1, Times
    <3> HIDE DEF x, pb
    <3> QED BY <2>1, <2>3, <3>1
  <2>5. g \div p = 0
    <3>1. 0 * p <= g /\ g < 0 * p + p /\ 0 \in Nat /\ p \in Nat \ {0}
      BY <1>2, <1>5, <2>1, <2>4
    <3> QED BY <2>1, <3>1, InBlock
  <2>6. T[1] = <<>> /\ T # <<>>
    <3>1. VmdkTable(g) = T[0 + 1]
      BY <2>5 DEF VmdkTable
    <3>2. 0 < Len(T)
      BY <1>5, <2>5
    <3> QED BY <2>2, <3>1, <3>2
  <2>7. layout.capacity > 0
    <3> HIDE DEF x
    <3> QED BY <1>2, <1>5, <2>1
  <2> QED BY <1>5, <2>2, <2>6, <2>7 DEF VmdkTurnedDown
<1>6. Usable <=> /\ ~VmdkUnsupported
                 /\ layout.cowd \/ Ceil(layout.capacity, p * b) <= Len(T)
                 /\ \A g \in 0..(Ceil(n, b) - 1) : Right(g)
  BY <1>1, <1>3 DEF Usable, VmdkUsable
<1>7. Mappable <=> /\ ~VmdkUnsupported
                   /\ layout.cowd \/ Ceil(layout.capacity, p * b) <= Len(T)
                   /\ \A g \in 0..(Ceil(n, b) - 1) : ~VmdkUnmappable(g)
                   /\ ~VmdkTurnedDown
  BY <1>1 DEF Mappable, VmdkMappable
<1>8. ~VmdkUnsupported => p # 0 /\ (layout.cowd \/ n <= layout.capacity)
  BY <1>2, <1>3
<1>9. \A g : Right(g) => g \div p < Len(T)
  OBVIOUS
<1>10. \A g : Wide(g) => ~layout.cowd
  OBVIOUS
<1> HIDE DEF Right, Wide, p, n, b, T
<1>11. Mappable => Usable /\ ~VmdkTurnedDown
  BY <1>4, <1>6, <1>7, <1>8
<1>12. Usable /\ ~VmdkTurnedDown => Mappable
  <2> SUFFICES ASSUME Usable, ~VmdkTurnedDown,
                      NEW g \in 0..(Ceil(n, b) - 1), VmdkUnmappable(g)
               PROVE  FALSE
    BY <1>6, <1>7
  <2>1. p # 0 /\ Right(g) /\ Wide(g)
    BY <1>4, <1>6, <1>8
  <2>2. n <= layout.capacity /\ g \div p < Len(T)
    BY <1>6, <1>8, <1>9, <1>10, <2>1
  <2> QED BY <1>5, <2>1, <2>2
<1>13. \A o : Coded(o) = Declared(o)
  BY <1>1 DEF Coded
<1>14. (TurnedDown <=> VmdkTurnedDown) /\ \A o : ~Misplaced(o)
  BY <1>1 DEF TurnedDown, Misplaced
<1> QED BY <1>11, <1>12, <1>13, <1>14 DEF Agrees

LEMMA BundleAgrees ==
  ASSUME BundleImage
  PROVE  Agrees
<1> DEFINE P == layout.plists
<1>1. layout.format = "sparsebundle"
  BY DEF BundleImage
<1>2. P # [i \in 1..Len(P) |-> FALSE] <=> \E i \in 1..Len(P) : P[i]
  <2>1. P \in Seq(BOOLEAN)
    BY DEF BundleImage
  <2> HIDE DEF P
  <2>2. P = [i \in 1..Len(P) |-> P[i]] /\ \A i \in 1..Len(P) : P[i] \in BOOLEAN
    BY <2>1
  <2> DEFINE D == 1..Len(P)
             F == [i \in D |-> FALSE]
  <2>3. (\A i \in D : ~P[i]) => P = F
    <3> SUFFICES ASSUME \A i \in D : ~P[i] PROVE P = F
      OBVIOUS
    <3>1. \A i \in D : P[i] = FALSE
      BY <2>2
    <3>2. P = [i \in D |-> P[i]]
      BY <2>2
    <3> HIDE DEF D
    <3> QED BY <3>1, <3>2, Zenon DEF F
  <2>4. P = F => \A i \in D : ~P[i]
    <3> HIDE DEF D
    <3> QED BY Zenon DEF F
  <2> QED BY <2>3, <2>4
<1>3. ASSUME NEW i \in 0..(BandCount - 1)
      PROVE  ~BandFileRefused(i) <=> BandFile(i) = "none" \/ layout.sizes[i + 1] \in 1..BandSize(i)
  <2>1. layout.size \in Nat /\ layout.block \in Nat \ {0} /\ BandFileSize(i) \in Nat
    BY <1>3, BundleIs DEF BundleImage
  <2>2. i \in Nat /\ i * layout.block < layout.size
    BY <1>3, <2>1, InMedia DEF BandCount
  <2>3. BandSize(i) \in Nat
    <3> DEFINE x == i * layout.block
    <3>1. x \in Nat /\ x < layout.size
      BY <2>1, <2>2, Times
    <3>2. BandSize(i) = Least(layout.block, layout.size - x)
      BY DEF BandSize, BandOffset
    <3> HIDE DEF x
    <3> QED BY <2>1, <3>1, <3>2 DEF Least
  <2> DEFINE s == BandFileSize(i)
             z == BandSize(i)
  <2>4. CASE BandFile(i) = "none"
    <3>1. s = 0
      BY <2>4 DEF BandFileSize
    <3>2. ~(s > z)
      <4> HIDE DEF s, z
      <4> QED BY <2>3, <3>1 DEF z
    <3> QED BY <2>4, <3>2 DEF BandFileRefused
  <2>5. CASE BandFile(i) # "none"
    <3>1. s = layout.sizes[i + 1]
      BY <2>5 DEF BandFileSize
    <3>2. s \in 1..z <=> s # 0 /\ ~(s > z)
      <4> HIDE DEF s, z
      <4> QED BY <2>1, <2>3 DEF s, z
    <3> QED BY <2>5, <3>1, <3>2 DEF BandFileRefused
  <2> QED BY <2>4, <2>5
<1>4. Mappable <=> Usable
  BY <1>1, <1>2, <1>3 DEF Mappable, Usable, SparseBundleMappable, SparseBundleUsable
<1>5. \A o : Coded(o) = Declared(o)
  BY <1>1 DEF Coded
<1>6. ~TurnedDown /\ \A o : ~Misplaced(o)
  BY <1>1 DEF TurnedDown, Misplaced
<1> QED BY <1>4, <1>5, <1>6 DEF Agrees

LEMMA SplitAgrees ==
  ASSUME SplitImage
  PROVE  Agrees
<1>1. layout.format = "splitraw"
  BY DEF SplitImage
<1>2. SplitRawCount \in Nat /\ layout.names \in Nat
  <2>1. CASE layout.fixed # 0
    BY <2>1 DEF SplitRawCount, SplitImage
  <2>2. CASE layout.fixed = 0
    <3>1. 0 \in Nat /\ 1..0 \subseteq DOMAIN layout.files
      OBVIOUS
    <3> QED BY <2>2, <3>1, SplitCount DEF SplitImage
  <2> QED BY <2>1, <2>2
<1>3. /\ SplitRawCount < layout.names <=> ~(SplitRawCount >= layout.names)
      /\ SplitRawCount < layout.names => SplitRawCount <= layout.names
  BY <1>2
<1>4. /\ SplitRawMappable => SplitRawUsable /\ ~SplitRawTurnedDown
      /\ ~SplitRawMappable => ~SplitRawUsable \/ SplitRawTurnedDown
  BY <1>3 DEF SplitRawMappable, SplitRawUsable, SplitRawTurnedDown
<1>5. \A o : Coded(o) = Declared(o)
  BY <1>1 DEF Coded
<1>6. /\ (Mappable <=> SplitRawMappable) /\ (Usable <=> SplitRawUsable)
      /\ (TurnedDown <=> SplitRawTurnedDown) /\ \A o : ~Misplaced(o)
  BY <1>1 DEF Mappable, Usable, TurnedDown, Misplaced
<1> QED BY <1>4, <1>5, <1>6 DEF Agrees

LEMMA HfsAgrees ==
  ASSUME HfsImage
  PROVE  Agrees
<1> DEFINE total == HfsTotal[Len(layout.parts)]
<1>1. layout.format = "hfs" /\ layout.classic \in BOOLEAN /\ layout.number \in Nat
  BY HfsAssumption DEF HfsImage
<1>2. total \in Nat /\ MaxU32 \in Nat /\ HfsNumber \in Nat /\ HfsSum \in Nat
  <2>1. Len(layout.parts) \in 0..Len(layout.parts)
    BY HfsIs
  <2> QED BY <2>1, HfsIs, HfsAssumption
<1>3. HfsSum <= total /\ (HfsSum # total => HfsSumOverflows)
  <2> DEFINE w == MaxU32 + 1
  <2>1. w \in Nat \ {0} /\ HfsSum = total % w /\ (HfsSumOverflows <=> total >= w)
    BY <1>2 DEF HfsSum, HfsSumOverflows
  <2> HIDE DEF total, w
  <2> DEFINE q == total \div w
             r == total % w
  <2>2. q \in Nat /\ r \in 0..(w - 1) /\ total = q * w + r
    BY <1>2, <2>1, DivMod
  <2> HIDE DEF q, r
  <2>3. q * w \in Nat
    BY <2>1, <2>2, Times
  <2>4. r <= total
    BY <2>2, <2>3
  <2>5. total < w => r = total
    <3> SUFFICES ASSUME total < w PROVE r = total
      OBVIOUS
    <3>1. 0 * w <= total /\ total < 0 * w + w /\ 0 \in Nat
      BY <1>2, <2>1
    <3>2. total % w = total - 0 * w
      BY <1>2, <2>1, <3>1, InBlock
    <3> QED BY <1>2, <2>1, <3>2 DEF r
  <2>6. HfsSum = r /\ (HfsSumOverflows <=> total >= w) /\ (total >= w <=> ~(total < w))
    BY <1>2, <2>1 DEF r
  <2> QED BY <2>4, <2>5, <2>6
<1>4. ~layout.classic => HfsNumber = layout.number
  BY DEF HfsNumber
<1>5. HfsSum >= HfsNumber => layout.classic \/ total >= layout.number
  BY <1>1, <1>2, <1>3, <1>4
<1>6. HfsSum < HfsNumber /\ ~layout.classic /\ total >= layout.number => HfsSumOverflows
  BY <1>1, <1>2, <1>3, <1>4
<1>7. HfsSum < HfsNumber <=> ~(HfsSum >= HfsNumber)
  BY <1>2
<1>8. /\ HfsMappable => HfsUsable /\ ~HfsMiscounted
      /\ ~HfsMappable => ~HfsUsable \/ HfsMiscounted
  BY <1>5, <1>6, <1>7 DEF HfsMappable, HfsUsable, HfsMiscounted
<1>9. \A o : Coded(o) = Declared(o)
  BY <1>1 DEF Coded
<1>10. /\ (Mappable <=> HfsMappable) /\ (Usable <=> HfsUsable)
       /\ (TurnedDown <=> HfsMiscounted) /\ \A o : ~Misplaced(o)
  BY <1>1 DEF Mappable, Usable, TurnedDown, Misplaced
<1> QED BY <1>8, <1>9, <1>10 DEF Agrees

LEMMA NtfsAgrees ==
  ASSUME NtfsImage, ~NtfsWraps
  PROVE  Agrees
<1>1. layout.format = "ntfs"
  BY DEF NtfsImage
<1>2. NtfsMappable <=> NtfsUsable \/ NtfsOverlooked
  BY DEF NtfsMappable, NtfsUsable, NtfsOverlooked, NtfsSound
<1>3. /\ (Mappable <=> NtfsMappable) /\ (Usable <=> NtfsUsable) /\ (Overlooked <=> NtfsOverlooked)
      /\ ~TurnedDown /\ \A o : ~Misplaced(o)
  BY <1>1 DEF Mappable, Usable, Overlooked, TurnedDown, Misplaced
<1>4. \A o : Coded(o) = Declared(o)
  BY <1>1 DEF Coded
<1> QED BY <1>2, <1>3, <1>4 DEF Agrees

(* If there is one chunk, the entries of the table are where the format    *)
(* has them, whatever the flags.                                           *)
LEMMA VhdxIndices ==
  ASSUME VhdxImage, NEW b \in VhdxBlocks
  PROVE  /\ b \in Nat /\ b * layout.block < layout.size
         /\ VhdxIndex(b) \in Nat /\ b <= VhdxIndex(b)
         /\ table_entry_index(b) \in Nat
         /\ layout.size <= layout.entries_per_chunk * layout.block =>
              table_entry_index(b) = b /\ VhdxIndex(b) = b
<1> DEFINE k == layout.entries_per_chunk
           n == layout.size
           c == layout.block
           q == b \div k
<1>1. n \in Nat /\ c \in Nat \ {0} /\ k \in Nat \ {0} /\ layout.flags \in Nat
  BY VhdxIs DEF VhdxImage
<1>2. b \in Nat /\ b * c < n /\ b * c \in Nat
  BY <1>1, InMedia DEF VhdxBlocks
<1>3. q \in Nat
  BY <1>1, <1>2, DivMod
<1>4. n <= k * c => q = 0
  <2> SUFFICES ASSUME n <= k * c PROVE q = 0
    OBVIOUS
  <2>1. b < k
    <3> SUFFICES ASSUME k <= b PROVE FALSE
      BY <1>1, <1>2
    <3> DEFINE kc == k * c
               bc == b * c
    <3>1. kc <= bc /\ kc \in Nat /\ bc \in Nat /\ bc < n /\ n <= kc
      BY <1>1, <1>2, Times
    <3> HIDE DEF kc, bc
    <3> QED BY <1>1, <3>1
  <2>2. 0 * k <= b /\ b < 0 * k + k /\ 0 \in Nat
    BY <1>1, <1>2, <2>1
  <2> QED BY <1>1, <1>2, <2>2, InBlock
<1>5. /\ table_entry_index(b) \in Nat
      /\ table_entry_index(b) = IF layout.flags = 0 THEN b ELSE b + q
  BY <1>2, VhdxIndexIs
<1>6. VhdxIndex(b) = IF layout.flags = 1 THEN b ELSE b + q
  BY DEF VhdxIndex
<1> HIDE DEF q, k, n, c
<1>7. VhdxIndex(b) \in Nat /\ b <= VhdxIndex(b)
  BY <1>2, <1>3, <1>6
<1>8. n <= k * c => table_entry_index(b) = b /\ VhdxIndex(b) = b
  BY <1>2, <1>4, <1>5, <1>6
<1> QED BY <1>2, <1>5, <1>7, <1>8 DEF n, k, c

LEMMA VhdxSound ==
  ASSUME VhdxImage, ~VhdxSwapped
  PROVE  VhdxMappable <=> VhdxUsable
<1> DEFINE n == layout.size
           c == layout.block
           x == layout.entries
           m == Len(layout.bat)
<1>1. n \in Nat /\ c \in Nat \ {0} /\ x \in Nat /\ m \in Nat /\ layout.flags \in Nat \ {2}
  BY VhdxIs DEF VhdxImage
<1>2. VhdxDiskType # "differential" /\ (VhdxDiskType = "unsupported" <=> layout.flags \notin 0..2)
  <2>1. CASE layout.flags = 0
    BY <2>1 DEF VhdxDiskType
  <2>2. CASE layout.flags = 1
    BY <2>2 DEF VhdxDiskType
  <2>3. CASE layout.flags \notin {0, 1}
    <3>1. layout.flags \notin 0..2
      BY <1>1, <2>3
    <3> QED BY <1>1, <2>3, <3>1 DEF VhdxDiskType
  <2> QED BY <2>1, <2>2, <2>3
<1>3. ~NoHeader(layout.headers) <=> \E i \in 1..2 : layout.headers[i].valid
  <2>1. \A i \in 1..2 : i = 1 \/ i = 2
    OBVIOUS
  <2>2. 1 \in 1..2 /\ 2 \in 1..2
    OBVIOUS
  <2> QED BY <2>1, <2>2 DEF NoHeader
<1>4. ~NoRegions(layout.regions) <=>
        \E i \in 1..2 : /\ layout.regions[i].valid /\ layout.regions[i].complete
                        /\ \A j \in 1..(i - 1) : ~layout.regions[j].valid
  <2> DEFINE R == layout.regions
             G(i) == /\ R[i].valid /\ R[i].complete
                     /\ \A j \in 1..(i - 1) : ~R[j].valid
  <2>1. (\A i \in 1..2 : i = 1 \/ i = 2) /\ 1 \in 1..2 /\ 2 \in 1..2
    OBVIOUS
  <2>2. 1..(1 - 1) = {} /\ 1..(2 - 1) = {1}
    OBVIOUS
  <2>3. G(1) <=> R[1].valid /\ R[1].complete
    BY <2>2
  <2>4. G(2) <=> R[2].valid /\ R[2].complete /\ ~R[1].valid
    BY <2>2
  <2>5. ~NoRegions(R) <=> G(1) \/ G(2)
    BY <2>3, <2>4 DEF NoRegions
  <2> HIDE DEF G
  <2>6. G(1) \/ G(2) <=> \E i \in 1..2 : G(i)
    BY <2>1
  <2> QED BY <2>5, <2>6 DEF G, R
<1>5. ~VhdxUnsupported <=> /\ \E i \in 1..2 : layout.headers[i].valid
                           /\ \E i \in 1..2 :
                                /\ layout.regions[i].valid /\ layout.regions[i].complete
                                /\ \A j \in 1..(i - 1) : ~layout.regions[j].valid
                           /\ layout.flags \in 0..2
                           /\ ~(n > x * c)
  BY <1>2, <1>3, <1>4 DEF VhdxUnsupported
<1>6. layout.flags \in 0..2 => n <= layout.entries_per_chunk * c
  <2> SUFFICES ASSUME layout.flags \in 0..2 PROVE n <= layout.entries_per_chunk * c
    OBVIOUS
  <2> DEFINE y == layout.entries_per_chunk * c
  <2>1. layout.flags \in {0, 1}
    BY <1>1
  <2>2. y \in Nat /\ ~(n > y)
    <3>1. layout.entries_per_chunk \in Nat
      BY DEF VhdxImage
    <3> QED BY <1>1, <2>1, <3>1, Times DEF VhdxSwapped
  <2> HIDE DEF y
  <2>3. n <= y
    BY <1>1, <2>2
  <2> QED BY <2>3 DEF y
<1>7. ASSUME layout.flags \in 0..2, NEW b \in VhdxBlocks
      PROVE  ~VhdxUnmappable(b) <=> VhdxIndex(b) < Least(x, m)
  <2>1. b \in Nat /\ table_entry_index(b) = b /\ VhdxIndex(b) = b
    BY <1>6, <1>7, VhdxIndices
  <2>2. VhdxUnmappable(b) <=> b >= x \/ b >= m
    BY <1>2, <2>1 DEF VhdxUnmappable, Unreadable, UsesBitmap
  <2>3. b < Least(x, m) <=> ~(b >= x \/ b >= m)
    <3> HIDE DEF x, m
    <3> QED BY <1>1, <2>1 DEF Least
  <2> QED BY <2>1, <2>2, <2>3
<1>8. ASSUME layout.flags \in 0..2, \A b \in VhdxBlocks : VhdxIndex(b) < Least(x, m)
      PROVE  ~(n > x * c)
  <2> SUFFICES ASSUME n > x * c PROVE FALSE
    OBVIOUS
  <2>1. x * c < n
    <3> DEFINE y == x * c
    <3>1. y \in Nat /\ n > y
      BY <1>1, Times
    <3> HIDE DEF y
    <3>2. y < n
      BY <1>1, <3>1
    <3> QED BY <3>2 DEF y
  <2>2. x < Ceil(n, c) /\ Ceil(n, c) \in Nat
    BY <1>1, <2>1, Blocks
  <2>3. x \in VhdxBlocks
    BY <1>1, <2>2 DEF VhdxBlocks
  <2>4. VhdxIndex(x) \in Nat /\ x <= VhdxIndex(x) /\ VhdxIndex(x) < Least(x, m)
    BY <1>8, <2>3, VhdxIndices
  <2> QED BY <1>1, <2>4 DEF Least
<1>9. VhdxMappable <=> ~VhdxUnsupported /\ \A b \in VhdxBlocks : ~VhdxUnmappable(b)
  BY DEF VhdxMappable, VhdxBlocks
<1>10. VhdxUsable <=> /\ \E i \in 1..2 : layout.headers[i].valid
                      /\ \E i \in 1..2 :
                           /\ layout.regions[i].valid /\ layout.regions[i].complete
                           /\ \A j \in 1..(i - 1) : ~layout.regions[j].valid
                      /\ layout.flags \in 0..2
                      /\ \A b \in VhdxBlocks : VhdxIndex(b) < Least(x, m)
  BY <1>1 DEF VhdxUsable
<1> HIDE DEF x, m, n, c
<1>11. CASE layout.flags \in 0..2
  BY <1>5, <1>7, <1>8, <1>9, <1>10, <1>11
<1>12. CASE layout.flags \notin 0..2
  BY <1>5, <1>9, <1>10, <1>12
<1> QED BY <1>11, <1>12

LEMMA VhdxAgrees ==
  ASSUME VhdxImage
  PROVE  Agrees
<1>1. layout.format = "vhdx" /\ layout.flags # 2
  BY DEF VhdxImage
<1>2. ~TurnedDown
  BY <1>1 DEF TurnedDown, VhdxTurnedDown
<1>3. ~Misread => (Mappable <=> Usable)
  BY <1>1, VhdxSound DEF Misread, Mappable, Usable
<1>4. ASSUME Mappable, NEW o \in 0..(DeclaredSize - 1)
      PROVE  (Coded(o) = Declared(o)) <=> ~Misplaced(o)
  <2> DEFINE b == o \div layout.block
             k == o % layout.block
             x == layout.entries
             m == Len(layout.bat)
             e == VhdxEntry(b)
             l == VhdxListed(b)
             i == VhdxIndex(b)
  <2>1. /\ layout.size \in Nat /\ layout.block \in Nat \ {0} /\ x \in Nat /\ m \in Nat
        /\ DeclaredSize = layout.size /\ VhdxMappable
    BY <1>1, <1>4, VhdxIs DEF VhdxImage, Mappable
  <2>2. b \in VhdxBlocks
    BY <1>4, <2>1, MediaBlock DEF VhdxBlocks
  <2>3. k \in Nat
    <3>1. o \in Nat
      BY <1>4, <2>1
    <3>2. k \in 0..(layout.block - 1)
      BY <2>1, <3>1, DivMod
    <3> QED BY <2>1, <3>2
  <2>4. i \in Nat /\ table_entry_index(b) \in Nat
    BY <2>2, VhdxIndices
  <2>5. e.state \in Nat /\ e.offset \in Nat
    <3>1. ~(table_entry_index(b) >= m)
      BY <2>1, <2>2 DEF VhdxMappable, VhdxBlocks, VhdxUnmappable, Unreadable
    <3>2. table_entry_index(b) + 1 \in 1..m
      BY <2>1, <2>4, <3>1
    <3> QED BY <3>2 DEF VhdxEntry, VhdxImage
  <2>6. Coded(o) = IF e.state < 6 THEN ZeroTarget ELSE Target("file", e.offset + k)
    BY VhdxIs DEF VhdxCoded
  <2>7. Declared(o) = IF i >= Least(x, m) THEN Target("none", 0)
                      ELSE IF \/ l.state >= 6 /\ layout.flags # 2
                              \/ l.state = 6
                              \/ l.state = 7 /\ VhdxBits(b)[k + 1]
                      THEN Target("file", l.offset + k)
                      ELSE IF layout.flags = 2 /\ l.state # 2 THEN Target("parent", o)
                      ELSE ZeroTarget
    BY <1>1 DEF Declared, VhdxDeclared
  <2>8. Misplaced(o) <=> i >= Least(x, m) \/ VhdxPlace(e) # VhdxPlace(l)
    BY <1>1 DEF Misplaced, VhdxMisplaced
  <2>9. (l.state \in Nat /\ l.offset \in Nat) \/ i >= Least(x, m)
    <3> SUFFICES ASSUME ~(i >= Least(x, m)) PROVE l.state \in Nat /\ l.offset \in Nat
      OBVIOUS
    <3>1. i < m
      <4> HIDE DEF x, m, i
      <4> QED BY <2>1, <2>4 DEF Least
    <3>2. i + 1 \in 1..m
      BY <2>1, <2>4, <3>1
    <3> QED BY <3>2 DEF VhdxListed, VhdxImage
  <2> HIDE DEF b, k, x, m, e, l, i
  <2>10. CASE i >= Least(x, m)
    <3>1. Declared(o) = Target("none", 0)
      BY <2>7, <2>10
    <3>2. Coded(o) # Target("none", 0)
      BY <2>6 DEF Target, ZeroTarget
    <3> QED BY <2>8, <2>10, <3>1, <3>2
  <2>11. CASE ~(i >= Least(x, m))
    <3>1. l.state \in Nat /\ l.offset \in Nat
      BY <2>9, <2>11
    <3>2. Declared(o) = IF l.state < 6 THEN ZeroTarget ELSE Target("file", l.offset + k)
      <4>1. CASE l.state < 6
        BY <1>1, <2>7, <2>11, <3>1, <4>1
      <4>2. CASE ~(l.state < 6)
        <5>1. l.state >= 6
          BY <3>1, <4>2
        <5> QED BY <1>1, <2>7, <2>11, <4>2, <5>1
      <4> QED BY <4>1, <4>2
    <3>3. CASE e.state < 6 /\ l.state < 6
      BY <2>6, <2>8, <2>11, <3>2, <3>3 DEF VhdxPlace, Target
    <3>4. CASE e.state < 6 /\ ~(l.state < 6)
      BY <2>6, <2>8, <2>11, <3>2, <3>4 DEF VhdxPlace, Target, ZeroTarget
    <3>5. CASE ~(e.state < 6) /\ l.state < 6
      BY <2>6, <2>8, <2>11, <3>2, <3>5 DEF VhdxPlace, Target, ZeroTarget
    <3>6. CASE ~(e.state < 6) /\ ~(l.state < 6)
      <4>1. Coded(o) = Declared(o) <=> e.offset + k = l.offset + k
        BY <2>6, <3>2, <3>6 DEF Target
      <4>2. VhdxPlace(e) = VhdxPlace(l) <=> e.offset = l.offset
        BY <3>6 DEF VhdxPlace, Target
      <4>3. e.offset + k = l.offset + k <=> e.offset = l.offset
        <5>1. \A y, z, d \in Nat : y + d = z + d <=> y = z
          OBVIOUS
        <5> QED BY ONLY <2>3, <2>5, <3>1, <5>1, Zenon
      <4> QED BY <2>8, <2>11, <4>1, <4>2, <4>3
    <3> QED BY <3>3, <3>4, <3>5, <3>6
  <2> QED BY <2>10, <2>11
<1> QED BY <1>2, <1>3, <1>4 DEF Agrees

(* All of them.                                                            *)
LEMMA AllAgree ==
  ASSUME ProvedImage, ~Wraps
  PROVE  Agrees
<1>1. CASE QcowImage
  BY <1>1, QcowAgrees, Formats DEF Wraps
<1>2. CASE NtfsImage
  BY <1>2, NtfsAgrees, Formats DEF Wraps
<1>3. CASE VhdxImage \/ VmdkImage \/ BundleImage \/ FixedImage \/ SplitImage \/ HfsImage
  BY <1>3, VhdxAgrees, VmdkAgrees, BundleAgrees, FixedAgrees, SplitAgrees, HfsAgrees
<1> QED BY <1>1, <1>2, <1>3 DEF ProvedImage

(* Opened has the list of the loop, and refused is what cannot be mapped.  *)
LEMMA Outcome ==
  ASSUME LayoutInv, ProvedImage, ~Wraps
  PROVE  /\ Opened => Mappable /\ Maps(entries, DeclaredSize)
         /\ Refused => ~Mappable
         /\ Panicked => HfsImage /\ HfsSumOverflows
<1>1. \/ step = "walk" /\ Fresh
      \/ step = "failed" /\ Fresh /\ ~Mappable
      \/ step = "panicked" /\ Fresh /\ HfsImage /\ HfsSumOverflows
      \/ step = "new" /\ NewInv
  BY DEF LayoutInv
<1> QED BY <1>1 DEF Opened, Refused, Panicked, NewInv, Fresh

(* An image or a file of one of these kinds (ProvedImage: the format and   *)
(* the widths of its fields) that opens has the size that its tables give  *)
(* it, and every byte of it is read from where the format says, except the *)
(* bytes that Misplaced names, which are not.  Blocks, segments and runs   *)
(* may be of any size and number within these widths; numbers that leave   *)
(* 64 bits on the way (Wraps, for QCOW and NTFS) are left out.  The loops  *)
(* of qcow/mod.rs, vhdx/mod.rs, vmdk/mod.rs, sparsebundle/mod.rs and       *)
(* splitraw/mod.rs, the slice of a fixed VHD, build_fork_source of HFS and *)
(* build_non_resident_attribute_source of NTFS, with merge_extent and      *)
(* ExtentMapDataSource::new.                                               *)
THEOREM Mapped == LayoutsSpec => [](ProvedImage => MappedAsDeclared)
<1>1. LayoutInv => (ProvedImage => MappedAsDeclared)
  <2> SUFFICES ASSUME LayoutInv, ProvedImage PROVE MappedAsDeclared
    OBVIOUS
  <2>1. ~PdiLayerBuilt
    BY Formats DEF ProvedImage, PdiLayerBuilt
  <2>2. ASSUME Opened, ~Wraps
        PROVE  /\ Tiles(entries, DeclaredSize)
               /\ \A o \in 0..(DeclaredSize - 1) : (Found(entries, o) = Declared(o)) <=> ~Misplaced(o)
    <3>1. Mappable /\ Maps(entries, DeclaredSize)
      BY <2>2, Outcome
    <3>2. \A o \in 0..(DeclaredSize - 1) : (Coded(o) = Declared(o)) <=> ~Misplaced(o)
      BY <2>2, <3>1, AllAgree DEF Agrees
    <3> QED BY <3>1, <3>2 DEF Maps
  <2> QED BY <2>1, <2>2 DEF MappedAsDeclared
<1> QED BY <1>1, LayoutInvariance, PTL

(* The driver opens such an image or file exactly if it is sound by its    *)
(* format: no damaged entry is overlooked, and new turns down no list that *)
(* a sound image leads to.  Left out are the flags of a VHDX image of      *)
(* several chunks (Misread) and numbers that leave 64 bits (Wraps).  Runs  *)
(* of NTFS that are too few are opened all the same (Overlooked), and the  *)
(* images of TurnedDown, which may be sound, never are.  Only overflows    *)
(* make it panic.                                                          *)
THEOREM OpensUsable == LayoutsSpec => [](ProvedImage => OpensExactlyUsable)
<1>1. LayoutInv => (ProvedImage => OpensExactlyUsable)
  <2> SUFFICES ASSUME LayoutInv, ProvedImage PROVE OpensExactlyUsable
    OBVIOUS
  <2>1. ASSUME ~Misread, ~Wraps
        PROVE  /\ Opened => (Usable \/ Overlooked) /\ ~TurnedDown
               /\ Refused => ~Usable \/ TurnedDown
    BY <2>1, Outcome, AllAgree DEF Agrees
  <2>2. Wraps => Panics
    BY Formats DEF Wraps, Panics, ProvedImage
  <2>3. ASSUME ~Wraps, Panicked PROVE Panics
    <3>1. layout.format = "hfs" /\ HfsSumOverflows
      BY <2>3, Outcome, Formats
    <3> QED BY <3>1 DEF Panics
  <2> QED BY <2>1, <2>2, <2>3 DEF OpensExactlyUsable
<1> QED BY <1>1, LayoutInvariance, PTL
=============================================================================
