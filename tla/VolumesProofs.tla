--------------------------- MODULE VolumesProofs ----------------------------
(***************************************************************************)
(* Proofs about Volumes, whatever the records of a disk say: the           *)
(* partitions of a volume system that opens do not share a byte and lie in *)
(* the room there is for them, they are the ones that the tables declare,  *)
(* and what opens is the first sector size at which the tables are sound.  *)
(***************************************************************************)
EXTENDS Volumes, FiniteSetTheorems, WellFoundedInduction, TLAPS

PartitionSet == [offset : Nat, size : Nat]

Types ==
  /\ disk \in DiskSet
  /\ attempt \in 1..Len(SizesOf(disk))
  /\ partitions \in Seq(PartitionSet)
  /\ base \in Nat /\ ebr \in Nat /\ last_end \in Nat /\ index \in Nat
  /\ checked \subseteq DOMAIN partitions

(* Where the loops of each kind of disk are, and what they start with.     *)
Phases ==
  /\ pc \in {"primary", "chain", "validate"} => disk.kind = "mbr"
  /\ pc = "primary" => 0 \in DOMAIN disk.headers
  /\ pc = "entries" => disk.kind = "gpt" /\ Bps \in DOMAIN disk.headers
  /\ pc = "open" /\ disk.kind # "apm" => partitions = <<>>
  /\ checked # {} => disk.kind = "mbr" /\ pc \in {"validate", "ok"}
  /\ pc = "ok" /\ disk.kind = "mbr" => checked = DOMAIN partitions

(* validate_partitions: those it has passed end before last_end, in the    *)
(* source, and are apart.                                                  *)
CheckedApart ==
  /\ \A i \in checked : End(partitions[i]) <= last_end /\ End(partitions[i]) <= disk.size
  /\ \A i, j \in checked : i # j => Disjoint(partitions[i], partitions[j])

(* The loops of GPT and APM: the partitions are in order, the next one     *)
(* begins no earlier than last_end, and all are in their room.             *)
ListedInOrder ==
  disk.kind # "mbr" =>
    /\ InOrder(partitions)
    /\ \A i \in DOMAIN partitions : End(partitions[i]) <= last_end * Bps
    /\ Inside(disk, Bps, partitions)

FitInv == Types /\ Phases /\ CheckedApart /\ ListedInOrder

LEMMA SizesType ==
  ASSUME NEW d
  PROVE  SizesOf(d) \in Seq(Nat \ {0}) /\ Len(SizesOf(d)) \in Nat \ {0}
<1>1. SectorSizes \in Seq(Nat \ {0}) /\ Len(SectorSizes) \in Nat \ {0}
  BY SectorSizesAssumption
<1>2. <<1>> \in Seq(Nat \ {0}) /\ Len(<<1>>) = 1
  OBVIOUS
<1>3. SizesOf(d) = <<1>> \/ SizesOf(d) = SectorSizes
  BY DEF SizesOf
<1>4. CASE SizesOf(d) = <<1>>
  BY <1>2, <1>4
<1>5. CASE SizesOf(d) = SectorSizes
  BY <1>1, <1>5
<1> QED BY <1>3, <1>4, <1>5

LEMMA BpsType ==
  ASSUME Types
  PROVE  Bps \in Nat /\ Bps > 0 /\ (disk.kind = "apm" => Bps = 1)
<1>1. attempt \in 1..Len(SizesOf(disk))
  BY DEF Types
<1>2. SizesOf(disk)[attempt] \in Nat \ {0}
  BY <1>1, SizesType
<1>3. disk.kind = "apm" => SizesOf(disk)[attempt] = 1
  BY <1>1 DEF SizesOf
<1> QED BY <1>2, <1>3 DEF Bps

LEMMA PartitionType ==
  ASSUME Types
  PROVE  \A i \in DOMAIN partitions :
           /\ i \in Nat
           /\ partitions[i].offset \in Nat
           /\ End(partitions[i]) \in Nat
           /\ partitions[i].offset <= End(partitions[i])
<1> SUFFICES ASSUME NEW i \in DOMAIN partitions
             PROVE  /\ i \in Nat
                    /\ partitions[i].offset \in Nat
                    /\ End(partitions[i]) \in Nat
                    /\ partitions[i].offset <= End(partitions[i])
  OBVIOUS
<1>1. partitions \in Seq(PartitionSet)
  BY DEF Types
<1>2. i \in Nat /\ partitions[i] \in PartitionSet
  BY <1>1
<1>3. partitions[i].offset \in Nat /\ partitions[i].size \in Nat
  BY <1>2 DEF PartitionSet
<1> QED BY <1>2, <1>3 DEF End

LEMMA Product ==
  ASSUME NEW a \in Nat, NEW s \in Nat
  PROVE  a * s \in Nat
OBVIOUS

LEMMA Scale ==
  ASSUME NEW a \in Nat, NEW b \in Nat, NEW s \in Nat, a <= b
  PROVE  a * s <= b * s /\ a * s \in Nat /\ b * s \in Nat
OBVIOUS

(* What a list is after one more partition.                                *)
LEMMA OneMore ==
  ASSUME NEW s \in Seq(PartitionSet), NEW p \in PartitionSet
  PROVE  /\ Append(s, p) \in Seq(PartitionSet)
         /\ DOMAIN Append(s, p) = 1..(Len(s) + 1)
         /\ DOMAIN s = 1..Len(s)
         /\ Len(s) \in Nat
         /\ Append(s, p)[Len(s) + 1] = p
         /\ \A i \in DOMAIN s : Append(s, p)[i] = s[i] /\ s[i] \in PartitionSet
OBVIOUS

(* An error ends the attempt with empty lists.                             *)
LEMMA RefuseInv ==
  ASSUME FitInv, Refuse
  PROVE  FitInv'
<1>1. /\ disk' = disk /\ partitions' = <<>> /\ checked' = {} /\ last_end' = 0
      /\ base' = 0 /\ ebr' = 0 /\ index' = 0
      /\ pc' \in {"open", "err"}
      /\ attempt' = attempt \/ (attempt < Len(SizesOf(disk)) /\ attempt' = attempt + 1)
  BY DEF Refuse
<1>2. Types'
  <2>1. attempt \in 1..Len(SizesOf(disk)) /\ Len(SizesOf(disk)) \in Nat
    BY SizesType DEF FitInv, Types
  <2>2. attempt' \in 1..Len(SizesOf(disk))
    BY <1>1, <2>1
  <2>3. SizesOf(disk)' = SizesOf(disk)
    BY <1>1 DEF SizesOf
  <2>4. disk \in DiskSet
    BY DEF FitInv, Types
  <2> QED BY <1>1, <2>2, <2>3, <2>4 DEF Types
<1>3. Phases'
  BY <1>1 DEF Phases
<1>4. CheckedApart'
  BY <1>1 DEF CheckedApart
<1>5. ListedInOrder'
  BY <1>1 DEF ListedInOrder, InOrder, Inside
<1> QED BY <1>2, <1>3, <1>4, <1>5 DEF FitInv

(* A step that keeps the lists, and only moves on.                         *)
LEMMA SameLists ==
  ASSUME FitInv, UNCHANGED <<disk, attempt, partitions, checked, last_end>>,
         base' \in Nat, ebr' \in Nat, index' \in Nat, Phases'
  PROVE  FitInv'
<1>1. Bps' = Bps /\ SizesOf(disk)' = SizesOf(disk)
  BY DEF Bps, SizesOf
<1>2. Types'
  BY <1>1 DEF FitInv, Types
<1>3. CheckedApart'
  BY DEF FitInv, CheckedApart
<1>4. ListedInOrder'
  BY <1>1 DEF FitInv, ListedInOrder
<1> QED BY <1>2, <1>3, <1>4 DEF FitInv

(* A partition of an MBR disk is added before any is checked.              *)
LEMMA AddMbr ==
  ASSUME FitInv, NEW p \in PartitionSet,
         disk.kind = "mbr", checked = {},
         partitions' = Append(partitions, p),
         UNCHANGED <<disk, attempt, checked, last_end>>,
         base' \in Nat, ebr' \in Nat, index' \in Nat, Phases'
  PROVE  FitInv'
<1>1. Bps' = Bps /\ SizesOf(disk)' = SizesOf(disk)
  BY DEF Bps, SizesOf
<1>2. partitions \in Seq(PartitionSet)
  BY DEF FitInv, Types
<1>3. partitions' \in Seq(PartitionSet)
  BY <1>2, OneMore
<1>4. Types'
  BY <1>1, <1>3 DEF FitInv, Types
<1>5. CheckedApart'
  BY DEF CheckedApart
<1>6. ListedInOrder'
  BY DEF ListedInOrder
<1> QED BY <1>4, <1>5, <1>6 DEF FitInv

(* A partition of a GPT or APM disk is added after the others, in the room *)
(* there is.                                                               *)
LEMMA AddInOrder ==
  ASSUME FitInv, NEW p \in PartitionSet,
         disk.kind # "mbr",
         partitions' = Append(partitions, p),
         UNCHANGED <<disk, attempt, checked>>,
         last_end' \in Nat,
         last_end * Bps <= p.offset, End(p) <= last_end' * Bps,
         Room(disk, Bps)[1] <= p.offset, End(p) <= Room(disk, Bps)[2],
         base' \in Nat, ebr' \in Nat, index' \in Nat, Phases',
         checked = {}
  PROVE  FitInv'
<1>1. Bps' = Bps /\ SizesOf(disk)' = SizesOf(disk) /\ Room(disk, Bps)' = Room(disk, Bps)
  BY DEF Bps, SizesOf, Room
<1>2. partitions \in Seq(PartitionSet)
  BY DEF FitInv, Types
<1>3. /\ partitions' \in Seq(PartitionSet)
      /\ DOMAIN partitions' = 1..(Len(partitions) + 1)
      /\ DOMAIN partitions = 1..Len(partitions)
      /\ Len(partitions) \in Nat
      /\ partitions'[Len(partitions) + 1] = p
      /\ \A i \in DOMAIN partitions : partitions'[i] = partitions[i] /\ partitions[i] \in PartitionSet
  BY <1>2, OneMore
<1>4. Types'
  BY <1>1, <1>3 DEF FitInv, Types
<1>5. CheckedApart'
  BY DEF CheckedApart
<1>6. /\ InOrder(partitions)
      /\ \A i \in DOMAIN partitions : End(partitions[i]) <= last_end * Bps
      /\ Inside(disk, Bps, partitions)
  BY DEF FitInv, ListedInOrder
<1>7. /\ Bps \in Nat /\ last_end * Bps \in Nat /\ last_end' * Bps \in Nat
      /\ p.offset \in Nat /\ End(p) \in Nat /\ p.offset <= End(p)
  <2>1. Bps \in Nat /\ last_end \in Nat
    BY BpsType DEF FitInv, Types
  <2>2. last_end * Bps \in Nat /\ last_end' * Bps \in Nat
    BY <2>1, Product
  <2>3. p.offset \in Nat /\ p.size \in Nat
    BY DEF PartitionSet
  <2>4. End(p) \in Nat /\ p.offset <= End(p)
    BY <2>3 DEF End
  <2> QED BY <2>1, <2>2, <2>3, <2>4
<1>8. \A i \in DOMAIN partitions : End(partitions[i]) \in Nat
  BY <1>3 DEF End, PartitionSet
<1>9. \A i \in DOMAIN partitions' : i \in DOMAIN partitions \/ i = Len(partitions) + 1
  BY <1>3
<1>10. InOrder(partitions')
  <2> SUFFICES ASSUME NEW i \in DOMAIN partitions', NEW j \in DOMAIN partitions', i < j
               PROVE  End(partitions'[i]) <= partitions'[j].offset
    BY DEF InOrder
  <2>1. i \in DOMAIN partitions
    BY <1>3, <1>9
  <2>2. CASE j \in DOMAIN partitions
    BY <1>3, <1>6, <2>1, <2>2 DEF InOrder
  <2>3. CASE j = Len(partitions) + 1
    <3>1. partitions'[j] = p /\ partitions'[i] = partitions[i]
      BY <1>3, <2>1, <2>3
    <3>2. End(partitions[i]) <= last_end * Bps
      BY <1>6, <2>1
    <3>3. End(partitions[i]) <= p.offset
      BY <1>7, <1>8, <2>1, <3>2
    <3> QED BY <3>1, <3>3
  <2> QED BY <1>9, <2>2, <2>3
<1>11. \A i \in DOMAIN partitions' : End(partitions'[i]) <= last_end' * Bps
  <2> SUFFICES ASSUME NEW i \in DOMAIN partitions' PROVE End(partitions'[i]) <= last_end' * Bps
    OBVIOUS
  <2>1. CASE i \in DOMAIN partitions
    <3>1. End(partitions[i]) <= last_end * Bps /\ partitions'[i] = partitions[i]
      BY <1>3, <1>6, <2>1
    <3> QED BY <1>7, <1>8, <2>1, <3>1
  <2>2. CASE i = Len(partitions) + 1
    BY <1>3, <2>2
  <2> QED BY <1>9, <2>1, <2>2
<1>12. Inside(disk, Bps, partitions')
  BY <1>3, <1>6, <1>9 DEF Inside
<1>13. ListedInOrder'
  BY <1>1, <1>10, <1>11, <1>12 DEF ListedInOrder, Inside
<1> QED BY <1>4, <1>5, <1>13 DEF FitInv

-----------------------------------------------------------------------------
(* Master Boot Record.                                                     *)
EntrySet == [type : STRING, start : Nat, sectors : Nat]

LEMMA MbrRecord ==
  ASSUME Types, disk.kind = "mbr", NEW o \in DOMAIN disk.headers
  PROVE  disk.headers[o] \in Seq(EntrySet)
<1>1. DiskOk(disk)
  BY DiskAssumption DEF Types
<1> QED BY <1>1 DEF DiskOk, EntrySet

LEMMA OnlyType ==
  ASSUME NEW record \in Seq(EntrySet), NEW places \in SUBSET DOMAIN record, places # {}
  PROVE  Only(record, places) \in EntrySet
<1>1. (CHOOSE i \in places : TRUE) \in places
  BY Zenon
<1>2. \A i \in DOMAIN record : record[i] \in EntrySet
  OBVIOUS
<1> QED BY <1>1, <1>2 DEF Only

LEMMA EntryPlace ==
  ASSUME Types, NEW e \in EntrySet, NEW from \in Nat
  PROVE  partition_from_entry(e, from) \in PartitionSet /\ from + e.start * Bps \in Nat
<1>1. Bps \in Nat /\ e.start \in Nat /\ e.sectors \in Nat
  BY BpsType DEF EntrySet
<1>2. e.start * Bps \in Nat /\ e.sectors * Bps \in Nat
  BY <1>1, Product
<1>3. from + e.start * Bps \in Nat
  BY <1>2
<1> QED BY <1>2, <1>3 DEF partition_from_entry, Partition, PartitionSet

LEMMA ReadBootRecordInv ==
  ASSUME FitInv, ReadBootRecord
  PROVE  FitInv'
<1>1. CASE Refuse
  BY <1>1, RefuseInv
<1>2. CASE ~Refuse
  <2> DEFINE record == disk.headers[0]
  <2>1. /\ disk.kind = "mbr" /\ 0 \in DOMAIN disk.headers /\ pc' = "primary"
        /\ base' = IF Links(record) = {} THEN base ELSE Only(record, Links(record)).start * Bps
        /\ ebr' = base'
        /\ UNCHANGED <<disk, attempt, partitions, visited, checked, last_end, index>>
        /\ pc = "open"
    BY <1>2 DEF ReadBootRecord, Records
  <2>2. Types
    BY DEF FitInv
  <2>3. record \in Seq(EntrySet)
    BY <2>1, <2>2, MbrRecord
  <2>4. Links(record) \in SUBSET DOMAIN record
    BY DEF Links
  <2> HIDE DEF record
  <2>5. base' \in Nat
    <3>1. CASE Links(record) = {}
      BY <2>1, <2>2, <3>1 DEF Types
    <3>2. CASE Links(record) # {}
      <4>1. Only(record, Links(record)) \in EntrySet
        BY <2>3, <2>4, <3>2, OnlyType
      <4>2. Only(record, Links(record)).start \in Nat /\ Bps \in Nat
        BY <2>2, <4>1, BpsType DEF EntrySet
      <4>3. Only(record, Links(record)).start * Bps \in Nat
        BY <4>2, Product
      <4> QED BY <2>1, <3>2, <4>3
    <3> QED BY <3>1, <3>2
  <2>6. Phases'
    BY <2>1 DEF FitInv, Phases
  <2>7. index' \in Nat /\ ebr' \in Nat
    BY <2>1, <2>2, <2>5 DEF Types
  <2> QED BY <2>1, <2>5, <2>6, <2>7, SameLists
<1> QED BY <1>1, <1>2

LEMMA ReadPrimaryInv ==
  ASSUME FitInv, ReadPrimary
  PROVE  FitInv'
<1> DEFINE e == disk.headers[0][index + 1]
           p == partition_from_entry(e, 0)
<1>1. /\ pc = "primary" /\ index < Len(disk.headers[0]) /\ index' = index + 1
      /\ partitions' = IF IsPartition(e) THEN Append(partitions, p) ELSE partitions
      /\ UNCHANGED <<disk, attempt, pc, base, ebr, visited, checked, last_end>>
  BY DEF ReadPrimary
<1>2. Types /\ disk.kind = "mbr" /\ 0 \in DOMAIN disk.headers /\ checked = {}
  BY <1>1 DEF FitInv, Phases
<1>3. disk.headers[0] \in Seq(EntrySet)
  BY <1>2, MbrRecord
<1>4. index \in Nat /\ base \in Nat /\ ebr \in Nat
  BY <1>2 DEF Types
<1>5. e \in EntrySet
  BY <1>1, <1>3, <1>4
<1> HIDE DEF e
<1>6. p \in PartitionSet
  BY <1>2, <1>5, EntryPlace
<1> HIDE DEF p
<1>7. Phases'
  BY <1>1, <1>2 DEF FitInv, Phases
<1>8. index' \in Nat /\ base' \in Nat /\ ebr' \in Nat
  BY <1>1, <1>4
<1>9. CASE partitions' = partitions
  BY <1>1, <1>7, <1>8, <1>9, SameLists
<1>10. CASE partitions' = Append(partitions, p)
  BY <1>1, <1>2, <1>6, <1>7, <1>8, <1>10, AddMbr
<1> QED BY <1>1, <1>9, <1>10

LEMMA EndPrimariesInv ==
  ASSUME FitInv, EndPrimaries
  PROVE  FitInv'
<1>1. /\ pc = "primary" /\ pc' \in {"validate", "chain"}
      /\ UNCHANGED <<disk, attempt, partitions, base, ebr, visited, checked, last_end, index>>
  BY DEF EndPrimaries, loop
<1>2. Phases'
  BY <1>1 DEF FitInv, Phases
<1>3. base' \in Nat /\ ebr' \in Nat /\ index' \in Nat
  BY <1>1 DEF FitInv, Types
<1> QED BY <1>1, <1>2, <1>3, SameLists

LEMMA ReadEbrInv ==
  ASSUME FitInv, ReadEbr
  PROVE  FitInv'
<1>1. CASE Refuse
  BY <1>1, RefuseInv
<1>2. CASE ~Refuse
  <2> DEFINE record == disk.headers[ebr]
             p == partition_from_entry(Only(record, Logicals(record)), ebr)
             link == Only(record, Links(record))
  <2>1. /\ pc = "chain" /\ ebr \in DOMAIN disk.headers
        /\ Cardinality(Logicals(record)) = 1
        /\ partitions' = Append(partitions, p)
        /\ pc' = IF Links(record) = {} THEN "validate" ELSE pc
        /\ ebr' = IF Links(record) = {} THEN ebr ELSE base + link.start * Bps
        /\ UNCHANGED <<disk, attempt, base, checked, last_end, index>>
    BY <1>2 DEF ReadEbr, EbrSound, Records, FollowEbr, NextEbr
  <2>2. Types /\ disk.kind = "mbr" /\ checked = {}
    BY <2>1 DEF FitInv, Phases
  <2>3. record \in Seq(EntrySet)
    BY <2>1, <2>2, MbrRecord
  <2> HIDE DEF record
  <2>4. Links(record) \in SUBSET DOMAIN record /\ Logicals(record) \in SUBSET DOMAIN record
    BY DEF Links, Logicals
  <2>5. Logicals(record) # {}
    <3>1. Cardinality(Logicals(record)) = 1
      BY <2>1
    <3>2. Cardinality({}) # 1
      BY FS_EmptySet
    <3> QED BY <3>1, <3>2
  <2>6. ebr \in Nat /\ base \in Nat /\ index \in Nat
    BY <2>2 DEF Types
  <2>7. p \in PartitionSet
    <3>1. Only(record, Logicals(record)) \in EntrySet
      BY <2>3, <2>4, <2>5, OnlyType
    <3> QED BY <2>2, <2>6, <3>1, EntryPlace
  <2>8. ebr' \in Nat
    <3>1. CASE Links(record) = {}
      BY <2>1, <2>6, <3>1
    <3>2. CASE Links(record) # {}
      <4>1. link \in EntrySet
        BY <2>3, <2>4, <3>2, OnlyType
      <4>2. base + link.start * Bps \in Nat
        BY <2>2, <2>6, <4>1, EntryPlace
      <4> QED BY <2>1, <3>2, <4>2
    <3> QED BY <3>1, <3>2
  <2> HIDE DEF p
  <2>9. Phases'
    <3>1. pc' \in {"validate", "chain"}
      BY <2>1
    <3> QED BY <2>1, <2>2, <3>1 DEF Phases
  <2>10. base' \in Nat /\ index' \in Nat
    BY <2>1, <2>6
  <2> QED BY <2>1, <2>2, <2>7, <2>8, <2>9, <2>10, AddMbr
<1> QED BY <1>1, <1>2

(* A set of natural numbers has a least member.                            *)
LEMMA Least ==
  ASSUME NEW T \in SUBSET Nat, T # {}
  PROVE  \E x \in T : \A y \in T : x <= y
<1> DEFINE R == OpToRel(<, Nat)
<1>1. IsWellFoundedOn(R, Nat)
  BY NatLessThanWellFounded
<1>2. \A x, y \in Nat : y < x => <<y, x>> \in R
  BY DEF OpToRel
<1> HIDE DEF R
<1>3. PICK x \in T : \A y \in T : ~ (<<y, x>> \in R)
  BY <1>1, WFMin
<1>4. \A y \in T : x <= y
  <2> SUFFICES ASSUME NEW y \in T PROVE x <= y
    OBVIOUS
  <2>1. x \in Nat /\ y \in Nat
    BY <1>3
  <2>2. ~(y < x)
    BY <1>2, <1>3, <2>1
  <2> QED BY <2>1, <2>2
<1> QED BY <1>3, <1>4

(* The loop of validate_partitions takes a partition it has not checked,   *)
(* and no other one begins before it.                                      *)
LEMMA NextIsUnchecked ==
  ASSUME Types, Unchecked # {}
  PROVE  /\ NextToCheck \in Unchecked
         /\ \A j \in Unchecked : partitions[NextToCheck].offset <= partitions[j].offset
<1> DEFINE offsets == {partitions[i].offset : i \in Unchecked}
<1>1. \A i \in Unchecked : i \in Nat /\ partitions[i].offset \in Nat
  BY PartitionType DEF Unchecked
<1>2. PICK low \in offsets : \A o \in offsets : low <= o
  <2>1. offsets \in SUBSET Nat /\ offsets # {}
    BY <1>1
  <2> QED BY <2>1, Least
<1> DEFINE lowest == {i \in Unchecked : partitions[i].offset = low}
<1>3. PICK first \in lowest : \A j \in lowest : first <= j
  <2>1. lowest \in SUBSET Nat /\ lowest # {}
    BY <1>1, <1>2
  <2> QED BY <2>1, Least
<1>4. \A j \in Unchecked : \/ partitions[first].offset < partitions[j].offset
                           \/ partitions[first].offset = partitions[j].offset /\ first <= j
  <2> SUFFICES ASSUME NEW j \in Unchecked
               PROVE  \/ partitions[first].offset < partitions[j].offset
                      \/ partitions[first].offset = partitions[j].offset /\ first <= j
    OBVIOUS
  <2>1. low <= partitions[j].offset /\ partitions[first].offset = low
    BY <1>2, <1>3
  <2>2. CASE partitions[j].offset = low
    BY <1>3, <2>1, <2>2
  <2>3. CASE partitions[j].offset # low
    BY <1>1, <1>3, <2>1, <2>3
  <2> QED BY <2>2, <2>3
<1>5. first \in Unchecked
  BY <1>3
<1>6. /\ NextToCheck \in Unchecked
      /\ \A j \in Unchecked :
           \/ partitions[NextToCheck].offset < partitions[j].offset
           \/ partitions[NextToCheck].offset = partitions[j].offset /\ NextToCheck <= j
  BY <1>4, <1>5, Zenon DEF NextToCheck
<1> QED BY <1>1, <1>6

LEMMA ValidatePartitionInv ==
  ASSUME FitInv, ValidatePartition
  PROVE  FitInv'
<1> DEFINE i == NextToCheck
<1>1. CASE Refuse
  BY <1>1, RefuseInv
<1>2. CASE ~Refuse
  <2>1. /\ pc = "validate" /\ Unchecked # {}
        /\ ~(partitions[i].offset < last_end) /\ ~(End(partitions[i]) > disk.size)
        /\ checked' = checked \cup {i}
        /\ last_end' = End(partitions[i])
        /\ UNCHANGED <<disk, attempt, pc, partitions, base, ebr, visited, index>>
    BY <1>2 DEF ValidatePartition
  <2>2. Types /\ CheckedApart /\ disk.kind = "mbr"
    BY <2>1 DEF FitInv, Phases
  <2>3. i \in Unchecked
    BY <2>1, <2>2, NextIsUnchecked
  <2> HIDE DEF i
  <2>4. i \in DOMAIN partitions /\ i \notin checked
    BY <2>3 DEF Unchecked
  <2>5. /\ \A j \in DOMAIN partitions : partitions[j].offset \in Nat /\ End(partitions[j]) \in Nat
        /\ partitions[i].offset <= End(partitions[i])
    BY <2>2, <2>4, PartitionType
  <2>6. last_end \in Nat /\ disk.size \in Nat /\ checked \subseteq DOMAIN partitions
    BY <2>2, DiskAssumption DEF Types, DiskOk
  <2>7. last_end <= partitions[i].offset /\ End(partitions[i]) <= disk.size
    BY <2>1, <2>4, <2>5, <2>6
  <2>8. last_end <= last_end'
    BY <2>1, <2>4, <2>5, <2>6, <2>7
  <2>9. Types'
    <3>1. SizesOf(disk)' = SizesOf(disk)
      BY <2>1 DEF SizesOf
    <3>2. checked' \subseteq DOMAIN partitions /\ last_end' \in Nat
      BY <2>1, <2>4, <2>5, <2>6
    <3> QED BY <2>1, <2>2, <3>1, <3>2 DEF Types
  <2>10. Phases'
    BY <2>1, <2>2 DEF FitInv, Phases
  <2>11. \A j \in checked' : End(partitions[j]) <= last_end' /\ End(partitions[j]) <= disk.size
    <3> SUFFICES ASSUME NEW j \in checked'
                 PROVE  End(partitions[j]) <= last_end' /\ End(partitions[j]) <= disk.size
      OBVIOUS
    <3>1. CASE j = i
      BY <2>1, <2>4, <2>5, <2>7, <3>1
    <3>2. CASE j \in checked
      <4>1. End(partitions[j]) <= last_end /\ End(partitions[j]) <= disk.size
        BY <2>2, <3>2 DEF CheckedApart
      <4>2. End(partitions[j]) \in Nat /\ last_end' \in Nat
        BY <2>1, <2>4, <2>5, <2>6, <3>2
      <4> QED BY <2>6, <2>8, <4>1, <4>2
    <3> QED BY <2>1, <3>1, <3>2
  <2>12. \A j, k \in checked' : j # k => Disjoint(partitions[j], partitions[k])
    <3>1. \A j \in checked : End(partitions[j]) <= partitions[i].offset
      <4> SUFFICES ASSUME NEW j \in checked PROVE End(partitions[j]) <= partitions[i].offset
        OBVIOUS
      <4>1. End(partitions[j]) <= last_end
        BY <2>2 DEF CheckedApart
      <4> QED BY <2>4, <2>5, <2>6, <2>7, <4>1
    <3>2. \A j, k \in checked : j # k => Disjoint(partitions[j], partitions[k])
      BY <2>2 DEF CheckedApart
    <3> QED BY <2>1, <3>1, <3>2 DEF Disjoint
  <2>13. CheckedApart'
    BY <2>1, <2>11, <2>12 DEF CheckedApart
  <2>14. ListedInOrder'
    BY <2>1, <2>2 DEF ListedInOrder
  <2> QED BY <2>9, <2>10, <2>13, <2>14 DEF FitInv
<1> QED BY <1>1, <1>2

LEMMA AllValidInv ==
  ASSUME FitInv, AllValid
  PROVE  FitInv'
<1>1. /\ pc = "validate" /\ pc' = "ok" /\ Unchecked = {}
      /\ UNCHANGED <<disk, attempt, partitions, base, ebr, visited, checked, last_end, index>>
  BY DEF AllValid, loop
<1>2. Types /\ disk.kind = "mbr"
  BY <1>1 DEF FitInv, Phases
<1>3. checked = DOMAIN partitions
  BY <1>1, <1>2 DEF Types, Unchecked
<1>4. Phases'
  BY <1>1, <1>2, <1>3 DEF FitInv, Phases
<1>5. base' \in Nat /\ ebr' \in Nat /\ index' \in Nat
  BY <1>1, <1>2 DEF Types
<1> QED BY <1>1, <1>4, <1>5, SameLists
-----------------------------------------------------------------------------
(* GUID partition table.                                                   *)
LEMMA ReadGptHeaderInv ==
  ASSUME FitInv, ReadGptHeader
  PROVE  FitInv'
<1>1. CASE Refuse
  BY <1>1, RefuseInv
<1>2. CASE ~Refuse
  <2>1. /\ pc = "open" /\ disk.kind = "gpt" /\ Bps \in DOMAIN disk.headers /\ pc' = "entries"
        /\ UNCHANGED <<disk, attempt, partitions, base, ebr, visited, checked, last_end, index>>
    BY <1>2 DEF ReadGptHeader, GptHeaderSound, HeaderAt, loop
  <2>2. Bps' = Bps
    BY <2>1 DEF Bps, SizesOf
  <2>3. Phases'
    BY <2>1, <2>2 DEF FitInv, Phases
  <2>4. base' \in Nat /\ ebr' \in Nat /\ index' \in Nat
    BY <2>1 DEF FitInv, Types
  <2> QED BY <2>1, <2>3, <2>4, SameLists
<1> QED BY <1>1, <1>2

(* A sound entry becomes a partition of the usable area, after the last    *)
(* one.                                                                    *)
LEMMA GptPlace ==
  ASSUME NEW s \in Nat, NEW first \in Nat, NEW last \in Nat,
         NEW low \in Nat, NEW high \in Nat, NEW before \in Nat,
         low <= first, first <= last, last <= high, before <= first,
         NEW p, p = Partition(first * s, (last - first + 1) * s)
  PROVE  /\ p \in PartitionSet
         /\ End(p) = (last + 1) * s
         /\ before * s <= p.offset /\ low * s <= p.offset /\ End(p) <= (high + 1) * s
<1>1. last - first + 1 \in Nat
  OBVIOUS
<1>2. first * s \in Nat /\ (last - first + 1) * s \in Nat
  BY <1>1, Product
<1>3. p.offset = first * s /\ p.size = (last - first + 1) * s /\ p \in PartitionSet
  BY <1>2 DEF Partition, PartitionSet
<1>4. first * s + (last - first + 1) * s = (last + 1) * s
  OBVIOUS
<1>5. before * s <= first * s /\ low * s <= first * s
  BY Scale
<1>6. (last + 1) * s <= (high + 1) * s
  <2>1. last + 1 \in Nat /\ high + 1 \in Nat /\ last + 1 <= high + 1
    OBVIOUS
  <2> QED BY <2>1, Scale
<1>7. End(p) = (last + 1) * s
  BY <1>3, <1>4 DEF End
<1> QED BY <1>3, <1>5, <1>6, <1>7

LEMMA ReadGptEntryInv ==
  ASSUME FitInv, ReadGptEntry
  PROVE  FitInv'
<1>1. CASE Refuse
  BY <1>1, RefuseInv
<1>2. CASE ~Refuse
  <2> DEFINE h == disk.headers[Bps]
             o == GptEntryOffset(h, Bps, index)
             e == disk.entries[o]
             p == Partition(e.start * Bps, (e.end - e.start + 1) * Bps)
  <2>1. /\ pc = "entries" /\ disk.kind = "gpt"
        /\ o \in DOMAIN disk.entries
        /\ e.used => GptEntrySound(h, e)
        /\ index' = index + 1
        /\ partitions' = IF e.used THEN Append(partitions, p) ELSE partitions
        /\ last_end' = IF e.used THEN e.end + 1 ELSE last_end
        /\ UNCHANGED <<disk, attempt, pc, base, ebr, visited, checked>>
    BY <1>2 DEF ReadGptEntry, GptReadable
  <2>2. Types /\ Bps \in DOMAIN disk.headers /\ checked = {}
    BY <2>1 DEF FitInv, Phases
  <2>3. DiskOk(disk)
    BY <2>2, DiskAssumption DEF Types
  <2>4. /\ h.area_start \in Nat /\ h.area_end \in Nat
        /\ e.start \in Nat /\ e.end \in Nat
    BY <2>1, <2>2, <2>3 DEF DiskOk
  <2>5. Bps \in Nat /\ last_end \in Nat /\ index' \in Nat /\ base' \in Nat /\ ebr' \in Nat
    BY <2>1, <2>2, BpsType DEF Types
  <2>6. Room(disk, Bps) = <<h.area_start * Bps, (h.area_end + 1) * Bps>>
    BY <2>1 DEF Room
  <2> HIDE DEF h, o, e
  <2>7. Bps' = Bps
    BY <2>1 DEF Bps, SizesOf
  <2>8. Phases'
    BY <2>1, <2>2, <2>7 DEF FitInv, Phases
  <2>9. CASE ~e.used
    BY <2>1, <2>5, <2>8, <2>9, SameLists
  <2>10. CASE e.used
    <3>1. h.area_start <= e.start /\ e.end <= h.area_end /\ e.start <= e.end /\ ~(e.start < last_end)
      BY <2>1, <2>10 DEF GptEntrySound, GptEntryInArea, Overlaps
    <3>2. last_end <= e.start
      BY <2>4, <2>5, <3>1
    <3>3. /\ p \in PartitionSet
          /\ End(p) = (e.end + 1) * Bps
          /\ last_end * Bps <= p.offset
          /\ h.area_start * Bps <= p.offset /\ End(p) <= (h.area_end + 1) * Bps
      BY <2>4, <2>5, <3>1, <3>2, GptPlace
    <3> HIDE DEF p
    <3>4. /\ partitions' = Append(partitions, p) /\ last_end' = e.end + 1 /\ last_end' \in Nat
      BY <2>1, <2>4, <2>10
    <3>5. End(p) <= last_end' * Bps
      <4>1. last_end' * Bps \in Nat /\ End(p) = last_end' * Bps
        BY <2>5, <3>3, <3>4, Product
      <4> QED BY <4>1
    <3>6. Room(disk, Bps)[1] <= p.offset /\ End(p) <= Room(disk, Bps)[2]
      BY <2>6, <3>3
    <3>7. disk.kind # "mbr"
      BY <2>1
    <3>8. UNCHANGED <<disk, attempt, checked>>
      BY <2>1
    <3> QED BY <2>2, <2>5, <2>8, <3>3, <3>4, <3>5, <3>6, <3>7, <3>8, AddInOrder
  <2> QED BY <2>9, <2>10
<1> QED BY <1>1, <1>2

LEMMA CheckGptTableInv ==
  ASSUME FitInv, CheckGptTable
  PROVE  FitInv'
<1>1. CASE Refuse
  BY <1>1, RefuseInv
<1>2. CASE ~Refuse
  <2>1. /\ pc = "entries" /\ disk.kind = "gpt" /\ pc' = "ok"
        /\ UNCHANGED <<disk, attempt, partitions, base, ebr, visited, checked, last_end, index>>
    BY <1>2 DEF CheckGptTable, loop
  <2>2. Phases'
    BY <2>1 DEF FitInv, Phases
  <2>3. base' \in Nat /\ ebr' \in Nat /\ index' \in Nat
    BY <2>1 DEF FitInv, Types
  <2> QED BY <2>1, <2>2, <2>3, SameLists
<1> QED BY <1>1, <1>2
-----------------------------------------------------------------------------
(* Apple partition map.                                                    *)
LEMMA ReadApmEntryInv ==
  ASSUME FitInv, ReadApmEntry
  PROVE  FitInv'
<1>1. CASE Refuse
  BY <1>1, RefuseInv
<1>2. CASE ~Refuse
  <2> DEFINE e == disk.entries[index + 1]
             p == Partition(e.start, e.sectors)
  <2>1. /\ pc = "open" /\ disk.kind = "apm"
        /\ index + 1 \in DOMAIN disk.entries
        /\ ApmEntrySound(e)
        /\ index' = index + 1
        /\ pc' \in {"open", "ok"}
        /\ partitions' = IF index = 0 THEN partitions ELSE Append(partitions, p)
        /\ last_end' = IF index = 0 THEN last_end ELSE e.start + e.sectors
        /\ UNCHANGED <<disk, attempt, base, ebr, visited, checked>>
    BY <1>2 DEF ReadApmEntry, ApmReadable
  <2>2. Types /\ checked = {}
    BY <2>1 DEF FitInv, Phases
  <2>3. DiskOk(disk)
    BY <2>2, DiskAssumption DEF Types
  <2>4. e.start \in Nat /\ e.sectors \in Nat /\ disk.size \in Nat
    BY <2>1, <2>3 DEF DiskOk
  <2>5. Bps = 1 /\ last_end \in Nat /\ index' \in Nat /\ base' \in Nat /\ ebr' \in Nat
    BY <2>1, <2>2, BpsType DEF Types
  <2> HIDE DEF e
  <2>6. Phases'
    BY <2>1, <2>2 DEF FitInv, Phases
  <2>7. CASE index = 0
    BY <2>1, <2>5, <2>6, <2>7, SameLists
  <2>8. CASE index # 0
    <3>1. ~(e.start < last_end) /\ e.start + e.sectors <= disk.size
      BY <2>1, <2>8 DEF ApmEntrySound, Overlaps
    <3>2. /\ p \in PartitionSet /\ p.offset = e.start /\ End(p) = e.start + e.sectors
      BY <2>4 DEF Partition, PartitionSet, End
    <3> HIDE DEF p
    <3>3. partitions' = Append(partitions, p) /\ last_end' = e.start + e.sectors
      BY <2>1, <2>8
    <3>4. last_end' \in Nat /\ last_end * Bps <= p.offset /\ End(p) <= last_end' * Bps
      BY <2>4, <2>5, <3>1, <3>2, <3>3
    <3>5. Room(disk, Bps) = <<0, disk.size>>
      BY <2>1 DEF Room
    <3>6. Room(disk, Bps)[1] <= p.offset /\ End(p) <= Room(disk, Bps)[2]
      BY <2>4, <3>1, <3>2, <3>5
    <3>7. disk.kind # "mbr" /\ UNCHANGED <<disk, attempt, checked>>
      BY <2>1
    <3> QED BY <2>2, <2>5, <2>6, <3>2, <3>3, <3>4, <3>6, <3>7, AddInOrder
  <2> QED BY <2>7, <2>8
<1> QED BY <1>1, <1>2
-----------------------------------------------------------------------------
LEMMA FitInit ==
  ASSUME Init
  PROVE  FitInv
<1>1. /\ disk \in DiskSet /\ attempt = 1 /\ pc = "open" /\ partitions = <<>>
      /\ base = 0 /\ ebr = 0 /\ checked = {} /\ last_end = 0 /\ index = 0
  BY DEF Init, Fresh
<1>2. Types
  <2>1. 1 \in 1..Len(SizesOf(disk))
    BY SizesType
  <2> QED BY <1>1, <2>1 DEF Types
<1>3. Phases /\ CheckedApart
  BY <1>1 DEF Phases, CheckedApart
<1>4. ListedInOrder
  BY <1>1 DEF ListedInOrder, InOrder, Inside
<1> QED BY <1>2, <1>3, <1>4 DEF FitInv

(* A stuttering step.                                                      *)
LEMMA FitStutter ==
  ASSUME FitInv, UNCHANGED vars
  PROVE  FitInv'
<1>1. UNCHANGED <<disk, attempt, pc, partitions, base, ebr, visited, checked, last_end, index>>
  BY DEF vars, loop
<1>2. Bps' = Bps
  BY <1>1 DEF Bps, SizesOf
<1>3. Phases'
  BY <1>1, <1>2 DEF FitInv, Phases
<1>4. base' \in Nat /\ ebr' \in Nat /\ index' \in Nat
  BY <1>1 DEF FitInv, Types
<1> QED BY <1>1, <1>3, <1>4, SameLists

(* In order is apart.                                                      *)
LEMMA InOrderIsApart ==
  ASSUME NEW ps \in Seq(PartitionSet), InOrder(ps)
  PROVE  Apart(ps)
<1> SUFFICES ASSUME NEW i \in DOMAIN ps, NEW j \in DOMAIN ps, i # j
             PROVE  Disjoint(ps[i], ps[j])
  BY DEF Apart
<1>1. i < j \/ j < i
  OBVIOUS
<1> QED BY <1>1 DEF InOrder, Disjoint

LEMMA FitFits ==
  ASSUME FitInv
  PROVE  PartitionsFit
<1> SUFFICES ASSUME pc = "ok" PROVE Apart(partitions) /\ Inside(disk, Bps, partitions)
  BY DEF PartitionsFit
<1>1. CASE disk.kind = "mbr"
  <2>1. checked = DOMAIN partitions /\ CheckedApart
    BY <1>1 DEF FitInv, Phases
  <2>2. Room(disk, Bps) = <<0, disk.size>>
    BY <1>1 DEF Room
  <2>3. \A i \in DOMAIN partitions : partitions[i].offset \in Nat
    BY PartitionType DEF FitInv
  <2>4. Inside(disk, Bps, partitions)
    BY <2>1, <2>2, <2>3 DEF Inside, CheckedApart
  <2>5. Apart(partitions)
    BY <2>1 DEF Apart, CheckedApart
  <2> QED BY <2>4, <2>5
<1>2. CASE disk.kind # "mbr"
  <2>1. InOrder(partitions) /\ Inside(disk, Bps, partitions) /\ partitions \in Seq(PartitionSet)
    BY <1>2 DEF FitInv, ListedInOrder, Types
  <2> QED BY <2>1, InOrderIsApart
<1> QED BY <1>1, <1>2

(* On every disk, of any size and with any tables, however long its chain  *)
(* of extended boot records, the partitions of a volume system that opens  *)
(* share no byte and lie in the source or in the usable area: what         *)
(* validate_partitions and the loops over the GPT and APM entries are for. *)
THEOREM Fit == VolumesSpec => []PartitionsFit
<1>1. Init => FitInv
  BY FitInit
<1>2. FitInv /\ [VolumesNext]_vars => FitInv'
  <2> SUFFICES ASSUME FitInv, [VolumesNext]_vars PROVE FitInv'
    OBVIOUS
  <2>1. CASE MbrNext
    BY <2>1, ReadBootRecordInv, ReadPrimaryInv, EndPrimariesInv, ReadEbrInv, ValidatePartitionInv,
       AllValidInv DEF MbrNext
  <2>2. CASE GptNext
    BY <2>2, ReadGptHeaderInv, ReadGptEntryInv, CheckGptTableInv DEF GptNext
  <2>3. CASE ReadApmEntry
    BY <2>3, ReadApmEntryInv
  <2>4. CASE UNCHANGED vars
    BY <2>4, FitStutter
  <2> QED BY <2>1, <2>2, <2>3, <2>4 DEF VolumesNext
<1>3. FitInv => PartitionsFit
  BY FitFits
<1> QED BY <1>1, <1>2, <1>3, PTL DEF VolumesSpec

-----------------------------------------------------------------------------
(* The second result: what opens is what the tables declare, and an        *)
(* attempt is refused only when its sector size makes no sense of them.    *)

(* Every sector size before this one, and on an error this one too, makes  *)
(* no sense.                                                               *)
Refused ==
  /\ \A i \in 1..attempt - 1 : ~Sound(disk, SizesOf(disk)[i])
  /\ pc = "err" => attempt = Len(SizesOf(disk)) /\ ~Sound(disk, Bps)

(* Nothing of a refused attempt is left.                                   *)
Begun ==
  disk.kind # "apm" =>
    /\ pc \in {"open", "primary"} => visited = {} /\ last_end = 0
    /\ pc = "open" => index = 0

(* No boot record gives an empty partition.                                *)
NotEmpty == disk.kind = "mbr" => \A i \in DOMAIN partitions : partitions[i].size > 0

(* ps is what the first k places of a table say.                           *)
ReadSoFar(ps, f, S, k) ==
  /\ Len(ps) = Rank(S, k)
  /\ \A i \in DOMAIN ps : \E n \in S : n <= k /\ Rank(S, n) = i /\ ps[i] = f[n]

PrimaryWalk ==
  pc = "primary" =>
    /\ BootSound(disk)
    /\ index <= Len(disk.headers[0])
    /\ ReadSoFar(partitions, BootTable(disk, Bps), Logicals(disk.headers[0]), index)
    /\ Links(disk.headers[0]) # {} => base = LinkOf(disk, Bps, 0) /\ ebr = base

(* The partitions are the primary ones and those of the first k records of *)
(* the path.                                                               *)
FollowedTo(ps, d, s, k) ==
  /\ Len(ps) = Len(Primaries(d, s)) + k
  /\ \A i \in 1..Len(Primaries(d, s)) : ps[i] = Primaries(d, s)[i]
  /\ \A i \in 1..k : ps[Len(Primaries(d, s)) + i] = LogicalAt(d, s, Path(d, s)[i])

ChainWalk ==
  pc = "chain" =>
    /\ BootSound(disk) /\ last_end = 0
    /\ Links(disk.headers[0]) # {} /\ base = LinkOf(disk, Bps, 0)
    /\ IsFiniteSet(visited) /\ Cardinality(visited) <= MaxLogical
    /\ visited = {Path(disk, Bps)[i] : i \in 1..Cardinality(visited)}
    /\ \A i \in 1..Cardinality(visited) : Path(disk, Bps)[i] # -1 /\ EbrSound(disk, Path(disk, Bps)[i])
    /\ Path(disk, Bps)[Cardinality(visited) + 1] = ebr
    /\ FollowedTo(partitions, disk, Bps, Cardinality(visited))

ValidateWalk ==
  pc = "validate" =>
    /\ BootSound(disk) /\ ChainSound(disk, Bps)
    /\ partitions = MbrDeclared(disk, Bps)
    /\ last_end = 0 \/ \E i \in checked : last_end = End(partitions[i])
    /\ \A i \in checked, j \in Unchecked : partitions[i].offset <= partitions[j].offset

EntryWalk ==
  pc = "entries" =>
    /\ GptHeaderSound(disk, Bps)
    /\ index <= disk.headers[Bps].number
    /\ ReadSoFar(partitions, GptTable(disk, Bps), GptUsed(disk, Bps), index)
    /\ \A n \in 1..index :
         GptReadable(disk, disk.headers[Bps], GptEntryOffset(disk.headers[Bps], Bps, n - 1))
    /\ \A n \in GptUsed(disk, Bps) :
         n <= index => GptEntryInArea(disk.headers[Bps], GptEntryOf(disk, Bps, n), Bps)
    /\ last_end = 0 \/ (partitions # <<>> /\ last_end * Bps = End(partitions[Len(partitions)]))

MapWalk ==
  pc = "open" /\ disk.kind = "apm" =>
    /\ index = 0 => partitions = <<>> /\ last_end = 0
    /\ index > 0 =>
         /\ ApmReadable(disk, 0) /\ disk.entries[1].type = "map"
         /\ index < disk.entries[1].number
         /\ Len(partitions) = index - 1
         /\ \A n \in 1..index - 1 :
              /\ ApmReadable(disk, n) /\ disk.entries[n + 1].number = disk.entries[1].number
              /\ partitions[n] = ApmDeclared(disk)[n]
         /\ last_end = 0 \/ (index > 1 /\ last_end = End(partitions[index - 1]))

Opened == pc = "ok" => Sound(disk, Bps) /\ partitions = DeclaredPartitions(disk, Bps)

MbrWalks == PrimaryWalk /\ ChainWalk /\ ValidateWalk
TableInv == FitInv /\ Refused /\ Begun /\ NotEmpty /\ MbrWalks /\ EntryWalk /\ MapWalk /\ Opened

-----------------------------------------------------------------------------
(* Places of a table and their ranks.                                      *)
LEMMA RankType ==
  ASSUME NEW S, IsFiniteSet(S), NEW n
  PROVE  /\ IsFiniteSet({m \in S : m <= n})
         /\ Rank(S, n) \in Nat /\ Cardinality(S) \in Nat /\ Rank(S, n) <= Cardinality(S)
<1>1. {m \in S : m <= n} \subseteq S
  OBVIOUS
<1>2. /\ IsFiniteSet({m \in S : m <= n})
      /\ Cardinality({m \in S : m <= n}) <= Cardinality(S)
  BY <1>1, FS_Subset
<1> QED BY <1>2, FS_CardinalityType DEF Rank

LEMMA RankNext ==
  ASSUME NEW S \in SUBSET Nat, IsFiniteSet(S), NEW k \in Nat
  PROVE  /\ k + 1 \in S => Rank(S, k + 1) = Rank(S, k) + 1
         /\ k + 1 \notin S => Rank(S, k + 1) = Rank(S, k)
<1> DEFINE T == {m \in S : m <= k}
<1>0. \A m \in S : m \in Nat /\ (m <= k + 1 <=> m <= k \/ m = k + 1)
  OBVIOUS
<1>1. IsFiniteSet(T)
  BY RankType
<1>2. CASE k + 1 \in S
  <2>1. {m \in S : m <= k + 1} = T \cup {k + 1}
    BY <1>0, <1>2
  <2>2. k + 1 \notin T
    OBVIOUS
  <2> HIDE DEF T
  <2>3. Cardinality(T \cup {k + 1}) = Cardinality(T) + 1
    BY <1>1, <2>2, FS_AddElement
  <2> QED BY <1>2, <2>1, <2>3 DEF Rank, T
<1>3. CASE k + 1 \notin S
  <2>1. {m \in S : m <= k + 1} = T
    BY <1>0, <1>3
  <2> QED BY <1>3, <2>1 DEF Rank
<1> QED BY <1>2, <1>3

LEMMA RankGrows ==
  ASSUME NEW S \in SUBSET Nat, IsFiniteSet(S), NEW m \in S, NEW n \in S, m < n
  PROVE  Rank(S, m) < Rank(S, n)
<1> DEFINE A == {i \in S : i <= m}
           B == {i \in S : i <= n}
<1>1. IsFiniteSet(B) /\ Cardinality(A) \in Nat /\ Cardinality(B) \in Nat
  BY RankType DEF Rank
<1>2. A \subseteq B /\ n \in B /\ n \notin A
  <2>1. m \in Nat /\ n \in Nat /\ \A i \in S : i \in Nat
    OBVIOUS
  <2>2. n <= n /\ ~(n <= m) /\ \A i \in S : i <= m => i <= n
    BY <2>1
  <2> QED BY <2>2
<1> HIDE DEF A, B
<1>3. Cardinality(A) <= Cardinality(B) /\ (Cardinality(A) = Cardinality(B) => A = B)
  BY <1>1, <1>2, FS_Subset
<1>4. Cardinality(A) < Cardinality(B)
  BY <1>1, <1>2, <1>3
<1> QED BY <1>4 DEF Rank, A, B

LEMMA RankOwn ==
  ASSUME NEW S \in SUBSET Nat, IsFiniteSet(S), NEW n \in S
  PROVE  Rank(S, n) \in 1..Cardinality(S)
<1> DEFINE A == {i \in S : i <= n}
<1>1. IsFiniteSet(A) /\ Rank(S, n) \in Nat /\ Cardinality(S) \in Nat /\ Rank(S, n) <= Cardinality(S)
  BY RankType
<1>2. n \in A /\ Rank(S, n) = Cardinality(A)
  BY DEF Rank
<1> HIDE DEF A
<1>3. Cardinality(A) # 0
  BY <1>1, <1>2, FS_EmptySet
<1> QED BY <1>1, <1>2, <1>3

(* The member of the list at a place's rank is the table's at the place.   *)
LEMMA AtRank ==
  ASSUME NEW S \in SUBSET Nat, IsFiniteSet(S), NEW f, NEW n \in S
  PROVE  InTableOrder(f, S)[Rank(S, n)] = f[n]
<1>1. Rank(S, n) \in 1..Cardinality(S)
  BY RankOwn
<1>2. \A m \in S : Rank(S, m) = Rank(S, n) => m = n
  <2> SUFFICES ASSUME NEW m \in S, Rank(S, m) = Rank(S, n), m # n PROVE FALSE
    OBVIOUS
  <2>1. m < n \/ n < m
    OBVIOUS
  <2>2. Rank(S, m) < Rank(S, n) \/ Rank(S, n) < Rank(S, m)
    BY <2>1, RankGrows
  <2>3. Rank(S, m) \in Nat
    BY RankType
  <2> QED BY <2>2, <2>3
<1>3. (CHOOSE m \in S : Rank(S, m) = Rank(S, n)) = n
  BY <1>2
<1> QED BY <1>1, <1>3 DEF InTableOrder

(* A walk over the table.                                                  *)
LEMMA ReadStart ==
  ASSUME NEW S \in SUBSET (Nat \ {0}), NEW f
  PROVE  ReadSoFar(<<>>, f, S, 0)
<1>1. {m \in S : m <= 0} = {}
  <2>1. \A m \in S : m \in Nat /\ m # 0
    OBVIOUS
  <2>2. \A m \in S : ~(m <= 0)
    BY <2>1
  <2> QED BY <2>2
<1> QED BY <1>1, FS_EmptySet DEF ReadSoFar, Rank

LEMMA ReadUsed ==
  ASSUME NEW S \in SUBSET Nat, IsFiniteSet(S), NEW f, NEW k \in Nat, k + 1 \in S,
         NEW ps \in Seq(PartitionSet), f[k + 1] \in PartitionSet, ReadSoFar(ps, f, S, k)
  PROVE  ReadSoFar(Append(ps, f[k + 1]), f, S, k + 1)
<1> DEFINE qs == Append(ps, f[k + 1])
<1>1. Rank(S, k + 1) = Rank(S, k) + 1
  BY RankNext
<1>2. /\ qs \in Seq(PartitionSet) /\ DOMAIN qs = 1..(Len(ps) + 1) /\ DOMAIN ps = 1..Len(ps)
      /\ Len(ps) \in Nat /\ qs[Len(ps) + 1] = f[k + 1]
      /\ \A i \in DOMAIN ps : qs[i] = ps[i]
      /\ Len(qs) = Len(ps) + 1
  BY OneMore
<1> HIDE DEF qs
<1>3. Len(ps) = Rank(S, k)
  BY DEF ReadSoFar
<1>4. \A i \in DOMAIN qs : \E n \in S : n <= k + 1 /\ Rank(S, n) = i /\ qs[i] = f[n]
  <2> SUFFICES ASSUME NEW i \in DOMAIN qs
               PROVE  \E n \in S : n <= k + 1 /\ Rank(S, n) = i /\ qs[i] = f[n]
    OBVIOUS
  <2>1. CASE i = Len(ps) + 1
    BY <1>1, <1>2, <1>3, <2>1
  <2>2. CASE i \in DOMAIN ps
    <3>1. PICK n \in S : n <= k /\ Rank(S, n) = i /\ ps[i] = f[n]
      BY <2>2 DEF ReadSoFar
    <3>2. n <= k + 1 /\ qs[i] = f[n]
      BY <1>2, <2>2, <3>1
    <3> QED BY <3>1, <3>2
  <2>3. i = Len(ps) + 1 \/ i \in DOMAIN ps
    BY <1>2
  <2> QED BY <2>1, <2>2, <2>3
<1>5. Len(qs) = Rank(S, k + 1)
  BY <1>1, <1>2, <1>3
<1> QED BY <1>4, <1>5 DEF ReadSoFar, qs

LEMMA ReadUnused ==
  ASSUME NEW S \in SUBSET Nat, IsFiniteSet(S), NEW f, NEW k \in Nat, k + 1 \notin S,
         NEW ps, ReadSoFar(ps, f, S, k)
  PROVE  ReadSoFar(ps, f, S, k + 1)
<1>1. Rank(S, k + 1) = Rank(S, k)
  BY RankNext
<1>2. \A n \in S : n <= k => n <= k + 1
  OBVIOUS
<1> QED BY <1>1, <1>2 DEF ReadSoFar

(* What has been read is the beginning of the whole.                       *)
LEMMA ReadPrefix ==
  ASSUME NEW S \in SUBSET Nat, IsFiniteSet(S), NEW f, NEW k, NEW ps, ReadSoFar(ps, f, S, k)
  PROVE  \A i \in DOMAIN ps : i \in 1..Cardinality(S) /\ InTableOrder(f, S)[i] = ps[i]
<1> SUFFICES ASSUME NEW i \in DOMAIN ps
             PROVE  i \in 1..Cardinality(S) /\ InTableOrder(f, S)[i] = ps[i]
  OBVIOUS
<1>1. PICK n \in S : Rank(S, n) = i /\ ps[i] = f[n]
  BY DEF ReadSoFar
<1> QED BY <1>1, RankOwn, AtRank

LEMMA ReadAll ==
  ASSUME NEW k \in Nat, NEW S \in SUBSET (1..k), NEW f, NEW ps \in Seq(PartitionSet),
         ReadSoFar(ps, f, S, k)
  PROVE  ps = InTableOrder(f, S)
<1>1. IsFiniteSet(S)
  <2>1. IsFiniteSet(1..k)
    BY FS_Interval
  <2> QED BY <2>1, FS_Subset
<1>2. {m \in S : m <= k} = S
  <2>1. \A m \in S : m <= k
    OBVIOUS
  <2> QED BY <2>1
<1>3. Len(ps) = Cardinality(S)
  BY <1>2 DEF ReadSoFar, Rank
<1>4. DOMAIN ps = 1..Cardinality(S)
  BY <1>3
<1>5. S \in SUBSET Nat
  OBVIOUS
<1>6. \A i \in DOMAIN ps : InTableOrder(f, S)[i] = ps[i]
  BY <1>1, <1>5, ReadPrefix
<1>7. DOMAIN InTableOrder(f, S) = 1..Cardinality(S)
  BY DEF InTableOrder
<1>8. ps = [i \in 1..Cardinality(S) |-> ps[i]]
  BY <1>4
<1>9. InTableOrder(f, S) = [i \in 1..Cardinality(S) |-> InTableOrder(f, S)[i]]
  BY DEF InTableOrder
<1> QED BY <1>4, <1>6, <1>8, <1>9

-----------------------------------------------------------------------------
(* An attempt that the tables do not bear out is refused: the next sector  *)
(* size starts afresh.                                                     *)
LEMMA RefuseTables ==
  ASSUME TableInv, Refuse, ~Sound(disk, Bps)
  PROVE  TableInv'
<1>1. /\ disk' = disk /\ partitions' = <<>> /\ visited' = {} /\ last_end' = 0 /\ index' = 0
      /\ \/ attempt < Len(SizesOf(disk)) /\ attempt' = attempt + 1 /\ pc' = "open"
         \/ ~(attempt < Len(SizesOf(disk))) /\ attempt' = attempt /\ pc' = "err"
  BY DEF Refuse
<1>2. FitInv'
  BY RefuseInv DEF TableInv
<1>3. attempt \in 1..Len(SizesOf(disk)) /\ Len(SizesOf(disk)) \in Nat
  BY SizesType DEF TableInv, FitInv, Types
<1>4. SizesOf(disk') = SizesOf(disk)
  BY <1>1
<1>5. \A i \in 1..attempt - 1 : ~Sound(disk, SizesOf(disk)[i])
  BY DEF TableInv, Refused
<1>6. ~Sound(disk, SizesOf(disk)[attempt])
  BY DEF Bps
<1>7. Refused'
  <2>1. CASE attempt' = attempt + 1 /\ pc' = "open"
    <3>1. \A i \in 1..attempt' - 1 : i \in 1..attempt - 1 \/ i = attempt
      BY <1>3, <2>1
    <3>2. \A i \in 1..attempt' - 1 : ~Sound(disk, SizesOf(disk)[i])
      BY <1>5, <1>6, <3>1
    <3> QED BY <1>1, <2>1, <3>2 DEF Refused
  <2>2. CASE ~(attempt < Len(SizesOf(disk))) /\ attempt' = attempt /\ pc' = "err"
    <3>1. attempt = Len(SizesOf(disk))
      BY <1>3, <2>2
    <3>2. Bps' = Bps
      BY <1>1, <2>2 DEF Bps
    <3> QED BY <1>1, <1>5, <2>2, <3>1, <3>2 DEF Refused
  <2> QED BY <1>1, <2>1, <2>2
<1>8. Begun' /\ NotEmpty' /\ MbrWalks' /\ EntryWalk' /\ MapWalk' /\ Opened'
  BY <1>1 DEF Begun, NotEmpty, MbrWalks, PrimaryWalk, ChainWalk, ValidateWalk, EntryWalk, MapWalk, Opened
<1> QED BY <1>2, <1>7, <1>8 DEF TableInv

(* The attempt goes on: what was refused before is still refused.          *)
LEMMA GoesOn ==
  ASSUME TableInv, UNCHANGED <<disk, attempt>>, pc' # "err"
  PROVE  Refused' /\ Bps' = Bps /\ SizesOf(disk') = SizesOf(disk)
<1>1. Bps' = Bps /\ SizesOf(disk') = SizesOf(disk)
  BY DEF Bps
<1>2. Refused'
  BY <1>1 DEF TableInv, Refused
<1> QED BY <1>1, <1>2

LEMMA SoundOfKind ==
  ASSUME NEW d, NEW s
  PROVE  /\ d.kind = "mbr" => Sound(d, s) = MbrSound(d, s) /\ DeclaredPartitions(d, s) = MbrDeclared(d, s)
         /\ d.kind = "gpt" => Sound(d, s) = GptSound(d, s) /\ DeclaredPartitions(d, s) = GptDeclared(d, s)
         /\ d.kind = "apm" => Sound(d, s) = ApmSound(d) /\ DeclaredPartitions(d, s) = ApmDeclared(d)
BY DEF Sound, DeclaredPartitions
-----------------------------------------------------------------------------
(* GUID partition table.                                                   *)
LEMMA GptNumbers ==
  ASSUME Types, disk.kind = "gpt", Bps \in DOMAIN disk.headers
  PROVE  /\ disk.headers[Bps].number \in Nat
         /\ disk.headers[Bps].area_start \in Nat /\ disk.headers[Bps].area_end \in Nat
         /\ GptUsed(disk, Bps) \in SUBSET (1..disk.headers[Bps].number)
         /\ GptUsed(disk, Bps) \in SUBSET Nat
         /\ GptUsed(disk, Bps) \in SUBSET (Nat \ {0})
         /\ IsFiniteSet(GptUsed(disk, Bps))
         /\ \A o \in DOMAIN disk.entries : disk.entries[o].start \in Nat /\ disk.entries[o].end \in Nat
<1>1. DiskOk(disk)
  BY DiskAssumption DEF Types
<1>2. disk.headers[Bps].number \in Nat
  BY <1>1 DEF DiskOk
<1>3. GptUsed(disk, Bps) \in SUBSET (1..disk.headers[Bps].number)
  BY DEF GptUsed
<1>4. IsFiniteSet(1..disk.headers[Bps].number)
  BY <1>2, FS_Interval
<1>5. IsFiniteSet(GptUsed(disk, Bps))
  BY <1>3, <1>4, FS_Subset
<1>6. \A n \in 1..disk.headers[Bps].number : n \in Nat \ {0} /\ n \in Nat
  BY <1>2
<1>7. GptUsed(disk, Bps) \in SUBSET Nat /\ GptUsed(disk, Bps) \in SUBSET (Nat \ {0})
  BY <1>3, <1>6
<1>8. /\ disk.headers[Bps].area_start \in Nat /\ disk.headers[Bps].area_end \in Nat
      /\ \A o \in DOMAIN disk.entries : disk.entries[o].start \in Nat /\ disk.entries[o].end \in Nat
  BY <1>1 DEF DiskOk
<1> QED BY <1>2, <1>3, <1>5, <1>7, <1>8

LEMMA ReadGptHeaderTables ==
  ASSUME TableInv, ReadGptHeader
  PROVE  TableInv'
<1>1. pc = "open" /\ disk.kind = "gpt"
  BY DEF ReadGptHeader
<1>2. CASE ~GptHeaderSound(disk, Bps)
  <2>1. ~Sound(disk, Bps)
    BY <1>1, <1>2, SoundOfKind DEF GptSound
  <2> QED BY <1>2, <2>1, RefuseTables DEF ReadGptHeader
<1>3. CASE GptHeaderSound(disk, Bps)
  <2>1. /\ pc' = "entries"
        /\ UNCHANGED <<disk, attempt, partitions, base, ebr, visited, checked, last_end, index>>
    BY <1>3 DEF ReadGptHeader, loop
  <2>2. FitInv'
    BY ReadGptHeaderInv DEF TableInv
  <2>3. Refused' /\ Bps' = Bps
    BY <2>1, GoesOn
  <2>4. /\ index = 0 /\ last_end = 0 /\ partitions = <<>>
    BY <1>1 DEF TableInv, Begun, FitInv, Phases
  <2>5. Bps \in DOMAIN disk.headers /\ Types
    BY <1>3 DEF GptHeaderSound, HeaderAt, TableInv, FitInv
  <2>6. /\ disk.headers[Bps].number \in Nat
        /\ GptUsed(disk, Bps) \in SUBSET (Nat \ {0})
    BY <1>1, <2>5, GptNumbers
  <2>7. ReadSoFar(partitions, GptTable(disk, Bps), GptUsed(disk, Bps), index)
    BY <2>4, <2>6, ReadStart
  <2>8. \A n \in GptUsed(disk, Bps) : ~(n <= index)
    <3>1. \A n \in GptUsed(disk, Bps) : n \in Nat /\ n # 0
      BY <2>6
    <3> QED BY <2>4, <3>1
  <2>9. 1..index = {} /\ index <= disk.headers[Bps].number
    BY <2>4, <2>6
  <2>10. EntryWalk'
    BY <1>3, <2>1, <2>3, <2>4, <2>7, <2>8, <2>9 DEF EntryWalk
  <2>11. Begun' /\ NotEmpty' /\ MbrWalks' /\ MapWalk' /\ Opened'
    BY <1>1, <2>1 DEF Begun, NotEmpty, MbrWalks, PrimaryWalk, ChainWalk, ValidateWalk, MapWalk, Opened
  <2> QED BY <2>2, <2>3, <2>10, <2>11 DEF TableInv
<1> QED BY <1>2, <1>3


LEMMA ScaleStrict ==
  ASSUME NEW a \in Nat, NEW b \in Nat, NEW s \in Nat, s > 0, a < b
  PROVE  ~(b * s <= a * s)
<1>1. a + 1 \in Nat /\ a + 1 <= b
  OBVIOUS
<1>2. (a + 1) * s <= b * s
  BY <1>1, Scale
<1>3. (a + 1) * s = a * s + s
  OBVIOUS
<1>4. a * s \in Nat /\ b * s \in Nat
  BY Product
<1> QED BY <1>2, <1>3, <1>4

(* The entry that is read next: its place in the table and, if it is in    *)
(* use, in the list.                                                       *)
LEMMA NextGptEntry ==
  ASSUME TableInv, pc = "entries", index < disk.headers[Bps].number,
         NEW e, e = disk.entries[GptEntryOffset(disk.headers[Bps], Bps, index)]
  PROVE  /\ index + 1 \in 1..disk.headers[Bps].number
         /\ (index + 1) - 1 = index
         /\ GptEntryOf(disk, Bps, index + 1) = e
         /\ index + 1 \in GptUsed(disk, Bps) <=> e.used
         /\ GptTable(disk, Bps)[index + 1] = GptPartition(e, Bps)
         /\ e.used => /\ Len(partitions) + 1 \in 1..Cardinality(GptUsed(disk, Bps))
                      /\ GptDeclared(disk, Bps)[Len(partitions) + 1] = GptPartition(e, Bps)
         /\ \A i \in DOMAIN partitions :
              i \in 1..Cardinality(GptUsed(disk, Bps)) /\ GptDeclared(disk, Bps)[i] = partitions[i]
<1>1. Types /\ disk.kind = "gpt" /\ Bps \in DOMAIN disk.headers
  BY DEF TableInv, FitInv, Phases
<1>2. /\ disk.headers[Bps].number \in Nat
      /\ GptUsed(disk, Bps) \in SUBSET Nat
      /\ IsFiniteSet(GptUsed(disk, Bps))
  BY <1>1, GptNumbers
<1>3. index \in Nat
  BY <1>1 DEF Types
<1>4. index + 1 \in 1..disk.headers[Bps].number /\ (index + 1) - 1 = index
  BY <1>2, <1>3
<1>5. GptEntryOf(disk, Bps, index + 1) = e
  BY <1>4 DEF GptEntryOf
<1>6. index + 1 \in GptUsed(disk, Bps) <=> e.used
  BY <1>4, <1>5 DEF GptUsed
<1>7. GptTable(disk, Bps)[index + 1] = GptPartition(e, Bps)
  BY <1>4, <1>5 DEF GptTable
<1>8. ReadSoFar(partitions, GptTable(disk, Bps), GptUsed(disk, Bps), index)
  BY DEF TableInv, EntryWalk
<1> DEFINE S == GptUsed(disk, Bps)
           f == GptTable(disk, Bps)
<1>9. GptDeclared(disk, Bps) = InTableOrder(f, S)
  BY DEF GptDeclared
<1> HIDE DEF S, f
<1>10. ASSUME e.used
       PROVE  Len(partitions) + 1 \in 1..Cardinality(S) /\ InTableOrder(f, S)[Len(partitions) + 1] = f[index + 1]
  <2>1. S \in SUBSET Nat /\ IsFiniteSet(S) /\ index + 1 \in S
    BY <1>2, <1>6, <1>10 DEF S
  <2>2. Rank(S, index + 1) = Rank(S, index) + 1
    BY <1>3, <2>1, RankNext
  <2>3. Len(partitions) = Rank(S, index)
    BY <1>8 DEF ReadSoFar, S
  <2>4. Rank(S, index + 1) \in 1..Cardinality(S) /\ InTableOrder(f, S)[Rank(S, index + 1)] = f[index + 1]
    BY <2>1, RankOwn, AtRank
  <2> QED BY <2>2, <2>3, <2>4
<1>11. \A i \in DOMAIN partitions : i \in 1..Cardinality(S) /\ InTableOrder(f, S)[i] = partitions[i]
  <2>1. S \in SUBSET Nat /\ IsFiniteSet(S) /\ ReadSoFar(partitions, f, S, index)
    BY <1>2, <1>8 DEF S, f
  <2> QED BY <2>1, ReadPrefix
<1> QED BY <1>4, <1>5, <1>6, <1>7, <1>9, <1>10, <1>11 DEF S, f

(* An entry that is refused makes the table unsound: one that overlaps     *)
(* follows, in the list, the partition it overlaps.                        *)
LEMMA GptEntryRefused ==
  ASSUME TableInv, pc = "entries", index < disk.headers[Bps].number,
         NEW e, e = disk.entries[GptEntryOffset(disk.headers[Bps], Bps, index)],
         \/ ~GptReadable(disk, disk.headers[Bps], GptEntryOffset(disk.headers[Bps], Bps, index))
         \/ e.used /\ ~GptEntrySound(disk.headers[Bps], e)
  PROVE  ~GptSound(disk, Bps)
<1> SUFFICES ASSUME GptSound(disk, Bps) PROVE FALSE
  OBVIOUS
<1> DEFINE h == disk.headers[Bps]
           o == GptEntryOffset(h, Bps, index)
           G == GptDeclared(disk, Bps)
           L == Len(partitions)
<1>1. /\ index + 1 \in 1..h.number
      /\ (index + 1) - 1 = index
      /\ GptEntryOf(disk, Bps, index + 1) = e
      /\ index + 1 \in GptUsed(disk, Bps) <=> e.used
      /\ e.used => L + 1 \in 1..Cardinality(GptUsed(disk, Bps)) /\ G[L + 1] = GptPartition(e, Bps)
      /\ \A i \in DOMAIN partitions : i \in 1..Cardinality(GptUsed(disk, Bps)) /\ G[i] = partitions[i]
  BY NextGptEntry
<1>2. Types /\ disk.kind = "gpt" /\ Bps \in DOMAIN disk.headers
  BY DEF TableInv, FitInv, Phases
<1>3. \A n \in 1..h.number : GptReadable(disk, h, GptEntryOffset(h, Bps, n - 1))
  BY DEF GptSound
<1>4. GptReadable(disk, h, o)
  BY <1>1, <1>3
<1>5. e.used /\ ~GptEntrySound(h, e) /\ index + 1 \in GptUsed(disk, Bps)
  BY <1>1, <1>4
<1>6. GptEntryInArea(h, e, Bps)
  BY <1>1, <1>5 DEF GptSound
<1>7. e.start < last_end
  BY <1>5, <1>6 DEF GptEntrySound, Overlaps
<1>8. e.start \in Nat /\ last_end \in Nat /\ Bps \in Nat /\ Bps > 0
  <2>1. o \in DOMAIN disk.entries
    BY <1>4 DEF GptReadable
  <2>2. e.start \in Nat
    BY <1>2, <2>1, GptNumbers
  <2> QED BY <1>2, <2>2, BpsType DEF Types
<1>9. partitions # <<>> /\ last_end * Bps = End(partitions[L])
  <2>1. last_end # 0
    BY <1>7, <1>8
  <2> QED BY <2>1 DEF TableInv, EntryWalk
<1>10. L \in DOMAIN partitions /\ L \in Nat
  <2>1. partitions \in Seq(PartitionSet)
    BY <1>2 DEF Types
  <2> QED BY <1>9, <2>1
<1>11. L \in DOMAIN G /\ L + 1 \in DOMAIN G /\ L < L + 1 /\ G[L] = partitions[L] /\ G[L + 1] = GptPartition(e, Bps)
  <2>1. DOMAIN G = 1..Cardinality(GptUsed(disk, Bps))
    BY DEF GptDeclared, InTableOrder
  <2> QED BY <1>1, <1>5, <1>10, <2>1
<1>12. InOrder(G)
  BY DEF GptSound
<1> HIDE DEF G, L, h, o
<1>13. End(G[L]) <= G[L + 1].offset
  BY <1>11, <1>12 DEF InOrder
<1>14. G[L + 1].offset = e.start * Bps
  BY <1>11 DEF GptPartition, Partition
<1>15. last_end * Bps <= e.start * Bps
  BY <1>9, <1>11, <1>13, <1>14
<1> QED BY <1>7, <1>8, <1>15, ScaleStrict

LEMMA ReadGptEntryTables ==
  ASSUME TableInv, ReadGptEntry
  PROVE  TableInv'
<1> DEFINE h == disk.headers[Bps]
           o == GptEntryOffset(h, Bps, index)
           e == disk.entries[o]
           p == GptPartition(e, Bps)
           bad == ~GptReadable(disk, h, o) \/ (e.used /\ ~GptEntrySound(h, e))
<1>1. pc = "entries" /\ disk.kind = "gpt" /\ index < h.number
  BY DEF ReadGptEntry
<1>2. CASE bad
  <2>1. Refuse
    BY <1>2 DEF ReadGptEntry
  <2>2. ~GptSound(disk, Bps)
    BY <1>1, <1>2, GptEntryRefused
  <2> QED BY <1>1, <2>1, <2>2, RefuseTables, SoundOfKind
<1>3. CASE ~bad
  <2>1. /\ index' = index + 1
        /\ partitions' = IF e.used THEN Append(partitions, p) ELSE partitions
        /\ last_end' = IF e.used THEN e.end + 1 ELSE last_end
        /\ UNCHANGED <<disk, attempt, pc, base, ebr, visited, checked>>
    BY <1>3 DEF ReadGptEntry, GptPartition
  <2>2. GptReadable(disk, h, o) /\ (e.used => GptEntrySound(h, e))
    BY <1>3
  <2>3. FitInv'
    BY ReadGptEntryInv DEF TableInv
  <2>4. Refused' /\ Bps' = Bps
    BY <1>1, <2>1, GoesOn
  <2>5. /\ index + 1 \in 1..h.number
        /\ (index + 1) - 1 = index
        /\ GptEntryOf(disk, Bps, index + 1) = e
        /\ index + 1 \in GptUsed(disk, Bps) <=> e.used
        /\ GptTable(disk, Bps)[index + 1] = p
    BY <1>1, NextGptEntry
  <2>6. Types /\ Bps \in DOMAIN disk.headers /\ EntryWalk
    BY <1>1 DEF TableInv, FitInv, Phases
  <2>7. /\ h.number \in Nat
        /\ GptUsed(disk, Bps) \in SUBSET Nat
        /\ IsFiniteSet(GptUsed(disk, Bps))
    BY <1>1, <2>6, GptNumbers
  <2>8. index \in Nat /\ partitions \in Seq(PartitionSet) /\ Bps \in Nat
    BY <2>6, BpsType DEF Types
  <2>9. e.used => e.start \in Nat /\ e.end \in Nat /\ e.start <= e.end /\ p \in PartitionSet /\ End(p) = (e.end + 1) * Bps
    <3> SUFFICES ASSUME e.used
                 PROVE  e.start \in Nat /\ e.end \in Nat /\ e.start <= e.end /\ p \in PartitionSet /\ End(p) = (e.end + 1) * Bps
      OBVIOUS
    <3>1. o \in DOMAIN disk.entries
      BY <2>2 DEF GptReadable
    <3>2. e.start \in Nat /\ e.end \in Nat /\ h.area_start \in Nat /\ h.area_end \in Nat
      BY <1>1, <2>6, <3>1, GptNumbers
    <3>3. e.start <= e.end /\ h.area_start <= e.start /\ e.end <= h.area_end
      BY <2>2 DEF GptEntrySound, GptEntryInArea
    <3> HIDE DEF e, h
    <3>4. p \in PartitionSet /\ End(p) = (e.end + 1) * Bps
      <4>1. p = Partition(e.start * Bps, (e.end - e.start + 1) * Bps)
        BY DEF GptPartition
      <4>2. 0 <= e.start
        BY <3>2
      <4> HIDE DEF p
      <4>3. 0 \in Nat
        OBVIOUS
      <4> QED BY <2>8, <3>2, <3>3, <4>1, <4>2, <4>3, GptPlace
    <3> QED BY <3>2, <3>3, <3>4
  <2>10. /\ ReadSoFar(partitions, GptTable(disk, Bps), GptUsed(disk, Bps), index)
         /\ \A n \in 1..index : GptReadable(disk, h, GptEntryOffset(h, Bps, n - 1))
         /\ \A n \in GptUsed(disk, Bps) : n <= index => GptEntryInArea(h, GptEntryOf(disk, Bps, n), Bps)
         /\ last_end = 0 \/ (partitions # <<>> /\ last_end * Bps = End(partitions[Len(partitions)]))
         /\ GptHeaderSound(disk, Bps)
    BY <1>1, <2>6 DEF EntryWalk
  <2>11. ReadSoFar(partitions', GptTable(disk, Bps), GptUsed(disk, Bps), index + 1)
    <3> DEFINE S == GptUsed(disk, Bps)
               f == GptTable(disk, Bps)
    <3>1. S \in SUBSET Nat /\ IsFiniteSet(S) /\ ReadSoFar(partitions, f, S, index)
      BY <2>7, <2>10
    <3>2. f[index + 1] = p /\ (index + 1 \in S <=> e.used)
      BY <2>5
    <3> HIDE DEF S, f, e, p
    <3>3. CASE e.used
      <4>1. f[index + 1] \in PartitionSet /\ index + 1 \in S /\ partitions' = Append(partitions, f[index + 1])
        BY <2>1, <2>9, <3>2, <3>3
      <4>2. ReadSoFar(Append(partitions, f[index + 1]), f, S, index + 1)
        BY <2>8, <3>1, <4>1, ReadUsed
      <4> QED BY <4>1, <4>2 DEF S, f
    <3>4. CASE ~e.used
      <4>1. index + 1 \notin S /\ partitions' = partitions
        BY <2>1, <3>2, <3>4
      <4>2. ReadSoFar(partitions, f, S, index + 1)
        BY <2>8, <3>1, <4>1, ReadUnused
      <4> QED BY <4>1, <4>2 DEF S, f
    <3> QED BY <3>3, <3>4
  <2>12. \A n \in 1..index + 1 : GptReadable(disk, h, GptEntryOffset(h, Bps, n - 1))
    <3> SUFFICES ASSUME NEW n \in 1..index + 1 PROVE GptReadable(disk, h, GptEntryOffset(h, Bps, n - 1))
      OBVIOUS
    <3>1. n \in 1..index \/ n - 1 = index
      BY <2>8
    <3>2. CASE n \in 1..index
      BY <2>10, <3>2
    <3>3. CASE n - 1 = index
      BY <2>2, <3>3
    <3> QED BY <3>1, <3>2, <3>3
  <2>13. \A n \in GptUsed(disk, Bps) : n <= index + 1 => GptEntryInArea(h, GptEntryOf(disk, Bps, n), Bps)
    <3> SUFFICES ASSUME NEW n \in GptUsed(disk, Bps), n <= index + 1
                 PROVE  GptEntryInArea(h, GptEntryOf(disk, Bps, n), Bps)
      OBVIOUS
    <3>1. n \in Nat
      BY <2>7
    <3>2. n <= index \/ n = index + 1
      BY <2>8, <3>1
    <3>3. CASE n = index + 1
      <4>1. e.used /\ GptEntryOf(disk, Bps, n) = e
        BY <2>5, <3>3
      <4> HIDE DEF e, h, o
      <4> QED BY <2>2, <4>1 DEF GptEntrySound
    <3> QED BY <2>10, <3>2, <3>3
  <2>14. last_end' = 0 \/ (partitions' # <<>> /\ last_end' * Bps = End(partitions'[Len(partitions')]))
    <3> HIDE DEF e, h, o
    <3>1. CASE e.used
      <4>1. partitions' = Append(partitions, p) /\ last_end' = e.end + 1 /\ p \in PartitionSet /\ End(p) = (e.end + 1) * Bps
        BY <2>1, <2>9, <3>1
      <4> HIDE DEF p
      <4>2. partitions' # <<>> /\ partitions'[Len(partitions')] = p
        BY <2>8, <4>1
      <4> QED BY <4>1, <4>2
    <3>2. CASE ~e.used
      BY <2>1, <2>10, <3>2
    <3> QED BY <3>1, <3>2
  <2>15. index + 1 <= h.number
    BY <2>5
  <2> HIDE DEF e, o
  <2>16. EntryWalk'
    BY <2>1, <2>4, <2>10, <2>11, <2>12, <2>13, <2>14, <2>15 DEF EntryWalk
  <2>17. pc' = "entries" /\ disk' = disk
    BY <1>1, <2>1
  <2>18. Begun' /\ NotEmpty' /\ MbrWalks' /\ MapWalk' /\ Opened'
    BY <1>1, <2>17 DEF Begun, NotEmpty, MbrWalks, PrimaryWalk, ChainWalk, ValidateWalk, MapWalk, Opened
  <2> QED BY <2>3, <2>4, <2>16, <2>18 DEF TableInv
<1> QED BY <1>2, <1>3

LEMMA CheckGptTableTables ==
  ASSUME TableInv, CheckGptTable
  PROVE  TableInv'
<1> DEFINE h == disk.headers[Bps]
<1>1. pc = "entries" /\ disk.kind = "gpt" /\ index = h.number
  BY DEF CheckGptTable
<1>2. CASE ~h.table_intact
  <2>1. ~GptSound(disk, Bps)
    BY <1>2 DEF GptSound
  <2> QED BY <1>1, <1>2, <2>1, RefuseTables, SoundOfKind DEF CheckGptTable
<1>3. CASE h.table_intact
  <2>1. pc' = "ok" /\ UNCHANGED <<disk, attempt, partitions, base, ebr, visited, checked, last_end, index>>
    BY <1>3 DEF CheckGptTable, loop
  <2>2. FitInv'
    BY CheckGptTableInv DEF TableInv
  <2>3. Refused' /\ Bps' = Bps
    BY <2>1, GoesOn
  <2>4. Types /\ Bps \in DOMAIN disk.headers
    BY <1>1 DEF TableInv, FitInv, Phases
  <2>5. h.number \in Nat /\ GptUsed(disk, Bps) \in SUBSET (1..h.number)
    BY <1>1, <2>4, GptNumbers
  <2>6. /\ ReadSoFar(partitions, GptTable(disk, Bps), GptUsed(disk, Bps), h.number)
        /\ \A n \in 1..h.number : GptReadable(disk, h, GptEntryOffset(h, Bps, n - 1))
        /\ \A n \in GptUsed(disk, Bps) : n <= h.number => GptEntryInArea(h, GptEntryOf(disk, Bps, n), Bps)
        /\ GptHeaderSound(disk, Bps)
    BY <1>1 DEF TableInv, EntryWalk
  <2>7. partitions \in Seq(PartitionSet)
    BY <2>4 DEF Types
  <2>8. partitions = GptDeclared(disk, Bps)
    BY <2>5, <2>6, <2>7, ReadAll DEF GptDeclared
  <2>9. InOrder(partitions)
    BY <1>1 DEF TableInv, FitInv, ListedInOrder
  <2>10. \A n \in GptUsed(disk, Bps) : GptEntryInArea(h, GptEntryOf(disk, Bps, n), Bps)
    <3>1. \A n \in GptUsed(disk, Bps) : n <= h.number
      BY <2>5
    <3> QED BY <2>6, <3>1
  <2>11. GptSound(disk, Bps)
    BY <1>3, <2>6, <2>8, <2>9, <2>10 DEF GptSound
  <2>12. Opened'
    BY <1>1, <2>1, <2>3, <2>8, <2>11, SoundOfKind DEF Opened
  <2>13. Begun' /\ NotEmpty' /\ MbrWalks' /\ EntryWalk' /\ MapWalk'
    BY <1>1, <2>1 DEF Begun, NotEmpty, MbrWalks, PrimaryWalk, ChainWalk, ValidateWalk, EntryWalk, MapWalk
  <2> QED BY <2>2, <2>3, <2>12, <2>13 DEF TableInv
<1> QED BY <1>2, <1>3

-----------------------------------------------------------------------------
(* Apple partition map.                                                    *)
LEMMA ApmNumbers ==
  ASSUME Types, disk.kind = "apm"
  PROVE  /\ disk.size \in Nat
         /\ \A o \in DOMAIN disk.entries :
              disk.entries[o].start \in Nat /\ disk.entries[o].sectors \in Nat /\ disk.entries[o].number \in Nat
<1>1. DiskOk(disk)
  BY DiskAssumption DEF Types
<1> QED BY <1>1 DEF DiskOk

LEMMA ApmEntryRefused ==
  ASSUME TableInv, pc = "open", disk.kind = "apm",
         NEW e, e = disk.entries[index + 1],
         ~ApmReadable(disk, index) \/ ~ApmEntrySound(e)
  PROVE  ~ApmSound(disk)
<1> SUFFICES ASSUME ApmSound(disk) PROVE FALSE
  OBVIOUS
<1> DEFINE N == disk.entries[1].number
           D == ApmDeclared(disk)
<1>1. Types /\ index \in Nat /\ last_end \in Nat
  BY DEF TableInv, FitInv, Types
<1>2. ApmReadable(disk, 0) /\ disk.entries[1].type = "map" /\ N # 0
  BY DEF ApmSound
<1>3. CASE index = 0
  <2>1. e = disk.entries[1]
    BY <1>3
  <2> QED BY <1>2, <1>3, <2>1 DEF ApmEntrySound
<1>4. CASE index # 0
  <2>1. index > 0
    BY <1>1, <1>4
  <2>2. /\ index < N
        /\ \A n \in 1..index - 1 : partitions[n] = D[n]
        /\ last_end = 0 \/ (index > 1 /\ last_end = End(partitions[index - 1]))
    BY <2>1 DEF TableInv, MapWalk
  <2>3. N \in Nat
    <3>1. 1 \in DOMAIN disk.entries
      BY <1>2 DEF ApmReadable
    <3> QED BY <1>1, <3>1, ApmNumbers
  <2>4. index \in 1..N - 1
    BY <1>1, <2>1, <2>2, <2>3
  <2>5. ApmReadable(disk, index) /\ e.number = N
    BY <2>4 DEF ApmSound
  <2>6. e.start \in Nat /\ e.sectors \in Nat /\ disk.size \in Nat
    <3>1. index + 1 \in DOMAIN disk.entries
      BY <2>5 DEF ApmReadable
    <3> QED BY <1>1, <3>1, ApmNumbers
  <2>7. e.start < last_end \/ ~(e.start + e.sectors <= disk.size)
    BY <1>2, <1>4, <2>5 DEF ApmEntrySound, Overlaps
  <2>8. DOMAIN D = 1..N - 1 /\ D[index] = Partition(e.start, e.sectors)
    BY <2>4 DEF ApmDeclared
  <2>9. D[index].offset = e.start /\ End(D[index]) = e.start + e.sectors
    BY <2>6, <2>8 DEF Partition, End
  <2>10. InOrder(D) /\ Inside(disk, 1, D)
    BY DEF ApmSound
  <2> HIDE DEF D, N
  <2>11. CASE e.start < last_end
    <3>1. index > 1 /\ last_end = End(partitions[index - 1])
      BY <1>1, <2>2, <2>6, <2>11
    <3>2. index - 1 \in 1..index - 1 /\ index - 1 \in 1..N - 1 /\ index - 1 < index
      BY <1>1, <2>3, <2>4, <3>1
    <3>3. partitions[index - 1] = D[index - 1]
      BY <2>2, <3>2
    <3>4. End(D[index - 1]) <= D[index].offset
      BY <2>4, <2>8, <2>10, <3>2 DEF InOrder
    <3> QED BY <1>1, <2>6, <2>9, <2>11, <3>1, <3>3, <3>4
  <2>12. CASE ~(e.start + e.sectors <= disk.size)
    <3>1. Room(disk, 1)[2] = disk.size
      BY DEF Room
    <3>2. End(D[index]) <= disk.size
      BY <2>4, <2>8, <2>10, <3>1 DEF Inside
    <3> QED BY <2>9, <2>12, <3>2
  <2> QED BY <2>7, <2>11, <2>12
<1> QED BY <1>3, <1>4

LEMMA ReadApmEntryTables ==
  ASSUME TableInv, ReadApmEntry
  PROVE  TableInv'
<1> DEFINE e == disk.entries[index + 1]
           p == Partition(e.start, e.sectors)
           N == disk.entries[1].number
           bad == ~ApmReadable(disk, index) \/ ~ApmEntrySound(e)
<1>1. pc = "open" /\ disk.kind = "apm"
  BY DEF ReadApmEntry
<1>2. CASE bad
  <2>1. Refuse
    BY <1>2 DEF ReadApmEntry
  <2>2. ~ApmSound(disk)
    BY <1>1, <1>2, ApmEntryRefused
  <2> QED BY <1>1, <2>1, <2>2, RefuseTables, SoundOfKind
<1>3. CASE ~bad
  <2>1. /\ index' = index + 1
        /\ pc' = IF index + 1 >= e.number THEN "ok" ELSE pc
        /\ partitions' = IF index = 0 THEN partitions ELSE Append(partitions, p)
        /\ last_end' = IF index = 0 THEN last_end ELSE e.start + e.sectors
        /\ UNCHANGED <<disk, attempt, base, ebr, visited, checked>>
    BY <1>3 DEF ReadApmEntry
  <2>2. ApmReadable(disk, index) /\ ApmEntrySound(e)
    BY <1>3
  <2>3. FitInv'
    BY ReadApmEntryInv DEF TableInv
  <2>4. Refused' /\ Bps' = Bps
    BY <1>1, <2>1, GoesOn
  <2>5. Types /\ index \in Nat /\ partitions \in Seq(PartitionSet) /\ MapWalk
    BY DEF TableInv, FitInv, Types
  <2>6. /\ ApmReadable(disk, 0) /\ disk.entries[1].type = "map" /\ N \in Nat /\ N # 0
        /\ e.number = N /\ index < N
    <3>1. CASE index = 0
      <4>1. e = disk.entries[1]
        BY <3>1
      <4>2. ApmReadable(disk, 0) /\ disk.entries[1].type = "map" /\ N # 0 /\ e.number = N
        BY <2>2, <3>1, <4>1 DEF ApmEntrySound
      <4>3. 1 \in DOMAIN disk.entries
        BY <4>2 DEF ApmReadable
      <4>4. N \in Nat
        BY <1>1, <2>5, <4>3, ApmNumbers
      <4>5. index < N
        BY <3>1, <4>2, <4>4
      <4> QED BY <4>2, <4>4, <4>5
    <3>2. CASE index # 0
      <4>1. index > 0
        BY <2>5, <3>2
      <4>2. ApmReadable(disk, 0) /\ disk.entries[1].type = "map" /\ index < N
        BY <1>1, <2>5, <4>1 DEF MapWalk
      <4>3. 1 \in DOMAIN disk.entries
        BY <4>2 DEF ApmReadable
      <4>4. N \in Nat
        BY <1>1, <2>5, <4>3, ApmNumbers
      <4>5. e.number = N
        BY <2>2, <3>2 DEF ApmEntrySound
      <4>6. N # 0
        BY <2>5, <4>2, <4>4
      <4> QED BY <4>2, <4>4, <4>5, <4>6
    <3> QED BY <3>1, <3>2
  <2>7. /\ Len(partitions') = index
        /\ \A n \in 1..index :
             /\ ApmReadable(disk, n) /\ disk.entries[n + 1].number = N
             /\ partitions'[n] = ApmDeclared(disk)[n]
        /\ last_end' = 0 \/ (index > 0 /\ last_end' = End(partitions'[index]))
    <3>1. CASE index = 0
      <4>1. partitions' = <<>> /\ last_end' = 0
        BY <1>1, <2>1, <2>5, <3>1 DEF MapWalk
      <4> QED BY <3>1, <4>1
    <3>2. CASE index # 0
      <4>1. index > 0
        BY <2>5, <3>2
      <4>2. /\ Len(partitions) = index - 1
            /\ \A n \in 1..index - 1 :
                 /\ ApmReadable(disk, n) /\ disk.entries[n + 1].number = N
                 /\ partitions[n] = ApmDeclared(disk)[n]
        BY <1>1, <2>5, <4>1 DEF MapWalk
      <4>3. e.start \in Nat /\ e.sectors \in Nat
        <5>1. index + 1 \in DOMAIN disk.entries
          BY <2>2 DEF ApmReadable
        <5> QED BY <1>1, <2>5, <5>1, ApmNumbers
      <4>4. p \in PartitionSet /\ End(p) = e.start + e.sectors
        BY <4>3 DEF Partition, PartitionSet, End
      <4>5. ApmDeclared(disk)[index] = p
        <5>1. index \in 1..N - 1
          BY <2>5, <2>6, <4>1
        <5> QED BY <5>1 DEF ApmDeclared
      <4>6. partitions' = Append(partitions, p) /\ last_end' = e.start + e.sectors
        BY <2>1, <3>2
      <4> HIDE DEF p, N
      <4>7. /\ DOMAIN Append(partitions, p) = 1..(Len(partitions) + 1)
            /\ DOMAIN partitions = 1..Len(partitions)
            /\ Append(partitions, p)[Len(partitions) + 1] = p
            /\ \A i \in DOMAIN partitions : Append(partitions, p)[i] = partitions[i]
            /\ Append(partitions, p) \in Seq(PartitionSet)
        BY <2>5, <4>4, OneMore
      <4>8. Len(partitions) + 1 = index /\ Len(partitions) \in Nat
        BY <2>5, <4>2
      <4>9. Len(partitions') = index /\ partitions'[index] = p
        BY <4>6, <4>7, <4>8
      <4>10. \A n \in 1..index :
               /\ ApmReadable(disk, n) /\ disk.entries[n + 1].number = N
               /\ partitions'[n] = ApmDeclared(disk)[n]
        <5> SUFFICES ASSUME NEW n \in 1..index
                     PROVE  /\ ApmReadable(disk, n) /\ disk.entries[n + 1].number = N
                            /\ partitions'[n] = ApmDeclared(disk)[n]
          OBVIOUS
        <5>1. n = index \/ n \in 1..index - 1
          BY <2>5
        <5>2. CASE n = index
          <6>1. disk.entries[n + 1].number = N
            BY <2>6, <5>2
          <6>2. ApmReadable(disk, n)
            BY <2>2, <5>2
          <6> QED BY <4>5, <4>9, <5>2, <6>1, <6>2
        <5>3. CASE n \in 1..index - 1
          <6>1. n \in DOMAIN partitions
            BY <4>2, <4>7, <5>3
          <6>2. partitions'[n] = partitions[n]
            BY <4>6, <4>7, <6>1
          <6> QED BY <4>2, <5>3, <6>2
        <5> QED BY <5>1, <5>2, <5>3
      <4>11. last_end' = End(partitions'[index])
        BY <4>4, <4>6, <4>9
      <4> QED BY <4>1, <4>9, <4>10, <4>11
    <3> QED BY <3>1, <3>2
  <2>8. Begun' /\ NotEmpty' /\ MbrWalks' /\ EntryWalk'
    <3>1. pc' \in {"ok", "open"} /\ disk' = disk
      BY <1>1, <2>1
    <3> QED BY <1>1, <3>1 DEF Begun, NotEmpty, MbrWalks, PrimaryWalk, ChainWalk, ValidateWalk, EntryWalk
  <2> HIDE DEF e, p
  <2>9. CASE index + 1 >= e.number
    <3>1. pc' = "ok"
      BY <2>1, <2>9
    <3>2. index = N - 1
      BY <2>5, <2>6, <2>9
    <3>3. partitions' \in Seq(PartitionSet)
      BY <2>3 DEF FitInv, Types
    <3>4. partitions' = ApmDeclared(disk)
      <4>1. DOMAIN partitions' = 1..N - 1
        BY <2>7, <3>2, <3>3
      <4>2. partitions' = [n \in 1..N - 1 |-> partitions'[n]]
        BY <3>3, <4>1
      <4>3. ApmDeclared(disk) = [n \in 1..N - 1 |-> ApmDeclared(disk)[n]]
        BY DEF ApmDeclared
      <4>4. \A n \in 1..N - 1 : partitions'[n] = ApmDeclared(disk)[n]
        BY <2>7, <3>2
      <4> QED BY <4>2, <4>3, <4>4
    <3>5. InOrder(partitions') /\ Inside(disk, 1, partitions')
      <4>1. Bps = 1
        BY <1>1, <2>5, BpsType
      <4>2. disk' = disk /\ Bps' = 1
        BY <2>1, <2>4, <4>1
      <4> QED BY <1>1, <2>3, <4>2 DEF FitInv, ListedInOrder
    <3>6. ApmSound(disk)
      BY <2>6, <2>7, <3>2, <3>4, <3>5 DEF ApmSound
    <3>7. Opened' /\ MapWalk'
      BY <1>1, <2>1, <3>1, <3>4, <3>6, SoundOfKind DEF Opened, MapWalk
    <3> QED BY <2>3, <2>4, <2>8, <3>7 DEF TableInv
  <2>10. CASE ~(index + 1 >= e.number)
    <3>1. pc' = "open" /\ disk' = disk /\ index' = index + 1
      BY <1>1, <2>1, <2>10
    <3>2. index + 1 < N /\ (index + 1) - 1 = index /\ index + 1 > 0 /\ (index > 0 => index + 1 > 1)
      BY <2>5, <2>6, <2>10
    <3>3. index + 1 # 0
      BY <2>5
    <3> HIDE DEF N
    <3>4. MapWalk'
      BY <2>6, <2>7, <3>1, <3>2, <3>3 DEF MapWalk, N
    <3>5. Opened'
      BY <3>1 DEF Opened
    <3> QED BY <2>3, <2>4, <2>8, <3>4, <3>5 DEF TableInv
  <2> QED BY <2>9, <2>10
<1> QED BY <1>2, <1>3

-----------------------------------------------------------------------------
(* Master Boot Record.  The path along the links is well defined: there is *)
(* a function on the first k numbers that follows them, for every k.       *)
Follows(f, d, s, k) ==
  f = [n \in 1..k |-> IF n = 1 THEN LinkOf(d, s, 0) ELSE After(d, s, f[n - 1])]

LEMMA FollowsOn ==
  ASSUME NEW d, NEW s, NEW k \in Nat, NEW f, Follows(f, d, s, k)
  PROVE  \E g : Follows(g, d, s, k + 1)
<1> DEFINE g == [n \in 1..k + 1 |-> IF n = 1 THEN LinkOf(d, s, 0) ELSE After(d, s, f[n - 1])]
           h == [n \in 1..k + 1 |-> IF n = 1 THEN LinkOf(d, s, 0) ELSE After(d, s, g[n - 1])]
<1>1. \A n \in 1..k : f[n] = IF n = 1 THEN LinkOf(d, s, 0) ELSE After(d, s, f[n - 1])
  BY DEF Follows
<1>2. \A n \in 1..k : n \in 1..k + 1
  OBVIOUS
<1>3. \A n \in 1..k : g[n] = f[n]
  BY <1>1, <1>2
<1>4. \A n \in 1..k + 1 : n # 1 => n - 1 \in 1..k
  OBVIOUS
<1>5. \A n \in 1..k + 1 : g[n] = IF n = 1 THEN LinkOf(d, s, 0) ELSE After(d, s, f[n - 1])
  OBVIOUS
<1>6. \A n \in 1..k + 1 : h[n] = IF n = 1 THEN LinkOf(d, s, 0) ELSE After(d, s, g[n - 1])
  OBVIOUS
<1>7. DOMAIN g = 1..k + 1 /\ DOMAIN h = 1..k + 1
  OBVIOUS
<1>8. g = [n \in 1..k + 1 |-> g[n]] /\ h = [n \in 1..k + 1 |-> h[n]]
  OBVIOUS
<1>9. h = [n \in 1..k + 1 |-> IF n = 1 THEN LinkOf(d, s, 0) ELSE After(d, s, g[n - 1])]
  OBVIOUS
<1> HIDE DEF g, h
<1>10. \A n \in 1..k + 1 : g[n] = h[n]
  BY <1>3, <1>4, <1>5, <1>6
<1>11. g = h
  BY <1>8, <1>10
<1>12. Follows(g, d, s, k + 1)
  BY <1>9, <1>11 DEF Follows
<1> QED BY <1>12

LEMMA FollowsExists ==
  ASSUME NEW d, NEW s, NEW k \in Nat
  PROVE  \E f : Follows(f, d, s, k)
<1> DEFINE Bad == {n \in Nat : ~\E f : Follows(f, d, s, n)}
<1>1. Follows([n \in 1..0 |-> 0], d, s, 0)
  BY DEF Follows
<1>2. ASSUME Bad # {} PROVE FALSE
  <2>1. Bad \in SUBSET Nat
    OBVIOUS
  <2>2. PICK x \in Bad : \A y \in Bad : x <= y
    BY <1>2, <2>1, Least
  <2>3. x \in Nat /\ ~\E f : Follows(f, d, s, x)
    BY <2>2
  <2>4. x # 0
    BY <1>1, <2>3
  <2>5. x - 1 \in Nat /\ ~(x <= x - 1) /\ (x - 1) + 1 = x
    BY <2>3, <2>4
  <2>6. \E f : Follows(f, d, s, x - 1)
    BY <2>2, <2>5
  <2>7. \E f : Follows(f, d, s, (x - 1) + 1)
    BY <2>5, <2>6, FollowsOn
  <2> QED BY <2>3, <2>5, <2>7
<1> QED BY <1>2

LEMMA PathEquation ==
  ASSUME NEW d, NEW s
  PROVE  /\ DOMAIN Path(d, s) = 1..MaxLogical + 1
         /\ Path(d, s)[1] = LinkOf(d, s, 0)
         /\ \A n \in 1..MaxLogical : Path(d, s)[n + 1] = After(d, s, Path(d, s)[n])
<1>1. MaxLogical + 1 \in Nat /\ MaxLogical \in Nat
  BY MaxLogicalAssumption
<1>2. \E f : Follows(f, d, s, MaxLogical + 1)
  BY <1>1, FollowsExists
<1>3. Path(d, s) = CHOOSE f : Follows(f, d, s, MaxLogical + 1)
  BY DEF Path, Follows
<1>4. Follows(Path(d, s), d, s, MaxLogical + 1)
  BY <1>2, <1>3
<1> DEFINE P == Path(d, s)
<1>5. P = [n \in 1..MaxLogical + 1 |-> IF n = 1 THEN LinkOf(d, s, 0) ELSE After(d, s, P[n - 1])]
  BY <1>4 DEF Follows
<1> HIDE DEF P
<1>6. DOMAIN P = 1..MaxLogical + 1
  BY <1>5
<1>7. \A n \in 1..MaxLogical + 1 : P[n] = IF n = 1 THEN LinkOf(d, s, 0) ELSE After(d, s, P[n - 1])
  BY <1>5
<1>8. 1 \in 1..MaxLogical + 1
  BY <1>1
<1>9. P[1] = LinkOf(d, s, 0)
  BY <1>7, <1>8
<1>10. \A n \in 1..MaxLogical : n + 1 \in 1..MaxLogical + 1 /\ n + 1 # 1 /\ (n + 1) - 1 = n
  BY <1>1
<1>11. \A n \in 1..MaxLogical : P[n + 1] = After(d, s, P[n])
  BY <1>7, <1>10
<1> QED BY <1>6, <1>9, <1>11 DEF P


(* Past the end of the chain there is nothing.                             *)
LEMMA PathStaysEnded ==
  ASSUME NEW d, NEW s, NEW m \in 1..MaxLogical + 1, Path(d, s)[m] = -1,
         NEW n \in 1..MaxLogical + 1, m <= n
  PROVE  Path(d, s)[n] = -1
<1> DEFINE Bad == {i \in 1..MaxLogical + 1 : m <= i /\ Path(d, s)[i] # -1}
<1>1. MaxLogical \in Nat
  BY MaxLogicalAssumption
<1>2. ASSUME Bad # {} PROVE FALSE
  <2>1. Bad \in SUBSET Nat
    BY <1>1
  <2>2. PICK x \in Bad : \A y \in Bad : x <= y
    BY <1>2, <2>1, Least
  <2>3. x \in 1..MaxLogical + 1 /\ m <= x /\ Path(d, s)[x] # -1 /\ x # m
    BY <2>2
  <2>4. x - 1 \in 1..MaxLogical /\ x - 1 \in 1..MaxLogical + 1 /\ m <= x - 1 /\ ~(x <= x - 1) /\ (x - 1) + 1 = x
    BY <1>1, <2>3
  <2>5. Path(d, s)[x - 1] = -1
    BY <2>2, <2>4
  <2>6. Path(d, s)[(x - 1) + 1] = After(d, s, Path(d, s)[x - 1])
    BY <2>4, PathEquation
  <2>7. After(d, s, -1) = -1
    BY DEF After
  <2> QED BY <2>3, <2>4, <2>5, <2>6, <2>7
<1> QED BY <1>2

(* The chain is the path up to its end.                                    *)
LEMMA ChainIs ==
  ASSUME NEW d, NEW s, NEW k \in 0..MaxLogical + 1,
         \A i \in 1..k : Path(d, s)[i] # -1,
         k = MaxLogical + 1 \/ Path(d, s)[k + 1] = -1
  PROVE  /\ Chain(d, s) = [i \in 1..k |-> Path(d, s)[i]]
         /\ Len(Chain(d, s)) = k
<1> DEFINE live == {n \in 1..MaxLogical + 1 : Path(d, s)[n] # -1}
<1>1. MaxLogical \in Nat
  BY MaxLogicalAssumption
<1>2. k \in Nat /\ \A i \in 1..k : i \in 1..MaxLogical + 1
  BY <1>1
<1>3. \A n \in 1..MaxLogical + 1 : Path(d, s)[n] # -1 => n \in 1..k
  <2> SUFFICES ASSUME NEW n \in 1..MaxLogical + 1, n \notin 1..k PROVE Path(d, s)[n] = -1
    OBVIOUS
  <2>1. k + 1 \in 1..MaxLogical + 1 /\ k + 1 <= n /\ k # MaxLogical + 1
    BY <1>1, <1>2
  <2> QED BY <2>1, PathStaysEnded
<1>4. live = 1..k
  BY <1>2, <1>3
<1>5. Chain(d, s) = [i \in 1..k |-> Path(d, s)[i]]
  BY <1>4 DEF Chain
<1>6. Len([i \in 1..k |-> Path(d, s)[i]]) = k
  BY <1>2
<1> QED BY <1>5, <1>6

LEMMA ChainShape ==
  ASSUME NEW d, NEW s
  PROVE  \E k \in 0..MaxLogical + 1 :
           /\ \A i \in 1..k : Path(d, s)[i] # -1
           /\ k = MaxLogical + 1 \/ Path(d, s)[k + 1] = -1
<1> DEFINE ended == {n \in 1..MaxLogical + 1 : Path(d, s)[n] = -1}
<1>1. MaxLogical \in Nat
  BY MaxLogicalAssumption
<1>2. CASE ended = {}
  <2>1. MaxLogical + 1 \in 0..MaxLogical + 1
    BY <1>1
  <2>2. \A i \in 1..MaxLogical + 1 : Path(d, s)[i] # -1
    BY <1>2
  <2> QED BY <2>1, <2>2
<1>3. CASE ended # {}
  <2>1. ended \in SUBSET Nat
    BY <1>1
  <2>2. PICK x \in ended : \A y \in ended : x <= y
    BY <1>3, <2>1, Least
  <2>3. x \in 1..MaxLogical + 1 /\ Path(d, s)[x] = -1
    BY <2>2
  <2>4. /\ x - 1 \in 0..MaxLogical + 1 /\ (x - 1) + 1 = x
        /\ \A i \in 1..x - 1 : i \in 1..MaxLogical + 1 /\ ~(x <= i)
    BY <1>1, <2>3
  <2>5. \A i \in 1..x - 1 : Path(d, s)[i] # -1
    BY <2>2, <2>4
  <2> QED BY <2>3, <2>4, <2>5
<1> QED BY <1>2, <1>3

(* A path that comes back to where it was goes round for ever.             *)
LEMMA PathRepeats ==
  ASSUME NEW d, NEW s, NEW i \in 1..MaxLogical + 1, NEW j \in 1..MaxLogical + 1, i < j,
         Path(d, s)[i] = Path(d, s)[j],
         NEW t \in Nat, j + t <= MaxLogical + 1
  PROVE  Path(d, s)[i + t] = Path(d, s)[j + t]
<1> DEFINE Bad == {u \in Nat : j + u <= MaxLogical + 1 /\ Path(d, s)[i + u] # Path(d, s)[j + u]}
<1>1. MaxLogical \in Nat /\ i \in Nat /\ j \in Nat
  BY MaxLogicalAssumption
<1>2. ASSUME Bad # {} PROVE FALSE
  <2>1. Bad \in SUBSET Nat
    OBVIOUS
  <2>2. PICK x \in Bad : \A y \in Bad : x <= y
    BY <1>2, <2>1, Least
  <2>3. x \in Nat /\ j + x <= MaxLogical + 1 /\ Path(d, s)[i + x] # Path(d, s)[j + x]
    BY <2>2
  <2>4. x # 0
    <3>1. i + 0 = i /\ j + 0 = j
      BY <1>1
    <3> QED BY <2>3, <3>1
  <2> DEFINE a == i + (x - 1)
             b == j + (x - 1)
  <2>5. /\ x - 1 \in Nat /\ ~(x <= x - 1) /\ b <= MaxLogical + 1
        /\ a \in 1..MaxLogical /\ b \in 1..MaxLogical
        /\ a + 1 = i + x /\ b + 1 = j + x
    BY <1>1, <2>3, <2>4
  <2>6. Path(d, s)[a] = Path(d, s)[b]
    BY <2>2, <2>5
  <2> HIDE DEF a, b
  <2>7. /\ Path(d, s)[a + 1] = After(d, s, Path(d, s)[a])
        /\ Path(d, s)[b + 1] = After(d, s, Path(d, s)[b])
    BY <2>5, PathEquation
  <2> QED BY <2>3, <2>5, <2>6, <2>7
<1> QED BY <1>2

(* What ends the walk along the links, before it has come to their end,    *)
(* makes the chain unsound.                                                *)
LEMMA EbrRefused ==
  ASSUME NEW d, NEW s, NEW k \in 0..MaxLogical,
         Path(d, s)[k + 1] # -1,
         \/ k >= MaxLogical
         \/ \E i \in 1..k : Path(d, s)[i] = Path(d, s)[k + 1]
         \/ ~EbrSound(d, Path(d, s)[k + 1])
  PROVE  ~ChainSound(d, s)
<1> SUFFICES ASSUME ChainSound(d, s) PROVE FALSE
  OBVIOUS
<1> DEFINE P == Path(d, s)
<1>1. MaxLogical \in Nat
  BY MaxLogicalAssumption
<1>2. PICK c \in 0..MaxLogical + 1 :
        /\ \A i \in 1..c : P[i] # -1
        /\ c = MaxLogical + 1 \/ P[c + 1] = -1
  BY ChainShape
<1>3. Chain(d, s) = [i \in 1..c |-> P[i]] /\ Len(Chain(d, s)) = c
  BY <1>2, ChainIs
<1>4. c <= MaxLogical /\ \A i \in 1..c : EbrSound(d, P[i])
  BY <1>3 DEF ChainSound
<1>5. P[c + 1] = -1
  BY <1>1, <1>2, <1>4
<1>6. k + 1 <= c
  <2> SUFFICES ASSUME ~(k + 1 <= c) PROVE FALSE
    OBVIOUS
  <2>1. c + 1 \in 1..MaxLogical + 1 /\ k + 1 \in 1..MaxLogical + 1 /\ c + 1 <= k + 1
    BY <1>1, <1>2, <1>4
  <2> QED BY <1>5, <2>1, PathStaysEnded
<1>7. k + 1 \in 1..c /\ ~(k >= MaxLogical)
  BY <1>1, <1>2, <1>4, <1>6
<1>8. PICK i \in 1..k : P[i] = P[k + 1]
  BY <1>4, <1>7
<1>9. /\ i \in 1..MaxLogical + 1 /\ k + 1 \in 1..MaxLogical + 1 /\ i < k + 1
      /\ c - k \in Nat /\ (k + 1) + (c - k) <= MaxLogical + 1 /\ (k + 1) + (c - k) = c + 1
      /\ i + (c - k) \in 1..c
  BY <1>1, <1>2, <1>4, <1>6
<1>10. P[i + (c - k)] = P[(k + 1) + (c - k)]
  BY <1>8, <1>9, PathRepeats
<1> HIDE DEF P
<1> QED BY <1>2, <1>5, <1>9, <1>10


LEMMA RecordPlaces ==
  ASSUME NEW record \in Seq(EntrySet)
  PROVE  /\ Len(record) \in Nat /\ DOMAIN record = 1..Len(record)
         /\ Links(record) \in SUBSET (1..Len(record)) /\ Logicals(record) \in SUBSET (1..Len(record))
         /\ Logicals(record) \in SUBSET Nat /\ Logicals(record) \in SUBSET (Nat \ {0})
         /\ IsFiniteSet(Links(record)) /\ IsFiniteSet(Logicals(record))
         /\ Cardinality(Links(record)) \in Nat /\ Cardinality(Logicals(record)) \in Nat
         /\ \A i \in DOMAIN record : record[i] \in EntrySet
<1>1. Len(record) \in Nat /\ DOMAIN record = 1..Len(record) /\ \A i \in DOMAIN record : record[i] \in EntrySet
  OBVIOUS
<1>2. Links(record) \in SUBSET (1..Len(record)) /\ Logicals(record) \in SUBSET (1..Len(record))
  BY <1>1 DEF Links, Logicals
<1>3. \A i \in 1..Len(record) : i \in Nat /\ i \in Nat \ {0}
  BY <1>1
<1>4. IsFiniteSet(1..Len(record))
  BY <1>1, FS_Interval
<1>5. IsFiniteSet(Links(record)) /\ IsFiniteSet(Logicals(record))
  BY <1>2, <1>4, FS_Subset
<1>6. Cardinality(Links(record)) \in Nat /\ Cardinality(Logicals(record)) \in Nat
  BY <1>5, FS_CardinalityType
<1>7. Logicals(record) \in SUBSET Nat /\ Logicals(record) \in SUBSET (Nat \ {0})
  BY <1>2, <1>3
<1> QED BY <1>1, <1>2, <1>5, <1>6, <1>7

(* The link of a record leads to an offset.                                *)
LEMMA LinkOfType ==
  ASSUME Types, disk.kind = "mbr", NEW o \in DOMAIN disk.headers
  PROVE  /\ Links(disk.headers[o]) = {} => LinkOf(disk, Bps, o) = -1
         /\ Links(disk.headers[o]) # {} =>
              /\ LinkOf(disk, Bps, o) = Only(disk.headers[o], Links(disk.headers[o])).start * Bps
              /\ LinkOf(disk, Bps, o) \in Nat /\ LinkOf(disk, Bps, o) # -1
<1> DEFINE record == disk.headers[o]
<1>1. record \in Seq(EntrySet)
  BY MbrRecord
<1>2. Links(record) \in SUBSET DOMAIN record
  BY DEF Links
<1>3. ASSUME Links(record) # {} PROVE Only(record, Links(record)).start * Bps \in Nat
  <2>1. Only(record, Links(record)) \in EntrySet
    BY <1>1, <1>2, <1>3, OnlyType
  <2>2. Only(record, Links(record)).start \in Nat /\ Bps \in Nat
    BY <2>1, BpsType DEF EntrySet
  <2> QED BY <2>2, Product
<1>4. Links(record) = {} => LinkOf(disk, Bps, o) = -1
  BY DEF LinkOf
<1>5. Links(record) # {} => LinkOf(disk, Bps, o) = Only(record, Links(record)).start * Bps
  BY DEF LinkOf
<1> HIDE DEF record
<1>6. \A x \in Nat : x # -1
  OBVIOUS
<1> QED BY <1>3, <1>4, <1>5, <1>6 DEF record

LEMMA ReadBootRecordTables ==
  ASSUME TableInv, ReadBootRecord
  PROVE  TableInv'
<1> DEFINE record == disk.headers[0]
           bad == ~Records(disk, 0) \/ Cardinality(Links(record)) > 1
<1>1. pc = "open" /\ disk.kind = "mbr" /\ Types
  BY DEF ReadBootRecord, TableInv, FitInv
<1>2. ASSUME Records(disk, 0) PROVE /\ 0 \in DOMAIN disk.headers /\ record \in Seq(EntrySet)
                                    /\ Cardinality(Links(record)) \in Nat
  <2>1. 0 \in DOMAIN disk.headers
    BY <1>2 DEF Records
  <2>2. record \in Seq(EntrySet)
    BY <1>1, <2>1, MbrRecord
  <2> QED BY <2>1, <2>2, RecordPlaces
<1>3. CASE bad
  <2>1. Refuse
    BY <1>3 DEF ReadBootRecord
  <2>2. ~BootSound(disk)
    BY <1>2, <1>3 DEF BootSound
  <2>3. ~Sound(disk, Bps)
    BY <1>1, <2>2, SoundOfKind DEF MbrSound
  <2> QED BY <2>1, <2>3, RefuseTables
<1>4. CASE ~bad
  <2>1. /\ pc' = "primary"
        /\ base' = IF Links(record) = {} THEN base ELSE Only(record, Links(record)).start * Bps
        /\ ebr' = base'
        /\ UNCHANGED <<disk, attempt, partitions, visited, checked, last_end, index>>
    BY <1>4 DEF ReadBootRecord
  <2>2. FitInv'
    BY ReadBootRecordInv DEF TableInv
  <2>3. Refused' /\ Bps' = Bps
    BY <2>1, GoesOn
  <2>4. /\ 0 \in DOMAIN disk.headers /\ record \in Seq(EntrySet) /\ BootSound(disk)
    BY <1>2, <1>4 DEF BootSound
  <2>5. index = 0 /\ partitions = <<>> /\ visited = {} /\ last_end = 0
    BY <1>1 DEF TableInv, Begun, FitInv, Phases
  <2>6. Logicals(record) \in SUBSET (Nat \ {0}) /\ Len(record) \in Nat
    BY <2>4, RecordPlaces
  <2>7. ReadSoFar(partitions, BootTable(disk, Bps), Logicals(record), index)
    BY <2>5, <2>6, ReadStart
  <2>8. Links(record) # {} => base' = LinkOf(disk, Bps, 0)
    BY <1>1, <2>1, <2>4, LinkOfType
  <2>9. index <= Len(record)
    BY <2>5, <2>6
  <2>10. PrimaryWalk'
    BY <2>1, <2>3, <2>4, <2>7, <2>8, <2>9 DEF PrimaryWalk
  <2>11. NotEmpty' /\ Begun'
    BY <2>1, <2>5 DEF NotEmpty, Begun
  <2>12. ChainWalk' /\ ValidateWalk' /\ EntryWalk' /\ MapWalk' /\ Opened'
    BY <2>1 DEF ChainWalk, ValidateWalk, EntryWalk, MapWalk, Opened
  <2> QED BY <2>2, <2>3, <2>10, <2>11, <2>12 DEF TableInv, MbrWalks
<1> QED BY <1>3, <1>4

LEMMA ProductPositive ==
  ASSUME NEW a \in Nat, NEW b \in Nat, a > 0, b > 0
  PROVE  a * b > 0
<1>1. 0 < a
  OBVIOUS
<1>2. ~(a * b <= 0 * b)
  BY <1>1, ScaleStrict
<1>3. 0 * b = 0 /\ a * b \in Nat
  BY Product
<1> QED BY <1>2, <1>3

(* What an entry that is a partition becomes.                              *)
LEMMA EntryBecomes ==
  ASSUME Types, NEW e \in EntrySet, IsPartition(e), NEW from \in Nat
  PROVE  /\ partition_from_entry(e, from) = Scaled(e, from, Bps)
         /\ Scaled(e, from, Bps) \in PartitionSet /\ Scaled(e, from, Bps).size > 0
<1>1. partition_from_entry(e, from) \in PartitionSet
  BY EntryPlace
<1>2. partition_from_entry(e, from) = Scaled(e, from, Bps)
  BY DEF partition_from_entry, Scaled
<1>3. e.sectors \in Nat /\ e.sectors > 0
  BY DEF EntrySet, IsPartition, Used
<1>4. e.sectors * Bps > 0
  BY <1>3, BpsType, ProductPositive
<1>5. Scaled(e, from, Bps).size = e.sectors * Bps
  BY DEF Scaled, Partition
<1> QED BY <1>1, <1>2, <1>4, <1>5

(* A list of partitions that are not empty, and one more.                  *)
LEMMA OneMoreNotEmpty ==
  ASSUME NEW ps \in Seq(PartitionSet), \A i \in DOMAIN ps : ps[i].size > 0,
         NEW p \in PartitionSet, p.size > 0
  PROVE  \A i \in DOMAIN Append(ps, p) : Append(ps, p)[i].size > 0
<1>1. /\ DOMAIN Append(ps, p) = 1..(Len(ps) + 1)
      /\ DOMAIN ps = 1..Len(ps) /\ Len(ps) \in Nat
      /\ Append(ps, p)[Len(ps) + 1] = p
      /\ \A i \in DOMAIN ps : Append(ps, p)[i] = ps[i]
  BY OneMore
<1> SUFFICES ASSUME NEW i \in DOMAIN Append(ps, p) PROVE Append(ps, p)[i].size > 0
  OBVIOUS
<1>2. i = Len(ps) + 1 \/ i \in DOMAIN ps
  BY <1>1
<1>3. CASE i = Len(ps) + 1
  BY <1>1, <1>3
<1>4. CASE i \in DOMAIN ps
  BY <1>1, <1>4
<1> QED BY <1>2, <1>3, <1>4

LEMMA ReadPrimaryTables ==
  ASSUME TableInv, ReadPrimary
  PROVE  TableInv'
<1> DEFINE record == disk.headers[0]
           e == record[index + 1]
           p == Scaled(e, 0, Bps)
           S == Logicals(record)
           f == BootTable(disk, Bps)
<1>1. /\ pc = "primary" /\ index < Len(record) /\ index' = index + 1
      /\ partitions' = IF IsPartition(e) THEN Append(partitions, partition_from_entry(e, 0)) ELSE partitions
      /\ UNCHANGED <<disk, attempt, pc, base, ebr, visited, checked, last_end>>
  BY DEF ReadPrimary
<1>2. Types /\ disk.kind = "mbr" /\ 0 \in DOMAIN disk.headers
  BY <1>1 DEF TableInv, FitInv, Phases
<1>3. record \in Seq(EntrySet)
  BY <1>2, MbrRecord
<1>4. /\ Len(record) \in Nat /\ DOMAIN record = 1..Len(record)
      /\ S \in SUBSET Nat /\ IsFiniteSet(S)
      /\ \A i \in DOMAIN record : record[i] \in EntrySet
  BY <1>3, RecordPlaces
<1>5. index \in Nat /\ partitions \in Seq(PartitionSet)
  BY <1>2 DEF Types
<1>6. index + 1 \in DOMAIN record /\ index + 1 <= Len(record)
  BY <1>1, <1>4, <1>5
<1>7. e \in EntrySet /\ (index + 1 \in S <=> IsPartition(e)) /\ f[index + 1] = p
  BY <1>4, <1>6 DEF Logicals, BootTable
<1>8. /\ BootSound(disk)
      /\ ReadSoFar(partitions, f, S, index)
      /\ Links(record) # {} => base = LinkOf(disk, Bps, 0) /\ ebr = base
  BY <1>1 DEF TableInv, MbrWalks, PrimaryWalk
<1>9. FitInv'
  BY ReadPrimaryInv DEF TableInv
<1>10. Refused' /\ Bps' = Bps
  BY <1>1, GoesOn
<1>11. \A i \in DOMAIN partitions : partitions[i].size > 0
  BY <1>2 DEF TableInv, NotEmpty
<1> HIDE DEF e, p, S, f
<1>12. ReadSoFar(partitions', f, S, index + 1) /\ \A i \in DOMAIN partitions' : partitions'[i].size > 0
  <2>1. CASE IsPartition(e)
    <3>1. partition_from_entry(e, 0) = p /\ p \in PartitionSet /\ p.size > 0
      BY <1>2, <1>7, <2>1, EntryBecomes DEF p
    <3>2. partitions' = Append(partitions, f[index + 1]) /\ f[index + 1] \in PartitionSet /\ index + 1 \in S
          /\ f[index + 1].size > 0
      BY <1>1, <1>7, <2>1, <3>1
    <3>3. ReadSoFar(Append(partitions, f[index + 1]), f, S, index + 1)
      BY <1>4, <1>5, <1>8, <3>2, ReadUsed
    <3>4. \A i \in DOMAIN Append(partitions, f[index + 1]) : Append(partitions, f[index + 1])[i].size > 0
      BY <1>5, <1>11, <3>2, OneMoreNotEmpty
    <3> QED BY <3>2, <3>3, <3>4
  <2>2. CASE ~IsPartition(e)
    <3>1. index + 1 \notin S /\ partitions' = partitions
      BY <1>1, <1>7, <2>2
    <3>2. ReadSoFar(partitions, f, S, index + 1)
      BY <1>4, <1>5, <1>8, <3>1, ReadUnused
    <3> QED BY <1>11, <3>1, <3>2
  <2> QED BY <2>1, <2>2
<1>13. PrimaryWalk'
  BY <1>1, <1>6, <1>8, <1>10, <1>12 DEF PrimaryWalk, S, f
<1>14. visited = {} /\ last_end = 0
  BY <1>1, <1>2 DEF TableInv, Begun
<1>15. NotEmpty' /\ Begun'
  BY <1>1, <1>12, <1>14 DEF NotEmpty, Begun
<1>16. ChainWalk' /\ ValidateWalk' /\ EntryWalk' /\ MapWalk' /\ Opened'
  BY <1>1 DEF ChainWalk, ValidateWalk, EntryWalk, MapWalk, Opened
<1> QED BY <1>9, <1>10, <1>13, <1>15, <1>16 DEF TableInv, MbrWalks


LEMMA FunctionIsList ==
  ASSUME NEW n \in Nat, NEW f, DOMAIN f = 1..n, f = [i \in DOMAIN f |-> f[i]],
         \A i \in 1..n : f[i] \in PartitionSet
  PROVE  f \in Seq(PartitionSet) /\ Len(f) = n
<1>1. f \in [1..n -> PartitionSet]
  OBVIOUS
<1> QED BY <1>1

LEMMA SameMembers ==
  ASSUME NEW s \in Seq(PartitionSet), NEW t \in Seq(PartitionSet), NEW n \in Nat,
         Len(s) = n, Len(t) = n, \A i \in 1..n : s[i] = t[i]
  PROVE  s = t
OBVIOUS

(* A list that begins with A and goes on with B.                           *)
Joined(ps, A, a, B, b) ==
  /\ DOMAIN A = 1..a /\ A = [i \in DOMAIN A |-> A[i]]
  /\ DOMAIN B = 1..b /\ B = [i \in DOMAIN B |-> B[i]]
  /\ Len(ps) = a + b
  /\ \A i \in 1..a : ps[i] = A[i]
  /\ \A i \in 1..b : ps[a + i] = B[i]

LEMMA JoinedList ==
  ASSUME NEW ps \in Seq(PartitionSet), NEW a \in Nat, NEW b \in Nat, NEW A, NEW B,
         Joined(ps, A, a, B, b)
  PROVE  ps = A \o B
<1> USE DEF Joined
<1>1. DOMAIN ps = 1..a + b /\ \A i \in 1..a + b : ps[i] \in PartitionSet
  OBVIOUS
<1>2. \A i \in 1..a : i \in 1..a + b
  OBVIOUS
<1>3. \A i \in 1..b : a + i \in 1..a + b
  OBVIOUS
<1>4. \A i \in 1..a : A[i] \in PartitionSet
  BY <1>1, <1>2
<1>5. \A i \in 1..b : B[i] \in PartitionSet
  BY <1>1, <1>3
<1>6. A \in Seq(PartitionSet) /\ Len(A) = a
  BY <1>4, FunctionIsList
<1>7. B \in Seq(PartitionSet) /\ Len(B) = b
  BY <1>5, FunctionIsList
<1>8. A \o B \in Seq(PartitionSet) /\ Len(A \o B) = a + b
  BY <1>6, <1>7
<1>9. \A i \in 1..a + b : ps[i] = (A \o B)[i]
  <2> SUFFICES ASSUME NEW i \in 1..a + b PROVE ps[i] = (A \o B)[i]
    OBVIOUS
  <2>1. CASE i <= a
    <3>1. i \in 1..a
      BY <2>1
    <3>2. (A \o B)[i] = A[i]
      BY <1>6, <1>7, <3>1
    <3> QED BY <3>1, <3>2
  <2>2. CASE ~(i <= a)
    <3>1. i - a \in 1..b /\ a + (i - a) = i
      BY <2>2
    <3>2. (A \o B)[i] = B[i - a]
      BY <1>6, <1>7, <2>2
    <3>3. ps[a + (i - a)] = B[i - a]
      BY <3>1
    <3> QED BY <3>1, <3>2, <3>3
  <2> QED BY <2>1, <2>2
<1>10. a + b \in Nat
  OBVIOUS
<1> QED BY <1>8, <1>9, <1>10, SameMembers

(* A walk that has come to the end of the links has all that is declared.  *)
LEMMA DeclaredIs ==
  ASSUME NEW d, NEW s, NEW k \in 0..MaxLogical, NEW ps \in Seq(PartitionSet),
         FollowedTo(ps, d, s, k),
         \A i \in 1..k : Path(d, s)[i] # -1 /\ EbrSound(d, Path(d, s)[i]),
         Path(d, s)[k + 1] = -1,
         Cardinality(Logicals(d.headers[0])) \in Nat
  PROVE  ps = MbrDeclared(d, s) /\ ChainSound(d, s)
<1> DEFINE A == Primaries(d, s)
           B == [i \in 1..Len(Chain(d, s)) |-> LogicalAt(d, s, Chain(d, s)[i])]
           a == Cardinality(Logicals(d.headers[0]))
<1>1. k \in 0..MaxLogical + 1 /\ k \in Nat
  BY MaxLogicalAssumption
<1>2. Chain(d, s) = [i \in 1..k |-> Path(d, s)[i]] /\ Len(Chain(d, s)) = k
  BY <1>1, ChainIs
<1>3. ChainSound(d, s)
  <2>1. k <= MaxLogical
    BY MaxLogicalAssumption
  <2> QED BY <1>2, <2>1 DEF ChainSound
<1>4. A = [i \in DOMAIN A |-> A[i]] /\ DOMAIN A = 1..a
  BY DEF Primaries, InTableOrder
<1>5. Len(A) = a
  BY <1>4
<1>6. /\ B = [i \in DOMAIN B |-> B[i]] /\ DOMAIN B = 1..k
      /\ \A i \in 1..k : B[i] = LogicalAt(d, s, Path(d, s)[i])
  BY <1>2
<1>7. MbrDeclared(d, s) = A \o B
  BY DEF MbrDeclared
<1>8. /\ Len(ps) = Len(A) + k
      /\ \A i \in 1..Len(A) : ps[i] = A[i]
      /\ \A i \in 1..k : ps[Len(A) + i] = LogicalAt(d, s, Path(d, s)[i])
  BY DEF FollowedTo
<1> HIDE DEF A, B, a
<1>9. /\ Len(ps) = a + k
      /\ \A i \in 1..a : ps[i] = A[i]
      /\ \A i \in 1..k : ps[a + i] = B[i]
  BY <1>5, <1>6, <1>8
<1>10. a \in Nat
  BY DEF a
<1>11. ps = A \o B
  <2>1. Joined(ps, A, a, B, k)
    BY <1>4, <1>6, <1>9 DEF Joined
  <2>2. ps \in Seq(PartitionSet) /\ a \in Nat /\ k \in Nat
    BY <1>1, <1>10
  <2> QED BY ONLY <2>1, <2>2, JoinedList
<1> QED BY <1>3, <1>7, <1>11

LEMMA EndPrimariesTables ==
  ASSUME TableInv, EndPrimaries
  PROVE  TableInv'
<1> DEFINE record == disk.headers[0]
<1>1. /\ pc = "primary" /\ index = Len(record)
      /\ pc' = IF Links(record) = {} THEN "validate" ELSE "chain"
      /\ UNCHANGED <<disk, attempt, partitions, base, ebr, visited, checked, last_end, index>>
  BY DEF EndPrimaries, loop
<1>2. Types /\ disk.kind = "mbr" /\ 0 \in DOMAIN disk.headers /\ checked = {}
  BY <1>1 DEF TableInv, FitInv, Phases
<1>3. record \in Seq(EntrySet)
  BY <1>2, MbrRecord
<1>4. Len(record) \in Nat /\ Logicals(record) \in SUBSET (1..Len(record)) /\ Cardinality(Logicals(record)) \in Nat
  BY <1>3, RecordPlaces
<1>5. /\ BootSound(disk)
      /\ ReadSoFar(partitions, BootTable(disk, Bps), Logicals(record), Len(record))
      /\ Links(record) # {} => base = LinkOf(disk, Bps, 0) /\ ebr = base
  BY <1>1 DEF TableInv, MbrWalks, PrimaryWalk
<1>6. partitions \in Seq(PartitionSet)
  BY <1>2 DEF Types
<1>7. partitions = Primaries(disk, Bps)
  BY <1>4, <1>5, <1>6, ReadAll DEF Primaries
<1>8. visited = {} /\ last_end = 0
  BY <1>1, <1>2 DEF TableInv, Begun
<1>9. FitInv' /\ Refused' /\ Bps' = Bps
  <2>1. FitInv'
    BY EndPrimariesInv DEF TableInv
  <2>2. pc' # "err"
    BY <1>1
  <2> QED BY <1>1, <2>1, <2>2, GoesOn
<1>10. FollowedTo(partitions, disk, Bps, 0)
  <2>1. Len(partitions) \in Nat /\ 1..0 = {}
    BY <1>6
  <2> QED BY <1>7, <2>1 DEF FollowedTo
<1>11. Path(disk, Bps)[1] = LinkOf(disk, Bps, 0)
  BY PathEquation
<1>12. NotEmpty' /\ Begun' /\ PrimaryWalk' /\ EntryWalk' /\ MapWalk' /\ Opened'
  <2>1. pc' \in {"validate", "chain"}
    BY <1>1
  <2>2. NotEmpty'
    BY <1>1 DEF TableInv, NotEmpty
  <2> QED BY <2>1, <2>2 DEF Begun, PrimaryWalk, EntryWalk, MapWalk, Opened
<1> HIDE DEF record
<1>13. CASE Links(record) = {}
  <2>1. pc' = "validate"
    BY <1>1, <1>13
  <2>2. Path(disk, Bps)[0 + 1] = -1
    BY <1>2, <1>11, <1>13, LinkOfType DEF record
  <2>3. 0 \in 0..MaxLogical /\ 1..0 = {}
    BY MaxLogicalAssumption
  <2>4. partitions = MbrDeclared(disk, Bps) /\ ChainSound(disk, Bps)
    BY <1>4, <1>6, <1>10, <2>2, <2>3, DeclaredIs DEF record
  <2>5. ValidateWalk'
    BY <1>1, <1>2, <1>5, <1>8, <1>9, <2>4 DEF ValidateWalk
  <2>6. ChainWalk'
    BY <2>1 DEF ChainWalk
  <2> QED BY <1>9, <1>12, <2>5, <2>6 DEF TableInv, MbrWalks
<1>14. CASE Links(record) # {}
  <2>1. pc' = "chain"
    BY <1>1, <1>14
  <2>2. /\ IsFiniteSet(visited) /\ Cardinality(visited) = 0 /\ 0 <= MaxLogical
        /\ 1..0 = {}
    BY <1>8, FS_EmptySet, MaxLogicalAssumption
  <2>3. Path(disk, Bps)[Cardinality(visited) + 1] = ebr
    BY <1>5, <1>11, <1>14, <2>2
  <2>4. ChainWalk'
    BY <1>1, <1>5, <1>8, <1>9, <1>10, <1>14, <2>2, <2>3 DEF ChainWalk, record
  <2>5. ValidateWalk'
    BY <2>1 DEF ValidateWalk
  <2> QED BY <1>9, <1>12, <2>4, <2>5 DEF TableInv, MbrWalks
<1> QED BY <1>13, <1>14


(* What a walk along the links has after one more record.                  *)
LEMMA FollowedOne ==
  ASSUME NEW d, NEW s, NEW k \in Nat, NEW ps \in Seq(PartitionSet), FollowedTo(ps, d, s, k),
         NEW p \in PartitionSet, p = LogicalAt(d, s, Path(d, s)[k + 1]),
         Cardinality(Logicals(d.headers[0])) \in Nat
  PROVE  FollowedTo(Append(ps, p), d, s, k + 1)
<1> DEFINE A == Primaries(d, s)
           a == Len(A)
           qs == Append(ps, p)
<1>1. /\ Len(ps) = a + k
      /\ \A i \in 1..a : ps[i] = A[i]
      /\ \A i \in 1..k : ps[a + i] = LogicalAt(d, s, Path(d, s)[i])
  BY DEF FollowedTo
<1>2. a \in Nat
  BY DEF Primaries, InTableOrder
<1>3. /\ DOMAIN qs = 1..(Len(ps) + 1) /\ DOMAIN ps = 1..Len(ps)
      /\ Len(ps) \in Nat /\ qs[Len(ps) + 1] = p
      /\ \A i \in DOMAIN ps : qs[i] = ps[i]
      /\ qs \in Seq(PartitionSet)
  BY OneMore
<1> HIDE DEF A, a, qs
<1>4. Len(qs) = a + (k + 1)
  BY <1>1, <1>2, <1>3
<1>5. \A i \in 1..a : qs[i] = A[i]
  <2>1. \A i \in 1..a : i \in DOMAIN ps
    BY <1>1, <1>2, <1>3
  <2> QED BY <1>1, <1>3, <2>1
<1>6. \A i \in 1..k + 1 : qs[a + i] = LogicalAt(d, s, Path(d, s)[i])
  <2> SUFFICES ASSUME NEW i \in 1..k + 1 PROVE qs[a + i] = LogicalAt(d, s, Path(d, s)[i])
    OBVIOUS
  <2>1. CASE i \in 1..k
    <3>1. a + i \in DOMAIN ps
      BY <1>1, <1>2, <1>3, <2>1
    <3> QED BY <1>1, <1>3, <2>1, <3>1
  <2>2. CASE i = k + 1
    <3>1. a + i = Len(ps) + 1
      BY <1>1, <1>2, <2>2
    <3> QED BY <1>3, <2>2, <3>1
  <2>3. i \in 1..k \/ i = k + 1
    OBVIOUS
  <2> QED BY <2>1, <2>2, <2>3
<1> QED BY <1>4, <1>5, <1>6 DEF FollowedTo, A, a, qs

LEMMA ReadEbrTables ==
  ASSUME TableInv, ReadEbr
  PROVE  TableInv'
<1> DEFINE k == Cardinality(visited)
           P == Path(disk, Bps)
           record == disk.headers[ebr]
           p == partition_from_entry(Only(record, Logicals(record)), ebr)
           bad == k >= MaxLogical \/ ebr \in visited \/ ~EbrSound(disk, ebr)
<1>1. pc = "chain"
  BY DEF ReadEbr
<1>2. Types /\ disk.kind = "mbr" /\ checked = {}
  BY <1>1 DEF TableInv, FitInv, Phases
<1>3. /\ BootSound(disk) /\ last_end = 0
      /\ Links(disk.headers[0]) # {} /\ base = LinkOf(disk, Bps, 0)
      /\ IsFiniteSet(visited) /\ k <= MaxLogical
      /\ visited = {P[i] : i \in 1..k}
      /\ \A i \in 1..k : P[i] # -1 /\ EbrSound(disk, P[i])
      /\ P[k + 1] = ebr
      /\ FollowedTo(partitions, disk, Bps, k)
  BY <1>1 DEF TableInv, MbrWalks, ChainWalk
<1>4. k \in Nat /\ k \in 0..MaxLogical /\ MaxLogical \in Nat
  <2>1. k \in Nat
    BY <1>3, FS_CardinalityType
  <2> QED BY <1>3, <2>1, MaxLogicalAssumption
<1>5. ebr \in Nat /\ ebr # -1 /\ base \in Nat /\ partitions \in Seq(PartitionSet)
  BY <1>2 DEF Types
<1>6. CASE bad
  <2>1. Refuse
    BY <1>6 DEF ReadEbr
  <2>2. \/ k >= MaxLogical
        \/ \E i \in 1..k : P[i] = P[k + 1]
        \/ ~EbrSound(disk, P[k + 1])
    BY <1>3, <1>6
  <2> HIDE DEF k, bad
  <2>3. ~ChainSound(disk, Bps)
    BY <1>3, <1>4, <1>5, <2>2, EbrRefused
  <2>4. ~Sound(disk, Bps)
    BY <1>2, <2>3, SoundOfKind DEF MbrSound
  <2> QED BY <2>1, <2>4, RefuseTables
<1>7. CASE ~bad
  <2>1. /\ visited' = visited \cup {ebr}
        /\ partitions' = Append(partitions, p)
        /\ pc' = IF Links(record) = {} THEN "validate" ELSE pc
        /\ ebr' = IF Links(record) = {} THEN ebr ELSE base + Only(record, Links(record)).start * Bps
        /\ UNCHANGED <<disk, attempt, base, checked, last_end, index>>
    BY <1>7 DEF ReadEbr, FollowEbr, NextEbr
  <2>2. ~(k >= MaxLogical) /\ ebr \notin visited /\ EbrSound(disk, ebr)
    BY <1>7
  <2>3. FitInv'
    BY ReadEbrInv DEF TableInv
  <2>4. Refused' /\ Bps' = Bps
    <3>1. pc' # "err"
      BY <1>1, <2>1
    <3> QED BY <2>1, <3>1, GoesOn
  <2>5. ebr \in DOMAIN disk.headers /\ Cardinality(Logicals(record)) = 1
    BY <2>2 DEF EbrSound, Records
  <2>6. record \in Seq(EntrySet)
    BY <1>2, <2>5, MbrRecord
  <2>7. Only(record, Logicals(record)) \in EntrySet /\ IsPartition(Only(record, Logicals(record)))
    <3>1. Logicals(record) # {}
      BY <2>5, FS_EmptySet
    <3>2. (CHOOSE i \in Logicals(record) : TRUE) \in Logicals(record)
      BY <3>1, Zenon
    <3>3. Logicals(record) \in SUBSET DOMAIN record
      BY DEF Logicals
    <3>4. Only(record, Logicals(record)) \in EntrySet
      BY <2>6, <3>1, <3>3, OnlyType
    <3>5. \A i \in Logicals(record) : IsPartition(record[i])
      BY DEF Logicals
    <3> QED BY <3>2, <3>4, <3>5 DEF Only
  <2>8. p = LogicalAt(disk, Bps, P[k + 1]) /\ p \in PartitionSet /\ p.size > 0
    <3>1. /\ p = Scaled(Only(record, Logicals(record)), ebr, Bps)
          /\ p \in PartitionSet /\ p.size > 0
      BY <1>2, <1>5, <2>7, EntryBecomes
    <3> QED BY <1>3, <3>1 DEF LogicalAt, LogicalEntry
  <2>9. Cardinality(Logicals(disk.headers[0])) \in Nat
    <3>1. 0 \in DOMAIN disk.headers
      BY <1>3 DEF BootSound, Records
    <3>2. disk.headers[0] \in Seq(EntrySet)
      BY <1>2, <3>1, MbrRecord
    <3> QED BY <3>2, RecordPlaces
  <2>10. k + 1 \in Nat /\ k + 1 <= MaxLogical /\ k + 1 \in 0..MaxLogical /\ k + 1 \in 1..MaxLogical
    BY <1>4, <2>2
  <2>11. IsFiniteSet(visited') /\ Cardinality(visited') = k + 1
    BY <1>3, <2>1, <2>2, FS_AddElement
  <2> HIDE DEF k, p, bad
  <2>12. FollowedTo(partitions', disk, Bps, k + 1)
    BY <1>3, <1>4, <1>5, <2>1, <2>8, <2>9, FollowedOne
  <2>13. visited' = {P[i] : i \in 1..k + 1}
    <3>1. \A i \in 1..k + 1 : i \in 1..k \/ i = k + 1
      BY <1>4
    <3>2. k + 1 \in 1..k + 1 /\ \A i \in 1..k : i \in 1..k + 1
      BY <1>4
    <3> QED BY <1>3, <2>1, <3>1, <3>2
  <2>14. \A i \in 1..k + 1 : P[i] # -1 /\ EbrSound(disk, P[i])
    <3>1. \A i \in 1..k + 1 : i \in 1..k \/ i = k + 1
      BY <1>4
    <3> QED BY <1>3, <1>5, <2>2, <3>1
  <2>15. P[(k + 1) + 1] = After(disk, Bps, ebr)
    BY <1>3, <2>10, PathEquation
  <2>16. NotEmpty'
    <3>1. \A i \in DOMAIN partitions : partitions[i].size > 0
      BY <1>2 DEF TableInv, NotEmpty
    <3>2. \A i \in DOMAIN Append(partitions, p) : Append(partitions, p)[i].size > 0
      BY <1>5, <2>8, <3>1, OneMoreNotEmpty
    <3> QED BY <2>1, <3>2 DEF NotEmpty
  <2>17. Begun' /\ PrimaryWalk' /\ EntryWalk' /\ MapWalk' /\ Opened'
    <3>1. pc' \in {"validate", "chain"}
      BY <1>1, <2>1
    <3> QED BY <3>1 DEF Begun, PrimaryWalk, EntryWalk, MapWalk, Opened
  <2>18. CASE Links(record) = {}
    <3>1. pc' = "validate"
      BY <2>1, <2>18
    <3>2. LinkOf(disk, Bps, ebr) = -1
      BY <1>2, <2>5, <2>18, LinkOfType
    <3>3. P[(k + 1) + 1] = -1
      BY <2>15, <3>2 DEF After
    <3>4. partitions' \in Seq(PartitionSet)
      BY <2>3 DEF FitInv, Types
    <3>5. partitions' = MbrDeclared(disk, Bps) /\ ChainSound(disk, Bps)
      BY <2>9, <2>10, <2>12, <2>14, <3>3, <3>4, DeclaredIs
    <3>6. ValidateWalk'
      BY <1>2, <1>3, <2>1, <2>4, <3>5 DEF ValidateWalk
    <3>7. ChainWalk'
      BY <3>1 DEF ChainWalk
    <3> QED BY <2>3, <2>4, <2>16, <2>17, <3>6, <3>7 DEF TableInv, MbrWalks
  <2>19. CASE Links(record) # {}
    <3>1. pc' = "chain"
      BY <1>1, <2>1, <2>19
    <3>2. /\ LinkOf(disk, Bps, ebr) = Only(record, Links(record)).start * Bps
          /\ LinkOf(disk, Bps, ebr) # -1
      BY <1>2, <2>5, <2>19, LinkOfType
    <3>3. P[(k + 1) + 1] = ebr'
      BY <1>3, <1>5, <2>1, <2>2, <2>15, <2>19, <3>2 DEF After
    <3>4. ChainWalk'
      <4>1. /\ disk' = disk /\ Bps' = Bps /\ Cardinality(visited') = k + 1
            /\ base' = base /\ last_end' = last_end
        BY <2>1, <2>4, <2>11
      <4> QED BY <1>3, <2>10, <2>11, <2>12, <2>13, <2>14, <3>3, <4>1 DEF ChainWalk
    <3>5. ValidateWalk'
      BY <3>1 DEF ValidateWalk
    <3> QED BY <2>3, <2>4, <2>16, <2>17, <3>4, <3>5 DEF TableInv, MbrWalks
  <2> QED BY <2>18, <2>19
<1> QED BY <1>6, <1>7

(* validate_partitions refuses only partitions that share a unit or leave  *)
(* the source: of two that begin in order, and are not empty, the second   *)
(* overlaps the first when it begins before its end.                       *)
LEMMA ValidateRefused ==
  ASSUME TableInv, pc = "validate", NEW i \in Unchecked,
         \A j \in Unchecked : partitions[i].offset <= partitions[j].offset,
         partitions[i].offset < last_end \/ End(partitions[i]) > disk.size
  PROVE  ~MbrSound(disk, Bps)
<1> SUFFICES ASSUME MbrSound(disk, Bps) PROVE FALSE
  OBVIOUS
<1>1. Types /\ disk.kind = "mbr"
  BY DEF TableInv, FitInv, Phases
<1>2. /\ partitions = MbrDeclared(disk, Bps)
      /\ last_end = 0 \/ \E j \in checked : last_end = End(partitions[j])
      /\ \A j \in checked : partitions[j].offset <= partitions[i].offset
  BY DEF TableInv, MbrWalks, ValidateWalk
<1>3. Apart(partitions) /\ Inside(disk, Bps, partitions)
  BY <1>2 DEF MbrSound
<1>4. i \in DOMAIN partitions /\ i \notin checked /\ checked \subseteq DOMAIN partitions
  BY <1>1 DEF Unchecked, Types
<1>5. /\ partitions[i].offset \in Nat /\ End(partitions[i]) \in Nat
      /\ last_end \in Nat /\ disk.size \in Nat
      /\ \A j \in DOMAIN partitions : partitions[j].offset \in Nat /\ End(partitions[j]) \in Nat
  BY <1>1, <1>4, PartitionType, DiskAssumption DEF Types, DiskOk
<1>6. partitions[i].offset < End(partitions[i])
  <2>1. partitions[i].size > 0
    BY <1>1, <1>4 DEF TableInv, NotEmpty
  <2>2. partitions[i] \in PartitionSet
    BY <1>1, <1>4 DEF Types
  <2>3. partitions[i].size \in Nat
    BY <2>2 DEF PartitionSet
  <2> QED BY <1>5, <2>1, <2>3 DEF End
<1>7. CASE End(partitions[i]) > disk.size
  <2>1. Room(disk, Bps)[2] = disk.size
    BY <1>1 DEF Room
  <2>2. End(partitions[i]) <= disk.size
    BY <1>3, <1>4, <2>1 DEF Inside
  <2> QED BY <1>5, <1>7, <2>2
<1>8. CASE partitions[i].offset < last_end
  <2>1. PICK j \in checked : last_end = End(partitions[j])
    BY <1>2, <1>5, <1>8
  <2>2. j \in DOMAIN partitions /\ j # i
    BY <1>4, <2>1
  <2>3. End(partitions[j]) <= partitions[i].offset \/ End(partitions[i]) <= partitions[j].offset
    BY <1>3, <1>4, <2>2 DEF Apart, Disjoint
  <2>4. partitions[j].offset <= partitions[i].offset
    BY <1>2, <2>1
  <2>5. partitions[j].offset \in Nat
    BY <1>5, <2>2
  <2> QED BY <1>5, <1>6, <1>8, <2>1, <2>3, <2>4, <2>5
<1> QED BY <1>7, <1>8

LEMMA ValidatePartitionTables ==
  ASSUME TableInv, ValidatePartition
  PROVE  TableInv'
<1> DEFINE i == NextToCheck
           bad == partitions[i].offset < last_end \/ End(partitions[i]) > disk.size
<1>1. pc = "validate" /\ Unchecked # {}
  BY DEF ValidatePartition
<1>2. Types /\ disk.kind = "mbr"
  BY <1>1 DEF TableInv, FitInv, Phases
<1>3. i \in Unchecked /\ \A j \in Unchecked : partitions[i].offset <= partitions[j].offset
  BY <1>1, <1>2, NextIsUnchecked
<1>4. CASE bad
  <2>1. Refuse
    BY <1>4 DEF ValidatePartition
  <2>2. ~MbrSound(disk, Bps)
    <3> HIDE DEF i
    <3> QED BY <1>1, <1>3, <1>4, ValidateRefused
  <2> QED BY <1>2, <2>1, <2>2, RefuseTables, SoundOfKind
<1>5. CASE ~bad
  <2>1. /\ checked' = checked \cup {i}
        /\ last_end' = End(partitions[i])
        /\ UNCHANGED <<disk, attempt, pc, partitions, base, ebr, visited, index>>
    BY <1>5 DEF ValidatePartition
  <2> HIDE DEF i
  <2>2. FitInv'
    BY ValidatePartitionInv DEF TableInv
  <2>3. Refused' /\ Bps' = Bps
    BY <1>1, <2>1, GoesOn
  <2>4. /\ BootSound(disk) /\ ChainSound(disk, Bps)
        /\ partitions = MbrDeclared(disk, Bps)
        /\ \A j \in checked, u \in Unchecked : partitions[j].offset <= partitions[u].offset
    BY <1>1 DEF TableInv, MbrWalks, ValidateWalk
  <2>5. Unchecked' = Unchecked \ {i}
    BY <2>1 DEF Unchecked
  <2>6. \A j \in checked', u \in Unchecked' : partitions[j].offset <= partitions[u].offset
    BY <1>3, <2>1, <2>4, <2>5
  <2>7. i \in checked' /\ last_end' = End(partitions'[i])
    BY <2>1
  <2>8. \E j \in checked' : last_end' = End(partitions'[j])
    BY <2>7
  <2>9. ValidateWalk'
    BY <2>1, <2>3, <2>4, <2>6, <2>8 DEF ValidateWalk
  <2>10. NotEmpty'
    BY <2>1 DEF TableInv, NotEmpty
  <2>11. Begun' /\ PrimaryWalk' /\ ChainWalk' /\ EntryWalk' /\ MapWalk' /\ Opened'
    BY <1>1, <2>1 DEF Begun, PrimaryWalk, ChainWalk, EntryWalk, MapWalk, Opened
  <2> QED BY <2>2, <2>3, <2>9, <2>10, <2>11 DEF TableInv, MbrWalks
<1> QED BY <1>4, <1>5

LEMMA AllValidTables ==
  ASSUME TableInv, AllValid
  PROVE  TableInv'
<1>1. /\ pc = "validate" /\ pc' = "ok"
      /\ UNCHANGED <<disk, attempt, partitions, base, ebr, visited, checked, last_end, index>>
  BY DEF AllValid, loop
<1>2. disk.kind = "mbr"
  BY <1>1 DEF TableInv, FitInv, Phases
<1>3. FitInv'
  BY AllValidInv DEF TableInv
<1>4. Refused' /\ Bps' = Bps
  BY <1>1, GoesOn
<1>5. BootSound(disk) /\ ChainSound(disk, Bps) /\ partitions = MbrDeclared(disk, Bps)
  BY <1>1 DEF TableInv, MbrWalks, ValidateWalk
<1>6. Apart(partitions) /\ Inside(disk, Bps, partitions)
  <2>1. checked' = DOMAIN partitions' /\ CheckedApart' /\ Types'
    BY <1>1, <1>2, <1>3 DEF FitInv, Phases
  <2>2. checked = DOMAIN partitions /\ CheckedApart /\ Types
    BY <1>1, <2>1 DEF TableInv, FitInv
  <2>3. Room(disk, Bps) = <<0, disk.size>>
    BY <1>2 DEF Room
  <2>4. \A i \in DOMAIN partitions : partitions[i].offset \in Nat
    BY <2>2, PartitionType
  <2>5. Inside(disk, Bps, partitions)
    BY <2>2, <2>3, <2>4 DEF Inside, CheckedApart
  <2>6. Apart(partitions)
    BY <2>2 DEF Apart, CheckedApart
  <2> QED BY <2>5, <2>6
<1>7. MbrSound(disk, Bps)
  BY <1>5, <1>6 DEF MbrSound
<1>8. Opened'
  BY <1>1, <1>2, <1>4, <1>5, <1>7, SoundOfKind DEF Opened
<1>9. NotEmpty'
  BY <1>1 DEF TableInv, NotEmpty
<1>10. Begun' /\ MbrWalks' /\ EntryWalk' /\ MapWalk'
  BY <1>1 DEF Begun, MbrWalks, PrimaryWalk, ChainWalk, ValidateWalk, EntryWalk, MapWalk
<1> QED BY <1>3, <1>4, <1>8, <1>9, <1>10 DEF TableInv
-----------------------------------------------------------------------------
LEMMA TableInit ==
  ASSUME Init
  PROVE  TableInv
<1>1. /\ attempt = 1 /\ pc = "open" /\ partitions = <<>>
      /\ visited = {} /\ last_end = 0 /\ index = 0
  BY DEF Init, Fresh
<1>2. FitInv
  BY FitInit
<1>3. Refused /\ Begun /\ NotEmpty /\ MbrWalks /\ EntryWalk /\ MapWalk /\ Opened
  BY <1>1 DEF Refused, Begun, NotEmpty, MbrWalks, PrimaryWalk, ChainWalk, ValidateWalk, EntryWalk, MapWalk, Opened
<1> QED BY <1>2, <1>3 DEF TableInv

LEMMA TableStutter ==
  ASSUME TableInv, UNCHANGED vars
  PROVE  TableInv'
<1>1. UNCHANGED <<disk, attempt, pc, partitions, base, ebr, visited, checked, last_end, index>>
  BY DEF vars, loop
<1>2. FitInv'
  BY FitStutter DEF TableInv
<1>3. Bps' = Bps /\ Unchecked' = Unchecked
  BY <1>1 DEF Bps, Unchecked
<1>4. Refused' /\ Begun' /\ NotEmpty' /\ Opened'
  BY <1>1, <1>3 DEF TableInv, Refused, Begun, NotEmpty, Opened
<1>5. PrimaryWalk' /\ ChainWalk' /\ ValidateWalk'
  BY <1>1, <1>3 DEF TableInv, MbrWalks, PrimaryWalk, ChainWalk, ValidateWalk
<1>6. EntryWalk' /\ MapWalk'
  BY <1>1, <1>3 DEF TableInv, EntryWalk, MapWalk
<1> QED BY <1>2, <1>4, <1>5, <1>6 DEF TableInv, MbrWalks

LEMMA TableNext ==
  ASSUME TableInv, [VolumesNext]_vars
  PROVE  TableInv'
<1>1. CASE MbrNext
  BY <1>1, ReadBootRecordTables, ReadPrimaryTables, EndPrimariesTables, ReadEbrTables,
     ValidatePartitionTables, AllValidTables DEF MbrNext
<1>2. CASE GptNext
  BY <1>2, ReadGptHeaderTables, ReadGptEntryTables, CheckGptTableTables DEF GptNext
<1>3. CASE ReadApmEntry
  BY <1>3, ReadApmEntryTables
<1>4. CASE UNCHANGED vars
  BY <1>4, TableStutter
<1> QED BY <1>1, <1>2, <1>3, <1>4 DEF VolumesNext

(* Of the logical partitions only the first is where the document has it:  *)
(* the walk never comes back to the first record.                          *)
LEMMA OnlyTheFirst ==
  ASSUME Types, disk.kind = "mbr", MbrSound(disk, Bps), partitions = MbrDeclared(disk, Bps),
         NEW i \in 1..Len(Chain(disk, Bps))
  PROVE  (partitions[Len(Primaries(disk, Bps)) + i]
            = LogicalDocumented(disk, Bps, Chain(disk, Bps)[i])) <=> i = 1
<1> DEFINE P == Path(disk, Bps)
           A == Primaries(disk, Bps)
           B == [j \in 1..Len(Chain(disk, Bps)) |-> LogicalAt(disk, Bps, Chain(disk, Bps)[j])]
           a == Cardinality(Logicals(disk.headers[0]))
           e == LogicalEntry(disk, P[i])
           first == LinkOf(disk, Bps, 0)
<1>1. PICK c \in 0..MaxLogical + 1 :
        /\ \A j \in 1..c : P[j] # -1
        /\ c = MaxLogical + 1 \/ P[c + 1] = -1
  BY ChainShape
<1>2. Chain(disk, Bps) = [j \in 1..c |-> P[j]] /\ Len(Chain(disk, Bps)) = c
  BY <1>1, ChainIs
<1>3. /\ c \in Nat /\ i \in 1..c /\ c <= MaxLogical /\ MaxLogical \in Nat
      /\ \A j \in 1..c : EbrSound(disk, P[j])
  BY <1>1, <1>2, MaxLogicalAssumption DEF MbrSound, ChainSound
<1>4. 0 \in DOMAIN disk.headers
  BY DEF MbrSound, BootSound, Records
<1>5. a \in Nat
  BY <1>4, MbrRecord, RecordPlaces
<1>6. A = [j \in 1..a |-> A[j]] /\ Len(A) = a
  BY <1>5 DEF Primaries, InTableOrder
<1>7. partitions = A \o B
  BY DEF MbrDeclared
<1>8. Len(B) = c /\ DOMAIN B = 1..c /\ B[i] = LogicalAt(disk, Bps, P[i])
  BY <1>2, <1>3
<1> HIDE DEF A, B, a
<1>9. partitions[a + i] = B[i]
  BY <1>3, <1>5, <1>6, <1>7, <1>8
<1>10. P[1] = first
  BY <1>3, PathEquation
<1>11. P[i] \in DOMAIN disk.headers /\ P[1] \in DOMAIN disk.headers
  BY <1>3 DEF EbrSound, Records
<1>12. first \in Nat
  <2>1. LinkOf(disk, Bps, 0) # -1
    BY <1>1, <1>3, <1>10
  <2> QED BY <1>4, <2>1, LinkOfType
<1>13. P[i] \in Nat
  <2>1. CASE i = 1
    BY <1>10, <1>12, <2>1
  <2>2. CASE i # 1
    <3>1. i - 1 \in 1..c /\ i - 1 \in 1..MaxLogical /\ (i - 1) + 1 = i
      BY <1>3, <2>2
    <3>2. P[i] = After(disk, Bps, P[i - 1]) /\ P[i] # -1
      BY <1>1, <1>3, <3>1, PathEquation
    <3>3. P[i - 1] \in DOMAIN disk.headers
      BY <1>3, <3>1 DEF EbrSound, Records
    <3>4. P[i] = LinkOf(disk, Bps, 0) + LinkOf(disk, Bps, P[i - 1]) /\ LinkOf(disk, Bps, P[i - 1]) # -1
      BY <3>2 DEF After
    <3>5. LinkOf(disk, Bps, P[i - 1]) \in Nat
      BY <3>3, <3>4, LinkOfType
    <3> QED BY <1>12, <3>4, <3>5
  <2> QED BY <2>1, <2>2
<1>14. e.start \in Nat /\ e.sectors \in Nat /\ Bps \in Nat
  <2> DEFINE record == disk.headers[P[i]]
  <2>1. record \in Seq(EntrySet)
    BY <1>11, MbrRecord
  <2>2. Logicals(record) # {}
    <3>1. Cardinality(Logicals(record)) = 1
      BY <1>3 DEF EbrSound
    <3>2. Cardinality({}) = 0
      BY FS_EmptySet
    <3>3. Logicals(record) = {} => Cardinality(Logicals(record)) = Cardinality({})
      OBVIOUS
    <3> HIDE DEF record
    <3> QED BY <3>1, <3>2, <3>3
  <2>3. Logicals(record) \in SUBSET DOMAIN record
    BY DEF Logicals
  <2> HIDE DEF record
  <2>4. Only(record, Logicals(record)) \in EntrySet
    BY <2>1, <2>2, <2>3, OnlyType
  <2>5. e = Only(record, Logicals(record))
    BY DEF LogicalEntry, record
  <2> HIDE DEF e
  <2> QED BY <2>4, <2>5, BpsType DEF EntrySet
<1>15. e.start * Bps \in Nat
  BY <1>14, Product
<1>16. ASSUME i # 1 PROVE P[i] # first
  <2> SUFFICES ASSUME P[i] = P[1] PROVE FALSE
    BY <1>10
  <2>1. i - 1 \in 0..MaxLogical /\ 1 \in 1..i - 1 /\ (i - 1) + 1 = i
    BY <1>3, <1>16
  <2>2. P[(i - 1) + 1] # -1 /\ \E j \in 1..i - 1 : P[j] = P[(i - 1) + 1]
    BY <1>1, <1>3, <2>1
  <2>3. ~ChainSound(disk, Bps)
    BY <2>1, <2>2, EbrRefused
  <2> QED BY <2>3 DEF MbrSound
<1>17. P[i] = first <=> i = 1
  BY <1>10, <1>16
<1> DEFINE x == e.start * Bps
           z == e.sectors * Bps
<1>18. /\ LogicalAt(disk, Bps, P[i]) = [offset |-> P[i] + x, size |-> z]
       /\ LogicalDocumented(disk, Bps, P[i]) = [offset |-> first + x, size |-> z]
  BY DEF LogicalAt, LogicalDocumented, Scaled, Partition
<1>19. Chain(disk, Bps)[i] = P[i] /\ Len(Primaries(disk, Bps)) = a
  BY <1>2, <1>3, <1>6 DEF A
<1> HIDE DEF x, z, e, P, first
<1>20. [offset |-> P[i] + x, size |-> z] = [offset |-> first + x, size |-> z] <=> P[i] = first
  <2>1. x \in Nat
    BY <1>15 DEF x
  <2>2. [offset |-> P[i] + x, size |-> z] = [offset |-> first + x, size |-> z]
          => P[i] + x = first + x
    OBVIOUS
  <2> QED BY <1>12, <1>13, <2>1, <2>2
<1> QED BY <1>8, <1>9, <1>17, <1>18, <1>19, <1>20

(* On every disk, a volume system that opens has exactly the partitions    *)
(* its tables declare, in their order: the entries in use of the GPT, the  *)
(* entries after the first of the APM, the primary entries of the MBR and  *)
(* then the logical partitions along the links, each counted from its own  *)
(* record; however many there are and whatever was refused before.  Of the *)
(* logical ones the first and no other is where mbr.md has it.             *)
THEOREM Declared == VolumesSpec => []PartitionsAsDeclared
<1>1. Init => TableInv
  BY TableInit
<1>2. TableInv /\ [VolumesNext]_vars => TableInv'
  BY TableNext
<1>3. TableInv => PartitionsAsDeclared
  <2> SUFFICES ASSUME TableInv, pc = "ok"
               PROVE  /\ partitions = DeclaredPartitions(disk, Bps)
                      /\ disk.kind = "mbr" =>
                           \A i \in 1..Len(Chain(disk, Bps)) :
                             (partitions[Len(Primaries(disk, Bps)) + i]
                                = LogicalDocumented(disk, Bps, Chain(disk, Bps)[i])) <=> i = 1
    BY DEF PartitionsAsDeclared
  <2>1. Sound(disk, Bps) /\ partitions = DeclaredPartitions(disk, Bps) /\ Types
    BY DEF TableInv, Opened, FitInv
  <2>2. disk.kind = "mbr" => MbrSound(disk, Bps) /\ partitions = MbrDeclared(disk, Bps)
    BY <2>1 DEF Sound, DeclaredPartitions
  <2> QED BY <2>1, <2>2, OnlyTheFirst
<1> QED BY <1>1, <1>2, <1>3, PTL DEF VolumesSpec

(* On every disk, open returns the first sector size under which the whole *)
(* of the tables makes sense and fails only when none does: no attempt is  *)
(* given up for a reason that the declaration of the tables does not have, *)
(* a cycle of extended boot records and a chain that is too long included. *)
THEOREM FirstSound == VolumesSpec => []OpensFirstSound
<1>1. Init => TableInv
  BY TableInit
<1>2. TableInv /\ [VolumesNext]_vars => TableInv'
  BY TableNext
<1>3. TableInv => OpensFirstSound
  <2> SUFFICES ASSUME TableInv PROVE OpensFirstSound
    OBVIOUS
  <2>1. /\ \A i \in 1..attempt - 1 : ~Sound(disk, SizesOf(disk)[i])
        /\ pc = "err" => attempt = Len(SizesOf(disk)) /\ ~Sound(disk, SizesOf(disk)[attempt])
        /\ pc = "ok" => Sound(disk, Bps)
    BY DEF TableInv, Refused, Opened, Bps
  <2>2. attempt \in Nat
    BY SizesType DEF TableInv, FitInv, Types
  <2>3. ASSUME pc = "err" PROVE \A i \in 1..Len(SizesOf(disk)) : ~Sound(disk, SizesOf(disk)[i])
    <3>1. \A i \in 1..attempt : i \in 1..attempt - 1 \/ i = attempt
      BY <2>2
    <3> QED BY <2>1, <2>3, <3>1
  <2> QED BY <2>1, <2>3 DEF OpensFirstSound
<1> QED BY <1>1, <1>2, <1>3, PTL DEF VolumesSpec
=============================================================================
