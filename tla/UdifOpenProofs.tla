--------------------------- MODULE UdifOpenProofs ---------------------------
(***************************************************************************)
(* Proofs about UdifOpen: whatever the file holds, the block ranges tile   *)
(* the media and lie where the block tables say.                           *)
(***************************************************************************)
EXTENDS UdifOpen, RangeMapProofs

Ranges == [logical_offset : Nat, size : Nat, data_offset : Nat, data_size : Nat,
           type : EntryTypes, declared_sector : Nat]

(* The strengthening: the three properties need each other (a range is     *)
(* appended at media_offset because its sector is media_sector), and the   *)
(* types.                                                                  *)
OpenInv == /\ block_ranges \in Seq(Ranges)
           /\ media_offset \in Nat /\ media_sector \in Nat /\ start_sector \in Nat
           /\ RangesTile
           /\ RangesWhereDeclared
           /\ SectorsAgree

LEMMA DivBound ==
  ASSUME NEW a \in Nat, NEW b \in Nat \ {0}, NEW m \in Nat, a * b <= m
  PROVE  a <= m \div b
<1> DEFINE q == m \div b
<1>1. q \in Nat /\ m < (q + 1) * b
  OBVIOUS
<1> HIDE DEF q
<1>2. ~(a >= q + 1)
  <2> SUFFICES ASSUME a >= q + 1 PROVE FALSE
    OBVIOUS
  <2>1. a * b >= (q + 1) * b
    BY <1>1
  <2>2. a * b \in Nat /\ (q + 1) * b \in Nat
    BY <1>1
  <2> QED BY <1>1, <2>1, <2>2
<1>3. a <= q
  BY <1>1, <1>2
<1> QED BY <1>3 DEF q

LEMMA RangesAreRanges ==
  ASSUME NEW s \in Seq(Ranges)
  PROVE  IsRangeList(s)
<1>1. \A i \in 1..Len(s) : s[i] \in Ranges
  OBVIOUS
<1>2. \A r \in Ranges : IsRange(r)
  BY DEF Ranges, IsRange
<1>3. Len(s) \in Nat
  OBVIOUS
<1> QED BY <1>1, <1>2, <1>3 DEF IsRangeList

(* An accepted entry appends a range where the media ends.                 *)
LEMMA AddEntryInv ==
  ASSUME OpenInv, NEW e \in Entries, AddEntry(e)
  PROVE  OpenInv'
<1> DEFINE r == BlockRange(e)
           n == e.number_of_sectors
<1>1. /\ n \in Nat /\ e.start_sector \in Nat /\ e.data_offset \in Nat /\ e.data_size \in Nat
      /\ e.type \in EntryTypes
      /\ BytesPerSector \in Nat /\ BytesPerSector > 0 /\ MaxU64 \in Nat
  BY UdifOpenAssumption
<1>2. /\ start_sector + e.start_sector = media_sector
      /\ n # 0
      /\ media_offset + n * BytesPerSector <= MaxU64
  BY DEF AddEntry, EntryIsGood, entry_media_size
<1>3. /\ media_offset \in Nat /\ media_sector \in Nat /\ start_sector \in Nat
      /\ media_offset = media_sector * BytesPerSector /\ start_sector <= media_sector
      /\ block_ranges \in Seq(Ranges)
  BY DEF OpenInv, SectorsAgree
<1>4. n * BytesPerSector \in Nat /\ n * BytesPerSector # 0
  BY <1>1, <1>2
<1>5. /\ r.logical_offset = media_offset /\ r.size = n * BytesPerSector
      /\ r.declared_sector = media_sector
  BY <1>2 DEF BlockRange, entry_media_size
<1>6. r \in Ranges
  <2>1. n * BytesPerSector = entry_media_size(e)
    BY DEF entry_media_size
  <2> QED BY <2>1, <1>1, <1>3, <1>4 DEF BlockRange, Ranges
<1>7. /\ block_ranges' = Append(block_ranges, r)
      /\ media_offset' = media_offset + n * BytesPerSector
      /\ media_sector' = media_sector + n
      /\ start_sector' = start_sector
  BY DEF AddEntry, entry_media_size
<1> HIDE DEF r, n
<1>8. RangesTile'
  <2>1. IsRange(r)
    BY <1>3, <1>4, <1>5 DEF IsRange
  <2>2. Tiles(block_ranges, media_offset)
    BY DEF OpenInv, RangesTile
  <2>3. Tiles(Append(block_ranges, r), media_offset + r.size)
    BY <1>3, <1>4, <1>5, <1>6, <2>1, <2>2, TilesAppend, RangesAreRanges
  <2> QED BY <2>3, <1>5, <1>7 DEF RangesTile
<1>9. RangesWhereDeclared'
  <2>1. /\ DOMAIN block_ranges = 1..Len(block_ranges)
        /\ DOMAIN block_ranges' = 1..(Len(block_ranges) + 1)
        /\ block_ranges'[Len(block_ranges) + 1] = r
        /\ \A i \in 1..Len(block_ranges) : block_ranges'[i] = block_ranges[i]
        /\ Len(block_ranges) \in Nat
    BY <1>3, <1>6, <1>7
  <2>2. r.logical_offset = r.declared_sector * BytesPerSector
    BY <1>3, <1>5
  <2>3. \A i \in 1..Len(block_ranges) :
          block_ranges[i].logical_offset = block_ranges[i].declared_sector * BytesPerSector
    BY <2>1 DEF OpenInv, RangesWhereDeclared
  <2>4. \A i \in DOMAIN block_ranges' : i \in 1..Len(block_ranges) \/ i = Len(block_ranges) + 1
    BY <2>1
  <2> QED BY <2>1, <2>2, <2>3, <2>4 DEF RangesWhereDeclared
<1>10. SectorsAgree'
  <2>1. media_offset' = media_sector' * BytesPerSector
    BY <1>1, <1>3, <1>4, <1>7 DEF n
  <2>2. media_offset' <= MaxU64
    BY <1>2, <1>7
  <2>3. media_sector' \in Nat /\ start_sector' <= media_sector'
    BY <1>1, <1>3, <1>7
  <2>4. media_sector' <= MaxU64 \div BytesPerSector
    <3>1. media_sector' * BytesPerSector <= MaxU64
      BY <2>1, <2>2
    <3>2. BytesPerSector \in Nat \ {0}
      BY <1>1
    <3> HIDE DEF OpenInv
    <3> QED BY <1>1, <2>3, <3>1, <3>2, DivBound
  <2> QED BY <2>1, <2>2, <2>3, <2>4 DEF SectorsAgree, MAXIMUM_NUMBER_OF_SECTORS
<1>11. block_ranges' \in Seq(Ranges)
  BY <1>3, <1>6, <1>7
<1>12. media_offset' \in Nat /\ media_sector' \in Nat /\ start_sector' \in Nat
  BY <1>1, <1>3, <1>4, <1>7
<1> QED BY <1>8, <1>9, <1>10, <1>11, <1>12 DEF OpenInv

(* No other step touches the ranges or the counts.                         *)
LEMMA SameRanges ==
  ASSUME OpenInv,
         UNCHANGED <<block_ranges, media_offset, media_sector>>,
         start_sector' \in {start_sector, media_sector}
  PROVE  OpenInv'
<1>1. RangesTile' /\ RangesWhereDeclared'
  BY DEF OpenInv, RangesTile, RangesWhereDeclared
<1>2. SectorsAgree'
  BY DEF OpenInv, SectorsAgree
<1> QED BY <1>1, <1>2 DEF OpenInv

LEMMA Invariance == Spec => []OpenInv
<1>1. Init => OpenInv
  <2> SUFFICES ASSUME Init PROVE OpenInv
    OBVIOUS
  <2>1. /\ block_ranges = <<>> /\ media_offset = 0 /\ media_sector = 0 /\ start_sector = 0
    BY DEF Init
  <2>2. RangesTile
    BY <2>1 DEF RangesTile, Tiles
  <2>3. RangesWhereDeclared
    BY <2>1 DEF RangesWhereDeclared
  <2>4. SectorsAgree
    <3>1. 0 * BytesPerSector = 0
      BY UdifOpenAssumption
    <3>2. 0 <= MaxU64 \div BytesPerSector
      BY <3>1, UdifOpenAssumption, DivBound
    <3> QED BY <2>1, <3>1, <3>2, UdifOpenAssumption DEF SectorsAgree, MAXIMUM_NUMBER_OF_SECTORS
  <2> QED BY <2>1, <2>2, <2>3, <2>4 DEF OpenInv
<1>2. OpenInv /\ [Next]_vars => OpenInv'
  <2> SUFFICES ASSUME OpenInv, [Next]_vars PROVE OpenInv'
    OBVIOUS
  <2>1. CASE ReadFooter
    <3>1. UNCHANGED <<block_ranges, media_offset, media_sector, start_sector>>
      BY <2>1 DEF ReadFooter, Fail
    <3> QED BY <3>1, SameRanges
  <2>2. CASE ReadTable
    <3>1. /\ UNCHANGED <<block_ranges, media_offset, media_sector>>
          /\ start_sector' \in {start_sector, media_sector}
      BY <2>2 DEF ReadTable, TableIsGood, Fail
    <3> QED BY <3>1, SameRanges
  <2>3. CASE ReadEntry
    <3>1. CASE \E e \in Entries : AddEntry(e)
      BY <3>1, AddEntryInv
    <3>2. CASE \E e \in Entries : SkipEntry(e)
      <4>1. UNCHANGED <<block_ranges, media_offset, media_sector, start_sector>>
        BY <3>2 DEF SkipEntry
      <4> QED BY <4>1, SameRanges
    <3>3. CASE Fail
      <4>1. UNCHANGED <<block_ranges, media_offset, media_sector, start_sector>>
        BY <3>3 DEF Fail
      <4> QED BY <4>1, SameRanges
    <3> QED BY <2>3, <3>1, <3>2, <3>3 DEF ReadEntry, EntryInfos
  <2>4. CASE EndTable
    <3>1. UNCHANGED <<block_ranges, media_offset, media_sector, start_sector>>
      BY <2>4 DEF EndTable
    <3> QED BY <3>1, SameRanges
  <2>5. CASE EndOpen
    <3>1. UNCHANGED <<block_ranges, media_offset, media_sector, start_sector>>
      BY <2>5 DEF EndOpen
    <3> QED BY <3>1, SameRanges
  <2>6. CASE UNCHANGED vars
    <3>1. UNCHANGED <<block_ranges, media_offset, media_sector, start_sector>>
      BY <2>6 DEF vars
    <3> QED BY <3>1, SameRanges
  <2> QED BY <2>1, <2>2, <2>3, <2>4, <2>5, <2>6 DEF Next, Open
<1> QED BY <1>1, <1>2, PTL DEF Spec

(* The block ranges UdifFile::open has read tile the media.                *)
THEOREM Tiling == Spec => []RangesTile
<1>1. OpenInv => RangesTile
  BY DEF OpenInv
<1> QED BY <1>1, Invariance, PTL

(* They lie where the block tables and their entries say.                  *)
THEOREM Declared == Spec => []RangesWhereDeclared
<1>1. OpenInv => RangesWhereDeclared
  BY DEF OpenInv
<1> QED BY <1>1, Invariance, PTL

(* Sectors and bytes agree, and MAXIMUM_NUMBER_OF_SECTORS - start_sector   *)
(* does not wrap.                                                          *)
THEOREM Sectors == Spec => []SectorsAgree
<1>1. OpenInv => SectorsAgree
  BY DEF OpenInv
<1> QED BY <1>1, Invariance, PTL

(* An accepted compressed entry has its data in the data fork, and the     *)
(* method of the compressed ranges before it, if there are any.            *)
LEMMA AddEntryMethod ==
  ASSUME OpenInv, MethodInv, NEW e \in Entries, AddEntry(e), phase = "entries"
  PROVE  MethodInv'
<1> DEFINE r == BlockRange(e)
           n == Len(block_ranges)
<1>1. e.data_offset \in Nat /\ e.data_size \in Nat /\ source_size \in Nat
  BY UdifOpenAssumption
<1>2. /\ block_ranges' = Append(block_ranges, r)
      /\ compressed_entry_type' = IF e.type \in CompressedTypes THEN e.type
                                  ELSE compressed_entry_type
      /\ phase' = "entries" /\ footer' = footer
  BY DEF AddEntry
<1>3. r.type = e.type
  BY DEF BlockRange
<1>4. e.type \in CompressedTypes =>
        /\ r.data_offset = e.data_offset /\ r.data_size = e.data_size
        /\ e.data_offset + e.data_size <= source_size
        /\ compressed_entry_type \in {"none", e.type}
  <2> SUFFICES ASSUME e.type \in CompressedTypes
               PROVE  /\ r.data_offset = e.data_offset /\ r.data_size = e.data_size
                      /\ e.data_offset + e.data_size <= source_size
                      /\ compressed_entry_type \in {"none", e.type}
    OBVIOUS
  <2>1. e.type # "sparse"
    BY DEF CompressedTypes
  <2>2. DataIsGood(e) /\ CompressionIsGood(e)
    BY <2>1 DEF AddEntry
  <2>3. r.data_offset = e.data_offset /\ r.data_size = e.data_size
    BY <2>1 DEF BlockRange
  <2>4. /\ e.data_size <= data_fork_end_offset - e.data_offset
        /\ data_fork_end_offset <= source_size /\ data_fork_end_offset \in Nat
    BY <2>2 DEF DataIsGood, MethodInv, data_fork_end_offset
  <2>5. e.data_offset + e.data_size <= source_size
    BY <1>1, <2>4
  <2> QED BY <2>2, <2>3, <2>5 DEF CompressionIsGood
<1> HIDE DEF r
<1>5. /\ n \in Nat /\ DOMAIN block_ranges = 1..n /\ DOMAIN block_ranges' = 1..(n + 1)
      /\ block_ranges'[n + 1] = r
      /\ \A i \in 1..n : block_ranges'[i] = block_ranges[i]
  BY <1>2 DEF OpenInv
<1>6. \A i \in DOMAIN block_ranges' : i \in 1..n \/ i = n + 1
  BY <1>5
<1>7. "none" \notin CompressedTypes
  BY DEF CompressedTypes
<1>8. ASSUME NEW i \in DOMAIN block_ranges', block_ranges'[i].type \in CompressedTypes
      PROVE  /\ block_ranges'[i].data_offset + block_ranges'[i].data_size <= source_size
             /\ block_ranges'[i].type = compressed_entry_type'
  <2>1. CASE i \in 1..n
    <3>1. /\ block_ranges[i].type \in CompressedTypes
          /\ block_ranges[i].data_offset + block_ranges[i].data_size <= source_size
          /\ block_ranges[i].type = compressed_entry_type
      BY <1>5, <1>8, <2>1 DEF MethodInv
    <3>2. compressed_entry_type' = compressed_entry_type
      BY <1>2, <1>4, <1>7, <3>1
    <3> QED BY <1>5, <2>1, <3>1, <3>2
  <2>2. CASE i = n + 1
    BY <1>2, <1>3, <1>4, <1>5, <1>8, <2>2
  <2> QED BY <1>6, <2>1, <2>2
<1> QED BY <1>2, <1>8 DEF MethodInv, data_fork_end_offset

LEMMA SameMethod ==
  ASSUME MethodInv, UNCHANGED <<block_ranges, compressed_entry_type, footer>>,
         phase' = "opened" => compressed_entry_type # "lzma"
  PROVE  MethodInv'
  BY DEF MethodInv, data_fork_end_offset

(* Every compressed range of an opened image can be decoded as UdifReader  *)
(* does it: with one method, which is not LZMA, from data in the file.     *)
THEOREM Readable == Spec => []RangesReadable
<1>1. Init => MethodInv
  <2> SUFFICES ASSUME Init PROVE MethodInv
    OBVIOUS
  <2>1. /\ DOMAIN block_ranges = {} /\ footer = NoFooter /\ phase = "footer"
    BY DEF Init
  <2>2. 0 + 0 <= source_size
    BY UdifOpenAssumption
  <2> QED BY <2>1, <2>2 DEF MethodInv, NoFooter, data_fork_end_offset
<1>2. OpenInv /\ MethodInv /\ [Next]_vars => MethodInv'
  <2> SUFFICES ASSUME OpenInv, MethodInv, [Next]_vars PROVE MethodInv'
    OBVIOUS
  <2>1. CASE Fail
    BY <2>1, SameMethod DEF Fail
  <2>2. CASE ReadFooter /\ ~Fail
    <3>1. PICK f \in Footers :
            /\ FooterIsGood(f) /\ footer' = f /\ phase' \in {"slice", "tables"}
            /\ UNCHANGED <<block_ranges, compressed_entry_type>>
      BY <2>2 DEF ReadFooter, FooterInfos
    <3>2. f.data_fork_offset \in Nat /\ f.data_fork_size \in Nat
      BY UdifOpenAssumption
    <3>3. f.data_fork_offset + f.data_fork_size <= source_size
      BY <3>1 DEF FooterIsGood
    <3> QED BY <3>1, <3>2, <3>3 DEF MethodInv, data_fork_end_offset
  <2>3. CASE ReadTable /\ ~Fail
    BY <2>3, SameMethod DEF ReadTable
  <2>4. CASE ReadEntry /\ ~Fail
    <3>1. PICK e \in Entries : (AddEntry(e) \/ SkipEntry(e)) /\ phase = "entries"
      BY <2>4 DEF ReadEntry, EntryInfos
    <3>2. CASE SkipEntry(e)
      BY <3>1, <3>2, SameMethod DEF SkipEntry
    <3> QED BY <3>1, <3>2, AddEntryMethod
  <2>5. CASE EndTable
    BY <2>5, SameMethod DEF EndTable
  <2>6. CASE EndOpen
    BY <2>6, SameMethod DEF EndOpen
  <2>7. CASE UNCHANGED vars
    BY <2>7 DEF vars, MethodInv, data_fork_end_offset
  <2> QED BY <2>1, <2>2, <2>3, <2>4, <2>5, <2>6, <2>7 DEF Next, Open
<1>3. MethodInv => RangesReadable
  BY DEF MethodInv, RangesReadable
<1> QED BY <1>1, <1>2, <1>3, Invariance, PTL DEF Spec
=============================================================================
