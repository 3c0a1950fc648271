----------------------------- MODULE BandImages -----------------------------
(***************************************************************************)
(* Images made of bands of one size.  SparseImageFile                      *)
(* (keramics-drivers/src/image/sparseimage/mod.rs): bands in one file, in  *)
(* the order in which they were written; open makes one round per place in *)
(* the file, open_source sorts the bands and fills the gaps.               *)
(* SparseBundleImage (sparsebundle/mod.rs): a file per band, which may be  *)
(* missing or too short.                                                   *)
(*                                                                         *)
(* layout of a sparse image: size, block (the band), file, header (its     *)
(* size), places (how many numbers the header has room for), bands (the    *)
(* number of the band at each place, 0 for none).                          *)
(* layout of a sparse bundle: size, block, plists (which of the copies of  *)
(* the property list can be read), bands (the names of the files, "none"   *)
(* if there is none), sizes (of the files).                                *)
(***************************************************************************)
EXTENDS Layout
LOCAL INSTANCE SequencesExt

BandCount == Ceil(layout.size, layout.block)
BandOffset(i) == i * layout.block
BandSize(i) == Least(layout.block, layout.size - BandOffset(i))

BandNumber(i) == layout.bands[i + 1]
BandMapping(i) == Data(BandOffset(BandNumber(i) - 1), BandSize(BandNumber(i) - 1),
                       "file", layout.header + i * layout.block)

(* seen_band_numbers is the set of the numbers before i.                   *)
BandRefused(i) ==
  /\ BandNumber(i) # 0
  /\ \/ BandNumber(i) > BandCount
     \/ \E j \in 0..(i - 1) : BandNumber(j) = BandNumber(i)
     \/ layout.header + i * layout.block + BandSize(BandNumber(i) - 1) > layout.file

(* Slips: a hole at the end of the media is forgotten; the order of the    *)
(* places is kept.                                                         *)
FilledNoTail(list, size) ==
  FoldLeft(LAMBDA done, e :
             LET end == IF done = <<>> THEN 0 ELSE End(done[Len(done)])
             IN  IF e.logical_offset > end
                 THEN done \o <<Zero(end, e.logical_offset - end), e>>
                 ELSE Append(done, e),
           <<>>, list)
ByOffsetUnsorted(list) == list

(* open_source: a Zero extent for every hole before a band, and after the  *)
(* last.                                                                   *)
Filled(list, size) ==
  LET done == FilledNoTail(list, size)
      end == IF done = <<>> THEN 0 ELSE End(done[Len(done)])
  IN  IF end < size THEN Append(done, Zero(end, size - end)) ELSE done

ByOffset(list) == SortSeq(list, LAMBDA a, b : a.logical_offset < b.logical_offset)

SparseImageOpen ==
  LoopTo("sparseimage", layout.block = 0 \/ BandCount > layout.places,
         at >= BandCount, Filled(ByOffset(extents), layout.size), BandRefused(at),
         IF BandNumber(at) = 0 THEN extents ELSE Append(extents, BandMapping(at)), at + 1)

(* The places hold different bands of the media, as a whole.               *)
SparseImageUsable ==
  LET taken == {i \in 0..(BandCount - 1) : BandNumber(i) # 0} IN
  /\ BandCount <= layout.places
  /\ \A i \in taken :
       /\ BandNumber(i) <= BandCount
       /\ layout.header + i * layout.block + BandSize(BandNumber(i) - 1) <= layout.file
       /\ \A j \in taken : BandNumber(i) = BandNumber(j) => i = j

SparseImageDeclared(o) ==
  LET number == (o \div layout.block) + 1
      places == {i \in 0..(BandCount - 1) : BandNumber(i) = number}
  IN  IF places = {} THEN ZeroTarget
      ELSE Target("file", layout.header + (CHOOSE i \in places : TRUE) * layout.block
                            + (o % layout.block))
-----------------------------------------------------------------------------
BandFile(i) == layout.bands[i + 1]
BandFileSize(i) == IF BandFile(i) = "none" THEN 0 ELSE layout.sizes[i + 1]

(* A band with no bytes, or with too many.                                 *)
BandFileRefused(i) ==
  \/ BandFile(i) # "none" /\ BandFileSize(i) = 0
  \/ BandFileSize(i) > BandSize(i)

(* What the file lacks is zero.                                            *)
BandFileExtents(i) ==
  (IF BandFile(i) = "none" THEN <<>>
   ELSE <<Data(BandOffset(i), BandFileSize(i), BandFile(i), 0)>>)
  \o
  (IF BandFileSize(i) = BandSize(i) THEN <<>>
   ELSE <<Zero(BandOffset(i) + BandFileSize(i), BandSize(i) - BandFileSize(i))>>)

(* read_info_plist: the copy is used if the first cannot be.               *)
SparseBundleOpen ==
  Loop("sparsebundle", \A i \in 1..Len(layout.plists) : ~layout.plists[i],
       at >= BandCount, BandFileRefused(at), extents \o BandFileExtents(at), at + 1)

(* A band that has a file has bytes, and no more than there is room for.   *)
SparseBundleUsable ==
  /\ layout.plists # [i \in 1..Len(layout.plists) |-> FALSE]
  /\ \A i \in 0..(BandCount - 1) :
       BandFile(i) = "none" \/ layout.sizes[i + 1] \in 1..BandSize(i)

SparseBundleDeclared(o) ==
  LET i == o \div layout.block
  IN  IF o % layout.block < BandFileSize(i) THEN Target(BandFile(i), o % layout.block)
      ELSE ZeroTarget
=============================================================================
