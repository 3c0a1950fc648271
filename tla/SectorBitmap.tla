---------------------------- MODULE SectorBitmap ----------------------------
(***************************************************************************)
(* The sector bitmaps of differential and dynamic disks: which sectors of  *)
(* a block are stored in the file.  read_sector_bitmap_ranges              *)
(* (keramics-drivers/src/image/vhdx/mod.rs and vhd/mod.rs) turns the bits  *)
(* into ranges of equal bits.                                              *)
(***************************************************************************)
EXTENDS Layout
LOCAL INSTANCE FiniteSets

(* The ranges of equal bits, in order.  The first bit is taken to have the *)
(* value first: if it has not, an empty range comes before it.             *)
Ranges(bits, first) ==
  LET starts == SelectSeq([k \in 1..Len(bits) |-> k],
                          LAMBDA k : k = 1 \/ bits[k] # bits[k - 1])
      range(i) == [offset |-> starts[i] - 1,
                   size |-> (IF i = Len(starts) THEN Len(bits) + 1 ELSE starts[i + 1]) - starts[i],
                   is_set |-> bits[starts[i]]]
  IN  (IF bits[1] = first THEN <<>> ELSE <<[offset |-> 0, size |-> 0, is_set |-> first]>>)
      \o [i \in 1..Len(starts) |-> range(i)]

(* The extents of a block at media_offset, whose data is at data_offset of *)
(* the file: a range for each run of bits, up to the offset end.  A sector *)
(* that is not in the file is the parent's, or zero if there is none.  The *)
(* sums of the offsets in the file are not checked.                        *)
BitmapExtents(ranges, media_offset, data_offset, end, other) ==
  LET inside == Cardinality({i \in 1..Len(ranges) : media_offset + ranges[i].offset < end})
  IN  [i \in 1..inside |->
         LET from == media_offset + ranges[i].offset
             size == Least(ranges[i].size, end - from)
         IN  IF ranges[i].is_set
             THEN Data(from, size, "file", Wrap(data_offset + ranges[i].offset))
             ELSE IF other = "zero" THEN Zero(from, size)
             ELSE Data(from, size, other, from)]
=============================================================================
