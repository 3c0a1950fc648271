------------------------------ MODULE RangeMap ------------------------------
(***************************************************************************)
(* Lists of ranges that follow each other, and the search of the range an  *)
(* offset lies in: the extents of ExtentMapDataSource, the segments of     *)
(* SegmentedDataSource and the block ranges of UdifRuntime (where          *)
(* logical_offset is called media_offset).  Their constructors establish   *)
(* Tiles, their read_at relies on it.                                      *)
(* (find_entry, keramics-drivers/src/source/extent_map.rs.)                *)
(***************************************************************************)
EXTENDS Integers, Sequences

End(range) == range.logical_offset + range.size

(* The ranges are in order, do not overlap, and together are the offsets   *)
(* below total.                                                            *)
Tiles(ranges, total) ==
  /\ \A i \in 1..Len(ranges) : ranges[i].size > 0 /\ End(ranges[i]) <= total
  /\ \A i, j \in 1..Len(ranges) : i < j => End(ranges[i]) <= ranges[j].logical_offset
  /\ \A p \in 0..(total - 1) :
       \E i \in 1..Len(ranges) : ranges[i].logical_offset <= p /\ p < End(ranges[i])

(* slice::partition_point of logical_offset <= o: how many ranges satisfy  *)
(* it, if those are the first ones.                                        *)
partition_point(ranges, o) ==
  CHOOSE k \in 0..Len(ranges) :
    \A i \in 1..Len(ranges) : (ranges[i].logical_offset <= o) <=> (i <= k)

(* The position of the range of offset o, or 0: the code looks one before  *)
(* the partition point.                                                    *)
find_entry(ranges, o) == partition_point(ranges, o)
=============================================================================
