---------------------------- MODULE ExtentMapNew ----------------------------
(***************************************************************************)
(* ExtentMapDataSource::new (keramics-drivers/src/source/extent_map.rs)    *)
(* and SegmentedDataSource::new: the extents a driver found in an image    *)
(* are checked one after the other, against the offset where the last one  *)
(* ended.  What passes is what ExtentMap reads through.                    *)
(***************************************************************************)
EXTENDS RangeMap

CONSTANTS Extents,       \* what a driver may hand over
          MaxExtents,    \* bound: the number of extents handed over
          MaxU64

ASSUME ExtentMapNewAssumption ==
  /\ MaxU64 \in Nat
  /\ MaxExtents \in Nat
  /\ \A e \in Extents : e.logical_offset \in 0..MaxU64 /\ e.size \in 0..MaxU64

VARIABLES entries,                   \* those checked so far
          expected_logical_offset,
          rejected,                  \* the extent that failed a check, if any
          phase                      \* "check", "ok" or "err"

vars == <<entries, expected_logical_offset, rejected, phase>>

Init == /\ entries = <<>>
        /\ expected_logical_offset = 0
        /\ rejected = <<>>
        /\ phase = "check"

(* Slips: a gap before the extent is let through; a size that just fits is *)
(* not.                                                                    *)
IsGoodGap(e) == /\ e.size # 0
                /\ e.logical_offset >= expected_logical_offset
                /\ expected_logical_offset + e.size <= MaxU64

IsGoodStrict(e) == /\ e.size # 0
                   /\ e.logical_offset = expected_logical_offset
                   /\ expected_logical_offset + e.size < MaxU64

IsGood(e) == /\ e.size # 0
             /\ e.logical_offset = expected_logical_offset
             /\ expected_logical_offset + e.size <= MaxU64

Check(e) ==
  /\ phase = "check"
  /\ Len(entries) < MaxExtents
  /\ IF IsGood(e)
     THEN /\ entries' = Append(entries, e)
          /\ expected_logical_offset' = expected_logical_offset + e.size
          /\ UNCHANGED <<rejected, phase>>
     ELSE /\ phase' = "err"
          /\ rejected' = <<e>>
          /\ UNCHANGED <<entries, expected_logical_offset>>

(* There are no more extents.                                              *)
Done == /\ phase = "check"
        /\ phase' = "ok"
        /\ UNCHANGED <<entries, expected_logical_offset, rejected>>

Next == (\E e \in Extents : Check(e)) \/ Done

Spec == Init /\ [][Next]_vars
-----------------------------------------------------------------------------
(* What new accepts is a tiling of the size it reports, so that find_entry *)
(* finds the extent of every offset below the size.                        *)
AcceptedTiles == phase = "ok" => Tiles(entries, expected_logical_offset)

(* What new rejects is not a tiling of any size that a u64 holds: no       *)
(* usable list of extents is turned down.                                  *)
RejectedDoNot ==
  phase = "err" => \A total \in 0..MaxU64 : ~Tiles(entries \o rejected, total)
=============================================================================
