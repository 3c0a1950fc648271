------------------------------ MODULE SplitRaw ------------------------------
(***************************************************************************)
(* SplitRawImage (keramics-drivers/src/image/splitraw/mod.rs): the segment *)
(* files of a raw image one after the other.  Its SegmentedDataSource::new *)
(* makes the checks of ExtentMapDataSource::new.                           *)
(*                                                                         *)
(* layout: schema (whether the name of the first file shows how they are   *)
(* named), fixed (fixed_segment_count, 0 if the names do not tell), names  *)
(* (how many names the suffix allows), files (name and size of the files   *)
(* there are, by segment number).                                          *)
(***************************************************************************)
EXTENDS Layout

SegmentFile(n) == layout.files[n]
SegmentMissing(n) == n \notin DOMAIN layout.files

(* get_segment_file_name fails once the number outgrows the suffix.        *)
Unnamed(n) == layout.fixed = 0 /\ n > layout.names

(* The first name without a file ends the loop, unless the name of the     *)
(* first file says how many there are.                                     *)
SegmentsDone(n) ==
  IF layout.fixed # 0 THEN n > layout.fixed ELSE ~Unnamed(n) /\ SegmentMissing(n)

logical_offset == IF extents = <<>> THEN 0 ELSE End(extents[Len(extents)])

(* All files but the last have the size of the first.                      *)
SegmentRefused(n) ==
  \/ Unnamed(n) \/ SegmentMissing(n)
  \/ n > 1 /\ SegmentFile(n - 1).size # SegmentFile(1).size
  \/ SegmentFile(n).size = 0
  \/ logical_offset + SegmentFile(n).size > MaxU64

SplitRawOpen ==
  Loop("splitraw", ~layout.schema \/ (layout.fixed = 0 /\ SegmentMissing(1)),
       SegmentsDone(at + 1), SegmentRefused(at + 1),
       Append(extents, Data(logical_offset, SegmentFile(at + 1).size, SegmentFile(at + 1).name, 0)),
       at + 1)
-----------------------------------------------------------------------------
(* The files of the image are those before the first gap.                  *)
SplitRawCount ==
  IF layout.fixed # 0 THEN layout.fixed
  ELSE CHOOSE n \in {0} \cup DOMAIN layout.files :
         1..n \subseteq DOMAIN layout.files /\ SegmentMissing(n + 1)

SplitRawSize ==
  (SplitRawCount - 1) * SegmentFile(1).size + SegmentFile(SplitRawCount).size

SplitRawUsable ==
  /\ layout.schema
  /\ SplitRawCount > 0
  /\ 1..SplitRawCount \subseteq DOMAIN layout.files
  /\ layout.fixed = 0 => SplitRawCount <= layout.names
  /\ \A n \in 1..SplitRawCount : SegmentFile(n).size # 0
  /\ \A n \in 1..(SplitRawCount - 1) : SegmentFile(n).size = SegmentFile(1).size
  /\ SplitRawSize <= MaxU64

(* A suffix whose names are all taken is refused, as the code asks for one *)
(* name more.                                                              *)
SplitRawTurnedDown == layout.schema /\ layout.fixed = 0 /\ SplitRawCount >= layout.names

SplitRawDeclared(o) ==
  LET n == Least((o \div SegmentFile(1).size) + 1, SplitRawCount)
  IN  Target(SegmentFile(n).name, o - (n - 1) * SegmentFile(1).size)
=============================================================================
