---------------------------- MODULE MCExtentMap -----------------------------
(* ExtentMap on six bytes in three extents.  Source a has three bytes: it  *)
(* ends within the second extent and before the third, which begins at the *)
(* last offset a u64 can hold.                                             *)
EXTENDS ExtentMap

MCSourceData == [s \in {"a"} |-> [p \in 0..2 |-> p + 1]]

MCGapEntries == << [logical_offset |-> 0, size |-> 1, target |-> "zero", source_offset |-> 0],
                   [logical_offset |-> 1, size |-> 3, target |-> "a", source_offset |-> 1],
                   [logical_offset |-> 4, size |-> 2, target |-> "a", source_offset |-> 6] >>
MCGapData == [p \in 0..5 |-> <<0, 2, 3, 9, 9, 9>>[p + 1]]
=============================================================================
