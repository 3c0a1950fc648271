---------------------------- MODULE MCUdifReader ----------------------------
(* UdifReader on seven bytes: a compressed block, a sparse range, the same *)
(* block again, a range of the file, and a corrupt block.                  *)
EXTENDS UdifReader

MCRange(o, n, d, type) == [logical_offset |-> o, size |-> n, data_offset |-> d, type |-> type]

MCRanges == << MCRange(0, 2, 5, "compressed"), MCRange(2, 1, 0, "sparse"),
               MCRange(3, 2, 5, "compressed"), MCRange(5, 1, 0, "in_file"),
               MCRange(6, 1, 0, "compressed") >>
MCData == [p \in 0..6 |-> <<1, 2, 0, 1, 2, 3, 4>>[p + 1]]

(* Two ranges of different sizes decoded from the same place in the file.  *)
MCSharedRanges == << MCRange(0, 1, 3, "compressed"), MCRange(1, 2, 3, "compressed") >>
MCSharedData == [p \in 0..2 |-> <<1, 1, 2>>[p + 1]]
=============================================================================
