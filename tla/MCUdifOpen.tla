----------------------------- MODULE MCUdifOpen -----------------------------
(* UdifOpen on a file of eight bytes with sectors of two: the media has    *)
(* four sectors at most.                                                   *)
EXTENDS UdifOpen

MCFooters == [data_fork_offset : {1}, data_fork_size : {5, 9},
              plist_offset : {5, 7}, plist_size : {0, 2, 4}]
MCEntries ==
  LET E(types, starts, numbers, offsets, sizes) ==
        [type : types, start_sector : starts, number_of_sectors : numbers,
         data_offset : offsets, data_size : sizes]
  IN  E({"terminator", "comment", "unknown"}, {0}, {0}, {0}, {0})
        \cup E({"sparse"}, 0..2, {0, 1, 3, 5}, {0}, {0})
        \cup E({"in_file", "zlib", "lzma"}, 0..2, {1, 2, 4}, {0, 1, 5, 6}, {1, 4, 5})
=============================================================================
