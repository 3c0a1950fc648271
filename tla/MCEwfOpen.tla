----------------------------- MODULE MCEwfOpen ------------------------------
(* EwfOpen with file and section headers of one and two bytes: a segment   *)
(* file of seven bytes has up to three sections.  Two chunks cover a media *)
(* of three bytes but not one of five; with sectors of two bytes the size  *)
(* of the media overflows.                                                 *)
EXTENDS EwfOpen

MCVolumes == {v \in [number_of_chunks : {0, 2}, sectors_per_chunk : {2},
                  bytes_per_sector : 0..2, number_of_sectors : {3, 5}] :
                v.bytes_per_sector = 2 => v.number_of_sectors = 5}

Entry(c, o) == [compressed |-> c, offset |-> o]
MCTables == {[base_offset |-> b, entries |-> e] :
               b \in {0, 9},
               e \in {<<>>, <<Entry(TRUE, 2)>>, <<Entry(FALSE, 1), Entry(TRUE, 3)>>,
                      <<Entry(TRUE, 3), Entry(TRUE, 3)>>}}
=============================================================================
