---------------------------- MODULE MCEwfReader -----------------------------
(* EwfReader on a media of seven bytes in chunks of two: the last one is   *)
(* shorter, and the second one is stored as it is.                         *)
EXTENDS EwfReader

MCData == [p \in 0..6 |-> p + 1]
MCChunks == [i \in 0..3 |-> [logical_offset |-> 2 * i,
                             logical_size |-> IF i = 3 THEN 1 ELSE 2,
                             compressed |-> i # 1]]
(* zlib yields a whole chunk, also for the last one; or none of the first. *)
MCDecoded == [i \in 0..3 |-> 2]
MCDamaged == [i \in 0..3 |-> IF i = 0 THEN 0 ELSE 2]
=============================================================================
