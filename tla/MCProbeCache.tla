---------------------------- MODULE MCProbeCache ----------------------------
(* ProbeCache on a source of three bytes that all differ.                   *)
EXTENDS ProbeCache

MCSize == 3
MCData == [p \in 0..(MCSize - 1) |-> p + 1]
MCBlank == 0
=============================================================================
