---------------------------- MODULE MCReadExact -----------------------------
(* ReadExact on a source of three bytes that all differ.                   *)
EXTENDS ReadExact

MCSize == 3
MCData == [p \in 0..(MCSize - 1) |-> p + 1]
MCBlank == 0
=============================================================================
