------------------------------ MODULE MCCursor ------------------------------
(* Cursors on a source of three bytes that all differ.                     *)
EXTENDS Cursor

MCSize == 3
MCData == [p \in 0..(MCSize - 1) |-> p + 1]
MCBlank == 0
=============================================================================
