---------------------------- MODULE EwfGeometry -----------------------------
(***************************************************************************)
(* The chunk table of an opened EWF image, as its two sides see it: the    *)
(* builder (EwfOpen) establishes Geometry, the reader (EwfReader) relies   *)
(* on it when it divides an offset by the chunk size.                      *)
(* (struct EwfChunkDescriptor, keramics-drivers/src/image/ewf/mod.rs.)     *)
(***************************************************************************)
EXTENDS Integers

(* fn remaining_chunk_logical_size: what is left of the media, up to a     *)
(* chunk.                                                                  *)
ChunkLogicalSize(chunk_size, media_size, logical_offset) ==
  IF chunk_size <= media_size - logical_offset
  THEN chunk_size ELSE media_size - logical_offset

(* chunks is a function on 0..(n - 1); chunk i starts at i * chunk_size    *)
(* and all of them are full but for the last, which ends at the media size *)
(* at the latest.                                                          *)
Tiled(chunks, n, chunk_size, media_size) ==
  /\ DOMAIN chunks = 0..(n - 1)
  /\ \A i \in 0..(n - 1) :
       /\ chunks[i].logical_offset = i * chunk_size
       /\ chunks[i].logical_offset < media_size
       /\ chunks[i].logical_size
            = ChunkLogicalSize(chunk_size, media_size, i * chunk_size)

(* How much of the media n chunks cover.                                   *)
Covered(n, chunk_size, media_size) ==
  IF n * chunk_size <= media_size THEN n * chunk_size ELSE media_size

(* Besides, every byte of the media is in a chunk.                         *)
Geometry(chunks, n, chunk_size, media_size) ==
  /\ Tiled(chunks, n, chunk_size, media_size)
  /\ media_size <= n * chunk_size
=============================================================================
