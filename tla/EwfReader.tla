----------------------------- MODULE EwfReader ------------------------------
(***************************************************************************)
(* Reading an opened EWF image (EwfDataSource,                             *)
(* keramics-drivers/src/image/ewf/mod.rs): the media is cut into chunks,   *)
(* some of them compressed.  Threads share the image's runtime; a          *)
(* compressed chunk is decoded without holding a lock and kept in a        *)
(* HashMap behind an RwLock, where the first thread to insert it wins.     *)
(*                                                                         *)
(* One action per critical section or call of the segment's source.  That  *)
(* source is read with read_exact_at, which answers with all of the bytes  *)
(* or fails (see ReadExact).  What zlib makes of a compressed chunk is     *)
(* abstracted to the number of bytes it yields.                            *)
(***************************************************************************)
EXTENDS EwfGeometry, ReadCall

CONSTANTS chunks,        \* EwfRuntime.chunks: index -> descriptor
          chunk_size,
          MaxU32,        \* the largest u32
          Decoded,       \* Decoded[i]: the bytes zlib yields for compressed chunk i
          Unreliable     \* the chunks whose segment may fail to be read

NumberOfChunks == (media_size + chunk_size - 1) \div chunk_size

(* An image has no more chunks than the cache's key has room for.  The     *)
(* volume section counts them in a u32; the builder compares only the low  *)
(* bits of its own count with it (EwfOpen), so that this is assumed.       *)
ASSUME EwfReaderAssumption ==
  /\ chunk_size \in Nat \ {0}
  /\ Geometry(chunks, NumberOfChunks, chunk_size, media_size)
  /\ \A i \in DOMAIN chunks : chunks[i].compressed \in BOOLEAN
  /\ Decoded \in [DOMAIN chunks -> 0..chunk_size]
  /\ Unreliable \subseteq DOMAIN chunks
  /\ MaxU32 \in Nat /\ NumberOfChunks <= MaxU32 + 1

VARIABLES chunk_cache,   \* the HashMap: chunk index -> the chunk's bytes
          chunk_data     \* chunk_data[t]: the chunk t holds an Arc of

vars == <<chunk_cache, chunk_data, pc, offset, len, written, buf, result>>

chunk_index(t) == current_offset(t) \div chunk_size

(* The key in the cache: chunk_index as u32.                               *)
cache_key(t) == chunk_index(t) % (MaxU32 + 1)

(* A slip: a chunk is always read from its start.                          *)
RelativeOffsetZero(t) == 0

chunk_relative_offset(t) == current_offset(t) - chunks[chunk_index(t)].logical_offset

(* A slip: the last byte of a chunk is left out.                           *)
AvailableOffByOne(t) ==
  Clamp(t, chunks[chunk_index(t)].logical_size - chunk_relative_offset(t) - 1)

chunk_available(t) == Clamp(t, chunks[chunk_index(t)].logical_size - chunk_relative_offset(t))

(* A chunk that yields too few bytes is an error.                          *)
Damaged(i) == chunks[i].compressed /\ Decoded[i] < chunks[i].logical_size

(* The bytes of chunk i.                                                   *)
ChunkBytes(i) == DS!Slice(chunks[i].logical_offset, chunks[i].logical_size)

Init == /\ CallInit
        /\ chunk_cache = [i \in {} |-> NoBytes]
        /\ chunk_data  = [t \in Threads |-> NoBytes]

ReadAt(t, o, n) == Enter(t, o, n) /\ UNCHANGED <<chunk_cache, chunk_data>>

(* The head of the loop: the piece is a chunk.                             *)
Loop(t) ==
  /\ pc[t] = "loop"
  /\ IF GoesOn(t)
     THEN IF chunk_index(t) \notin DOMAIN chunks
          THEN Finish(t, DS!Err)
          ELSE Goto(t, IF chunks[chunk_index(t)].compressed THEN "lookup" ELSE "raw")
     ELSE Finish(t, DS!Ok(written[t], buf[t]))
  /\ UNCHANGED <<chunk_cache, offset, len, written, buf, chunk_data>>

(* An uncompressed chunk is read straight into the buffer.                 *)
ReadRaw(t) ==
  /\ pc[t] = "raw"
  /\ \/ Emit(t, ChunkBytes(chunk_index(t)), chunk_relative_offset(t), chunk_available(t))
     \/ /\ chunk_index(t) \in Unreliable
        /\ Finish(t, DS!Err)
        /\ UNCHANGED <<written, buf>>
  /\ UNCHANGED <<chunk_cache, offset, len, chunk_data>>

(* fn read_cached_chunk, under the read lock.                              *)
ReadCachedChunk(t) ==
  /\ pc[t] = "lookup"
  /\ IF cache_key(t) \in DOMAIN chunk_cache
     THEN /\ chunk_data' = [chunk_data EXCEPT ![t] = chunk_cache[cache_key(t)]]
          /\ Goto(t, "copy")
     ELSE /\ Goto(t, "decode")
          /\ UNCHANGED chunk_data
  /\ UNCHANGED <<chunk_cache, offset, len, written, buf>>

(* A slip: the size of what zlib yielded is not checked.                   *)
DecodeUnchecked(t) ==
  /\ pc[t] = "decode"
  /\ chunk_data' = [chunk_data EXCEPT ![t] =
                      [i \in 0..(chunks[chunk_index(t)].logical_size - 1) |->
                         IF i < Decoded[chunk_index(t)]
                         THEN ChunkBytes(chunk_index(t))[i] ELSE 0]]
  /\ Goto(t, "insert")
  /\ UNCHANGED <<chunk_cache, offset, len, written, buf>>

(* fn read_compressed_chunk after a miss: the chunk is read and decoded,   *)
(* no lock held; the result is cut to the logical size.                    *)
Decode(t) ==
  /\ pc[t] = "decode"
  /\ \/ /\ ~Damaged(chunk_index(t))
        /\ chunk_data' = [chunk_data EXCEPT ![t] = ChunkBytes(chunk_index(t))]
        /\ Goto(t, "insert")
     \/ /\ Damaged(chunk_index(t)) \/ chunk_index(t) \in Unreliable
        /\ Finish(t, DS!Err)
        /\ UNCHANGED chunk_data
  /\ UNCHANGED <<chunk_cache, offset, len, written, buf>>

(* A slip: the chunk is inserted under its number within the read.         *)
CacheChunkMiskeyed(t) ==
  /\ pc[t] = "insert"
  /\ chunk_cache' = [i \in DOMAIN chunk_cache \cup {written[t] \div chunk_size} |->
                       IF i = written[t] \div chunk_size THEN chunk_data[t] ELSE chunk_cache[i]]
  /\ Goto(t, "copy")
  /\ UNCHANGED <<offset, len, written, buf, chunk_data>>

(* fn cache_chunk: entry(chunk_index).or_insert_with under the write lock. *)
CacheChunk(t) ==
  LET c == cache_key(t) IN
  /\ pc[t] = "insert"
  /\ IF c \in DOMAIN chunk_cache
     THEN /\ chunk_data' = [chunk_data EXCEPT ![t] = chunk_cache[c]]
          /\ UNCHANGED chunk_cache
     ELSE /\ chunk_cache' = [i \in DOMAIN chunk_cache \cup {c} |->
                               IF i = c THEN chunk_data[t] ELSE chunk_cache[i]]
          /\ UNCHANGED chunk_data
  /\ Goto(t, "copy")
  /\ UNCHANGED <<offset, len, written, buf>>

(* The chunk's bytes are copied to the buffer; the Arc is dropped.         *)
Copy(t) ==
  /\ pc[t] = "copy"
  /\ Emit(t, chunk_data[t], chunk_relative_offset(t), chunk_available(t))
  /\ chunk_data' = [chunk_data EXCEPT ![t] = NoBytes]
  /\ UNCHANGED <<chunk_cache, offset, len>>

Step(t) == \/ Loop(t) \/ ReadRaw(t) \/ ReadCachedChunk(t)
           \/ Decode(t) \/ CacheChunk(t) \/ Copy(t)

Next == \E t \in Threads :
          \/ \E o \in 0..MaxU64, n \in 0..MaxLen : ReadAt(t, o, n)
          \/ Step(t)

(* A thread inside read_at keeps running: locks are held for a bounded     *)
(* time and the segment's source answers.                                  *)
Fairness == \A t \in Threads : WF_vars(Step(t))

Spec == Init /\ [][Next]_vars /\ Fairness
-----------------------------------------------------------------------------
CachedChunk == UNION {Prefixes(n) : n \in 0..chunk_size}

(* Types; no more is ever written than the buffer holds.                   *)
TypeOK ==
  /\ CallTypeOK({"idle", "loop", "raw", "lookup", "decode", "insert", "copy"})
  /\ DOMAIN chunk_cache \subseteq DOMAIN chunks
  /\ \A i \in DOMAIN chunk_cache : chunk_cache[i] \in CachedChunk
  /\ chunk_data \in [Threads -> CachedChunk]

(* The cache serves, under each chunk's index, that chunk whole and        *)
(* nothing else; a damaged chunk is never cached (read_compressed_chunk    *)
(* returns its errors before cache_chunk).                                 *)
CacheFaithful ==
  \A i \in DOMAIN chunk_cache :
     /\ chunks[i].compressed /\ ~Damaged(i)
     /\ chunk_cache[i] = ChunkBytes(i)

(* What a read has put into its buffer so far are the bytes of the media   *)
(* from its offset on, across chunk borders, and the chunk it decoded with *)
(* no lock held is the one it needs.                                       *)
PartialReadFaithful ==
  \A t \in Threads : pc[t] # "idle" =>
     /\ PrefixFaithful(t)
     /\ pc[t] \in {"insert", "copy"} => chunk_data[t] = ChunkBytes(chunk_index(t))

(* While threads read, whatever they share and whoever comes first: the    *)
(* cache and every buffer hold the bytes of the media.                     *)
ReadInv == TypeOK /\ CacheFaithful /\ PartialReadFaithful

(* A damaged chunk fails the reads that need it, and no others: a read     *)
(* fails only if its range meets a chunk that is damaged or could not be   *)
(* read, and never succeeds if it meets a damaged one, cached or not.      *)
Meets(t, i) == /\ len[t] > 0
               /\ offset[t] < chunks[i].logical_offset + chunks[i].logical_size
               /\ chunks[i].logical_offset < offset[t] + len[t]

DamageIsLocal ==
  \A t \in Threads :
     /\ result[t].kind = "err" =>
          \E i \in DOMAIN chunks : (Damaged(i) \/ i \in Unreliable) /\ Meets(t, i)
     /\ result[t].kind = "ok" =>
          \A i \in DOMAIN chunks : Damaged(i) => ~Meets(t, i)

=============================================================================
