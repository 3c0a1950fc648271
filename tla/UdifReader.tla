----------------------------- MODULE UdifReader -----------------------------
(***************************************************************************)
(* Reading an opened UDIF image (UdifDataSource,                           *)
(* keramics-drivers/src/image/udif/mod.rs): a piece is a block range,      *)
(* sparse, stored in the file or compressed.  A compressed block is        *)
(* decoded without holding a lock and kept in a HashMap behind an RwLock,  *)
(* under the offset of its compressed data, where the first insert wins.   *)
(*                                                                         *)
(* What a decoder makes of a block is Data, or an error for the blocks in  *)
(* Corrupt.                                                                *)
(***************************************************************************)
EXTENDS ReadCall, RangeMap

CONSTANTS block_ranges,  \* see UdifOpen; media_offset is here logical_offset
          Corrupt,       \* the positions of the blocks that cannot be decoded
          Unreliable     \* the positions of the ranges that may fail to be read

ASSUME UdifReaderAssumption ==
  /\ block_ranges \in Seq([logical_offset : 0..MaxU64, data_offset : 0..MaxU64,
                           size : 0..MaxU64, type : {"sparse", "in_file", "compressed"}])
  /\ Tiles(block_ranges, media_size)
  /\ Corrupt \subseteq {i \in DOMAIN block_ranges : block_ranges[i].type = "compressed"}
  /\ Unreliable \subseteq DOMAIN block_ranges
  /\ \A i \in DOMAIN block_ranges : block_ranges[i].type = "sparse" =>
       \A o \in block_ranges[i].logical_offset..(End(block_ranges[i]) - 1) : Data[o] = 0

VARIABLES block_cache,   \* the HashMap: data offset -> the block's bytes
          block          \* block[t]: the decoded block t holds an Arc of

udifVars == <<block_cache, block, pc, offset, len, written, buf, result>>

get_block_range(t) == find_entry(block_ranges, current_offset(t))

range(t) == block_ranges[get_block_range(t)]

(* A slip: a range is always read from its start.                          *)
RelativeOffsetZero(t) == 0

range_relative_offset(t) == current_offset(t) - range(t).logical_offset

(* A slip: the last byte of a range is left out.                           *)
RangeOffByOne(t) == Clamp(t, range(t).size - range_relative_offset(t) - 1)

range_available(t) == Clamp(t, range(t).size - range_relative_offset(t))

(* The bytes of the media in block range i.                                *)
RangeBytes(i) == DS!Slice(block_ranges[i].logical_offset, block_ranges[i].size)

(* Slicing a block that is too short for the range is a panic, and the     *)
(* thread is gone.                                                         *)
Panic == [kind |-> "panic"]

UdifInit == /\ CallInit
            /\ block_cache = [d \in {} |-> NoBytes]
            /\ block = [t \in Threads |-> NoBytes]

UdifReadAt(t, o, n) == /\ result[t] # Panic
                       /\ Enter(t, o, n)
                       /\ UNCHANGED <<block_cache, block>>

UdifLoop(t) ==
  /\ pc[t] = "loop"
  /\ IF GoesOn(t)
     THEN IF get_block_range(t) = 0
          THEN Finish(t, DS!Err)
          ELSE Goto(t, IF range(t).type = "compressed" THEN "lookup" ELSE range(t).type)
     ELSE Finish(t, DS!Ok(written[t], buf[t]))
  /\ UNCHANGED <<block_cache, block, offset, len, written, buf>>

FillSparse(t) ==
  /\ pc[t] = "sparse"
  /\ Emit(t, [i \in 0..(range_available(t) - 1) |-> 0], 0, range_available(t))
  /\ UNCHANGED <<block_cache, block, offset, len>>

(* The file is read with read_exact_at: see ReadExact.                     *)
ReadInFile(t) ==
  /\ pc[t] = "in_file"
  /\ \/ Emit(t, RangeBytes(get_block_range(t)), range_relative_offset(t), range_available(t))
     \/ /\ get_block_range(t) \in Unreliable
        /\ Finish(t, DS!Err)
        /\ UNCHANGED <<buf, written>>
  /\ UNCHANGED <<block_cache, block, offset, len>>

(* read_decompressed_block: the lookup, under the read lock.               *)
LookupBlock(t) ==
  /\ pc[t] = "lookup"
  /\ IF range(t).data_offset \in DOMAIN block_cache
     THEN /\ block' = [block EXCEPT ![t] = block_cache[range(t).data_offset]]
          /\ Goto(t, "copy")
     ELSE /\ Goto(t, "decode")
          /\ UNCHANGED block
  /\ UNCHANGED <<block_cache, offset, len, written, buf>>

(* A slip: what could not be decoded is left as zeros.                     *)
DecodeAnyway(t) ==
  /\ pc[t] = "decode"
  /\ block' = [block EXCEPT ![t] =
                 IF get_block_range(t) \in Corrupt
                 THEN [i \in 0..(range(t).size - 1) |-> 0] ELSE RangeBytes(get_block_range(t))]
  /\ Goto(t, "insert")
  /\ UNCHANGED <<block_cache, offset, len, written, buf>>

(* After a miss the block is read and decoded, no lock held, into a buffer *)
(* of the size of the range.                                               *)
DecodeBlock(t) ==
  /\ pc[t] = "decode"
  /\ \/ /\ get_block_range(t) \notin Corrupt
        /\ block' = [block EXCEPT ![t] = RangeBytes(get_block_range(t))]
        /\ Goto(t, "insert")
     \/ /\ get_block_range(t) \in Corrupt \cup Unreliable
        /\ Finish(t, DS!Err)
        /\ UNCHANGED block
  /\ UNCHANGED <<block_cache, offset, len, written, buf>>

(* A slip: the block is inserted under its offset in the media.            *)
InsertMiskeyed(t) ==
  LET d == range(t).logical_offset IN
  /\ pc[t] = "insert"
  /\ block_cache' = [e \in DOMAIN block_cache \cup {d} |->
                       IF e = d THEN block[t] ELSE block_cache[e]]
  /\ Goto(t, "copy")
  /\ UNCHANGED <<block, offset, len, written, buf>>

(* entry(data_offset).or_insert_with, under the write lock.                *)
InsertBlock(t) ==
  LET d == range(t).data_offset IN
  /\ pc[t] = "insert"
  /\ IF d \in DOMAIN block_cache
     THEN /\ block' = [block EXCEPT ![t] = block_cache[d]]
          /\ UNCHANGED block_cache
     ELSE /\ block_cache' = [e \in DOMAIN block_cache \cup {d} |->
                               IF e = d THEN block[t] ELSE block_cache[e]]
          /\ UNCHANGED block
  /\ Goto(t, "copy")
  /\ UNCHANGED <<offset, len, written, buf>>

CopyBlock(t) ==
  /\ pc[t] = "copy"
  /\ IF range_relative_offset(t) + range_available(t) - 1 \in DOMAIN block[t]
     THEN Emit(t, block[t], range_relative_offset(t), range_available(t))
     ELSE /\ Finish(t, Panic)
          /\ UNCHANGED <<buf, written>>
  /\ block' = [block EXCEPT ![t] = NoBytes]
  /\ UNCHANGED <<block_cache, offset, len>>

UdifStep(t) == \/ UdifLoop(t) \/ FillSparse(t) \/ ReadInFile(t)
               \/ LookupBlock(t) \/ DecodeBlock(t) \/ InsertBlock(t) \/ CopyBlock(t)

UdifNext == \E t \in Threads :
              \/ \E o \in 0..MaxU64, n \in 0..MaxLen : UdifReadAt(t, o, n)
              \/ UdifStep(t)

(* A thread inside read_at keeps running: locks are held for a bounded     *)
(* time and the file answers.                                              *)
UdifFairness == \A t \in Threads : WF_udifVars(UdifStep(t))

UdifSpec == UdifInit /\ [][UdifNext]_udifVars /\ UdifFairness
-----------------------------------------------------------------------------
(* The condition under which one key per data offset is enough: compressed *)
(* ranges with one data offset are one block.  open does not check it, and *)
(* HotCacheSameBytes fails without it.                                     *)
OneBlockPerOffset ==
  \A i, j \in DOMAIN block_ranges :
    /\ block_ranges[i].type = "compressed" /\ block_ranges[j].type = "compressed"
    /\ block_ranges[i].data_offset = block_ranges[j].data_offset
    => /\ RangeBytes(i) = RangeBytes(j)
       /\ i \in Corrupt <=> j \in Corrupt

(* The cache holds, under an offset, the bytes of a block that is stored   *)
(* there and can be decoded.                                               *)
CacheFaithful ==
  \A d \in DOMAIN block_cache :
    \E i \in DOMAIN block_ranges \ Corrupt :
      /\ block_ranges[i].type = "compressed" /\ block_ranges[i].data_offset = d
      /\ block_cache[d] = RangeBytes(i)

(* A read has filled its buffer with bytes of the media, and holds the     *)
(* bytes of its own range, whichever range the block was decoded for.      *)
PartialBlocksFaithful ==
  \A t \in Threads : pc[t] # "idle" =>
    /\ PrefixFaithful(t)
    /\ pc[t] \in {"insert", "copy"} => block[t] = RangeBytes(get_block_range(t))

(* While threads read: the cache and every buffer hold bytes of the media. *)
UdifReadInv ==
  /\ CallTypeOK({"idle", "loop", "sparse", "in_file", "lookup", "decode", "insert", "copy"})
  /\ CacheFaithful
  /\ PartialBlocksFaithful

(* A block that cannot be decoded fails the reads that need it, and no     *)
(* others, whoever reads first and whatever is cached.                     *)
Meets(t, i) == /\ len[t] > 0
               /\ offset[t] < End(block_ranges[i])
               /\ block_ranges[i].logical_offset < offset[t] + len[t]

DamageIsLocal ==
  \A t \in Threads :
     /\ result[t].kind = "err" => \E i \in Corrupt \cup Unreliable : Meets(t, i)
     /\ result[t].kind = "ok" => \A i \in Corrupt : ~Meets(t, i)

(* "hot-cache repeated read returns the same bytes": what a read answers   *)
(* does not depend on which blocks are cached.                             *)
HotCacheSameBytes ==
  \A t \in Threads :
     /\ result[t] # Panic
     /\ result[t].kind = "ok" =>
          result[t].data = DS!Slice(offset[t], DS!Available(offset[t], len[t]))
=============================================================================
