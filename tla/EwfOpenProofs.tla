--------------------------- MODULE EwfOpenProofs ----------------------------
(***************************************************************************)
(* Proofs about EwfOpen: whatever the files hold, an image that opens has  *)
(* a chunk for every byte of its media, where the reader looks for it.     *)
(***************************************************************************)
EXTENDS EwfOpen, TLAPS

(* An opening that failed has kept nothing.                                *)
LEMMA NewBuilderInv ==
  /\ NewBuilder.saw_volume = FALSE /\ NewBuilder.number_of_chunks = 0
  /\ NewBuilder.chunk_size = 0 /\ NewBuilder.media_size = 0 /\ NewBuilder.count = 0
  /\ NewBuilder.next_chunk_logical_offset = 0
  /\ Tiled(NewBuilder.chunks, 0, 0, 0)
<1>1. DOMAIN NewBuilder.chunks = {}
  BY DEF NewBuilder
<1> QED BY <1>1 DEF NewBuilder, Tiled

LEMMA InitInv == Init => BuilderInv
<1> SUFFICES ASSUME Init PROVE BuilderInv
  OBVIOUS
<1>1. phase = "open" /\ builder = NewBuilder
  BY DEF Init
<1>2. ChunksTiled
  BY <1>1, NewBuilderInv DEF ChunksTiled, Covered
<1>3. builder.saw_volume = FALSE
  BY <1>1, NewBuilderInv
<1>4. /\ builder.number_of_chunks = 0 /\ builder.chunk_size = 0 /\ builder.media_size = 0
      /\ builder.count = 0 /\ builder.next_chunk_logical_offset = 0
  BY <1>1, NewBuilderInv
<1>5. /\ builder.number_of_chunks \in Nat /\ builder.chunk_size \in Nat
      /\ builder.media_size \in Nat /\ builder.count \in Nat
  BY <1>4
<1> QED BY <1>1, <1>2, <1>3, <1>4, <1>5, Zenon DEF BuilderInv

LEMMA FailInv == Fail => BuilderInv'
<1> SUFFICES ASSUME Fail PROVE BuilderInv'
  OBVIOUS
<1>1. phase' = "failed" /\ builder' = NewBuilder
  BY DEF Fail
<1>2. ChunksTiled'
  BY <1>1, NewBuilderInv DEF ChunksTiled, Covered
<1>3. builder'.saw_volume = FALSE
  BY <1>1, NewBuilderInv
<1>4. /\ builder'.number_of_chunks = 0 /\ builder'.chunk_size = 0
      /\ builder'.media_size = 0 /\ builder'.count = 0
      /\ builder'.next_chunk_logical_offset = 0
  BY <1>1, NewBuilderInv
<1>5. /\ builder'.number_of_chunks \in Nat /\ builder'.chunk_size \in Nat
      /\ builder'.media_size \in Nat /\ builder'.count \in Nat
  BY <1>4
<1> QED BY <1>1, <1>2, <1>3, <1>4, <1>5, Zenon DEF BuilderInv

(* A step that leaves the builder alone keeps the invariant.               *)
LEMMA SameBuilder ==
  ASSUME BuilderInv, builder' = builder,
         phase' = "table" => builder.saw_volume,
         phase' = "opened" => BuildIsGood
  PROVE  BuilderInv'
  BY DEF BuilderInv, ChunksTiled, BuildIsGood

LEMMA ReadHashInv ==
  ASSUME BuilderInv, ReadHash
  PROVE  BuilderInv'
<1>1. CASE Fail
  BY <1>1, FailInv
<1>2. CASE ~Fail
  <2>1. /\ builder' = [builder EXCEPT !.md5_hash = TRUE,
                                      !.sha1_hash = @ \/ Section.type = "digest"]
        /\ phase' = "build"
    BY <1>2 DEF ReadHash, Reading
  <2>2. DOMAIN builder' = DOMAIN builder /\ builder'.saw_volume = builder.saw_volume
        /\ builder'.number_of_chunks = builder.number_of_chunks
        /\ builder'.chunk_size = builder.chunk_size
        /\ builder'.media_size = builder.media_size
        /\ builder'.count = builder.count
        /\ builder'.chunks = builder.chunks
        /\ builder'.next_chunk_logical_offset = builder.next_chunk_logical_offset
    BY <2>1 DEF BuilderInv, NewBuilder
  <2> QED BY <2>1, <2>2 DEF BuilderInv, ChunksTiled
<1> QED BY <1>1, <1>2

LEMMA ProductPositive ==
  ASSUME NEW a \in Nat \ {0}, NEW b \in Nat \ {0}
  PROVE  a * b \in Nat \ {0}
  BY Z3

LEMMA ReadVolumeInv ==
  ASSUME BuilderInv, ReadVolume
  PROVE  BuilderInv'
<1>1. CASE Fail
  BY <1>1, FailInv
<1>2. CASE ~Fail
  <2>1. PICK v \in Volumes :
          /\ VolumeIsGood(v)
          /\ builder' = [builder EXCEPT
                              !.saw_volume = TRUE,
                              !.number_of_chunks = v.number_of_chunks,
                              !.chunk_size = v.sectors_per_chunk * v.bytes_per_sector,
                              !.media_size = v.number_of_sectors * v.bytes_per_sector]
          /\ phase' = "build"
    BY <1>2 DEF ReadVolume, Reading, VolumeInfos
  <2>2. /\ v.number_of_chunks \in Nat /\ v.sectors_per_chunk \in Nat
        /\ v.bytes_per_sector \in Nat /\ v.number_of_sectors \in Nat
    BY EwfOpenAssumption
  <2>3. /\ v.number_of_chunks > 0
        /\ v.sectors_per_chunk * v.bytes_per_sector \in Nat \ {0}
        /\ ~builder.saw_volume
    BY <2>1, <2>2, ProductPositive DEF VolumeIsGood
  <2>4. v.number_of_sectors * v.bytes_per_sector \in Nat
    BY <2>2
  <2>5. /\ DOMAIN builder' = DOMAIN NewBuilder
        /\ builder'.saw_volume = TRUE
        /\ builder'.number_of_chunks = v.number_of_chunks
        /\ builder'.chunk_size = v.sectors_per_chunk * v.bytes_per_sector
        /\ builder'.media_size = v.number_of_sectors * v.bytes_per_sector
        /\ builder'.count = builder.count
        /\ builder'.chunks = builder.chunks
        /\ builder'.next_chunk_logical_offset = builder.next_chunk_logical_offset
    BY <2>1 DEF BuilderInv, NewBuilder
  <2>6. builder.count = 0 /\ builder.next_chunk_logical_offset = 0
    BY <2>3 DEF BuilderInv
  <2>7. DOMAIN builder.chunks = {}
    BY <2>6 DEF BuilderInv, ChunksTiled, Tiled
  <2>8. ChunksTiled'
    BY <2>2, <2>3, <2>4, <2>5, <2>6, <2>7 DEF ChunksTiled, Tiled, Covered
  <2> QED BY <2>1, <2>2, <2>3, <2>4, <2>5, <2>6, <2>8 DEF BuilderInv
<1> QED BY <1>1, <1>2

(* One more chunk: the tiling is extended by it.                           *)
LEMMA TiledStep ==
  ASSUME NEW n \in Nat, NEW cs \in Nat \ {0}, NEW ms \in Nat, NEW next, NEW chunks,
         NEW chunk, NEW chunks2,
         Tiled(chunks, n, cs, ms),
         next = Covered(n, cs, ms),
         next < ms,
         chunk.logical_offset = next,
         chunk.logical_size = ChunkLogicalSize(cs, ms, next),
         DOMAIN chunks2 = 0..n, chunks2[n] = chunk,
         \A i \in 0..(n - 1) : chunks2[i] = chunks[i]
  PROVE  /\ Tiled(chunks2, n + 1, cs, ms)
         /\ next + ChunkLogicalSize(cs, ms, next)
              = Covered(n + 1, cs, ms)
<1>1. n * cs \in Nat /\ (n + 1) * cs = n * cs + cs
  BY Z3
<1>2. next = n * cs
  BY <1>1 DEF Covered
<1>3. Tiled(chunks2, n + 1, cs, ms)
  <2>1. DOMAIN chunks2 = 0..((n + 1) - 1)
    BY (n + 1) - 1 = n
  <2>2. ASSUME NEW i \in 0..((n + 1) - 1)
        PROVE  /\ chunks2[i].logical_offset = i * cs
               /\ chunks2[i].logical_offset < ms
               /\ chunks2[i].logical_size = ChunkLogicalSize(cs, ms, i * cs)
    <3>1. CASE i = n
      BY <1>2, <3>1
    <3>2. CASE i # n
      <4>1. i \in 0..(n - 1) /\ chunks2[i] = chunks[i]
        BY <3>2
      <4> QED BY <4>1 DEF Tiled
    <3> QED BY <3>1, <3>2
  <2> QED BY <2>1, <2>2 DEF Tiled
<1>4. next + ChunkLogicalSize(cs, ms, next)
              = Covered(n + 1, cs, ms)
  <2> DEFINE p == n * cs
  <2>1. p \in Nat /\ next = p /\ (n + 1) * cs = p + cs
    BY <1>1, <1>2
  <2> HIDE DEF p
  <2> QED BY <2>1 DEF ChunkLogicalSize, Covered
<1> QED BY <1>3, <1>4

LEMMA ReadTableEntryInv ==
  ASSUME BuilderInv, ReadTableEntry
  PROVE  BuilderInv'
<1>1. CASE Fail
  BY <1>1, FailInv
<1>2. CASE ~Fail
  <2> DEFINE b == builder
             next == builder.next_chunk_logical_offset
  <2>1. PICK chunk :
          /\ chunk.logical_offset = next
          /\ chunk.logical_size = Remaining
          /\ next < b.media_size
          /\ builder' = [builder EXCEPT
                           !.chunks = [i \in 0..builder.count |->
                                         IF i = builder.count THEN chunk
                                         ELSE builder.chunks[i]],
                           !.count = @ + 1,
                           !.next_chunk_logical_offset = @ + chunk.logical_size]
          /\ phase' \in {"table", "build"}
          /\ phase = "table"
    <3> DEFINE entry       == at.table.entries[at.entry]
               data_offset == at.table.base_offset + entry.offset
               data_end    == DataEnd(at.table, at.entry)
               new == [segment_index  |-> at.segment,
                       logical_offset |-> next,
                       logical_size   |-> Remaining,
                       data_offset    |-> data_offset,
                       data_size      |-> data_end - data_offset,
                       compressed     |-> entry.compressed]
    <3>1. new.logical_offset = next /\ new.logical_size = Remaining
      OBVIOUS
    <3>2. EntryIsGood(data_offset, data_end)
      BY <1>2 DEF ReadTableEntry
    <3>3. next < b.media_size
      BY <3>2 DEF EntryIsGood
    <3>4. /\ builder' = [builder EXCEPT
                           !.chunks = [i \in 0..builder.count |->
                                         IF i = builder.count THEN new
                                         ELSE builder.chunks[i]],
                           !.count = @ + 1,
                           !.next_chunk_logical_offset = @ + new.logical_size]
          /\ phase' \in {"table", "build"}
          /\ phase = "table"
      BY <3>2 DEF ReadTableEntry
    <3> HIDE DEF new
    <3> QED BY <3>1, <3>3, <3>4
  <2>2. /\ b.count \in Nat /\ b.chunk_size \in Nat \ {0} /\ b.media_size \in Nat
        /\ b.saw_volume
    BY <2>1 DEF BuilderInv
  <2>3. /\ DOMAIN builder' = DOMAIN NewBuilder
        /\ builder'.saw_volume = b.saw_volume
        /\ builder'.number_of_chunks = b.number_of_chunks
        /\ builder'.chunk_size = b.chunk_size
        /\ builder'.media_size = b.media_size
        /\ builder'.count = b.count + 1
        /\ builder'.chunks = [i \in 0..b.count |-> IF i = b.count THEN chunk ELSE b.chunks[i]]
        /\ builder'.next_chunk_logical_offset = next + chunk.logical_size
    BY <2>1 DEF BuilderInv, NewBuilder
  <2>4. ChunksTiled'
    <3>1. /\ Tiled(b.chunks, b.count, b.chunk_size, b.media_size)
          /\ next = Covered(b.count, b.chunk_size, b.media_size)
      BY DEF BuilderInv, ChunksTiled
    <3>2. chunk.logical_size = ChunkLogicalSize(b.chunk_size, b.media_size, next)
      BY <2>1 DEF Remaining
    <3>3. /\ Tiled(builder'.chunks, b.count + 1, b.chunk_size, b.media_size)
          /\ next + chunk.logical_size
               = Covered(b.count + 1, b.chunk_size, b.media_size)
      <4> DEFINE cs == b.chunk_size
                 ms == b.media_size
                 n == b.count
                 old == b.chunks
                 new == builder'.chunks
      <4>1. /\ n \in Nat /\ cs \in Nat \ {0} /\ ms \in Nat
            /\ Tiled(old, n, cs, ms)
            /\ next = Covered(n, cs, ms)
            /\ next < ms
            /\ chunk.logical_offset = next
            /\ chunk.logical_size = ChunkLogicalSize(cs, ms, next)
            /\ DOMAIN new = 0..n /\ new[n] = chunk
            /\ \A i \in 0..(n - 1) : new[i] = old[i]
        BY <2>1, <2>2, <2>3, <3>1, <3>2
      <4> HIDE DEF cs, ms, n, old, new, next, b
      <4>2. /\ Tiled(new, n + 1, cs, ms)
            /\ next + ChunkLogicalSize(cs, ms, next)
                 = Covered(n + 1, cs, ms)
        BY <4>1, TiledStep
      <4> QED BY <4>1, <4>2 DEF cs, ms, n, new
    <3> QED BY <2>3, <3>3 DEF ChunksTiled
  <2>5. builder.number_of_chunks \in Nat /\ builder.number_of_chunks > 0
    BY <2>2 DEF BuilderInv
  <2>6. b.count + 1 \in Nat /\ phase' # "opened"
    BY <2>1, <2>2
  <2> QED BY <2>2, <2>3, <2>4, <2>5, <2>6 DEF BuilderInv
<1> QED BY <1>1, <1>2

LEMMA ModZero ==
  ASSUME NEW k \in Nat \ {0}
  PROVE  0 % k = 0
  BY Z3

LEMMA NextInv == BuilderInv /\ [Next]_vars => BuilderInv'
<1> SUFFICES ASSUME BuilderInv, [Next]_vars PROVE BuilderInv'
  OBVIOUS
<1>1. CASE OpenSegment
  BY <1>1, FailInv, SameBuilder DEF OpenSegment
<1>2. CASE ReadSectionHeader
  BY <1>2, FailInv, SameBuilder DEF ReadSectionHeader
<1>3. CASE EndWalk
  BY <1>3, FailInv, SameBuilder DEF EndWalk
<1>4. CASE ReadSectors \/ SkipSection \/ NextSegment
  BY <1>4, SameBuilder DEF ReadSectors, SkipSection, NextSegment, Reading
<1>5. CASE ReadTable
  BY <1>5, FailInv, SameBuilder DEF ReadTable
<1>6. CASE EndBuild
  BY <1>6, FailInv, SameBuilder DEF EndBuild
<1>7. CASE Done \/ UNCHANGED vars
  BY <1>7, SameBuilder DEF Done, vars, BuilderInv
<1>8. CASE ReadHash \/ ReadVolume \/ ReadTableEntry
  BY <1>8, ReadHashInv, ReadVolumeInv, ReadTableEntryInv
<1> QED BY <1>1, <1>2, <1>3, <1>4, <1>5, <1>6, <1>7, <1>8 DEF Next, Open

(* While the tables are read, the chunks tile the media (EwfBuilder).      *)
THEOREM Tiling == Spec => []ChunksTiled
<1>1. BuilderInv => ChunksTiled
  BY DEF BuilderInv
<1> QED BY <1>1, InitInv, NextInv, PTL DEF Spec

(* An image that opens has the geometry that EwfReader assumes.            *)
THEOREM Opened == Spec => []OpenedGeometry
<1>1. BuilderInv => OpenedGeometry
  <2> SUFFICES ASSUME BuilderInv, phase = "opened" PROVE OpenedGeometry
    BY DEF OpenedGeometry
  <2> DEFINE n == builder.count
             cs == builder.chunk_size
             ms == builder.media_size
  <2>1. /\ n \in Nat /\ cs \in Nat \ {0} /\ ms \in Nat
        /\ n % (MaxU32 + 1) > 0
        /\ ms = Covered(n, cs, ms)
        /\ Tiled(builder.chunks, n, cs, ms)
    BY DEF BuilderInv, BuildIsGood, ChunksTiled
  <2>2. n > 0
    <3>1. 0 % (MaxU32 + 1) = 0
      BY EwfOpenAssumption, ModZero
    <3> HIDE DEF n
    <3> QED BY <2>1, <3>1
  <2>3. n * cs \in Nat
    BY <2>1
  <2>4. ms <= n * cs
    BY <2>1, <2>3 DEF Covered
  <2>5. ms > 0
    BY <2>1, <2>2 DEF Tiled
  <2> QED BY <2>1, <2>4, <2>5 DEF OpenedGeometry, Geometry
<1> QED BY <1>1, InitInv, NextInv, PTL DEF Spec
-----------------------------------------------------------------------------
(* A step of the tables keeps the chunks there are, and no step after the  *)
(* volume changes the geometry (fn read_volume_section refuses a second).  *)
LEMMA FrozenStep ==
  ASSUME BuilderInv, [Next]_vars, builder.saw_volume, phase' # "failed"
  PROVE  /\ builder'.chunk_size = builder.chunk_size
         /\ builder'.media_size = builder.media_size
         /\ \A i \in DOMAIN builder.chunks :
              i \in DOMAIN builder'.chunks /\ builder'.chunks[i] = builder.chunks[i]
<1> DEFINE Goal ==
      /\ builder'.chunk_size = builder.chunk_size
      /\ builder'.media_size = builder.media_size
      /\ \A i \in DOMAIN builder.chunks :
           i \in DOMAIN builder'.chunks /\ builder'.chunks[i] = builder.chunks[i]
<1>1. ~Fail
  BY DEF Fail
<1>2. CASE builder' = builder
  BY <1>2
<1>3. CASE ReadHash
  <2>1. builder' = [builder EXCEPT !.md5_hash = TRUE,
                                   !.sha1_hash = @ \/ Section.type = "digest"]
    BY <1>1, <1>3 DEF ReadHash
  <2>2. /\ builder'.chunk_size = builder.chunk_size
        /\ builder'.media_size = builder.media_size
        /\ builder'.chunks = builder.chunks
    BY <2>1 DEF BuilderInv, NewBuilder
  <2> QED BY <2>2
<1>4. CASE ReadVolume
  BY <1>1, <1>4 DEF ReadVolume, VolumeIsGood
<1>5. CASE ReadTableEntry
  <2>1. PICK chunk, size :
          builder' = [builder EXCEPT
                        !.chunks = [i \in 0..builder.count |->
                                      IF i = builder.count THEN chunk
                                      ELSE builder.chunks[i]],
                        !.count = @ + 1,
                        !.next_chunk_logical_offset = @ + size]
    <3> DEFINE entry       == at.table.entries[at.entry]
               data_offset == at.table.base_offset + entry.offset
               data_end    == DataEnd(at.table, at.entry)
               new == [segment_index  |-> at.segment,
                       logical_offset |-> builder.next_chunk_logical_offset,
                       logical_size   |-> Remaining,
                       data_offset    |-> data_offset,
                       data_size      |-> data_end - data_offset,
                       compressed     |-> entry.compressed]
    <3>1. builder' = [builder EXCEPT
                        !.chunks = [i \in 0..builder.count |->
                                      IF i = builder.count THEN new
                                      ELSE builder.chunks[i]],
                        !.count = @ + 1,
                        !.next_chunk_logical_offset = @ + new.logical_size]
      BY <1>1, <1>5 DEF ReadTableEntry
    <3> HIDE DEF new
    <3> QED BY <3>1
  <2>2. /\ builder'.chunk_size = builder.chunk_size
        /\ builder'.media_size = builder.media_size
        /\ builder'.chunks = [i \in 0..builder.count |->
                                IF i = builder.count THEN chunk ELSE builder.chunks[i]]
    BY <2>1 DEF BuilderInv, NewBuilder
  <2>3. DOMAIN builder.chunks = 0..(builder.count - 1) /\ builder.count \in Nat
    BY DEF BuilderInv, ChunksTiled, Tiled
  <2>4. \A i \in 0..(builder.count - 1) : i \in 0..builder.count /\ i # builder.count
    BY <2>3
  <2> QED BY <2>2, <2>3, <2>4
<1>6. Goal
  <2>1. CASE OpenSegment \/ ReadSectionHeader \/ EndWalk \/ ReadTable
    BY <1>1, <1>2, <2>1 DEF OpenSegment, ReadSectionHeader, EndWalk, ReadTable
  <2>2. CASE ReadSectors \/ SkipSection \/ NextSegment \/ EndBuild \/ Done \/ UNCHANGED vars
    BY <1>1, <1>2, <2>2
    DEF ReadSectors, SkipSection, NextSegment, EndBuild, Done, vars
  <2> QED BY <1>3, <1>4, <1>5, <2>1, <2>2 DEF Next, Open
<1> QED BY <1>6

(* Once the volume section is read the geometry and the chunks read so far *)
(* are final: EwfBuilder only ever appends.                                *)
THEOREM Frozen == Spec => GeometryFrozen
<1> DEFINE FrozenNow ==
      builder.saw_volume /\ phase' # "failed" =>
       /\ builder'.chunk_size = builder.chunk_size
       /\ builder'.media_size = builder.media_size
       /\ \A i \in DOMAIN builder.chunks :
            i \in DOMAIN builder'.chunks /\ builder'.chunks[i] = builder.chunks[i]
<1>1. BuilderInv /\ [Next]_vars => [FrozenNow]_vars
  BY FrozenStep
<1> QED BY <1>1, InitInv, NextInv, PTL DEF Spec, GeometryFrozen
-----------------------------------------------------------------------------
(* The walk over the section headers.                                      *)

LEMMA NoSegmentIsSegment == NoSegment \in Segment
<1>1. <<>> \in Seq(SectionHeader)
  OBVIOUS
<1> QED BY <1>1, EwfOpenAssumption DEF NoSegment, Segment

(* A failed opening has no segment.                                        *)
LEMMA FailWalk == Fail => WalkInv'
<1> SUFFICES ASSUME Fail PROVE WalkInv'
  OBVIOUS
<1>1. phase' = "failed" /\ segments' = <<>> /\ segment' = NoSegment
  BY DEF Fail
<1>2. Len(segments') = 0 /\ segments' \in Seq(Segment)
  BY <1>1
<1>3. 1..0 = {}
  OBVIOUS
<1> QED BY <1>1, <1>2, <1>3, NoSegmentIsSegment DEF WalkInv, SectionsTile, Phases

(* The steps that read the sections leave the segments alone.              *)
LEMMA SameSegments ==
  ASSUME WalkInv, UNCHANGED <<segments, segment>>,
         phase \in {"build", "table", "opened", "failed"},
         phase' \in {"build", "table", "opened", "failed"}
  PROVE  WalkInv'
  BY DEF WalkInv, SectionsTile, Phases

(* A header at the end of the sections read so far extends them.           *)
LEMMA TilesUpToAppend ==
  ASSUME NEW sections \in Seq(SectionHeader), NEW o \in 0..MaxU64, NEW h \in SectionHeader,
         TilesUpTo(sections, o), h.file_offset = o, h.size >= HeaderSize
  PROVE  TilesUpTo(Append(sections, h), o + h.size)
<1> DEFINE n == Len(sections)
           s2 == Append(sections, h)
<1>1. /\ n \in Nat /\ Len(s2) = n + 1 /\ s2[n + 1] = h
      /\ \A j \in 1..n : s2[j] = sections[j]
  OBVIOUS
<1>2. o = SectionStart(sections, n + 1)
  BY DEF TilesUpTo
<1> HIDE DEF n, s2
<1>3. \A j \in 1..(n + 1) : SectionStart(s2, j) = SectionStart(sections, j)
  <2> SUFFICES ASSUME NEW j \in 1..(n + 1) PROVE SectionStart(s2, j) = SectionStart(sections, j)
    OBVIOUS
  <2>1. j = 1 \/ j - 1 \in 1..n
    BY <1>1
  <2> QED BY <2>1, <1>1 DEF SectionStart
<1>4. \A j \in 1..n : /\ sections[j].file_offset = SectionStart(sections, j)
                      /\ sections[j].size >= HeaderSize
  BY DEF TilesUpTo, n
<1>5. ASSUME NEW j \in 1..Len(s2)
      PROVE  s2[j].file_offset = SectionStart(s2, j) /\ s2[j].size >= HeaderSize
  <2>1. j \in 1..n \/ j = n + 1
    BY <1>1
  <2>2. CASE j \in 1..n
    BY <2>2, <1>1, <1>3, <1>4
  <2>3. CASE j = n + 1
    BY <2>3, <1>1, <1>2, <1>3
  <2> QED BY <2>1, <2>2, <2>3
<1>6. SectionStart(s2, Len(s2) + 1) = o + h.size
  <2>1. Len(s2) + 1 # 1 /\ (Len(s2) + 1) - 1 = n + 1
    BY <1>1
  <2> QED BY <2>1, <1>1 DEF SectionStart
<1> QED BY <1>5, <1>6 DEF TilesUpTo, s2

LEMMA OpenSegmentWalk ==
  ASSUME WalkInv, OpenSegment
  PROVE  WalkInv'
<1>1. CASE Fail
  BY <1>1, FailWalk
<1>2. CASE ~Fail
  <2>1. PICK size \in FileSizes, number \in 0..(MaxSegments + 1) :
          /\ size >= FileHeaderSize
          /\ segment' = [number |-> number, size |-> size,
                         file_offset |-> FileHeaderSize, sections |-> <<>>]
          /\ phase = "open" /\ phase' = "walk" /\ segments' = segments
    BY <1>2 DEF OpenSegment
  <2>2. size \in 0..MaxU64 /\ FileHeaderSize \in 0..MaxU64
    BY <2>1, EwfOpenAssumption
  <2>3. segment' \in Segment
    <3>1. <<>> \in Seq(SectionHeader)
      OBVIOUS
    <3> QED BY <2>1, <2>2, <3>1 DEF Segment
  <2>4. TilesUpTo(<<>>, FileHeaderSize)
    <3>1. Len(<<>>) = 0 /\ 1..0 = {}
      OBVIOUS
    <3> QED BY <3>1 DEF TilesUpTo, SectionStart
  <2>5. SectionsTile'
    <3>1. TilesUpTo(segment'.sections, segment'.file_offset)
      BY <2>1, <2>4
    <3> QED BY <2>1, <3>1 DEF SectionsTile, WalkInv
  <2> QED BY <2>1, <2>3, <2>5 DEF WalkInv, Phases
<1> QED BY <1>1, <1>2

LEMMA ReadSectionHeaderWalk ==
  ASSUME WalkInv, ReadSectionHeader
  PROVE  WalkInv'
<1>1. CASE Fail
  BY <1>1, FailWalk
<1>2. CASE ~Fail
  <2> DEFINE o == segment.file_offset
  <2>1. PICK type \in Types, next \in 0..MaxU64, size \in 0..MaxU64 :
          /\ Accepts(type, o, next, size)
          /\ o + ImpliedSize(type, o, next) <= MaxU64
          /\ segment' = [segment EXCEPT
                  !.file_offset = o + ImpliedSize(type, o, next),
                  !.sections = Append(@, [type |-> type, file_offset |-> o, next_offset |-> next,
                                          size |-> ImpliedSize(type, o, next)])]
          /\ phase' = IF IsEnd(type) THEN "walked" ELSE "walk"
          /\ phase = "walk"
          /\ segments' = segments
    BY <1>2 DEF ReadSectionHeader
  <2> DEFINE m == ImpliedSize(type, o, next)
             h == [type |-> type, file_offset |-> o, next_offset |-> next, size |-> m]
  <2>2. /\ o \in 0..MaxU64 /\ segment.sections \in Seq(SectionHeader)
        /\ segment.number \in 0..(MaxSegments + 1) /\ segment.size \in 0..MaxU64
        /\ segment \in [number : 0..(MaxSegments + 1), size : 0..MaxU64, file_offset : 0..MaxU64,
                        sections : Seq(SectionHeader)]
    BY DEF WalkInv, Segment
  <2>3. /\ m \in Int /\ m >= HeaderSize /\ HeaderSize \in Nat /\ MaxU64 \in Nat
        /\ o + m <= MaxU64
    BY <2>1, <2>2, EwfOpenAssumption DEF Accepts, ImpliedSize
  <2>4. m \in 0..MaxU64 /\ o + m \in 0..MaxU64
    <3> HIDE DEF m
    <3> QED BY <2>2, <2>3
  <2>5. h \in SectionHeader /\ h.file_offset = o /\ h.size = m
    BY <2>2, <2>4 DEF SectionHeader
  <2>6. /\ segment'.number = segment.number /\ segment'.size = segment.size
        /\ segment'.file_offset = o + m
        /\ segment'.sections = Append(segment.sections, h)
        /\ segment' \in Segment
    <3> HIDE DEF m
    <3>1. Append(segment.sections, h) \in Seq(SectionHeader)
      BY <2>2, <2>5
    <3>2. segment' = [segment EXCEPT !.file_offset = o + m,
                                     !.sections = Append(segment.sections, h)]
      BY <2>1 DEF m
    <3> HIDE DEF h
    <3> QED BY <2>2, <2>4, <3>1, <3>2 DEF Segment
  <2>7. TilesUpTo(segment'.sections, segment'.file_offset)
    <3>1. TilesUpTo(segment.sections, o)
      BY <2>1 DEF WalkInv, SectionsTile
    <3> HIDE DEF m, h, o
    <3>2. TilesUpTo(Append(segment.sections, h), o + h.size)
      BY <2>2, <2>3, <2>5, <3>1, TilesUpToAppend
    <3> QED BY <2>5, <2>6, <3>2
  <2>8. SectionsTile'
    BY <2>1, <2>7 DEF SectionsTile, WalkInv
  <2>9. phase' \in {"walk", "walked"}
    BY <2>1
  <2> QED BY <2>1, <2>6, <2>8, <2>9 DEF WalkInv, Phases
<1> QED BY <1>1, <1>2

LEMMA EndWalkWalk ==
  ASSUME WalkInv, EndWalk
  PROVE  WalkInv'
<1>1. CASE Fail
  BY <1>1, FailWalk
<1>2. CASE ~Fail
  <2> DEFINE n == Len(segments)
  <2>1. /\ segment.file_offset = segment.size /\ segment.number = n + 1
        /\ segments' = Append(segments, segment)
        /\ phase \in {"walk", "walked"}
        /\ phase' = IF LastType(segment.sections) = "next" THEN "open" ELSE "build"
        /\ segment' = NoSegment
    BY <1>2 DEF EndWalk, WalkIsGood
  <2>2. segments \in Seq(Segment) /\ segment \in Segment
    BY DEF WalkInv
  <2>3. /\ n \in Nat /\ Len(segments') = n + 1 /\ segments'[n + 1] = segment
        /\ \A i \in 1..n : segments'[i] = segments[i]
        /\ segments' \in Seq(Segment)
    BY <2>1, <2>2
  <2>4. \A i \in 1..Len(segments') : i \in 1..n \/ i = n + 1
    BY <2>3
  <2>5. phase' \in {"open", "build"}
    BY <2>1
  <2> HIDE DEF n
  <2>6. SectionsTile'
    <3>1. TilesUpTo(segment.sections, segment.size)
      BY <2>1 DEF WalkInv, SectionsTile
    <3>2. \A i \in 1..n : TilesUpTo(segments[i].sections, segments[i].size)
      BY DEF WalkInv, SectionsTile, n
    <3> QED BY <2>3, <2>4, <2>5, <3>1, <3>2 DEF SectionsTile
  <2>7. ASSUME NEW i \in 1..Len(segments')
        PROVE  /\ segments'[i].number = i
               /\ i < Len(segments') \/ phase' \in {"open", "walk", "walked"}
                    => LastType(segments'[i].sections) = "next"
    <3>1. CASE i \in 1..n
      BY <2>1, <2>3, <3>1 DEF WalkInv, n
    <3>2. CASE i = n + 1
      BY <2>1, <2>3, <2>5, <3>2
    <3> QED BY <2>4, <3>1, <3>2
  <2> QED BY <2>1, <2>3, <2>5, <2>6, <2>7, NoSegmentIsSegment DEF WalkInv, Phases
<1> QED BY <1>1, <1>2

LEMMA NextWalk == WalkInv /\ [Next]_vars => WalkInv'
<1> SUFFICES ASSUME WalkInv, [Next]_vars PROVE WalkInv'
  OBVIOUS
<1>1. CASE OpenSegment \/ ReadSectionHeader \/ EndWalk
  BY <1>1, OpenSegmentWalk, ReadSectionHeaderWalk, EndWalkWalk
<1>2. CASE ReadSectors \/ SkipSection \/ NextSegment
  BY <1>2, SameSegments DEF ReadSectors, SkipSection, NextSegment, Reading
<1>3. CASE ReadHash \/ ReadVolume
  BY <1>3, FailWalk, SameSegments DEF ReadHash, ReadVolume, Reading
<1>4. CASE ReadTable
  BY <1>4, FailWalk, SameSegments DEF ReadTable, Reading
<1>5. CASE ReadTableEntry
  BY <1>5, FailWalk, SameSegments DEF ReadTableEntry
<1>6. CASE EndBuild
  BY <1>6, FailWalk, SameSegments DEF EndBuild
<1>7. CASE Done
  BY <1>7, SameSegments DEF Done, vars
<1>8. CASE UNCHANGED vars
  BY <1>8 DEF vars, WalkInv, SectionsTile
<1> QED BY <1>1, <1>2, <1>3, <1>4, <1>5, <1>6, <1>7, <1>8 DEF Next, Open

LEMMA InitWalk == Init => WalkInv
<1> SUFFICES ASSUME Init PROVE WalkInv
  OBVIOUS
<1>1. phase = "open" /\ segments = <<>> /\ segment = NoSegment
  BY DEF Init
<1>2. Len(segments) = 0 /\ segments \in Seq(Segment)
  BY <1>1
<1>3. 1..0 = {}
  OBVIOUS
<1> QED BY <1>1, <1>2, <1>3, NoSegmentIsSegment DEF WalkInv, SectionsTile, Phases

(* The sections of a segment lie end to end (read_section_headers).        *)
THEOREM Walked == Spec => []SectionsTile
<1>1. WalkInv => SectionsTile
  BY DEF WalkInv
<1> QED BY <1>1, InitWalk, NextWalk, PTL DEF Spec

(* The segments are in order, each followed by the one it names            *)
(* (open_segments).                                                        *)
THEOREM InOrder == Spec => []SegmentsInOrder
<1>1. WalkInv => SegmentsInOrder
  BY DEF WalkInv, SegmentsInOrder
<1> QED BY <1>1, InitWalk, NextWalk, PTL DEF Spec
-----------------------------------------------------------------------------
(* Where read_segments is, and the data of the chunks.                     *)

LEMMA NewPlace ==
  /\ DOMAIN NewBuilder.chunks = {}
  /\ NewBuilder.number_of_chunks <= MaxU32
  /\ NewBuilder.chunk_size <= MaxU32 /\ NewBuilder.media_size <= MaxU64
  /\ Start.segment = 1 /\ Start.section = 1 /\ Start.entry = 0 /\ Start.sectors \in 0..MaxU64
  BY EwfOpenAssumption DEF NewBuilder, Start

LEMMA FreshPlace ==
  ASSUME at = Start, builder = NewBuilder, phase # "table"
  PROVE  PlaceInv
  BY NewPlace DEF PlaceInv

LEMMA FailPlace == Fail => PlaceInv'
<1> SUFFICES ASSUME Fail PROVE PlaceInv'
  OBVIOUS
<1>1. phase' = "failed" /\ builder' = NewBuilder /\ at' = Start
  BY DEF Fail
<1> QED BY <1>1, NewPlace DEF PlaceInv

(* The data of the chunks read so far, and their segments.                 *)
ChunkPlaced(c, n) == /\ c.segment_index \in 1..n
                     /\ c.data_size \in 1..MaxU32
                     /\ c.data_offset + c.data_size <= MaxU64

(* A step that changes only where read_segments is.                        *)
LEMMA MovePlace ==
  ASSUME PlaceInv, UNCHANGED <<segments, builder>>,
         phase \notin {"open", "walk", "walked"}, phase' \in {"build", "opened", "failed"},
         DOMAIN at' = DOMAIN Start,
         at'.segment \in Nat \ {0}, at'.section \in Nat \ {0}, at'.entry \in Nat,
         at'.sectors \in 0..MaxU64
  PROVE  PlaceInv'
  BY DEF PlaceInv

(* The section that is read is a section header.                           *)
LEMMA SectionIsHeader ==
  ASSUME WalkInv, at.segment \in Nat \ {0}, at.section \in Nat \ {0},
         at.segment <= Len(segments), at.section <= Len(segments[at.segment].sections)
  PROVE  Section \in SectionHeader
<1>1. segments \in Seq(Segment) /\ at.segment \in 1..Len(segments)
  BY DEF WalkInv
<1>2. segments[at.segment] \in Segment
  BY <1>1
<1>3. /\ segments[at.segment].sections \in Seq(SectionHeader)
      /\ at.section \in 1..Len(segments[at.segment].sections)
  BY <1>2 DEF Segment
<1> QED BY <1>3 DEF Section

LEMMA SkipPlace ==
  ASSUME WalkInv, PlaceInv, ReadSectors \/ SkipSection \/ NextSegment
  PROVE  PlaceInv'
<1>1. /\ at.segment \in Nat \ {0} /\ at.section \in Nat \ {0} /\ at.entry \in Nat
      /\ at.sectors \in 0..MaxU64 /\ DOMAIN at = DOMAIN Start
  BY DEF PlaceInv
<1>2. phase = "build" /\ phase' = "build" /\ UNCHANGED <<segments, builder>>
  BY DEF ReadSectors, SkipSection, NextSegment, Reading
<1>3. CASE ReadSectors
  <2>1. at' = [at EXCEPT !.section = @ + 1, !.sectors = Section.next_offset]
    BY <1>3 DEF ReadSectors
  <2>2. Section.next_offset \in 0..MaxU64
    BY <1>1, <1>3, SectionIsHeader DEF ReadSectors, Reading, SectionHeader
  <2>3. /\ DOMAIN at' = DOMAIN Start /\ at'.segment = at.segment
        /\ at'.section = at.section + 1 /\ at'.entry = at.entry
        /\ at'.sectors = Section.next_offset
    BY <1>1, <2>1 DEF Start
  <2> QED BY <1>1, <1>2, <2>2, <2>3, MovePlace
<1>4. CASE SkipSection
  <2>1. at' = [at EXCEPT !.section = @ + 1]
    BY <1>4 DEF SkipSection, NextSection
  <2>2. /\ DOMAIN at' = DOMAIN Start /\ at'.segment = at.segment
        /\ at'.section = at.section + 1 /\ at'.entry = at.entry /\ at'.sectors = at.sectors
    BY <1>1, <2>1 DEF Start
  <2> QED BY <1>1, <1>2, <2>2, MovePlace
<1>5. CASE NextSegment
  <2>1. at' = [Start EXCEPT !.segment = at.segment + 1]
    BY <1>5 DEF NextSegment
  <2>2. /\ DOMAIN at' = DOMAIN Start /\ at'.segment = at.segment + 1
        /\ at'.section = 1 /\ at'.entry = 0 /\ at'.sectors = 0
    BY <2>1 DEF Start
  <2> QED BY <1>1, <1>2, <2>2, MovePlace, EwfOpenAssumption
<1> QED BY <1>3, <1>4, <1>5

LEMMA ReadHashPlace ==
  ASSUME BuilderInv, PlaceInv, ReadHash
  PROVE  PlaceInv'
<1>1. CASE Fail
  BY <1>1, FailPlace
<1>2. CASE ~Fail
  <2>1. /\ builder' = [builder EXCEPT !.md5_hash = TRUE,
                                      !.sha1_hash = @ \/ Section.type = "digest"]
        /\ at' = [at EXCEPT !.section = @ + 1]
        /\ phase' = "build" /\ segments' = segments
    BY <1>2 DEF ReadHash, Reading, NextSection
  <2>2. /\ builder'.number_of_chunks = builder.number_of_chunks
        /\ builder'.chunk_size = builder.chunk_size
        /\ builder'.media_size = builder.media_size
        /\ builder'.chunks = builder.chunks
    BY <2>1 DEF BuilderInv, NewBuilder
  <2>3. /\ DOMAIN at' = DOMAIN Start /\ at'.segment = at.segment
        /\ at'.section = at.section + 1 /\ at'.entry = at.entry /\ at'.sectors = at.sectors
    BY <2>1 DEF Start, PlaceInv
  <2> QED BY <2>1, <2>2, <2>3 DEF PlaceInv
<1> QED BY <1>1, <1>2

LEMMA ReadVolumePlace ==
  ASSUME BuilderInv, PlaceInv, ReadVolume
  PROVE  PlaceInv'
<1>1. CASE Fail
  BY <1>1, FailPlace
<1>2. CASE ~Fail
  <2>1. PICK v \in Volumes :
          /\ VolumeIsGood(v)
          /\ builder' = [builder EXCEPT
                              !.saw_volume = TRUE,
                              !.number_of_chunks = v.number_of_chunks,
                              !.chunk_size = v.sectors_per_chunk * v.bytes_per_sector,
                              !.media_size = v.number_of_sectors * v.bytes_per_sector]
          /\ at' = [at EXCEPT !.section = @ + 1]
          /\ phase' = "build" /\ segments' = segments
    BY <1>2 DEF ReadVolume, Reading, VolumeInfos, NextSection
  <2>2. v.number_of_chunks <= MaxU32
    BY EwfOpenAssumption
  <2>3. /\ builder'.number_of_chunks = v.number_of_chunks
        /\ builder'.chunk_size <= MaxU32
        /\ builder'.media_size <= MaxU64
        /\ builder'.chunks = builder.chunks
    BY <2>1 DEF BuilderInv, NewBuilder, VolumeIsGood
  <2>4. /\ DOMAIN at' = DOMAIN Start /\ at'.segment = at.segment
        /\ at'.section = at.section + 1 /\ at'.entry = at.entry /\ at'.sectors = at.sectors
    BY <2>1 DEF Start, PlaceInv
  <2> QED BY <2>1, <2>2, <2>3, <2>4 DEF PlaceInv
<1> QED BY <1>1, <1>2

LEMMA TableIsTable ==
  ASSUME NEW table \in Tables
  PROVE  /\ table.base_offset \in 0..MaxU64
         /\ table.entries \in Seq([compressed : BOOLEAN, offset : 0..MaxU32])
  BY EwfOpenAssumption

LEMMA ReadTablePlace ==
  ASSUME PlaceInv, ReadTable
  PROVE  PlaceInv'
<1>1. CASE Fail
  BY <1>1, FailPlace
<1>2. CASE ~Fail
  <2>1. PICK table \in Tables :
          /\ table.entries # <<>>
          /\ at' = [at EXCEPT !.table = table, !.entry = 1]
          /\ phase' = "table" /\ UNCHANGED <<segments, builder>>
          /\ at.segment <= Len(segments)
          /\ at.section <= Len(segments[at.segment].sections)
    BY <1>2 DEF ReadTable, Reading, TableInfos
  <2>2. 1 \in 1..Len(table.entries)
    BY <2>1, TableIsTable
  <2>3. /\ DOMAIN at' = DOMAIN Start /\ at'.segment = at.segment
        /\ at'.section = at.section /\ at'.entry = 1 /\ at'.sectors = at.sectors
        /\ at'.table = table
    BY <2>1 DEF Start, PlaceInv
  <2> QED BY <2>1, <2>2, <2>3 DEF PlaceInv
<1> QED BY <1>1, <1>2

(* The offsets of a table entry are numbers.                               *)
LEMMA DataEndIsInt ==
  ASSUME WalkInv, PlaceInv, phase = "table"
  PROVE  /\ at.table.base_offset + at.table.entries[at.entry].offset \in Nat
         /\ DataEnd(at.table, at.entry) \in Nat
<1> DEFINE entries == at.table.entries
           e == at.entry
<1>1. /\ at.table.base_offset \in 0..MaxU64
      /\ entries \in Seq([compressed : BOOLEAN, offset : 0..MaxU32])
      /\ e \in 1..Len(entries)
  BY TableIsTable DEF PlaceInv
<1> HIDE DEF entries, e
<1> DEFINE Entries == [compressed : BOOLEAN, offset : 0..MaxU32]
<1>2. \A x \in Entries : x.offset \in 0..MaxU32
  OBVIOUS
<1>3. Len(entries) \in Nat /\ \A j \in 1..Len(entries) : entries[j] \in Entries
  <2>1. entries \in Seq(Entries)
    BY <1>1
  <2> HIDE DEF Entries
  <2> QED BY <2>1
<1>4. Section.next_offset \in Nat /\ at.sectors \in Nat
  BY SectionIsHeader DEF PlaceInv, SectionHeader
<1>5. MaxU32 \in Nat /\ MaxU64 \in Nat
  BY EwfOpenAssumption
<1> HIDE DEF Entries
<1>6. at.table.base_offset + entries[e].offset \in Nat
  BY <1>1, <1>2, <1>3, <1>5
<1>7. e < Len(entries) => at.table.base_offset + entries[e + 1].offset \in Nat
  <2>1. e < Len(entries) => e + 1 \in 1..Len(entries)
    BY <1>1, <1>3
  <2> QED BY <2>1, <1>1, <1>2, <1>3, <1>5
<1> QED BY <1>4, <1>6, <1>7 DEF DataEnd, entries, e

LEMMA ReadTableEntryPlace ==
  ASSUME BuilderInv, WalkInv, PlaceInv, ReadTableEntry
  PROVE  PlaceInv'
<1>1. CASE Fail
  BY <1>1, FailPlace
<1>2. CASE ~Fail
  <2> DEFINE entry       == at.table.entries[at.entry]
             data_offset == at.table.base_offset + entry.offset
             data_end    == DataEnd(at.table, at.entry)
             chunk == [segment_index  |-> at.segment,
                       logical_offset |-> builder.next_chunk_logical_offset,
                       logical_size   |-> Remaining,
                       data_offset    |-> data_offset,
                       data_size      |-> data_end - data_offset,
                       compressed     |-> entry.compressed]
  <2>1. /\ EntryIsGood(data_offset, data_end)
        /\ phase = "table"
        /\ segments' = segments
    BY <1>2 DEF ReadTableEntry
  <2>2. data_offset \in Nat /\ data_end \in Nat
    BY <2>1, DataEndIsInt
  <2>3. /\ data_end > data_offset /\ data_end - data_offset <= MaxU32 /\ data_end <= MaxU64
        /\ MaxU32 \in Nat /\ MaxU64 \in Nat
    BY <2>1, EwfOpenAssumption DEF EntryIsGood
  <2>4. /\ at.segment \in Nat \ {0} /\ at.section \in Nat \ {0}
        /\ at.segment <= Len(segments)
        /\ at.section <= Len(segments[at.segment].sections)
        /\ at.table \in Tables /\ at.entry \in 1..Len(at.table.entries)
        /\ DOMAIN at = DOMAIN Start
        /\ at.sectors \in 0..MaxU64
    BY <2>1 DEF PlaceInv
  <2>5. ChunkPlaced(chunk, Len(segments))
    <3>1. /\ chunk.segment_index = at.segment /\ chunk.data_offset = data_offset
          /\ chunk.data_size = data_end - data_offset
      OBVIOUS
    <3>2. at.segment \in 1..Len(segments)
      <4>1. Len(segments) \in Nat
        BY DEF WalkInv
      <4> QED BY <2>4, <4>1
    <3> HIDE DEF data_offset, data_end, chunk
    <3>3. data_end - data_offset \in 1..MaxU32 /\ data_offset + (data_end - data_offset) <= MaxU64
      BY <2>2, <2>3
    <3> QED BY <3>1, <3>2, <3>3 DEF ChunkPlaced
  <2>6. /\ builder' = [builder EXCEPT
                           !.chunks = [i \in 0..builder.count |->
                                         IF i = builder.count THEN chunk
                                         ELSE builder.chunks[i]],
                           !.count = @ + 1,
                           !.next_chunk_logical_offset = @ + chunk.logical_size]
        /\ IF at.entry < Len(at.table.entries)
           THEN at' = [at EXCEPT !.entry = @ + 1] /\ phase' = "table"
           ELSE /\ at' = [at EXCEPT !.section = @ + 1, !.table = NoTable, !.entry = 0]
                /\ phase' = "build"
    BY <2>1 DEF ReadTableEntry
  <2> HIDE DEF chunk
  <2>7. /\ builder'.number_of_chunks = builder.number_of_chunks
        /\ builder'.chunk_size = builder.chunk_size
        /\ builder'.media_size = builder.media_size
        /\ builder'.chunks = [i \in 0..builder.count |->
                                IF i = builder.count THEN chunk ELSE builder.chunks[i]]
    BY <2>6 DEF BuilderInv, NewBuilder
  <2>8. \A i \in DOMAIN builder'.chunks : ChunkPlaced(builder'.chunks[i], Len(segments'))
    <3>1. DOMAIN builder.chunks = 0..(builder.count - 1) /\ builder.count \in Nat
      BY DEF BuilderInv, ChunksTiled, Tiled
    <3>2. \A i \in 0..builder.count : i = builder.count \/ i \in DOMAIN builder.chunks
      BY <3>1
    <3>3. \A i \in DOMAIN builder.chunks : ChunkPlaced(builder.chunks[i], Len(segments))
      BY DEF PlaceInv, ChunkPlaced
    <3> QED BY <2>1, <2>5, <2>7, <3>2, <3>3
  <2>9. CASE at.entry < Len(at.table.entries)
    <3>1. /\ DOMAIN at' = DOMAIN Start /\ at'.segment = at.segment
          /\ at'.section = at.section /\ at'.entry = at.entry + 1
          /\ at'.sectors = at.sectors /\ at'.table = at.table
      BY <2>4, <2>6, <2>9 DEF Start
    <3>2. Len(at.table.entries) \in Nat
      BY <2>4, TableIsTable
    <3>3. at.entry + 1 \in 1..Len(at.table.entries) /\ at.entry + 1 \in Nat
      BY <2>4, <2>9, <3>2
    <3> QED BY <2>1, <2>4, <2>6, <2>7, <2>8, <2>9, <3>1, <3>3 DEF PlaceInv, ChunkPlaced
  <2>10. CASE ~(at.entry < Len(at.table.entries))
    <3>1. /\ DOMAIN at' = DOMAIN Start /\ at'.segment = at.segment
          /\ at'.section = at.section + 1 /\ at'.entry = 0
          /\ at'.sectors = at.sectors
      BY <2>4, <2>6, <2>10 DEF Start
    <3>2. phase' = "build" /\ at.section + 1 \in Nat \ {0} /\ 0 \in Nat
      BY <2>4, <2>6, <2>10
    <3> QED BY <2>1, <2>4, <2>7, <2>8, <3>1, <3>2 DEF PlaceInv, ChunkPlaced
  <2> QED BY <2>9, <2>10
<1> QED BY <1>1, <1>2

LEMMA NextPlace == BuilderInv /\ WalkInv /\ PlaceInv /\ [Next]_vars => PlaceInv'
<1> SUFFICES ASSUME BuilderInv, WalkInv, PlaceInv, [Next]_vars PROVE PlaceInv'
  OBVIOUS
<1>1. CASE OpenSegment
  <2>1. CASE ~Fail
    <3>1. /\ phase = "open" /\ phase' = "walk" /\ UNCHANGED <<segments, builder, at>>
      BY <1>1, <2>1 DEF OpenSegment
    <3> QED BY <3>1 DEF PlaceInv
  <2> QED BY <2>1, FailPlace
<1>2. CASE ReadSectionHeader
  <2>1. CASE ~Fail
    <3>1. /\ phase = "walk" /\ phase' \in {"walk", "walked"}
          /\ UNCHANGED <<segments, builder, at>>
      BY <1>2, <2>1 DEF ReadSectionHeader
    <3> QED BY <3>1 DEF PlaceInv
  <2> QED BY <2>1, FailPlace
<1>3. CASE EndWalk
  <2>1. CASE ~Fail
    <3>1. /\ phase \in {"walk", "walked"} /\ phase' \in {"open", "build"}
          /\ UNCHANGED <<builder, at>>
      BY <1>3, <2>1 DEF EndWalk
    <3>2. builder = NewBuilder /\ DOMAIN builder.chunks = {}
      BY <3>1, NewPlace DEF PlaceInv
    <3> QED BY <3>1, <3>2 DEF PlaceInv
  <2> QED BY <2>1, FailPlace
<1>4. CASE ReadSectors \/ SkipSection \/ NextSegment
  BY <1>4, SkipPlace
<1>5. CASE ReadHash \/ ReadVolume \/ ReadTable \/ ReadTableEntry
  BY <1>5, ReadHashPlace, ReadVolumePlace, ReadTablePlace, ReadTableEntryPlace
<1>6. CASE EndBuild
  <2>1. CASE ~Fail
    <3>1. phase = "build" /\ phase' = "opened" /\ UNCHANGED <<segments, builder, at>>
      BY <1>6, <2>1 DEF EndBuild
    <3> QED BY <3>1 DEF PlaceInv
  <2> QED BY <2>1, FailPlace
<1>7. CASE Done \/ UNCHANGED vars
  BY <1>7 DEF Done, vars, PlaceInv
<1> QED BY <1>1, <1>2, <1>3, <1>4, <1>5, <1>6, <1>7 DEF Next, Open

(* EwfBuilder's fields keep their widths, every chunk has at least one     *)
(* byte of data, of a size that fits in 32 bits, and names a segment that  *)
(* was opened.  Where in its segment the data is, the code does not look   *)
(* at, and nothing is said of it.                                          *)
THEOREM TypeCorrect == Spec => []TypeOK
<1>1. Init => PlaceInv
  BY FreshPlace DEF Init
<1>2. BuilderInv /\ WalkInv /\ PlaceInv => TypeOK
  <2> SUFFICES ASSUME BuilderInv, WalkInv, PlaceInv PROVE TypeOK
    OBVIOUS
  <2>1. /\ builder.number_of_chunks \in 0..MaxU32 /\ builder.chunk_size \in 0..MaxU32
        /\ builder.media_size \in 0..MaxU64
    BY EwfOpenAssumption DEF BuilderInv, PlaceInv
  <2>2. builder.next_chunk_logical_offset \in 0..MaxU64
    <3> DEFINE p == builder.count * builder.chunk_size
    <3>1. p \in Nat
      BY DEF BuilderInv
    <3>2. builder.next_chunk_logical_offset
            = IF p <= builder.media_size THEN p ELSE builder.media_size
      BY DEF BuilderInv, ChunksTiled, Covered
    <3> HIDE DEF p
    <3> QED BY <2>1, <3>1, <3>2, EwfOpenAssumption
  <2> QED BY <2>1, <2>2 DEF TypeOK, BuilderInv, WalkInv, PlaceInv
<1> QED BY <1>1, <1>2, InitInv, NextInv, InitWalk, NextWalk, NextPlace, PTL DEF Spec
=============================================================================
