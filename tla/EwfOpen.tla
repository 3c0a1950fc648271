------------------------------ MODULE EwfOpen -------------------------------
(***************************************************************************)
(* Opening an EWF image (EwfImage::open and EwfBuilder,                    *)
(* keramics-drivers/src/image/ewf/mod.rs): the segment files are opened    *)
(* one after the other, the section headers of each are walked, then the   *)
(* sections are read in order to build the chunk table that EwfReader      *)
(* uses.  The files are not trusted: whatever a header, a volume section   *)
(* or a table holds is chosen from the sets below.  Every check that       *)
(* fails ends the opening, and nothing of the image is kept.               *)
(***************************************************************************)
EXTENDS EwfGeometry, Sequences

CONSTANTS FileHeaderSize,   \* 13 in the code
          HeaderSize,       \* 76 in the code: a section's header
          FileSizes,        \* the sizes of segment files
          MaxSegments,      \* the last segment number the naming schema has a name for
          Volumes,          \* what a volume section may say
          Tables,           \* what a table section may say
          MaxU32, MaxU64

ASSUME EwfOpenAssumption ==
  /\ FileHeaderSize \in Nat \ {0}
  /\ HeaderSize \in Nat \ {0}
  /\ MaxSegments \in Nat \ {0}
  /\ MaxU32 \in Nat
  /\ MaxU64 \in Nat
  /\ FileSizes \subseteq 0..MaxU64
  /\ Volumes \subseteq [number_of_chunks : 0..MaxU32, sectors_per_chunk : 0..MaxU32,
                        bytes_per_sector : 0..MaxU32, number_of_sectors : 0..MaxU64]
  /\ Tables \subseteq [base_offset : 0..MaxU64,
                       entries : Seq([compressed : BOOLEAN, offset : 0..MaxU32])]

VARIABLES phase,      \* where open is: see Phases
          segments,   \* the segments opened so far
          segment,    \* the segment whose headers are walked
          builder,    \* EwfBuilder
          at          \* where read_segments is

vars == <<phase, segments, segment, builder, at>>

(* A disk section is read as a volume section is.                          *)
Types == {"volume", "sectors", "table", "hash", "digest", "ignored", "done", "next"}

IsEnd(type) == type \in {"done", "next"}

NoSegment == [number |-> 0, size |-> 0, file_offset |-> 0, sections |-> <<>>]
NoTable   == [base_offset |-> 0, entries |-> <<>>]
NewBuilder == [saw_volume |-> FALSE, number_of_chunks |-> 0, chunk_size |-> 0,
               media_size |-> 0, chunks |-> [i \in 0..-1 |-> 0], count |-> 0,
               next_chunk_logical_offset |-> 0, md5_hash |-> FALSE, sha1_hash |-> FALSE]
Start == [segment |-> 1, section |-> 1, sectors |-> 0, table |-> NoTable, entry |-> 0]

Init == /\ phase = "open"
        /\ segments = <<>>
        /\ segment = NoSegment
        /\ builder = NewBuilder
        /\ at = Start

(* An error is returned: all that was read is dropped.                     *)
Fail == /\ phase' = "failed"
        /\ segments' = <<>>
        /\ segment' = NoSegment
        /\ builder' = NewBuilder
        /\ at' = Start

(* open_segments, one round: the file has a name, exists, and its header   *)
(* can be read.                                                            *)
OpenSegment ==
  /\ phase = "open"
  /\ \/ /\ Len(segments) + 1 <= MaxSegments
        /\ \E size \in FileSizes, number \in 0..(MaxSegments + 1) :
             /\ size >= FileHeaderSize
             /\ segment' = [number |-> number, size |-> size,
                            file_offset |-> FileHeaderSize, sections |-> <<>>]
        /\ phase' = "walk"
        /\ UNCHANGED <<segments, builder, at>>
     \/ Fail

(* read_section_headers accepts a header at o whose fields are next and    *)
(* size; a size of zero means the size that next implies.                  *)
ImpliedSize(type, o, next) == IF IsEnd(type) THEN HeaderSize ELSE next - o

(* A slip: the least size is not checked.                                  *)
AcceptsTiny(type, o, next, size) ==
  /\ IF IsEnd(type) THEN next = o ELSE next > o
  /\ size \in {0, ImpliedSize(type, o, next)}

Accepts(type, o, next, size) ==
  /\ IF IsEnd(type) THEN next = o ELSE next > o
  /\ size \in {0, ImpliedSize(type, o, next)}
  /\ ImpliedSize(type, o, next) >= HeaderSize

ReadSectionHeader ==
  LET o == segment.file_offset IN
  /\ phase = "walk"
  /\ o < segment.size
  /\ \/ /\ o + HeaderSize <= segment.size      \* read_exact_at of the header
        /\ \E type \in Types, next \in 0..MaxU64, size \in 0..MaxU64 :
             LET implied == ImpliedSize(type, o, next) IN
             /\ Accepts(type, o, next, size)
             /\ o + implied <= MaxU64
             /\ segment' = [segment EXCEPT
                              !.file_offset = o + implied,
                              !.sections = Append(@, [type |-> type, file_offset |-> o,
                                                      next_offset |-> next, size |-> implied])]
             /\ phase' = IF IsEnd(type) THEN "walked" ELSE "walk"
        /\ UNCHANGED <<segments, builder, at>>
     \/ Fail

LastType(sections) == IF sections = <<>> THEN "ignored" ELSE sections[Len(sections)].type

(* A slip: the number in the file's header is not looked at.               *)
WalkIsGoodUnnumbered(seg, number) == seg.file_offset = seg.size

WalkIsGood(seg, number) == /\ seg.file_offset = seg.size
                           /\ seg.number = number

(* A slip: the segment number is not increased, the same file is opened    *)
(* again.                                                                  *)
EndWalkAgain ==
  /\ \/ phase = "walked"
     \/ phase = "walk" /\ segment.file_offset >= segment.size
  /\ IF WalkIsGood(segment, Len(segments) + 1)
     THEN IF LastType(segment.sections) = "next"
          THEN phase' = "open" /\ segment' = NoSegment /\ UNCHANGED <<segments, builder, at>>
          ELSE /\ phase' = "build" /\ segment' = NoSegment
               /\ segments' = Append(segments, segment)
               /\ UNCHANGED <<builder, at>>
     ELSE Fail

(* The end of the walk, and the rest of the round of open_segments: a      *)
(* segment that ends in a next section has a successor.                    *)
EndWalk ==
  /\ \/ phase = "walked"
     \/ phase = "walk" /\ segment.file_offset >= segment.size
  /\ IF WalkIsGood(segment, Len(segments) + 1)
     THEN /\ segments' = Append(segments, segment)
          /\ phase' = IF LastType(segment.sections) = "next" THEN "open" ELSE "build"
          /\ segment' = NoSegment
          /\ UNCHANGED <<builder, at>>
     ELSE Fail

Section == segments[at.segment].sections[at.section]

(* read_segments goes to the next section of the segment.                  *)
NextSection == at' = [at EXCEPT !.section = @ + 1]

Reading(types) == /\ phase = "build"
                  /\ at.segment <= Len(segments)
                  /\ at.section <= Len(segments[at.segment].sections)
                  /\ Section.type \in types

ReadSectors == /\ Reading({"sectors"})
               /\ at' = [at EXCEPT !.section = @ + 1, !.sectors = Section.next_offset]
               /\ UNCHANGED <<phase, segments, segment, builder>>

(* data, table2, done, next and unknown sections.                          *)
SkipSection == /\ Reading({"ignored", "done", "next"})
               /\ NextSection
               /\ UNCHANGED <<phase, segments, segment, builder>>

(* A hash section has the MD5, a digest section the MD5 and the SHA1.      *)
ReadHash == /\ Reading({"hash", "digest"})
            /\ \/ /\ builder' = [builder EXCEPT !.md5_hash = TRUE,
                                                !.sha1_hash = @ \/ Section.type = "digest"]
                  /\ NextSection
                  /\ UNCHANGED <<phase, segments, segment>>
               \/ Fail

(* fn read_volume_section: the geometry in a section whose size and        *)
(* checksum are good, from either layout.                                  *)
VolumeInfos == Volumes

(* A slip: a second volume section is accepted.                            *)
VolumeIsGoodTwice(v) ==
  /\ segments[at.segment].number = 1
  /\ v.number_of_chunks # 0 /\ v.sectors_per_chunk # 0 /\ v.bytes_per_sector # 0

VolumeIsGood(v) ==
  /\ segments[at.segment].number = 1
  /\ ~builder.saw_volume
  /\ v.number_of_chunks # 0 /\ v.sectors_per_chunk # 0 /\ v.bytes_per_sector # 0
  /\ v.sectors_per_chunk * v.bytes_per_sector <= MaxU32
  /\ v.number_of_sectors * v.bytes_per_sector <= MaxU64

ReadVolume ==
  /\ Reading({"volume"})
  /\ \/ /\ \E v \in VolumeInfos :
             /\ VolumeIsGood(v)
             /\ builder' = [builder EXCEPT
                              !.saw_volume = TRUE,
                              !.number_of_chunks = v.number_of_chunks,
                              !.chunk_size = v.sectors_per_chunk * v.bytes_per_sector,
                              !.media_size = v.number_of_sectors * v.bytes_per_sector]
        /\ NextSection
        /\ UNCHANGED <<phase, segments, segment>>
     \/ Fail

(* fn read_table_section: the entries of a table whose sizes and checksums *)
(* are good.                                                               *)
TableInfos == Tables

(* A table needs the volume's geometry and an entry.                       *)
ReadTable ==
  /\ Reading({"table"})
  /\ \/ /\ builder.saw_volume
        /\ \E table \in TableInfos :
             /\ table.entries # <<>>
             /\ at' = [at EXCEPT !.table = table, !.entry = 1]
        /\ phase' = "table"
        /\ UNCHANGED <<segments, segment, builder>>
     \/ Fail

(* The end of a chunk's data: the next chunk, or for the last one of the   *)
(* table the end of the sectors section before it, or of the table.        *)
DataEnd(table, e) ==
  IF e < Len(table.entries)
  THEN table.base_offset + table.entries[e + 1].offset
  ELSE IF at.sectors # 0 THEN at.sectors ELSE Section.next_offset

(* Slips: a chunk is always full; a chunk may end where it starts.         *)
RemainingAlwaysFull == builder.chunk_size
EntryIsGoodUnordered(data_offset, data_end) ==
  /\ data_offset <= MaxU64 /\ data_end <= MaxU64
  /\ data_end >= data_offset
  /\ builder.next_chunk_logical_offset < builder.media_size
  /\ data_end - data_offset <= MaxU32

(* fn remaining_chunk_logical_size                                         *)
Remaining == ChunkLogicalSize(builder.chunk_size, builder.media_size,
                              builder.next_chunk_logical_offset)

EntryIsGood(data_offset, data_end) ==
  /\ data_offset <= MaxU64 /\ data_end <= MaxU64
  /\ data_end > data_offset
  /\ builder.next_chunk_logical_offset < builder.media_size
  /\ data_end - data_offset <= MaxU32

(* One table entry is one chunk.                                           *)
ReadTableEntry ==
  LET entry       == at.table.entries[at.entry]
      data_offset == at.table.base_offset + entry.offset
      data_end    == DataEnd(at.table, at.entry)
      chunk       == [segment_index  |-> at.segment,
                      logical_offset |-> builder.next_chunk_logical_offset,
                      logical_size   |-> Remaining,
                      data_offset    |-> data_offset,
                      data_size      |-> data_end - data_offset,
                      compressed     |-> entry.compressed]
  IN
  /\ phase = "table"
  /\ IF EntryIsGood(data_offset, data_end)
     THEN /\ builder' = [builder EXCEPT
                           !.chunks = [i \in 0..builder.count |->
                                         IF i = builder.count THEN chunk
                                         ELSE builder.chunks[i]],
                           !.count = @ + 1,
                           !.next_chunk_logical_offset = @ + chunk.logical_size]
          /\ IF at.entry < Len(at.table.entries)
             THEN /\ at' = [at EXCEPT !.entry = @ + 1]
                  /\ UNCHANGED phase
             ELSE /\ at' = [at EXCEPT !.section = @ + 1, !.table = NoTable, !.entry = 0]
                  /\ phase' = "build"
          /\ UNCHANGED <<segments, segment>>
     ELSE Fail

(* A segment's sections are all read: last_sectors_section is forgotten.   *)
NextSegment ==
  /\ phase = "build"
  /\ at.segment <= Len(segments)
  /\ at.section > Len(segments[at.segment].sections)
  /\ at' = [Start EXCEPT !.segment = at.segment + 1]
  /\ UNCHANGED <<phase, segments, segment, builder>>

(* A slip: the media size is not compared with what the tables covered.    *)
BuildIsGoodUncovered == builder.saw_volume /\ builder.count = builder.number_of_chunks

(* The last checks of read_segments; the count is compared as a u32.       *)
BuildIsGood == /\ builder.saw_volume
               /\ builder.count % (MaxU32 + 1) = builder.number_of_chunks
               /\ builder.next_chunk_logical_offset = builder.media_size

EndBuild == /\ phase = "build"
            /\ at.segment > Len(segments)
            /\ IF BuildIsGood
               THEN /\ phase' = "opened"
                    /\ UNCHANGED <<segments, segment, builder, at>>
               ELSE Fail

Open == \/ OpenSegment \/ ReadSectionHeader \/ EndWalk
        \/ ReadSectors \/ SkipSection \/ ReadHash \/ ReadVolume
        \/ ReadTable \/ ReadTableEntry \/ NextSegment \/ EndBuild

Done == phase \in {"opened", "failed"} /\ UNCHANGED vars

Next == Open \/ Done

(* open runs on its own, to its end.                                       *)
Spec == Init /\ [][Next]_vars /\ WF_vars(Open)
-----------------------------------------------------------------------------
Phases == {"open", "walk", "walked", "build", "table", "opened", "failed"}

SectionHeader == [type : Types, file_offset : 0..MaxU64, next_offset : 0..MaxU64,
                  size : 0..MaxU64]
Segment == [number : 0..(MaxSegments + 1), size : 0..MaxU64, file_offset : 0..MaxU64,
            sections : Seq(SectionHeader)]

(* Types and widths; the bytes of every chunk are somewhere: its segment   *)
(* was opened, and its data is not empty (read_table_section).             *)
TypeOK ==
  /\ phase \in Phases
  /\ segments \in Seq(Segment)
  /\ segment \in Segment
  /\ builder.saw_volume \in BOOLEAN
  /\ builder.number_of_chunks \in 0..MaxU32
  /\ builder.chunk_size \in 0..MaxU32
  /\ builder.media_size \in 0..MaxU64
  /\ builder.next_chunk_logical_offset \in 0..MaxU64
  /\ builder.count \in Nat
  /\ at.segment \in Nat \ {0} /\ at.section \in Nat \ {0} /\ at.entry \in Nat
  /\ at.sectors \in 0..MaxU64
  /\ \A i \in DOMAIN builder.chunks :
       /\ builder.chunks[i].segment_index \in 1..Len(segments)
       /\ builder.chunks[i].data_size \in 1..MaxU32
       /\ builder.chunks[i].data_offset + builder.chunks[i].data_size <= MaxU64

(* The sections of a segment file lie end to end from its header to its    *)
(* end, and none is smaller than a header (data_size subtracts 76 without  *)
(* a check).                                                               *)
SectionStart(sections, j) ==
  IF j = 1 THEN FileHeaderSize ELSE sections[j - 1].file_offset + sections[j - 1].size

TilesUpTo(sections, end) ==
  /\ \A j \in 1..Len(sections) : /\ sections[j].file_offset = SectionStart(sections, j)
                                 /\ sections[j].size >= HeaderSize
  /\ end = SectionStart(sections, Len(sections) + 1)

SectionsTile ==
  /\ phase \in {"walk", "walked"} => TilesUpTo(segment.sections, segment.file_offset)
  /\ \A i \in 1..Len(segments) : TilesUpTo(segments[i].sections, segments[i].size)

(* The segments are those numbered 1, 2, ..., and each one but the last    *)
(* ends in a next section (open_segments).                                 *)
SegmentsInOrder ==
  \A i \in 1..Len(segments) :
     /\ segments[i].number = i
     /\ i < Len(segments) \/ phase = "open" => LastType(segments[i].sections) = "next"

(* While tables are read, the chunks tile the media from its start without *)
(* a gap, whatever the tables say and wherever the segments end.           *)
ChunksTiled ==
  /\ Tiled(builder.chunks, builder.count, builder.chunk_size, builder.media_size)
  /\ builder.next_chunk_logical_offset
       = Covered(builder.count, builder.chunk_size, builder.media_size)

(* Why: the tables come after the volume, and only its geometry counts.    *)
BuilderInv ==
  /\ DOMAIN builder = DOMAIN NewBuilder
  /\ builder.saw_volume \in BOOLEAN
  /\ builder.number_of_chunks \in Nat
  /\ builder.chunk_size \in Nat
  /\ builder.media_size \in Nat
  /\ builder.count \in Nat
  /\ builder.saw_volume => builder.number_of_chunks > 0 /\ builder.chunk_size > 0
  /\ ~builder.saw_volume => builder.count = 0 /\ builder.next_chunk_logical_offset = 0
  /\ phase = "table" => builder.saw_volume
  /\ phase = "opened" => BuildIsGood
  /\ ChunksTiled

(* Why: the segments before the one that is walked end in a next section.  *)
WalkInv ==
  /\ phase \in Phases
  /\ segments \in Seq(Segment)
  /\ segment \in Segment
  /\ SectionsTile
  /\ \A i \in 1..Len(segments) :
       /\ segments[i].number = i
       /\ i < Len(segments) \/ phase \in {"open", "walk", "walked"}
            => LastType(segments[i].sections) = "next"

(* Why: nothing is built before the last segment is walked, and the table  *)
(* that is read belongs to a section there is.                             *)
PlaceInv ==
  /\ DOMAIN at = DOMAIN Start
  /\ at.segment \in Nat \ {0} /\ at.section \in Nat \ {0} /\ at.entry \in Nat
  /\ at.sectors \in 0..MaxU64
  /\ builder.number_of_chunks <= MaxU32
  /\ builder.chunk_size <= MaxU32
  /\ builder.media_size <= MaxU64
  /\ phase \in {"open", "walk", "walked"} => builder = NewBuilder
  /\ phase = "table" =>
       /\ at.segment <= Len(segments)
       /\ at.section <= Len(segments[at.segment].sections)
       /\ at.table \in Tables
       /\ at.entry \in 1..Len(at.table.entries)
  /\ \A i \in DOMAIN builder.chunks :
       /\ builder.chunks[i].segment_index \in 1..Len(segments)
       /\ builder.chunks[i].data_size \in 1..MaxU32
       /\ builder.chunks[i].data_offset + builder.chunks[i].data_size <= MaxU64

(* An image that opens has the geometry its reader divides offsets by: the *)
(* chunk of every offset of the media exists.                              *)
OpenedGeometry ==
  phase = "opened" =>
     /\ Geometry(builder.chunks, builder.count, builder.chunk_size, builder.media_size)
     /\ builder.chunk_size > 0
     /\ builder.media_size > 0

(* Once a volume section gave the geometry no later section changes it,    *)
(* and no later table changes a chunk that was read.                       *)
GeometryFrozen ==
  [][builder.saw_volume /\ phase' # "failed" =>
       /\ builder'.chunk_size = builder.chunk_size
       /\ builder'.media_size = builder.media_size
       /\ \A i \in DOMAIN builder.chunks :
            i \in DOMAIN builder'.chunks /\ builder'.chunks[i] = builder.chunks[i]]_vars

(* open ends, whatever the files hold: the walk over the headers of a      *)
(* segment always advances, and the naming schema runs out of names.       *)
OpenEnds == <>(phase \in {"opened", "failed"})
=============================================================================
