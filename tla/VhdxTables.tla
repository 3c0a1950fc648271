----------------------------- MODULE VhdxTables -----------------------------
(***************************************************************************)
(* VhdxFile::open_internal (keramics-drivers/src/image/vhdx/mod.rs): the   *)
(* newer of two headers, the first readable of two region tables, then one *)
(* round per block.  The block allocation table has the entry of a sector  *)
(* bitmap after every entries_per_chunk entries of blocks.                 *)
(*                                                                         *)
(* layout, in sectors: size, block, flags (of the file parameters),        *)
(* entries_per_chunk, entries (the size of the table), bat (its readable   *)
(* part: state, offset, and for a bitmap the bits of each block of the     *)
(* chunk), headers and regions (both copies), parent_identifier (of the    *)
(* parent locator, or "none") and parent (the headers of the parent file,  *)
(* or <<>>).                                                               *)
(***************************************************************************)
EXTENDS SectorBitmap

(* Slip: the first valid header is taken.                                  *)
ActiveHeaderFirst(headers) == IF headers[1].valid THEN headers[1] ELSE headers[2]

(* read_active_image_header, if a header is valid.                         *)
ActiveHeader(headers) ==
  IF /\ headers[1].valid
     /\ headers[2].valid => headers[1].sequence_number > headers[2].sequence_number
  THEN headers[1] ELSE headers[2]

NoHeader(headers) == ~headers[1].valid /\ ~headers[2].valid

(* read_region_table: a table that is read and lacks a region is not       *)
(* replaced by the other.                                                  *)
NoRegions(regions) ==
  IF regions[1].valid THEN ~regions[1].complete ELSE ~(regions[2].valid /\ regions[2].complete)

(* What read_metadata_values makes of the flags.                           *)
VhdxDiskType == CASE layout.flags = 0 -> "fixed"
                  [] layout.flags = 1 -> "dynamic"
                  [] layout.flags = 2 -> "differential"
                  [] OTHER -> "unsupported"

VhdxUnsupported ==
  \/ NoHeader(layout.headers)
  \/ NoRegions(layout.regions)
  \/ VhdxDiskType = "unsupported"
  \/ /\ VhdxDiskType = "differential"
     /\ \/ layout.parent = <<>>
        \/ layout.parent_identifier = "none"
        \/ ActiveHeader(layout.parent).identifier # layout.parent_identifier
  \/ layout.size > layout.entries * layout.block

Chunk(b) == b \div layout.entries_per_chunk

(* A slip: the entries of the bitmaps are not skipped.                     *)
TableEntryIndexDense(b) == b

table_entry_index(b) ==
  IF VhdxDiskType = "fixed" THEN b
  ELSE Chunk(b) * (layout.entries_per_chunk + 1) + (b % layout.entries_per_chunk)

bitmap_entry_index(b) == (1 + Chunk(b)) * (layout.entries_per_chunk + 1) - 1

(* read_bat_entry                                                          *)
Unreadable(i) == i >= layout.entries \/ i >= Len(layout.bat)
VhdxEntry(b) == layout.bat[table_entry_index(b) + 1]
VhdxBitmap(b) == layout.bat[bitmap_entry_index(b) + 1]
VhdxBits(b) == VhdxBitmap(b).bits[(b % layout.entries_per_chunk) + 1]

(* A differential disk looks into the bitmap unless the block is present   *)
(* as a whole.                                                             *)
UsesBitmap(b) == VhdxDiskType = "differential" /\ VhdxEntry(b).state # 6

VhdxUnmappable(b) ==
  \/ Unreadable(table_entry_index(b))
  \/ /\ UsesBitmap(b)
     /\ Unreadable(bitmap_entry_index(b)) \/ VhdxBitmap(b).state < 6

VhdxRanges(b) == Ranges(VhdxBits(b), VhdxBits(b)[1])

(* The ranges end with the block.                                          *)
VhdxExtents(b) ==
  LET media_offset == b * layout.block
      size == Least(layout.block, layout.size - media_offset)
  IN  IF UsesBitmap(b)
      THEN BitmapExtents(VhdxRanges(b), media_offset,
                         VhdxEntry(b).offset, media_offset + size, "parent")
      ELSE IF VhdxEntry(b).state < 6 THEN <<Zero(media_offset, size)>>
      ELSE <<Data(media_offset, size, "file", VhdxEntry(b).offset)>>

(* range_data_offset leaves 64 bits.                                       *)
VhdxOverflows(b) ==
  /\ ~VhdxUnmappable(b) /\ UsesBitmap(b)
  /\ \E i \in 1..Len(VhdxRanges(b)) :
       LET range == VhdxRanges(b)[i]
       IN  /\ b * layout.block + range.offset < layout.size
           /\ VhdxEntry(b).offset + range.offset + range.size > MaxU64

VhdxDone == at >= Ceil(layout.size, layout.block)

VhdxOpen ==
  \/ Loop("vhdx", VhdxUnsupported, VhdxDone, VhdxUnmappable(at), extents \o VhdxExtents(at), at + 1)
  \/ Walking("vhdx") /\ ~VhdxUnsupported /\ ~VhdxDone /\ VhdxOverflows(at) /\ Panic
-----------------------------------------------------------------------------
(* The newest header that is valid; the second of two equal ones.          *)
Newest(headers) ==
  CHOOSE h \in {headers[1], headers[2]} :
    /\ h.valid
    /\ \A g \in {headers[1], headers[2]} : g.valid => g.sequence_number <= h.sequence_number
    /\ headers[2].valid /\ headers[2].sequence_number = h.sequence_number => h = headers[2]

(* The entry of block b as the format has it: 1 is the flag of a fixed     *)
(* image, whose table has no bitmaps, and 2 that of a differential one.    *)
VhdxBlocks == 0..(Ceil(layout.size, layout.block) - 1)
VhdxIndex(b) == IF layout.flags = 1 THEN b ELSE b + (b \div layout.entries_per_chunk)
VhdxListed(b) == layout.bat[VhdxIndex(b) + 1]

VhdxHasBitmap(b) ==
  /\ bitmap_entry_index(b) < Least(layout.entries, Len(layout.bat))
  /\ VhdxBitmap(b).state >= 6

VhdxUsable ==
  /\ \E i \in 1..2 : layout.headers[i].valid
  /\ \E i \in 1..2 : /\ layout.regions[i].valid /\ layout.regions[i].complete
                     /\ \A j \in 1..(i - 1) : ~layout.regions[j].valid
  /\ layout.flags \in 0..2
  /\ layout.flags = 2 =>
       layout.parent # <<>> /\ Newest(layout.parent).identifier = layout.parent_identifier
  /\ \A b \in VhdxBlocks :
       /\ VhdxIndex(b) < Least(layout.entries, Len(layout.bat))
       /\ layout.flags = 2 /\ VhdxListed(b).state = 7 => VhdxHasBitmap(b)

(* The code has the meaning of 0 and 1 the other way round, which matters  *)
(* once there is more than one chunk.                                      *)
VhdxSwapped == layout.flags \in {0, 1} /\ layout.size > layout.entries_per_chunk * layout.block

(* It asks for the bitmap of blocks that are not stored at all.            *)
VhdxTurnedDown ==
  /\ layout.flags = 2
  /\ \E b \in VhdxBlocks :
       /\ VhdxIndex(b) < Least(layout.entries, Len(layout.bat))
       /\ VhdxListed(b).state < 6 /\ ~VhdxHasBitmap(b)

(* A block that ends past what 64 bits can hold.                           *)
VhdxWraps ==
  /\ layout.flags = 2
  /\ \E b \in VhdxBlocks :
       /\ VhdxIndex(b) < Least(layout.entries, Len(layout.bat))
       /\ VhdxListed(b).offset + layout.block > MaxU64

(* Blocks in state 2 are zero, other blocks that are not stored are the    *)
(* parent's or zero, and the bitmap is for blocks stored in part.          *)
VhdxDeclared(o) ==
  LET b == o \div layout.block
      k == o % layout.block
      stored == \/ VhdxListed(b).state >= 6 /\ layout.flags # 2
                \/ VhdxListed(b).state = 6
                \/ VhdxListed(b).state = 7 /\ VhdxBits(b)[k + 1]
  IN  IF VhdxIndex(b) >= Least(layout.entries, Len(layout.bat)) THEN Target("none", 0)
      ELSE IF stored THEN Target("file", VhdxListed(b).offset + k)
      ELSE IF layout.flags = 2 /\ VhdxListed(b).state # 2 THEN Target("parent", o)
      ELSE ZeroTarget

(* Another entry is used, or the bitmap of a block that has no use of it.  *)
VhdxPlace(entry) == Target(IF entry.state < 6 THEN "zero" ELSE "file", entry.offset)

VhdxMisplaced(o) ==
  LET b == o \div layout.block IN
  IF layout.flags = 2
  THEN VhdxListed(b).state < 6 /\ (VhdxListed(b).state = 2 \/ VhdxBits(b)[(o % layout.block) + 1])
  ELSE \/ VhdxIndex(b) >= Least(layout.entries, Len(layout.bat))
       \/ VhdxPlace(VhdxEntry(b)) # VhdxPlace(VhdxListed(b))
=============================================================================
