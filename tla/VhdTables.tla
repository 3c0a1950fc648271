------------------------------ MODULE VhdTables -----------------------------
(***************************************************************************)
(* VhdFile::open_internal (keramics-drivers/src/image/vhd/mod.rs): one     *)
(* round per block, through the block allocation table and the sector      *)
(* bitmap in front of the block's data.                                    *)
(*                                                                         *)
(* layout, in sectors: size, block, file, disk_type, blocks (of the        *)
(* table), bat (the readable entries: <<>> for 0xffffffff, or the sector   *)
(* and the bitmap), parent_identifier (in the header, or "nil"), parent    *)
(* (the identifier of the parent file given, or "none").  A bitmap is a    *)
(* sequence of bytes, a byte the sequence of its bits, the MSB first.      *)
(***************************************************************************)
EXTENDS SectorBitmap

CONSTANTS ByteBits,     \* 8
          SectorBytes   \* 512

ASSUME VhdAssumption == ByteBits \in Nat \ {0} /\ SectorBytes \in Nat \ {0}

VhdUnsupported ==
  \/ /\ layout.disk_type = "differential"
     /\ \/ layout.parent = "none"
        \/ layout.parent_identifier = "nil"
        \/ layout.parent # layout.parent_identifier
  \/ layout.disk_type = "dynamic" /\ layout.parent_identifier # "nil"
  \/ layout.disk_type # "fixed" /\ layout.size > layout.blocks * layout.block

(* What takes the place of a sector that is not in the file.               *)
VhdOther == IF layout.disk_type = "differential" THEN "parent" ELSE "zero"

VhdEntry(b) == layout.bat[b + 1]

(* The bitmap takes whole sectors; sectors_per_block / 8 is rounded down.  *)
sector_bitmap_size == Ceil(layout.block \div ByteBits, SectorBytes)

VhdDataOffset(b) == VhdEntry(b).sector + sector_bitmap_size

VhdUnmappable(b) ==
  \/ b >= Len(layout.bat)
  \/ VhdEntry(b) # <<>> /\ VhdDataOffset(b) + layout.block > layout.file

(* The bits in the order in which the loop takes them: value & 0x01 first. *)
VhdBits(bitmap) ==
  [k \in 1..(Len(bitmap) * ByteBits) |->
     bitmap[((k - 1) \div ByteBits) + 1][ByteBits - ((k - 1) % ByteBits)]]

(* The first value is data[0] >> 7, and the ranges may go on past the      *)
(* block: only the end of the media stops them.                            *)
VhdExtents(b) ==
  LET media_offset == b * layout.block
      size == Least(layout.block, layout.size - media_offset)
  IN  IF VhdEntry(b) = <<>>
      THEN <<IF VhdOther = "zero" THEN Zero(media_offset, size)
             ELSE Data(media_offset, size, VhdOther, media_offset)>>
      ELSE BitmapExtents(Ranges(VhdBits(VhdEntry(b).bitmap), VhdEntry(b).bitmap[1][1]),
                         media_offset, VhdDataOffset(b), layout.size, VhdOther)

VhdOpen ==
  \/ /\ Walking("vhd") /\ layout.disk_type = "fixed"
     /\ Slice("file", 0, layout.size)
  \/ /\ layout.format = "vhd" /\ layout.disk_type # "fixed"
     /\ Loop("vhd", VhdUnsupported, at >= layout.blocks \/ at * layout.block >= layout.size,
             VhdUnmappable(at), extents \o VhdExtents(at), at + 1)
-----------------------------------------------------------------------------
VhdBlocks == 0..(Ceil(layout.size, layout.block) - 1)

(* The disk is whole: a differential one has its parent, the table has an  *)
(* entry for every block, and the blocks that are allocated are in the     *)
(* file.                                                                   *)
VhdUsable ==
  \/ layout.disk_type = "fixed"
  \/ /\ layout.parent_identifier =
          IF layout.disk_type = "differential" THEN layout.parent ELSE "nil"
     /\ layout.parent_identifier # "none"
     /\ layout.disk_type = "differential" => layout.parent # "nil"
     /\ layout.size <= layout.blocks * layout.block
     /\ \A b \in VhdBlocks :
          /\ b < Len(layout.bat)
          /\ VhdEntry(b) = <<>> \/ VhdDataOffset(b) + layout.block <= layout.file

(* The bitmaps the code can read: the first byte begins and ends with the  *)
(* same bit, and the bits are as many as the sectors of the block, or      *)
(* cover the rest of the media.  With any other it hands over a list that  *)
(* new turns down, and the disk is not opened.                             *)
VhdBitmapPlain(b) ==
  LET bitmap == VhdEntry(b).bitmap
      bits == Len(bitmap) * ByteBits
  IN  /\ bitmap[1][1] = bitmap[1][ByteBits]
      /\ \/ bits = layout.block
         \/ bits >= layout.size - b * layout.block /\ layout.size <= (b + 1) * layout.block

VhdTurnedDown ==
  /\ layout.disk_type # "fixed"
  /\ \E b \in VhdBlocks :
       b < Len(layout.bat) /\ VhdEntry(b) # <<>> /\ ~VhdBitmapPlain(b)

(* The byte at o, if bit(bitmap, k) is the bit of sector k.                *)
VhdMapped(o, bit(_, _)) ==
  LET b == o \div layout.block
      k == o % layout.block
  IN  IF layout.disk_type = "fixed" THEN Target("file", o)
      ELSE IF VhdEntry(b) # <<>> /\ bit(VhdEntry(b).bitmap, k)
      THEN Target("file", VhdDataOffset(b) + k)
      ELSE Target(VhdOther, o)

(* The bit that is documented for sector k, and the one the code takes.    *)
VhdMsbFirst(bitmap, k) == bitmap[(k \div ByteBits) + 1][(k % ByteBits) + 1]
VhdLsbFirst(bitmap, k) == bitmap[(k \div ByteBits) + 1][ByteBits - (k % ByteBits)]

VhdDeclared(o) == VhdMapped(o, VhdMsbFirst)

(* A sector for which the two differ is looked for in the wrong file.      *)
VhdMisplaced(o) ==
  LET b == o \div layout.block
      k == o % layout.block
  IN  /\ layout.disk_type # "fixed"
      /\ VhdEntry(b) # <<>>
      /\ VhdLsbFirst(VhdEntry(b).bitmap, k) # VhdMsbFirst(VhdEntry(b).bitmap, k)
=============================================================================
