------------------------------ MODULE UdifOpen ------------------------------
(***************************************************************************)
(* Opening a UDIF image (UdifFile::open,                                   *)
(* keramics-drivers/src/image/udif/mod.rs): the footer at the end of the   *)
(* file says where the data fork and the property list are; the list holds *)
(* block tables, whose entries become the block ranges that UdifReader     *)
(* uses.  The file is not trusted: what the footer, a table or an entry    *)
(* says is chosen from the sets below, and a file that cannot be read or   *)
(* parsed at some point fails there.                                       *)
(***************************************************************************)
EXTENDS RangeMap

CONSTANTS source_size,
          FooterSize,          \* 512 in the code
          BytesPerSector,      \* 512 in the code
          MaxPlistSize,        \* 16777216 in the code
          MaxBlockSectors,     \* 2048 in the code: the most a compressed block has
          Footers,             \* what a footer may say
          StartSectors,        \* where a block table may say it starts
          Entries,             \* what a block table entry may say
          MaxTables,           \* bound: block tables in the property list
          MaxEntries,          \* bound: entries of a block table
          MaxU32, MaxU64

MAXIMUM_NUMBER_OF_SECTORS == MaxU64 \div BytesPerSector

(* Entry types 0x80000004..0x80000008; 0 and 2 are "sparse", 1 "in_file".  *)
CompressedTypes == {"adc", "zlib", "bzip2", "lzfse", "lzma"}
EntryTypes == {"terminator", "comment", "sparse", "in_file", "unknown"} \cup CompressedTypes

ASSUME UdifOpenAssumption ==
  /\ BytesPerSector \in Nat \ {0}
  /\ FooterSize \in Nat /\ MaxPlistSize \in Nat /\ MaxBlockSectors \in Nat
  /\ MaxTables \in Nat /\ MaxEntries \in Nat
  /\ MaxU32 \in Nat /\ MaxU64 \in Nat
  /\ source_size \in 0..MaxU64
  /\ StartSectors \subseteq 0..MaxU64
  /\ Footers \subseteq [data_fork_offset : 0..MaxU64, data_fork_size : 0..MaxU64,
                        plist_offset : 0..MaxU64, plist_size : 0..MaxU64]
  /\ Entries \subseteq [type : EntryTypes, start_sector : 0..MaxU64,
                        number_of_sectors : 0..MaxU64,
                        data_offset : 0..MaxU64, data_size : 0..MaxU64]

VARIABLES phase,                   \* "footer", "tables", "entries", and the outcomes
                                   \* "opened", "slice" (of the data fork) and "failed"
          footer,
          tables,                  \* the number of block tables read
          entries,                 \* the number of entries of the last one read
          start_sector,            \* of the last one
          media_sector, media_offset,
          compressed_entry_type,   \* "none" for 0
          block_ranges

vars == <<phase, footer, tables, entries, start_sector, media_sector, media_offset,
          compressed_entry_type, block_ranges>>

NoFooter == [data_fork_offset |-> 0, data_fork_size |-> 0, plist_offset |-> 0, plist_size |-> 0]

data_fork_end_offset == footer.data_fork_offset + footer.data_fork_size

Init == /\ phase = "footer"
        /\ footer = NoFooter
        /\ tables = 0 /\ entries = 0 /\ start_sector = 0
        /\ media_sector = 0 /\ media_offset = 0
        /\ compressed_entry_type = "none"
        /\ block_ranges = <<>>

Fail == /\ phase' = "failed"
        /\ UNCHANGED <<footer, tables, entries, start_sector, media_sector, media_offset,
                       compressed_entry_type, block_ranges>>

(* source_size is at most MaxU64: the sums that overflow fail as well.     *)
FooterIsGood(f) ==
  /\ source_size >= FooterSize
  /\ f.data_fork_offset + f.data_fork_size <= source_size
  /\ f.plist_size # 0 => /\ f.plist_size <= MaxPlistSize
                         /\ f.plist_offset + f.plist_size <= source_size

(* UdifFileFooter::read_at: the fields of a footer whose signature and     *)
(* version are good.                                                       *)
FooterInfos == Footers

(* Without a property list the image is the data fork.                     *)
ReadFooter ==
  /\ phase = "footer"
  /\ \/ \E f \in FooterInfos :
          /\ FooterIsGood(f)
          /\ footer' = f
          /\ phase' = IF f.plist_size = 0 THEN "slice" ELSE "tables"
          /\ UNCHANGED <<tables, entries, start_sector, media_sector, media_offset,
                         compressed_entry_type, block_ranges>>
     \/ Fail

TableIsGood(s) == s = media_sector

(* fn extract_blkx_data_blocks and fn read_block_table: the start sectors  *)
(* of tables whose signature, version and number of entries are good.      *)
TableInfos == StartSectors

(* One of the block tables of the property list: there is at least one.    *)
ReadTable ==
  /\ phase = "tables"
  /\ tables < MaxTables
  /\ \/ \E s \in TableInfos :
          /\ TableIsGood(s)
          /\ start_sector' = s
          /\ tables' = tables + 1
          /\ entries' = 0
          /\ phase' = "entries"
          /\ UNCHANGED <<footer, media_sector, media_offset, compressed_entry_type, block_ranges>>
     \/ Fail

entry_media_size(e) == e.number_of_sectors * BytesPerSector

(* Slips: an entry may be empty; the start sector of an entry is not       *)
(* compared; a compressed block may use another method.                    *)
EntryIsGoodEmpty(e) ==
  /\ start_sector + e.start_sector = media_sector
  /\ media_offset + entry_media_size(e) <= MaxU64

EntryIsGoodUnordered(e) ==
  /\ e.number_of_sectors # 0
  /\ media_offset + entry_media_size(e) <= MaxU64

CompressionIsGoodMixed(e) == e.number_of_sectors <= MaxBlockSectors

(* The position and the size of an entry.  start_sector is at most         *)
(* MAXIMUM_NUMBER_OF_SECTORS (see SectorsAgree), so the code's subtraction *)
(* does not wrap, and equality implies its bound on the entry.             *)
EntryIsGood(e) ==
  /\ e.start_sector <= MAXIMUM_NUMBER_OF_SECTORS - start_sector
  /\ start_sector + e.start_sector = media_sector
  /\ e.number_of_sectors # 0 /\ e.number_of_sectors <= MAXIMUM_NUMBER_OF_SECTORS
  /\ media_offset + entry_media_size(e) <= MaxU64

(* The data of an entry that is not sparse is in the data fork.            *)
DataIsGood(e) == /\ footer.data_fork_offset <= e.data_offset
                 /\ e.data_offset < data_fork_end_offset
                 /\ e.data_size <= data_fork_end_offset - e.data_offset

CompressionIsGood(e) ==
  /\ e.number_of_sectors <= MaxBlockSectors
  /\ compressed_entry_type \in {"none", e.type}
  /\ e.data_size <= MaxU32

(* The range of an entry.  Its exact type and the sector the entry names   *)
(* are kept here for the properties; the code drops them.                  *)
BlockRange(e) ==
  [logical_offset |-> media_offset, size |-> entry_media_size(e),
   data_offset |-> IF e.type = "sparse" THEN 0 ELSE e.data_offset,
   data_size   |-> IF e.type \in CompressedTypes THEN e.data_size ELSE 0,
   type |-> e.type, declared_sector |-> start_sector + e.start_sector]

AddEntry(e) ==
  /\ e.type \in {"sparse", "in_file"} \cup CompressedTypes
  /\ EntryIsGood(e)
  /\ e.type # "sparse" => DataIsGood(e)
  /\ e.type \in CompressedTypes => CompressionIsGood(e)
  /\ block_ranges' = Append(block_ranges, BlockRange(e))
  /\ media_offset' = media_offset + entry_media_size(e)
  /\ media_sector' = media_sector + e.number_of_sectors
  /\ compressed_entry_type' = IF e.type \in CompressedTypes THEN e.type
                              ELSE compressed_entry_type
  /\ entries' = entries + 1
  /\ UNCHANGED <<phase, footer, tables, start_sector>>

(* A terminator ends the table, a comment is passed over.                  *)
SkipEntry(e) ==
  /\ e.type \in {"terminator", "comment"}
  /\ phase' = IF e.type = "terminator" THEN "tables" ELSE phase
  /\ entries' = entries + 1
  /\ UNCHANGED <<footer, tables, start_sector, media_sector, media_offset,
                 compressed_entry_type, block_ranges>>

(* fn read_block_table_entry.                                              *)
EntryInfos == Entries

ReadEntry ==
  /\ phase = "entries"
  /\ entries < MaxEntries
  /\ (\E e \in EntryInfos : AddEntry(e) \/ SkipEntry(e)) \/ Fail

(* The table has no more entries.                                          *)
EndTable == /\ phase = "entries"
            /\ phase' = "tables"
            /\ UNCHANGED <<footer, tables, entries, start_sector, media_sector, media_offset,
                           compressed_entry_type, block_ranges>>

(* There are no more tables.                                               *)
EndOpen ==
  /\ phase = "tables"
  /\ tables > 0
  /\ phase' = IF compressed_entry_type = "lzma" THEN "failed" ELSE "opened"
  /\ UNCHANGED <<footer, tables, entries, start_sector, media_sector, media_offset,
                 compressed_entry_type, block_ranges>>

Open == ReadFooter \/ ReadTable \/ ReadEntry \/ EndTable \/ EndOpen

Ended == phase \in {"opened", "slice", "failed"}

(* The caller has its answer.                                              *)
Next == Open \/ (Ended /\ UNCHANGED vars)

Spec == Init /\ [][Next]_vars
-----------------------------------------------------------------------------
(* The block ranges tile the media at every point of the opening, so that  *)
(* get_block_range of UdifReader finds the range of every offset.          *)
RangesTile == Tiles(block_ranges, media_offset)

(* Every range lies where the block table and the entry say it lies: no    *)
(* skipped comment, early terminator or second table shifts the media.     *)
RangesWhereDeclared ==
  \A i \in DOMAIN block_ranges :
    block_ranges[i].logical_offset = block_ranges[i].declared_sector * BytesPerSector

(* Sectors, which the checks are about, and bytes, which the ranges are    *)
(* in, are counted alike; the sector a table starts at is small enough for *)
(* MAXIMUM_NUMBER_OF_SECTORS - start_sector not to wrap.                   *)
SectorsAgree ==
  /\ media_offset = media_sector * BytesPerSector
  /\ media_offset <= MaxU64
  /\ start_sector <= media_sector
  /\ media_sector <= MAXIMUM_NUMBER_OF_SECTORS

(* Every compressed range of an opened image can be decoded as the reader  *)
(* does it: its data is inside the file, and it uses the one method the    *)
(* reader keeps for the file, whichever table named it first, and has a    *)
(* decoder for.                                                            *)
RangesReadable ==
  phase = "opened" =>
    \A i \in DOMAIN block_ranges : block_ranges[i].type \in CompressedTypes =>
      /\ block_ranges[i].data_offset + block_ranges[i].data_size <= source_size
      /\ block_ranges[i].type = compressed_entry_type
      /\ block_ranges[i].type # "lzma"

(* Why: the data fork ends in the file, the compressed ranges agree on the *)
(* method from the first one on, and LZMA ends the opening at its end.     *)
MethodInv ==
  /\ footer.data_fork_offset \in Nat /\ footer.data_fork_size \in Nat
  /\ data_fork_end_offset <= source_size
  /\ \A i \in DOMAIN block_ranges : block_ranges[i].type \in CompressedTypes =>
       /\ block_ranges[i].data_offset + block_ranges[i].data_size <= source_size
       /\ block_ranges[i].type = compressed_entry_type
  /\ phase = "opened" => compressed_entry_type # "lzma"
=============================================================================
