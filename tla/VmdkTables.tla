----------------------------- MODULE VmdkTables -----------------------------
(***************************************************************************)
(* VmdkFile::open (keramics-drivers/src/image/vmdk/mod.rs), for sparse and *)
(* for COWD files: one round per grain, or per entry of the grain          *)
(* directory that has no table.                                            *)
(*                                                                         *)
(* layout, in sectors: size, capacity (of the header; as size in a COWD    *)
(* file), block (the grain), file, per_table, cowd, described (by a        *)
(* descriptor of one sparse extent), flags, directories (primary and       *)
(* secondary: start, and the readable entries: <<>> for no table, or the   *)
(* readable sector numbers of the table), entries (of a COWD directory).   *)
(***************************************************************************)
EXTENDS Layout

VmdkDirectory == layout.directories[IF "secondary" \in layout.flags THEN 2 ELSE 1]

VmdkUnsupported ==
  \/ VmdkDirectory.start = 0
  \/ IF layout.cowd THEN layout.entries = 0
     ELSE \/ ~layout.described
          \/ layout.size > layout.capacity
          \/ "compressed" \in layout.flags
          \/ layout.per_table = 0
          \/ layout.block > MaxU64

(* The directory of a sparse file is as long as the capacity asks for;     *)
(* that of a COWD file is asked for grain by grain.                        *)
VmdkDone(g) ==
  IF layout.cowd THEN g >= Ceil(layout.size, layout.block)
  ELSE g \div layout.per_table >= Ceil(layout.capacity, layout.per_table * layout.block)

VmdkTable(g) == VmdkDirectory.tables[(g \div layout.per_table) + 1]
VmdkSector(g) == VmdkTable(g)[(g % layout.per_table) + 1]
VmdkSparse(g) == VmdkTable(g) = <<>> \/ VmdkSector(g) = 0
VmdkSize(g, size) == Least(size, layout.size - g * layout.block)

(* The directory or the table cannot be read, or the grain ends past the   *)
(* file.  Entries for grains past the media are not read, but in a sparse  *)
(* file the offset of the first such grain of a table, and the size of a   *)
(* table that is not there, have to fit in 64 bits.                        *)
VmdkUnmappable(g) ==
  \/ layout.cowd /\ g \div layout.per_table >= layout.entries
  \/ g \div layout.per_table >= Len(VmdkDirectory.tables)
  \/ /\ ~layout.cowd
     /\ (IF VmdkTable(g) = <<>> THEN layout.per_table ELSE g) * layout.block > MaxU64
  \/ /\ VmdkTable(g) # <<>>
     /\ g * layout.block < layout.size
     /\ \/ g % layout.per_table >= Len(VmdkTable(g))
        \/ /\ VmdkSector(g) # 0
           /\ VmdkSector(g) + VmdkSize(g, layout.block) > layout.file

(* The grains a round is about: those of the whole table if there is none  *)
(* (the COWD loop goes grain by grain), and none of the rest if the media  *)
(* has ended.                                                              *)
VmdkRound(g) ==
  IF ~layout.cowd /\ (VmdkTable(g) = <<>> \/ g * layout.block >= layout.size)
  THEN layout.per_table - (g % layout.per_table)
  ELSE 1

VmdkMapped(g) ==
  IF g * layout.block >= layout.size THEN extents
  ELSE LET offset == g * layout.block
           size == VmdkSize(g, VmdkRound(g) * layout.block)
       IN  merge_extent(extents, IF VmdkSparse(g) THEN Zero(offset, size)
                                 ELSE Data(offset, size, "file", VmdkSector(g)))

VmdkOpen == Loop("vmdk", VmdkUnsupported, VmdkDone(at), VmdkUnmappable(at),
                 VmdkMapped(at), at + VmdkRound(at))
-----------------------------------------------------------------------------
(* All of the directory is there, and every grain of the media is in the   *)
(* file.                                                                   *)
VmdkUsable ==
  /\ VmdkDirectory.start # 0
  /\ IF layout.cowd THEN layout.entries # 0
     ELSE /\ layout.described
          /\ layout.size <= layout.capacity
          /\ "compressed" \notin layout.flags
          /\ layout.per_table # 0
          /\ layout.block <= MaxU64
          /\ Ceil(layout.capacity, layout.per_table * layout.block) <= Len(VmdkDirectory.tables)
  /\ \A g \in 0..(Ceil(layout.size, layout.block) - 1) :
       /\ layout.cowd => g \div layout.per_table < layout.entries
       /\ g \div layout.per_table < Len(VmdkDirectory.tables)
       /\ \/ VmdkTable(g) = <<>>
          \/ /\ g % layout.per_table < Len(VmdkTable(g))
             /\ \/ VmdkSector(g) = 0
                \/ VmdkSector(g) + VmdkSize(g, layout.block) <= layout.file

(* A sparse file the size of whose last table outgrows 64 bits is refused, *)
(* though the media does not reach so far.                                 *)
VmdkTurnedDown ==
  LET past == Ceil(layout.size, layout.block) IN
  /\ ~layout.cowd
  /\ layout.per_table # 0 /\ VmdkDirectory.tables # <<>>
  /\ \/ /\ layout.capacity > 0
        /\ layout.per_table * layout.block > MaxU64
        /\ VmdkDirectory.tables[1] = <<>>
     \/ /\ past % layout.per_table # 0
        /\ past * layout.block > MaxU64
        /\ past \div layout.per_table < Len(VmdkDirectory.tables)
        /\ VmdkTable(past) # <<>>

VmdkDeclared(o) ==
  IF VmdkSparse(o \div layout.block) THEN ZeroTarget
  ELSE Target("file", VmdkSector(o \div layout.block) + (o % layout.block))
=============================================================================
