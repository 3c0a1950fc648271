----------------------------- MODULE QcowTables -----------------------------
(***************************************************************************)
(* QcowFile::open (keramics-drivers/src/image/qcow/mod.rs): one round per  *)
(* cluster, through the level 1 and level 2 tables.                        *)
(*                                                                         *)
(* layout: size, block (the cluster size), file (the source's size),       *)
(* per_table (entries of a level 2 table), references, tables (the level 1 *)
(* table: level 2 tables, or <<>> for an offset of zero), backing (a       *)
(* backing file or snapshots).                                             *)
(***************************************************************************)
EXTENDS Layout

(* The shift by level1_index_bit_shift is not checked: where it is 64 or   *)
(* more a debug build panics, and a release build shifts by 64 less.       *)
QcowShifts == layout.per_table * layout.block > MaxU64
QcowIndex(c) ==
  IF QcowShifts THEN (c * layout.block) \div ((layout.per_table * layout.block) \div (MaxU64 + 1))
  ELSE c \div layout.per_table

QcowTable(c) == layout.tables[QcowIndex(c) + 1]
QcowEntry(c) == QcowTable(c)[(c % layout.per_table) + 1]
QcowSparse(c) == QcowTable(c) = <<>> \/ QcowEntry(c).offset = 0

(* A cluster that cannot be mapped: its level 1 index is past the table,   *)
(* an entry of a table is not in the file, the cluster is compressed, or   *)
(* it ends past the file.                                                  *)
QcowUnmappable(c) ==
  \/ QcowIndex(c) >= layout.references
  \/ QcowIndex(c) >= Len(layout.tables)
  \/ /\ QcowTable(c) # <<>>
     /\ \/ c % layout.per_table >= Len(QcowTable(c))
        \/ /\ QcowEntry(c).offset # 0
           /\ \/ QcowEntry(c).compressed
              \/ QcowEntry(c).offset + layout.block > layout.file

QcowExtent(c) ==
  LET logical_offset == c * layout.block
      logical_size == Least(layout.block, layout.size - logical_offset)
  IN  IF QcowSparse(c)
      THEN Zero(logical_offset, logical_size)
      ELSE Data(logical_offset, logical_size, "file", QcowEntry(c).offset)

(* Two Zero extents are joined without a look at where they are.           *)
QcowMerged(list, e) ==
  Joined(list, e, IF list = <<>> THEN FALSE
                  ELSE \/ list[Len(list)].source = "zero" /\ e.source = "zero"
                       \/ can_merge(list[Len(list)], e))

QcowDone == at >= Ceil(layout.size, layout.block)

QcowOpen ==
  \/ Loop("qcow", layout.backing, QcowDone, QcowUnmappable(at),
          QcowMerged(extents, QcowExtent(at)), at + 1)
  \/ Walking("qcow") /\ ~layout.backing /\ ~QcowDone /\ QcowShifts /\ Panic
-----------------------------------------------------------------------------
(* The clusters are dealt out to the level 2 tables in turn.  Every table  *)
(* and entry of the media is in the file, and so is every cluster that is  *)
(* not sparse, as a whole and not compressed.                              *)
QcowListed(c) == layout.tables[(c \div layout.per_table) + 1]
QcowCluster(c) == QcowListed(c)[(c % layout.per_table) + 1]

QcowUsable ==
  /\ ~layout.backing
  /\ \A c \in 0..(Ceil(layout.size, layout.block) - 1) :
       /\ c \div layout.per_table < Least(layout.references, Len(layout.tables))
       /\ \/ QcowListed(c) = <<>>
          \/ /\ c % layout.per_table < Len(QcowListed(c))
             /\ \/ QcowCluster(c).offset = 0
                \/ /\ ~QcowCluster(c).compressed
                   /\ QcowCluster(c).offset + layout.block <= layout.file

QcowDeclared(o) ==
  LET c == o \div layout.block
  IN  IF QcowListed(c) = <<>> THEN ZeroTarget
      ELSE IF QcowCluster(c).offset = 0 THEN ZeroTarget
      ELSE Target("file", QcowCluster(c).offset + (o % layout.block))
=============================================================================
