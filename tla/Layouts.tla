------------------------------ MODULE Layouts -------------------------------
(***************************************************************************)
(* The block drivers and file systems that turn the tables of a format     *)
(* into an extent map, each followed by ExtentMapDataSource::new, and what *)
(* opening an image or a file promises.  A behaviour opens one layout.     *)
(***************************************************************************)
EXTENDS QcowTables, VhdTables, VhdxTables, VmdkTables,
        BandImages, SplitRaw, PdiLayers, FatChains, ExtTrees, FileRuns

(* Where the walk of a layout begins.                                      *)
Start(l) == CASE l.format = "pdi"  -> PdiStart(l)
              [] l.format = "fat"  -> FatStart(l)
              [] l.format = "ext"  -> ExtStart(l)
              [] l.format = "ntfs" -> NtfsStart(l)
              [] l.format = "xfs"  -> XfsStart(l)
              [] l.format = "hfs"  -> HfsStart(l)
              [] OTHER -> 0

LayoutsInit ==
  /\ Init
  /\ layout \in LayoutSet
  /\ at = Start(layout)
  /\ extents = <<>>
  /\ step = "walk"

Walk == QcowOpen \/ VhdOpen \/ VhdxOpen \/ VmdkOpen \/ SparseImageOpen \/ SparseBundleOpen
          \/ SplitRawOpen \/ PdiOpen \/ FatOpen \/ ExtOpen \/ NtfsOpen \/ XfsOpen \/ HfsOpen

LayoutsNext == Walk \/ New

(* The caller's thread runs open to its end.                               *)
LayoutsSpec == LayoutsInit /\ [][LayoutsNext]_layoutVars /\ WF_layoutVars(LayoutsNext)
-----------------------------------------------------------------------------
(* What the tables of a layout say by the format, read at one offset or as *)
(* a whole and without the loop: whether it is sound, of a kind the driver *)
(* supports, how large it is and where a byte is.                          *)
Usable ==
  CASE layout.format = "qcow"         -> QcowUsable
    [] layout.format = "vhd"          -> VhdUsable
    [] layout.format = "vhdx"         -> VhdxUsable
    [] layout.format = "vmdk"         -> VmdkUsable
    [] layout.format = "sparseimage"  -> SparseImageUsable
    [] layout.format = "sparsebundle" -> SparseBundleUsable
    [] layout.format = "splitraw"     -> SplitRawUsable
    [] layout.format = "pdi"          -> PdiUsable
    [] layout.format = "fat"          -> FatUsable
    [] layout.format = "ext"          -> ExtUsable
    [] layout.format = "ntfs"         -> NtfsUsable
    [] layout.format = "xfs"          -> XfsUsable
    [] layout.format = "hfs"          -> HfsUsable

DeclaredSize == CASE layout.format = "splitraw" -> SplitRawSize
                  [] layout.format = "pdi"  -> PdiSize
                  [] layout.format = "ntfs" -> NtfsSize
                  [] OTHER -> layout.size

Declared(o) ==
  CASE layout.format = "qcow"         -> QcowDeclared(o)
    [] layout.format = "vhd"          -> VhdDeclared(o)
    [] layout.format = "vhdx"         -> VhdxDeclared(o)
    [] layout.format = "vmdk"         -> VmdkDeclared(o)
    [] layout.format = "sparseimage"  -> SparseImageDeclared(o)
    [] layout.format = "sparsebundle" -> SparseBundleDeclared(o)
    [] layout.format = "splitraw"     -> SplitRawDeclared(o)
    [] layout.format = "pdi"          -> PdiDeclared(o)
    [] layout.format = "fat"          -> FatDeclared(o)
    [] layout.format = "ext"          -> ExtDeclared(o)
    [] layout.format = "ntfs"         -> NtfsDeclared(o)
    [] layout.format = "xfs"          -> XfsDeclared(o)
    [] layout.format = "hfs"          -> HfsDeclared(o)
-----------------------------------------------------------------------------
(* Where the code departs from the format.  It takes the tables for        *)
(* something else;                                                         *)
Misread ==
  CASE layout.format = "vhdx" -> VhdxSwapped
    [] layout.format = "fat"  -> FatMisread
    [] layout.format = "xfs"  -> XfsMisread
    [] OTHER -> FALSE

(* it computes with numbers that leave 64 bits, as no real image has them; *)
Wraps ==
  CASE layout.format = "qcow" -> QcowShifts
    [] layout.format = "vhdx" -> VhdxWraps
    [] layout.format = "ext"  -> ExtWraps
    [] layout.format = "ntfs" -> NtfsWraps
    [] layout.format = "xfs"  -> XfsWraps
    [] OTHER -> FALSE

(* it opens what is not sound, as it does not look at a part of it;        *)
Overlooked ==
  CASE layout.format = "pdi"  -> PdiOverlooked
    [] layout.format = "ntfs" -> NtfsOverlooked
    [] OTHER -> FALSE

(* it refuses what may be sound;                                           *)
TurnedDown ==
  CASE layout.format = "vhd"      -> VhdTurnedDown
    [] layout.format = "vhdx"     -> VhdxTurnedDown
    [] layout.format = "vmdk"     -> VmdkTurnedDown
    [] layout.format = "splitraw" -> SplitRawTurnedDown
    [] layout.format = "xfs"      -> XfsPastEnd
    [] layout.format = "hfs"      -> HfsMiscounted
    [] OTHER -> FALSE

(* it may panic;                                                           *)
Panics ==
  CASE layout.format = "ext" -> Wraps \/ ExtOverfull
    [] layout.format = "hfs" -> HfsSumOverflows
    [] OTHER -> Wraps

(* it looks for a byte in another place.                                   *)
Misplaced(o) ==
  CASE layout.format = "vhd"  -> VhdMisplaced(o)
    [] layout.format = "vhdx" -> VhdxMisplaced(o)
    [] layout.format = "xfs"  -> XfsMisplaced(o)
    [] OTHER -> FALSE
-----------------------------------------------------------------------------
(* An image or a file that opens has the size its tables give it, and every *)
(* byte of it is read from where the format says, whatever blocks were      *)
(* joined, cut or found to be sparse on the way: the loops of all the       *)
(* drivers (build_sparse_extents, vmdk/mod.rs; read_block_number_node,      *)
(* ext/mod.rs; and the others) and merge_extent.  The exceptions are the    *)
(* bytes Misplaced names, and no others.  So has every layer of a PDI       *)
(* image, the ones below the last included.                                 *)
MappedAsDeclared ==
  /\ Opened /\ ~Wraps =>
       /\ Tiles(entries, DeclaredSize)
       /\ \A o \in 0..(DeclaredSize - 1) : (Found(entries, o) = Declared(o)) <=> ~Misplaced(o)
  /\ PdiLayerBuilt => /\ Tiles(extents, PdiSize)
                      /\ \A o \in 0..(PdiSize - 1) : Found(extents, o) = PdiDeclared(o)

(* What is sound by its format is opened, and nothing else: no loop         *)
(* overlooks a table that is damaged, and none makes a list that new turns  *)
(* down for an image that is sound.  The exceptions are those named above,  *)
(* and what is named as turned down is never opened.  A panic comes only    *)
(* from an overflow or an overfull node.                                    *)
OpensExactlyUsable ==
  /\ ~Misread /\ ~Wraps =>
       /\ Opened => (Usable \/ Overlooked) /\ ~TurnedDown
       /\ Refused => ~Usable \/ TurnedDown
  /\ Panicked => Panics

(* Opening ends, also for chains and trees that lead back to themselves     *)
(* (read_cluster_chain, fat/mod.rs; read_extents_node, ext/mod.rs), but not *)
(* for a PDI descriptor with a cycle of snapshots: there                    *)
(* count_snapshot_ancestors does not return.                                *)
Over == Opened \/ Refused \/ Panicked
OpenEnds == (~PdiHangs => <>Over) /\ (PdiHangs => []~Over)

(* A sector of a VHD is in the file if its bit is set, the MSB of a byte    *)
(* standing for the first of its sectors                                    *)
(* (read_sector_bitmap_ranges, vhd/mod.rs).                                 *)
VhdMsbIsFirstSector ==
  Opened /\ layout.format = "vhd" =>
    \A o \in 0..(layout.size - 1) : Found(entries, o) = VhdMapped(o, VhdMsbFirst)
=============================================================================
