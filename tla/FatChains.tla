----------------------------- MODULE FatChains ------------------------------
(***************************************************************************)
(* FatFileEntry::open_source (keramics-drivers/src/filesystem/fat/mod.rs): *)
(* the whole cluster chain is read, one round per cluster, and then cut to *)
(* the size of the file.                                                   *)
(*                                                                         *)
(* layout: size, block (of a cluster), first (the offset of cluster 2),    *)
(* start, largest (the first number that is no cluster), entries (of the   *)
(* table), table (its readable part), width (the numbers an entry has room *)
(* for).  at: the cluster, and the chain.                                  *)
(***************************************************************************)
EXTENDS Layout
LOCAL INSTANCE SequencesExt
LOCAL INSTANCE Functions

FatStart(l) == [cluster |-> l.start, chain |-> <<>>]

FatIsCluster(c) == 2 <= c /\ c < layout.largest
FatUnreadable(c) == c >= layout.entries \/ c >= Len(layout.table)

(* All bits of a FAT-32 entry are taken.                                   *)
read_entry(c) == layout.table[c + 1]

(* Slip: clusters already read are not noticed.                            *)
FatRefusedNoSet(c, chain) == FatUnreadable(c)

FatRefused(c, chain) == c \in Range(chain) \/ FatUnreadable(c)

FatExtent(chain, i) ==
  LET logical_offset == (i - 1) * layout.block
  IN  Data(logical_offset, Least(layout.block, layout.size - logical_offset),
           "volume", layout.first + (chain[i] - 2) * layout.block)

(* The clusters the size asks for; a longer chain is cut.                  *)
FatExtents(chain) ==
  FoldLeft(LAMBDA list, i : merge_extent(list, FatExtent(chain, i)),
           <<>>, [i \in 1..Ceil(layout.size, layout.block) |-> i])

(* An empty file is not looked up.  A chain without repetitions is not     *)
(* longer than the table: this bounds it.                                  *)
FatOpen ==
  /\ Walking("fat")
  /\ Len(at.chain) <= layout.entries
  /\ LET ended == ~FatIsCluster(at.cluster)
         short == Len(at.chain) * layout.block < layout.size
     IN  LoopTo("fat", layout.size # 0 /\ ended /\ short,
                layout.size = 0 \/ ended, FatExtents(at.chain),
                FatRefused(at.cluster, at.chain), extents,
                [cluster |-> read_entry(at.cluster), chain |-> Append(at.chain, at.cluster)])
-----------------------------------------------------------------------------
(* Cluster n of the chain, counted from zero.  Bits that are reserved have *)
(* no meaning.                                                             *)
FatNth[n \in Nat] ==
  IF n = 0 THEN layout.start ELSE layout.table[FatNth[n - 1] + 1] % layout.width

(* The chain ends, and it ends late enough.                                *)
FatUsable ==
  \/ layout.size = 0
  \/ \E n \in 0..layout.entries :
       /\ \A k \in 0..(n - 1) :
            FatNth[k] \in 2..(Least(layout.largest, Least(layout.entries, Len(layout.table))) - 1)
       /\ FatNth[n] < 2 \/ FatNth[n] >= layout.largest
       /\ n * layout.block >= layout.size

(* The code takes the reserved bits for a part of the number.              *)
FatMisread == \E c \in 2..(Len(layout.table) - 1) : layout.table[c + 1] >= layout.width

FatDeclared(o) ==
  Target("volume", layout.first + (FatNth[o \div layout.block] - 2) * layout.block
                     + (o % layout.block))
=============================================================================
