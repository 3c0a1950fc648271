------------------------------ MODULE FileRuns ------------------------------
(***************************************************************************)
(* Files whose parts are listed in one place: the data runs of an NTFS     *)
(* attribute (build_non_resident_attribute_source,                         *)
(* keramics-drivers/src/filesystem/ntfs/mod.rs), the extents of an XFS     *)
(* inode (build_data_source, xfs/mod.rs) and those of an HFS fork          *)
(* (build_fork_source, hfs/mod.rs).  One round per part.                   *)
(***************************************************************************)
EXTENDS Layout
LOCAL INSTANCE SequencesExt

(***************************************************************************)
(* NTFS.  layout: size, block (of a cluster), compressed, first_vcn, runs: *)
(* clusters, sparse, and relative, the difference to the last cluster      *)
(* number of a run that is not sparse.  at: the run, its first logical     *)
(* cluster and the last cluster number, as read_data_runs keeps them in a  *)
(* u64 and an i64.                                                         *)
(***************************************************************************)
(* Half of the 64-bit numbers are negative ones, if they have a sign.      *)
ASSUME NtfsAssumption == MaxU64 % 2 = 1

MaxI64 == MaxU64 \div 2
Signed(x) == IF Wrap(x) <= MaxI64 THEN Wrap(x) ELSE Wrap(x) - (MaxU64 + 1)

NtfsStart(l) == [run |-> 1, logical |-> l.first_vcn, last |-> 0]

NtfsRun == layout.runs[at.run]

(* Slips: a sparse run takes the last cluster number back to zero.         *)
NtfsPhysicalReset(run, last) == IF run.sparse THEN 0 ELSE Signed(last + run.relative)
NtfsPhysical(run, last) == IF run.sparse THEN last ELSE Signed(last + run.relative)

(* What a run adds to the file: nothing past the size.  The product of the *)
(* clusters is not checked.                                                *)
NtfsRunSize(run, logical) ==
  IF logical * layout.block >= layout.size THEN 0
  ELSE Least(Wrap(run.clusters * layout.block), layout.size - logical * layout.block)

(* The number as a u64: a negative one becomes a large one.                *)
NtfsOffset(run, last) == Wrap(NtfsPhysical(run, last)) * layout.block

(* The sum of merge_extent is not checked either.                          *)
NtfsCanMerge(a, b) ==
  /\ a.source = b.source
  /\ End(a) = b.logical_offset
  /\ a.source = "zero" \/ Wrap(a.source_offset + a.size) = b.source_offset

NtfsExtent ==
  LET offset == at.logical * layout.block
      size == NtfsRunSize(NtfsRun, at.logical)
  IN  IF NtfsRun.sparse THEN Zero(offset, size)
      ELSE Data(offset, size, "volume", NtfsOffset(NtfsRun, at.last))

NtfsMapped ==
  IF NtfsRunSize(NtfsRun, at.logical) = 0 THEN extents
  ELSE Joined(extents, NtfsExtent,
              IF extents = <<>> THEN FALSE ELSE NtfsCanMerge(extents[Len(extents)], NtfsExtent))

(* The products of the offsets are checked: that in the file for every     *)
(* run, that in the volume for those that hold bytes of the file.          *)
NtfsRefused ==
  \/ at.logical * layout.block > MaxU64
  \/ /\ ~NtfsRun.sparse
     /\ NtfsRunSize(NtfsRun, at.logical) # 0
     /\ NtfsOffset(NtfsRun, at.last) > MaxU64

(* The first logical cluster of run i, and its cluster number: the sum of  *)
(* the differences up to it.                                               *)
NtfsLogical[i \in Nat] ==
  IF i <= 1 THEN layout.first_vcn ELSE NtfsLogical[i - 1] + layout.runs[i - 1].clusters

NtfsCluster[i \in Nat] ==
  IF i = 0 THEN 0
  ELSE NtfsCluster[i - 1] + (IF layout.runs[i].sparse THEN 0 ELSE layout.runs[i].relative)

(* The sums of read_data_runs leave their width; all runs are read before  *)
(* the first is mapped.                                                    *)
NtfsSumsOverflow(i) ==
  NtfsLogical[i + 1] > MaxU64 \/ NtfsCluster[i] \notin (-MaxI64 - 1)..MaxI64

NtfsPanics ==
  \/ at.run = 1 /\ \E i \in 1..Len(layout.runs) : NtfsSumsOverflow(i)
  \/ /\ ~layout.compressed
     /\ at.run <= Len(layout.runs)
     /\ at.logical * layout.block <= MaxU64
     /\ \/ NtfsRun.clusters * layout.block > MaxU64
        \/ /\ ~NtfsRefused /\ NtfsRunSize(NtfsRun, at.logical) # 0
           /\ extents # <<>> /\ extents[Len(extents)].source = NtfsExtent.source
           /\ End(extents[Len(extents)]) = NtfsExtent.logical_offset
           /\ extents[Len(extents)].source_offset + extents[Len(extents)].size > MaxU64

NtfsOpen ==
  \/ /\ layout.format = "ntfs"
     /\ Loop("ntfs", layout.compressed, at.run > Len(layout.runs), NtfsRefused, NtfsMapped,
             [run |-> at.run + 1, logical |-> Wrap(at.logical + NtfsRun.clusters),
              last |-> NtfsPhysical(NtfsRun, at.last)])
  \/ Walking("ntfs") /\ NtfsPanics /\ Panic

(* The runs may be too few for the size: then the source is shorter, and   *)
(* empty if they are not those of the start of the attribute.              *)
NtfsSize == IF layout.first_vcn # 0 THEN 0
            ELSE Least(layout.size, NtfsLogical[Len(layout.runs) + 1] * layout.block)

(* Run i holds bytes of the file, and its end in the volume.               *)
NtfsHolds(i) == layout.runs[i].clusters > 0 /\ NtfsLogical[i] * layout.block < layout.size
NtfsEnd(i) ==
  NtfsCluster[i] * layout.block
    + Least(layout.runs[i].clusters * layout.block, layout.size - NtfsLogical[i] * layout.block)

(* Numbers no volume can have, on which the code computes with what is     *)
(* left of them.                                                           *)
NtfsWraps ==
  \E i \in 1..Len(layout.runs) :
    \/ NtfsSumsOverflow(i)
    \/ layout.runs[i].clusters * layout.block > MaxU64
    \/ /\ NtfsHolds(i) /\ ~layout.runs[i].sparse
       /\ NtfsCluster[i] * layout.block <= MaxU64 /\ NtfsEnd(i) > MaxU64

(* The runs of the file begin with the attribute and lie in the volume.    *)
NtfsSound ==
  /\ ~layout.compressed
  /\ ~NtfsWraps
  /\ \A i \in 1..Len(layout.runs) :
       /\ NtfsLogical[i] * layout.block <= MaxU64
       /\ NtfsHolds(i) => /\ layout.first_vcn = 0
                          /\ \/ layout.runs[i].sparse
                             \/ NtfsCluster[i] * layout.block \in 0..MaxU64

(* They are also enough for the size.  The code does not ask for it.       *)
NtfsUsable == NtfsSound /\ NtfsSize = layout.size
NtfsOverlooked == NtfsSound /\ NtfsSize # layout.size

NtfsDeclared(o) ==
  LET n == o \div layout.block
      i == CHOOSE k \in 1..Len(layout.runs) : NtfsLogical[k] <= n /\ n < NtfsLogical[k + 1]
  IN  IF layout.runs[i].sparse THEN ZeroTarget
      ELSE Target("volume", (NtfsCluster[i] + n - NtfsLogical[i]) * layout.block
                              + (o % layout.block))
-----------------------------------------------------------------------------
(***************************************************************************)
(* XFS.  layout: size, block, fork (its format), records (how many the     *)
(* inode says), ranges (the readable ones: logical, count, unwritten, and  *)
(* low and high, the two parts of the physical number), low_width (the     *)
(* numbers the lower part has room for), ag_blocks, ags and ag_width (the  *)
(* numbers a relative block number has room for).  at: the range, after    *)
(* the sort, and the next logical block.  extents holds the ranges in      *)
(* blocks.                                                                 *)
(***************************************************************************)
XfsStart(l) == [range |-> 1, logical |-> 0]

XfsSorted ==
  LET before(i, j) == layout.ranges[i].logical < layout.ranges[j].logical
                        \/ (layout.ranges[i].logical = layout.ranges[j].logical /\ i < j)
      order == SortSeq([i \in 1..layout.records |-> i], before)
  IN  [k \in 1..layout.records |-> layout.ranges[order[k]]]

(* The bitwise or of two numbers.                                          *)
XfsOr[a \in Nat, b \in Nat] ==
  IF a = 0 \/ b = 0 THEN a + b
  ELSE 2 * XfsOr[a \div 2, b \div 2] + (IF a % 2 = 1 \/ b % 2 = 1 THEN 1 ELSE 0)

(* parse_block_range: the upper part is not shifted to its place.          *)
XfsNumber(r) == XfsOr[r.low, r.high]

(* fs_block_number_to_absolute_block_number                                *)
XfsNoBlock(n) == n \div layout.ag_width >= layout.ags \/ n % layout.ag_width >= layout.ag_blocks

(* Slip: the numbers are taken for dense.                                  *)
XfsAbsoluteDense(n) == n
XfsAbsolute(n) == (n \div layout.ag_width) * layout.ag_blocks + (n % layout.ag_width)

XfsRange == XfsSorted[at.range]

(* normalize_sparse_block_ranges: holes become ranges of their own.        *)
XfsNormalized ==
  (IF XfsRange.logical > at.logical
   THEN <<Zero(at.logical, XfsRange.logical - at.logical)>> ELSE <<>>)
  \o <<IF XfsRange.unwritten THEN Zero(XfsRange.logical, XfsRange.count)
       ELSE Data(XfsRange.logical, XfsRange.count, "volume", XfsNumber(XfsRange))>>

XfsRanges ==
  IF at.logical < Ceil(layout.size, layout.block)
  THEN Append(extents, Zero(at.logical, Ceil(layout.size, layout.block) - at.logical))
  ELSE extents

(* A range past the size is left with no bytes, and not left out.  The     *)
(* product of the blocks, which may be those of a hole, is not checked.    *)
XfsExtents ==
  [i \in 1..Len(XfsRanges) |->
     LET r == XfsRanges[i]
         from == r.logical_offset * layout.block
         size == IF from >= layout.size THEN 0
                 ELSE Least(Wrap(r.size * layout.block), layout.size - from)
     IN  IF r.source = "zero" THEN Zero(from, size)
         ELSE Data(from, size, "volume", XfsAbsolute(r.source_offset) * layout.block)]

(* The offsets are.                                                        *)
XfsLost(r) ==
  \/ r.logical_offset * layout.block > MaxU64
  \/ /\ r.source # "zero"
     /\ \/ XfsNoBlock(r.source_offset)
        \/ XfsAbsolute(r.source_offset) * layout.block > MaxU64

XfsDone == at.range > layout.records
XfsUnsupported == layout.fork # "extents" \/ layout.records > Len(layout.ranges)

XfsPanics ==
  /\ ~XfsUnsupported /\ XfsDone
  /\ \E i \in 1..Len(XfsRanges) :
       /\ XfsRanges[i].size * layout.block > MaxU64
       /\ XfsRanges[i].logical_offset * layout.block <= MaxU64
       /\ \A j \in 1..(i - 1) : ~XfsLost(XfsRanges[j])

XfsOpen ==
  \/ /\ layout.format = "xfs"
     /\ LoopTo("xfs",
               XfsUnsupported \/ (XfsDone /\ \E i \in 1..Len(XfsRanges) : XfsLost(XfsRanges[i])),
               XfsDone, XfsExtents,
               XfsRange.count > 0 /\ XfsRange.logical < at.logical,
               IF XfsRange.count = 0 THEN extents ELSE extents \o XfsNormalized,
               [range |-> at.range + 1,
                logical |-> IF XfsRange.count = 0 THEN at.logical
                            ELSE XfsRange.logical + XfsRange.count])
  \/ Walking("xfs") /\ XfsPanics /\ Panic

(* The documented number: the upper part comes above the lower one.        *)
XfsDeclaredNumber(r) == r.high * layout.low_width + r.low

XfsParts == {i \in 1..Least(layout.records, Len(layout.ranges)) : layout.ranges[i].count > 0}

(* A block whose offset in the file has no room in 64 bits.                *)
XfsWraps ==
  \/ Ceil(layout.size, layout.block) * layout.block > MaxU64
  \/ \E i \in XfsParts : (layout.ranges[i].logical + layout.ranges[i].count) * layout.block > MaxU64

(* No two ranges meet, and all are in the file system.                     *)
XfsUsable ==
  /\ layout.fork = "extents"
  /\ layout.records <= Len(layout.ranges)
  /\ \A i \in XfsParts :
       /\ \/ layout.ranges[i].unwritten
          \/ LET n == XfsDeclaredNumber(layout.ranges[i])
             IN  /\ n \div layout.ag_width < layout.ags
                 /\ n % layout.ag_width < layout.ag_blocks
                 /\ XfsAbsolute(n) * layout.block <= MaxU64
       /\ \A j \in XfsParts :
            i # j => \/ layout.ranges[i].logical + layout.ranges[i].count <= layout.ranges[j].logical
                     \/ layout.ranges[j].logical + layout.ranges[j].count <= layout.ranges[i].logical

(* The code reads another block number than the record has.                *)
XfsMisread ==
  \E i \in XfsParts : /\ ~layout.ranges[i].unwritten
                      /\ XfsNumber(layout.ranges[i]) # XfsDeclaredNumber(layout.ranges[i])

(* Blocks that were allocated ahead, past the end of the file, are in      *)
(* order, but make an extent without bytes.                                *)
XfsPastEnd == \E i \in XfsParts : layout.ranges[i].logical * layout.block >= layout.size

(* Where a byte is, if number gives the block number of a range.           *)
XfsPlace(o, number(_)) ==
  LET n == o \div layout.block
      covering == {i \in XfsParts : /\ layout.ranges[i].logical <= n
                                    /\ n < layout.ranges[i].logical + layout.ranges[i].count}
      r == layout.ranges[CHOOSE i \in covering : TRUE]
      group == number(r) \div layout.ag_width
  IN  IF covering = {} \/ r.unwritten THEN ZeroTarget
      ELSE Target("volume", (group * layout.ag_blocks + number(r) - group * layout.ag_width
                               + n - r.logical) * layout.block + (o % layout.block))

XfsDeclared(o) == XfsPlace(o, XfsDeclaredNumber)
XfsMisplaced(o) == XfsPlace(o, XfsNumber) # XfsPlace(o, XfsDeclaredNumber)
-----------------------------------------------------------------------------
(***************************************************************************)
(* HFS.  layout: size, block, classic (HFS, and not HFS+), sector (512),   *)
(* number (of blocks, in the fork of HFS+), first (the first block of the  *)
(* data area, 0 for HFS+), parts: block and count.  at: the part and the   *)
(* bytes that remain.                                                      *)
(***************************************************************************)
CONSTANT MaxU32

(* The product of two u32 fits in a u64.                                   *)
ASSUME HfsAssumption == MaxU32 \in Nat /\ MaxU32 * MaxU32 <= MaxU64

HfsStart(l) == [part |-> 1, remaining |-> l.size]

HfsTotal[i \in Nat] == IF i = 0 THEN 0 ELSE HfsTotal[i - 1] + layout.parts[i].count

(* The blocks of a classic file are taken for sectors.                     *)
HfsNumber == IF layout.classic THEN Ceil(layout.size, layout.sector) ELSE layout.number

(* The sum of the blocks is a u32, and not checked.  (That of block and    *)
(* first is one of two u16 numbers.)                                       *)
HfsSumOverflows == HfsTotal[Len(layout.parts)] > MaxU32
HfsSum == HfsTotal[Len(layout.parts)] % (MaxU32 + 1)

HfsPart == layout.parts[at.part]
HfsPartSize == Least(HfsPart.count * layout.block, at.remaining)

HfsDone == at.remaining = 0 \/ at.part > Len(layout.parts)

(* Extents in the overflow file are refused, and a fork that lacks blocks. *)
HfsOpen ==
  \/ /\ layout.format = "hfs"
     /\ Loop("hfs", (layout.size # 0 /\ HfsSum < HfsNumber) \/ (HfsDone /\ at.remaining # 0),
             HfsDone, FALSE,
             Append(extents, Data(layout.size - at.remaining, HfsPartSize, "volume",
                                  (HfsPart.block + layout.first) * layout.block)),
             [part |-> at.part + 1, remaining |-> at.remaining - HfsPartSize])
  \/ /\ Walking("hfs") /\ at.part = 1
     /\ layout.size # 0 /\ HfsSumOverflows
     /\ Panic

(* The parts suffice for the size and for the blocks of the fork, and none *)
(* of those that are needed is empty.                                      *)
HfsUsable ==
  \/ layout.size = 0
  \/ /\ layout.classic \/ HfsTotal[Len(layout.parts)] >= layout.number
     /\ HfsTotal[Len(layout.parts)] * layout.block >= layout.size
     /\ \A i \in 1..Len(layout.parts) :
          layout.parts[i].count > 0 \/ HfsTotal[i] * layout.block >= layout.size

(* A fork with too few blocks, as the code counts them: by a sum that has  *)
(* wrapped, or against sectors.                                            *)
HfsMiscounted ==
  /\ layout.size # 0 /\ HfsSum < HfsNumber
  /\ HfsSumOverflows \/ layout.classic

HfsDeclared(o) ==
  LET n == o \div layout.block
      i == CHOOSE k \in 1..Len(layout.parts) : HfsTotal[k - 1] <= n /\ n < HfsTotal[k]
  IN  Target("volume", (layout.first + layout.parts[i].block + n - HfsTotal[i - 1])
                         * layout.block + (o % layout.block))
=============================================================================
