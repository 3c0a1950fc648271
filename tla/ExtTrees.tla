------------------------------ MODULE ExtTrees ------------------------------
(***************************************************************************)
(* ExtFileEntry::build_data_source                                         *)
(* (keramics-drivers/src/filesystem/ext/mod.rs): the tree of block numbers *)
(* or of extents below an inode is walked with a recursive function, which *)
(* keeps the number of the next logical block; ranges that continue each   *)
(* other are joined, and cut to the size of the file.                      *)
(*                                                                         *)
(* layout: size, block, number (of blocks, in the inode), extents (whether *)
(* the tree is of extents), roots (the first nodes), nodes (those that can *)
(* be read: depth and data), per_block (numbers in a block), unwritten     *)
(* (the largest count of an extent that was written).  A node of block     *)
(* numbers has them as data; one of extents has the blocks of its          *)
(* children, or at depth 0 its extents: logical, count and physical, and   *)
(* is overfull if it says that there are more than there is room for.      *)
(*                                                                         *)
(* at: the logical block, and the calls that have not returned, the        *)
(* innermost first, each with the data it has still to read.  During the   *)
(* walk extents holds the ranges, in blocks; then ranges has the ones that *)
(* are still to be turned into extents.                                    *)
(***************************************************************************)
EXTENDS Layout
LOCAL INSTANCE SequencesExt
LOCAL INSTANCE FiniteSetsExt

MaxDepth == 6           \* of the calls, in read_extents_block_ranges

ExtStart(l) == [logical |-> 0, calls |-> l.roots, walked |-> FALSE, ranges |-> <<>>]

ExtBlocks == IF Ceil(layout.size, layout.block) >= layout.number
             THEN Ceil(layout.size, layout.block) ELSE layout.number

Call == at.calls[1]
Entry == Call.data[1]

(* The call goes on after its first entry, at the logical block next.      *)
Advanced(next) ==
  [at EXCEPT !.logical = next, !.calls = <<[Call EXCEPT !.data = Tail(@)]>> \o Tail(@)]

Returned == [at EXCEPT !.calls = Tail(@)]
Called(node) == [at EXCEPT !.calls = <<node, [Call EXCEPT !.data = Tail(@)]>> \o Tail(@)]

ExtRange(logical, count, physical, sparse) ==
  IF sparse THEN Zero(logical, count) ELSE Data(logical, count, "volume", physical)

(* A slip: a hole in the tree stands for one block.                        *)
HoleBlocksOne(depth) == 1

(* A block number of zero stands for all the blocks below it.              *)
HoleBlocks(depth) == Least(layout.per_block ^ depth, ExtBlocks - at.logical)

(* read_block_number_node                                                  *)
NumberRefused == Call.depth > 0 /\ Entry # 0 /\ Entry \notin DOMAIN layout.nodes

NumberRound ==
  IF Call.depth > 0 /\ Entry # 0
  THEN Round(extents, Called([depth |-> Call.depth - 1, data |-> layout.nodes[Entry].data]))
  ELSE LET count == IF Entry = 0 THEN HoleBlocks(Call.depth) ELSE 1
       IN  Round(merge_extent(extents, ExtRange(at.logical, count, Entry, Entry = 0)),
                 Advanced(at.logical + count))

(* Slip: the depth of a node is not compared with that of its parent.      *)
NodeRefusedAnyDepth(block, depth) == block \notin DOMAIN layout.nodes

(* read_extents_node: a node that cannot be read or is no node, or one     *)
(* that is not below its parent.                                           *)
NodeRefused(block, depth) ==
  \/ block \notin DOMAIN layout.nodes
  \/ layout.nodes[block].depth >= depth

ExtentRefused == Call.depth > 0 /\ NodeRefused(Entry, Call.depth)

ExtentRound ==
  IF Call.depth > 0
  THEN /\ Len(at.calls) < MaxDepth
       /\ Round(extents, Called(layout.nodes[Entry]))
  ELSE LET unwritten == Entry.count > layout.unwritten
           count == IF unwritten THEN Entry.count - layout.unwritten ELSE Entry.count
           before == IF Entry.logical > at.logical
                     THEN merge_extent(extents, Zero(at.logical, Entry.logical - at.logical))
                     ELSE extents
       IN  Round(merge_extent(before, ExtRange(Entry.logical, count, Entry.physical,
                                               unwritten \/ Entry.physical = 0)),
                 Advanced(Entry.logical + count))

(* The blocks after the tree are sparse.                                   *)
ExtTail(list) ==
  IF at.logical < ExtBlocks THEN merge_extent(list, Zero(at.logical, ExtBlocks - at.logical))
  ELSE list

(* The ranges become extents, up to the first that begins past the size.   *)
(* The products of the offsets are checked, that of the size is not.       *)
ExtExtent(r) ==
  [logical_offset |-> r.logical_offset * layout.block,
   size |-> Least(Wrap(r.size * layout.block), layout.size - r.logical_offset * layout.block),
   source |-> r.source,
   source_offset |-> r.source_offset * layout.block]

ExtRangesDone == at.ranges = <<>> \/ at.ranges[1].logical_offset * layout.block >= layout.size

ExtRangeRound ==
  \/ Loop("ext", at.ranges # <<>> /\ at.ranges[1].logical_offset * layout.block > MaxU64,
          ExtRangesDone, at.ranges[1].source_offset * layout.block > MaxU64,
          merge_extent(extents, ExtExtent(at.ranges[1])),
          [at EXCEPT !.ranges = Tail(@)])
  \/ ~ExtRangesDone /\ at.ranges[1].size * layout.block > MaxU64 /\ Panic

(* A loop over block numbers also ends at the last block of the file.      *)
ExtReturns == Call.data = <<>> \/ (~layout.extents /\ at.logical >= ExtBlocks)

(* The slice of the next entry ends past the node.                         *)
ExtSlicePanics == layout.extents /\ Call.data = <<>> /\ Call.overfull

ExtRootRefused == layout.extents /\ layout.roots[1].depth >= MaxDepth

ExtOpen ==
  /\ Walking("ext")
  /\ IF ExtRootRefused THEN Fail
     ELSE IF at.walked THEN ExtRangeRound
     ELSE IF at.calls = <<>>
     THEN Round(<<>>, [at EXCEPT !.walked = TRUE, !.ranges = ExtTail(extents)])
     ELSE IF ExtSlicePanics THEN Panic
     ELSE IF ExtReturns THEN Round(extents, Returned)
     ELSE IF layout.extents
     THEN IF ExtentRefused THEN Fail ELSE ExtentRound
     ELSE IF NumberRefused THEN Fail ELSE NumberRound
-----------------------------------------------------------------------------
(* What stands below a node, read without a walk.  Of block numbers, the   *)
(* number of the block that is n blocks into it, or -1 if a node on the    *)
(* way cannot be read.                                                     *)
NumberAt[depth \in 0..3] ==
  [data \in {r.data : r \in {layout.roots[i] : i \in 1..Len(layout.roots)}}
              \cup {layout.nodes[b].data : b \in DOMAIN layout.nodes} |->
     [n \in 0..(ExtBlocks - 1) |->
        LET span == layout.per_block ^ depth
            i == (n \div span) + 1
        IN  IF i > Len(data) THEN 0
            ELSE IF depth = 0 \/ data[i] = 0 THEN data[i]
            ELSE IF data[i] \notin DOMAIN layout.nodes THEN -1
            ELSE NumberAt[depth - 1][layout.nodes[data[i]].data][n % span]]]

(* The first block of a root node.                                         *)
RootBlock[i \in Nat] ==
  IF i <= 1 THEN 0
  ELSE RootBlock[i - 1]
         + Len(layout.roots[i - 1].data) * layout.per_block ^ layout.roots[i - 1].depth

NumberOf(n) ==
  LET roots == {i \in 1..Len(layout.roots) : RootBlock[i] <= n}
      i == Max(roots)
  IN  NumberAt[layout.roots[i].depth][layout.roots[i].data][n - RootBlock[i]]

(* The extents below a node, in order; <<>> if the tree cannot be walked,  *)
(* which ExtentTreeBroken tells.                                           *)
ExtentTreeBroken[depth \in 0..MaxDepth] ==
  [node \in {layout.roots[1]} \cup {layout.nodes[b] : b \in DOMAIN layout.nodes} |->
     \/ node.depth >= depth
     \/ node.overfull
     \/ /\ node.depth > 0
        /\ \E i \in 1..Len(node.data) :
             \/ node.data[i] \notin DOMAIN layout.nodes
             \/ ExtentTreeBroken[node.depth][layout.nodes[node.data[i]]]]

ExtentsBelow[depth \in 0..MaxDepth] ==
  [node \in {layout.roots[1]} \cup {layout.nodes[b] : b \in DOMAIN layout.nodes} |->
     IF node.depth = 0 THEN node.data
     ELSE IF depth = 0 THEN <<>>
     ELSE FoldLeft(LAMBDA list, b : list \o ExtentsBelow[depth - 1][layout.nodes[b]],
                   <<>>, node.data)]

ExtentCount(e) == IF e.count > layout.unwritten THEN e.count - layout.unwritten ELSE e.count

(* The extents up to the first that begins past the file.                  *)
ExtentList ==
  LET list == ExtentsBelow[MaxDepth][layout.roots[1]]
      past == {i \in 1..Len(list) : list[i].logical * layout.block >= layout.size}
  IN  SubSeq(list, 1, IF past = {} THEN Len(list) ELSE Min(past) - 1)

ExtOverfull ==
  /\ layout.extents
  /\ \E node \in {layout.roots[1]} \cup {layout.nodes[b] : b \in DOMAIN layout.nodes} : node.overfull

(* A block whose offset, in the file or in the volume, has no room in 64   *)
(* bits.                                                                   *)
ExtWraps ==
  \/ ExtBlocks * layout.block > MaxU64
  \/ /\ layout.extents
     /\ ~ExtentTreeBroken[MaxDepth][layout.roots[1]]
     /\ LET list == ExtentsBelow[MaxDepth][layout.roots[1]]
        IN  \E i \in 1..Len(list) :
              \/ (list[i].logical + ExtentCount(list[i])) * layout.block > MaxU64
              \/ list[i].physical * layout.block > MaxU64
  \/ /\ ~layout.extents
     /\ \E n \in 0..(ExtBlocks - 1) : NumberOf(n) * layout.block > MaxU64

ExtUsable ==
  IF layout.extents
  THEN /\ ~ExtentTreeBroken[MaxDepth][layout.roots[1]]
       /\ \A i, j \in 1..Len(ExtentList) :
            i < j => ExtentList[i].logical + ExtentCount(ExtentList[i]) <= ExtentList[j].logical
  ELSE \A n \in 0..(ExtBlocks - 1) : NumberOf(n) # -1

ExtDeclared(o) ==
  LET n == o \div layout.block
      covering == {i \in 1..Len(ExtentList) :
                     /\ ExtentList[i].logical <= n
                     /\ n < ExtentList[i].logical + ExtentCount(ExtentList[i])}
      e == ExtentList[CHOOSE i \in covering : TRUE]
      number == IF ~layout.extents THEN NumberOf(n)
                ELSE IF covering = {} \/ e.count > layout.unwritten \/ e.physical = 0 THEN 0
                ELSE e.physical + n - e.logical
  IN  IF number = 0 THEN ZeroTarget
      ELSE Target("volume", number * layout.block + (o % layout.block))
=============================================================================
