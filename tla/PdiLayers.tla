----------------------------- MODULE PdiLayers ------------------------------
(***************************************************************************)
(* PdiImage::open (keramics-drivers/src/image/pdi/mod.rs): the snapshots   *)
(* are sorted by the number of their ancestors, so that the source of a    *)
(* layer's parent is there when the layer is built, and every layer has an *)
(* extent map of its own.  The last layer is the one that stays in         *)
(* entries; the ones before it are checked as they are finished.           *)
(*                                                                         *)
(* layout, in sectors: size, snapshots (the identifiers), parents (of each *)
(* identifier there is, or "none"), storages (start, end and images: file, *)
(* type, snapshot and content).  The content of a file: size, sectors,     *)
(* block, data_start, blocks and table (its readable sector numbers).      *)
(*                                                                         *)
(* at: before the layers are built, the snapshot whose ancestors are       *)
(* counted, the parent looked at and the counts; then the order, the layer *)
(* and the storage.                                                        *)
(***************************************************************************)
EXTENDS Layout
LOCAL INSTANCE SequencesExt

PdiStart(l) == [snapshot |-> 1, parent |-> l.parents[l.snapshots[1]], count |-> 0,
                counts |-> <<>>, order |-> <<>>, layer |-> 1, storage |-> 1]

(* parse_storage_data: the storages follow each other.                     *)
PdiUnsupported ==
  \E s \in 1..Len(layout.storages) :
    \/ layout.storages[s].start >= layout.storages[s].end
    \/ layout.storages[s].start # IF s = 1 THEN 0 ELSE layout.storages[s - 1].end

(* The snapshot that is built, and its parent's layer, if it was built     *)
(* before.                                                                 *)
PdiSnapshot == at.order[at.layer]
PdiParent ==
  LET parent == layout.parents[PdiSnapshot]
  IN  IF \E i \in 1..(at.layer - 1) : at.order[i] = parent THEN parent ELSE "zero"

PdiImages(s, id) == SelectSeq(layout.storages[s].images, LAMBDA image : image.snapshot = id)

(* What takes the place of sectors the layer does not have: those of the   *)
(* parent, at the same offset of the media.                                *)
PdiHole(offset, size, parent) ==
  IF parent = "zero" THEN Zero(offset, size) ELSE Data(offset, size, parent, offset)

PdiBlockSize(s, c, b) == Least(c.block, layout.storages[s].end - layout.storages[s].start - b * c.block)

PdiBlock(s, image, b, parent) ==
  LET c == image.content
      offset == layout.storages[s].start + b * c.block
      size == PdiBlockSize(s, c, b)
  IN  IF c.table[b + 1] = 0 THEN PdiHole(offset, size, parent)
      ELSE Data(offset, size, image.file, c.table[b + 1])

(* The blocks of a sparse file, and whether it is one that can be mapped.  *)
PdiBlocks(s, c) == 0..(Ceil(layout.storages[s].end - layout.storages[s].start, c.block) - 1)

PdiSparseRefused(s, c) ==
  LET size == layout.storages[s].end - layout.storages[s].start
  IN  \/ c.sectors # size
      \/ c.data_start = 0
      \/ c.blocks * c.block < size
      \/ \E b \in PdiBlocks(s, c) :
           \/ b >= Len(c.table)
           \/ c.table[b + 1] # 0 /\ c.table[b + 1] + PdiBlockSize(s, c, b) > c.size

(* build_layer_extents, for one storage of a snapshot.                     *)
PdiStorageRefused(s, id) ==
  LET images == PdiImages(s, id) IN
  /\ images # <<>>
  /\ IF images[1].type = "plain"
     THEN images[1].content.size # layout.storages[s].end - layout.storages[s].start
     ELSE PdiSparseRefused(s, images[1].content)

PdiStorageExtents(s, id, parent) ==
  LET images == PdiImages(s, id)
      start == layout.storages[s].start
      size == layout.storages[s].end - start
  IN  IF images = <<>> THEN <<PdiHole(start, size, parent)>>
      ELSE IF images[1].type = "plain" THEN <<Data(start, size, images[1].file, 0)>>
      ELSE FoldLeft(LAMBDA list, i : merge_extent(list, PdiBlock(s, images[1], i - 1, parent)),
                    <<>>, [i \in 1..Ceil(size, images[1].content.block) |-> i])
-----------------------------------------------------------------------------
(* count_snapshot_ancestors: one parent further, or on to the next         *)
(* snapshot.  In a cycle of parents it goes on for ever; the count is then *)
(* of no use, and is capped.                                               *)
PdiCount ==
  LET next == at.snapshot + 1
      counts == Append(at.counts, at.count)
  IN  IF at.parent # "none"
      THEN [at EXCEPT !.parent = layout.parents[at.parent],
                      !.count = Least(@ + 1, Len(layout.snapshots))]
      ELSE IF at.snapshot = Len(layout.snapshots) THEN [at EXCEPT !.counts = counts]
      ELSE [at EXCEPT !.snapshot = next, !.parent = layout.parents[layout.snapshots[next]],
                      !.count = 0, !.counts = counts]

PdiCounting == Len(at.counts) < Len(layout.snapshots)

(* A slip: the snapshots stay as the descriptor lists them.                *)
PdiOrderedAsListed(counts) == layout.snapshots

(* sort_by is stable.                                                      *)
PdiOrdered(counts) ==
  LET before(i, j) == counts[i] < counts[j] \/ (counts[i] = counts[j] /\ i < j)
      order == SortSeq([i \in 1..Len(counts) |-> i], before)
  IN  [k \in 1..Len(order) |-> layout.snapshots[order[k]]]

(* One storage of a layer; after the last one, the layer's extent map and  *)
(* the next layer.                                                         *)
PdiLayerDone == at.storage > Len(layout.storages)

PdiLayerRefused ==
  IF PdiLayerDone THEN ~Accepts(extents) ELSE PdiStorageRefused(at.storage, PdiSnapshot)

PdiLayer ==
  LoopTo("pdi", FALSE, PdiLayerDone /\ at.layer = Len(at.order), extents, PdiLayerRefused,
         IF PdiLayerDone THEN <<>>
         ELSE extents \o PdiStorageExtents(at.storage, PdiSnapshot, PdiParent),
         IF PdiLayerDone THEN [at EXCEPT !.layer = @ + 1, !.storage = 1]
         ELSE [at EXCEPT !.storage = @ + 1])

PdiOpen ==
  /\ Walking("pdi")
  /\ IF PdiCounting
     THEN IF PdiUnsupported \/ at.parent \notin DOMAIN layout.parents \cup {"none"} THEN Fail
          ELSE Round(extents, PdiCount)
     ELSE IF at.order = <<>> THEN Round(extents, [at EXCEPT !.order = PdiOrdered(at.counts)])
     ELSE PdiLayer
-----------------------------------------------------------------------------
(* A layer is complete, and is about to become a source.                   *)
PdiLayerBuilt ==
  layout.format = "pdi" /\ step = "walk" /\ at.order # <<>> /\ PdiLayerDone

(* The parents of a snapshot lead to an end, or for ever on among          *)
(* snapshots each of which has a parent.                                   *)
PdiClosed(S) == \A id \in S : layout.parents[id] \in S
PdiEndless(id) == \E S \in SUBSET DOMAIN layout.parents : id \in S /\ PdiClosed(S)

(* count_snapshot_ancestors does not come back from a cycle.  It comes to  *)
(* one unless a snapshot before it has a parent that is missing on its way.*)
PdiEnds(id) ==
  \E S \in SUBSET DOMAIN layout.parents :
    id \in S /\ ~PdiEndless(id) /\ \A k \in S : layout.parents[k] \in S \cup {"none"}

PdiHangs ==
  /\ layout.format = "pdi"
  /\ ~PdiUnsupported
  /\ \E i \in 1..Len(layout.snapshots) :
       /\ PdiEndless(layout.snapshots[i])
       /\ \A j \in 1..(i - 1) : PdiEnds(layout.snapshots[j])

(* The storages follow each other, and every snapshot has its parent,      *)
(* which is not below itself, and a file with a place for every block,     *)
(* where it has one at all.                                                *)
PdiSound ==
  /\ \A s \in 1..Len(layout.storages) :
       /\ layout.storages[s].start = IF s = 1 THEN 0 ELSE layout.storages[s - 1].end
       /\ layout.storages[s].start < layout.storages[s].end
  /\ \A id \in DOMAIN layout.parents :
       /\ PdiEnds(id)
       /\ \A s \in 1..Len(layout.storages) :
            LET images == PdiImages(s, id)
                size == layout.storages[s].end - layout.storages[s].start
                c == images[1].content
            IN  \/ images = <<>>
                \/ images[1].type = "plain" /\ c.size = size
                \/ /\ images[1].type # "plain"
                   /\ c.sectors = size /\ c.data_start # 0
                   /\ Ceil(size, c.block) <= Least(c.blocks, Len(c.table))
                   /\ \A b \in PdiBlocks(s, c) :
                        c.table[b + 1] = 0 \/ c.table[b + 1] + PdiBlockSize(s, c, b) <= c.size

(* The storages say how large a layer is; the code does not compare it     *)
(* with the disk's size.                                                   *)
PdiSize == IF layout.storages = <<>> THEN 0 ELSE layout.storages[Len(layout.storages)].end

PdiUsable == PdiSound /\ PdiSize = layout.size
PdiOverlooked == PdiSound /\ PdiSize # layout.size

PdiDeclared(o) ==
  LET s == CHOOSE k \in 1..Len(layout.storages) :
             layout.storages[k].start <= o /\ o < layout.storages[k].end
      from == o - layout.storages[s].start
      images == PdiImages(s, PdiSnapshot)
      parent == layout.parents[PdiSnapshot]
      hole == IF parent = "none" THEN ZeroTarget ELSE Target(parent, o)
  IN  IF images = <<>> THEN hole
      ELSE IF images[1].type = "plain" THEN Target(images[1].file, from)
      ELSE LET c == images[1].content
               sector == c.table[(from \div c.block) + 1]
           IN  IF sector = 0 THEN hole ELSE Target(images[1].file, sector + (from % c.block))
=============================================================================
