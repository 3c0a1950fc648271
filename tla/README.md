# keramics in TLA+

A verification development for [keramics](../src/README.md), a Rust library that
reads storage media images, volume systems and file systems for digital
forensics. The modules model the *drivers* layer (`keramics-drivers`), the part
that many threads share: positional data sources stacked on each other, the
image formats, volume systems and files of file systems that are opened from
untrusted tables, and the reads that are then served from them.

Everything in a forensic tool rests on two promises: what is read is what is in
the image, whoever else reads at the same time; and an image that opens has a
layout the reader can rely on, which is the one its tables declare. The modules state both, TLC checks them on small
instances, and TLAPS proves the central ones for every value of the constants.

* [Inventory](#inventory) · [Modules](#modules-and-the-code) · [Runs](#runs-and-bounds)
* [Fairness](#fairness) · [Findings](#findings) · [Proofs](#proofs)
* [Not modelled](#what-is-not-modelled) · [Plan](#plan)

Run a model with `tlc -config X.cfg M`, a proof with `tlapm M.tla`.
`PROJECT.json` lists the runs, the source lines behind every definition, the
hazards, and for each property a *slip*: a definition next to the original
(`ReadAtNoReset`, `AvailableOffByOne`, ...) that changes it as a plausible bug
would. No specification uses a slip; each shows what its property would catch.

## Inventory

The workspace has a layer of pure libraries (`checksums`, `compression`,
`datetime`, `encodings`, `hashes`, `layout-map`, `types`), an older generation
of readers built on seekable streams (`core`, `formats`, `vfs`), a newer one
built on positional sources (`drivers`, described in `docs/hyperead`), and front
ends (`python`, `tools`, `fuzz`). The newer one is where state is shared between
threads.

| Part | State | Operations | Interacts with | Hard because | Correct when |
|---|---|---|---|---|---|
| `DataSource` trait | none | `read_at`, `read_exact_at`, `read_all`, `size` | every source | short and zero answers, failure half way | exact reads are exact, and fail only past the end |
| `ProbeCachedDataSource` | map of windows behind an `RwLock` | `read_at` | an inner source | lookup and insertion are separate critical sections; window and limit edges | cached windows are the source's, and stay; a read is what the source would answer |
| `ExtentMapDataSource`, `SegmentedDataSource` | list of extents, fixed by `new` | `new`, `read_at` | sources of the extents; built by most drivers | short answers, truncated sources, sums of declared sizes | accepted lists tile the media; a read stops at the first byte that is not stored |
| `DataSourceCursor` | position | `fork`, `seek`, `read`, `read_exact` | a source | failures half way, overflow of the position | reads between seeks are the source without gaps |
| `ObservedDataSource` | counters behind a `Mutex` | `read_at`, `snapshot` | a source | saturation, order of records | averages lie below maxima |
| `EwfImage` | segments, section headers, chunk list | `open` | resolver, segment files | everything is declared by the file, over several files | chunks tile the media; the chunk of an offset is found by division |
| `EwfDataSource` | chunk cache behind an `RwLock` | `read_at` | segment sources, zlib | decode without a lock, damaged chunks | cached chunks are whole and right; damage is local |
| `UdifFile` | block ranges | `open` | file, property list | two counts (sectors and bytes) of one media, several tables | ranges tile the media and lie where the tables say |
| `UdifDataSource` | block cache behind an `RwLock`, keyed by data offset | `read_at` | file, decoders | blocks shared by ranges, decode without a lock | a read does not depend on what is cached |
| other images (QCOW, VHD, VHDX, VMDK, PDI, split raw, sparse image and bundle) | parsed tables | `open` | extent map, segmented source | table walks, merging of extents, last blocks, bitmaps, copies of headers | every byte of the media is read where the tables put it, and exactly the usable images open |
| volumes (MBR, GPT, APM) | partitions | `open` | slice source | chains of boot records, four sector sizes, three ways to say where a partition ends | partitions as declared, apart and in their room; walks end |
| file systems (ext, FAT, HFS, NTFS, XFS): content | cluster chains, trees, runs | `open_source` | extent map | cyclic chains, recursive trees, sparse runs | walks end, every byte of a file is read where its tables put it |
| file systems: directories and names | directory records, indexes | `entries`, lookups | content of directories | index walks | walks end |
| `FormatScanner`, `keramics-sigscan` | scan tree | `scan` | a source | skip tables | finds what a naive search finds |
| `keramics-core` streams | one position behind a lock | `seek`, `read` | older readers | seek and read are two steps | seek and read under one lock |
| `keramics-formats` caches | `LruCache`, `BlockTree` | `insert`, `get` | older readers | a key inserted twice | size within the limit, newest value kept |
| `keramics-hashes`, `-checksums` | running digest | `update`, `finalize` | tools | block buffering at boundaries | independent of how the input is cut |

The hazards this leads to are listed with their lines in `PROJECT.json`.

## Modules and the code

`DataSource` is the abstract specification: a reader's call is pending, and is
answered by a prefix of the bytes at its offset or by an error.
Everything that implements the trait is meant to implement it.

    DataSource ......................... the promise of read_at
      ^ implemented by
      ProbeCache -- ReadExact -- Cursor  source/probe_cache.rs, data_source.rs, cursor.rs
      ReadCall ......................... the loop of every driver's read_at
        EwfReader  (+ EwfGeometry) ..... image/ewf/mod.rs, reading
        UdifReader (+ RangeMap) ........ image/udif/mod.rs, reading
        ExtentMap  (+ RangeMap) ........ source/extent_map.rs, source/segmented.rs
    what the readers assume, shown of what builds it
      EwfOpen    (+ EwfGeometry) ....... image/ewf/mod.rs, opening
      UdifOpen   (+ RangeMap) .......... image/udif/mod.rs, opening
      ExtentMapNew (+ RangeMap) ........ ExtentMapDataSource::new
        Layout ......................... a table walk, then ExtentMapDataSource::new
          QcowTables, VmdkTables ....... image/qcow, image/vmdk
          SectorBitmap: VhdTables, VhdxTables  image/vhd, image/vhdx
          PdiLayers, BandImages, SplitRaw  image/pdi, sparseimage, sparsebundle, splitraw
          FatChains, ExtTrees, FileRuns  filesystem/fat, ext, ntfs, xfs, hfs
            Layouts .................... all of them, and what opening promises
    partitions of a disk
      Volumes .......................... volume/mbr, volume/gpt, volume/apm

* **ProbeCache**. `windows` is the `HashMap`; `offset`, `len`, `buf`, `written`,
  `window` and `pc` are a thread's `read_at`. `ReadAt` enters, `Bypass` is the
  early return, `Lookup` the critical section of the read lock, `Fill` the call
  of the inner source, `Insert` the critical section of the write lock
  (`entry().or_insert_with()`), `Copy` the rest of the loop's body. The inner
  source answers any count up to what it has, or only all of it, as `short` says, which a
  behaviour takes from `ShortReads` at its start; `InnerFails` lets it fail.
* **ReadExact** runs `read_exact_at` and `read_all` as jobs that call `read_at`
  of a ProbeCache; with `cache_limit = 0` every call is passed through, which
  gives the bare trait.
* **ReadCall** has what the drivers' loops share: the request, the part of the
  buffer filled, `Enter` (with the early return), `Emit`, `Finish`. Only the
  filled part of the buffer is kept, so the state does not hold stale bytes.
* **EwfReader** cuts the media in chunks. `Loop` is the loop's head, `ReadRaw` a
  stored chunk, `ReadCachedChunk`, `Decode` and `CacheChunk` the three steps of
  `read_compressed_chunk`, `Copy` the copy. zlib is abstracted to the number of
  bytes it yields, `read_exact_at` of a segment to all of the bytes or an error,
  which is what ReadExact shows of it.
* **EwfGeometry** is the layout that `EwfOpen` establishes and `EwfReader`
  assumes (`Geometry`): chunk *i* starts at *i* times the chunk size.
* **EwfOpen** opens segment after segment (`OpenSegment`), walks the section
  headers (`ReadSectionHeader`, `EndWalk`), then runs the builder over the
  sections (`ReadSectors`, `ReadVolume`, `ReadTable`, `ReadTableEntry`,
  `ReadHash`, `SkipSection`, `NextSegment`, `EndBuild`). What a file holds is
  chosen with `\E` at the moment it is read; every read may fail instead.
* **UdifReader**, **UdifOpen**: the same for UDIF. A block's key in the cache is
  its data offset, as in the code; the slice of a block that is too short is a
  panic, which ends the thread.
* **RangeMap** has `Tiles` (what `UdifOpen` and `ExtentMapNew` establish and
  `UdifReader` and `ExtentMap` assume) and the search by `partition_point`.
* **ExtentMap**: `ReadSource` is one call of the underlying source in
  `read_from_source`, `EndSource` the end of that inner loop, `FillZero` a sparse
  extent. `SegmentedDataSource` is the same code without sparse extents.
* **Cursor** stands on ReadExact: its `read_exact` is the trait's loop, which may
  fail half way. It keeps with each cursor what it has returned since it was last
  placed, in order to state that reads join up.
* **Layout** has what thirteen drivers and file systems share: a loop over tables
  (`LoopTo`, one `Round` per iteration, `Fail` for an early return), `merge_extent`
  with its `can_merge`, and the constructor that checks the list afterwards (`New`,
  from ExtentMapNew). `layout` is the image as it lies on disk, as numbers and
  tables; an entry whose read fails is missing from its table. Each format has a
  module or a part of one: what one round does, translated from the loop, and beside
  it what the tables *declare* by the format (`QcowDeclared(o)`, `QcowUsable`, ...), computed
  for one offset or for the image as a whole, without a loop, a merge, a cursor or the
  refusals of the loop. **Layouts** compares the two. Where the code means something else
  than the format, the difference has a name of its own, and only there does a property
  make an exception: tables taken for something else (`Misread`), bytes looked for elsewhere
  (`Misplaced`), arithmetic that leaves 64 bits (`Wraps`), what is refused though sound
  (`TurnedDown`), what is opened though it is not (`Overlooked`). `MappedAsDeclared` is an
  equivalence: a byte is where the format has it if and only if it is not `Misplaced`.
  * *QcowTables*: clusters over two levels of tables. *VmdkTables*: grains over a
    directory, primary or secondary, a missing table standing for all its grains, and
    COWD files. *VhdTables*, *VhdxTables*: the block allocation table, with the
    sector bitmaps of *SectorBitmap*; VHDX also chooses between two headers and two
    region tables. *PdiLayers*: counting ancestors, sorting the snapshots and one
    extent map per layer, over that of its parent. *BandImages*: sparse image (sort
    and fill) and sparse bundle (one file per band). *SplitRaw*: the files there are,
    until one is missing.
  * *FatChains*: the cluster chain with its two guards against cycles. *ExtTrees*:
    block number trees and extent trees; the recursive function is an explicit stack.
    *FileRuns*: NTFS data runs, XFS extents, HFS extent records.
* **Volumes** opens a disk at one sector size after the other (`Refuse` goes on with
  the next). MBR: `ReadBootRecord`, `ReadPrimary`, `EndPrimaries`, `ReadEbr` along the
  links, `ValidatePartition` in the order of offsets, `AllValid`. GPT:
  `ReadGptHeader`, `ReadGptEntry`, `CheckGptTable`. APM: `ReadApmEntry`. What the tables
  say without the loops is `DeclaredPartitions` and `Sound`.

Integers are bounded by `MaxU32` and `MaxU64`, which the configurations set to
small numbers so that the overflow checks of the code fire.

## Runs and bounds

| Run | Shows |
|---|---|
| `probe_cache` | `CachedWindowsFaithful`, `ReadsFaithful`, `WindowsAreStable`: two threads, all offsets and lengths, an inner source that may fail; the cached source implements `DataSource`; every read returns |
| `cursor` | `StitchedReads`: what a cursor returns between seeks is the source without gaps, also after a failure half way; `ExactIsExact`, `ExactFailsOnlyPastEnd`, `AllIsWhole` of the trait's own loops beside it; every call ends |
| `read_exact_cached_short` | *violation*, see Findings |
| `ewf_reader` | `ReadInv` (the cache and every buffer hold the bytes of the media), `DamageIsLocal` with a damaged chunk and a chunk that may fail to be read; the image implements `DataSource`; every read returns |
| `ewf_open` | `SectionsTile`, `SegmentsInOrder`, `ChunksTiled`, `OpenedGeometry`, `GeometryFrozen`, that every chunk has data (in `TypeOK`), and that opening ends |
| `extent_map` | `ReadInv`, and a read stops at the first byte not stored and not before (`StopsAtFirstGap`); every read returns |
| `udif_reader` | as `ewf_reader`, with two ranges that share one block, a corrupt block and a range that may fail to be read |
| `udif_shared_block` | *violation*, see Findings |
| `udif_open` | `RangesTile`, `RangesWhereDeclared`, `RangesReadable` (data within the file, one method per file) |
| `layouts` | thirteen formats: what opens reads every byte where its format puts it (`MappedAsDeclared`, for every layer of a PDI image), exactly what is sound opens (`OpensExactlyUsable`), the constructor accepts exactly the lists that tile (`AcceptedTiles`, `RejectedDoNot`), and opening ends (`OpenEnds`); where the code departs from a format, the properties name the bytes and images, see Findings, and hold both ways |
| `vhd_sector_bitmap` | *violation*, see Findings |
| `volumes` | `PartitionsFit`, `PartitionsAsDeclared`, `OpensFirstSound`: partitions are those of the tables, apart and in their room, at the first sector size that makes sense, and of the logical ones in a chain only the first is where `mbr.md` has it; opening ends, on a cycle of boot records too |

Why the bounds are enough for what they are meant to show:

* *Two threads* make every race on a cache: a cache is only ever grown, under a
  lock, by the thread that missed, and a third thread meets the same two states
  (present or not) as the second. The proofs for ProbeCache hold for any set of
  threads. An extent map has no state that reads share, so `extent_map` runs one
  thread. Symmetry is not used, since every run of two threads checks liveness.
* *Sources of three to seven distinct bytes* with windows, chunks or ranges of
  one or two bytes: requests that begin and end on and off a boundary, span two
  pieces (three in UDIF images and extent maps), reach the last short piece and
  pass the end. All bytes differ, except
  where a shared block makes two ranges equal, so a byte from the wrong place
  shows.
* `MaxU64` is a little above the size of the media, so that offsets past the end
  exist and sums overflow. `MaxLen` bounds the length of a request, so that it
  covers at least two pieces.
* `Unreliable` names the chunks or ranges whose reads may fail, at every attempt
  anew; together with the damaged one the instances have pieces that never fail,
  may fail, and always fail, which `DamageIsLocal` tells apart.
* `probe_cache` runs the inner source both ways, answering short and with all it has
  (see *ProbeCache* above), so that two threads that miss one window may hold different
  bytes of it when they insert.
* *EwfReader*: `MaxU32` is 3, so that four chunks are as many as the key of the cache can
  tell apart.
* EwfOpen: two segments of up to three sections, so that a volume, sectors and a
  table can come in every order and a table in the second segment continues the
  chunks of the first; tables with empty, unordered and overflowing entries.
* UdifOpen: two tables of three entries on a media of at most four sectors.
* Layouts: blocks of two units and media of odd and even size, so that the last
  block is whole or cut; two or three blocks per image, with sparse, missing and
  unreadable ones in every order, and places in the file such that neighbours can and
  cannot be joined, also across two tables; tables that are too short; trees of three
  levels and chains that lead back to themselves. A byte of a VHD bitmap has two bits
  and a sector two bytes (`ByteBits`, `SectorBytes`), so that a bitmap spans bytes and
  may fill its sector. `MaxU64` is 15 and `MaxU32` is 3: cluster counts, block sums and
  products pass them, and each such operation that the code does not check has both its
  outcomes, the panic of a debug build and the low bits of a release build. NTFS cluster
  numbers are signed (`MaxI64` is 7). About 412000
  states.
* Volumes: boot records of up to three entries and chains of up to four records with
  `MaxLogical` = 3, so that the limit, a cycle, a fork and overlaps of primary and
  logical partitions happen; GPT tables of three entries written for one sector size
  and tried at four; APM maps of three entries. About 249000 states.
* `layouts`, `volumes`, `vhd_sector_bitmap` and `udif_shared_block` are configured
  without a check for deadlock: a constructor that has returned has nothing left to
  do, and a thread that panicked is gone.

## Fairness

Weak fairness on the steps of a thread that is inside a call (never on
beginning a call). The code never waits for another thread except for an
`RwLock` or `Mutex` whose holder makes a bounded number of steps and never calls
out while it holds it, so each step of a thread is eventually taken. A call of
the underlying source returns; that it may answer short again and again is
allowed, but each answer of a non-empty request before the end is either an
error or at least one byte, as the trait's loops rely on. `EwfOpen`, `Layouts` and
`Volumes` are one thread's sequential run, with weak fairness on its next step. Nothing assumes
that any particular thread wins a race.

## Findings

1. **A short answer becomes the end of the source in the probe cache**
   (`read_exact_cached_short`, `source/probe_cache.rs:72`). `read_window` asks the
   inner source once and keeps what it got, and `read_at` takes a window that is
   shorter than the window size for the end. If the inner source answers short,
   as a positional read of a file may, `read_exact_at` fails on bytes the source
   has, and goes on failing. The other composed sources loop in that place.
2. **UDIF ranges of different sizes share a cached block** (`udif_shared_block`,
   `image/udif/mod.rs:429`). The cache is keyed by data offset only. If two ranges
   name the same data and the shorter is read first, the longer slices past the
   cached block and panics, although it would read well on a cold cache. `open`
   accepts such tables.
3. **The bits of a VHD sector bitmap are read from the wrong end**
   (`vhd_sector_bitmap`, `image/vhd/mod.rs:467`). The format's document puts the first
   sector at the most significant bit of a byte. The code takes the value of the first
   range from there, and all the bits from the least significant end. A bitmap whose first
   byte begins and ends with different bits, or whose bits are not as many as the
   sectors of its block (the last one aside), makes a list with an empty extent, an overlap or
   a gap, and the image is refused (`VhdTurnedDown`).

The following came up in the same way. Each is part of what `layouts` or `volumes` checks, as
an exception its property names. Most hold in both directions, so that a change of the code
there breaks the property; of images with reserved bits, wrapped numbers and overfull nodes
(9 to 11) it is only said that such an image may be refused, opened or the end of the
thread, and that nothing else panics.

4. **A cycle of PDI snapshots is followed for ever** (`image/pdi/mod.rs:424`).
   `count_snapshot_ancestors` goes from parent to parent and does not remember where it has
   been; a descriptor with two snapshots that are each other's parent is never done with.
   `OpenEnds` says that opening ends unless `PdiHangs`, and that then it does not.
5. **The upper part of an XFS block number is not shifted** (`filesystem/xfs/mod.rs:905`).
   The 9 upper bits of the physical block number are or-ed onto the lowest of the 43 bits
   below them (`XfsNumber` against `XfsDeclaredNumber`; `XfsMisplaced`). Blocks
   with a number of 2^43 or more are read from elsewhere, or the file is refused
   (`XfsMisread`).
6. **Logical partitions are counted from their own record** (`volume/mbr/volume_system.rs:297`),
   where `docs/formats/src/mbr.md:128` has all addresses of an extended partition record
   relative to the start of the first one. The two agree on the first logical partition of a
   chain and on no other, which `PartitionsAsDeclared` states. The code's reading is that of
   other implementations of MBR; the document's sentence is true of the links only.
7. **The flags of a VHDX image** (`image/vhdx/mod.rs:468`): 0 is taken for a fixed image and 1
   for a dynamic one. `docs/formats/src/vhdx.md:182` has bit 0 set for a fixed image. A fixed
   image does not skip the entries of sector bitmaps, so that an image of more than one chunk
   is read through the wrong entries (`VhdxSwapped`, `VhdxMisplaced`).
8. **Sector bitmaps of VHDX blocks that are not stored** (`image/vhdx/mod.rs:832`). The code
   asks for the bitmap of every block that is not present as a whole, and not only of those
   present in part: an image whose bitmap is missing because no block needs it is refused
   (`VhdxTurnedDown`), and a bit that is set sends the read to the offset of a block that has
   none (`VhdxMisplaced`). That a block is zero (state 2) and not the parent's is not looked at.
9. **FAT-32 entries keep their 4 reserved bits** (`filesystem/fat/mod.rs:463`;
   `docs/formats/src/fat.md:237`: "only the lower 28-bits are used"): `FatMisread`.
10. **Arithmetic without a check**, beside products that are checked. A debug build panics, a
    release build goes on with the low bits: the sums of NTFS data runs (`ntfs/mod.rs:836`,
    `:848`), the size of a run (`:496`) and the sum in `merge_extent` (`:557`); the u32 sum of
    the blocks of an HFS fork (`hfs/mod.rs:360`); the sizes of ranges in XFS (`xfs/mod.rs:345`) and
    ext (`ext/mod.rs:404`); the offset of a range in a VHDX block (`vhdx/mod.rs:941`); the shift by
    the bits of two QCOW tables (`qcow/mod.rs:94`). `Wraps` and `HfsSumOverflows` say when.
11. **A node of an ext extent tree that says it has more entries than fit** makes a slice
    panic (`ext/mod.rs:957`, `:979`; `ExtOverfull`).
12. **Sound images that are refused** (`TurnedDown`): XFS files with blocks allocated past their
    end, which become an extent of size zero that the constructor rejects
    (`xfs/mod.rs:344`); a classic HFS file in blocks of more than 512 bytes, as its blocks are
    compared with its 512-byte sectors (`hfs/mod.rs:629`); split raw images that use up all names of
    their suffix, as the code asks for one name more (`splitraw/mod.rs:79`); VMDK images whose
    last table reaches past what 64 bits can address.
13. **Images that are opened though not sound** (`Overlooked`): NTFS runs that are too few for
    the size of the attribute, so that the source is shorter than it (`ntfs/mod.rs:490`), and PDI
    storages whose end is not the size of the disk (`pdi/mod.rs:108`).

Opening an EWF image compares the number of chunks in its low 32 bits only
(`ewf/mod.rs:526`), and the key of the chunk cache has 32 bits too (`:760`): an image with more than
2^32 chunks would share keys. `cache_key` is modelled so, and that there are no more chunks
than keys is part of `EwfReaderAssumption`, since opening does not establish it.

One more difference between code and documents is one of work and not of bytes.
The architecture document asks for single-flight decoding
(`docs/hyperead/02-target-architecture.md:343`); EWF and UDIF look up, decode without a
lock and insert, so that two threads may decode the same block: only work is lost, and
the bytes are right (`ReadInv`, `UdifReadInv`).

## Proofs

| Module | Theorem (property) | For every |
|---|---|---|
| `ProbeCacheProofs` | `TypeCorrect`, `CacheCorrect`, `ReadsCorrect`, `Stability`, `Refinement` | set of threads, source, window size, limit |
| | `CursorsStitch` (`StitchedReads`), `ExactReads` (`ExactIsExact`), `ExactReadsFailPastEnd` (`ExactFailsOnlyPastEnd`), `AllReadsWhole` (`AllIsWhole`) | the same, and every set of cursors |
| `EwfReaderProofs` | `ReadsCorrect` (`ReadInv`), `DamageStaysLocal` (`DamageIsLocal`), `Refinement` (`ImplementsDataSource`) | set of threads, chunk table, damage |
| `RangeReaderProofs` | `ReadsCorrect` (`ReadInv`), `StopsAtGaps` (`StopsAtFirstGap`) | set of threads, list of extents that tiles, length of the sources |
| | `UdifReadsCorrect` (`UdifReadInv`), `UdifDamageStaysLocal` (`DamageIsLocal`), `UdifRefinement` (`ImplementsDataSource`), `UdifHotCache` (`HotCacheSameBytes`) | set of threads, list of block ranges that tiles and has `OneBlockPerOffset` |
| `EwfOpenProofs` | `Tiling` (`ChunksTiled`), `Opened` (`OpenedGeometry`), `Frozen` (`GeometryFrozen`), `Walked` (`SectionsTile`), `InOrder` (`SegmentsInOrder`), `TypeCorrect` (`TypeOK`) | number and content of segments, volumes, tables |
| `UdifOpenProofs` | `Tiling` (`RangesTile`), `Declared` (`RangesWhereDeclared`), `Readable` (`RangesReadable`), `Sectors` (`SectorsAgree`) | footer, number and content of tables |
| `LayoutProofs` | `Accepted` (`AcceptedTiles`), `Rejected` (`RejectedDoNot`) | list of extents |
| | `Merging`: `merge_extent` keeps a tiling and moves no byte | list of extents, extent that follows it |
| | `Mapped` (`MappedAsDeclared`), `OpensUsable` (`OpensExactlyUsable`) | QCOW, VHDX without parent, fixed VHD, VMDK, sparse bundle, split raw image, HFS fork, NTFS attribute: any size, block size and tables of the widths `ProvedImage` gives them, outside of `Wraps` |
| `RangeMapProofs` | `FindEntry`: on ranges that tile, `partition_point` finds the range of the offset | sequence of ranges |
| `VolumesProofs` | `Fit` (`PartitionsFit`), `Declared` (`PartitionsAsDeclared`), `FirstSound` (`OpensFirstSound`) | disk, sector sizes, length of the chain and of the tables |

The assumptions are the `ASSUME`s of the component modules: constants are natural
numbers within their width, `Data` is a function on the offsets, the numbers in a disk's
tables are unsigned (`DiskAssumption`). TLC evaluates them in every run. `TypeOK` and
`CopiesSharedWindow` of ProbeCache and `SectorsAgree` of UdifOpen are proved and no
longer part of a run.

* **ProbeCache**. None of the properties is inductive: that a result is right
  needs the buffer to be right at every step, which needs the window in hand to be
  right, which needs the cache to be right, and the window to be the one *in the
  cache* once it was inserted. `IndInv` says so, by `pc`. `Invariance` has one step
  per action. `Refinement` maps a thread inside `read_at` to a pending call, every
  inner step to a stutter, and the returning step to `Return` or `Fail`. It holds for both
  kinds of inner source: what is wrapped may answer short if the inner source does (also
  with nothing before the end, which is finding 1), and else does not.
* **Cursor and ReadExact** stand on the probe cache, and so does their proof:
  `CursorInv` is `IndInv` and, for each thread, what its loop knows (`JobInv`: the bytes
  gathered are those from the job's offset on, and the `read_at` it waits for asks for
  exactly the rest) and what it knows of the cursor in its hand (`UseInv`: the read
  began where the cursor still is). The latter holds only because no two threads read
  with one cursor (`Exclusive`, the code's `&mut self`). `EndInv` says when a count of
  zero means the end of the source. It needs `ZeroIsEnd`: either the inner source does
  not answer short or nothing is cached. The two theorems that rest on it have that
  hypothesis, and finding 1 shows that it cannot be dropped. `Size <=
  MaxLen` is about the model: `MaxLen` bounds the buffers it enumerates, and `read_all`
  passes one as long as the source.
* **EwfReader**. `ReadInv` is not inductive: that a block in hand is right for the
  chunk the thread is at needs the chunk to exist and to be of the kind the thread takes
  it for, at every step between the lookup and the copy, while others insert. The
  geometry gives the rest: `KeyIsIndex` says that no two chunks share a key, `ChunkAt`
  that dividing finds the chunk of an offset, `ChunksApart` that no two share a byte, from
  which `Unhurt` (no damaged chunk lies behind a reader) follows and with it
  `DamageIsLocal`. What `Geometry` demands is what `Opened` proves of an image that opens;
  that it has no more chunks than keys is assumed. `Refinement` has no condition:
  `read_exact_at` hides short answers of the segments.
* **ExtentMap**. `FindEntry` stands for the search. `ThreadInv` adds to `ReadInv` how far
  into the extent the inner loop is, and that once a source had nothing more the next
  byte is not stored: `StopsAtFirstGap` speaks of the end of the read, when the extent
  is forgotten.
* **UdifReader**. The argument of EwfReader with `FindEntry` in the place of `ChunkAt`,
  and one thing more. The cache is keyed by the data offset, so that the block a thread
  finds may have been decoded for another range: that it has the bytes of this one, and
  is no shorter, is `OneBlockPerOffset` (compressed ranges with one data offset are of
  one size, hold the same bytes and are corrupt together). This is a hypothesis of the
  four theorems, since `open` does not establish it. Finding 2 is what happens without
  it: the instance of `udif_reader` satisfies it, also with two ranges that share a block, and that of
  `udif_shared_block` is the nearest one that does not; `UdifHotCache` proves under it the very property that
  the latter refutes.
* **EwfOpen**. `BuilderInv` adds to `ChunksTiled` that tables are only read once a
  volume gave a positive chunk size, and that nothing was laid out before: with it,
  each entry extends the tiling by `Remaining`. `Opened` then follows from the two
  final checks of `read_segments`: the tiling reached the media size, so that the
  number of chunks is the media size divided by the chunk size, rounded up. `Frozen`
  is an action property, from the same invariant. `WalkInv` carries `SectionsTile` and
  `SegmentsInOrder` through the walk of one segment after the other; `PlaceInv` says
  that nothing is built before the last segment is walked and that the table being read
  is one there is, which `TypeOK` needs for a chunk to name a segment there is.
* **UdifOpen**. `OpenInv` keeps the two counts together: `media_offset` is
  `media_sector` times the bytes per sector, is the end of the last range, and the
  start sector of the table is within the limit, so that the code's subtraction does
  not wrap. `TilesAppend` (RangeMapProofs) adds one range. `MethodInv`: the compressed
  ranges agree on the method from the first one on, and lie in the data fork, which ends
  in the file.
* **Layout**. `Merging` rests on `FindEntry` and `TilesAppend`: when the last extent
  grows, it stays the one found for its old offsets, and `can_merge` says that the new
  ones continue it in the source. The drivers assume both silently.
* **Layouts**. The proof has two halves. The first, `LayoutInv`, follows an image from its
  first table to the end of the constructor, and says what the *code* makes of it: `Mappable`
  (no round is refused and the list can be accepted) and `Coded(o)` (where the code finds the
  byte at `o`). *The walk* (`QcowWalk`, `VhdxWalk`, ...): the list built so far maps every
  offset behind the position (`Maps`), and no entry behind it was one that cannot be mapped.
  *An early return*: such an entry was met, so that the image is not `Mappable`. *The
  constructor* (`NewInv`): it was handed the list of the whole image, or, if that is not
  mappable, a list that tiles no size. The second half has no steps: for each format
  (`QcowAgrees`, `VhdxAgrees`, ...) it compares `Mappable` with `Usable` and `Coded` with
  `Declared`, which is where the exceptions of the findings come from and are shown to be all
  there are. The last part of the first half is why both theorems
  need one invariant: several drivers notice a defect only because `new` rejects their
  list. An HFS part without blocks becomes an extent of size zero; an NTFS attribute whose
  runs begin at a later cluster makes a list with a hole at its start; a split raw image
  compares the size of a segment only when there is a next one, so that its invariant says
  nothing of tiling until the end. The walks over blocks share `BlockRound`. HFS and
  NTFS add up sizes: that such a recursive function exists and grows goes by induction
  (`Induct`, `SumExists`, `Sums` in RangeMapProofs), again by the least counterexample,
  and with it `CHOOSE` in the declared meaning finds the part the loop is at (`HfsIn`,
  `NtfsIn`). Each `...Image` predicate says of which types the fields of a layout are;
  TLC finds that every layout enumerated for these formats satisfies one, except the VHD
  and VHDX images with sector bitmaps.
* **Volumes**. `PartitionsFit` is about the end of opening; `FitInv` says what the
  loops have established on the way, which differs by kind. MBR collects first and
  checks afterwards, in the order of offsets: `CheckedApart` is about the set of those
  already checked and `last_end`, and needs the least unchecked partition to exist
  (`Least`, from the well-foundedness of the natural numbers). GPT and APM check as they
  go: `ListedInOrder` says that the list is in order, ends by `last_end` and is in its
  room. `Phases` ties the program counter to the kind.

  `Declared` and `FirstSound` compare the loops with what the tables say as a whole, by
  `TableInv`. *The loops over entries*: the declared partitions are the used entries,
  each at its rank among them (`Rank`, `InTableOrder`), and `ReadSoFar` says that the
  list holds the entries of rank up to the loop's index. *The chain of boot records*:
  `Path` is the record reached after so many links; `FollowedTo` says that the loop is
  at the end of a path on which every record was sound and none came twice. The code
  refuses a record it has seen; `PathRepeats` shows that from then on the path never
  ends, so that such a disk is not sound by the declared meaning, which knows nothing of
  visited records. *The check at the end*: `validate_partitions` takes them in the order
  of offsets, and fails only on two partitions that overlap or one that leaves the disk (`ValidateRefused`).
  *The document's places*: by `OnlyTheFirst` a logical partition is where `mbr.md` has it only if
  its record is the first, as no record comes twice in a chain that ends.
  *The sector sizes*: `Refused` says that the disk is sound at none of those already
  tried. Induction over the length of a path goes by the least counterexample
  (`Least`), which the provers can use where they cannot use an induction theorem.
* **ExtentMapNew**. `CheckInv`: the extents checked so far tile what
  `expected_logical_offset` says. `Rejected` needs `TilesNot`: a list that is
  rejected at an extent tiles no size.

Only model-checked:

* every liveness property (`EveryReadReturns`, `EveryCallEnds`, `OpenEnds`, ...): liveness
  under fairness and statements about `ENABLED` are beyond TLAPS as installed;
* `MappedAsDeclared` and `OpensExactlyUsable` of the other formats: dynamic and
  differential VHD, differential VHDX, sparse image, PDI, FAT, ext and XFS. Their walks or
  their declared meaning sort, filter, fold or descend a tree, and what those operators of
  the library compute for every input was not proved. What they share
  with the others, merging and the constructor, is proved.

An extent map over truncated sources does not implement `DataSource`, which answers with
all there is; `StopsAtFirstGap` says what it does instead. The modules avoid recursive
operators where they are proved about (`partition_point` is a `CHOOSE`, chunk lists and
sums are functions).

## What is not modelled

* Decoders, checksums, hashes, encodings, dates: functions on bytes, out of a model
  checker's reach; the readers take their result or an error. The tables among them
  (code pages, test vectors of `lzxpress` and `lzx`, generated layouts of VHDX) are most
  of the repository's lines; no model of the control of the program covers them.
* Parsing of headers, descriptors, XML and property lists, superblocks and inodes: the
  layouts start from the values they yield.
* `LocalDataSource`, the resolver and the names of EWF and split raw segment files: an
  inner source that may answer short or fail, and a bounded supply of names.
* VMDK descriptors with several extents and flat extents; UDIF files without a property
  list.
* Directories, names and indexes of the file systems.
* `MemoryDataSource`, the single read of `SliceDataSource`, capabilities: stateless.
* `ObservedDataSource`: its counters do not influence what is read; on the plan. They
  saturate one by one, so that an average may be wrong at the limit.
* Poisoned locks: a thread panics while it holds a lock only if an allocation fails.
* The memory a cache takes: the caches of the code have no limit.
* The attributes of an EWF volume (media type, set identifier).
* The older generation (`keramics-core`, `-formats`, `-vfs`), `keramics-sigscan`, bindings
  and tools.

Known edges of modelled code that no property is about: the backup header of a GPT is read
and not used, and the sum that bounds its table is not checked for overflow.

## Plan

1. *Done*: the trait and its exact reads, the probe cache, the extent map, EWF and
   UDIF opening and reading, the cursor.
2. *Done*: image tables to extents for the other eight image formats, composed with the
   constructor that checks them; content of files in five file systems; volume systems;
   the proofs above.
3. *Left of the drivers*: names of EWF and split raw segments as a pure algorithm; VMDK
   descriptors; directory and index walks of ext, NTFS and HFS.
4. *Older generation*: shared positions of `DataStream`, `LruCache` and `BlockTree`
   against a map; `keramics-sigscan` against a naive search; block buffering of the
   hashes; the counters of `ObservedDataSource` at saturation.
5. *Proofs*. *Done*: the probe cache, cursors and exact reads, EWF opening and reading,
   UDIF opening and, under the hypothesis of finding 2, reading, the extent map and its
   constructor, merging, the volume systems, the walks of eight formats. *Left*: the
   formats with sector bitmaps and those whose walks sort, fold or descend a tree, for
   which the operators of the library would have to be characterised first.
