------------------------------- MODULE Layout -------------------------------
(***************************************************************************)
(* What the block drivers and the file systems of keramics-drivers have in *)
(* common: a loop over the tables of an image, or of a file in a file      *)
(* system, collects a list of extents, and ExtentMapDataSource::new        *)
(* (ExtentMapNew) checks it.  What it accepts is the image's media or the  *)
(* file's content.  The modules of the formats say what one round of the   *)
(* loop does; Layouts puts them together.                                  *)
(*                                                                         *)
(* layout is the input as it lies in the image: its numbers and tables,    *)
(* with an entry that cannot be read left out of its table.  Sizes and     *)
(* offsets are in sectors or smaller units, whatever the format counts in. *)
(* (VmdkFile, keramics-drivers/src/image/vmdk/mod.rs; the other drivers    *)
(* have the same shape.)                                                   *)
(***************************************************************************)
EXTENDS ExtentMapNew

CONSTANT LayoutSet      \* the images and files that may be opened

VARIABLES layout,       \* what is opened
          at,           \* the position of the loop
          extents,      \* the extents so far; the last is the current_extent
          step          \* "walk", "failed", "panicked" or "new"

walkVars == <<layout, at, extents, step>>
layoutVars == <<walkVars, vars>>

Least(a, b) == IF a <= b THEN a ELSE b
Ceil(a, b) == (a + b - 1) \div b

(* Arithmetic the code does not check: a release build keeps the low 64    *)
(* bits, a debug build panics.  Where a value can leave its width the      *)
(* model has both outcomes.                                                *)
Wrap(x) == x % (MaxU64 + 1)
-----------------------------------------------------------------------------
(* ExtentMapTarget::Data and ExtentMapTarget::Zero.                        *)
Data(logical_offset, size, source, source_offset) ==
  [logical_offset |-> logical_offset, size |-> size,
   source |-> source, source_offset |-> source_offset]

Zero(logical_offset, size) == Data(logical_offset, size, "zero", 0)

(* A slip: extents of one source are taken for neighbours.                 *)
CanMergeAnywhere(a, b) ==
  /\ a.source = b.source
  /\ End(a) = b.logical_offset

(* Neighbours in the media that are also neighbours in the source.         *)
can_merge(a, b) ==
  /\ a.source = b.source
  /\ End(a) = b.logical_offset
  /\ a.source = "zero" \/ a.source_offset + a.size = b.source_offset

(* e is added to the list: the last extent grows by it, if it can.         *)
Joined(list, e, can) ==
  IF list # <<>> /\ can
  THEN [list EXCEPT ![Len(list)].size = @ + e.size]
  ELSE Append(list, e)

merge_extent(list, e) ==
  Joined(list, e, IF list = <<>> THEN FALSE ELSE can_merge(list[Len(list)], e))
-----------------------------------------------------------------------------
Walking(format) == step = "walk" /\ layout.format = format

(* One round of the loop: the list and the position after it.              *)
Round(list, next) ==
  /\ extents' = list
  /\ at' = next
  /\ UNCHANGED <<layout, step, vars>>

(* An early return of Err.                                                 *)
Fail == /\ step' = "failed"
        /\ UNCHANGED <<layout, at, extents, vars>>

(* A panic: an overflow in a debug build, or a slice out of bounds.        *)
Panic == /\ step' = "panicked"
         /\ UNCHANGED <<layout, at, extents, vars>>

(* The loop has ended, and the list is handed to ExtentMapDataSource::new. *)
HandOver(list) ==
  /\ extents' = list
  /\ step' = "new"
  /\ UNCHANGED <<layout, at, vars>>

(* A loop that is not entered if the headers do not allow it, ends when    *)
(* done and hands over the list final, fails in a round that is refused,   *)
(* and goes on otherwise.                                                  *)
LoopTo(format, unsupported, done, final, refused, list, next) ==
  /\ Walking(format)
  /\ IF unsupported THEN Fail
     ELSE IF done    THEN HandOver(final)
     ELSE IF refused THEN Fail
     ELSE Round(list, next)

Loop(format, unsupported, done, refused, list, next) ==
  LoopTo(format, unsupported, done, extents, refused, list, next)

(* SliceDataSource::new: a part of a source, which nothing checks.         *)
Slice(source, base_offset, size) ==
  /\ entries' = IF size = 0 THEN <<>> ELSE <<Data(0, size, source, base_offset)>>
  /\ expected_logical_offset' = size
  /\ phase' = "ok"
  /\ step' = "new"
  /\ UNCHANGED <<layout, at, extents, rejected>>

(* ExtentMapDataSource::new.                                               *)
New == /\ step = "new"
       /\ IF Len(entries) < Len(extents) THEN Check(extents[Len(entries) + 1]) ELSE Done
       /\ UNCHANGED walkVars

(* Whether new accepts a list, for the layers of an image that are opened  *)
(* one after the other.                                                    *)
Accepts(list) == Tiles(list, IF list = <<>> THEN 0 ELSE End(list[Len(list)]))
-----------------------------------------------------------------------------
Opened == step = "new" /\ phase = "ok"
Refused == step = "failed" \/ phase = "err"
Panicked == step = "panicked"

(* Where read_at finds the byte at offset o of a list of extents.          *)
Target(source, source_offset) ==
  [source |-> source, offset |-> IF source = "zero" THEN 0 ELSE source_offset]

Found(list, o) ==
  LET e == list[find_entry(list, o)]
  IN  Target(e.source, e.source_offset + o - e.logical_offset)

ZeroTarget == Target("zero", 0)
=============================================================================
