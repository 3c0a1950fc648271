----------------------------- MODULE ExtentMap ------------------------------
(***************************************************************************)
(* Reading through ExtentMapDataSource                                     *)
(* (keramics-drivers/src/source/extent_map.rs), which QCOW, VHD, VMDK and  *)
(* other drivers build, and SegmentedDataSource, the same loop without     *)
(* zero extents.  A piece is an extent: zeros, or a range of some source,  *)
(* fetched by as many calls of that source's read_at as it takes.  The     *)
(* source may answer short, may fail, and may be shorter than the extent.  *)
(***************************************************************************)
EXTENDS ReadCall, RangeMap

CONSTANTS entries,       \* the extents: see ExtentMapNew
          Sources,       \* the underlying sources
          SourceData,    \* SourceData[s]: the bytes of s
          Zero,          \* the target of a sparse extent
          ShortReads,    \* may a source answer with fewer bytes than it has?
          InnerFails     \* may a source fail?

(* The offset in its source of the byte at o, which is in entry e.         *)
SourceOffset(e, o) == e.source_offset + (o - e.logical_offset)

(* The byte at offset o is stored: its extent is sparse, or its source     *)
(* reaches that far.                                                       *)
Stored(o) ==
  \E i \in DOMAIN entries :
    /\ entries[i].logical_offset <= o /\ o < End(entries[i])
    /\ \/ entries[i].target = Zero
       \/ SourceOffset(entries[i], o) \in DOMAIN SourceData[entries[i].target]

ASSUME ExtentMapAssumption ==
  /\ entries \in Seq([logical_offset : 0..MaxU64, size : 0..MaxU64,
                      target : Sources \cup {Zero}, source_offset : 0..MaxU64])
  /\ Tiles(entries, media_size)
  /\ Zero \notin Sources
  /\ \A s \in Sources : \E n \in 0..(MaxU64 + 1) : DOMAIN SourceData[s] = 0..(n - 1)
  /\ ShortReads \in BOOLEAN
  /\ InnerFails \in BOOLEAN
  /\ \A i \in DOMAIN entries : \A o \in entries[i].logical_offset..(End(entries[i]) - 1) :
       Stored(o) => Data[o] = IF entries[i].target = Zero THEN 0
                              ELSE SourceData[entries[i].target][SourceOffset(entries[i], o)]

VARIABLE read_offset     \* read_offset[t]: the local variable of read_from_source

vars == <<read_offset, pc, offset, len, written, buf, result>>

entry(t) == entries[find_entry(entries, current_offset(t))]

entry_relative_offset(t) == current_offset(t) - entry(t).logical_offset

(* Slips: the extent's end is not looked at; the last byte of an extent is *)
(* left out.                                                               *)
AvailableInBuffer(t) == len[t] - written[t]
AvailableOffByOne(t) == Clamp(t, entry(t).size - entry_relative_offset(t) - 1)

entry_available(t) == Clamp(t, entry(t).size - entry_relative_offset(t))

physical_offset(t) == entry(t).source_offset + entry_relative_offset(t)

Init == CallInit /\ read_offset = [t \in Threads |-> 0]

ReadAt(t, o, n) == Enter(t, o, n) /\ UNCHANGED read_offset

Loop(t) ==
  /\ pc[t] = "loop"
  /\ IF GoesOn(t)
     THEN IF \/ find_entry(entries, current_offset(t)) = 0
             \/ entry(t).target # Zero /\ physical_offset(t) > MaxU64
          THEN Finish(t, DS!Err)
          ELSE Goto(t, IF entry(t).target = Zero THEN "zero" ELSE "source")
     ELSE Finish(t, DS!Ok(written[t], buf[t]))
  /\ read_offset' = [read_offset EXCEPT ![t] = 0]
  /\ UNCHANGED <<offset, len, written, buf>>

FillZero(t) ==
  /\ pc[t] = "zero"
  /\ Emit(t, [i \in 0..(entry_available(t) - 1) |-> 0], 0, entry_available(t))
  /\ UNCHANGED <<read_offset, offset, len>>

(* The counts the source of the extent may answer for n bytes at o: those  *)
(* it has, or fewer, but none only at its end.                             *)
InnerCounts(s, o, n) ==
  LET have == {k \in 0..n : \A p \in o..(o + k - 1) : p \in DOMAIN SourceData[s]}
      most == CHOOSE k \in have : \A j \in have : j <= k
  IN  IF ShortReads /\ most > 0 THEN 1..most ELSE {most}

(* One round of the loop of read_from_source.                              *)
ReadSource(t) ==
  /\ pc[t] = "source"
  /\ read_offset[t] < entry_available(t)
  /\ LET o == physical_offset(t) + read_offset[t] IN
     \/ /\ o <= MaxU64
        /\ \E count \in InnerCounts(entry(t).target, o, entry_available(t) - read_offset[t]) :
             /\ buf' = [buf EXCEPT ![t] = Extended(t, written[t] + read_offset[t],
                                                   SourceData[entry(t).target], o, count)]
             /\ read_offset' = [read_offset EXCEPT ![t] = @ + count]
             /\ Goto(t, IF count = 0 THEN "fetched" ELSE "source")
     \/ /\ o > MaxU64 \/ InnerFails
        /\ Finish(t, DS!Err)
        /\ UNCHANGED <<buf, read_offset>>
  /\ UNCHANGED <<offset, len, written>>

(* A slip: one call of the source is taken for all there is.               *)
EndSourceAtOnce(t) ==
  /\ \/ pc[t] = "fetched"
     \/ pc[t] = "source" /\ read_offset[t] > 0
  /\ written' = [written EXCEPT ![t] = @ + read_offset[t]]
  /\ IF read_offset[t] < entry_available(t)
     THEN Finish(t, DS!Ok(written[t] + read_offset[t], buf[t]))
     ELSE Goto(t, "loop")
  /\ UNCHANGED <<read_offset, offset, len, buf>>

(* read_from_source returns; a source that had nothing ends the read.      *)
EndSource(t) ==
  /\ \/ pc[t] = "fetched"
     \/ pc[t] = "source" /\ read_offset[t] = entry_available(t)
  /\ written' = [written EXCEPT ![t] = @ + read_offset[t]]
  /\ IF read_offset[t] = 0
     THEN Finish(t, DS!Ok(written[t], buf[t]))
     ELSE Goto(t, "loop")
  /\ UNCHANGED <<read_offset, offset, len, buf>>

Step(t) == Loop(t) \/ FillZero(t) \/ ReadSource(t) \/ EndSource(t)

Next == \E t \in Threads :
          \/ \E o \in 0..MaxU64, n \in 0..MaxLen : ReadAt(t, o, n)
          \/ Step(t)

(* A thread inside read_at keeps running: no lock is taken, and the        *)
(* sources answer.                                                         *)
Fairness == \A t \in Threads : WF_vars(Step(t))

Spec == Init /\ [][Next]_vars /\ Fairness
-----------------------------------------------------------------------------
(* Types; read_from_source never writes past the piece it was given.       *)
TypeOK ==
  /\ CallTypeOK({"idle", "loop", "zero", "source", "fetched"})
  /\ read_offset \in [Threads -> 0..MaxLen]
  /\ \A t \in Threads : pc[t] \in {"source", "fetched"} => read_offset[t] <= entry_available(t)

(* What a read has put into its buffer so far, the pieces it is still      *)
(* fetching included, are the bytes of the media from its offset on, and   *)
(* every one of them is stored.                                            *)
PartialReadFaithful ==
  \A t \in Threads : pc[t] # "idle" =>
    LET n == written[t] + (IF pc[t] \in {"source", "fetched"} THEN read_offset[t] ELSE 0)
    IN  /\ buf[t] = DS!Slice(offset[t], n)
        /\ n <= DS!Available(offset[t], len[t])
        /\ \A i \in 0..(n - 1) : Stored(offset[t] + i)

(* While threads read: every buffer holds stored bytes of the media.       *)
ReadInv == TypeOK /\ PartialReadFaithful

(* A read that succeeds ends at the first byte that is not stored, and not *)
(* before, however short the sources answer.                               *)
StopsAtFirstGap ==
  \A t \in Threads : result[t].kind = "ok" =>
    LET n == result[t].count IN
    /\ result[t].data = DS!Slice(offset[t], n)
    /\ \A i \in 0..(n - 1) : Stored(offset[t] + i)
    /\ n < DS!Available(offset[t], len[t]) => ~Stored(offset[t] + n)
=============================================================================
