------------------------------ MODULE Volumes -------------------------------
(***************************************************************************)
(* Opening a volume system of a disk: the Master Boot Record with its      *)
(* chain of extended boot records, the GUID partition table and the Apple  *)
(* partition map.  MBR and GPT are tried with each supported sector size   *)
(* until one of them can be read.  Offsets and sizes count units of 512    *)
(* bytes.                                                                  *)
(*                                                                         *)
(* A disk has a kind, a size, its sound boot records or table headers      *)
(* (headers) and its partition table entries (entries) by offset; an       *)
(* offset that is in neither holds no record with the right signature.     *)
(***************************************************************************)
EXTENDS Integers, Sequences, FiniteSets

CONSTANTS DiskSet,      \* the disks that may be opened
          SectorSizes,  \* SUPPORTED_BYTES_PER_SECTOR, in the order they are tried
          MaxLogical,   \* MAX_LOGICAL_PARTITIONS
          MaxU64        \* the largest value of a u64

ASSUME SectorSizesAssumption == SectorSizes \in Seq(Nat \ {0}) /\ SectorSizes # <<>>
ASSUME MaxLogicalAssumption == MaxLogical \in Nat

(* The disks there are: every number a record holds is unsigned.           *)
DiskOk(d) ==
  /\ d.size \in Nat
  /\ d.kind = "mbr" =>
       \A o \in DOMAIN d.headers : d.headers[o] \in Seq([type : STRING, start : Nat, sectors : Nat])
  /\ d.kind = "gpt" =>
       /\ \A o \in DOMAIN d.headers :
            /\ d.headers[o].area_start \in Nat
            /\ d.headers[o].area_end \in Nat
            /\ d.headers[o].number \in Nat
       /\ \A o \in DOMAIN d.entries : d.entries[o].start \in Nat /\ d.entries[o].end \in Nat
  /\ d.kind = "apm" =>
       \A o \in DOMAIN d.entries :
         d.entries[o].start \in Nat /\ d.entries[o].sectors \in Nat /\ d.entries[o].number \in Nat

ASSUME DiskAssumption == \A d \in DiskSet : DiskOk(d)

VARIABLES
  disk,        \* the disk that is opened
  attempt,     \* which of the sector sizes is tried
  pc,          \* open, primary, chain, validate or entries; ok or err at the end
  partitions,  \* the partitions found so far
  base,        \* extended_partition_offset
  ebr,         \* current_ebr_offset
  visited,     \* visited_offsets
  checked,     \* the partitions validate_partitions has passed
  last_end,    \* last_end_offset, previous_end_offset; for GPT previous_end_block + 1
  index        \* entry_index

loop == <<base, ebr, visited, checked, last_end, index>>
vars == <<disk, attempt, pc, partitions, loop>>

(* APM knows one sector size.                                              *)
SizesOf(d) == IF d.kind = "apm" THEN <<1>> ELSE SectorSizes
Bps == SizesOf(disk)[attempt]

Partition(o, n) == [offset |-> o, size |-> n]
End(p) == p.offset + p.size

Fresh ==
  /\ partitions = <<>>
  /\ base = 0 /\ ebr = 0 /\ visited = {} /\ checked = {} /\ last_end = 0 /\ index = 0

Init == disk \in DiskSet /\ attempt = 1 /\ pc = "open" /\ Fresh

(* An error ends one attempt; open goes on with the next sector size.      *)
Refuse ==
  /\ IF attempt < Len(SizesOf(disk))
       THEN attempt' = attempt + 1 /\ pc' = "open"
       ELSE attempt' = attempt /\ pc' = "err"
  /\ partitions' = <<>>
  /\ base' = 0 /\ ebr' = 0 /\ visited' = {} /\ checked' = {} /\ last_end' = 0 /\ index' = 0
  /\ UNCHANGED disk
-----------------------------------------------------------------------------
(* Master Boot Record.  A boot record is read as one unit at any sector    *)
(* size; empty entries are skipped.                                        *)
Records(d, o) == o \in DOMAIN d.headers /\ o + 1 <= d.size

Used(e) == e.type # "empty" /\ e.sectors > 0
IsLink(e) == Used(e) /\ e.type = "extended"
IsPartition(e) == Used(e) /\ e.type # "extended"

(* The entries of a record that are links, or partitions, by their place.  *)
Links(record) == {i \in DOMAIN record : IsLink(record[i])}
Logicals(record) == {i \in DOMAIN record : IsPartition(record[i])}
Only(record, places) == record[CHOOSE i \in places : TRUE]

partition_from_entry(e, from) == Partition(from + e.start * Bps, e.sectors * Bps)

ReadBootRecord ==
  /\ pc = "open" /\ disk.kind = "mbr"
  /\ IF ~Records(disk, 0) \/ Cardinality(Links(disk.headers[0])) > 1
       THEN Refuse
       ELSE LET record == disk.headers[0] IN
            /\ pc' = "primary"
            /\ base' = IF Links(record) = {} THEN base ELSE Only(record, Links(record)).start * Bps
            /\ ebr' = base'
            /\ UNCHANGED <<disk, attempt, partitions, visited, checked, last_end, index>>

(* One entry of the boot record, and after the last the chain, if any.     *)
ReadPrimary ==
  /\ pc = "primary"
  /\ index < Len(disk.headers[0])
  /\ LET e == disk.headers[0][index + 1] IN
       partitions' = IF IsPartition(e) THEN Append(partitions, partition_from_entry(e, 0)) ELSE partitions
  /\ index' = index + 1
  /\ UNCHANGED <<disk, attempt, pc, base, ebr, visited, checked, last_end>>

EndPrimaries ==
  /\ pc = "primary"
  /\ index = Len(disk.headers[0])
  /\ pc' = IF Links(disk.headers[0]) = {} THEN "validate" ELSE "chain"
  /\ UNCHANGED <<disk, attempt, partitions, loop>>

(* An extended boot record has one logical partition, relative to itself,  *)
(* and at most one link, relative to the extended partition.               *)
EbrSound(d, o) ==
  /\ Records(d, o)
  /\ Cardinality(Logicals(d.headers[o])) = 1
  /\ Cardinality(Links(d.headers[o])) <= 1

NextEbrFromCurrent(link) == ebr + link.start * Bps
NextEbr(link) == base + link.start * Bps

(* The record's partition is added, and the chain goes on with its link.   *)
FollowEbr(record) ==
  /\ partitions' = Append(partitions, partition_from_entry(Only(record, Logicals(record)), ebr))
  /\ pc' = IF Links(record) = {} THEN "validate" ELSE pc
  /\ ebr' = IF Links(record) = {} THEN ebr ELSE NextEbr(Only(record, Links(record)))

(* A slip: no set of visited offsets; pushes are capped to keep it finite. *)
ReadEbrRevisits ==
  /\ pc = "chain"
  /\ IF ~EbrSound(disk, ebr)
       THEN Refuse
       ELSE /\ IF Len(partitions) <= MaxLogical THEN FollowEbr(disk.headers[ebr])
                 ELSE UNCHANGED <<partitions, pc, ebr>>
            /\ UNCHANGED <<disk, attempt, base, visited, checked, last_end, index>>
ReadEbr ==
  /\ pc = "chain"
  /\ IF Cardinality(visited) >= MaxLogical \/ ebr \in visited \/ ~EbrSound(disk, ebr)
       THEN Refuse
       ELSE /\ visited' = visited \cup {ebr}
            /\ FollowEbr(disk.headers[ebr])
            /\ UNCHANGED <<disk, attempt, base, checked, last_end, index>>

(* validate_partitions walks the partitions in the order of their offset;  *)
(* the sort is stable.                                                     *)
Unchecked == DOMAIN partitions \ checked
FirstListed == CHOOSE i \in Unchecked : \A j \in Unchecked : i <= j
NextToCheck == CHOOSE i \in Unchecked : \A j \in Unchecked :
                 \/ partitions[i].offset < partitions[j].offset
                 \/ partitions[i].offset = partitions[j].offset /\ i <= j

ValidatePartition ==
  /\ pc = "validate" /\ Unchecked # {}
  /\ LET i == NextToCheck IN
       IF partitions[i].offset < last_end \/ End(partitions[i]) > disk.size
         THEN Refuse
         ELSE /\ checked' = checked \cup {i}
              /\ last_end' = End(partitions[i])
              /\ UNCHANGED <<disk, attempt, pc, partitions, base, ebr, visited, index>>

AllValid ==
  /\ pc = "validate" /\ Unchecked = {}
  /\ pc' = "ok"
  /\ UNCHANGED <<disk, attempt, partitions, loop>>
-----------------------------------------------------------------------------
(* GUID partition table.  A header is read as a whole sector.              *)
HeaderAt(d, o, bps) == o \in DOMAIN d.headers /\ o + bps <= d.size

(* The backup header must be readable where the primary says, or in the    *)
(* last sector; its contents are not used.                                 *)
BackupFound(d, h, bps) ==
  /\ h.backup * bps <= MaxU64
  /\ \/ HeaderAt(d, h.backup * bps, bps)
     \/ d.size >= bps /\ HeaderAt(d, d.size - bps, bps)

(* The table ends before the usable area; the sum is not checked and wraps *)
(* in a release build.                                                     *)
TableFits(h, bps) ==
  /\ h.entries_start * bps <= MaxU64
  /\ h.area_start * bps <= MaxU64
  /\ h.entries_start <= h.area_start
  /\ (h.entries_start * bps + h.number * h.entry_size) % (MaxU64 + 1) <= h.area_start * bps

GptHeaderSound(d, bps) ==
  /\ HeaderAt(d, bps, bps)
  /\ LET h == d.headers[bps] IN
       /\ h.block = 1
       /\ h.area_start <= h.area_end
       /\ h.number # 0
       /\ h.entry_size # 0
       /\ BackupFound(d, h, bps)
       /\ TableFits(h, bps)

ReadGptHeader ==
  /\ pc = "open" /\ disk.kind = "gpt"
  /\ IF GptHeaderSound(disk, Bps)
       THEN pc' = "entries" /\ UNCHANGED <<disk, attempt, partitions, loop>>
       ELSE Refuse

GptEntryOffset(h, bps, n) == h.entries_start * bps + n * h.entry_size
GptReadable(d, h, o) == o <= MaxU64 /\ o \in DOMAIN d.entries /\ o + h.entry_size <= d.size

(* An entry in use lies in the usable area and after the one before it.    *)
OverlapsByMore(start) == start + 1 < last_end
Overlaps(start) == start < last_end
GptEntryInArea(h, e, bps) ==
  /\ h.area_start <= e.start /\ e.end <= h.area_end
  /\ e.start <= e.end
  /\ e.start * bps <= MaxU64 /\ (e.end - e.start + 1) * bps <= MaxU64
GptEntrySound(h, e) == GptEntryInArea(h, e, Bps) /\ ~Overlaps(e.start)

ReadGptEntry ==
  /\ pc = "entries" /\ disk.kind = "gpt"
  /\ LET h == disk.headers[Bps]
         o == GptEntryOffset(h, Bps, index)
         e == disk.entries[o]
     IN  /\ index < h.number
         /\ IF ~GptReadable(disk, h, o) \/ (e.used /\ ~GptEntrySound(h, e))
              THEN Refuse
              ELSE /\ index' = index + 1
                   /\ partitions' =
                        IF e.used
                          THEN Append(partitions, Partition(e.start * Bps, (e.end - e.start + 1) * Bps))
                          ELSE partitions
                   /\ last_end' = IF e.used THEN e.end + 1 ELSE last_end
                   /\ UNCHANGED <<disk, attempt, pc, base, ebr, visited, checked>>

(* The checksum of the whole table is compared after its last entry.       *)
CheckGptTable ==
  /\ pc = "entries" /\ disk.kind = "gpt"
  /\ index = disk.headers[Bps].number
  /\ IF disk.headers[Bps].table_intact
       THEN pc' = "ok" /\ UNCHANGED <<disk, attempt, partitions, loop>>
       ELSE Refuse
-----------------------------------------------------------------------------
(* Apple partition map.  Entry n is in sector n + 1; the first one is the  *)
(* map itself and says how many there are.                                 *)
ApmReadable(d, n) == n + 1 \in DOMAIN d.entries /\ n + 2 <= d.size

ApmEntrySound(e) ==
  /\ e.number # 0
  /\ IF index = 0
       THEN e.type = "map"
       ELSE /\ e.number = disk.entries[1].number
            /\ ~Overlaps(e.start)
            /\ e.start + e.sectors <= disk.size

ReadApmEntry ==
  /\ pc = "open" /\ disk.kind = "apm"
  /\ LET e == disk.entries[index + 1] IN
       IF ~ApmReadable(disk, index) \/ ~ApmEntrySound(e)
         THEN Refuse
         ELSE /\ index' = index + 1
              /\ pc' = IF index + 1 >= e.number THEN "ok" ELSE pc
              /\ partitions' = IF index = 0 THEN partitions
                                 ELSE Append(partitions, Partition(e.start, e.sectors))
              /\ last_end' = IF index = 0 THEN last_end ELSE e.start + e.sectors
              /\ UNCHANGED <<disk, attempt, base, ebr, visited, checked>>
-----------------------------------------------------------------------------
MbrNext == ReadBootRecord \/ ReadPrimary \/ EndPrimaries \/ ReadEbr \/ ValidatePartition \/ AllValid
GptNext == ReadGptHeader \/ ReadGptEntry \/ CheckGptTable
VolumesNext == MbrNext \/ GptNext \/ ReadApmEntry

(* The caller's thread runs open to its end.                               *)
VolumesSpec == Init /\ [][VolumesNext]_vars /\ WF_vars(VolumesNext)
-----------------------------------------------------------------------------
(* What the tables of a disk say for one sector size, without the loops.   *)

(* What a table f says at the places S, in the order of the places.        *)
Rank(S, n) == Cardinality({m \in S : m <= n})
InTableOrder(f, S) == [i \in 1..Cardinality(S) |-> f[CHOOSE n \in S : Rank(S, n) = i]]

(* The extended boot records along the links, -1 from the end of the chain *)
(* on; a chain that is longer than MaxLogical, or a cycle, has no -1.      *)
LinkOf(d, s, o) ==
  IF Links(d.headers[o]) = {} THEN -1 ELSE Only(d.headers[o], Links(d.headers[o])).start * s

After(d, s, o) ==
  IF o = -1 \/ ~EbrSound(d, o) \/ LinkOf(d, s, o) = -1 THEN -1
    ELSE LinkOf(d, s, 0) + LinkOf(d, s, o)

Path(d, s) ==
  LET path[n \in 1..MaxLogical + 1] == IF n = 1 THEN LinkOf(d, s, 0) ELSE After(d, s, path[n - 1])
  IN  path

Chain(d, s) == [n \in {n \in 1..MaxLogical + 1 : Path(d, s)[n] # -1} |-> Path(d, s)[n]]

Scaled(e, from, s) == Partition(from + e.start * s, e.sectors * s)
LogicalEntry(d, o) == Only(d.headers[o], Logicals(d.headers[o]))
LogicalAt(d, s, o) == Scaled(LogicalEntry(d, o), o, s)

(* docs/formats/src/mbr.md has the addresses of all the extended boot      *)
(* records relative to the first.                                          *)
LogicalDocumented(d, s, o) == Scaled(LogicalEntry(d, o), LinkOf(d, s, 0), s)

BootTable(d, s) == [n \in DOMAIN d.headers[0] |-> Scaled(d.headers[0][n], 0, s)]
Primaries(d, s) == InTableOrder(BootTable(d, s), Logicals(d.headers[0]))

MbrDeclared(d, s) ==
  LET chain == Chain(d, s) IN Primaries(d, s) \o [i \in 1..Len(chain) |-> LogicalAt(d, s, chain[i])]

GptEntryOf(d, s, n) == d.entries[GptEntryOffset(d.headers[s], s, n - 1)]
GptPartition(e, s) == Partition(e.start * s, (e.end - e.start + 1) * s)
GptUsed(d, s) == {n \in 1..d.headers[s].number : GptEntryOf(d, s, n).used}

GptTable(d, s) == [n \in 1..d.headers[s].number |-> GptPartition(GptEntryOf(d, s, n), s)]
GptDeclared(d, s) == InTableOrder(GptTable(d, s), GptUsed(d, s))

ApmDeclared(d) ==
  [n \in 1..d.entries[1].number - 1 |-> Partition(d.entries[n + 1].start, d.entries[n + 1].sectors)]

DeclaredPartitions(d, s) ==
  CASE d.kind = "mbr" -> MbrDeclared(d, s)
    [] d.kind = "gpt" -> GptDeclared(d, s)
    [] d.kind = "apm" -> ApmDeclared(d)

Disjoint(p, q) == End(p) <= q.offset \/ End(q) <= p.offset
Apart(ps) == \A i, j \in DOMAIN ps : i # j => Disjoint(ps[i], ps[j])
InOrder(ps) == \A i, j \in DOMAIN ps : i < j => End(ps[i]) <= ps[j].offset

(* The first offset and the end of the room that partitions may take.      *)
Room(d, s) ==
  IF d.kind = "gpt" THEN <<d.headers[s].area_start * s, (d.headers[s].area_end + 1) * s>>
                    ELSE <<0, d.size>>
Inside(d, s, ps) == \A i \in DOMAIN ps : Room(d, s)[1] <= ps[i].offset /\ End(ps[i]) <= Room(d, s)[2]

BootSound(d) == Records(d, 0) /\ Cardinality(Links(d.headers[0])) <= 1

ChainSound(d, s) ==
  LET chain == Chain(d, s) IN
    Len(chain) <= MaxLogical /\ \A i \in 1..Len(chain) : EbrSound(d, chain[i])

MbrSound(d, s) ==
  /\ BootSound(d)
  /\ ChainSound(d, s)
  /\ Apart(MbrDeclared(d, s))
  /\ Inside(d, s, MbrDeclared(d, s))

GptSound(d, s) ==
  /\ GptHeaderSound(d, s)
  /\ LET h == d.headers[s] IN
       /\ \A n \in 1..h.number : GptReadable(d, h, GptEntryOffset(h, s, n - 1))
       /\ \A n \in GptUsed(d, s) : GptEntryInArea(h, GptEntryOf(d, s, n), s)
       /\ h.table_intact
  /\ InOrder(GptDeclared(d, s))

ApmSound(d) ==
  /\ ApmReadable(d, 0) /\ d.entries[1].type = "map" /\ d.entries[1].number # 0
  /\ \A n \in 1..d.entries[1].number - 1 :
       ApmReadable(d, n) /\ d.entries[n + 1].number = d.entries[1].number
  /\ InOrder(ApmDeclared(d))
  /\ Inside(d, 1, ApmDeclared(d))

Sound(d, s) ==
  CASE d.kind = "mbr" -> MbrSound(d, s)
    [] d.kind = "gpt" -> GptSound(d, s)
    [] d.kind = "apm" -> ApmSound(d)
-----------------------------------------------------------------------------
(* The partitions of an open volume system do not share a byte, whatever   *)
(* the order of the table or chain they come from, and lie in the source   *)
(* (MBR, APM) or in the usable area of the header (GPT).                   *)
PartitionsFit ==
  pc = "ok" => Apart(partitions) /\ Inside(disk, Bps, partitions)

(* An open volume system has exactly the partitions of the tables, in the  *)
(* order primary entries, then logical ones along the links, each counted  *)
(* from its own record (read_extended_partition_chain,                     *)
(* mbr/volume_system.rs): so the first logical partition is where the      *)
(* document has it, and no other is.                                       *)
PartitionsAsDeclared ==
  pc = "ok" =>
    /\ partitions = DeclaredPartitions(disk, Bps)
    /\ disk.kind = "mbr" =>
         LET chain == Chain(disk, Bps)
             primaries == Len(Primaries(disk, Bps))
         IN  \A i \in 1..Len(chain) :
               (partitions[primaries + i] = LogicalDocumented(disk, Bps, chain[i])) <=> i = 1

(* open returns the first sector size under which the whole disk makes     *)
(* sense, and fails only when none does: nothing of a refused attempt      *)
(* leaks into the next one.                                                *)
OpensFirstSound ==
  LET sizes == SizesOf(disk) IN
  /\ pc = "ok"  => Sound(disk, Bps) /\ \A i \in 1..attempt - 1 : ~Sound(disk, sizes[i])
  /\ pc = "err" => \A i \in 1..Len(sizes) : ~Sound(disk, sizes[i])

(* open ends on every disk, one with a cycle of extended boot records      *)
(* included.                                                               *)
VolumesOpenEnds == <>(pc \in {"ok", "err"})
=============================================================================
