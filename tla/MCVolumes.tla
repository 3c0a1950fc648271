----------------------------- MODULE MCVolumes ------------------------------
(* Small disks for TLC: offsets count sectors of 512 bytes.                *)
EXTENDS Volumes

MCSectorSizes == <<1, 8, 4, 2>>

Entry(type, start, sectors) == [type |-> type, start |-> start, sectors |-> sectors]
Normals == {Entry("normal", s, n) : s \in {1, 2, 6}, n \in {1, 2}}
LinkEntries == {Entry("extended", s, 2) : s \in {0, 2, 4}}
Empties == {Entry("empty", 1, 2), Entry("normal", 1, 0)}

(* Boot records of one to three entries.                                   *)
Boots ==
  {<<a>> : a \in Normals \cup LinkEntries \cup Empties}
    \cup {<<a, b>> : a \in Normals, b \in Normals \cup LinkEntries}
    \cup {<<a, b, c>> : a \in LinkEntries, b \in Empties, c \in {Entry("normal", 1, 1)} \cup LinkEntries}

(* Extended boot records: good ones, with no, one or two logical           *)
(* partitions and links.                                                   *)
Ebrs ==
  {<<a>> : a \in {Entry("normal", 1, 1), Entry("normal", 1, 4), Entry("extended", 2, 2)}}
    \cup {<<Entry("normal", 1, 1), b>> : b \in LinkEntries}
    \cup {<<Entry("normal", 1, 1), Entry("normal", 3, 1)>>,
          <<Entry("normal", 1, 1), Entry("extended", 2, 2), Entry("extended", 4, 2)>>}

MbrDisks ==
  {[kind |-> "mbr", size |-> size, headers |-> [o \in {0, 2, 4} |->
      IF o = 0 THEN boot ELSE IF o = 2 THEN ebr2 ELSE ebr4]] :
        size \in {5, 20}, boot \in Boots, ebr2 \in Ebrs, ebr4 \in Ebrs}
    \cup {[kind |-> "mbr", size |-> 20, headers |-> [o \in {0, 2, 4, 6, 8} |->
             IF o = 0 THEN <<Entry("extended", 2, 9)>>
               ELSE IF o = last THEN <<Entry("normal", 1, 1)>>
               ELSE <<Entry("normal", 1, 1), Entry("extended", o, 2)>>]] : last \in {4, 6, 8}}
    \cup {[kind |-> "mbr", size |-> 4, headers |-> [o \in {} |-> <<>>]]}

(* GPT: a header at sector 1 of the sector size s it was written for and a *)
(* backup at the end or where it says, and a table of two or three         *)
(* entries.                                                                *)
GptEntry(start, end) == [used |-> TRUE, start |-> start, end |-> end]
GptFree == [used |-> FALSE, start |-> 0, end |-> 0]
Header(block, backup, from, to, number, entry_size, intact) ==
  [block |-> block, backup |-> backup, area_start |-> from, area_end |-> to, entries_start |-> 2,
   number |-> number, entry_size |-> entry_size, table_intact |-> intact]

GptHeaders ==
  {Header(1, b, from, to, n, 1, t) : b \in {9, 30}, from \in {4, 5}, to \in {4, 8}, n \in {2, 3}, t \in BOOLEAN}
    \cup {Header(1, 60, 5, 8, 3, 1, TRUE), Header(2, 9, 5, 8, 3, 1, TRUE), Header(1, 9, 5, 8, 0, 1, TRUE),
          Header(1, 9, 5, 8, 3, 0, TRUE), Header(1, 9, 1, 8, 3, 1, TRUE), Header(1, 9, 5, 8, 3, 20, TRUE),
          Header(1, 9, 40, 45, 3, 1, TRUE)}
GptTableEntries == {GptFree, GptEntry(5, 5), GptEntry(5, 6), GptEntry(6, 7), GptEntry(8, 8), GptEntry(7, 6), GptEntry(4, 9)}

GptDisks ==
  {[kind |-> "gpt", size |-> 10 * s,
    headers |-> [o \in {s, backup} |-> h],
    entries |-> [o \in {2 * s, 2 * s + 1, 2 * s + 2} |->
                   IF o = 2 * s THEN a ELSE IF o = 2 * s + 1 THEN b ELSE GptEntry(8, 8)]] :
      s \in {1, 2}, backup \in {9, 18}, h \in GptHeaders, a \in GptTableEntries, b \in GptTableEntries}
    \cup {[kind |-> "gpt", size |-> 10, headers |-> [o \in {1, 9} |-> Header(1, 9, 5, 8, 2, 1, TRUE)],
           entries |-> [o \in {2} |-> GptFree]]}

ApmEntry(number, type, start, sectors) ==
  [number |-> number, type |-> type, start |-> start, sectors |-> sectors]
ApmEntries == {ApmEntry(n, t, s, c) : n \in {0, 3, 4}, t \in {"map", "data"}, s \in {4, 5}, c \in {0, 1, 2}}
ApmDisks ==
  {[kind |-> "apm", size |-> size, entries |-> [o \in 1..3 |-> IF o = 1 THEN a ELSE IF o = 2 THEN b ELSE c]] :
     size \in {3, 6}, a \in {ApmEntry(n, t, 1, 3) : n \in {0, 1, 2, 3, 4}, t \in {"map", "data"}},
     b \in ApmEntries, c \in {e \in ApmEntries : e.type = "data"}}

MCDiskSet == MbrDisks \cup GptDisks \cup ApmDisks
=============================================================================
