----------------------------- MODULE MCLayouts ------------------------------
(***************************************************************************)
(* Small images and files of every format.  Blocks are of two units, so    *)
(* that a media of odd size ends in a block that is cut; offsets in the    *)
(* file make neighbours that can and that cannot be joined, and blocks     *)
(* that end past it.  Every format that can be led out of 64 bits has a    *)
(* set of layouts that do so.                                              *)
(***************************************************************************)
EXTENDS Layouts

UpTo(n, S) == UNION {[1..k -> S] : k \in 0..n}

MCExtents == {}

(* Clusters so large that the index is shifted by all of the 64 bits: the  *)
(* second is looked for in table 5.                                        *)
QcowShifted == {<<>>} \cup UpTo(2, [offset : {0, 3}, compressed : {FALSE}])
QcowTables5 == {<<t, <<>>, <<>>, <<>>, u>> : t, u \in QcowShifted}

MCQcow ==
  [format : {"qcow"}, size : {0, 3, 5}, block : {2}, file : {7}, per_table : {2},
   references : {1, 2}, backing : {FALSE},
   tables : UpTo(2, {<<>>} \cup UpTo(2, [offset : {0, 1, 3, 6}, compressed : {FALSE}]
                                         \cup [offset : {1}, compressed : {TRUE}]))]
  \cup
  [format : {"qcow"}, size : {3}, block : {2}, file : {7}, per_table : {2}, references : {1},
   backing : {TRUE}, tables : {<<>>}]
  \cup
  [format : {"qcow"}, size : {3, 5, 15}, block : {4}, file : {7}, per_table : {4},
   references : {1, 5}, backing : {FALSE},
   tables : QcowTables5 \cup {<<t>> : t \in QcowShifted}]

(* A byte has two bits here and a sector two bytes, so that the bitmap of  *)
(* a block of four sectors fills its sector, and that of two does not.     *)
VhdBitmaps == [1..2 -> [1..2 -> BOOLEAN]]
VhdBat(sectors) == UpTo(2, {<<>>} \cup [sector : sectors, bitmap : VhdBitmaps])

MCVhd ==
  [format : {"vhd"}, size : {3, 6}, block : {4}, file : {9}, blocks : {1, 2},
   disk_type : {"dynamic"}, parent_identifier : {"nil"}, parent : {"none"}, bat : VhdBat({0, 5})]
  \cup
  [format : {"vhd"}, size : {6}, block : {4}, file : {9}, blocks : {2},
   disk_type : {"differential"}, parent_identifier : {"p"}, parent : {"p"}, bat : VhdBat({0})]
  \cup
  [format : {"vhd"}, size : {2, 3}, block : {2}, file : {9}, blocks : {2},
   disk_type : {"dynamic"}, parent_identifier : {"nil"}, parent : {"none"}, bat : VhdBat({4})]
  \cup
  [format : {"vhd"}, size : {0, 3}, block : {4}, file : {9}, blocks : {1},
   disk_type : {"fixed", "dynamic", "differential"}, parent_identifier : {"nil", "p"},
   parent : {"none", "p", "q"}, bat : {<< <<>> >>}]

VhdxHeader(valid, number, id) == [valid |-> valid, sequence_number |-> number, identifier |-> id]
VhdxHeaders ==
  {<<VhdxHeader(v, 1, "a"), VhdxHeader(w, n, "b")>> : v, w \in BOOLEAN, n \in 0..2}
VhdxRegions == [1..2 -> [valid : BOOLEAN, complete : BOOLEAN]]
Both == <<VhdxHeader(TRUE, 1, "a"), VhdxHeader(TRUE, 2, "b")>>
Complete == [i \in 1..2 |-> [valid |-> TRUE, complete |-> TRUE]]
(* Entries 3 and 6 are those of the bitmaps; the fifth is not used.        *)
VhdxStates == {s \in [1..6 -> {0, 2, 6, 7}] : /\ \A i \in 2..6 : s[i] # 2
                                              /\ \A i \in {3, 6} : s[i] # 7
                                              /\ s[5] = 0}
VhdxBats ==
  {[i \in 1..n |-> [state |-> s[i], offset |-> 2 * i, bits |-> b]] :
     n \in {4, 6}, s \in VhdxStates,
     b \in {<< <<TRUE, FALSE>>, <<FALSE, FALSE>> >>, << <<FALSE, TRUE>>, <<TRUE, TRUE>> >>}}

MCVhdx ==
  [format : {"vhdx"}, size : {3, 5}, block : {2}, flags : 0..2, entries_per_chunk : {2},
   entries : {3, 6}, bat : VhdxBats, headers : {Both}, regions : {Complete},
   parent_identifier : {"b"}, parent : {Both}]
  \cup
  [format : {"vhdx"}, size : {3, 12}, block : {2}, flags : {0, 3}, entries_per_chunk : {2},
   entries : {5}, bat : {[i \in 1..5 |-> [state |-> 6, offset |-> 2 * i, bits |-> <<>>]]},
   headers : VhdxHeaders, regions : VhdxRegions, parent_identifier : {"none"}, parent : {<<>>}]
  \cup
  [format : {"vhdx"}, size : {3}, block : {2}, flags : {2}, entries_per_chunk : {2},
   entries : {5}, bat : {[i \in 1..5 |-> [state |-> 6, offset |-> 2 * i, bits |-> <<>>]]},
   headers : {Both}, regions : {Complete}, parent_identifier : {"none", "a", "b"},
   parent : {<<>>} \cup {h \in VhdxHeaders : h[1].valid \/ h[2].valid}]
  \cup
  [format : {"vhdx"}, size : {3}, block : {2}, flags : {2}, entries_per_chunk : {2},
   entries : {3}, headers : {Both}, regions : {Complete}, parent_identifier : {"b"}, parent : {Both},
   bat : {[i \in 1..3 |-> [state |-> s[i], offset |-> 15, bits |-> << <<b, TRUE>>, <<TRUE, b>> >>]] :
            s \in [1..3 -> {0, 6, 7}], b \in BOOLEAN}]

VmdkTableSet == {<<>>, <<1>>, <<6, 0>>} \cup [1..2 -> {0, 1, 3}]
VmdkDirectories(tables) ==
  {<<[start |-> 1, tables |-> t], [start |-> 0, tables |-> <<>>]>> : t \in tables}

MCVmdk ==
  [format : {"vmdk"}, size : {3, 5}, capacity : {5}, block : {2}, file : {7}, per_table : {2},
   cowd : BOOLEAN, described : {TRUE}, flags : {{}}, entries : {1, 2},
   directories : VmdkDirectories(UpTo(2, VmdkTableSet))]
  \cup
  [format : {"vmdk"}, size : {5, 9}, capacity : {9}, block : {2}, file : {7}, per_table : {2},
   cowd : {FALSE}, described : {TRUE}, flags : {{}}, entries : {0},
   directories : VmdkDirectories(UpTo(3, {<<>>, <<1, 3>>, <<0, 5>>}))]
  \cup
  [format : {"vmdk"}, size : {3}, capacity : {2, 3}, block : {2}, file : {7}, per_table : {0, 2},
   cowd : {FALSE}, described : BOOLEAN, flags : SUBSET {"secondary", "compressed"}, entries : {0},
   directories : VmdkDirectories({<< <<1, 3>> >>})]
  \cup
  [format : {"vmdk"}, size : {0, 3, 13}, capacity : {13, 15}, block : {4, 16}, file : {7},
   per_table : {3, 4}, cowd : BOOLEAN, described : {TRUE}, flags : {{}}, entries : {2},
   directories : VmdkDirectories(UpTo(2, {<<>>, <<1, 0, 3>>, <<0, 3, 0, 0>>}))]

MCSparseImage ==
  [format : {"sparseimage"}, size : {3, 5}, block : {2}, file : {6, 8}, header : {2},
   places : {2, 3}, bands : [1..3 -> 0..4]]

MCSparseBundle ==
  [format : {"sparsebundle"}, size : {3, 5}, block : {2}, plists : [1..2 -> BOOLEAN],
   bands : [1..3 -> {"band", "none"}], sizes : [1..3 -> 0..2]]

SplitRawFiles ==
  {[n \in present |-> [name |-> <<"f1", "f2", "f3">>[n], size |-> sizes[n]]] :
     present \in SUBSET (1..3), sizes \in [1..3 -> {0, 2, 3, 6}]}
MCSplitRaw ==
  [format : {"splitraw"}, schema : BOOLEAN, fixed : {0, 2, 3}, names : {3, 10}, files : SplitRawFiles]

PdiContents ==
  [size : {3, 4}, sectors : {3}, block : {2}, data_start : {1}, blocks : {2},
   table : {<<0, 0>>, <<2, 0>>, <<0, 3>>, <<1, 3>>, <<1>>}]
  \cup [size : {4}, sectors : {2, 3}, block : {2}, data_start : 0..1, blocks : 1..2, table : {<<0, 1>>}]
PdiImageSet(file, id) ==
  [file : {file}, type : {"plain", "compressed"}, snapshot : {id}, content : PdiContents]
PdiStorage(start, end, images) == [start |-> start, end |-> end, images |-> images]

MCPdi ==
  [format : {"pdi"}, size : {3}, snapshots : {<<"a", "b">>, <<"b", "a">>},
   parents : [{"a", "b"} -> {"a", "b", "c", "none"}],
   storages : {<<PdiStorage(0, 3, <<i>>)>> : i \in PdiImageSet("f", "b")}
                \cup {<<PdiStorage(0, 3, <<>>), PdiStorage(s, e, <<>>)>> : s, e \in 3..5}]
  \cup
  [format : {"pdi"}, size : {6}, snapshots : {<<"a", "b">>, <<"b", "a">>},
   parents : {[a |-> "none", b |-> "a"]},
   storages : {<<PdiStorage(0, 3, <<i, j>>), PdiStorage(3, 6, <<j>>)>> :
                 i \in PdiImageSet("f", "b"), j \in PdiImageSet("g", "a") \cup PdiImageSet("g", "b")}]

MCFat ==
  [format : {"fat"}, size : {0, 1, 3}, block : {2}, first : {1}, start : {0, 2, 3},
   largest : {6}, width : {8}, entries : {4, 5},
   table : {<<0, 0>> \o t : t \in UpTo(3, {0, 2, 3, 4, 7, 11})}]

(* An extent that begins past the file comes last.                         *)
ExtExtentSet == [logical : 0..3, count : {1, 2, 6}, physical : {0, 3, 5}]
ExtentLeaf(logical) ==
  [depth |-> 0, data |-> <<[logical |-> logical, count |-> 1, physical |-> 4 + logical]>>,
   overfull |-> FALSE]

MCExt ==
  [format : {"ext"}, size : {3, 7}, block : {2}, number : {0, 4}, extents : {TRUE},
   per_block : {2}, unwritten : {4}, nodes : {<<>>},
   roots : {<<[depth |-> 0, data |-> d, overfull |-> FALSE]>> :
              d \in {e \in UpTo(2, ExtExtentSet) : Len(e) = 2 => e[1].logical < 2}}]
  \cup
  [format : {"ext"}, size : {3, 15}, block : {2}, number : {0, 9}, extents : {TRUE},
   per_block : {2}, unwritten : {4}, nodes : {<<>>},
   roots : {<<[depth |-> 0, data |-> d, overfull |-> o]>> : o \in BOOLEAN,
              d \in UpTo(2, [logical : {0, 2, 8}, count : {1}, physical : {3, 8}])}]
  \cup
  [format : {"ext"}, size : {3, 7}, block : {2}, number : {0}, extents : {TRUE},
   per_block : {2}, unwritten : {4},
   roots : {<<[depth |-> d, data |-> n, overfull |-> FALSE]>> :
              d \in {1, 2, 6}, n \in UpTo(2, 1..3)},
   nodes : {<<ExtentLeaf(0), ExtentLeaf(2)>>}
             \cup {<<ExtentLeaf(0), [depth |-> d, data |-> n, overfull |-> o]>> :
                      d \in 1..2, n \in UpTo(2, 1..3), o \in BOOLEAN}]
  \cup
  [format : {"ext"}, size : {3, 8, 13}, block : {2}, number : {0}, extents : {FALSE},
   per_block : {2}, unwritten : {4},
   roots : {<<[depth |-> 0, data |-> <<n>>], [depth |-> 1, data |-> <<a>>],
              [depth |-> 2, data |-> <<b>>], [depth |-> 3, data |-> <<b>>]>> :
              n \in {0, 6}, a \in 0..3, b \in 0..3},
   nodes : [1..2 -> [depth : {0}, data : [1..2 -> {0, 1, 7}]]]]

MCNtfs ==
  [format : {"ntfs"}, size : {0, 3, 7}, block : {2}, compressed : BOOLEAN, first_vcn : 0..1,
   runs : UpTo(3, [clusters : 0..2, sparse : {FALSE}, relative : {-1, 2}]
                    \cup [clusters : 1..2, sparse : {TRUE}, relative : {0}])]
  \cup
  [format : {"ntfs"}, size : {3, 15}, block : {4}, compressed : {FALSE}, first_vcn : {0, 13},
   runs : UpTo(3, [clusters : {2, 4}, sparse : {FALSE}, relative : {-3, 3, 4}]
                    \cup [clusters : {1}, sparse : {TRUE}, relative : {0}])]

XfsRangeSet ==
  [logical : 0..3, low : {1, 3, 4}, high : {0}, count : 0..2, unwritten : {FALSE}]
  \cup [logical : 0..2, low : {1, 4}, high : {1}, count : {1}, unwritten : BOOLEAN]
MCXfs ==
  [format : {"xfs"}, size : {3, 7}, block : {2}, fork : {"extents"}, records : {1, 2},
   ags : {4}, ag_blocks : {3}, ag_width : {4}, low_width : {8}, ranges : UpTo(2, XfsRangeSet)]
  \cup
  [format : {"xfs"}, size : {3, 15}, block : {2}, fork : {"extents"}, records : {1, 2},
   ags : {2, 4}, ag_blocks : {3}, ag_width : {4}, low_width : {16},
   ranges : UpTo(2, [logical : {0, 1, 7, 8}, low : {1, 12}, high : {0}, count : {1, 8},
                     unwritten : {FALSE}])]
  \cup
  [format : {"xfs"}, size : {3}, block : {2}, fork : {"extents", "btree"}, records : {0},
   ags : {2}, ag_blocks : {3}, ag_width : {4}, low_width : {8}, ranges : {<<>>}]

MCHfs ==
  [format : {"hfs"}, size : {0, 3, 7}, block : {2}, classic : {FALSE}, sector : {1},
   number : {0, 2, 3}, first : {0}, parts : UpTo(3, [block : {1, 3}, count : 0..2])]
  \cup
  [format : {"hfs"}, size : {0, 2, 3, 5}, block : {2}, classic : {TRUE}, sector : {1},
   number : {0}, first : {1}, parts : UpTo(3, [block : 0..1, count : 0..1])]

MCLayoutSet == MCQcow \cup MCVhd \cup MCVhdx \cup MCVmdk \cup MCSparseImage \cup MCSparseBundle
                 \cup MCSplitRaw \cup MCPdi \cup MCFat \cup MCExt \cup MCNtfs \cup MCXfs \cup MCHfs
=============================================================================
