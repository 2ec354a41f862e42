------------------------------ MODULE IndexPages ------------------------------
(***************************************************************************)
(* The pages of an index: its nodes and its header, as each of the three   *)
(* trees writes, measures and reads them.                                  *)
(*                                                                         *)
(* A node has a level, its box, its entries and the total length of the    *)
(* data in them, which the code counts as entries come and go and takes    *)
(* its size from.  A box is a function from the names of its parts to the  *)
(* numbers in them.                                                        *)
(***************************************************************************)
EXTENDS PageFormats
LOCAL INSTANCE SequencesExt
LOCAL INSTANCE TLC

NodeType(level) == IF level = 0 THEN 2 ELSE 1    \* PersistentLeaf, PersistentIndex

\* The fields at which entries start: each has so many fields and its data.
Starts(bytes, first, count, fields) ==
  LET at[k \in 1 .. count + 1] ==
        IF k = 1 THEN first ELSE at[k - 1] + fields + DataFields(bytes, at[k - 1] + fields)
  IN  at

TotalData(entries) == FoldLeft(LAMBDA n, e : n + Len(e.data), 0, entries)

Node(level, mbr, entries) ==
  [level |-> level, mbr |-> mbr, entries |-> entries, total |-> TotalData(entries)]

------------------------------------------------------------------------------
RNodeBytes(n) ==
  <<U32(NodeType(n.level)), U32(n.level), U32(Len(n.entries))>>
    \o FlattenSeq([k \in DOMAIN n.entries |->
         LET e == n.entries[k] IN
         <<Doubles(e.mbr["low"]), Doubles(e.mbr["high"]), U64(e.id)>> \o Data(e.data)])
    \o <<Doubles(n.mbr["low"]), Doubles(n.mbr["high"])>>

LoadRNode(bytes, dim) ==
  LET count == Number(bytes, 3, 4)
      at    == Starts(bytes, 4, count, 3)
      Box(k) == ("low" :> Vector(bytes, k, dim)) @@ ("high" :> Vector(bytes, k + 1, dim))
  IN  Node(Number(bytes, 2, 4), Box(at[count + 1]),
           [k \in 1 .. count |->
              [mbr |-> Box(at[k]), id |-> Number(bytes, at[k] + 2, 8),
               data |-> LoadData(bytes, at[k] + 3)]])

RNodeSize(n, dim) ==
  4 + 4 + 4 + Len(n.entries) * (dim * 8 * 2 + 8 + 4) + n.total + 2 * dim * 8

------------------------------------------------------------------------------
\* A node of the TPR-tree knows when it starts, and ends with time.
TPRNodeBytes(n) ==
  LET Box(b) == <<Doubles(b["low"]), Doubles(b["high"]), Doubles(b["vlow"]), Doubles(b["vhigh"])>>
  IN  <<U32(NodeType(n.level)), U32(n.level), U32(Len(n.entries)), Double(n.mbr["start"])>>
        \o FlattenSeq([k \in DOMAIN n.entries |->
             LET e == n.entries[k] IN
             Box(e.mbr) \o <<Double(e.mbr["start"]), U64(e.id)>> \o Data(e.data)])
        \o Box(n.mbr)

LoadTPRNode(bytes, dim) ==
  LET count == Number(bytes, 3, 4)
      at    == Starts(bytes, 5, count, 6)
      Box(k, start) ==
        ("low" :> Vector(bytes, k, dim)) @@ ("high" :> Vector(bytes, k + 1, dim))
          @@ ("vlow" :> Vector(bytes, k + 2, dim)) @@ ("vhigh" :> Vector(bytes, k + 3, dim))
          @@ ("start" :> start) @@ ("end" :> MaxDouble)
  IN  Node(Number(bytes, 2, 4), Box(at[count + 1], Number(bytes, 4, 8)),
           [k \in 1 .. count |->
              [mbr |-> Box(at[k], Number(bytes, at[k] + 4, 8)),
               id |-> Number(bytes, at[k] + 5, 8), data |-> LoadData(bytes, at[k] + 6)]])

TPRNodeSize(n, dim) ==
  4 + 4 + 4 + 8 + Len(n.entries) * (4 * dim * 8 + 8 + 8 + 4) + n.total + 4 * dim * 8

------------------------------------------------------------------------------
\* A node of the MVR-tree keeps its lifetime and those of its entries.
MVRNodeBytes(n) ==
  LET Lifetime(b) == <<Double(b["start"]), Double(b["end"])>> IN
  <<U32(NodeType(n.level)), U32(n.level), U32(Len(n.entries))>> \o Lifetime(n.mbr)
    \o FlattenSeq([k \in DOMAIN n.entries |->
         LET e == n.entries[k] IN
         <<Doubles(e.mbr["low"]), Doubles(e.mbr["high"]), U64(e.id)>>
           \o Lifetime(e.mbr) \o Data(e.data)])
    \o <<Doubles(n.mbr["low"]), Doubles(n.mbr["high"])>>

LoadMVRNode(bytes, dim) ==
  LET count == Number(bytes, 3, 4)
      at    == Starts(bytes, 6, count, 5)
      Box(k, t) ==
        ("low" :> Vector(bytes, k, dim)) @@ ("high" :> Vector(bytes, k + 1, dim))
          @@ ("start" :> Number(bytes, t, 8)) @@ ("end" :> Number(bytes, t + 1, 8))
  IN  Node(Number(bytes, 2, 4), Box(at[count + 1], 4),
           [k \in 1 .. count |->
              [mbr |-> Box(at[k], at[k] + 3), id |-> Number(bytes, at[k] + 2, 8),
               data |-> LoadData(bytes, at[k] + 5)]])

MVRNodeSize(n, dim) ==
  4 + 4 + 4 + 8 + 8 + Len(n.entries) * (dim * 8 * 2 + 8 + 2 * 8 + 4) + n.total + 2 * dim * 8

------------------------------------------------------------------------------
(***************************************************************************)
(* Headers.  Most of a header are numbers, in an order that writer and     *)
(* reader each spell out.  A header is here [values, roots, heights,       *)
(* levels]: its numbers by name, and the vectors of the statistics.        *)
(***************************************************************************)
StoredParameters ==
  <<<<"TreeVariant", 4>>, <<"FillFactor", 8>>, <<"IndexCapacity", 4>>, <<"LeafCapacity", 4>>,
    <<"NearMinimumOverlapFactor", 4>>, <<"SplitDistributionFactor", 8>>,
    <<"ReinsertFactor", 8>>, <<"Dimension", 4>>, <<"EnsureTightMBRs", 1>>>>

\* Mutant of LoadedParameters: two factors of one width read in the other order.
LoadedParametersSwapped ==
  <<<<"TreeVariant", 4>>, <<"FillFactor", 8>>, <<"IndexCapacity", 4>>, <<"LeafCapacity", 4>>,
    <<"NearMinimumOverlapFactor", 4>>, <<"ReinsertFactor", 8>>,
    <<"SplitDistributionFactor", 8>>, <<"Dimension", 4>>, <<"EnsureTightMBRs", 1>>>>

LoadedParameters ==
  <<<<"TreeVariant", 4>>, <<"FillFactor", 8>>, <<"IndexCapacity", 4>>, <<"LeafCapacity", 4>>,
    <<"NearMinimumOverlapFactor", 4>>, <<"SplitDistributionFactor", 8>>,
    <<"ReinsertFactor", 8>>, <<"Dimension", 4>>, <<"EnsureTightMBRs", 1>>>>

Written(values, order) == [k \in DOMAIN order |-> Field(order[k][2], <<values[order[k][1]]>>)]

\* The numbers that follow field first - 1, in the given order.
ReadFrom(bytes, first, order) ==
  [name \in {order[k][1] : k \in DOMAIN order} |->
     LET k == SelectInSeq(order, LAMBDA o : o[1] = name) IN
     Number(bytes, first + k - 1, order[k][2])]

Words(s) == [k \in DOMAIN s |-> U32(s[k])]

LoadWords(bytes, first, count) == [k \in 1 .. count |-> Number(bytes, first + k - 1, 4)]

\* Only as many levels as the tree is high.
RHeaderBytes(h) ==
  Written(h.values, <<<<"rootID", 8>>>> \o StoredParameters
                      \o <<<<"u32Nodes", 4>>, <<"u64Data", 8>>, <<"treeHeight", 4>>>>)
    \o Words(SubSeq(h.levels, 1, h.values["treeHeight"]))

LoadRHeader(bytes) ==
  LET values == ReadFrom(bytes, 1, <<<<"rootID", 8>>>> \o LoadedParameters
                  \o <<<<"u32Nodes", 4>>, <<"u64Data", 8>>, <<"treeHeight", 4>>>>)
  IN  [values |-> values, roots |-> <<>>, heights |-> <<>>,
       levels |-> LoadWords(bytes, 14, values["treeHeight"])]

RHeaderSize(h) == 8 + 4 + 8 + 4 + 4 + 4 + 8 + 8 + 4 + 1 + 4 + 8 + 4 + h.values["treeHeight"] * 4

TPRHeaderBytes(h) ==
  Written(h.values, <<<<"rootID", 8>>>> \o StoredParameters
                      \o <<<<"u32Nodes", 4>>, <<"u64Data", 8>>, <<"currentTime", 8>>,
                           <<"Horizon", 8>>, <<"treeHeight", 4>>>>)
    \o Words(SubSeq(h.levels, 1, h.values["treeHeight"]))

LoadTPRHeader(bytes) ==
  LET values == ReadFrom(bytes, 1, <<<<"rootID", 8>>>> \o LoadedParameters
                  \o <<<<"u32Nodes", 4>>, <<"u64Data", 8>>, <<"currentTime", 8>>,
                       <<"Horizon", 8>>, <<"treeHeight", 4>>>>)
  IN  [values |-> values, roots |-> <<>>, heights |-> <<>>,
       levels |-> LoadWords(bytes, 16, values["treeHeight"])]

TPRHeaderSize(h) ==
  8 + 4 + 8 + 4 + 4 + 4 + 8 + 8 + 4 + 1 + 4 + 8 + 8 + 8 + 4 + h.values["treeHeight"] * 4

\* The MVR-tree's header starts with its roots and counts its vectors.
MVRHeaderBytes(h) ==
  <<U32(Len(h.roots))>>
    \o FlattenSeq([k \in DOMAIN h.roots |->
         <<U64(h.roots[k].id), Double(h.roots[k].start), Double(h.roots[k].end)>>])
    \o Written(h.values, StoredParameters
         \o <<<<"u32Nodes", 4>>, <<"u64TotalData", 8>>, <<"u32DeadIndexNodes", 4>>,
              <<"u32DeadLeafNodes", 4>>, <<"u64Data", 8>>>>)
    \o <<U32(Len(h.heights))>> \o Words(h.heights)
    \o Written(h.values, <<<<"StrongVersionOverflow", 8>>, <<"VersionUnderflow", 8>>,
                           <<"currentTime", 8>>>>)
    \o <<U32(Len(h.levels))>> \o Words(h.levels)

LoadMVRHeader(bytes) ==
  LET roots   == Number(bytes, 1, 4)
      numbers == 2 + 3 * roots
      heights == numbers + 15
      times   == heights + Number(bytes, heights - 1, 4)
      levels  == times + 4
  IN  [roots   |-> [k \in 1 .. roots |->
                      [id |-> Number(bytes, 3 * k - 1, 8), start |-> Number(bytes, 3 * k, 8),
                       end |-> Number(bytes, 3 * k + 1, 8)]],
       values  |-> ReadFrom(bytes, numbers, LoadedParameters
                     \o <<<<"u32Nodes", 4>>, <<"u64TotalData", 8>>, <<"u32DeadIndexNodes", 4>>,
                          <<"u32DeadLeafNodes", 4>>, <<"u64Data", 8>>>>)
                   @@ ReadFrom(bytes, times, <<<<"StrongVersionOverflow", 8>>,
                        <<"VersionUnderflow", 8>>, <<"currentTime", 8>>>>),
       heights |-> LoadWords(bytes, heights, Number(bytes, heights - 1, 4)),
       levels  |-> LoadWords(bytes, levels, Number(bytes, levels - 1, 4))]

MVRHeaderSize(h) ==
  4 + Len(h.roots) * (8 + 2 * 8) + 4 + 8 + 4 + 4 + 4 + 8 + 8 + 4 + 1 + 4 + 8 + 4 + 4 + 8
    + 4 + Len(h.heights) * 4 + 8 + 8 + 8 + 4 + Len(h.levels) * 4

==============================================================================
