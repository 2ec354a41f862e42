-------------------------- MODULE CIndexProperties --------------------------
(***************************************************************************)
(* The property functions of the C API.  A handle is a property set; for   *)
(* every property there is a setter, which may refuse the value and stores *)
(* it in a variant of one type, and a getter, which refuses a variant of   *)
(* any other type and a property that is not there.  A file name is the    *)
(* number of a name, 0 the empty one; a pointer is 0 if it is null.        *)
(***************************************************************************)
EXTENDS Integers, Sequences
LOCAL INSTANCE TLC

\* The type that a pair of functions agree on, and what the setter lets pass.
Property(type, values) == [type |-> type, values |-> values]

Flag == 0 .. 1

TypeAndDimension ==
  [IndexType |-> Property("ULONG", {0, 1, 2}), Dimension |-> Property("ULONG", Nat)]

TreeVariantProperty  == [TreeVariant |-> Property("LONG", {0, 1, 2})]

StorageTypeProperty  == [IndexStorageType |-> Property("ULONG", {0, 1, 2})]

NodeCapacities ==
  [IndexCapacity |-> Property("ULONG", Nat), LeafCapacity |-> Property("ULONG", Nat)]

PageSizeProperty     == [PageSize |-> Property("ULONG", Nat)]

NodePools ==
  [LeafPoolCapacity |-> Property("ULONG", Nat), IndexPoolCapacity |-> Property("ULONG", Nat)]

ShapePools ==
  [RegionPoolCapacity |-> Property("ULONG", Nat), PointPoolCapacity |-> Property("ULONG", Nat)]

OverlapAndBuffer ==
  [NearMinimumOverlapFactor |-> Property("ULONG", Nat), Capacity |-> Property("ULONG", Nat)]

TightMBRsProperty    == [EnsureTightMBRs |-> Property("BOOL", Flag)]

WriteThroughProperty == [WriteThrough |-> Property("BOOL", Flag)]

OverwriteProperty    == [Overwrite |-> Property("BOOL", Flag)]

FillAndSplit ==
  [FillFactor |-> Property("DOUBLE", Int), SplitDistributionFactor |-> Property("DOUBLE", Int)]

HorizonAndReinsert ==
  [Horizon |-> Property("DOUBLE", Int), ReinsertFactor |-> Property("DOUBLE", Int)]

FileNameProperty     == [FileName |-> Property("PCHAR", Nat)]

FileNameExtensions   == [FileNameDat |-> Property("PCHAR", Nat), FileNameIdx |-> Property("PCHAR", Nat)]

CustomCallbacks ==
  [CustomStorageCallbacksSize |-> Property("ULONG", Nat),
   CustomStorageCallbacks     |-> Property("PVOID", Nat)]

IndexIDProperty      == [IndexIdentifier |-> Property("LONGLONG", Int)]

ResultSetLimitProperty == [ResultSetLimit |-> Property("LONGLONG", Int)]

CProperties ==
  TypeAndDimension @@ TreeVariantProperty @@ StorageTypeProperty @@ NodeCapacities
    @@ PageSizeProperty @@ NodePools @@ ShapePools @@ OverlapAndBuffer @@ TightMBRsProperty
    @@ WriteThroughProperty @@ OverwriteProperty @@ FillAndSplit @@ HorizonAndReinsert
    @@ FileNameProperty @@ FileNameExtensions @@ CustomCallbacks @@ IndexIDProperty
    @@ ResultSetLimitProperty

\* setProperty replaces the value of a property that is there.
SetProperty(ps, k, v) == (k :> v) @@ ps

\* sizeof(CustomStorageManagerCallbacks), which the size must have been set to.
CallbacksSize == 56

SetterTakes(ps, k, value) ==
  /\ value \in CProperties[k].values
  /\ k = "TreeVariant" => "IndexType" \in DOMAIN ps
  /\ k = "CustomStorageCallbacks" => ps["CustomStorageCallbacksSize"].val = CallbacksSize

Set(ps, k, value) == SetProperty(ps, k, [type |-> CProperties[k].type, val |-> value])

GetterTakes(ps, k) == k \in DOMAIN ps /\ ps[k].type = CProperties[k].type

(***************************************************************************)
(* IndexProperty_Create: the defaults, which name every property but the   *)
(* index identifier.                                                       *)
(***************************************************************************)
GetDefaults ==
  LET V(type, val) == [type |-> type, val |-> val] IN
  [FillFactor |-> V("DOUBLE", 70), IndexCapacity |-> V("ULONG", 100),
   LeafCapacity |-> V("ULONG", 100), TreeVariant |-> V("LONG", 2),
   NearMinimumOverlapFactor |-> V("ULONG", 32), SplitDistributionFactor |-> V("DOUBLE", 40),
   ReinsertFactor |-> V("DOUBLE", 30), Dimension |-> V("ULONG", 2),
   EnsureTightMBRs |-> V("BOOL", 1), IndexPoolCapacity |-> V("ULONG", 100),
   LeafPoolCapacity |-> V("ULONG", 100), RegionPoolCapacity |-> V("ULONG", 1000),
   PointPoolCapacity |-> V("ULONG", 500), Horizon |-> V("DOUBLE", 2000),
   Capacity |-> V("ULONG", 10), WriteThrough |-> V("BOOL", 0), Overwrite |-> V("BOOL", 1),
   FileName |-> V("PCHAR", 0), PageSize |-> V("ULONG", 4096), ResultSetLimit |-> V("LONGLONG", 0),
   IndexStorageType |-> V("ULONG", 1), IndexType |-> V("ULONG", 0),
   FileNameDat |-> V("PCHAR", 1), FileNameIdx |-> V("PCHAR", 2),
   CustomStorageCallbacksSize |-> V("ULONG", 0), CustomStorageCallbacks |-> V("PVOID", 0)]

------------------------------------------------------------------------------
(***************************************************************************)
(* Index_Create reads these before there is a tree: where pages are kept,  *)
(* the buffer in front of them, and which tree it is.                      *)
(***************************************************************************)
RT_Memory == 0
RT_Disk   == 1
RT_Custom == 2

StorageAccepted(ps) ==
  /\ "FileName" \in DOMAIN ps => ps["FileName"].type = "PCHAR"
  /\ GetterTakes(ps, "IndexStorageType")
  /\ ps["IndexStorageType"].val \in {RT_Memory, RT_Disk, RT_Custom}
  /\ ps["IndexStorageType"].val = RT_Disk => "FileName" \in DOMAIN ps /\ ps["FileName"].val # 0
  /\ ps["IndexStorageType"].val = RT_Custom =>
       GetterTakes(ps, "CustomStorageCallbacks") /\ ps["CustomStorageCallbacks"].val # 0

BufferAccepted(ps) ==
  /\ "Capacity" \in DOMAIN ps => ps["Capacity"].type = "ULONG"
  /\ "WriteThrough" \in DOMAIN ps => ps["WriteThrough"].type = "BOOL"

KindAccepted(ps) == GetterTakes(ps, "IndexType") /\ ps["IndexType"].val \in {0, 1, 2}

------------------------------------------------------------------------------
(***************************************************************************)
(* Paging of results: of count results those from start on, at most limit  *)
(* of them; a limit of 0 means all results, wherever the page starts.      *)
(* The result set is [start, end), its places counted from 0.              *)
(***************************************************************************)
Smaller(a, b) == IF a <= b THEN a ELSE b

\* Mutant of PageOf: a last page that is not full is dropped.
PageOfFullOnly(count, start, limit) ==
  LET page == [start |-> start, end |-> start + limit] IN
  IF limit = 0 THEN [start |-> 0, end |-> count]
  ELSE IF count < start + limit THEN [start |-> count, end |-> count] ELSE page

PageOf(count, start, limit) ==
  LET from == IF limit = 0 THEN 0 ELSE IF count < start + limit THEN Smaller(start, count) ELSE start
      upTo == IF limit = 0 THEN count
              ELSE IF count < start + limit THEN from + Smaller(limit, count - from)
              ELSE Smaller(count, start + limit)
  IN  [start |-> from, end |-> upTo]

\* As many results as the page has, in an array that starts at 0.
Page(results, start, limit) ==
  LET page == PageOf(Len(results), start, limit) IN
  SubSeq(results, page.start + 1, page.end)

==============================================================================
