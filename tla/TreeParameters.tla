--------------------------- MODULE TreeParameters ---------------------------
(***************************************************************************)
(* The parameters of the three trees: what a property set may ask for,     *)
(* what an index keeps for life, and what it reports.                      *)
(*                                                                         *)
(* A property set is a function from property names to variants, a variant *)
(* a type and a value; a property that is absent has the type VT_EMPTY.    *)
(* Factors and other doubles are in hundredths.                            *)
(***************************************************************************)
EXTENDS Integers
LOCAL INSTANCE TLC

Variant(type, val) == [type |-> type, val |-> val]

\* The variants of one type with one of these values.
Typed(type, values) == [type : {type}, val : values]

Linear    == 0
Quadratic == 1
Star      == 2

RTreeKind   == 0     \* the values of RTIndexType
MVRTreeKind == 1
TPRTreeKind == 2

AtLeast(n) == Nat \ (0 .. n - 1)

\* Values that a property set gives, a parameter's present value for the rest.
Merged(ps, names, now) ==
  [k \in DOMAIN now |-> IF k \in names \cap DOMAIN ps THEN ps[k].val ELSE now[k]]

------------------------------------------------------------------------------
(***************************************************************************)
(* The constructors' defaults.                                             *)
(***************************************************************************)
Pools ==
  [IndexPoolCapacity |-> 100, LeafPoolCapacity |-> 100,
   RegionPoolCapacity |-> 1000, PointPoolCapacity |-> 500]

RDefaults ==
  Pools @@
  [TreeVariant |-> Star, FillFactor |-> 70, IndexCapacity |-> 100, LeafCapacity |-> 100,
   NearMinimumOverlapFactor |-> 32, SplitDistributionFactor |-> 40, ReinsertFactor |-> 30,
   Dimension |-> 2, EnsureTightMBRs |-> 1]

TPRDefaults == RDefaults @@ [Horizon |-> 2000]

MVRDefaults == RDefaults @@ [StrongVersionOverflow |-> 80, VersionUnderflow |-> 30]

------------------------------------------------------------------------------
(***************************************************************************)
(* initNew and initOld: for each property, the variants that are accepted  *)
(* when the tree is to have the parameters p.  A property is checked       *)
(* against others only after those have been read.                         *)
(***************************************************************************)
Factor == Typed("DOUBLE", 1 .. 99)

NearMinimums(p) == {n \in 1 .. p.IndexCapacity : n <= p.LeafCapacity}

Shared(p) ==
  [NearMinimumOverlapFactor |-> Typed("ULONG", NearMinimums(p)),
   SplitDistributionFactor |-> Factor,
   ReinsertFactor          |-> Factor,
   Dimension               |-> Typed("ULONG", AtLeast(2)),
   EnsureTightMBRs         |-> Typed("BOOL", {0, 1}),
   IndexPoolCapacity       |-> Typed("ULONG", Nat),
   LeafPoolCapacity        |-> Typed("ULONG", Nat),
   RegionPoolCapacity      |-> Typed("ULONG", Nat),
   PointPoolCapacity       |-> Typed("ULONG", Nat)]

RAccepts(p) ==
  Shared(p) @@
  [TreeVariant   |-> Typed("LONG", {Linear, Quadratic, Star}),
   FillFactor    |-> Typed("DOUBLE", 1 .. IF p.TreeVariant = Star THEN 99 ELSE 50),
   IndexCapacity |-> Typed("ULONG", AtLeast(4)),
   LeafCapacity  |-> Typed("ULONG", AtLeast(4))]

TPRAccepts(p) ==
  Shared(p) @@
  [TreeVariant   |-> Typed("LONG", {Star}),
   FillFactor    |-> Factor,
   Horizon       |-> Typed("DOUBLE", AtLeast(1)),
   IndexCapacity |-> Typed("ULONG", AtLeast(4)),
   LeafCapacity  |-> Typed("ULONG", AtLeast(4))]

\* The fill factor is not compared with the variant.
MVRAccepts(p) ==
  Shared(p) @@
  [TreeVariant           |-> Typed("LONG", {Linear, Quadratic, Star}),
   FillFactor            |-> Factor,
   IndexCapacity         |-> Typed("ULONG", AtLeast(10)),
   LeafCapacity          |-> Typed("ULONG", AtLeast(10)),
   StrongVersionOverflow |-> Factor,
   VersionUnderflow      |-> Factor]

(***************************************************************************)
(* What initOld looks at: only some properties may be changed, the rest    *)
(* are just ignored.                                                       *)
(***************************************************************************)
\* Mutant of RChangeable: the dimension of the stored regions overwritten.
RChangeableDimension ==
  DOMAIN Pools \cup {"TreeVariant", "NearMinimumOverlapFactor", "SplitDistributionFactor",
                     "ReinsertFactor", "EnsureTightMBRs", "Dimension"}

RChangeable ==
  DOMAIN Pools \cup {"TreeVariant", "NearMinimumOverlapFactor", "SplitDistributionFactor",
                     "ReinsertFactor", "EnsureTightMBRs"}

TPRChangeable ==
  DOMAIN Pools \cup {"TreeVariant", "Horizon", "NearMinimumOverlapFactor",
                     "SplitDistributionFactor", "ReinsertFactor", "EnsureTightMBRs"}

MVRChangeable ==
  DOMAIN Pools \cup {"TreeVariant", "NearMinimumOverlapFactor", "SplitDistributionFactor",
                     "ReinsertFactor", "EnsureTightMBRs"}

------------------------------------------------------------------------------
Defaults(kind) ==
  CASE kind = RTreeKind   -> RDefaults
    [] kind = TPRTreeKind -> TPRDefaults
    [] kind = MVRTreeKind -> MVRDefaults

Accepts(kind, p) ==
  CASE kind = RTreeKind   -> RAccepts(p)
    [] kind = TPRTreeKind -> TPRAccepts(p)
    [] kind = MVRTreeKind -> MVRAccepts(p)

Changeable(kind) ==
  CASE kind = RTreeKind   -> RChangeable
    [] kind = TPRTreeKind -> TPRChangeable
    [] kind = MVRTreeKind -> MVRChangeable

\* Whether a tree of this kind takes these properties, of those it looks at.
Accepted(kind, ps, names, p) ==
  \A k \in names \cap DOMAIN ps : ps[k] \in Accepts(kind, p)[k]

\* The constructor tells a new index from an old one by this property.
OpensOld(ps) == "IndexIdentifier" \in DOMAIN ps

IdentifierAccepted(ps) == ps["IndexIdentifier"].type \in {"LONGLONG", "LONG"}

------------------------------------------------------------------------------
(***************************************************************************)
(* getIndexProperties: the type under which each parameter is reported.    *)
(***************************************************************************)
\* Mutant of RReported: the variant reported as an unsigned number.
RReportedUnsigned ==
  [Dimension |-> "ULONG", IndexCapacity |-> "ULONG", LeafCapacity |-> "ULONG",
   TreeVariant |-> "ULONG", FillFactor |-> "DOUBLE", NearMinimumOverlapFactor |-> "ULONG",
   SplitDistributionFactor |-> "DOUBLE", ReinsertFactor |-> "DOUBLE", EnsureTightMBRs |-> "BOOL",
   IndexPoolCapacity |-> "ULONG", LeafPoolCapacity |-> "ULONG", RegionPoolCapacity |-> "ULONG",
   PointPoolCapacity |-> "ULONG"]

RReported ==
  [Dimension |-> "ULONG", IndexCapacity |-> "ULONG", LeafCapacity |-> "ULONG",
   TreeVariant |-> "LONG", FillFactor |-> "DOUBLE", NearMinimumOverlapFactor |-> "ULONG",
   SplitDistributionFactor |-> "DOUBLE", ReinsertFactor |-> "DOUBLE", EnsureTightMBRs |-> "BOOL",
   IndexPoolCapacity |-> "ULONG", LeafPoolCapacity |-> "ULONG", RegionPoolCapacity |-> "ULONG",
   PointPoolCapacity |-> "ULONG"]

TPRReported == RReported @@ [Horizon |-> "DOUBLE"]

MVRReported == RReported @@ [StrongVersionOverflow |-> "DOUBLE", VersionUnderflow |-> "DOUBLE"]

Reported(kind, p, headerID) ==
  LET types == CASE kind = RTreeKind   -> RReported
                 [] kind = TPRTreeKind -> TPRReported
                 [] kind = MVRTreeKind -> MVRReported
  IN  [k \in DOMAIN types |-> Variant(types[k], p[k])]
        @@ ("IndexIdentifier" :> Variant("LONGLONG", headerID))

------------------------------------------------------------------------------
(***************************************************************************)
(* createNewRTree and its sisters: the property set that they hand to the  *)
(* constructor, and the one of loadRTree.                                  *)
(***************************************************************************)
RNew(fillFactor, indexCapacity, leafCapacity, dimension, variant) ==
  [FillFactor    |-> Variant("DOUBLE", fillFactor),
   IndexCapacity |-> Variant("ULONG", indexCapacity),
   LeafCapacity  |-> Variant("ULONG", leafCapacity),
   Dimension     |-> Variant("ULONG", dimension),
   TreeVariant   |-> Variant("LONG", variant)]

TPRNew(fillFactor, indexCapacity, leafCapacity, dimension, variant, horizon) ==
  RNew(fillFactor, indexCapacity, leafCapacity, dimension, variant)
    @@ [Horizon |-> Variant("DOUBLE", horizon)]

MVRNew(fillFactor, indexCapacity, leafCapacity, dimension, variant) ==
  RNew(fillFactor, indexCapacity, leafCapacity, dimension, variant)

LoadOld(headerID) == [IndexIdentifier |-> Variant("LONGLONG", headerID)]

==============================================================================
