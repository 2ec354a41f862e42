---------------------------- MODULE MCTreeSession ----------------------------
(* Two pages: the header and the root of one index, or two objects of the     *)
(* application's.  Every class of object, every property of the C API.        *)
EXTENDS TreeSession, TLC

MCMaxDouble == 9999
MCNullptr   == <<>>
MCEntity    == Seq([width : Nat, value : Seq(Int)]) \ {<<>>}

MCNames == <<"Alpha", "Be", "Gamma">>

Box == ("dimension" :> <<2>>) @@ ("low" :> <<1, 2>>) @@ ("high" :> <<3, 4>>)
Life == ("startTime" :> <<5>>) @@ ("endTime" :> <<6>>)
Ends == ("dimension" :> <<3>>) @@ ("startPoint" :> <<1, 2, 3>>) @@ ("endPoint" :> <<4, 5, 6>>)
Place == ("dimension" :> <<2>>) @@ ("coords" :> <<1, 2>>)
Moves == ("vlow" :> <<-1, -2>>) @@ ("vhigh" :> <<7, 8>>)

Shapes ==
  { [class |-> "Point", value |-> Place], [class |-> "Region", value |-> Box],
    [class |-> "LineSegment", value |-> Ends], [class |-> "TimePoint", value |-> Place @@ Life],
    [class |-> "TimeRegion", value |-> Box @@ Life],
    [class |-> "MovingPoint", value |-> Place @@ Life @@ ("vcoords" :> <<7, 8>>)],
    [class |-> "MovingRegion", value |-> Box @@ Life @@ Moves] }

DataObject(class, region, d) ==
  [class |-> class, value |-> [id |-> 9, data |-> d, region |-> region]]

MCSample ==
  Shapes
    \cup { DataObject("RData", Box, <<>>), DataObject("RData", Box, <<8, 8>>),
           DataObject("TPRData", Box @@ Life @@ Moves, <<8>>),
           DataObject("MVRData", Box @@ Life, <<8>>) }
    \cup { [class |-> "Record",
            value |-> [id |-> 3, s |-> 1, low |-> <<1, 2>>, high |-> <<3, 4>>, data |-> d]] :
             d \in {<<>>, <<8, 8, 8>>} }
    \cup { [class |-> "PropertySet",
            value |-> ("Gamma" :> Variant("BOOL", 1)) @@ ("Alpha" :> Variant("ULONG", 7))],
           [class |-> "PropertySet",
            value |-> ("Be" :> Variant("DOUBLE", -40)) @@ ("Alpha" :> Variant("LONGLONG", 7))] }

\* A value that is taken and one that is not, where there are both.
MCSetting ==
  { <<"FillFactor", 40>>, <<"FillFactor", 0>>,
    <<"IndexCapacity", 20>>, <<"IndexCapacity", 40>>, <<"LeafCapacity", 20>>,
    <<"NearMinimumOverlapFactor", 5>>, <<"NearMinimumOverlapFactor", 50>>,
    <<"TreeVariant", Linear>>, <<"SplitDistributionFactor", 25>>, <<"ReinsertFactor", 100>>,
    <<"Dimension", 3>>, <<"Dimension", 1>>, <<"EnsureTightMBRs", 0>>, <<"EnsureTightMBRs", 2>>,
    <<"IndexPoolCapacity", 7>>, <<"Horizon", 100>>, <<"IndexStorageType", RT_Disk>> }

MCNewTree ==
  { [kind |-> RTreeKind, ps |-> RNew(70, 10, 20, 3, Star)],
    [kind |-> RTreeKind, ps |-> RNew(70, 10, 20, 2, Linear)],
    [kind |-> RTreeKind, ps |-> RNew(50, 10, 20, 2, Quadratic)],
    [kind |-> TPRTreeKind, ps |-> TPRNew(70, 10, 20, 3, Star, 500)],
    [kind |-> MVRTreeKind, ps |-> MVRNew(70, 40, 60, 3, Star)] }

MCDataOf == <<<<>>, <<5, 6>>>>
==============================================================================
