----------------------------- MODULE PageFormats -----------------------------
(***************************************************************************)
(* Serialisation.  Everything that goes into a page is written with a row  *)
(* of memcpy and read back with another: what keeps the two in step is     *)
(* only that they are written alike, three times over, for the three       *)
(* trees.  A byte array is here the sequence of the fields that were       *)
(* copied into it, each with its width in bytes and the numbers in it; a   *)
(* read that takes the wrong field, or a field for the wrong width, gets   *)
(* garbage, as it would from memory.                                       *)
(***************************************************************************)
EXTENDS Integers, Sequences
LOCAL INSTANCE SequencesExt
LOCAL INSTANCE FiniteSetsExt

CONSTANT MaxDouble   \* numeric_limits<double>::max(), the end of what has not ended

Field(width, value) == [width |-> width, value |-> value]

U8(n)      == Field(1, <<n>>)
U32(n)     == Field(4, <<n>>)
U64(n)     == Field(8, <<n>>)
Double(x)  == Field(8, <<x>>)
Doubles(v) == Field(8 * Len(v), v)

Size(bytes) == FoldLeft(LAMBDA n, f : n + f.width, 0, bytes)

Garbage == -7777

Fits(bytes, k, width) == k \in DOMAIN bytes /\ bytes[k].width = width

Number(bytes, k, width) == IF Fits(bytes, k, width) THEN bytes[k].value[1] ELSE Garbage

Vector(bytes, k, dim) ==
  IF Fits(bytes, k, 8 * dim) THEN bytes[k].value ELSE [i \in 1 .. dim |-> Garbage]

\* An object's own data: its length and, if there is any, the bytes.
Data(d) == <<U32(Len(d))>> \o (IF d = <<>> THEN <<>> ELSE <<Field(Len(d), d)>>)

LoadData(bytes, k) ==
  LET n == Number(bytes, k, 4) IN
  IF n = 0 THEN <<>> ELSE IF Fits(bytes, k + 1, n) THEN bytes[k + 1].value ELSE <<Garbage>>

DataFields(bytes, k) == IF Number(bytes, k, 4) = 0 THEN 1 ELSE 2

------------------------------------------------------------------------------
(***************************************************************************)
(* Shapes.  Each class says which of its members it writes, in which order *)
(* it reads them, and how many times and vectors make up its size.         *)
(***************************************************************************)
PointFormat ==
  [stored |-> <<"dimension", "coords">>, loaded |-> <<"dimension", "coords">>,
   times |-> 0, vectors |-> 1]

RegionFormat ==
  [stored |-> <<"dimension", "low", "high">>, loaded |-> <<"dimension", "low", "high">>,
   times |-> 0, vectors |-> 2]

LineSegmentFormat ==
  [stored |-> <<"dimension", "startPoint", "endPoint">>,
   loaded |-> <<"dimension", "startPoint", "endPoint">>,
   times |-> 0, vectors |-> 2]

TimePointFormat ==
  [stored |-> <<"dimension", "startTime", "endTime", "coords">>,
   loaded |-> <<"dimension", "startTime", "endTime", "coords">>,
   times |-> 2, vectors |-> 1]

TimeRegionFormat ==
  [stored |-> <<"dimension", "startTime", "endTime", "low", "high">>,
   loaded |-> <<"dimension", "startTime", "endTime", "low", "high">>,
   times |-> 2, vectors |-> 2]

MovingPointFormat ==
  [stored |-> <<"dimension", "startTime", "endTime", "coords", "vcoords">>,
   loaded |-> <<"dimension", "startTime", "endTime", "coords", "vcoords">>,
   times |-> 2, vectors |-> 2]

\* Mutant of MovingRegionFormat: the velocities written the other way round.
MovingRegionFormatSwapped ==
  [stored |-> <<"dimension", "startTime", "endTime", "low", "high", "vhigh", "vlow">>,
   loaded |-> <<"dimension", "startTime", "endTime", "low", "high", "vlow", "vhigh">>,
   times |-> 2, vectors |-> 4]

MovingRegionFormat ==
  [stored |-> <<"dimension", "startTime", "endTime", "low", "high", "vlow", "vhigh">>,
   loaded |-> <<"dimension", "startTime", "endTime", "low", "high", "vlow", "vhigh">>,
   times |-> 2, vectors |-> 4]

ShapeFormat ==
  [Point |-> PointFormat, Region |-> RegionFormat, LineSegment |-> LineSegmentFormat,
   TimePoint |-> TimePointFormat, TimeRegion |-> TimeRegionFormat,
   MovingPoint |-> MovingPointFormat, MovingRegion |-> MovingRegionFormat]

Times == {"startTime", "endTime"}

ShapeBytes(class, s) ==
  LET order == ShapeFormat[class].stored IN
  [k \in DOMAIN order |->
     IF order[k] = "dimension" THEN U32(s["dimension"][1])
     ELSE IF order[k] \in Times THEN Double(s[order[k]][1])
     ELSE Doubles(s[order[k]])]

\* A shape is a function from its members' names to the numbers in them; it
\* starts at field k.
LoadShape(class, bytes, k) ==
  LET order == ShapeFormat[class].loaded
      dim   == Number(bytes, k, 4)
      At(m) == k - 1 + SelectInSeq(order, LAMBDA x : x = m)
  IN  [m \in ToSet(order) |->
         IF m = "dimension" THEN <<dim>>
         ELSE IF m \in Times THEN <<Number(bytes, At(m), 8)>>
         ELSE Vector(bytes, At(m), dim)]

ShapeSize(class, s) ==
  4 + 8 * ShapeFormat[class].times + 8 * s["dimension"][1] * ShapeFormat[class].vectors

------------------------------------------------------------------------------
(***************************************************************************)
(* The objects that queries hand out (Data), one class per tree, and the   *)
(* records that the external sorter keeps in its files.                    *)
(***************************************************************************)
RDataShape   == "Region"
TPRDataShape == "MovingRegion"
MVRDataShape == "TimeRegion"

DataBytes(class, x) == <<U64(x.id)>> \o Data(x.data) \o ShapeBytes(class, x.region)

LoadDataObject(class, bytes) ==
  [id |-> Number(bytes, 1, 8), data |-> LoadData(bytes, 2),
   region |-> LoadShape(class, bytes, 2 + DataFields(bytes, 2))]

DataSize(class, x) == 8 + 4 + Len(x.data) + ShapeSize(class, x.region)

\* Both bounds of a dimension together, unlike everywhere else.
RecordBytes(r) ==
  <<U64(r.id), U32(Len(r.low)), U32(r.s)>>
    \o [i \in 1 .. 2 * Len(r.low) |->
          Double(IF i % 2 = 1 THEN r.low[(i + 1) \div 2] ELSE r.high[i \div 2])]
    \o Data(r.data)

LoadRecord(bytes) ==
  LET dim == Number(bytes, 2, 4) IN
  [id |-> Number(bytes, 1, 8), s |-> Number(bytes, 3, 4),
   low  |-> [i \in 1 .. dim |-> Number(bytes, 2 + 2 * i, 8)],
   high |-> [i \in 1 .. dim |-> Number(bytes, 3 + 2 * i, 8)],
   data |-> LoadData(bytes, 4 + 2 * dim)]

------------------------------------------------------------------------------
(***************************************************************************)
(* Property sets: a name, the code of the variant's type and as many bytes *)
(* as the type takes.  Strings and pointers cannot be stored.              *)
(***************************************************************************)
VariantType ==
  <<"SHORT", "LONG", "LONGLONG", "BYTE", "FLOAT", "DOUBLE", "CHAR", "USHORT", "ULONG",
    "ULONGLONG", "BOOL">>

WidthOf ==
  [SHORT |-> 2, LONG |-> 4, LONGLONG |-> 8, BYTE |-> 1, FLOAT |-> 4, DOUBLE |-> 8,
   CHAR |-> 1, USHORT |-> 2, ULONG |-> 4, ULONGLONG |-> 8, BOOL |-> 1]

Storable(ps) == \A k \in DOMAIN ps : ps[k].type \in DOMAIN WidthOf

\* In the order of the map; a name stands in its field as its place in names.
PropertySetBytes(ps, names) ==
  LET keys == SelectSeq(names, LAMBDA k : k \in DOMAIN ps) IN
  <<U32(Len(keys))>> \o
    FlattenSeq([i \in DOMAIN keys |->
      <<Field(Len(keys[i]) + 1, <<SelectInSeq(names, LAMBDA n : n = keys[i])>>),
        U32(SelectInSeq(VariantType, LAMBDA t : t = ps[keys[i]].type)),
        Field(WidthOf[ps[keys[i]].type], <<ps[keys[i]].val>>)>>])

LoadPropertySet(bytes, names) ==
  LET Key(i)  == names[bytes[3 * i - 1].value[1]]
      Type(i) == VariantType[Number(bytes, 3 * i, 4)]
      count   == Number(bytes, 1, 4)
  IN  [k \in {Key(i) : i \in 1 .. count} |->
         LET i == CHOOSE j \in 1 .. count : Key(j) = k IN
         [type |-> Type(i), val |-> Number(bytes, 3 * i + 1, WidthOf[Type(i)])]]

PropertySetSize(ps) ==
  4 + MapThenSumSet(LAMBDA k : WidthOf[ps[k].type] + Len(k) + 1 + 4, DOMAIN ps)

==============================================================================
