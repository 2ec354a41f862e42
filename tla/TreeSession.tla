----------------------------- MODULE TreeSession -----------------------------
(***************************************************************************)
(* One storage manager and the indexes that come and go over it: created   *)
(* with a property set, filled, closed, and opened again by the number of  *)
(* their header's page, perhaps with other properties.  Two clients do so: *)
(* the C API through property handles, over a storage of the application's *)
(* own (RT_Custom), and C++ through createNewRTree and loadRTree.  The     *)
(* pages are kept as MemoryStorageManager keeps them; before there is an   *)
(* index the application may store objects of its own there.               *)
(*                                                                         *)
(* An index stays as small as a root leaf: how nodes split is the subject  *)
(* of the modules of the three trees.  Calls of the library are steps, a   *)
(* constructor one for each page that it writes.                           *)
(***************************************************************************)
EXTENDS MemoryStorage, IndexPages, TreeParameters, CIndexProperties
LOCAL INSTANCE TLC
LOCAL INSTANCE FiniteSets
LOCAL INSTANCE FiniteSetsExt
LOCAL INSTANCE SequencesExt

CONSTANTS
  Sample,        \* the objects an application stores: [class, value]
  Setting,       \* what it may set in a handle: <<property, value>>
  NewTree,       \* what C++ may ask for: [kind, ps]
  DataOf,        \* the data of the objects that an index holds, by identifier
  Names,         \* the names of properties, in the order of std::map
  MaxObjects,    \* bound: the objects stored at a time
  MaxSettings,   \* bound: the calls of setters between making a handle and using it
  MaxSessions    \* bound: how often an index is opened

VARIABLES
  hProp,      \* the C API's handle: its properties, and the settings left to make
  tree,       \* the index that is open, and the phase it is in
  closed,     \* the header page of each closed index -> the index as it was closed
  objects,    \* the application's own pages -> what it stored there
  sessions

session == <<hProp, tree, closed, objects, sessions>>
allVars == <<vars, session>>

NoHandle == [ps |-> <<>>, left |-> 0]
NoTree   == [phase |-> "none"]
Refused  == <<"refused">>

SessionInit ==
  /\ Init
  /\ hProp = NoHandle
  /\ tree = NoTree
  /\ closed = <<>>
  /\ objects = <<>>
  /\ sessions = 0

------------------------------------------------------------------------------
(***************************************************************************)
(* storeToByteArray allocates what getByteArraySize says: if that is not   *)
(* what is written, the array is overrun or has a tail nobody wrote.       *)
(***************************************************************************)
Allocated(size, bytes) == IF Size(bytes) = size THEN bytes ELSE <<Field(size, <<Garbage>>)>>

DataShape(class) ==
  CASE class = "RData"   -> RDataShape
    [] class = "TPRData" -> TPRDataShape
    [] class = "MVRData" -> MVRDataShape

ObjectBytes(o) ==
  CASE o.class = "PropertySet" ->
         Allocated(PropertySetSize(o.value), PropertySetBytes(o.value, Names))
    [] o.class = "Record" -> RecordBytes(o.value)
    [] o.class \in DOMAIN ShapeFormat ->
         Allocated(ShapeSize(o.class, o.value), ShapeBytes(o.class, o.value))
    [] OTHER ->
         Allocated(DataSize(DataShape(o.class), o.value), DataBytes(DataShape(o.class), o.value))

LoadObjectBytes(class, bytes) ==
  CASE class = "PropertySet"          -> LoadPropertySet(bytes, Names)
    [] class = "Record"               -> LoadRecord(bytes)
    [] class \in DOMAIN ShapeFormat   -> LoadShape(class, bytes, 1)
    [] OTHER                          -> LoadDataObject(DataShape(class), bytes)

NodeBytes(kind, n, dim) ==
  CASE kind = RTreeKind   -> Allocated(RNodeSize(n, dim), RNodeBytes(n))
    [] kind = TPRTreeKind -> Allocated(TPRNodeSize(n, dim), TPRNodeBytes(n))
    [] kind = MVRTreeKind -> Allocated(MVRNodeSize(n, dim), MVRNodeBytes(n))

LoadNode(kind, bytes, dim) ==
  CASE kind = RTreeKind   -> LoadRNode(bytes, dim)
    [] kind = TPRTreeKind -> LoadTPRNode(bytes, dim)
    [] kind = MVRTreeKind -> LoadMVRNode(bytes, dim)

HeaderBytes(kind, h) ==
  CASE kind = RTreeKind   -> Allocated(RHeaderSize(h), RHeaderBytes(h))
    [] kind = TPRTreeKind -> Allocated(TPRHeaderSize(h), TPRHeaderBytes(h))
    [] kind = MVRTreeKind -> Allocated(MVRHeaderSize(h), MVRHeaderBytes(h))

LoadHeader(kind, bytes) ==
  CASE kind = RTreeKind   -> LoadRHeader(bytes)
    [] kind = TPRTreeKind -> LoadTPRHeader(bytes)
    [] kind = MVRTreeKind -> LoadMVRHeader(bytes)

\* A page that need not have an identifier yet.
StoreNew(bytes) == StoreGrow(bytes) \/ StoreReuse(bytes)

\* The identifier that a call that stores hands back.
Got == reply'[2]

------------------------------------------------------------------------------
(***************************************************************************)
(* The application's own objects.                                          *)
(***************************************************************************)
Idle == tree = NoTree /\ hProp = NoHandle

StoreObject(o) ==
  /\ Idle /\ closed = <<>> /\ Cardinality(DOMAIN objects) < MaxObjects
  /\ StoreNew(ObjectBytes(o))
  /\ objects' = (Got :> o) @@ objects
  /\ UNCHANGED <<hProp, tree, closed, sessions>>

LookUp(i) ==
  /\ Idle /\ closed = <<>>
  /\ Load(i) \/ Refuse(i)
  /\ UNCHANGED session

DeleteObject(i) ==
  /\ Idle /\ i \in DOMAIN objects
  /\ Delete(i)
  /\ objects' = [j \in DOMAIN objects \ {i} |-> objects[j]]
  /\ UNCHANGED <<hProp, tree, closed, sessions>>

------------------------------------------------------------------------------
(***************************************************************************)
(* Handles of the C API.  To use a storage of its own an application names *)
(* it, and the tree it wants, first.                                       *)
(***************************************************************************)
OverOwnStorage(kind) ==
  Set(Set(Set(Set(GetDefaults, "IndexStorageType", RT_Custom),
              "CustomStorageCallbacksSize", CallbacksSize),
          "CustomStorageCallbacks", 1),
      "IndexType", kind)

Between == tree = NoTree /\ objects = <<>> /\ sessions < MaxSessions

IndexProperty_Create ==
  /\ Between /\ hProp = NoHandle
  /\ \E kind \in {RTreeKind, MVRTreeKind, TPRTreeKind} :
       hProp' = [ps |-> OverOwnStorage(kind), left |-> MaxSettings]
  /\ UNCHANGED <<vars, tree, closed, objects, sessions>>

\* A setter that refuses its value leaves the handle alone.
IndexProperty_Set(k, value) ==
  /\ Between /\ hProp.left > 0
  /\ SetterTakes(hProp.ps, k, value)
  /\ hProp' = [ps |-> Set(hProp.ps, k, value), left |-> hProp.left - 1]
  /\ UNCHANGED <<vars, tree, closed, objects, sessions>>

IndexProperty_SetIndexID(id) ==
  /\ Between /\ hProp # NoHandle /\ ~OpensOld(hProp.ps)
  /\ closed[id].kind = hProp.ps["IndexType"].val
  /\ hProp' = [hProp EXCEPT !.ps = Set(@, "IndexIdentifier", id)]
  /\ UNCHANGED <<vars, tree, closed, objects, sessions>>

IndexProperty_Destroy ==
  /\ hProp # NoHandle
  /\ hProp' = NoHandle
  /\ UNCHANGED <<vars, tree, closed, objects, sessions>>

------------------------------------------------------------------------------
(***************************************************************************)
(* The trees' constructors.  Checks come first, then the pages: a refused  *)
(* property leaves the storage as it was.  An index that is there is only  *)
(* read; its header is written when it is flushed or closed.               *)
(***************************************************************************)
NewHeader(kind, p) ==
  LET counters == ("u32Nodes" :> 0) @@ ("u64Data" :> 0) IN
  IF kind = MVRTreeKind
    THEN [values |-> p @@ counters @@ ("currentTime" :> 0) @@ ("u64TotalData" :> 0)
                       @@ ("u32DeadIndexNodes" :> 0) @@ ("u32DeadLeafNodes" :> 0),
          roots |-> <<>>, heights |-> <<1>>, levels |-> <<1>>]
    ELSE [values |-> p @@ counters @@ ("currentTime" :> 0) @@ ("rootID" :> -1)
                       @@ ("treeHeight" :> 1),
          roots |-> <<>>, heights |-> <<>>, levels |-> <<0>>]

\* writeNode of the first root tells its page, and the R- and the TPR-tree
\* count the node in its level.
WithRoot(kind, h, page) ==
  IF kind = MVRTreeKind
    THEN [h EXCEPT !.roots = <<[id |-> page, start |-> 0, end |-> MaxDouble]>>,
                   !.values["u32Nodes"] = 1]
    ELSE [h EXCEPT !.values["rootID"] = page, !.values["u32Nodes"] = 1, !.levels = <<1>>]

InfiniteBox(kind, dim) ==
  LET max == [i \in 1 .. dim |-> MaxDouble]
      min == [i \in 1 .. dim |-> -MaxDouble]
      box == ("low" :> max) @@ ("high" :> min)
  IN  CASE kind = RTreeKind   -> box
        [] kind = TPRTreeKind -> box @@ ("vlow" :> max) @@ ("vhigh" :> min)
                                     @@ ("start" :> -MaxDouble) @@ ("end" :> MaxDouble)
        [] kind = MVRTreeKind -> box @@ ("start" :> 0) @@ ("end" :> MaxDouble)

EmptyRoot(kind, dim) == Node(0, InfiniteBox(kind, dim), <<>>)

Tree(phase, kind, id, header, asked) ==
  [phase |-> phase, kind |-> kind, id |-> id, header |-> header, asked |-> asked,
   holds |-> {}, born |-> header.values]

InitNew(kind, ps) ==
  LET now   == Defaults(kind)
      names == DOMAIN Accepts(kind, now)
      p     == Merged(ps, names, now)
  IN  IF Accepted(kind, ps, names, p)
        THEN /\ tree' = Tree("root", kind, -1, NewHeader(kind, p), ps)
             /\ sessions' = sessions + 1
             /\ UNCHANGED reply
        ELSE reply' = Refused /\ UNCHANGED <<tree, sessions>>

\* The pools are no part of the header and start from the defaults.
InitOld(kind, ps) ==
  LET id  == ps["IndexIdentifier"].val
      h   == LoadHeader(kind, Slot(id))
      now == h.values @@ Pools
      p   == Merged(ps, Changeable(kind), now)
  IN  IF Accepted(kind, ps, Changeable(kind), p)
        THEN /\ tree' = [Tree("open", kind, id, [h EXCEPT !.values = p], ps)
                          EXCEPT !.holds = closed[id].holds, !.born = closed[id].born]
             /\ sessions' = sessions + 1
             /\ UNCHANGED reply
        ELSE reply' = Refused /\ UNCHANGED <<tree, sessions>>

\* Bound: an index for each storage; one that is there is opened by its number.
Construct(kind, ps) ==
  /\ IF OpensOld(ps)
       THEN InitOld(kind, ps)
       ELSE closed = <<>> /\ InitNew(kind, ps)
  /\ UNCHANGED <<m_buffer, m_emptyPages, hProp, closed, objects>>

WriteRoot ==
  /\ tree.phase = "root"
  /\ StoreNew(NodeBytes(tree.kind, EmptyRoot(tree.kind, tree.header.values["Dimension"]),
                        tree.header.values["Dimension"]))
  /\ tree' = [tree EXCEPT !.phase = "header", !.header = WithRoot(tree.kind, @, Got)]
  /\ UNCHANGED <<hProp, closed, objects, sessions>>

WriteHeader ==
  /\ tree.phase = "header"
  /\ StoreNew(HeaderBytes(tree.kind, tree.header))
  /\ tree' = [tree EXCEPT !.phase = "open", !.id = Got]
  /\ UNCHANGED <<hProp, closed, objects, sessions>>

Index_Create ==
  /\ Between /\ hProp # NoHandle
  /\ IF StorageAccepted(hProp.ps) /\ BufferAccepted(hProp.ps) /\ KindAccepted(hProp.ps)
       THEN Construct(hProp.ps["IndexType"].val, hProp.ps)
       ELSE reply' = Refused /\ UNCHANGED <<m_buffer, m_emptyPages, session>>

CreateNewTree ==
  /\ Between /\ hProp = NoHandle
  /\ \E new \in NewTree : Construct(new.kind, new.ps)

LoadOldTree ==
  /\ Between /\ hProp = NoHandle
  /\ \E id \in DOMAIN closed : Construct(closed[id].kind, LoadOld(id))

------------------------------------------------------------------------------
(***************************************************************************)
(* An open index.  insertData reads the root, adds an entry and writes the *)
(* root back.  Bound: objects start at time 0, as the trees' clocks do.    *)
(***************************************************************************)
Open == tree.phase = "open" /\ (hProp = NoHandle \/ hProp.left = 0)

RootPage(kind, h) == IF kind = MVRTreeKind THEN Last(h.roots).id ELSE h.values["rootID"]

Root == LoadNode(tree.kind, Slot(RootPage(tree.kind, tree.header)), tree.header.values["Dimension"])

Entry(kind, id, dim) ==
  LET corner == [i \in 1 .. dim |-> 10 * id + i]
      box == ("low" :> corner) @@ ("high" :> [i \in 1 .. dim |-> corner[i] + 5])
      lifetime == ("start" :> 0) @@ ("end" :> MaxDouble)
  IN  [id |-> id, data |-> DataOf[id],
       mbr |-> CASE kind = RTreeKind   -> box
                 [] kind = MVRTreeKind -> box @@ lifetime
                 [] kind = TPRTreeKind ->
                      box @@ lifetime @@ ("vlow" :> [i \in 1 .. dim |-> -i])
                          @@ ("vhigh" :> [i \in 1 .. dim |-> id])]

Combined(box, other) ==
  [m \in DOMAIN box |->
     IF m \in {"low", "vlow"}
       THEN [i \in DOMAIN box[m] |-> Smaller(box[m][i], other[m][i])]
     ELSE IF m \in {"high", "vhigh"}
       THEN [i \in DOMAIN box[m] |-> -Smaller(-box[m][i], -other[m][i])]
     ELSE other[m]]

Grown(n, e) ==
  [n EXCEPT !.entries = Append(@, e), !.mbr = Combined(@, e.mbr),
            !.total = @ + Len(e.data)]

Counted(kind, h) ==
  IF kind = MVRTreeKind
    THEN [h EXCEPT !.values["u64Data"] = @ + 1, !.values["u64TotalData"] = @ + 1]
    ELSE [h EXCEPT !.values["u64Data"] = @ + 1]

InsertData(id) ==
  /\ Open /\ id \notin tree.holds
  /\ LET dim == tree.header.values["Dimension"]
         e   == Entry(tree.kind, id, dim)
     IN  StoreOld(RootPage(tree.kind, tree.header), NodeBytes(tree.kind, Grown(Root, e), dim))
  /\ tree' = [tree EXCEPT !.header = Counted(tree.kind, @), !.holds = @ \cup {id}]
  /\ UNCHANGED <<hProp, closed, objects, sessions>>

Flush ==
  /\ Open
  /\ StoreOld(tree.id, HeaderBytes(tree.kind, tree.header))
  /\ UNCHANGED session

\* The destructor stores the header.
Close ==
  /\ Open
  /\ StoreOld(tree.id, HeaderBytes(tree.kind, tree.header))
  /\ closed' = (tree.id :> tree)
  /\ tree' = NoTree
  /\ UNCHANGED <<hProp, objects, sessions>>

(***************************************************************************)
(* Index_GetProperties: what the index was asked for, overwritten by what  *)
(* it uses.                                                                *)
(***************************************************************************)
Effective(t) == Reported(t.kind, t.header.values, t.id) @@ t.asked

ByCApi == "IndexType" \in DOMAIN tree.asked

Index_GetProperties ==
  /\ tree.phase = "open" /\ ByCApi /\ hProp = NoHandle
  /\ hProp' = [ps |-> Effective(tree), left |-> 0]
  /\ UNCHANGED <<vars, tree, closed, objects, sessions>>

SessionNext ==
  \/ \E o \in Sample : StoreObject(o)
  \/ \E i \in Id : LookUp(i) \/ DeleteObject(i)
  \/ IndexProperty_Create
  \/ \E s \in Setting : IndexProperty_Set(s[1], s[2])
  \/ \E id \in DOMAIN closed : IndexProperty_SetIndexID(id)
  \/ IndexProperty_Destroy
  \/ Index_Create
  \/ CreateNewTree
  \/ LoadOldTree
  \/ WriteRoot
  \/ WriteHeader
  \/ \E id \in DOMAIN DataOf : InsertData(id)
  \/ Flush
  \/ Close
  \/ Index_GetProperties

SessionSpec == SessionInit /\ [][SessionNext]_allVars

------------------------------------------------------------------------------
(***************************************************************************)
(* A step of an index or of the application is a step of PageStore: the    *)
(* storage gives no page away twice, and changes no page but the one that  *)
(* was named.  (What PageStore lets a client store is here what the step   *)
(* stored, or else TLC would have to enumerate all byte arrays.)           *)
(***************************************************************************)
StoresAsPromised ==
  [][\/ \E e \in ToSet(m_buffer') \ {Nullptr} :
          Contract!StoreNew(e) \/ \E i \in Id : Contract!StoreOld(i, e)
     \/ \E i \in Id : Contract!Load(i) \/ Contract!Delete(i) \/ Contract!Refuse(i)
     \/ reply' = Refused /\ UNCHANGED m_buffer
    ]_<<m_buffer, reply>>

(***************************************************************************)
(* Whatever the application stores reads back as what it was: each class's *)
(* storeToByteArray, loadFromByteArray and getByteArraySize agree.         *)
(***************************************************************************)
ObjectsReadBack ==
  \A i \in DOMAIN objects : LoadObjectBytes(objects[i].class, Slot(i)) = objects[i].value

(***************************************************************************)
(* A closed index is all there: its header reads back as it was in memory, *)
(* and leads to a root that holds every object inserted in any session,    *)
(* with its region and its data, and as many as the header counts.         *)
(***************************************************************************)
ClosedIndexIsComplete ==
  \A id \in DOMAIN closed :
    tree = NoTree =>
      LET t   == closed[id]
          h   == LoadHeader(t.kind, Slot(id))
          dim == t.header.values["Dimension"]
          root == LoadNode(t.kind, Slot(RootPage(t.kind, h)), dim)
      IN  /\ \A name \in DOMAIN h.values : h.values[name] = t.header.values[name]
          /\ h = [t.header EXCEPT !.values = h.values]
          /\ ToSet(root.entries) = {Entry(t.kind, o, dim) : o \in t.holds}
          /\ h.values["u64Data"] = Cardinality(t.holds)

(***************************************************************************)
(* What shaped the pages stays for life: an index that is opened again     *)
(* keeps its dimension, capacities and fill factor, whatever the property  *)
(* set says (RTree.cc:1030, "the rest are just ignored").                  *)
(***************************************************************************)
FixedForLife ==
  tree # NoTree =>
    \A name \in {"Dimension", "IndexCapacity", "LeafCapacity", "FillFactor"} :
      tree.header.values[name] = tree.born[name]

(***************************************************************************)
(* chooseSubtree sorts at most the near minimum overlap factor's number of *)
(* children: it fits in nodes of either capacity whenever a client names   *)
(* it, in a new index or in an old one.                                    *)
(***************************************************************************)
NearMinimumFits ==
  tree # NoTree /\ "NearMinimumOverlapFactor" \in DOMAIN tree.asked =>
    LET p == tree.header.values IN
    p["NearMinimumOverlapFactor"] <= Smaller(p["IndexCapacity"], p["LeafCapacity"])

\* Whatever properties an index is opened with, its parameters fit its pages.
ParametersFitThePages == FixedForLife /\ NearMinimumFits

(***************************************************************************)
(* An index of the C API reports what it uses, and what it reports opens   *)
(* it again.  After a reopening the properties asked for are not those in  *)
(* use, and the trees' variants must have the types that the constructors  *)
(* insist on.                                                              *)
(***************************************************************************)
ReportsWhatItUses ==
  tree.phase = "open" /\ ByCApi =>
    \A name \in DOMAIN Accepts(tree.kind, tree.header.values) :
      name \in DOMAIN Effective(tree) /\ Effective(tree)[name].val = tree.header.values[name]

ReportOpensAgain ==
  tree.phase = "open" /\ ByCApi =>
    /\ \A name \in DOMAIN CProperties : GetterTakes(Effective(tree), name)
    /\ IdentifierAccepted(Effective(tree))
    /\ Accepted(tree.kind, Effective(tree), Changeable(tree.kind), tree.header.values)

\* What Index_GetProperties returns is true of the index and opens it again.
ReportIsFaithful == ReportsWhatItUses /\ ReportOpensAgain

(***************************************************************************)
(* Pages of a result set: asked for one after the other they give every    *)
(* result once, in order, and never more than were asked for, which is     *)
(* what was allocated.                                                     *)
(***************************************************************************)
PagesTileTheResult ==
  tree.phase = "open" =>
    LET entries == Root.entries
        results == [k \in DOMAIN entries |-> entries[k].id]
    IN  /\ Page(results, Len(results), 0) = results
        /\ \A limit \in 1 .. Len(results) + 1 :
             LET pages == [k \in 1 .. Len(results) + 1 |-> Page(results, (k - 1) * limit, limit)]
             IN  /\ FlattenSeq(pages) = results
                 /\ \A k \in DOMAIN pages : Len(pages[k]) <= limit

==============================================================================
