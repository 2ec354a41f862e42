------------------------------ MODULE TPRTree ------------------------------
(***************************************************************************)
(* The TPR-tree: an index of moving objects.  insertData and deleteData    *)
(* with everything they call, as in RTree: work is the call stack, its     *)
(* running frame first, and an action is the body of one function.  Every  *)
(* call moves the tree's current time, and whatever node it touches gets a *)
(* box that is tight at that time; the others keep the older, looser one.  *)
(*                                                                         *)
(* The forced reinsertion of Node::insertData is left out: its condition   *)
(* begins with false.                                                      *)
(***************************************************************************)
EXTENDS TPRTreeNode
LOCAL INSTANCE TLC
LOCAL INSTANCE FiniteSets
LOCAL INSTANCE FiniteSetsExt
LOCAL INSTANCE Functions
LOCAL INSTANCE SequencesExt

CONSTANTS
  Motion,       \* the shape and the velocities of each object, by identifier
  Script,       \* bound: what a client does, each time: the objects it inserts, in
                \* order, and how many it deletes when it has inserted all
  MaxTime,      \* bound on the current time
  Query         \* the moving regions that a client asks about

Object == DOMAIN Motion

VARIABLES
  nodes,          \* the pages in use: page -> [level, mbr, kids], kids a sequence of [id, mbr]
  m_currentTime,
  m_stats,        \* the counters that the header keeps
  work,           \* the call stack
  inserted,       \* the region each object was last inserted with
  answer,         \* the last call: its object and what became of it
  todo,           \* what the client has yet to insert
  deletes         \* how many objects it may delete after that

client == <<inserted, answer, todo, deletes>>
vars == <<nodes, m_currentTime, m_stats, work, client>>

RootId == 0

NewPageBeside(used) == Min((0 .. Cardinality(used)) \ used)

PositionOf(kids, id) == SelectInSeq(kids, LAMBDA e : e.id = id)

\* A node with its box as the code computes it now.
Node(level, kids) == [level |-> level, mbr |-> NodeBox(kids, m_currentTime), kids |-> kids]

Init ==
  /\ nodes = (RootId :> [level |-> 0, mbr |-> InfiniteMovingRegion, kids |-> <<>>])
  /\ m_currentTime = 0
  /\ m_stats = [m_nodes |-> 1, m_data |-> 0, m_treeHeight |-> 1, m_nodesInLevel |-> <<1>>]
  /\ work = <<>>
  /\ inserted = <<>>
  /\ answer = <<"none">>
  /\ \E s \in Script : todo = s.inserts /\ deletes = s.deletes

------------------------------------------------------------------------------
(***************************************************************************)
(* The call stack.  A pathBuffer is a sequence of pages, its top last.     *)
(***************************************************************************)
Running(fn) == work # <<>> /\ work[1].fn = fn

Become(frames) == work' = frames \o Tail(work)

\* A call under way changes neither the time nor anything of the client's.
Step(fn) == Running(fn) /\ UNCHANGED <<m_currentTime, client>>

ChooseFrame(page, entry, level, path) ==
  [fn |-> "chooseSubtree", page |-> page, entry |-> entry, level |-> level, path |-> path]

InsertFrame(page, node, entry, path) ==
  [fn |-> "insertData", page |-> page, node |-> node, entry |-> entry, path |-> path]

\* adjustTree on the parent of a page that now has the given region, if it has one.
AdjustParent(page, mbr, path) ==
  IF path = <<>>
    THEN <<>>
    ELSE <<[fn |-> "adjustTree", page |-> Last(path), child |-> page, mbr |-> mbr,
            path |-> Front(path)]>>

CondenseFrame(page, path, toReinsert) ==
  [fn |-> "condenseTree", page |-> page, path |-> path, toReinsert |-> toReinsert]

Return(delta) == [fn |-> "return", delta |-> delta]

------------------------------------------------------------------------------
(***************************************************************************)
(* insertData: an object that starts before the tree's current time is     *)
(* refused, any other moves the current time to its start.                 *)
(***************************************************************************)
MovingFrom(o, start) ==
  [low |-> Motion[o].low, high |-> Motion[o].high, vlow |-> Motion[o].vlow,
   vhigh |-> Motion[o].vhigh, start |-> start, end |-> Forever]

InsertData(start) ==
  /\ work = <<>>
  /\ todo # <<>>
  /\ start >= m_currentTime
  /\ LET r == MovingFrom(todo[1], start) IN
       /\ work' = <<ChooseFrame(RootId, [id |-> todo[1], mbr |-> r], 0, <<>>), Return(1)>>
       /\ inserted' = (todo[1] :> r) @@ inserted
  /\ m_currentTime' = start
  /\ answer' = <<"inserted", todo[1]>>
  /\ todo' = Tail(todo)
  /\ UNCHANGED <<nodes, m_stats, deletes>>

\* insertData_impl for an entry of a node that was cut off.
Reinsert ==
  /\ Step("insertData_impl")
  /\ Become(<<ChooseFrame(RootId, work[1].entry, work[1].level, <<>>)>>)
  /\ UNCHANGED <<nodes, m_stats>>

Descend ==
  /\ Step("chooseSubtree")
  /\ LET f == work[1]
         n == nodes[f.page]
     IN  /\ n.level \notin {0, f.level}
         /\ LET child == ChosenChild(n.level, n.kids, m_currentTime, f.entry.mbr) IN
              Become(<<[f EXCEPT !.page = n.kids[child].id, !.path = Append(@, f.page)]>>)
  /\ UNCHANGED <<nodes, m_stats>>

Arrive ==
  /\ Step("chooseSubtree")
  /\ LET f == work[1] IN
       /\ nodes[f.page].level \in {0, f.level}
       /\ Become(<<InsertFrame(f.page, nodes[f.page], f.entry, f.path)>>)
  /\ UNCHANGED <<nodes, m_stats>>

Full(node) == Len(node.kids) >= Capacity(node.level)

\* Mutant of InsertEntry: a box from an earlier time is only widened.
InsertEntryIntoOldBox(node, entry) ==
  [node EXCEPT !.kids = Append(@, entry),
               !.mbr = IF node.kids = <<>> THEN NodeBox(<<entry>>, m_currentTime)
                       ELSE [Widened(@, m_currentTime, entry.mbr) EXCEPT !.start = node.mbr.start]]

\* A box from an earlier time is recomputed from all the entries, one from
\* now is widened.
InsertEntry(node, entry) ==
  LET kids == Append(node.kids, entry) IN
    [node EXCEPT !.kids = kids,
                 !.mbr = IF @.start # m_currentTime THEN NodeBox(kids, m_currentTime)
                                                    ELSE Widened(@, m_currentTime, entry.mbr)]

InsertFits ==
  /\ Step("insertData")
  /\ LET f == work[1]
         grown == InsertEntry(f.node, f.entry)
     IN  /\ ~Full(f.node)
         /\ nodes' = [nodes EXCEPT ![f.page] = grown]
         /\ Become(AdjustParent(f.page, grown.mbr, f.path))
  /\ UNCHANGED m_stats

SplitFull ==
  /\ Step("insertData")
  /\ LET f == work[1]
         g == Split(Append(f.node.kids, f.entry), m_currentTime)
     IN  /\ Full(f.node)
         /\ Become(<<[fn |-> "split", page |-> f.page, path |-> f.path,
                      left |-> Node(f.node.level, g[1]), right |-> Node(f.node.level, g[2])]>>)
  /\ UNCHANGED <<nodes, m_stats>>

\* The root's entries move to two new pages; its own page holds the new root.
SplitRoot ==
  /\ Step("split")
  /\ LET f == work[1]
         level == f.left.level
         n  == NewPageBeside(DOMAIN nodes)
         nn == NewPageBeside(DOMAIN nodes \cup {n})
         ptrR == Node(level + 1, <<[id |-> n, mbr |-> f.left.mbr], [id |-> nn, mbr |-> f.right.mbr]>>)
     IN  /\ f.path = <<>>
         /\ nodes' = (n :> f.left) @@ (nn :> f.right) @@ [nodes EXCEPT ![RootId] = ptrR]
         /\ m_stats' = [m_stats EXCEPT
              !.m_nodes = @ + 2,
              !.m_treeHeight = level + 2,
              !.m_nodesInLevel = Append([@ EXCEPT ![level + 1] = 2], 1)]
         /\ Become(<<>>)

SplitNode ==
  /\ Step("split")
  /\ LET f == work[1]
         nn == NewPageBeside(DOMAIN nodes)
     IN  /\ f.path # <<>>
         /\ nodes' = (nn :> f.right) @@ [nodes EXCEPT ![f.page] = f.left]
         /\ m_stats' = [m_stats EXCEPT
              !.m_nodes = @ + 1,
              !.m_nodesInLevel = [@ EXCEPT ![f.left.level + 1] = @ + 1]]
         /\ Become(<<[fn |-> "adjustTree2", page |-> Last(f.path),
                      child |-> f.page, mbr |-> f.left.mbr,
                      entry |-> [id |-> nn, mbr |-> f.right.mbr],
                      path |-> Front(f.path)]>>)

------------------------------------------------------------------------------
(***************************************************************************)
(* Index::adjustTree, after a child changed (up to the root, always), and  *)
(* after it was split (then insertData writes the copy).                   *)
(***************************************************************************)
\* The children with the entry of one of them brought up to date.
Updated(kids, child, mbr) == [kids EXCEPT ![PositionOf(kids, child)].mbr = mbr]

\* Mutant of Adjusted: only if the box does not contain the child's already.
AdjustedIfOutgrown(n, child, mbr) ==
  LET kids == Updated(n.kids, child, mbr) IN
    [n EXCEPT !.kids = kids,
              !.mbr = IF ContainsRegionAfterTime(@, m_currentTime, mbr) THEN @
                                                  ELSE NodeBox(kids, m_currentTime)]

Adjusted(n, child, mbr) == Node(n.level, Updated(n.kids, child, mbr))

AdjustTree ==
  /\ Step("adjustTree")
  /\ LET f == work[1]
         adjusted == Adjusted(nodes[f.page], f.child, f.mbr)
     IN  /\ nodes' = [nodes EXCEPT ![f.page] = adjusted]
         /\ Become(AdjustParent(f.page, adjusted.mbr, f.path))
  /\ UNCHANGED m_stats

AdjustTreeAfterSplit ==
  /\ Step("adjustTree2")
  /\ LET f == work[1] IN
       Become(<<InsertFrame(f.page, Adjusted(nodes[f.page], f.child, f.mbr), f.entry, f.path)>>)
  /\ UNCHANGED <<nodes, m_stats>>

------------------------------------------------------------------------------
(***************************************************************************)
(* deleteData.  The region to delete starts when the object was inserted,  *)
(* and its end is the time of the deletion, which becomes the current time *)
(* whether or not the object is found.  findLeaf goes into every child     *)
(* whose entry contains the region from then on; the leaf looks at         *)
(* identifiers only.                                                       *)
(***************************************************************************)
\* The paths of every length from the root through entries that satisfy
\* Enter, as functions of the length.
Paths(Enter(_)) ==
  LET path[k \in 0 .. nodes[RootId].level] ==
        IF k = 0
          THEN {<<RootId>>}
          ELSE UNION {{Append(p, e.id) : e \in {x \in Range(nodes[Last(p)].kids) : Enter(x)}} :
                        p \in path[k - 1]}
  IN  path

LeavesVia(Enter(_)) == Paths(Enter)[nodes[RootId].level]

\* Depth-first search reaches path p before path q.
FoundBefore(p, q) ==
  \E k \in 2 .. Len(p) :
    /\ \A j \in 1 .. k - 1 : p[j] = q[j]
    /\ PositionOf(nodes[p[k - 1]].kids, p[k]) < PositionOf(nodes[q[k - 1]].kids, q[k])

\* Mutant of LeafPaths: entries that hold the object ever since its start.
LeafPathsSinceStart(o, r, now) ==
  {p \in LeavesVia(LAMBDA e : ContainsRegionAfterTime(e.mbr, r.start, r)) :
     PositionOf(nodes[Last(p)].kids, o) # 0}

LeafPaths(o, r, now) ==
  {p \in LeavesVia(LAMBDA e : ContainsRegionAfterTime(e.mbr, now, r)) :
     PositionOf(nodes[Last(p)].kids, o) # 0}

FindLeaf(paths) == CHOOSE p \in paths : \A q \in paths \ {p} : FoundBefore(p, q)

\* Node::deleteEntry: the last entry takes the place of the one that goes.
DeleteEntry(n, k, now) ==
  LET kids == Front([n.kids EXCEPT ![k] = Last(n.kids)])
  IN  [n EXCEPT !.kids = kids, !.mbr = NodeBox(kids, now)]

DeleteData(o, now) ==
  /\ work = <<>>
  /\ deletes > 0
  /\ todo = <<>>
  /\ LET paths == LeafPaths(o, inserted[o], now)
         path  == FindLeaf(paths)
         leaf  == nodes[Last(path)]
     IN  /\ paths # {}
         /\ nodes' = [nodes EXCEPT ![Last(path)] = DeleteEntry(leaf, PositionOf(leaf.kids, o), now)]
         /\ work' = <<CondenseFrame(Last(path), Front(path), <<>>), Return(-1)>>
  /\ m_currentTime' = now
  /\ answer' = <<"deleted", o>>
  /\ deletes' = deletes - 1
  /\ UNCHANGED <<m_stats, inserted, todo>>

DeleteNothing(o, now) ==
  /\ work = <<>>
  /\ deletes > 0
  /\ todo = <<>>
  /\ LeafPaths(o, inserted[o], now) = {}
  /\ m_currentTime' = now
  /\ answer' = <<"not found", o>>
  /\ deletes' = deletes - 1
  /\ UNCHANGED <<nodes, m_stats, work, inserted, todo>>

(***************************************************************************)
(* Node::condenseTree, and back in Leaf::deleteData the nodes that were    *)
(* cut off, the last one cut first.                                        *)
(***************************************************************************)
Underfull(n) == Len(n.kids) < MinimumLoad(n.level)

CondenseTree ==
  /\ Step("condenseTree")
  /\ LET f == work[1]
         n == nodes[f.page]
         parent == Last(f.path)
         p == nodes[parent]
     IN  /\ f.path # <<>>
         /\ nodes' = [nodes EXCEPT ![parent] =
              IF Underfull(n) THEN DeleteEntry(p, PositionOf(p.kids, f.page), m_currentTime)
                              ELSE Adjusted(p, f.page, n.mbr)]
         /\ Become(<<CondenseFrame(parent, Front(f.path),
                       IF Underfull(n) THEN Append(f.toReinsert, f.page) ELSE f.toReinsert)>>)
  /\ UNCHANGED m_stats

\* Mutant of Disposals: only the node that was cut off last.
LastDisposal(toReinsert) ==
  IF toReinsert = <<>> THEN <<>> ELSE <<[fn |-> "deleteNode", page |-> Last(toReinsert)]>>

Disposals(toReinsert) ==
  [k \in DOMAIN toReinsert |-> [fn |-> "deleteNode", page |-> Reverse(toReinsert)[k]]]

AtRoot(f) == f.path = <<>>
OneChildLeft(n) == n.level # 0 /\ Len(n.kids) = 1

WithoutPage(page) == Restrict(nodes, DOMAIN nodes \ {page})

\* The counts without the old root's; the level below is set to two nodes,
\* for a deleteNode that is still to come.
Shortened(nodesInLevel, height) == [Front(nodesInLevel) EXCEPT ![height] = 2]

\* The only child moves to the root's page.
CollapseRoot ==
  /\ Step("condenseTree")
  /\ LET f == work[1]
         child == nodes[RootId].kids[1].id
         height == m_stats.m_treeHeight - 1
     IN  /\ AtRoot(f)
         /\ OneChildLeft(nodes[RootId])
         /\ nodes' = [WithoutPage(child) EXCEPT ![RootId] = nodes[child]]
         /\ m_stats' = [m_stats EXCEPT
              !.m_nodes = @ - 1,
              !.m_treeHeight = height,
              !.m_nodesInLevel = Shortened(@, height)]
         /\ Become(Disposals(f.toReinsert))

CondenseRoot ==
  /\ Step("condenseTree")
  /\ AtRoot(work[1])
  /\ ~OneChildLeft(nodes[RootId])
  /\ Become(Disposals(work[1].toReinsert))
  /\ UNCHANGED <<nodes, m_stats>>

\* deleteNode, and a reinsertion of every entry the node had.
DeleteNode ==
  /\ Step("deleteNode")
  /\ LET page == work[1].page
         n == nodes[page]
     IN  /\ nodes' = WithoutPage(page)
         /\ m_stats' = [m_stats EXCEPT
              !.m_nodes = @ - 1,
              !.m_nodesInLevel = [@ EXCEPT ![n.level + 1] = @ - 1]]
         /\ Become([k \in DOMAIN n.kids |->
              [fn |-> "insertData_impl", entry |-> n.kids[k], level |-> n.level]])

Finish ==
  /\ Step("return")
  /\ m_stats' = [m_stats EXCEPT !.m_data = @ + work[1].delta]
  /\ Become(<<>>)
  /\ UNCHANGED nodes

------------------------------------------------------------------------------
(***************************************************************************)
(* rangeQuery: the objects that a query visits, or a refusal.              *)
(***************************************************************************)
WithinHorizon(q) == q.start >= m_currentTime /\ q.end < m_currentTime + Horizon

\* containsRegionInTime and intersectsRegionInTime over the other's lifetime.
Inside(q, r)     == ContainsRegionInTime(q, Lifetime(r), r)
Intersects(q, r) == IntersectsRegionInTime(q, Lifetime(r), r) # {}

RangeQuery(q, Found(_)) ==
  IF nodes[RootId].kids = <<>> \/ ~Intersects(q, nodes[RootId].mbr)
    THEN {}
    ELSE UNION {{e.id : e \in {x \in Range(nodes[Last(p)].kids) : Found(x.mbr)}} :
                  p \in LeavesVia(LAMBDA e : Intersects(q, e.mbr))}

IntersectsWithQuery(q) == RangeQuery(q, LAMBDA r : Intersects(q, r))
ContainsWhatQuery(q)   == RangeQuery(q, LAMBDA r : Inside(q, r))

------------------------------------------------------------------------------

SoonAfter == {t \in {m_currentTime, m_currentTime + 1} : t <= MaxTime}

Call ==
  \E t \in SoonAfter : InsertData(t) \/ \E o \in DOMAIN inserted : DeleteData(o, t) \/ DeleteNothing(o, t)

Execute ==
  \/ Reinsert
  \/ Descend
  \/ Arrive
  \/ InsertFits
  \/ SplitFull
  \/ SplitRoot
  \/ SplitNode
  \/ AdjustTree
  \/ AdjustTreeAfterSplit
  \/ CondenseTree
  \/ CollapseRoot
  \/ CondenseRoot
  \/ DeleteNode
  \/ Finish

Next == Call \/ Execute

Spec == Init /\ [][Next]_vars

------------------------------------------------------------------------------

Idle == work = <<>>

Moving ==
  [low : [Dim -> Int], high : [Dim -> Int], vlow : [Dim -> Int], vhigh : [Dim -> Int],
   start : Int, end : Int]

\* The types of the pages and of the counters.
TypeOK ==
  /\ RootId \in DOMAIN nodes
  /\ \A p \in DOMAIN nodes :
       nodes[p] \in [level : Nat, mbr : Moving, kids : Seq([id : Nat, mbr : Moving])]
  /\ m_currentTime \in Nat
  /\ m_stats \in [m_nodes : Nat, m_data : Nat, m_treeHeight : Nat, m_nodesInLevel : Seq(Nat)]

\* The entries that calls under way hold in their hands, and the nodes.
EntryInHand(f) ==
  CASE f.fn \in {"insertData_impl", "chooseSubtree"} -> <<[level |-> f.level, kids |-> <<f.entry>>]>>
    [] f.fn = "insertData"  -> <<[level |-> f.node.level, kids |-> <<f.entry>>]>>
    [] f.fn = "adjustTree2" -> <<[level |-> nodes[f.page].level, kids |-> <<f.entry>>]>>
    [] f.fn = "split" -> <<f.left, f.right>>
    [] OTHER -> <<>>

\* A node being split is on its page as it was, too.
BeingSplit == IF Running("split") THEN {work[1].page} ELSE {}

\* How often an entry with an identifier occurs in nodes of a level or in hand.
Occurrences(level, id) ==
  LET count(n) == IF n.level = level THEN Cardinality({k \in DOMAIN n.kids : n.kids[k].id = id}) ELSE 0
      inHand(k) == LET held == EntryInHand(work[k])
                   IN  MapThenSumSet(LAMBDA j : count(held[j]), DOMAIN held)
  IN  MapThenSumSet(LAMBDA p : count(nodes[p]), DOMAIN nodes \ BeingSplit)
        + MapThenSumSet(inHand, DOMAIN work)

(***************************************************************************)
(* What the TPR-tree promises of insertData and deleteData is what every   *)
(* index does, an object being known by its identifier: whatever splits,   *)
(* condensations and the passing of time did to the boxes, an object that  *)
(* was inserted is somewhere, once, and deleteData finds it.               *)
(***************************************************************************)
Contract == INSTANCE SpatialIndex WITH
              MaxCopies <- 1,
              held <- [o \in Object |-> Occurrences(0, o)]

ImplementsSpatialIndex == Contract!Spec

(***************************************************************************)
(* No page is orphaned and none is shared, at every step of every call,    *)
(* and all are of their type.                                              *)
(***************************************************************************)
ToBeDeleted ==
  UNION {CASE work[k].fn = "condenseTree" -> Range(work[k].toReinsert)
           [] work[k].fn = "deleteNode" -> {work[k].page}
           [] OTHER -> {} : k \in DOMAIN work}

EveryPageHasOneParent ==
  \A p \in DOMAIN nodes :
    Occurrences(nodes[p].level + 1, p) = IF p = RootId \/ p \in ToBeDeleted THEN 0 ELSE 1

TreeWellFormed == TypeOK /\ EveryPageHasOneParent

(***************************************************************************)
(* Boxes are tight when they are written and loosen after; the boxes of a  *)
(* node and of its parent were mostly written at different times.  Still,  *)
(* between calls, an entry of an index node contains every object below it *)
(* from the current time on, for ever: at this moment, and with velocities *)
(* that bound the objects'.                                                *)
(***************************************************************************)
EntriesUnder(e, level) ==
  LET at[k \in 0 .. level] ==
        IF k = 0 THEN {e} ELSE UNION {Range(nodes[x.id].kids) : x \in at[k - 1]}
  IN  at[level]

BoxesBoundTheFuture ==
  Idle =>
    \A p \in DOMAIN nodes : nodes[p].level > 0 =>
      \A e \in Range(nodes[p].kids) : \A x \in EntriesUnder(e, nodes[p].level) :
        Bounds(e.mbr, x.mbr, m_currentTime)

(***************************************************************************)
(* isIndexValid answers true after any sequence of calls: every box, taken *)
(* back to the time it was written at, is that of its entries and what the *)
(* parent says, and the counters agree with a walk of the tree.            *)
(***************************************************************************)
Walk == UNION Range(Paths(LAMBDA e : TRUE))

ParentMBR(p) ==
  IF Len(p) = 1
    THEN nodes[RootId].mbr
    ELSE LET siblings == nodes[p[Len(p) - 1]].kids IN siblings[PositionOf(siblings, Last(p))].mbr

IsIndexValid ==
  /\ nodes[RootId].level = m_stats.m_treeHeight - 1
  /\ \A p \in Walk :
       LET n == nodes[Last(p)] IN
         /\ n.mbr = ParentMBR(p)
         /\ n.mbr = NodeBox(n.kids, n.mbr.start)
  /\ \A l \in 1 .. m_stats.m_treeHeight :
       m_stats.m_nodesInLevel[l] = Cardinality({p \in Walk : nodes[Last(p)].level = l - 1})
  /\ m_stats.m_nodes =
       MapThenSumSet(LAMBDA l : m_stats.m_nodesInLevel[l], 1 .. m_stats.m_treeHeight)

IndexIsValid == Idle => IsIndexValid

(***************************************************************************)
(* intersectsWithQuery finds every object that intersects the query for    *)
(* longer than an instant, and none that never does: neither the boxes     *)
(* that it prunes by nor the interval arithmetic of intersectsRegionInTime *)
(* lose one.  Sides pass each other at moments that Scale counts.          *)
(***************************************************************************)
MeetsAt(q, r) == {t \in Moment(q.start) .. Moment(q.end) : IntersectsRegionAtTime(q, t, r)}

Stored == UNION {Range(nodes[p].kids) : p \in {x \in DOMAIN nodes : nodes[x].level = 0}}

IntersectionQueriesExact ==
  Idle => \A q \in Query : WithinHorizon(q) =>
            LET found == IntersectsWithQuery(q) IN
              \A e \in Stored :
                /\ Cardinality(MeetsAt(q, e.mbr)) > 1 => e.id \in found
                /\ e.id \in found => MeetsAt(q, e.mbr) # {}

(***************************************************************************)
(* docs/source/overview.rst:161 calls it a containment query: it should    *)
(* find the objects that stay inside the query all its lifetime.           *)
(***************************************************************************)
StaysInside(q, r) ==
  \A t \in Moment(q.start) .. Moment(q.end) - 1 : ContainsRegionAtTime(q, t, r)

ContainmentQueriesExact ==
  Idle => \A q \in Query : WithinHorizon(q) =>
            ContainsWhatQuery(q) = {e.id : e \in {x \in Stored : StaysInside(q, x.mbr)}}

=============================================================================
