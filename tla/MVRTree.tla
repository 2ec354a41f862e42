------------------------------ MODULE MVRTree ------------------------------
(***************************************************************************)
(* The multi-version R-tree: an index that keeps its past.  A deletion     *)
(* only ends an entry; a node that is full, or has too few entries alive,  *)
(* is left to the past and its live entries go to new nodes.  insertData   *)
(* and deleteData with everything they call, as in RTree: work is the call *)
(* stack, its running frame first, and an action is the body of one        *)
(* function or one of its branches.  A node in a frame is the in-memory    *)
(* copy that a function works on, which may be ahead of its page.          *)
(***************************************************************************)
EXTENDS MVRTreeNode
LOCAL INSTANCE TLC
LOCAL INSTANCE FiniteSetsExt
LOCAL INSTANCE Functions
LOCAL INSTANCE SequencesExt

CONSTANTS
  Script,     \* bound: what a client does, each time: calls [op, id, mbr, at] in order,
              \* and then how many deletions of any object
  Query       \* the regions that a client asks about

VARIABLES
  nodes,          \* the pages: page -> [level, mbr, start, end, kids]; none is ever deleted
  m_roots,        \* the roots, each with the time it was one
  m_currentTime,
  m_stats,        \* the counters that the header keeps
  work,           \* the call stack
  lived,          \* what the client did: the objects [id, mbr, start, end]
  todo,           \* the rest of its script
  deletes

client == <<lived, todo, deletes>>
vars == <<nodes, m_roots, m_currentTime, m_stats, work, client>>

NewPage == Cardinality(DOMAIN nodes)

PositionOf(kids, id) == SelectInSeq(kids, LAMBDA e : e.id = id)

Root(page, start, end) == [id |-> page, start |-> start, end |-> end]

CurrentRoot == Last(m_roots).id

NewLeafRoot(start) == [NodeOf(0, <<>>) EXCEPT !.start = start, !.end = Infinity]

Init ==
  /\ nodes = (0 :> NewLeafRoot(0))
  /\ m_roots = <<Root(0, 0, Infinity)>>
  /\ m_currentTime = 0
  /\ m_stats = [u32Nodes |-> 1, u64Data |-> 0, u64TotalData |-> 0, u32DeadIndexNodes |-> 0,
                u32DeadLeafNodes |-> 0, treeHeight |-> <<1>>, nodesInLevel |-> <<1>>]
  /\ work = <<>>
  /\ lived = {}
  /\ \E s \in Script : todo = s.calls /\ deletes = s.deletes

------------------------------------------------------------------------------
(***************************************************************************)
(* The call stack.  A pathBuffer is a sequence of pages, its top last.     *)
(***************************************************************************)
Running(fn) == work # <<>> /\ work[1].fn = fn

Become(frames) == work' = frames \o Tail(work)

\* A call under way changes neither the time nor anything of the client's.
Step(fn) == Running(fn) /\ UNCHANGED <<m_currentTime, client>>

InsertImpl(entry, level) == [fn |-> "insertData_impl", entry |-> entry, level |-> level]

\* insertData of one or two entries; unstored tells whether the caller
\* writes the node if insertData does not.
InsertFrame(page, node, entries, path, unstored) ==
  [fn |-> "insertData", page |-> page, node |-> node, entries |-> entries, path |-> path,
   unstored |-> unstored]

DeleteFrame(page, node, id, path, force) ==
  [fn |-> "deleteData", page |-> page, node |-> node, id |-> id, path |-> path, force |-> force]

\* adjustTree on the parent for one or two of its children, if there is one.
AdjustParent(path, children) ==
  IF path = <<>>
    THEN <<>>
    ELSE <<[fn |-> "adjustTree", page |-> Last(path), children |-> children, path |-> Front(path)]>>

WriteIf(unstored, page, node) ==
  IF unstored THEN <<[fn |-> "writeNode", page |-> page, node |-> node]>> ELSE <<>>

Return(change) == [fn |-> "return", change |-> change]

------------------------------------------------------------------------------
(***************************************************************************)
(* insertData: an object that starts before the tree's current time is     *)
(* refused, any other moves the current time to its start.                 *)
(***************************************************************************)
Object(c) == [id |-> c.id, mbr |-> c.mbr, start |-> c.at, end |-> Infinity]

InsertData ==
  /\ work = <<>>
  /\ todo # <<>>
  /\ todo[1].op = "insert"
  /\ todo[1].at >= m_currentTime
  /\ LET o == Object(todo[1]) IN
       /\ work' = <<InsertImpl(o, 0), Return(1)>>
       /\ lived' = lived \cup {o}
       /\ m_currentTime' = o.start
  /\ todo' = Tail(todo)
  /\ UNCHANGED <<nodes, m_roots, m_stats, deletes>>

InsertDataImpl ==
  /\ Step("insertData_impl")
  /\ Become(<<[fn |-> "chooseSubtree", page |-> CurrentRoot, entry |-> work[1].entry,
               level |-> work[1].level, path |-> <<>>]>>)
  /\ UNCHANGED <<nodes, m_roots, m_stats>>

Descend ==
  /\ Step("chooseSubtree")
  /\ LET f == work[1]
         n == nodes[f.page]
     IN  /\ n.level \notin {0, f.level}
         /\ \E child \in ChosenKids(n, f.entry) :
              Become(<<[f EXCEPT !.page = child, !.path = Append(@, f.page)]>>)
  /\ UNCHANGED <<nodes, m_roots, m_stats>>

Arrive ==
  /\ Step("chooseSubtree")
  /\ LET f == work[1] IN
       /\ nodes[f.page].level \in {0, f.level}
       /\ Become(<<InsertFrame(f.page, nodes[f.page], <<f.entry>>, f.path, FALSE)>>)
  /\ UNCHANGED <<nodes, m_roots, m_stats>>

Fits(f) == Len(f.entries) = 1 /\ Len(f.node.kids) < Capacity(f.node.level)

InsertFits ==
  /\ Step("insertData")
  /\ LET f == work[1]
         grown == InsertEntry(f.node, f.entries[1])
     IN  /\ Fits(f)
         /\ nodes' = [nodes EXCEPT ![f.page] = grown]
         /\ Become(IF ContainsRegion(f.node.mbr, f.entries[1].mbr)
                     THEN <<>>
                     ELSE AdjustParent(f.path, <<AsEntry(f.page, grown)>>))
  /\ UNCHANGED <<m_roots, m_stats>>

(***************************************************************************)
(* A node without room dies at the start of the new entries, and they go   *)
(* to a copy of what is alive in it; or to two, if that is too much.       *)
(***************************************************************************)
CopyVersion ==
  /\ Step("insertData")
  /\ LET f == work[1]
         t == f.entries[1].start
     IN  /\ ~Fits(f)
         /\ Become(<<[fn |-> "copied", page |-> f.page, path |-> f.path, unstored |-> f.unstored,
                      old |-> [f.node EXCEPT !.end = t],
                      copy |-> VersionCopy(f.node, t), entries |-> f.entries]>>)
  /\ UNCHANGED <<nodes, m_roots, m_stats>>

Overflows(f) == StrongOverflow(f.copy.level, Len(f.copy.kids) + Len(f.entries))

SplitCopy ==
  /\ Step("copied")
  /\ LET f == work[1] IN
       /\ Overflows(f)
       /\ \E g \in SplitCopies(f.copy.level, f.copy.kids \o f.entries) :
            Become(<<[fn |-> "split", page |-> f.page, path |-> f.path, unstored |-> f.unstored,
                      old |-> f.old, left |-> g[1], right |-> g[2]]>>)
  /\ UNCHANGED <<nodes, m_roots, m_stats>>

AtRoot(f) == f.path = <<>>

\* A version that starts and ends at once is not kept.
Instant(n) == n.start = n.end

\* One more node of a level that may be new.
OneMoreNode(nodesInLevel, level) ==
  IF level < Len(nodesInLevel) THEN [nodesInLevel EXCEPT ![level + 1] = @ + 1]
                               ELSE Append(nodesInLevel, 1)

WithDead(stats, level) ==
  IF level > 0 THEN [stats EXCEPT !.u32DeadIndexNodes = @ + 1]
               ELSE [stats EXCEPT !.u32DeadLeafNodes = @ + 1]

\* The root is n from now on, the old one stays for its time.
NextRoot(old, page, n) ==
  Append([m_roots EXCEPT ![Len(m_roots)].start = old.start, ![Len(m_roots)].end = old.end],
         Root(page, n.start, n.end))

\* Mutant of RootOver: the copies keep no time of their own.
RootOverOld(left, right, old) ==
  [NodeOf(left.level + 1, <<AsEntry(NewPage, left), AsEntry(NewPage + 1, right)>>)
     EXCEPT !.start = old.start]

RootOver(left, right, old) ==
  NodeOf(left.level + 1, <<AsEntry(NewPage, left), AsEntry(NewPage + 1, right)>>)

SplitRootInPlace ==
  /\ Step("split")
  /\ LET f == work[1]
         ptrR == RootOver(f.left, f.right, f.old)
     IN  /\ AtRoot(f)
         /\ Instant(f.old)
         /\ nodes' = [nodes EXCEPT ![f.page] = ptrR] @@ (NewPage :> f.left) @@ (NewPage + 1 :> f.right)
         /\ m_stats' = [m_stats EXCEPT
              !.u32Nodes = @ + 2,
              !.treeHeight[Len(m_stats.treeHeight)] = ptrR.level + 1,
              !.nodesInLevel = OneMoreNode([@ EXCEPT ![ptrR.level] = @ + 1], ptrR.level)]
         /\ Become(<<>>)
  /\ UNCHANGED m_roots

SplitRoot ==
  /\ Step("split")
  /\ LET f == work[1]
         ptrR == RootOver(f.left, f.right, f.old)
     IN  /\ AtRoot(f)
         /\ ~Instant(f.old)
         /\ nodes' = [nodes EXCEPT ![f.page] = f.old] @@ (NewPage :> f.left) @@ (NewPage + 1 :> f.right)
                       @@ (NewPage + 2 :> ptrR)
         /\ m_roots' = NextRoot(f.old, NewPage + 2, ptrR)
         /\ m_stats' = WithDead([m_stats EXCEPT
              !.u32Nodes = @ + 3,
              !.treeHeight = Append(@, ptrR.level + 1),
              !.nodesInLevel = OneMoreNode([@ EXCEPT ![ptrR.level] = @ + 2], ptrR.level)], f.old.level)
         /\ Become(<<>>)

SplitNode ==
  /\ Step("split")
  /\ LET f == work[1] IN
       /\ ~AtRoot(f)
       /\ nodes' = nodes @@ (NewPage :> f.left) @@ (NewPage + 1 :> f.right)
       /\ m_stats' = WithDead([m_stats EXCEPT
            !.u32Nodes = @ + 2,
            !.nodesInLevel[f.old.level + 1] = @ + 2], f.old.level)
       /\ Become(<<[fn |-> "insertTwo", page |-> Last(f.path), child |-> f.page, old |-> f.old,
                    entries |-> <<AsEntry(NewPage, f.left), AsEntry(NewPage + 1, f.right)>>,
                    path |-> Front(f.path)]>> \o WriteIf(f.unstored, f.page, f.old))
  /\ UNCHANGED m_roots

Filled(f) == InsertEntry(f.copy, f.entries[1])

\* The copy with the new entries: two only if they do not overflow it.
FilledCopy(f) ==
  IF Len(f.entries) = 1 THEN Filled(f) ELSE InsertEntry(Filled(f), f.entries[2])

CopyRootInPlace ==
  /\ Step("copied")
  /\ LET f == work[1] IN
       /\ ~Overflows(f)
       /\ AtRoot(f)
       /\ Instant(f.old)
       /\ nodes' = [nodes EXCEPT ![f.page] = FilledCopy(f)]
       /\ Become(<<>>)
  /\ UNCHANGED <<m_roots, m_stats>>

CopyRoot ==
  /\ Step("copied")
  /\ LET f == work[1]
         n == FilledCopy(f)
     IN  /\ ~Overflows(f)
         /\ AtRoot(f)
         /\ ~Instant(f.old)
         /\ nodes' = [nodes EXCEPT ![f.page] = f.old] @@ (NewPage :> n)
         /\ m_roots' = NextRoot(f.old, NewPage, n)
         /\ m_stats' = WithDead([m_stats EXCEPT
              !.u32Nodes = @ + 1,
              !.treeHeight = Append(@, n.level + 1),
              !.nodesInLevel[n.level + 1] = @ + 1], n.level)
         /\ Become(<<>>)

\* A parent with the entry of a child that died: its region and its end, not
\* its start, from the child.
WithDeadChild(p, child, old) ==
  LET k == PositionOf(p.kids, child) IN [p EXCEPT !.kids[k].mbr = old.mbr, !.kids[k].end = old.end]

\* The old version is not written: that its parent's entry ends is enough.
CopyNode ==
  /\ Step("copied")
  /\ LET f == work[1]
         n == FilledCopy(f)
         parent == WithDeadChild(nodes[Last(f.path)], f.page, f.old)
     IN  /\ ~Overflows(f)
         /\ ~AtRoot(f)
         /\ nodes' = nodes @@ (NewPage :> n)
         /\ m_stats' = WithDead([m_stats EXCEPT
              !.u32Nodes = @ + 1,
              !.nodesInLevel[n.level + 1] = @ + 1], n.level)
         /\ Become(<<InsertFrame(Last(f.path), parent, <<AsEntry(NewPage, n)>>, Front(f.path), FALSE)>>
                     \o WriteIf(f.unstored, f.page, f.old))
  /\ UNCHANGED m_roots

\* insertData of two nodes that take the place of a child.
InsertTwo ==
  /\ Step("insertTwo")
  /\ LET f == work[1]
         p == nodes[f.page]
         parent == WithDeadChild(p, f.child, f.old)
         grown == InsertEntry(InsertEntry(parent, f.entries[1]), f.entries[2])
         contained == \A k \in {1, 2} : ContainsRegion(p.mbr, f.entries[k].mbr)
     IN  \/ /\ Len(p.kids) < Capacity(p.level) - 1
            /\ nodes' = [nodes EXCEPT ![f.page] = grown]
            /\ Become(IF contained THEN <<>> ELSE AdjustParent(f.path, <<AsEntry(f.page, grown)>>))
         \/ /\ Len(p.kids) >= Capacity(p.level) - 1
            /\ Become(<<InsertFrame(f.page, parent, f.entries, f.path, TRUE)>>)
            /\ UNCHANGED nodes
  /\ UNCHANGED <<m_roots, m_stats>>

WriteNode ==
  /\ Step("writeNode")
  /\ nodes' = [nodes EXCEPT ![work[1].page] = work[1].node]
  /\ Become(<<>>)
  /\ UNCHANGED <<m_roots, m_stats>>

(***************************************************************************)
(* Index::adjustTree: entries get their child's region, never its times.   *)
(***************************************************************************)
WithRegions(p, children) ==
  LET at(e) == PositionOf([c \in DOMAIN children |-> [id |-> children[c].id]], e.id)
  IN  [p EXCEPT !.kids = [k \in DOMAIN p.kids |->
        IF at(p.kids[k]) = 0 THEN p.kids[k] ELSE [p.kids[k] EXCEPT !.mbr = children[at(p.kids[k])].mbr]]]

\* Mutant of MustRecompute: a child that shrank changes nothing.
MustRecomputeIfGrown(p, children) == ~ContainsRegion(p.mbr, children[1].mbr)

\* The first child is the one that may have grown, the second one shrank.
MustRecompute(p, children) ==
  \/ ~ContainsRegion(p.mbr, children[1].mbr)
  \/ TightMBRs /\ \E c \in DOMAIN children :
                    TouchesRegion(p.mbr, p.kids[PositionOf(p.kids, children[c].id)].mbr)

AdjustTree ==
  /\ Step("adjustTree")
  /\ LET f == work[1]
         p == nodes[f.page]
         recompute == MustRecompute(p, f.children)
         updated == WithRegions(p, f.children)
         adjusted == IF recompute THEN Recomputed(updated) ELSE updated
     IN  /\ nodes' = [nodes EXCEPT ![f.page] = adjusted]
         /\ Become(IF recompute THEN AdjustParent(f.path, <<AsEntry(f.page, adjusted)>>) ELSE <<>>)
  /\ UNCHANGED <<m_roots, m_stats>>

------------------------------------------------------------------------------
(***************************************************************************)
(* deleteData: the current time becomes that of the deletion, whether or   *)
(* not the object is found.                                                *)
(***************************************************************************)
\* The paths of every length from a page through the entries that satisfy Enter.
PathsFrom(page, Enter(_)) ==
  LET path[k \in 0 .. nodes[page].level] ==
        IF k = 0
          THEN {<<page>>}
          ELSE UNION {{Append(p, e.id) : e \in {x \in Range(nodes[Last(p)].kids) : Enter(x)}} :
                        p \in path[k - 1]}
  IN  path

\* Depth-first search reaches path p before path q.
FoundBefore(p, q) ==
  \E k \in 2 .. Len(p) :
    /\ \A j \in 1 .. k - 1 : p[j] = q[j]
    /\ PositionOf(nodes[p[k - 1]].kids, p[k]) < PositionOf(nodes[q[k - 1]].kids, q[k])

\* findLeaf enters what is alive and contains the region; the leaf takes any
\* entry of that identifier and region, a dead one, too.
LeafPaths(id, mbr) ==
  {p \in PathsFrom(CurrentRoot, LAMBDA e : Alive(e) /\ ContainsRegion(e.mbr, mbr))
           [nodes[CurrentRoot].level] :
     \E e \in Range(nodes[Last(p)].kids) : e.id = id /\ e.mbr = mbr}

FindLeaf(paths) == CHOOSE p \in paths : \A q \in paths \ {p} : FoundBefore(p, q)

DeleteImpl(id, mbr, t) ==
  /\ m_currentTime' = t
  /\ LET paths == LeafPaths(id, mbr)
         path == FindLeaf(paths)
     IN  work' = IF paths = {}
                   THEN <<>>
                   ELSE <<DeleteFrame(Last(path), nodes[Last(path)], id, Front(path), FALSE),
                          Return(-1)>>
  /\ lived' = {IF o.id = id /\ o.mbr = mbr /\ Alive(o) THEN [o EXCEPT !.end = t] ELSE o : o \in lived}

DeleteData ==
  /\ work = <<>>
  /\ todo # <<>>
  /\ todo[1].op = "delete"
  /\ DeleteImpl(todo[1].id, todo[1].mbr, todo[1].at)
  /\ todo' = Tail(todo)
  /\ UNCHANGED <<nodes, m_roots, m_stats, deletes>>

DeleteAny ==
  /\ work = <<>>
  /\ todo = <<>>
  /\ deletes > 0
  /\ \E o \in {x \in lived : Alive(x)} : DeleteImpl(o.id, o.mbr, m_currentTime + 1)
  /\ deletes' = deletes - 1
  /\ UNCHANGED <<nodes, m_roots, m_stats, todo>>

\* The last entry with the identifier ends, or goes if it started just now; the
\* region is recomputed for that, or if the caller insists.
LastWith(kids, id) == Max({k \in DOMAIN kids : kids[k].id = id})

Deleted(n, id, force, t) ==
  LET k == LastWith(n.kids, id)
      ended == [node |-> [n EXCEPT !.kids[k].end = t], adjusted |-> FALSE]
      d == IF n.level = 0 /\ n.kids[k].start = t THEN DeleteEntry(n, k) ELSE ended
  IN  IF force /\ ~d.adjusted THEN [node |-> Recomputed(d.node), adjusted |-> TRUE] ELSE d

Delete ==
  /\ Step("deleteData")
  /\ LET f == work[1]
         d == Deleted(f.node, f.id, f.force, m_currentTime)
     IN  Become(<<[fn |-> "deleted", page |-> f.page, path |-> f.path, node |-> d.node,
                   adjust |-> d.adjusted, was |-> f.node.mbr,
                   at |-> LastWith(f.node.kids, f.id),
                   alive |-> Len(LiveKids(f.node.kids)) - 1]>>)
  /\ UNCHANGED <<nodes, m_roots, m_stats>>

\* Mutant of Underflows: the dead entries count, too.
UnderflowsWithDead(f) == WeakUnderflow(f.node.level, Len(f.node.kids)) /\ ~AtRoot(f)

Underflows(f) == WeakUnderflow(f.node.level, f.alive) /\ ~AtRoot(f)

\* Mutant of Siblings: a dead one may lend, too.
SiblingsOfAllTimes(f) ==
  LET p == nodes[Last(f.path)] IN
    IF f.node.level > 0 \/ Len(f.node.kids) >= Capacity(0)
      THEN {}
      ELSE {s \in DOMAIN p.kids : p.kids[s].id # f.page /\ IntersectsRegion(p.kids[s].mbr, f.node.mbr)}

\* The siblings a leaf with room could borrow from, and what.
Siblings(f) ==
  LET p == nodes[Last(f.path)] IN
    IF f.node.level > 0 \/ Len(f.node.kids) >= Capacity(0)
      THEN {}
      ELSE {s \in DOMAIN p.kids : /\ p.kids[s].id # f.page
                                  /\ Alive(p.kids[s])
                                  /\ IntersectsRegion(p.kids[s].mbr, f.node.mbr)}

Lendable(f, s) ==
  LET p == nodes[Last(f.path)]
  IN  Sdel(f.node.mbr, p.kids[PositionOf(p.kids, f.page)].start,
           nodes[p.kids[s].id], p.kids[s].start)

Lenders(f) == {s \in Siblings(f) : Lendable(f, s) # {}}

\* The first of them lends.
Borrow ==
  /\ Step("deleted")
  /\ LET f == work[1]
         lenders == Lenders(f)
         s == Min(lenders)
         page == nodes[Last(f.path)].kids[s].id
         sibling == nodes[page]
     IN  /\ Underflows(f)
         /\ lenders # {}
         /\ \E k \in LeastEnlarging(f.node.mbr, sibling, Lendable(f, s)) :
              LET e == sibling.kids[k]
                  me == InsertEntry(f.node, e)
                  it == DeleteEntry(sibling, k).node
                  mine == IF f.adjust \/ ~ContainsRegion(f.node.mbr, e.mbr)
                            THEN <<AsEntry(f.page, me)>> ELSE <<>>
                  its == IF TouchesRegion(sibling.mbr, e.mbr) THEN <<AsEntry(page, it)>> ELSE <<>>
              IN  /\ nodes' = [nodes EXCEPT ![f.page] = me, ![page] = it]
                  /\ Become(IF mine \o its = <<>> THEN <<>> ELSE AdjustParent(f.path, mine \o its))
  /\ UNCHANGED <<m_roots, m_stats>>

(***************************************************************************)
(* No sibling lends: the node dies, its parent forgets it the same way,    *)
(* and then what is alive in it is inserted again.                         *)
(***************************************************************************)
\* Where the parent is thought to keep the node: where the search for a
\* sibling found it, or else where the deleted entry was, if that is in range
\* and not right it is searched for.
PositionInParent(f, p) ==
  IF f.node.level > 0 /\ f.at > Len(p.kids) THEN f.at ELSE PositionOf(p.kids, f.page)

Kill ==
  /\ Step("deleted")
  /\ LET f == work[1]
         parent == Last(f.path)
         p == nodes[parent]
         dead == [f.node EXCEPT !.end = m_currentTime]
         k == PositionInParent(f, p)
     IN  /\ Underflows(f)
         /\ Lenders(f) = {}
         /\ f.adjust => k \in DOMAIN p.kids
         /\ nodes' = [nodes EXCEPT ![f.page] = dead]
         /\ m_stats' = WithDead(m_stats, dead.level)
         /\ Become(<<DeleteFrame(parent, IF f.adjust THEN [p EXCEPT !.kids[k].mbr = dead.mbr] ELSE p,
                                 f.page, Front(f.path), f.adjust /\ TouchesRegion(p.mbr, f.was)),
                     [fn |-> "reinsert", node |-> dead, bNewRoot |-> FALSE]>>)
  /\ UNCHANGED m_roots

\* The data alive below a page, the nodes last pushed first.
DataUnder ==
  LET data[page \in DOMAIN nodes] ==
        LET live == LiveKids(nodes[page].kids)
        IN  IF nodes[page].level = 0
              THEN live
              ELSE FlattenSeq([k \in DOMAIN live |-> data[Reverse(live)[k].id]])
  IN  data

InsertAgain(entries, level) ==
  [k \in DOMAIN entries |-> InsertImpl([entries[k] EXCEPT !.start = m_currentTime], level)]

Reinsert ==
  /\ Step("reinsert")
  /\ LET f == work[1]
         live == LiveKids(f.node.kids)
     IN  Become(IF f.bNewRoot /\ f.node.level > 0
                  THEN InsertAgain(FlattenSeq([k \in DOMAIN live |-> DataUnder[live[k].id]]), 0)
                  ELSE InsertAgain(live, f.node.level))
  /\ UNCHANGED <<nodes, m_roots, m_stats>>

\* The last of the root's entries died.
RootDies(f) == AtRoot(f) /\ f.alive = 0 /\ f.node.kids # <<>>

\* deleteData returns TRUE to who waits for it to reinsert.
ReturnNewRoot ==
  work' = LET rest == Tail(work) IN
            IF rest[1].fn = "reinsert" THEN [rest EXCEPT ![1].bNewRoot = TRUE] ELSE rest

\* Mutant of WithoutRoot: a level that is empty is kept.
WithoutRootOnly(nodesInLevel, level) == OneMoreNode([nodesInLevel EXCEPT ![level + 1] = @ - 1], 0)

\* One node less of the level of the root, one more of the leaves.
WithoutRoot(nodesInLevel, level) ==
  OneMoreNode(IF nodesInLevel[level + 1] = 1 THEN Front(nodesInLevel)
                                             ELSE [nodesInLevel EXCEPT ![level + 1] = @ - 1], 0)

NewRootInPlace ==
  /\ Step("deleted")
  /\ LET f == work[1]
         dead == [f.node EXCEPT !.end = m_currentTime]
     IN  /\ RootDies(f)
         /\ Instant(dead)
         /\ nodes' = [nodes EXCEPT ![f.page] = NewLeafRoot(m_currentTime)]
         /\ m_stats' = [m_stats EXCEPT
              !.treeHeight[Len(m_stats.treeHeight)] = 1,
              !.nodesInLevel = WithoutRoot(@, dead.level)]
         /\ ReturnNewRoot
  /\ UNCHANGED m_roots

NewRoot ==
  /\ Step("deleted")
  /\ LET f == work[1]
         dead == [f.node EXCEPT !.end = m_currentTime]
         root == NewLeafRoot(m_currentTime)
     IN  /\ RootDies(f)
         /\ ~Instant(dead)
         /\ nodes' = [nodes EXCEPT ![f.page] = dead] @@ (NewPage :> root)
         /\ m_roots' = NextRoot(dead, NewPage, root)
         /\ m_stats' = WithDead([m_stats EXCEPT
              !.u32Nodes = @ + 1,
              !.treeHeight = Append(@, 1),
              !.nodesInLevel[1] = @ + 1], dead.level)
         /\ ReturnNewRoot

KeepNode ==
  /\ Step("deleted")
  /\ LET f == work[1] IN
       /\ ~Underflows(f)
       /\ ~RootDies(f)
       /\ nodes' = [nodes EXCEPT ![f.page] = f.node]
       /\ Become(IF f.adjust THEN AdjustParent(f.path, <<AsEntry(f.page, f.node)>>) ELSE <<>>)
  /\ UNCHANGED <<m_roots, m_stats>>

Finish ==
  /\ Step("return")
  /\ LET change == work[1].change IN
       m_stats' = [m_stats EXCEPT !.u64Data = @ + change, !.u64TotalData = @ + Max({change, 0})]
  /\ Become(<<>>)
  /\ UNCHANGED <<nodes, m_roots>>

------------------------------------------------------------------------------
(***************************************************************************)
(* rangeQuery, for a region and an interval of time that is open on the    *)
(* right: the objects that a query visits.                                 *)
(***************************************************************************)
IntersectsInterval(e, from, to) == e.start < to /\ e.end > from

FindRootIdentifiers(from, to) == {m_roots[k].id : k \in {k \in DOMAIN m_roots : IntersectsInterval(m_roots[k], from, to)}}

VisitedLeaves(from, to, region) ==
  UNION {LET meets == nodes[root].kids # <<>> /\ IntersectsRegion(region, nodes[root].mbr)
             enter(e) == IntersectsInterval(e, from, to) /\ IntersectsRegion(region, e.mbr)
         IN  IF meets THEN {Last(p) : p \in PathsFrom(root, enter)[nodes[root].level]} ELSE {} :
           root \in FindRootIdentifiers(from, to)}

RangeQuery(from, to, region, Found(_)) ==
  UNION {{e.id : e \in {x \in Range(nodes[leaf].kids) : IntersectsInterval(x, from, to) /\ Found(x.mbr)}} :
           leaf \in VisitedLeaves(from, to, region)}

IntersectsWithQuery(from, to, region) ==
  RangeQuery(from, to, region, LAMBDA mbr : IntersectsRegion(region, mbr))

ContainsWhatQuery(from, to, region) ==
  RangeQuery(from, to, region, LAMBDA mbr : ContainsRegion(region, mbr))

------------------------------------------------------------------------------

Call == InsertData \/ DeleteData \/ DeleteAny

Execute ==
  \/ InsertDataImpl
  \/ Descend
  \/ Arrive
  \/ InsertFits
  \/ CopyVersion
  \/ SplitCopy
  \/ SplitRootInPlace
  \/ SplitRoot
  \/ SplitNode
  \/ CopyRootInPlace
  \/ CopyRoot
  \/ CopyNode
  \/ InsertTwo
  \/ WriteNode
  \/ AdjustTree
  \/ Delete
  \/ Borrow
  \/ Kill
  \/ Reinsert
  \/ NewRootInPlace
  \/ NewRoot
  \/ KeepNode
  \/ Finish

Next == Call \/ Execute

Spec == Init /\ [][Next]_vars

------------------------------------------------------------------------------

Idle == work = <<>>

Now == m_currentTime

Box2 == [low : [Dim -> Int], high : [Dim -> Int]]

Entry == [id : Nat, mbr : Box2, start : Int, end : Int]

\* The types of the pages, of the roots and of the counters.
TypeOK ==
  /\ \A p \in DOMAIN nodes :
       nodes[p] \in [level : Nat, mbr : Box2, start : Int, end : Int, kids : Seq(Entry)]
  /\ m_roots \in Seq([id : DOMAIN nodes, start : Nat, end : Nat])
  /\ m_currentTime \in Nat
  /\ m_stats \in [u32Nodes : Nat, u64Data : Nat, u64TotalData : Nat, u32DeadIndexNodes : Nat,
                  u32DeadLeafNodes : Nat, treeHeight : Seq(Nat), nodesInLevel : Seq(Nat)]

(***************************************************************************)
(* What the index is for: whatever was copied, split, borrowed, killed and *)
(* reinserted since, a query about any moment up to now finds the objects  *)
(* that were alive then, all of them and no other.                         *)
(***************************************************************************)
AliveAt(t) == {o \in lived : o.start <= t /\ t < o.end}

SlicesExact ==
  Idle => \A t \in 0 .. Now : \A q \in Query :
            /\ IntersectsWithQuery(t, t + 1, q) = {o.id : o \in {x \in AliveAt(t) : IntersectsRegion(q, x.mbr)}}
            /\ ContainsWhatQuery(t, t + 1, q) = {o.id : o \in {x \in AliveAt(t) : ContainsRegion(q, x.mbr)}}

(***************************************************************************)
(* isIndexValid answers true after any sequence of calls: every node's     *)
(* region is that of its entries; on a path that is alive from its root    *)
(* on, it is the region the parent has, too; and the roots' heights are    *)
(* the ones that were noted.                                               *)
(***************************************************************************)
Below(root, Enter(_)) == UNION Range(PathsFrom(root, Enter))

RegionInParent(p) ==
  LET kids == nodes[p[Len(p) - 1]].kids IN kids[PositionOf(kids, Last(p))].mbr

IsIndexValid ==
  \A k \in DOMAIN m_roots :
    LET root == m_roots[k].id IN
      /\ nodes[root].level = m_stats.treeHeight[k] - 1
      /\ \A page \in {Last(p) : p \in Below(root, LAMBDA e : TRUE)} :
           nodes[page].mbr = NodeBox(nodes[page].kids)
      /\ nodes[root].end = Infinity =>
           \A p \in Below(root, Alive) : Len(p) > 1 => RegionInParent(p) = nodes[Last(p)].mbr

IndexIsValid == Idle => IsIndexValid

(***************************************************************************)
(* The weak version condition, without which queries about a moment read   *)
(* far too many pages: between calls every node alive, but the root, has   *)
(* as many entries alive as m_versionUnderflow asks for.                   *)
(***************************************************************************)
LivePages == {Last(p) : p \in Below(CurrentRoot, Alive)}

LiveNodesKeepEnough ==
  Idle => \A page \in LivePages \ {CurrentRoot} :
            ~WeakUnderflow(nodes[page].level, Len(LiveKids(nodes[page].kids)))

(***************************************************************************)
(* The counters agree with the pages: how many there are, on which level,  *)
(* and how many of them are dead; but when the last node under a root of   *)
(* three levels or more dies with it, the nodes below that one, which the  *)
(* code empties entry by entry, are not counted as dead.                   *)
(***************************************************************************)
TallTreeDied ==
  \E k \in 2 .. Len(m_roots) :
    m_stats.treeHeight[k - 1] >= 3 /\ m_stats.treeHeight[k] < m_stats.treeHeight[k - 1]

PagesOf(levels) == {p \in DOMAIN nodes : nodes[p].level \in levels}

DeadPages(levels) == Cardinality(PagesOf(levels) \ LivePages)

CountersAgree ==
  /\ m_stats.u32Nodes = Cardinality(DOMAIN nodes)
  /\ m_stats.nodesInLevel =
       [l \in 1 .. Max({nodes[p].level + 1 : p \in DOMAIN nodes}) |-> Cardinality(PagesOf({l - 1}))]
  /\ TallTreeDied \/ /\ m_stats.u32DeadLeafNodes = DeadPages({0})
                     /\ m_stats.u32DeadIndexNodes = DeadPages(Nat \ {0})
  /\ m_stats.u64Data = Cardinality({o \in lived : Alive(o)})
  /\ m_stats.u64TotalData = Cardinality(lived)

StatisticsAgree == Idle => CountersAgree

(***************************************************************************)
(* At every step, the roots follow one another and do not overlap, the     *)
(* last one reigns from then on, and every moment at which an object was   *)
(* alive has a root.  Other moments may have none: a leaf root whose       *)
(* entries all went at the instant they came forgets its own start.        *)
(***************************************************************************)
RootsInOrder ==
  /\ Last(m_roots).end = Infinity
  /\ \A k \in 2 .. Len(m_roots) : m_roots[k - 1].end <= m_roots[k].start

LivesHaveRoots ==
  \A o \in lived : \A t \in o.start .. Min({o.end - 1, Now}) :
    \E k \in DOMAIN m_roots : m_roots[k].start <= t /\ t < m_roots[k].end

TreeWellFormed == TypeOK /\ RootsInOrder /\ LivesHaveRoots

(***************************************************************************)
(* The assertions at mvrtree/Node.cc:487 and 567: when the root is split   *)
(* or copied at the very instant it came to be, m_roots has that instant   *)
(* as its start.                                                           *)
(***************************************************************************)
RootStartAsserted ==
  \A k \in DOMAIN work :
    LET f == work[k] IN
      f.fn \in {"copied", "split"} /\ AtRoot(f) /\ Instant(f.old) /\ ~(f.fn = "copied" /\ Overflows(f)) =>
        Last(m_roots).start = f.old.end /\ Last(m_roots).end = Infinity

(***************************************************************************)
(* The past is not rewritten: a page that was written as dead stays as it  *)
(* is, whatever happens to its siblings and parents.                       *)
(***************************************************************************)
Buried(p) == nodes[p].kids # <<>> /\ nodes[p].end < Infinity

PastIsFrozen == [][\A p \in DOMAIN nodes : Buried(p) => nodes'[p] = nodes[p]]_vars

=============================================================================
