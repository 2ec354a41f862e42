------------------------------- MODULE RTree -------------------------------
(***************************************************************************)
(* The R-tree: insertData and deleteData with everything they call, over   *)
(* pages that hold nodes.  The functions are recursive and work on         *)
(* in-memory copies of nodes that they read and write back one at a time;  *)
(* work is the call stack, its running frame first, and an action is the   *)
(* body of one function, from its entry to the calls it makes.             *)
(*                                                                         *)
(* Pages come from a storage manager, which here hands out the least page  *)
(* not in use: PageStore promises an unused one, and nothing in the tree   *)
(* depends on which.                                                       *)
(***************************************************************************)
EXTENDS RTreeNode
LOCAL INSTANCE FiniteSetsExt
LOCAL INSTANCE SequencesExt

CONSTANTS
  TightMBRs,    \* m_bTightMBRs
  Object,       \* what a client may insert or delete: records [id, mbr]
  Orders,       \* bound: the sequences of objects that a client may insert, in order
  MaxDeletes,   \* bound: how many objects it deletes,
  LateDeletes   \* bound: and only while at most so many are left to insert

Entry == [id : Nat, mbr : [low : [Dim -> Int], high : [Dim -> Int]]]

ASSUME RTreeAssumption ==
  /\ TightMBRs \in BOOLEAN
  /\ MaxDeletes \in Nat
  /\ LateDeletes \in Nat
  /\ Object \subseteq Entry
  /\ Orders \subseteq Seq(Object)

VARIABLES
  m_rootID,      \* the root's page
  nodes,         \* the pages in use: page -> [level, mbr, kids], kids a sequence of [id, mbr]
  m_stats,       \* the counters that the header keeps
  work,          \* the call stack
  overflowTable, \* the levels that the insertion in progress has reinserted from
  answer,        \* the last call: its object and what became of it
  todo,          \* what the client has yet to insert
  deletes        \* how many objects it may still delete

client == <<answer, todo, deletes>>
vars == <<m_rootID, nodes, m_stats, work, overflowTable, client>>

Node(level, kids) == [level |-> level, mbr |-> NodeBox(kids), kids |-> kids]

NewPageBeside(used) == Min((0 .. Cardinality(used)) \ used)

\* Where an index node keeps a child, or a leaf an object.
PositionOf(kids, id) == SelectInSeq(kids, LAMBDA e : e.id = id)

Init ==
  /\ m_rootID = 0
  /\ nodes = [p \in {m_rootID} |-> Node(0, <<>>)]
  /\ m_stats = [u32Nodes |-> 1, u64Data |-> 0, u32TreeHeight |-> 1, nodesInLevel |-> <<1>>]
  /\ work = <<>>
  /\ overflowTable = <<>>
  /\ answer = <<"none">>
  /\ todo \in Orders
  /\ deletes = MaxDeletes

------------------------------------------------------------------------------
(***************************************************************************)
(* The call stack.  A pathBuffer is a sequence of pages, its top last.     *)
(***************************************************************************)
Running(fn) == work # <<>> /\ work[1].fn = fn

Become(frames) == work' = frames \o Tail(work)

\* insertData_impl at a level; fresh tells whether the overflow table is new.
InsertAtLevel(entry, level, fresh) ==
  [fn |-> "insertData_impl", entry |-> entry, level |-> level, fresh |-> fresh]

ChooseFrame(page, entry, level, path) ==
  [fn |-> "chooseSubtree", page |-> page, entry |-> entry, level |-> level, path |-> path]

\* insertData on the copy node of a page; after adjustTree(n1, n2) the copy
\* may be ahead of the page, and recomputed tells whether its MBR is.
InsertFrame(page, node, entry, path, recomputed) ==
  [fn |-> "insertData", page |-> page, node |-> node, entry |-> entry,
   path |-> path, recomputed |-> recomputed]

\* adjustTree on the parent of a page that now has the given MBR, if it has one.
AdjustParent(page, mbr, path, force) ==
  IF path = <<>>
    THEN <<>>
    ELSE <<[fn |-> "adjustTree", page |-> Last(path), child |-> page, mbr |-> mbr,
            path |-> Front(path), force |-> force]>>

CondenseFrame(page, path, toReinsert) ==
  [fn |-> "condenseTree", page |-> page, path |-> path, toReinsert |-> toReinsert]

Return(delta) == [fn |-> "return", delta |-> delta]

EmptyTable(levels) == [l \in 0 .. levels - 1 |-> FALSE]

\* A call under way changes nothing of the client's, and the root stays where
\* it is: when it is split or goes, another node moves to its page.
Step(fn) == Running(fn) /\ UNCHANGED <<m_rootID, client>>

------------------------------------------------------------------------------
(***************************************************************************)
(* insertData: the table has one flag per level below the root's.          *)
(***************************************************************************)
InsertData ==
  /\ work = <<>>
  /\ todo # <<>>
  /\ work' = <<ChooseFrame(m_rootID, todo[1], 0, <<>>), Return(1)>>
  /\ overflowTable' = EmptyTable(nodes[m_rootID].level)
  /\ todo' = Tail(todo)
  /\ answer' = <<"inserted", todo[1]>>
  /\ UNCHANGED <<m_rootID, nodes, m_stats, deletes>>

\* A reinsertion after a delete gets a new table, sized by the tree's height;
\* a forced reinsertion shares that of the insertion it is part of.
Reinsert ==
  /\ Step("insertData_impl")
  /\ LET f == work[1] IN
       /\ Become(<<ChooseFrame(m_rootID, f.entry, f.level, <<>>)>>)
       /\ overflowTable' = IF f.fresh THEN EmptyTable(m_stats.u32TreeHeight) ELSE overflowTable
  /\ UNCHANGED <<nodes, m_stats>>

Descend ==
  /\ Step("chooseSubtree")
  /\ LET f == work[1]
         n == nodes[f.page]
     IN  /\ n.level \notin {0, f.level}
         /\ \E child \in ChosenChildren(n.level, n.kids, f.entry.mbr) :
              Become(<<[f EXCEPT !.page = n.kids[child].id, !.path = Append(@, f.page)]>>)
  /\ UNCHANGED <<nodes, m_stats, overflowTable>>

Arrive ==
  /\ Step("chooseSubtree")
  /\ LET f == work[1] IN
       /\ nodes[f.page].level \in {0, f.level}
       /\ Become(<<InsertFrame(f.page, nodes[f.page], f.entry, f.path, FALSE)>>)
  /\ UNCHANGED <<nodes, m_stats, overflowTable>>

(***************************************************************************)
(* Node::insertData.  The last step of adjustTree(n1, n2), to adjust the   *)
(* parent if only the recomputation calls for it, is the second half of    *)
(* the disjunction in InsertFits.                                          *)
(***************************************************************************)
Full(node) == Len(node.kids) >= Capacity(node.level)

\* The entries of a full node and the new one.  The arrays have room for
\* m_capacity + 1 entries, and the last place is the new entry's.
Overflowing(node, entry) == Append(SubSeq(node.kids, 1, Capacity(node.level)), entry)

InsertFits ==
  /\ Step("insertData")
  /\ LET f == work[1]
         grown == [f.node EXCEPT !.kids = Append(@, f.entry),
                                 !.mbr = CombinedRegion(@, f.entry.mbr)]
         b == ContainsRegion(f.node.mbr, f.entry.mbr)
     IN  /\ ~Full(f.node)
         /\ nodes' = [nodes EXCEPT ![f.page] = grown]
         /\ Become(IF ~b \/ f.recomputed THEN AdjustParent(f.page, grown.mbr, f.path, FALSE)
                                         ELSE <<>>)
  /\ UNCHANGED <<m_stats, overflowTable>>

\* overflowTable[m_level], which outside the table is whatever lies there.
FlagRead(level) == IF level \in DOMAIN overflowTable THEN {overflowTable[level]} ELSE BOOLEAN

\* Mutant of FlagRaised: the level is not marked.
FlagForgotten(level) == overflowTable

FlagRaised(level) == [overflowTable EXCEPT ![level] = TRUE]

ForcedReinsert ==
  /\ Step("insertData")
  /\ Variant = "rstar"
  /\ LET f == work[1]
         level == f.node.level
     IN  /\ Full(f.node)
         /\ f.path # <<>>
         /\ FALSE \in FlagRead(level)
         /\ overflowTable' = FlagRaised(level)
         /\ \E r \in Reinsertions(Overflowing(f.node, f.entry), f.node.mbr) :
              LET kept == Node(level, r[1]) IN
                /\ nodes' = [nodes EXCEPT ![f.page] = kept]
                /\ Become(AdjustParent(f.page, kept.mbr, f.path, TRUE)
                            \o [k \in DOMAIN r[2] |-> InsertAtLevel(r[2][k], level, FALSE)])
  /\ UNCHANGED m_stats

MustSplit(f) ==
  /\ Full(f.node)
  /\ Variant = "rstar" /\ f.path # <<>> => TRUE \in FlagRead(f.node.level)

\* The root's entries move to two new pages; its own page holds the new root.
SplitRoot ==
  /\ Step("insertData")
  /\ LET f == work[1]
         level == f.node.level
         n  == NewPageBeside(DOMAIN nodes)
         nn == NewPageBeside(DOMAIN nodes \cup {n})
     IN  /\ MustSplit(f)
         /\ f.path = <<>>
         /\ \E g \in Splits(level, Overflowing(f.node, f.entry)) :
              LET left == Node(level, g[1])
                  right == Node(level, g[2])
                  ptrR == Node(level + 1, <<[id |-> n, mbr |-> left.mbr],
                                            [id |-> nn, mbr |-> right.mbr]>>)
              IN  nodes' = [p \in DOMAIN nodes \cup {n, nn} |->
                              CASE p = n -> left
                                [] p = nn -> right
                                [] p = m_rootID -> ptrR
                                [] OTHER -> nodes[p]]
         /\ m_stats' = [m_stats EXCEPT
              !.u32Nodes = @ + 2,
              !.u32TreeHeight = level + 2,
              !.nodesInLevel = Append([@ EXCEPT ![level + 1] = 2], 1)]
         /\ Become(<<>>)
  /\ UNCHANGED overflowTable

SplitNode ==
  /\ Step("insertData")
  /\ LET f == work[1]
         level == f.node.level
         nn == NewPageBeside(DOMAIN nodes)
     IN  /\ MustSplit(f)
         /\ f.path # <<>>
         /\ \E g \in Splits(level, Overflowing(f.node, f.entry)) :
              LET left == Node(level, g[1])
                  right == Node(level, g[2])
              IN  /\ nodes' = [p \in DOMAIN nodes \cup {nn} |->
                                  CASE p = nn -> right
                                    [] p = f.page -> left
                                    [] OTHER -> nodes[p]]
                  /\ Become(<<[fn |-> "adjustTree2", page |-> Last(f.path),
                               child |-> f.page, mbr |-> left.mbr,
                               entry |-> [id |-> nn, mbr |-> right.mbr],
                               path |-> Front(f.path)]>>)
         /\ m_stats' = [m_stats EXCEPT
              !.u32Nodes = @ + 1,
              !.nodesInLevel[level + 1] = @ + 1]
  /\ UNCHANGED overflowTable

------------------------------------------------------------------------------
(***************************************************************************)
(* Index::adjustTree, after a child grew or shrank, and after it was split *)
(* (then nothing is written: insertData writes the copy).                  *)
(***************************************************************************)
\* The children with the entry of one of them brought up to date.
Updated(kids, child, mbr) == [kids EXCEPT ![PositionOf(kids, child)].mbr = mbr]

\* Mutant of MustRecompute: one half of its condition.
OnlyIfTouching(n, child, news) ==
  TightMBRs /\ TouchesRegion(n.mbr, n.kids[PositionOf(n.kids, child)].mbr)

MustRecompute(n, child, news) ==
  \/ \E mbr \in news : ~ContainsRegion(n.mbr, mbr)
  \/ TightMBRs /\ TouchesRegion(n.mbr, n.kids[PositionOf(n.kids, child)].mbr)

Adjusted(n, kids, recompute) ==
  [n EXCEPT !.kids = kids, !.mbr = IF recompute THEN NodeBox(kids) ELSE @]

AdjustTree ==
  /\ Step("adjustTree")
  /\ LET f == work[1]
         n == nodes[f.page]
         recompute == f.force \/ MustRecompute(n, f.child, {f.mbr})
         adjusted  == Adjusted(n, Updated(n.kids, f.child, f.mbr), recompute)
     IN  /\ nodes' = [nodes EXCEPT ![f.page] = adjusted]
         /\ Become(IF recompute THEN AdjustParent(f.page, adjusted.mbr, f.path, f.force)
                                ELSE <<>>)
  /\ UNCHANGED <<m_stats, overflowTable>>

AdjustTreeAfterSplit ==
  /\ Step("adjustTree2")
  /\ LET f == work[1]
         n == nodes[f.page]
         recompute == MustRecompute(n, f.child, {f.mbr, f.entry.mbr})
         adjusted  == Adjusted(n, Updated(n.kids, f.child, f.mbr), recompute)
     IN  Become(<<InsertFrame(f.page, adjusted, f.entry, f.path, recompute)>>)
  /\ UNCHANGED <<nodes, m_stats, overflowTable>>

------------------------------------------------------------------------------
(***************************************************************************)
(* deleteData.  findLeaf goes down, in the order of the entries, into      *)
(* every child whose entry contains the object's region.                   *)
(***************************************************************************)

\* The paths of every length from the root through entries that satisfy
\* Enter, as functions of the length.
Paths(Enter(_)) ==
  LET path[k \in 0 .. nodes[m_rootID].level] ==
        IF k = 0
          THEN {<<m_rootID>>}
          ELSE UNION {{Append(p, e.id) : e \in {x \in ToSet(nodes[Last(p)].kids) : Enter(x)}} :
                        p \in path[k - 1]}
  IN  path

\* Depth-first search reaches path p before path q.
FoundBefore(p, q) ==
  \E k \in 2 .. Len(p) :
    /\ \A j \in 1 .. k - 1 : p[j] = q[j]
    /\ PositionOf(nodes[p[k - 1]].kids, p[k]) < PositionOf(nodes[q[k - 1]].kids, q[k])

LeafPaths(o) ==
  {p \in Paths(LAMBDA e : ContainsRegion(e.mbr, o.mbr))[nodes[m_rootID].level] :
     o \in ToSet(nodes[Last(p)].kids)}

FindLeaf(o) == {p \in LeafPaths(o) : \A q \in LeafPaths(o) \ {p} : FoundBefore(p, q)}

\* Mutant of DeleteEntry: the last entry goes instead.
DeleteLastEntry(n, k) == [n EXCEPT !.kids = Front(@), !.mbr = NodeBox(Front(n.kids))]

\* Node::deleteEntry: the last entry takes the place of the one that goes.
DeleteEntry(n, k) ==
  LET kids == Front([n.kids EXCEPT ![k] = Last(n.kids)]) IN
    [n EXCEPT !.kids = kids,
              !.mbr = IF kids = <<>> \/ (TightMBRs /\ TouchesRegion(@, n.kids[k].mbr))
                        THEN NodeBox(kids) ELSE @]

DeleteData(o) ==
  /\ work = <<>>
  /\ deletes > 0
  /\ Len(todo) <= LateDeletes
  /\ \E path \in FindLeaf(o) :
       LET leaf == nodes[Last(path)]
           child == SelectInSeq(leaf.kids, LAMBDA e : e = o)
       IN  /\ nodes' = [nodes EXCEPT ![Last(path)] = DeleteEntry(leaf, child)]
           /\ work' = <<CondenseFrame(Last(path), Front(path), <<>>), Return(-1)>>
  /\ answer' = <<"deleted", o>>
  /\ deletes' = deletes - 1
  /\ UNCHANGED <<m_rootID, m_stats, overflowTable, todo>>

DeleteNothing(o) ==
  /\ work = <<>>
  /\ LeafPaths(o) = {}
  /\ answer' = <<"not found", o>>
  /\ UNCHANGED <<m_rootID, nodes, m_stats, work, overflowTable, todo, deletes>>

(***************************************************************************)
(* Node::condenseTree below the root.                                      *)
(***************************************************************************)
\* Mutant of Underfull: one too late.
FarUnderfull(n) == Len(n.kids) < MinimumLoad(n.level) - 1

Underfull(n) == Len(n.kids) < MinimumLoad(n.level)

CondenseTree ==
  /\ Step("condenseTree")
  /\ LET f == work[1]
         n == nodes[f.page]
         parent == Last(f.path)
         p == nodes[parent]
         condensed == IF Underfull(n)
                        THEN DeleteEntry(p, PositionOf(p.kids, f.page))
                        ELSE Adjusted(p, Updated(p.kids, f.page, n.mbr), TightMBRs)
     IN  /\ f.path # <<>>
         /\ nodes' = [nodes EXCEPT ![parent] = condensed]
         /\ Become(<<CondenseFrame(parent, Front(f.path),
                       IF Underfull(n) THEN Append(f.toReinsert, f.page) ELSE f.toReinsert)>>)
  /\ UNCHANGED <<m_stats, overflowTable>>

(***************************************************************************)
(* Node::condenseTree at the root, which goes if one child is left, and    *)
(* back in Leaf::deleteData the nodes that were cut off, the last one cut  *)
(* (the highest) first.                                                    *)
(***************************************************************************)
Disposals(toReinsert) ==
  [k \in DOMAIN toReinsert |-> [fn |-> "deleteNode", page |-> Reverse(toReinsert)[k]]]

AtRoot(f) == f.path = <<>>
OneChildLeft(n) == n.level # 0 /\ Len(n.kids) = 1

WithoutPage(page) == [p \in DOMAIN nodes \ {page} |-> nodes[p]]

\* The counts without the old root's; the level below is set to two nodes,
\* for a deleteNode that is still to come.
Shortened(nodesInLevel, height) == [Front(nodesInLevel) EXCEPT ![height] = 2]

\* The only child moves to the root's page.
CollapseRoot ==
  /\ Step("condenseTree")
  /\ LET f == work[1]
         child == nodes[m_rootID].kids[1].id
         height == m_stats.u32TreeHeight - 1
     IN  /\ AtRoot(f)
         /\ OneChildLeft(nodes[m_rootID])
         /\ nodes' = [WithoutPage(child) EXCEPT ![m_rootID] = nodes[child]]
         /\ m_stats' = [m_stats EXCEPT
              !.u32Nodes = @ - 1,
              !.u32TreeHeight = height,
              !.nodesInLevel = Shortened(@, height)]
         /\ Become(Disposals(f.toReinsert))
  /\ UNCHANGED overflowTable

CondenseRoot ==
  /\ Step("condenseTree")
  /\ LET f == work[1]
         root == nodes[m_rootID]
     IN  /\ AtRoot(f)
         /\ ~OneChildLeft(root)
         /\ nodes' = [nodes EXCEPT ![m_rootID] = Adjusted(root, root.kids, TightMBRs)]
         /\ Become(Disposals(f.toReinsert))
  /\ UNCHANGED <<m_stats, overflowTable>>

\* Mutant of ReinsertEntries: the height of the tree is not the root's level.
ReinsertAboveRoot(n) ==
  [k \in DOMAIN n.kids |-> InsertAtLevel(n.kids[k], m_stats.u32TreeHeight, TRUE)]

ReinsertEntries(n) == [k \in DOMAIN n.kids |-> InsertAtLevel(n.kids[k], n.level, TRUE)]

\* deleteNode, and a reinsertion of every entry the node had.
DeleteNode ==
  /\ Step("deleteNode")
  /\ LET page == work[1].page
         n == nodes[page]
     IN  /\ nodes' = WithoutPage(page)
         /\ m_stats' = [m_stats EXCEPT
              !.u32Nodes = @ - 1,
              !.nodesInLevel[n.level + 1] = @ - 1]
         /\ Become(ReinsertEntries(n))
  /\ UNCHANGED overflowTable

Finish ==
  /\ Step("return")
  /\ m_stats' = [m_stats EXCEPT !.u64Data = @ + work[1].delta]
  /\ Become(<<>>)
  /\ UNCHANGED <<nodes, overflowTable>>

------------------------------------------------------------------------------

Call == InsertData \/ \E o \in Object : DeleteData(o) \/ DeleteNothing(o)

Execute ==
  \/ Reinsert
  \/ Descend
  \/ Arrive
  \/ InsertFits
  \/ ForcedReinsert
  \/ SplitRoot
  \/ SplitNode
  \/ AdjustTree
  \/ AdjustTreeAfterSplit
  \/ CondenseTree
  \/ CollapseRoot
  \/ CondenseRoot
  \/ DeleteNode
  \/ Finish

Next == Call \/ Execute

(***************************************************************************)
(* The thread that made a call runs it, but need not make another: weak    *)
(* fairness of Execute, with its ENABLED put in words TLC evaluates fast   *)
(* (a call under way can always take a step, which the deadlock check of   *)
(* the runs confirms, and without one Execute has nothing to do).          *)
(***************************************************************************)
Fairness == []<>(work = <<>>) \/ []<><<Execute>>_vars

Spec == Init /\ [][Next]_vars /\ Fairness

------------------------------------------------------------------------------

Idle == work = <<>>

(***************************************************************************)
(* The types of the pages and of the counters, and what kinds of calls the *)
(* stack is made of.                                                       *)
(***************************************************************************)
TypeOK ==
  /\ m_rootID \in DOMAIN nodes
  /\ DOMAIN nodes \subseteq Nat
  /\ \A p \in DOMAIN nodes :
       nodes[p] \in [level : Nat, mbr : [low : [Dim -> Int], high : [Dim -> Int]],
                     kids : Seq(Entry)]
  /\ m_stats \in [u32Nodes : Nat, u64Data : Nat, u32TreeHeight : Nat, nodesInLevel : Seq(Nat)]
  /\ \A k \in DOMAIN work :
       work[k].fn \in {"insertData_impl", "chooseSubtree", "insertData", "adjustTree",
                       "adjustTree2", "condenseTree", "deleteNode", "return"}
  /\ answer \in {<<"none">>} \cup {"inserted", "deleted", "not found"} \X Object

------------------------------------------------------------------------------
\* The entries that calls under way hold in their hands, by level.
InHand(f) ==
  CASE f.fn \in {"insertData_impl", "chooseSubtree"} -> <<f.level, f.entry>>
    [] f.fn = "insertData"  -> <<f.node.level, f.entry>>
    [] f.fn = "adjustTree2" -> <<nodes[f.page].level, f.entry>>
    [] OTHER -> <<>>

\* How often an entry that satisfies Test occurs in nodes of a level or in hand.
Occurrences(level, Test(_)) ==
  LET places == UNION {{p} \X DOMAIN nodes[p].kids :
                         p \in {p \in DOMAIN nodes : nodes[p].level = level}}
      hands  == {k \in DOMAIN work : InHand(work[k]) # <<>> /\ InHand(work[k])[1] = level}
  IN  Cardinality({x \in places : Test(nodes[x[1]].kids[x[2]])})
        + Cardinality({k \in hands : Test(InHand(work[k])[2])})

(***************************************************************************)
(* Splits, forced reinsertions and condensations move entries between      *)
(* nodes, but at every step of every call each object that was inserted    *)
(* and not deleted is in exactly one place, a leaf or a call's hands; and  *)
(* deleteData finds an object whenever it is there.                        *)
(***************************************************************************)
Contract == INSTANCE SpatialIndex WITH
              MaxCopies <- 2,
              held <- [o \in Object |-> Occurrences(0, LAMBDA e : e = o)]

ImplementsSpatialIndex == Contract!Spec

(***************************************************************************)
(* No page is orphaned and none is shared: at every step each page is the  *)
(* root, or has exactly one entry that refers to it, one level up, or is   *)
(* waiting to be deleted and has none.                                     *)
(***************************************************************************)
ToBeDeleted ==
  UNION {CASE work[k].fn = "condenseTree" -> ToSet(work[k].toReinsert)
           [] work[k].fn = "deleteNode" -> {work[k].page}
           [] OTHER -> {} : k \in DOMAIN work}

EveryPageHasOneParent ==
  \A p \in DOMAIN nodes :
    Occurrences(nodes[p].level + 1, LAMBDA e : e.id = p)
      = IF p = m_rootID \/ p \in ToBeDeleted THEN 0 ELSE 1

(***************************************************************************)
(* docs/source/overview.rst:245: every node has a fixed capacity of        *)
(* entries.  At every step, as pages are written.                          *)
(***************************************************************************)
NodesWithinCapacity ==
  \A p \in DOMAIN nodes : Len(nodes[p].kids) <= Capacity(nodes[p].level)

(***************************************************************************)
(* At every step of every call the pages form a tree: of pages of their    *)
(* type, none of them orphaned, shared or overfull.                        *)
(***************************************************************************)
TreeWellFormed == TypeOK /\ EveryPageHasOneParent /\ NodesWithinCapacity

(***************************************************************************)
(* docs/source/overview.rst:251: the fill factor is the least number of    *)
(* entries in any node.  Between calls, and except for the root.           *)
(***************************************************************************)
NodesFilled ==
  Idle => \A p \in DOMAIN nodes \ {m_rootID} :
            Len(nodes[p].kids) >= MinimumLoad(nodes[p].level)

(***************************************************************************)
(* rtree/RTree.cc:1276 asserts that chooseSubtree found a node of the      *)
(* level asked for.  The root may have been split or collapsed since the   *)
(* level was noted down.                                                   *)
(***************************************************************************)
ReinsertionReachesItsLevel ==
  Running("insertData_impl") => nodes[m_rootID].level >= work[1].level

(***************************************************************************)
(* What findLeaf and every query rely on to leave out subtrees: between    *)
(* calls an entry of an index node contains whatever is below it.          *)
(***************************************************************************)
ParentsCover ==
  Idle => \A p \in DOMAIN nodes : nodes[p].level > 0 =>
            \A e \in ToSet(nodes[p].kids) :
              \A x \in ToSet(nodes[e.id].kids) : ContainsRegion(e.mbr, x.mbr)

(***************************************************************************)
(* isIndexValid: every node's MBR is the box of its entries and what its   *)
(* parent's entry says, and the counters agree with a walk of the tree.    *)
(***************************************************************************)
Walk == UNION {Paths(LAMBDA e : TRUE)[k] : k \in 0 .. nodes[m_rootID].level}

ParentMBR(p) ==
  IF Len(p) = 1
    THEN nodes[m_rootID].mbr
    ELSE LET siblings == nodes[p[Len(p) - 1]].kids IN siblings[PositionOf(siblings, Last(p))].mbr

WalkIsValid ==
  /\ nodes[m_rootID].level = m_stats.u32TreeHeight - 1
  /\ \A p \in Walk :
       /\ nodes[Last(p)].mbr = NodeBox(nodes[Last(p)].kids)
       /\ nodes[Last(p)].mbr = ParentMBR(p)

CountersAgree ==
  /\ \A l \in 1 .. m_stats.u32TreeHeight :
       m_stats.nodesInLevel[l] = Cardinality({p \in Walk : nodes[Last(p)].level = l - 1})
  /\ m_stats.u32Nodes =
       Sum([l \in 1 .. m_stats.u32TreeHeight |-> m_stats.nodesInLevel[l]])

IsIndexValid == WalkIsValid /\ CountersAgree

(***************************************************************************)
(* isIndexValid answers true after any sequence of calls.                  *)
(***************************************************************************)
IndexIsValid == Idle => IsIndexValid

(***************************************************************************)
(* The assertion at rtree/Index.cc:74: chooseSubtree finds a child in any  *)
(* node above the level it looks for.                                      *)
(***************************************************************************)
SubtreeIsThere ==
  \A k \in DOMAIN work : work[k].fn = "chooseSubtree" =>
    LET n == nodes[work[k].page] IN n.level \in {0, work[k].level} \/ n.kids # <<>>

(***************************************************************************)
(* m_u64Data, which the header keeps and selfJoin and the bulk loader's    *)
(* clients rely on, is the number of objects in the leaves between calls.  *)
(***************************************************************************)
DataCounted ==
  Idle => m_stats.u64Data = Occurrences(0, LAMBDA e : TRUE)

(***************************************************************************)
(* isIndexValid says no to an index with loose MBRs; but what calls rely   *)
(* on holds of it: its entries cover what is below them, its nodes keep    *)
(* their minimum load, and its objects are counted.                        *)
(***************************************************************************)
LooseIndexIsSound == ParentsCover /\ NodesFilled /\ DataCounted

(***************************************************************************)
(* Every call returns: forced reinsertions and reinsertions after a delete *)
(* do not set each other off for ever.                                     *)
(***************************************************************************)
EveryCallReturns == ~Idle ~> Idle

==============================================================================
