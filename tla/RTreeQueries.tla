---------------------------- MODULE RTreeQueries ----------------------------
(***************************************************************************)
(* The queries of the R-tree.  Each is a loop that takes a node from a     *)
(* stack (or a priority queue) and pushes those of its children that may   *)
(* hold something; selfJoinQuery is recursive over pairs of nodes.  A      *)
(* query is a frame on the call stack of RTree, with what is still to be   *)
(* visited and what the visitor has been shown.                            *)
(*                                                                         *)
(* A query is a record [kind, region, k]; a point is a region of no width. *)
(***************************************************************************)
EXTENDS RTree
LOCAL INSTANCE SequencesExt
LOCAL INSTANCE FiniteSetsExt

CONSTANTS
  Queries,   \* what clients may ask
  QueryWhen  \* bound: and while how many objects are left to insert

QueryKinds == {"internalNodesQuery", "containsWhatQuery", "intersectsWithQuery",
               "nearestNeighborQuery", "selfJoinQuery"}

\* What the constructor of a region insists on.
ProperRegion(r) == \A d \in Dim : r.low[d] <= r.high[d]

ASSUME RTreeQueriesAssumption ==
  /\ QueryWhen \subseteq Nat
  /\ Queries \subseteq [kind : QueryKinds, k : Nat,
                        region : [low : [Dim -> Int], high : [Dim -> Int]]]
  /\ \A o \in Object : ProperRegion(o.mbr)

QueryFrame(q, pending) == [fn |-> q.kind, query |-> q, pending |-> pending, shown |-> <<>>]

\* A page to be visited, and whether all the data below it is shown anyway.
ToVisit(page, whole) == [page |-> page, whole |-> whole]

RootMayMatch(q) ==
  nodes[m_rootID].kids # <<>> /\ IntersectsRegion(q.region, nodes[m_rootID].mbr)

\* An entry of the priority queue: a page, or an object's entry.
NNEntry(kind, item, distance) == [kind |-> kind, item |-> item, minDist |-> distance]

\* What the loop starts with.
FirstPending(q) ==
  CASE q.kind = "intersectsWithQuery" ->
         IF RootMayMatch(q) THEN <<ToVisit(m_rootID, FALSE)>> ELSE <<>>
    [] q.kind = "nearestNeighborQuery" -> <<NNEntry("node", m_rootID, 0)>>
    [] q.kind = "selfJoinQuery" -> <<<<m_rootID, m_rootID, q.region>>>>
    [] OTHER -> <<ToVisit(m_rootID, FALSE)>>

\* After a deletion that found nothing the tree is the same as before it.
Ask ==
  /\ work = <<>>
  /\ Len(todo) \in QueryWhen
  /\ answer[1] # "not found"
  /\ \E q \in Queries : work' = <<QueryFrame(q, FirstPending(q))>>
  /\ UNCHANGED <<m_rootID, nodes, m_stats, overflowTable, client>>

Visiting(kinds) == (\E kind \in kinds : Step(kind)) /\ work[1].pending # <<>>

\* The next turn of the loop: the node on top of the stack is taken off.
Turn(f, pushed, shown) ==
  Become(<<[f EXCEPT !.pending = Front(@) \o pushed, !.shown = @ \o shown]>>)

\* The loop over a node's entries, for those in D.
Matching(kids, D) ==
  LET matching[k \in 0 .. Len(kids)] ==
        IF k = 0 THEN <<>>
        ELSE IF kids[k] \in D THEN Append(matching[k - 1], kids[k])
        ELSE matching[k - 1]
  IN  matching[Len(kids)]

Push(kids, whole) == [k \in DOMAIN kids |-> ToVisit(kids[k].id, whole)]

------------------------------------------------------------------------------
(***************************************************************************)
(* rangeQuery, which intersectsWithQuery and pointLocationQuery share.     *)
(***************************************************************************)
RangeMatch(q, kids) == {e \in ToSet(kids) : IntersectsRegion(q.region, e.mbr)}

VisitInRange ==
  /\ Visiting({"intersectsWithQuery"})
  /\ LET f == work[1]
         n == nodes[Last(f.pending).page]
         matching == Matching(n.kids, RangeMatch(f.query, n.kids))
     IN  Turn(f, IF n.level = 0 THEN <<>> ELSE Push(matching, FALSE),
                 IF n.level = 0 THEN matching ELSE <<>>)
  /\ UNCHANGED <<nodes, m_stats, overflowTable>>

(***************************************************************************)
(* containsWhatQuery and internalNodesQuery go down to nodes that lie      *)
(* inside, and there call visitSubTree.  Of such a node internalNodesQuery *)
(* shows the identifiers below it at once; here they are shown themselves. *)
(***************************************************************************)
Inside(q, kids) == {e \in ToSet(kids) : ContainsRegion(q.region, e.mbr)}

\* Mutant of WhollyInside: a subtree is reported if the query meets it.
PartlyInside(q, mbr) == IntersectsRegion(q.region, mbr)

WhollyInside(q, mbr) == ContainsRegion(q.region, mbr)

\* visitSubTree, whose stack is the upper part of the caller's.
VisitSubTree ==
  /\ Visiting({"containsWhatQuery", "internalNodesQuery"})
  /\ LET f == work[1]
         n == nodes[Last(f.pending).page]
     IN  /\ Last(f.pending).whole
         /\ Turn(f, IF n.level = 0 THEN <<>> ELSE Push(n.kids, TRUE),
                    IF n.level = 0 THEN n.kids ELSE <<>>)
  /\ UNCHANGED <<nodes, m_stats, overflowTable>>

VisitContained ==
  /\ Visiting({"containsWhatQuery"})
  /\ LET f == work[1]
         page == Last(f.pending).page
         n == nodes[page]
     IN  /\ ~Last(f.pending).whole
         /\ IF n.level = 0
              THEN Turn(f, <<>>, Matching(n.kids, Inside(f.query, n.kids)))
              ELSE IF WhollyInside(f.query, n.mbr)
                THEN Turn(f, <<ToVisit(page, TRUE)>>, <<>>)
                ELSE Turn(f, IF IntersectsRegion(f.query.region, n.mbr)
                               THEN Push(n.kids, FALSE) ELSE <<>>, <<>>)
  /\ UNCHANGED <<nodes, m_stats, overflowTable>>

VisitInternal ==
  /\ Visiting({"internalNodesQuery"})
  /\ LET f == work[1]
         page == Last(f.pending).page
         n == nodes[page]
     IN  /\ ~Last(f.pending).whole
         /\ IF WhollyInside(f.query, n.mbr)
              THEN Turn(f, <<ToVisit(page, TRUE)>>, <<>>)
              ELSE IF n.level = 0
                THEN Turn(f, <<>>, Matching(n.kids, Inside(f.query, n.kids)))
                ELSE Turn(f, IF IntersectsRegion(f.query.region, n.mbr)
                               THEN Push(n.kids, FALSE) ELSE <<>>, <<>>)
  /\ UNCHANGED <<nodes, m_stats, overflowTable>>

------------------------------------------------------------------------------
(***************************************************************************)
(* nearestNeighborQuery: nodes and objects by their distance, in one       *)
(* priority queue, whose order among equals is open.                       *)
(***************************************************************************)
Nearest(queue) ==
  {k \in DOMAIN queue : \A j \in DOMAIN queue : queue[k].minDist <= queue[j].minDist}

\* knearest, which is zero before anything was shown.
KNearest(f) ==
  IF f.shown = <<>> THEN 0 ELSE MinimumDistance(f.query.region, Last(f.shown).mbr)

\* Mutant of EnoughFound: neighbours as far as the k-th are not looked for.
EnoughFoundAtK(f, first) == Len(f.shown) >= f.query.k

EnoughFound(f, first) == Len(f.shown) >= f.query.k /\ first.minDist > KNearest(f)

Pushed(f, n) ==
  [k \in DOMAIN n.kids |->
     NNEntry(IF n.level = 0 THEN "data" ELSE "node",
             IF n.level = 0 THEN n.kids[k] ELSE n.kids[k].id,
             MinimumDistance(f.query.region, n.kids[k].mbr))]

VisitNearest ==
  /\ Visiting({"nearestNeighborQuery"})
  /\ LET f == work[1] IN
       \E k \in Nearest(f.pending) :
         LET first == f.pending[k]
             others == RemoveAt(f.pending, k)
         IN  Become(<<IF EnoughFound(f, first)
                        THEN [f EXCEPT !.pending = <<>>]
                        ELSE IF first.kind = "node"
                          THEN [f EXCEPT !.pending = others \o Pushed(f, nodes[first.item])]
                          ELSE [f EXCEPT !.pending = others, !.shown = Append(@, first.item)]>>)
  /\ UNCHANGED <<nodes, m_stats, overflowTable>>

------------------------------------------------------------------------------
(***************************************************************************)
(* selfJoinQuery: a pair of nodes and the region in which their entries    *)
(* are to meet.  The recursive calls go to the stack.                      *)
(***************************************************************************)
\* The two loops: every entry of the one node with every entry of the other.
AllPairs(kids1, kids2) ==
  LET n == Len(kids2) IN
    [k \in 1 .. Len(kids1) * n |-> <<kids1[((k - 1) \div n) + 1], kids2[((k - 1) % n) + 1]>>]

\* Mutant of Meeting: the two entries may be apart.
MeetingRegion(kids1, kids2, r) ==
  {p \in ToSet(kids1) \X ToSet(kids2) :
     IntersectsRegion(r, p[1].mbr) /\ IntersectsRegion(r, p[2].mbr)}

Meeting(kids1, kids2, r) ==
  {p \in ToSet(kids1) \X ToSet(kids2) :
     /\ IntersectsRegion(r, p[1].mbr)
     /\ IntersectsRegion(r, p[2].mbr)
     /\ IntersectsRegion(p[1].mbr, p[2].mbr)}

OfTwoObjects(pairs) == {p \in pairs : p[1].id # p[2].id}

JoinRegion(r, pair) == IntersectingRegion(r, IntersectingRegion(pair[1].mbr, pair[2].mbr))

CallsFor(pairs, r) ==
  [k \in DOMAIN pairs |-> <<pairs[k][1].id, pairs[k][2].id, JoinRegion(r, pairs[k])>>]

VisitPair ==
  /\ Visiting({"selfJoinQuery"})
  /\ LET f == work[1]
         top == Last(f.pending)
         n1 == nodes[top[1]]
         n2 == nodes[top[2]]
         meeting == Meeting(n1.kids, n2.kids, top[3])
         pairs == Matching(AllPairs(n1.kids, n2.kids),
                           IF n1.level = 0 THEN OfTwoObjects(meeting) ELSE meeting)
     IN  Turn(f, IF n1.level = 0 THEN <<>> ELSE CallsFor(pairs, top[3]),
                 IF n1.level = 0 THEN pairs ELSE <<>>)
  /\ UNCHANGED <<nodes, m_stats, overflowTable>>

Answered == work # <<>> /\ work[1].fn \in QueryKinds /\ work[1].pending = <<>>

ReturnFromQuery ==
  /\ Answered
  /\ Become(<<>>)
  /\ UNCHANGED <<m_rootID, nodes, m_stats, overflowTable, client>>

ExecuteQuery ==
  \/ VisitInRange
  \/ VisitSubTree
  \/ VisitContained
  \/ VisitInternal
  \/ VisitNearest
  \/ VisitPair
  \/ ReturnFromQuery

\* An index that is filled by insertData.
QueriedNext == Call \/ Ask \/ Execute \/ ExecuteQuery
QueriedSpec == Init /\ [][QueriedNext]_vars

------------------------------------------------------------------------------
\* How often a value occurs in a sequence.
Times(x, s) == Cardinality({k \in DOMAIN s : s[k] = x})

Answering(kinds) == Answered /\ work[1].fn \in kinds

\* The objects in leaves, and how often they are there.
ObjectsHeld == UNION {ToSet(nodes[p].kids) : p \in {p \in DOMAIN nodes : nodes[p].level = 0}}

TimesHeld(x) == Occurrences(0, LAMBDA e : e = x)

\* What is shown is what is held and satisfies Test, every copy once.
ShownExactly(Test(_)) ==
  LET shown == work[1].shown IN
    \A x \in ObjectsHeld \cup ToSet(shown) :
      Times(x, shown) = IF Test(x) THEN TimesHeld(x) ELSE 0

(***************************************************************************)
(* intersectsWithQuery and pointLocationQuery show exactly the objects     *)
(* that meet the query, though they read only the nodes whose boxes do.    *)
(***************************************************************************)
IntersectionQueriesExact ==
  Answering({"intersectsWithQuery"}) =>
    ShownExactly(LAMBDA x : IntersectsRegion(work[1].query.region, x.mbr))

(***************************************************************************)
(* containsWhatQuery and internalNodesQuery show exactly the objects that  *)
(* lie in the query, though they report whole subtrees unread.             *)
(***************************************************************************)
ContainmentQueriesExact ==
  Answering({"containsWhatQuery", "internalNodesQuery"}) =>
    ShownExactly(LAMBDA x : ContainsRegion(work[1].query.region, x.mbr))

\* Range queries of either kind are exact.
RangeQueriesExact == IntersectionQueriesExact /\ ContainmentQueriesExact

(***************************************************************************)
(* nearestNeighborQuery shows the k nearest objects and all that are as    *)
(* near as the k-th (rtree/RTree.cc:580), nearest first.                   *)
(***************************************************************************)
NearestNeighborsExact ==
  Answering({"nearestNeighborQuery"}) =>
    LET distance(x) == MinimumDistance(work[1].query.region, x.mbr)
        nearer(x) == Occurrences(0, LAMBDA e : distance(e) < distance(x))
        shown == work[1].shown
    IN  /\ ShownExactly(LAMBDA x : nearer(x) < work[1].query.k)
        /\ \A i, j \in DOMAIN shown : i < j => distance(shown[i]) <= distance(shown[j])

(***************************************************************************)
(* selfJoinQuery shows every pair of objects of different identifiers that *)
(* meet each other and the query, in both orders, once: that both meet the *)
(* part of the query where their nodes overlap follows, because boxes of   *)
(* which any two meet have a point in common.                              *)
(***************************************************************************)
SelfJoinExact ==
  Answering({"selfJoinQuery"}) =>
    LET region == work[1].query.region
        shown == work[1].shown
        meets(x, y) == /\ x.id # y.id
                       /\ IntersectsRegion(x.mbr, y.mbr)
                       /\ IntersectsRegion(region, x.mbr)
                       /\ IntersectsRegion(region, y.mbr)
    IN  \A x, y \in ObjectsHeld :
          Times(<<x, y>>, shown) = IF meets(x, y) THEN TimesHeld(x) * TimesHeld(y) ELSE 0

==============================================================================
