---------------------------- MODULE MVRTreeNode ----------------------------
(***************************************************************************)
(* The pure part of mvrtree/Node.cc, Index.cc and Leaf.cc: what a node is  *)
(* made of its entries, how it is copied to a new version, and which entry *)
(* of which sibling an underfull leaf may borrow.  An entry is a record    *)
(* [id, mbr, start, end], a node one [level, mbr, start, end, kids]; an    *)
(* end of Infinity is that of an entry that is alive.                      *)
(***************************************************************************)
EXTENDS RTreeNode
LOCAL INSTANCE FiniteSetsExt
LOCAL INSTANCE SequencesExt

CONSTANTS
  StrongVersionOverflow,  \* m_strongVersionOverflow, a fraction
  VersionUnderflow,       \* m_versionUnderflow, a fraction
  TightMBRs               \* m_bTightMBRs

\* initNew accepts no capacity below ten.
ASSUME MVRTreeNodeAssumption ==
  /\ IndexCapacity >= 10 /\ LeafCapacity >= 10
  /\ ProperFraction(StrongVersionOverflow)
  /\ ProperFraction(VersionUnderflow)
  /\ TightMBRs \in BOOLEAN

Alive(e) == e.end = Infinity

LiveKids(kids) == SelectSeq(kids, Alive)

\* The node that insertEntry makes of the infinite one, entry by entry.
NodeOf(level, kids) ==
  [level |-> level, mbr |-> NodeBox(kids), kids |-> kids,
   start |-> Min({kids[k].start : k \in DOMAIN kids} \cup {Infinity}),
   end   |-> Max({kids[k].end : k \in DOMAIN kids} \cup {-Infinity})]

InsertEntry(n, e) ==
  [n EXCEPT !.kids = Append(@, e), !.mbr = CombinedRegion(@, e.mbr),
            !.start = Min({@, e.start}), !.end = Max({@, e.end})]

\* The entry by which a parent knows a node.
AsEntry(page, n) == [id |-> page, mbr |-> n.mbr, start |-> n.start, end |-> n.end]

Recomputed(n) == [n EXCEPT !.mbr = NodeBox(n.kids)]

(***************************************************************************)
(* deleteEntry: the last entry takes the place of the one that goes.  What *)
(* is left, and whether the node's region was computed anew.               *)
(***************************************************************************)
DeleteEntry(n, k) ==
  LET left == [n EXCEPT !.kids = Front([n.kids EXCEPT ![k] = Last(n.kids)])]
      touches == TightMBRs /\ TouchesRegion(n.mbr, n.kids[k].mbr)
  IN  CASE left.kids = <<>> -> [node |-> NodeOf(n.level, <<>>), adjusted |-> TRUE]
        [] left.kids # <<>> /\ touches -> [node |-> Recomputed(left), adjusted |-> TRUE]
        [] OTHER -> [node |-> left, adjusted |-> FALSE]

\* The entries that are alive at time t in a node of their own, starting then.
VersionCopy(n, t) ==
  LET live == LiveKids(n.kids)
  IN  [NodeOf(n.level, [k \in DOMAIN live |-> [live[k] EXCEPT !.start = t]]) EXCEPT !.start = t]

StrongOverflow(level, children) ==
  children * StrongVersionOverflow[2] >= StrongVersionOverflow[1] * Capacity(level)

WeakUnderflow(level, alive) ==
  alive * VersionUnderflow[2] < VersionUnderflow[1] * Capacity(level)

\* Mutant of ChosenKids: into a dead one, too.
ChosenKidsOfAllTimes(n, e) == {n.kids[c].id : c \in ChosenChildren(n.level, n.kids, e.mbr)}

\* chooseSubtree goes into a child that is not dead yet when the new entry starts.
ChosenKids(n, e) ==
  LET open == SelectSeq(n.kids, LAMBDA x : x.end > e.start)
  IN  {open[c].id : c \in ChosenChildren(n.level, open, e.mbr)}

\* rtreeSplit and rstarSplit are the R-tree's, over a copy's entries and the
\* one or two new ones after them.
RtreeGroups(level, kids) == RtreeSplits(kids, MinimumLoad(level))
RstarGroups(kids) == RstarSplits(kids)

SplitCopies(level, kids) ==
  {<<NodeOf(level, g[1]), NodeOf(level, g[2])>> :
     g \in IF Variant = "rstar" THEN RstarGroups(kids) ELSE RtreeGroups(level, kids)}

------------------------------------------------------------------------------
(***************************************************************************)
(* Borrowing, in deleteData.  A leaf of region mbr, under its parent since *)
(* time since, may take an entry from a sibling under the parent since     *)
(* siblingSince.                                                           *)
(***************************************************************************)
\* No entry is older than the pointer to the node: it has no other parent.
SingleParent(sibling, siblingSince) ==
  \A k \in DOMAIN sibling.kids : sibling.kids[k].start >= siblingSince

\* The entries that fit with at most a tenth more of area.
ToCheck(mbr, since, sibling) ==
  {k \in DOMAIN sibling.kids :
     /\ Alive(sibling.kids[k])
     /\ sibling.kids[k].start >= since
     /\ 10 * Area(CombinedRegion(mbr, sibling.kids[k].mbr)) <= 11 * Area(mbr)}

\* The intervals between the times at which entries of a node come or go, and
\* how many entries each lies in the lifetime of.
ElementaryIntervals(kids) ==
  LET times == UNION {{kids[k].start, kids[k].end} : k \in DOMAIN kids}
  IN  {<<a, Min({t \in times : t > a})>> : a \in times \ {Max(times)}}

During(e, interval) == e.start <= interval[1] /\ interval[2] <= e.end

\* Never would the sibling, without the entry, break the weak version condition.
MaySpare(sibling, k) ==
  \A i \in ElementaryIntervals(sibling.kids) : During(sibling.kids[k], i) =>
    LET count == Cardinality({j \in DOMAIN sibling.kids : During(sibling.kids[j], i)})
    IN  count * VersionUnderflow[2] > VersionUnderflow[1] * Capacity(sibling.level)

\* A sibling with just one entry to spare is left alone.
JustOneToSpare(sibling) ==
  (Len(LiveKids(sibling.kids)) - 1) * VersionUnderflow[2] = VersionUnderflow[1] * Capacity(sibling.level)

\* Sdel: what may be taken, and of that what sort may put first.
Sdel(mbr, since, sibling, siblingSince) ==
  IF SingleParent(sibling, siblingSince) /\ ~JustOneToSpare(sibling)
    THEN {k \in ToCheck(mbr, since, sibling) : MaySpare(sibling, k)}
    ELSE {}

LeastEnlarging(mbr, sibling, S) ==
  LET area(k) == Area(CombinedRegion(mbr, sibling.kids[k].mbr))
  IN  {k \in S : \A j \in S : area(k) <= area(j)}

=============================================================================
