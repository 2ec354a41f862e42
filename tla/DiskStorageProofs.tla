-------------------------- MODULE DiskStorageProofs --------------------------
(***************************************************************************)
(* Proofs about DiskStorage, for every set of contents and lengths, every  *)
(* page size, every bound on the file and every kind of fault.  They need  *)
(* entities not to be empty: an empty one has no page to be its            *)
(* identifier.                                                             *)
(***************************************************************************)
EXTENDS DiskStorage, SequenceTheorems, TLAPS

NoEmptyEntities == 0 \notin Length

------------------------------------------------------------------------------
(***************************************************************************)
(* Index tables, apart from the program's state.                           *)
(***************************************************************************)
Index == [Page -> Entry \cup {Nothing}]
Pages(index, i) == Range(index[i].pages)

Consistent(index, empty, next) ==
  /\ \A i \in Page : index[i] # Nothing =>
       /\ Distinct(index[i].pages)
       /\ \A p \in Pages(index, i) : p \notin empty /\ p < next
  /\ \A i, j \in Page :
       index[i] # Nothing /\ index[j] # Nothing /\ i # j =>
         \A p \in Pages(index, i) : p \notin Pages(index, j)
  /\ \A p \in empty : p < next

FirstPages(index) ==
  \A i \in Page : index[i] # Nothing => index[i].pages # <<>> /\ index[i].pages[1] = i

LEMMA EntryIsSomething == \A e \in Entry : e # Nothing
<1>1. Page \subseteq Nat
  BY DiskStorageAssumption DEF Page
<1>2. Seq(Page) \subseteq Seq(Nat)
  BY <1>1, SeqMonotonic
<1>3. QED
  BY <1>2, DiskStorageAssumption DEF Entry

\* An entry leaves the table, and its pages may become free.
LEMMA RemoveEntry ==
  ASSUME NEW index \in Index, NEW empty \in SUBSET Page, NEW next \in Nat,
         Consistent(index, empty, next), FirstPages(index),
         NEW i \in Page, index[i] # Nothing
  PROVE  LET without == [index EXCEPT ![i] = Nothing] IN
           /\ Consistent(without, empty, next)
           /\ Consistent(without, empty \cup Pages(index, i), next)
           /\ FirstPages(without)
BY DEF Consistent, FirstPages, Pages, Index

\* An entry joins the table; pages that nobody owns become free.
LEMMA AddEntry ==
  ASSUME NEW index \in Index, NEW empty \in SUBSET Page, NEW next \in Nat,
         Consistent(index, empty, next), FirstPages(index),
         NEW i \in Page, index[i] = Nothing,
         NEW entry \in Entry, NEW freed \in SUBSET Page,
         Distinct(entry.pages), entry.pages # <<>>, entry.pages[1] = i,
         \A p \in Range(entry.pages) \cup freed :
           p < next /\ \A j \in Page : index[j] # Nothing => p \notin Pages(index, j),
         \A p \in Range(entry.pages) : p \notin empty /\ p \notin freed
  PROVE  LET with == [index EXCEPT ![i] = entry] IN
           /\ Consistent(with, empty \cup freed, next)
           /\ FirstPages(with)
<1> DEFINE with == [index EXCEPT ![i] = entry]
<1>1. \A j \in Page : with[j] = IF j = i THEN entry ELSE index[j]
  BY DEF Index
<1>2. \A j \in Page : Pages(with, j) = IF j = i THEN Range(entry.pages) ELSE Pages(index, j)
  BY <1>1 DEF Pages
<1> HIDE DEF with
<1>3. FirstPages(with)
  BY <1>1 DEF FirstPages
<1>4. ASSUME NEW j \in Page, with[j] # Nothing
      PROVE  /\ Distinct(with[j].pages)
             /\ \A p \in Pages(with, j) : p \notin empty \cup freed /\ p < next
  BY <1>1, <1>2, <1>4 DEF Consistent
<1>5. ASSUME NEW j \in Page, NEW k \in Page, with[j] # Nothing, with[k] # Nothing, j # k,
             NEW p \in Pages(with, j)
      PROVE  p \notin Pages(with, k)
  BY <1>1, <1>2, <1>5 DEF Consistent
<1>6. \A p \in empty \cup freed : p < next
  BY DEF Consistent
<1>7. QED
  BY <1>3, <1>4, <1>5, <1>6 DEF Consistent, with

\* Free pages are taken, the file grows.
LEMMA TakeFree ==
  ASSUME NEW index \in Index, NEW empty \in SUBSET Page, NEW next \in Nat,
         Consistent(index, empty, next),
         NEW fewer \in SUBSET empty, NEW further \in Nat, next <= further
  PROVE  Consistent(index, fewer, further)
<1>1. \A p \in Page : p < next => p < further
  BY DiskStorageAssumption DEF Page
<1>2. ASSUME NEW i \in Page, index[i] # Nothing, NEW p \in Pages(index, i)
      PROVE  p \in Page
  BY <1>2, RangeOfSeq, EntryIsSomething DEF Index, Entry, Pages
<1>3. QED
  BY <1>1, <1>2 DEF Consistent

------------------------------------------------------------------------------
(***************************************************************************)
(* Type correctness.                                                       *)
(***************************************************************************)
CallFrame == [page : Page \cup {NewPage}, val : Val \cup {Nothing}, len : Length \cup {0},
              pages : Seq(Page), old : Seq(Page), before : Stored \cup {Nothing}]

\* The two faces of a table that is read from the index file.
TypesOfTable == \A t \in Table : /\ t.pageIndex \in Index
                                 /\ t.emptyPages \in SUBSET Page
                                 /\ t.nextPage \in 0 .. MaxPages

LEMMA TableTypes == TypesOfTable
BY DEF TypesOfTable, Table, Index

LEMMA SnapshotType ==
  /\ Snapshot \in Table <=> /\ m_pageIndex \in Index
                            /\ m_emptyPages \in SUBSET Page
                            /\ m_nextPage \in 0 .. MaxPages
  /\ Snapshot.pageIndex = m_pageIndex
  /\ Snapshot.emptyPages = m_emptyPages
  /\ Snapshot.nextPage = m_nextPage
BY DEF Snapshot, Table, Index

\* Reading an entry's pages gives an entity, or pieces of several.
LEMMA ContentsType ==
  ASSUME dat \in [Page -> Piece \cup {Nothing}], NEW entry \in Entry \cup {Nothing}
  PROVE  Contents(entry) \in Stored \cup {Nothing}
<1>1. CASE entry = Nothing
  BY <1>1 DEF Contents
<1>2. CASE entry # Nothing
  <2>1. entry.len \in Length /\ entry.pages \in Seq(Page)
    BY <1>2 DEF Entry
  <2>2. PICK n \in Nat : entry.pages \in [1 .. n -> Page]
    BY <2>1, SeqDef
  <2>3. [k \in DOMAIN entry.pages |-> dat[entry.pages[k]]] \in [1 .. n -> Piece \cup {Nothing}]
    BY <2>2
  <2>4. [k \in DOMAIN entry.pages |-> dat[entry.pages[k]]] \in Seq(Piece \cup {Nothing})
    BY <2>3, SeqDef
  <2>5. QED
    BY <1>2, <2>1, <2>4 DEF Contents, Stored
<1>3. QED
  BY <1>1, <1>2

LEMMA ViewType ==
  ASSUME TypeOK
  PROVE  View \in [Page -> Stored \cup {Nothing}]
<1>1. ASSUME NEW i \in Page
      PROVE  Contents(m_pageIndex[i]) \in Stored \cup {Nothing}
  BY ContentsType, SnapshotType DEF TypeOK, Index
<1>2. call.before \in Stored \cup {Nothing}
  BY DEF TypeOK
<1>3. QED
  BY <1>1, <1>2 DEF View

\* Taking a page keeps the free list and the end of the file in their types.
LEMMA TakePageType ==
  ASSUME TypeOK, NEW p \in Page, TakePage(p)
  PROVE  m_emptyPages' \in SUBSET Page /\ m_nextPage' \in 0 .. MaxPages
<1>1. m_emptyPages \in SUBSET Page /\ m_nextPage \in 0 .. MaxPages
  BY SnapshotType DEF TypeOK
<1>2. CASE ReusePage(p) \/ RecyclePage(p)
  BY <1>1, <1>2 DEF ReusePage, RecyclePage
<1>3. CASE ExtendFile(p)
  BY <1>1, <1>3, DiskStorageAssumption DEF ExtendFile, Page
<1>4. QED
  BY <1>2, <1>3 DEF TakePage

\* The half of TypeOK that a step inside the manager's memory is about.
MemoryOK ==
  /\ m_pageIndex \in Index
  /\ m_emptyPages \in SUBSET Page
  /\ m_nextPage \in 0 .. MaxPages
  /\ call \in CallFrame
  /\ pc \in {"idle", "store", "flush", "down"}

\* The half that is about the files and the history.
FilesOK ==
  /\ datFails \in BOOLEAN
  /\ dat \in [Page -> Piece \cup {Nothing}]
  /\ idx \in Table \cup {Nothing, Torn}
  /\ vouched \in [view : [Page -> Stored \cup {Nothing}], touched : SUBSET Page]

LEMMA TypeOKHalves == TypeOK <=> MemoryOK /\ FilesOK
BY SnapshotType DEF TypeOK, MemoryOK, FilesOK, CallFrame

\* An entry that joins the table.
LEMMA InsertEntryType ==
  ASSUME MemoryOK, call.len \in Length, NEW i, InsertEntry(i)
  PROVE  m_pageIndex' \in Index
<1>1. [len |-> call.len, pages |-> call.pages] \in Entry
  BY DEF MemoryOK, CallFrame, Entry
<1>2. QED
  BY <1>1 DEF InsertEntry, MemoryOK, Index

LEMMA NoCallType == NoCall \in CallFrame
<1>1. <<>> \in Seq(Page)
  BY EmptySeq
<1>2. QED
  BY <1>1 DEF NoCall, CallFrame

LEMMA TouchType ==
  ASSUME FilesOK, NEW i \in Page, Touch(i)
  PROVE  vouched' \in [view : [Page -> Stored \cup {Nothing}], touched : SUBSET Page]
BY DEF FilesOK, Touch

\* While a call runs it has an entity to store, and the index file can only be
\* torn during a flush or after one that did not end.
InProgress ==
  /\ pc = "store" => call.val \in Val /\ call.len \in Length
  /\ pc = "store" /\ call.page = NewPage => call.len > 0
  /\ idx = Torn => pc \in {"flush", "down"}

\* An entity that is not empty takes at least one page.
LEMMA AtLeastOnePage ==
  ASSUME NEW len \in Nat, len > 0
  PROVE  PagesNeeded(len) \in Nat /\ PagesNeeded(len) >= 1
<1>1. PICK size \in Nat \ {0} : size = PageSize
  BY DiskStorageAssumption
<1>2. PICK n \in Nat : n = len + size - 1 /\ n >= size
  BY <1>1
<1>3. n \div size \in Nat /\ n \div size >= 1
  BY <1>1, <1>2
<1>4. QED
  BY <1>1, <1>2, <1>3 DEF PagesNeeded

LEMMA FirstPageTaken ==
  ASSUME TypeOK, call.len \in Nat, call.len > 0, ~MorePages
  PROVE  /\ call.pages # <<>>
         /\ 1 \in DOMAIN call.pages
         /\ call.pages[1] \in Page
<1>1. call.pages \in Seq(Page) /\ Len(call.pages) \in Nat
  BY LenProperties DEF TypeOK
<1>2. Len(call.pages) >= 1
  BY <1>1, AtLeastOnePage DEF MorePages
<1>3. 1 \in 1 .. Len(call.pages) /\ DOMAIN call.pages = 1 .. Len(call.pages)
  BY <1>1, <1>2, LenProperties
<1>4. QED
  BY <1>1, <1>2, <1>3, EmptySeq, ElementOfSeq

LEMMA TypeStep ==
  ASSUME TypeOK, InProgress, [Next]_vars
  PROVE  TypeOK' /\ InProgress'
<1>0. MemoryOK /\ FilesOK
  BY TypeOKHalves
<1>a. MemoryOK' /\ FilesOK' => TypeOK'
  BY TypeOKHalves, PTL
<1>b. Torn # Nothing
  BY DiskStorageAssumption DEF Torn
<1>1. ASSUME NEW v \in Val, NEW len \in Length, StoreNew(v, len)
      PROVE  TypeOK' /\ InProgress'
  <2>1. call' \in CallFrame /\ call'.val = v /\ call'.len = len
    BY <1>1, NoCallType DEF StoreNew, CallFrame, NoCall
  <2>2. MemoryOK' /\ FilesOK'
    BY <1>0, <1>1, <2>1 DEF StoreNew, memory, MemoryOK, FilesOK
  <2>3. InProgress'
    BY <1>1, <2>1 DEF StoreNew, InProgress
  <2>4. QED
    BY <1>a, <2>2, <2>3
<1>2. ASSUME NEW i \in Page, NEW v \in Val, NEW len \in Length, StoreOld(i, v, len)
      PROVE  TypeOK' /\ InProgress'
  <2>1. m_pageIndex[i] \in Entry
    BY <1>0, <1>2 DEF StoreOld, MemoryOK, Index
  <2>2. View[i] \in Stored \cup {Nothing}
    BY ViewType
  <2>3. call' \in CallFrame /\ call'.page # NewPage /\ call'.val = v /\ call'.len = len
    <3>1. <<>> \in Seq(Page) /\ m_pageIndex[i].pages \in Seq(Page)
      BY <2>1, EmptySeq DEF Entry
    <3>2. QED
      BY <1>2, <2>2, <3>1, DiskStorageAssumption DEF StoreOld, CallFrame, Page, NewPage
  <2>4. m_pageIndex' \in Index
    BY <1>0, <1>2 DEF StoreOld, MemoryOK, Index
  <2>5. MemoryOK' /\ FilesOK'
    BY <1>0, <1>2, <2>3, <2>4, TouchType DEF StoreOld, MemoryOK, FilesOK
  <2>6. InProgress'
    BY <1>2, <2>3 DEF StoreOld, InProgress
  <2>7. QED
    BY <1>a, <2>5, <2>6
<1>3. CASE WritePage
  <2>1. PICK p \in Page :
          /\ TakePage(p)
          /\ dat' = [dat EXCEPT ![p] = <<call.val, Len(call.pages) + 1>>]
          /\ call' = [call EXCEPT !.pages = Append(@, p)]
    BY <1>3 DEF WritePage
  <2>2. call.pages \in Seq(Page) /\ Append(call.pages, p) \in Seq(Page)
    BY <1>0, AppendProperties DEF MemoryOK, CallFrame
  <2>3. /\ call' \in CallFrame
        /\ call'.page = call.page /\ call'.val = call.val /\ call'.len = call.len
    BY <1>0, <2>1, <2>2 DEF MemoryOK, CallFrame
  <2>4. FilesOK'
    <3>1. Len(call.pages) + 1 \in Nat \ {0}
      BY <2>2, LenProperties
    <3>2. <<call.val, Len(call.pages) + 1>> \in Piece
      BY <1>3, <3>1 DEF WritePage, InProgress, Piece
    <3>3. QED
      BY <1>0, <1>3, <2>1, <3>2 DEF WritePage, FilesOK
  <2>5. MemoryOK'
    BY <1>0, <1>3, <2>1, <2>3, TakePageType DEF WritePage, MemoryOK
  <2>6. InProgress'
    BY <1>3, <2>3 DEF WritePage, InProgress
  <2>7. QED
    BY <1>a, <2>4, <2>5, <2>6
<1>4. CASE WriteFails
  <2>1. MemoryOK'
    BY <1>0, <1>4, TakePageType, NoCallType DEF WriteFails, MemoryOK
  <2>2. FilesOK' /\ InProgress'
    BY <1>0, <1>4 DEF WriteFails, FilesOK, InProgress
  <2>3. QED
    BY <1>a, <2>1, <2>2
<1>5. CASE FinishNew
  <2>1. call.pages[1] \in Page
    <3>1. call.len \in Nat /\ call.len > 0
      BY <1>5, DiskStorageAssumption DEF FinishNew, InProgress
    <3>2. QED
      BY <1>5, <3>1, FirstPageTaken DEF FinishNew
  <2>2. m_pageIndex' \in Index
    BY <1>0, <1>5, InsertEntryType DEF FinishNew, InProgress
  <2>3. MemoryOK' /\ FilesOK' /\ InProgress'
    BY <1>0, <1>5, <2>1, <2>2, TouchType, NoCallType
       DEF FinishNew, MemoryOK, FilesOK, InProgress
  <2>4. QED
    BY <1>a, <2>3
<1>6. CASE FinishOld
  <2>1. m_pageIndex' \in Index
    BY <1>0, <1>6, InsertEntryType DEF FinishOld, InProgress
  <2>2. FreedPages \subseteq Page
    BY <1>0, LenProperties, ElementOfSeq DEF FreedPages, OldFrom, MemoryOK, CallFrame
  <2>3. MemoryOK' /\ FilesOK' /\ InProgress'
    BY <1>0, <1>6, <2>1, <2>2, NoCallType DEF FinishOld, MemoryOK, FilesOK, InProgress
  <2>4. QED
    BY <1>a, <2>3
<1>7. ASSUME NEW i \in Page, Load(i) \/ LoadFails(i) \/ Refuse(i)
      PROVE  TypeOK' /\ InProgress'
  BY <1>0, <1>a, <1>7 DEF Load, LoadFails, Refuse, memory, MemoryOK, FilesOK, InProgress
<1>8. ASSUME NEW i \in Page, Delete(i)
      PROVE  TypeOK' /\ InProgress'
  <2>1. m_pageIndex[i] \in Entry /\ m_pageIndex' \in Index
    BY <1>0, <1>8 DEF Delete, MemoryOK, Index
  <2>2. {m_pageIndex[i].pages[k] : k \in DOMAIN m_pageIndex[i].pages} \subseteq Page
    BY <2>1, LenProperties, ElementOfSeq DEF Entry
  <2>3. MemoryOK' /\ FilesOK' /\ InProgress'
    BY <1>0, <1>8, <2>1, <2>2, TouchType DEF Delete, MemoryOK, FilesOK, InProgress
  <2>4. QED
    BY <1>a, <2>3
<1>9. CASE FlushBegin \/ FlushEnd
  <2>1. Snapshot \in Table
    BY DEF TypeOK
  <2>2. [view |-> View, touched |-> {}]
          \in [view : [Page -> Stored \cup {Nothing}], touched : SUBSET Page]
    BY ViewType
  <2>3. Snapshot # Torn
    BY DEF Snapshot, Torn
  <2>4. MemoryOK' /\ FilesOK' /\ InProgress'
    BY <1>0, <1>9, <2>1, <2>2, <2>3
       DEF FlushBegin, FlushEnd, memory, MemoryOK, FilesOK, InProgress
  <2>5. QED
    BY <1>a, <2>4
<1>10. CASE CrashAndReopen
  <2>1. idx \in Table \cup {Nothing}
    BY <1>0, <1>10 DEF CrashAndReopen, FilesOK, InProgress
  <2>2. m_pageIndex' \in Index /\ m_emptyPages' \in SUBSET Page /\ m_nextPage' \in 0 .. MaxPages
    BY <1>10, <2>1, TableTypes, DiskStorageAssumption
       DEF CrashAndReopen, OpenFiles, TypesOfTable, NoEntries, Index
  <2>3. MemoryOK' /\ FilesOK' /\ InProgress'
    BY <1>0, <1>10, <2>2, NoCallType DEF CrashAndReopen, MemoryOK, FilesOK, InProgress
  <2>4. QED
    BY <1>a, <2>3
<1>11. CASE CrashInFlush
  BY <1>0, <1>a, <1>11 DEF CrashInFlush, memory, MemoryOK, FilesOK, InProgress
<1>12. CASE Overwrite
  <2>1. MemoryOK'
    BY <1>12, NoCallType, DiskStorageAssumption DEF Overwrite, MemoryOK, NoEntries, Index
  <2>2. FilesOK' /\ InProgress'
    BY <1>b, <1>12 DEF Overwrite, FilesOK, InProgress, NoEntries
  <2>3. QED
    BY <1>a, <2>1, <2>2
<1>13. CASE UNCHANGED vars
  BY <1>0, <1>a, <1>13 DEF vars, memory, MemoryOK, FilesOK, InProgress
<1>14. QED
  BY <1>1, <1>2, <1>3, <1>4, <1>5, <1>6, <1>7, <1>8, <1>9, <1>10, <1>11, <1>12, <1>13 DEF Next

LEMMA InitTypes == Init => TypeOK /\ InProgress
<1> SUFFICES ASSUME Init
             PROVE  TypeOK /\ InProgress
  OBVIOUS
<1>1. MemoryOK
  BY NoCallType, DiskStorageAssumption DEF Init, MemoryOK, NoEntries, Index
<1>2. FilesOK
  BY DEF Init, FilesOK, NoEntries
<1>3. InProgress
  BY DiskStorageAssumption DEF Init, InProgress, Torn
<1>4. QED
  BY <1>1, <1>2, <1>3, TypeOKHalves

(***************************************************************************)
(* Type correctness of the disk manager, whatever the faults.              *)
(***************************************************************************)
THEOREM TypeCorrect == Spec => []TypeOK
BY InitTypes, TypeStep, PTL DEF Spec

------------------------------------------------------------------------------
(***************************************************************************)
(* Ownership.  The inductive invariant says of the table in memory, of the *)
(* table in the index file and of the call in progress together that no    *)
(* page has two owners and that identifiers are first pages: each of the   *)
(* two needs the other, since NewPage takes any free page for identifier   *)
(* without a look at the table.                                            *)
(***************************************************************************)
CallSound ==
  /\ Distinct(call.pages)
  /\ Distinct(call.old)
  /\ \A p \in Range(call.pages) : p \notin OldLeft
  /\ \A p \in CallPages :
       /\ p \notin m_emptyPages
       /\ p < m_nextPage
       /\ \A i \in Page : m_pageIndex[i] # Nothing => p \notin Pages(m_pageIndex, i)
  /\ call.page # NewPage =>
       /\ m_pageIndex[call.page] = Nothing
       /\ call.old # <<>>
       /\ call.old[1] = call.page
       /\ call.pages # <<>> => call.pages[1] = call.page

MemorySound ==
  /\ Consistent(m_pageIndex, m_emptyPages, m_nextPage)
  /\ FirstPages(m_pageIndex)

FileSound ==
  idx \notin {Nothing, Torn} =>
    /\ Consistent(idx.pageIndex, idx.emptyPages, idx.nextPage)
    /\ FirstPages(idx.pageIndex)

IInv ==
  /\ TypeOK
  /\ InProgress
  /\ MemorySound
  /\ FileSound
  /\ pc = "store" => CallSound

\* What the invariant says is what the runs check.
LEMMA ConsistentTable ==
  ASSUME NEW table \in Table
  PROVE  /\ TableConsistent(table)
              <=> Consistent(table.pageIndex, table.emptyPages, table.nextPage)
         /\ (\A i \in LiveIn(table) :
               table.pageIndex[i].pages # <<>> /\ table.pageIndex[i].pages[1] = i)
              <=> FirstPages(table.pageIndex)
<1>1. TableConsistent(table) <=> Consistent(table.pageIndex, table.emptyPages, table.nextPage)
  BY DEF TableConsistent, Consistent, LiveIn, PagesIn, Pages
<1>2. (\A i \in LiveIn(table) :
         table.pageIndex[i].pages # <<>> /\ table.pageIndex[i].pages[1] = i)
        <=> FirstPages(table.pageIndex)
  BY DEF LiveIn, FirstPages
<1>3. QED
  BY <1>1, <1>2

LEMMA InvariantImplies == IInv => PagesHaveOneOwner /\ IdentifierIsFirstPage
<1> SUFFICES ASSUME IInv
             PROVE  PagesHaveOneOwner /\ IdentifierIsFirstPage
  OBVIOUS
<1>1. Snapshot \in Table /\ idx \in Table \cup {Nothing, Torn}
  BY DEF IInv, TypeOK
<1>2. /\ TableConsistent(Snapshot)
      /\ \A i \in LiveIn(Snapshot) :
           m_pageIndex[i].pages # <<>> /\ m_pageIndex[i].pages[1] = i
  BY <1>1, ConsistentTable, SnapshotType DEF IInv, MemorySound
<1>3. idx \notin {Nothing, Torn} =>
        /\ TableConsistent(idx)
        /\ \A i \in LiveIn(idx) : idx.pageIndex[i].pages # <<>> /\ idx.pageIndex[i].pages[1] = i
  BY <1>1, ConsistentTable DEF IInv, FileSound
<1>4. ASSUME pc = "store"
      PROVE  /\ Distinct(call.pages)
             /\ Distinct(call.old)
             /\ Range(call.pages) \cap OldLeft = {}
             /\ CallPages \cap m_emptyPages = {}
             /\ \A i \in LiveIn(Snapshot) : CallPages \cap PagesIn(Snapshot, i) = {}
             /\ \A p \in CallPages : p < m_nextPage
  BY <1>4, SnapshotType DEF IInv, CallSound, LiveIn, PagesIn, Pages
<1>5. PagesHaveOneOwner
  BY <1>2, <1>3, <1>4 DEF PagesHaveOneOwner
<1>6. IdentifierIsFirstPage
  BY <1>2, <1>3 DEF IInv, CallSound, IdentifierIsFirstPage
<1>7. QED
  BY <1>5, <1>6

------------------------------------------------------------------------------
(***************************************************************************)
(* One page of a store: the page taken has no other owner, and what is     *)
(* left of the old entry is one page less or nothing.                      *)
(***************************************************************************)
LEMMA CallTypes ==
  ASSUME TypeOK
  PROVE  /\ call.pages \in Seq(Page) /\ Len(call.pages) \in Nat
         /\ DOMAIN call.pages = 1 .. Len(call.pages)
         /\ call.old \in Seq(Page) /\ Len(call.old) \in Nat
         /\ DOMAIN call.old = 1 .. Len(call.old)
         /\ m_pageIndex \in Index
         /\ m_emptyPages \in SUBSET Page
         /\ m_nextPage \in Nat
         /\ \A k \in 1 .. Len(call.pages) : call.pages[k] \in Page
         /\ \A k \in 1 .. Len(call.old) : call.old[k] \in Page
<1>1. call.pages \in Seq(Page) /\ call.old \in Seq(Page)
  BY DEF TypeOK
<1>2. m_pageIndex \in Index /\ m_emptyPages \in SUBSET Page /\ m_nextPage \in 0 .. MaxPages
  BY TypeOKHalves DEF MemoryOK
<1>3. QED
  BY <1>1, <1>2, LenProperties, ElementOfSeq, DiskStorageAssumption

LEMMA TakePageEffect ==
  ASSUME IInv, pc = "store", NEW p \in Page, TakePage(p)
  PROVE  /\ m_emptyPages' \in SUBSET m_emptyPages
         /\ m_nextPage' \in Nat /\ m_nextPage <= m_nextPage'
         /\ p \notin Range(call.pages)
         /\ p \notin m_emptyPages'
         /\ p < m_nextPage'
         /\ \A i \in Page : m_pageIndex[i] # Nothing => p \notin Pages(m_pageIndex, i)
         /\ p \notin OldFrom(Len(call.pages) + 2)
         /\ OldFrom(Len(call.pages) + 2) \subseteq OldLeft
         /\ call.page # NewPage /\ call.pages = <<>> => p = call.page
<1>0. TypeOK /\ CallSound /\ MemorySound
  BY DEF IInv
<1>1. OldFrom(Len(call.pages) + 2) \subseteq OldLeft
  BY <1>0, CallTypes DEF OldFrom, OldLeft
<1>2. call.pages = <<>> => Len(call.pages) = 0
  OBVIOUS
<1>3. CASE ReusePage(p)
  <2>1. PICK k \in 1 .. Len(call.old) : k = Len(call.pages) + 1 /\ p = call.old[k]
    BY <1>0, <1>3, CallTypes DEF ReusePage
  <2>2. p \in OldLeft /\ p \in CallPages
    BY <1>0, <2>1, CallTypes DEF OldLeft, OldFrom, CallPages
  <2>3. p \notin OldFrom(Len(call.pages) + 2)
    <3> SUFFICES ASSUME NEW j \in Len(call.pages) + 2 .. Len(call.old), call.old[j] = p
                 PROVE  FALSE
      BY DEF OldFrom
    <3>1. j \in 1 .. Len(call.old) /\ j # k
      BY <1>0, <2>1, CallTypes
    <3>2. QED
      BY <1>0, <2>1, <3>1, CallTypes DEF CallSound, Distinct
  <2>4. call.page # NewPage /\ call.pages = <<>> => p = call.page
    BY <1>0, <1>2, <2>1 DEF CallSound
  <2>5. UNCHANGED <<m_emptyPages, m_nextPage>>
    BY <1>3 DEF ReusePage
  <2>6. QED
    BY <1>0, <1>1, <2>2, <2>3, <2>4, <2>5, CallTypes DEF CallSound
<1>4. CASE RecyclePage(p) \/ ExtendFile(p)
  <2>1. Len(call.pages) >= Len(call.old)
    BY <1>4 DEF RecyclePage, ExtendFile
  <2>2. OldFrom(Len(call.pages) + 2) = {}
    BY <1>0, <2>1, CallTypes DEF OldFrom
  <2>3. call.page # NewPage => call.pages # <<>>
    <3>1. call.page # NewPage => Len(call.old) >= 1
      BY <1>0, CallTypes, EmptySeq DEF CallSound
    <3>2. QED
      BY <1>0, <1>2, <2>1, <3>1, CallTypes
  <2>4. CASE RecyclePage(p)
    <3>1. p \in m_emptyPages /\ m_emptyPages' = m_emptyPages \ {p} /\ m_nextPage' = m_nextPage
      BY <2>4 DEF RecyclePage
    <3>2. p < m_nextPage /\ \A i \in Page : m_pageIndex[i] # Nothing => p \notin Pages(m_pageIndex, i)
      BY <1>0, <3>1 DEF MemorySound, Consistent
    <3>3. p \notin Range(call.pages)
      BY <1>0, <3>1 DEF CallSound, CallPages
    <3>4. QED
      BY <1>0, <1>1, <2>2, <2>3, <3>1, <3>2, <3>3, CallTypes
  <2>5. CASE ExtendFile(p)
    <3>1. p = m_nextPage /\ m_nextPage' = m_nextPage + 1 /\ m_emptyPages' = m_emptyPages /\ m_emptyPages = {}
      BY <2>5 DEF ExtendFile
    <3>2. ~(p < p)
      BY DiskStorageAssumption DEF Page
    <3>3. \A i \in Page : m_pageIndex[i] # Nothing => p \notin Pages(m_pageIndex, i)
      BY <1>0, <3>1, <3>2 DEF MemorySound, Consistent
    <3>4. p \notin Range(call.pages)
      BY <1>0, <3>1, <3>2 DEF CallSound, CallPages
    <3>5. QED
      BY <1>0, <1>1, <2>2, <2>3, <3>1, <3>3, <3>4, CallTypes
  <2>6. QED
    BY <1>4, <2>4, <2>5
<1>5. QED
  BY <1>3, <1>4 DEF TakePage

LEMMA TakePageSound ==
  ASSUME IInv, pc = "store", NEW p \in Page, TakePage(p), UNCHANGED m_pageIndex
  PROVE  MemorySound'
<1>1. TypeOK /\ MemorySound
  BY DEF IInv
<1>2. Consistent(m_pageIndex, m_emptyPages', m_nextPage')
  BY <1>1, TakePageEffect, TakeFree, CallTypes DEF MemorySound
<1>3. QED
  BY <1>1, <1>2 DEF MemorySound

LEMMA WritePageSound ==
  ASSUME IInv, WritePage
  PROVE  MemorySound' /\ CallSound'
<1>1. PICK p \in Page :
        /\ TakePage(p)
        /\ call' = [call EXCEPT !.pages = Append(@, p)]
  BY DEF WritePage
<1>2. /\ pc = "store"
      /\ UNCHANGED m_pageIndex
      /\ TypeOK
      /\ CallSound
  BY DEF WritePage, IInv
<1>3. /\ call'.pages = Append(call.pages, p)
      /\ call'.old = call.old
      /\ call'.page = call.page
  BY <1>1, <1>2 DEF TypeOK
<1> DEFINE n == Len(call.pages)
<1>4. /\ n \in Nat
      /\ call'.pages \in Seq(Page)
      /\ Len(call'.pages) = n + 1
      /\ DOMAIN call'.pages = 1 .. n + 1
      /\ \A k \in 1 .. n : call'.pages[k] = call.pages[k]
      /\ call'.pages[n + 1] = p
  BY <1>2, <1>3, CallTypes, AppendProperties, LenProperties
<1>a. n \in Nat /\ DOMAIN call.pages = 1 .. n /\ \A k \in 1 .. n : call.pages[k] \in Page
  BY <1>2, CallTypes
<1>b. Range(call.pages) = {call.pages[k] : k \in 1 .. n}
  BY <1>a DEF Range
<1>5. Range(call'.pages) = Range(call.pages) \cup {p}
  <2> HIDE DEF n
  <2>1. 1 .. n + 1 = (1 .. n) \cup {n + 1}
    BY <1>a
  <2>2. Range(call'.pages) = {call'.pages[k] : k \in (1 .. n) \cup {n + 1}}
    BY <1>4, <2>1 DEF Range
  <2>3. QED
    BY <1>4, <1>b, <2>2
<1>6. OldLeft' = OldFrom(n + 2)
  BY <1>3, <1>4 DEF OldLeft, OldFrom
<1>7. CallPages' \subseteq CallPages \cup {p}
  BY <1>1, <1>2, <1>5, <1>6, TakePageEffect DEF CallPages
<1>8. Distinct(call'.pages)
  <2>1. \A k \in 1 .. n : call.pages[k] # p
    BY <1>1, <1>2, <1>b, TakePageEffect
  <2>2. ASSUME NEW j \in 1 .. n + 1, NEW k \in 1 .. n + 1, call'.pages[j] = call'.pages[k]
        PROVE  j = k
    <3>1. CASE j \in 1 .. n /\ k \in 1 .. n
      <4>1. call.pages[j] = call.pages[k]
        BY <1>4, <2>2, <3>1
      <4>2. Distinct(call.pages)
        BY <1>2 DEF CallSound
      <4>3. QED
        BY <1>a, <3>1, <4>1, <4>2 DEF Distinct
    <3>2. CASE j = n + 1 \/ k = n + 1
      <4>1. \A m \in 1 .. n + 1 : m # n + 1 => m \in 1 .. n
        BY <1>4
      <4>2. QED
        BY <1>4, <2>1, <2>2, <3>2, <4>1
    <3>3. QED
      BY <1>4, <3>1, <3>2
  <2>3. QED
    BY <1>4, <2>2 DEF Distinct
<1>9. \A q \in Range(call'.pages) : q \notin OldLeft'
  BY <1>1, <1>2, <1>5, <1>6, TakePageEffect DEF CallSound
<1>10. \A q \in CallPages' :
         /\ q \notin m_emptyPages'
         /\ q < m_nextPage'
         /\ \A i \in Page : m_pageIndex'[i] # Nothing => q \notin Pages(m_pageIndex', i)
  <2>1. ASSUME NEW q \in CallPages
        PROVE  q < m_nextPage' /\ q \notin m_emptyPages'
    <3>1. q \in Page
      <4>1. \A k \in Len(call.pages) + 1 .. Len(call.old) : k \in 1 .. Len(call.old)
        BY <1>2, CallTypes
      <4>2. OldLeft \subseteq Page
        BY <1>2, <4>1, CallTypes DEF OldLeft, OldFrom
      <4>3. QED
        BY <1>a, <1>b, <4>2 DEF CallPages
    <3>2. q < m_nextPage /\ q \notin m_emptyPages
      BY <1>2 DEF CallSound
    <3>3. m_nextPage \in Nat /\ m_nextPage' \in Nat /\ m_nextPage <= m_nextPage' /\ m_emptyPages' \subseteq m_emptyPages
      BY <1>1, <1>2, CallTypes, TakePageEffect
    <3>4. QED
      BY <3>1, <3>2, <3>3, DiskStorageAssumption DEF Page
  <2>2. QED
    BY <1>1, <1>2, <1>7, <2>1, TakePageEffect DEF CallSound
<1>11. call'.page # NewPage =>
         /\ m_pageIndex'[call'.page] = Nothing
         /\ call'.old # <<>>
         /\ call'.old[1] = call'.page
         /\ call'.pages[1] = call'.page
  <2>1. CASE call.pages = <<>>
    BY <1>1, <1>2, <1>3, <1>4, <2>1, TakePageEffect DEF CallSound
  <2>2. CASE call.pages # <<>>
    <3>1. 1 \in 1 .. n
      BY <1>2, <2>2, CallTypes, EmptySeq
    <3>2. QED
      BY <1>2, <1>3, <1>4, <2>2, <3>1 DEF CallSound
  <2>3. QED
    BY <2>1, <2>2
<1>12. MemorySound'
  BY <1>1, <1>2, TakePageSound
<1>13. QED
  BY <1>3, <1>8, <1>9, <1>10, <1>11, <1>12, <1>2 DEF CallSound

------------------------------------------------------------------------------
(***************************************************************************)
(* The ends of a store.  An identifier that is a page of the call cannot   *)
(* be in use, since an entry in use owns the page it is named after.       *)
(***************************************************************************)
LEMMA InsertFresh ==
  ASSUME MemoryOK, NEW i \in Page, m_pageIndex[i] = Nothing, InsertEntry(i)
  PROVE  m_pageIndex' = [m_pageIndex EXCEPT ![i] = [len |-> call.len, pages |-> call.pages]]
BY DEF InsertEntry

LEMMA FirstPageIsFresh ==
  ASSUME IInv, pc = "store", NEW p \in CallPages, p \in Page
  PROVE  m_pageIndex[p] = Nothing
<1> SUFFICES ASSUME m_pageIndex[p] # Nothing
             PROVE  FALSE
  OBVIOUS
<1>1. m_pageIndex[p].pages # <<>> /\ m_pageIndex[p].pages[1] = p
  BY DEF IInv, MemorySound, FirstPages
<1>2. m_pageIndex[p].pages \in Seq(Page)
  BY CallTypes DEF IInv, Index, Entry
<1>3. 1 \in DOMAIN m_pageIndex[p].pages
  BY <1>1, <1>2, EmptySeq, LenProperties
<1>4. p \in Pages(m_pageIndex, p)
  BY <1>1, <1>3 DEF Pages, Range
<1>5. QED
  BY <1>4 DEF IInv, CallSound

LEMMA CallEntry ==
  ASSUME IInv, pc = "store", ~MorePages, call.len > 0
  PROVE  /\ [len |-> call.len, pages |-> call.pages] \in Entry
         /\ call.pages # <<>>
         /\ call.pages[1] \in Page
         /\ call.pages[1] \in Range(call.pages)
<1>1. TypeOK /\ call.len \in Length /\ call.len \in Nat
  BY DiskStorageAssumption DEF IInv, InProgress
<1>2. call.pages # <<>> /\ 1 \in DOMAIN call.pages /\ call.pages[1] \in Page
  BY <1>1, FirstPageTaken
<1>3. call.pages[1] \in Range(call.pages)
  BY <1>2 DEF Range
<1>4. QED
  BY <1>1, <1>2, <1>3, CallTypes DEF Entry

LEMMA FinishNewSound ==
  ASSUME IInv, FinishNew
  PROVE  /\ MemorySound'
         /\ m_pageIndex[call.pages[1]] = Nothing
         /\ reply' = Contract!Stored(call.pages[1])
<1> DEFINE entry == [len |-> call.len, pages |-> call.pages]
           page == call.pages[1]
           none == {}
<1>1. pc = "store" /\ call.len > 0 /\ ~MorePages /\ call.len \in Length
  BY DEF FinishNew, IInv, InProgress
<1>2. entry \in Entry /\ entry.pages = call.pages /\ call.pages # <<>>
      /\ page \in Page /\ page \in Range(call.pages)
  BY <1>1, CallEntry
<1>3. m_pageIndex[page] = Nothing
  BY <1>1, <1>2, FirstPageIsFresh DEF CallPages
<1>4. m_pageIndex' = [m_pageIndex EXCEPT ![page] = entry]
  BY <1>2, <1>3, InsertFresh, TypeOKHalves DEF FinishNew, IInv
<1>5. UNCHANGED <<m_emptyPages, m_nextPage>> /\ reply' = Contract!Stored(page)
  BY DEF FinishNew
<1>6. TypeOK /\ CallSound /\ MemorySound
  BY <1>1 DEF IInv
<1>7. \A p \in Range(entry.pages) \cup none :
        p < m_nextPage /\ \A j \in Page : m_pageIndex[j] # Nothing => p \notin Pages(m_pageIndex, j)
  BY <1>2, <1>6 DEF CallSound, CallPages
<1>8. \A p \in Range(entry.pages) : p \notin m_emptyPages /\ p \notin none
  BY <1>2, <1>6 DEF CallSound, CallPages
<1>9. Distinct(entry.pages) /\ entry.pages # <<>> /\ entry.pages[1] = page
  BY <1>2, <1>6 DEF CallSound
<1>a. none \in SUBSET Page
  OBVIOUS
<1> HIDE DEF entry, page, none
<1>10. LET with == [m_pageIndex EXCEPT ![page] = entry] IN
         /\ Consistent(with, m_emptyPages \cup none, m_nextPage)
         /\ FirstPages(with)
  BY <1>2, <1>3, <1>6, <1>7, <1>8, <1>9, <1>a, AddEntry, CallTypes DEF MemorySound
<1>11. m_emptyPages \cup none = m_emptyPages
  BY DEF none
<1>12. MemorySound'
  BY <1>4, <1>5, <1>10, <1>11 DEF MemorySound
<1>13. QED
  BY <1>3, <1>5, <1>12 DEF page

LEMMA FinishOldSound ==
  ASSUME IInv, NoEmptyEntities, FinishOld
  PROVE  MemorySound'
<1> DEFINE entry == [len |-> call.len, pages |-> call.pages]
           page == call.page
<1>1. pc = "store" /\ call.page # NewPage /\ ~MorePages /\ call.len \in Length
  BY DEF FinishOld, IInv, InProgress
<1>2. call.len > 0
  <2>1. call.len \in Nat
    BY <1>1, DiskStorageAssumption
  <2>2. call.len # 0
    BY <1>1 DEF NoEmptyEntities
  <2>3. QED
    BY <2>1, <2>2
<1>3. entry \in Entry /\ entry.pages = call.pages /\ call.pages # <<>>
  BY <1>1, <1>2, CallEntry
<1>4. TypeOK /\ CallSound /\ MemorySound
  BY <1>1 DEF IInv
<1>5. page \in Page /\ m_pageIndex[page] = Nothing /\ call.pages[1] = page
  BY <1>1, <1>3, <1>4 DEF CallSound, TypeOK
<1>6. m_pageIndex' = [m_pageIndex EXCEPT ![page] = entry]
  BY <1>4, <1>5, InsertFresh, TypeOKHalves DEF FinishOld
<1>7. FreedPages = OldLeft /\ m_emptyPages' = m_emptyPages \cup FreedPages /\ m_nextPage' = m_nextPage
  BY DEF FinishOld, FreedPages, OldLeft
<1>8. FreedPages \subseteq Page
  <2>1. \A k \in Len(call.pages) + 1 .. Len(call.old) : k \in 1 .. Len(call.old)
    BY <1>4, CallTypes
  <2>2. QED
    BY <1>4, <2>1, CallTypes DEF FreedPages, OldFrom
<1>9. \A p \in Range(entry.pages) \cup FreedPages :
        p < m_nextPage /\ \A j \in Page : m_pageIndex[j] # Nothing => p \notin Pages(m_pageIndex, j)
  BY <1>3, <1>4, <1>7 DEF CallSound, CallPages
<1>10. \A p \in Range(entry.pages) : p \notin m_emptyPages /\ p \notin FreedPages
  BY <1>3, <1>4, <1>7 DEF CallSound, CallPages
<1>11. Distinct(entry.pages) /\ entry.pages # <<>> /\ entry.pages[1] = page
  BY <1>3, <1>4, <1>5 DEF CallSound
<1> HIDE DEF entry, page
<1>12. LET with == [m_pageIndex EXCEPT ![page] = entry] IN
         /\ Consistent(with, m_emptyPages \cup FreedPages, m_nextPage)
         /\ FirstPages(with)
  BY <1>3, <1>4, <1>5, <1>8, <1>9, <1>10, <1>11, AddEntry, CallTypes DEF MemorySound
<1>13. QED
  BY <1>6, <1>7, <1>12 DEF MemorySound

------------------------------------------------------------------------------
(***************************************************************************)
(* Every step preserves the invariant.                                     *)
(***************************************************************************)
NoTable == Consistent(NoEntries, {}, 0) /\ FirstPages(NoEntries)

LEMMA NoEntriesSound == NoTable
BY DEF NoTable, Consistent, FirstPages, NoEntries

LEMMA OwnershipStep ==
  ASSUME IInv, NoEmptyEntities, [Next]_vars
  PROVE  MemorySound' /\ FileSound' /\ (pc' = "store" => CallSound')
<1>0. TypeOK /\ InProgress /\ MemorySound /\ FileSound
  BY DEF IInv
<1>1. ASSUME NEW v \in Val, NEW len \in Length, StoreNew(v, len)
      PROVE  MemorySound' /\ FileSound' /\ (pc' = "store" => CallSound')
  <2>1. /\ UNCHANGED <<m_pageIndex, m_emptyPages, m_nextPage, idx>>
        /\ call'.page = NewPage /\ call'.pages = <<>> /\ call'.old = <<>>
    BY <1>1 DEF StoreNew, memory, NoCall
  <2>2. Range(call'.pages) = {} /\ OldLeft' = {}
    BY <2>1 DEF Range, OldLeft, OldFrom
  <2>3. CallSound'
    BY <2>1, <2>2 DEF CallSound, CallPages, Distinct
  <2>4. QED
    BY <1>0, <2>1, <2>3 DEF MemorySound, FileSound
<1>2. ASSUME NEW i \in Page, NEW v \in Val, NEW len \in Length, StoreOld(i, v, len)
      PROVE  MemorySound' /\ FileSound' /\ (pc' = "store" => CallSound')
  <2>1. /\ m_pageIndex[i] # Nothing
        /\ m_pageIndex' = [m_pageIndex EXCEPT ![i] = Nothing]
        /\ UNCHANGED <<m_emptyPages, m_nextPage, idx>>
        /\ call'.page = i /\ call'.pages = <<>> /\ call'.old = m_pageIndex[i].pages
    BY <1>2 DEF StoreOld
  <2>2. MemorySound'
    BY <1>0, <2>1, RemoveEntry, CallTypes DEF MemorySound
  <2>3. Range(call'.pages) = {} /\ Len(call'.pages) = 0
    BY <2>1 DEF Range
  <2>4. m_pageIndex[i].pages \in Seq(Page)
    BY <1>0, <2>1, CallTypes DEF Index, Entry
  <2>5. OldLeft' \subseteq Pages(m_pageIndex, i)
    BY <2>1, <2>3, <2>4, LenProperties DEF OldLeft, OldFrom, Pages, Range
  <2>6. \A j \in Page : m_pageIndex'[j] = IF j = i THEN Nothing ELSE m_pageIndex[j]
    BY <1>0, <2>1, CallTypes DEF Index
  <2>7. \A p \in Pages(m_pageIndex, i) :
          /\ p \notin m_emptyPages
          /\ p < m_nextPage
          /\ \A j \in Page : m_pageIndex'[j] # Nothing => p \notin Pages(m_pageIndex', j)
    BY <1>0, <2>1, <2>6 DEF MemorySound, Consistent, Pages
  <2>8. Distinct(call'.old) /\ call'.old # <<>> /\ call'.old[1] = i
    BY <1>0, <2>1 DEF MemorySound, Consistent, FirstPages
  <2>9. Distinct(call'.pages)
    BY <2>1 DEF Distinct
  <2>10. CallSound'
    BY <2>1, <2>3, <2>5, <2>6, <2>7, <2>8, <2>9 DEF CallSound, CallPages
  <2>11. QED
    BY <1>0, <2>1, <2>2, <2>10 DEF FileSound
<1>3. CASE WritePage
  BY <1>0, <1>3, WritePageSound DEF WritePage, FileSound
<1>4. CASE WriteFails
  BY <1>0, <1>4, TakePageSound DEF WriteFails, FileSound
<1>5. CASE FinishNew
  BY <1>0, <1>5, FinishNewSound DEF FinishNew, FileSound
<1>6. CASE FinishOld
  BY <1>0, <1>6, FinishOldSound DEF FinishOld, FileSound
<1>7. ASSUME NEW i \in Page, Load(i) \/ LoadFails(i) \/ Refuse(i)
      PROVE  MemorySound' /\ FileSound' /\ (pc' = "store" => CallSound')
  BY <1>0, <1>7 DEF Load, LoadFails, Refuse, memory, MemorySound, FileSound
<1>8. ASSUME NEW i \in Page, Delete(i)
      PROVE  MemorySound' /\ FileSound' /\ (pc' = "store" => CallSound')
  <2>1. /\ m_pageIndex[i] # Nothing
        /\ m_pageIndex' = [m_pageIndex EXCEPT ![i] = Nothing]
        /\ m_emptyPages' = m_emptyPages \cup Pages(m_pageIndex, i)
        /\ UNCHANGED <<m_nextPage, idx, pc>>
    BY <1>8 DEF Delete, Pages, Range
  <2>2. MemorySound'
    BY <1>0, <2>1, RemoveEntry, CallTypes DEF MemorySound
  <2>3. QED
    BY <1>0, <1>8, <2>1, <2>2 DEF Delete, FileSound
<1>9. CASE FlushBegin
  BY <1>0, <1>9 DEF FlushBegin, memory, MemorySound, FileSound
<1>10. CASE FlushEnd
  <2>1. /\ UNCHANGED <<m_pageIndex, m_emptyPages, m_nextPage>>
        /\ idx' = Snapshot
        /\ pc' = "idle"
    BY <1>10 DEF FlushEnd, memory
  <2>2. QED
    BY <1>0, <2>1, SnapshotType DEF MemorySound, FileSound
<1>11. CASE CrashAndReopen
  <2>1. idx # Torn /\ UNCHANGED idx /\ pc' = "idle"
    BY <1>0, <1>11 DEF CrashAndReopen, InProgress
  <2>2. CASE idx = Nothing
    BY <1>0, <1>11, <2>1, <2>2, NoEntriesSound
       DEF CrashAndReopen, OpenFiles, MemorySound, FileSound, NoTable
  <2>3. CASE idx # Nothing
    BY <1>0, <1>11, <2>1, <2>3 DEF CrashAndReopen, OpenFiles, MemorySound, FileSound
  <2>4. QED
    BY <2>2, <2>3
<1>12. CASE CrashInFlush
  BY <1>0, <1>12 DEF CrashInFlush, memory, MemorySound, FileSound
<1>13. CASE Overwrite
  BY <1>13, NoEntriesSound DEF Overwrite, MemorySound, FileSound, NoTable
<1>14. CASE UNCHANGED vars
  BY <1>0, <1>14 DEF vars, memory, IInv, MemorySound, FileSound, CallSound,
                    CallPages, OldLeft, OldFrom
<1>15. QED
  BY <1>1, <1>2, <1>3, <1>4, <1>5, <1>6, <1>7, <1>8, <1>9, <1>10, <1>11, <1>12, <1>13, <1>14
     DEF Next

LEMMA Invariant ==
  ASSUME NoEmptyEntities
  PROVE  Spec => []IInv
<1>1. Init => IInv
  <2> SUFFICES ASSUME Init
               PROVE  IInv
    OBVIOUS
  <2>1. MemorySound /\ FileSound /\ pc # "store"
    BY NoEntriesSound DEF Init, MemorySound, FileSound, NoTable
  <2>2. QED
    BY <2>1, InitTypes DEF IInv
<1>2. IInv /\ [Next]_vars => IInv'
  <2> SUFFICES ASSUME IInv, [Next]_vars
               PROVE  IInv'
    OBVIOUS
  <2>1. TypeOK' /\ InProgress'
    BY TypeStep DEF IInv
  <2>2. MemorySound' /\ FileSound' /\ (pc' = "store" => CallSound')
    BY OwnershipStep
  <2>3. QED
    BY <2>1, <2>2 DEF IInv
<1>3. QED
  BY <1>1, <1>2, PTL DEF Spec

(***************************************************************************)
(* No page of the file ever has two owners, in memory, in the index file   *)
(* or while a store is half done, for any page size, any file, and any     *)
(* failed writes, crashes and restarts.                                    *)
(***************************************************************************)
THEOREM OneOwner ==
  ASSUME NoEmptyEntities
  PROVE  Spec => []PagesHaveOneOwner
<1>1. IInv => PagesHaveOneOwner
  BY InvariantImplies
<1>2. QED
  BY <1>1, Invariant, PTL

(***************************************************************************)
(* An identifier is always the first page of its entry.                    *)
(***************************************************************************)
THEOREM FirstPage ==
  ASSUME NoEmptyEntities
  PROVE  Spec => []IdentifierIsFirstPage
<1>1. IInv => IdentifierIsFirstPage
  BY InvariantImplies
<1>2. QED
  BY <1>1, Invariant, PTL

(***************************************************************************)
(* The three together, which is what is model-checked.                     *)
(***************************************************************************)
THEOREM TableSound ==
  ASSUME NoEmptyEntities
  PROVE  Spec => []IndexTableSound
BY TypeCorrect, OneOwner, FirstPage, PTL DEF IndexTableSound

(***************************************************************************)
(* Storing under NewPage never returns an identifier that is in use,       *)
(* although storeByteArray never looks whether it is.                      *)
(***************************************************************************)
THEOREM FreshIdentifiers ==
  ASSUME NoEmptyEntities
  PROVE  Spec => NewIdentifiersAreFresh
<1>1. ASSUME IInv, [Next]_vars, NEW i \in Page, pc = "store", call.page = NewPage,
             pc' = "idle", reply' = Contract!Stored(i)
      PROVE  m_pageIndex[i] = Nothing
  <2>1. CASE FinishNew
    <3>1. Contract!Stored(call.pages[1]) = Contract!Stored(i)
      BY <1>1, <2>1, FinishNewSound
    <3>2. call.pages[1] = i
      BY <3>1 DEF Contract!Stored
    <3>3. QED
      BY <1>1, <2>1, <3>2, FinishNewSound
  <2>2. CASE WriteFails \/ CrashAndReopen
    BY <1>1, <2>2 DEF WriteFails, CrashAndReopen, Contract!Stored
  <2>3. QED
    BY <1>1, <2>1, <2>2 DEF Next, vars, StoreNew, StoreOld, WritePage, FinishOld, Load, LoadFails, Delete,
                            Refuse, FlushBegin, FlushEnd, CrashInFlush, Overwrite
<1>2. IInv /\ [Next]_vars =>
        [ \A i \in Page :
            pc = "store" /\ call.page = NewPage /\ pc' = "idle" /\ reply' = Contract!Stored(i)
              => m_pageIndex[i] = Nothing ]_vars
  BY <1>1
<1>3. QED
  BY <1>2, Invariant, PTL DEF Spec, NewIdentifiersAreFresh

------------------------------------------------------------------------------
(***************************************************************************)
(* What a crash must leave alone.  The contents of an untouched entity are *)
(* safe because its entry in memory is still the one of the index file:    *)
(* its pages are in use, and no store takes pages in use.                  *)
(***************************************************************************)
Intact ==
  idx \notin {Nothing, Torn} =>
    \A i \in Page \ vouched.touched :
      /\ m_pageIndex[i] = idx.pageIndex[i]
      /\ Contents(m_pageIndex[i]) = vouched.view[i]

\* The identifier of an overwrite under way counts as touched.
CallTouches == pc = "store" /\ call.page # NewPage => call.page \in vouched.touched

CrashInv == IInv /\ Intact /\ CallTouches

\* Writing on a page that no entry owns changes the contents of no entry.
LEMMA UnownedPage ==
  ASSUME TypeOK, NEW p \in Page, NEW piece,
         dat' = [dat EXCEPT ![p] = piece], UNCHANGED m_pageIndex,
         NEW i \in Page, m_pageIndex[i] # Nothing => p \notin Pages(m_pageIndex, i)
  PROVE  Contents(m_pageIndex[i])' = Contents(m_pageIndex[i])
<1>1. CASE m_pageIndex[i] = Nothing
  BY <1>1 DEF Contents
<1>2. CASE m_pageIndex[i] # Nothing
  <2> DEFINE pages == m_pageIndex[i].pages
  <2>1. pages \in Seq(Page)
    BY <1>2, CallTypes DEF Index, Entry
  <2>2. \A k \in DOMAIN pages : pages[k] \in Page /\ pages[k] # p
    BY <1>2, <2>1, LenProperties, ElementOfSeq DEF Pages, Range
  <2>3. dat \in [Page -> Piece \cup {Nothing}]
    BY DEF TypeOK
  <2> HIDE DEF pages
  <2>4. \A k \in DOMAIN pages : dat'[pages[k]] = dat[pages[k]]
    BY <2>2, <2>3
  <2>5. [k \in DOMAIN pages |-> dat'[pages[k]]] = [k \in DOMAIN pages |-> dat[pages[k]]]
    BY <2>4
  <2>6. QED
    BY <1>2, <2>5 DEF Contents, pages
<1>3. QED
  BY <1>1, <1>2

\* A step that changes only touched entries, and no page that is written.
LEMMA OthersIntact ==
  ASSUME Intact, UNCHANGED <<dat, idx>>,
         vouched'.view = vouched.view, vouched.touched \subseteq vouched'.touched,
         \A i \in Page \ vouched'.touched : m_pageIndex'[i] = m_pageIndex[i]
  PROVE  Intact'
<1>1. ASSUME NEW i \in Page \ vouched'.touched
      PROVE  Contents(m_pageIndex[i])' = Contents(m_pageIndex[i])
  BY <1>1 DEF Contents
<1>2. QED
  BY <1>1 DEF Intact

LEMMA TouchEffect ==
  ASSUME TypeOK, NEW i \in Page, Touch(i)
  PROVE  vouched'.view = vouched.view /\ vouched'.touched = vouched.touched \cup {i}
BY DEF TypeOK, Touch

LEMMA IntactStep ==
  ASSUME CrashInv, [Next]_vars
  PROVE  Intact' /\ CallTouches'
<1>0. IInv /\ TypeOK /\ InProgress /\ MemorySound /\ Intact /\ CallTouches
  BY DEF CrashInv, IInv
<1>1. ASSUME NEW v \in Val, NEW len \in Length, StoreNew(v, len)
      PROVE  Intact' /\ CallTouches'
  BY <1>0, <1>1, OthersIntact DEF StoreNew, memory, NoCall, CallTouches
<1>2. ASSUME NEW i \in Page, NEW v \in Val, NEW len \in Length, StoreOld(i, v, len)
      PROVE  Intact' /\ CallTouches'
  <2>1. vouched'.view = vouched.view /\ vouched'.touched = vouched.touched \cup {i}
    BY <1>0, <1>2, TouchEffect DEF StoreOld
  <2>2. \A j \in Page \ vouched'.touched : m_pageIndex'[j] = m_pageIndex[j]
    BY <1>0, <1>2, <2>1, CallTypes DEF StoreOld, Index
  <2>3. Intact'
    BY <1>0, <1>2, <2>1, <2>2, OthersIntact DEF StoreOld
  <2>4. QED
    BY <1>2, <2>1, <2>3 DEF StoreOld, CallTouches
<1>3. CASE WritePage
  <2>1. PICK p \in Page :
          /\ TakePage(p)
          /\ dat' = [dat EXCEPT ![p] = <<call.val, Len(call.pages) + 1>>]
          /\ call' = [call EXCEPT !.pages = Append(@, p)]
    BY <1>3 DEF WritePage
  <2>2. pc = "store" /\ UNCHANGED <<pc, m_pageIndex, idx, vouched>>
    BY <1>3 DEF WritePage
  <2>3. \A i \in Page : m_pageIndex[i] # Nothing => p \notin Pages(m_pageIndex, i)
    BY <1>0, <2>1, <2>2, TakePageEffect
  <2>4. \A i \in Page : Contents(m_pageIndex[i])' = Contents(m_pageIndex[i])
    BY <1>0, <2>1, <2>2, <2>3, UnownedPage
  <2>5. Intact'
    BY <1>0, <2>2, <2>4 DEF Intact
  <2>6. call'.page = call.page
    BY <1>0, <2>1 DEF TypeOK
  <2>7. QED
    BY <1>0, <2>2, <2>5, <2>6 DEF CallTouches
<1>4. CASE WriteFails
  <2>1. UNCHANGED <<m_pageIndex, dat, idx, vouched>> /\ pc' = "idle"
    BY <1>4 DEF WriteFails
  <2>2. QED
    BY <1>0, <2>1, OthersIntact DEF CallTouches
<1>5. CASE FinishNew
  <2> DEFINE page == call.pages[1]
  <2>1. page \in Page /\ m_pageIndex[page] = Nothing
    BY <1>0, <1>5, CallEntry, FinishNewSound DEF FinishNew, InProgress
  <2>2. vouched'.view = vouched.view /\ vouched'.touched = vouched.touched \cup {page}
    BY <1>0, <1>5, <2>1, TouchEffect DEF FinishNew
  <2>3. InsertEntry(page) /\ UNCHANGED <<dat, idx>> /\ pc' = "idle"
    BY <1>5 DEF FinishNew
  <2> HIDE DEF page
  <2>4. \A j \in Page \ vouched'.touched : m_pageIndex'[j] = m_pageIndex[j]
    BY <1>0, <2>1, <2>2, <2>3, CallTypes DEF InsertEntry, Index
  <2>5. QED
    BY <1>0, <2>2, <2>3, <2>4, OthersIntact DEF CallTouches
<1>6. CASE FinishOld
  <2>1. InsertEntry(call.page) /\ UNCHANGED <<dat, idx, vouched>> /\ pc' = "idle"
    BY <1>6 DEF FinishOld
  <2>2. call.page \in vouched.touched
    BY <1>0, <1>6 DEF FinishOld, CallTouches
  <2>3. \A j \in Page \ vouched'.touched : m_pageIndex'[j] = m_pageIndex[j]
    BY <1>0, <2>1, <2>2, CallTypes DEF InsertEntry, Index
  <2>4. QED
    BY <1>0, <2>1, <2>3, OthersIntact DEF CallTouches
<1>7. ASSUME NEW i \in Page, Load(i) \/ LoadFails(i) \/ Refuse(i)
      PROVE  Intact' /\ CallTouches'
  <2>1. UNCHANGED <<m_pageIndex, dat, idx, vouched, pc, call>>
    BY <1>7 DEF Load, LoadFails, Refuse, memory
  <2>2. QED
    BY <1>0, <2>1, OthersIntact DEF CallTouches
<1>8. ASSUME NEW i \in Page, Delete(i)
      PROVE  Intact' /\ CallTouches'
  <2>1. vouched'.view = vouched.view /\ vouched'.touched = vouched.touched \cup {i}
    BY <1>0, <1>8, TouchEffect DEF Delete
  <2>2. \A j \in Page \ vouched'.touched : m_pageIndex'[j] = m_pageIndex[j]
    BY <1>0, <1>8, <2>1, CallTypes DEF Delete, Index
  <2>3. QED
    BY <1>0, <1>8, <2>1, <2>2, OthersIntact DEF Delete, CallTouches
<1>9. CASE FlushBegin
  BY <1>9 DEF FlushBegin, Intact, CallTouches
<1>10. CASE FlushEnd
  <2>1. /\ UNCHANGED <<m_pageIndex, dat>>
        /\ idx' = Snapshot
        /\ vouched' = [view |-> View, touched |-> {}]
        /\ pc = "flush" /\ pc' = "idle"
    BY <1>10 DEF FlushEnd, memory
  <2>2. \A i \in Page : View[i] = Contents(m_pageIndex[i])
    BY <2>1 DEF View
  <2>3. \A i \in Page : Contents(m_pageIndex[i])' = Contents(m_pageIndex[i])
    BY <2>1 DEF Contents
  <2>4. QED
    BY <2>1, <2>2, <2>3, SnapshotType DEF Intact, CallTouches
<1>11. CASE CrashAndReopen
  <2>1. UNCHANGED <<dat, idx, vouched>> /\ OpenFiles /\ pc' = "idle"
    BY <1>11 DEF CrashAndReopen
  <2>2. ASSUME idx \notin {Nothing, Torn}, NEW i \in Page \ vouched.touched
        PROVE  m_pageIndex'[i] = m_pageIndex[i]
    BY <1>0, <2>1, <2>2 DEF OpenFiles, Intact
  <2>3. ASSUME idx \notin {Nothing, Torn}, NEW i \in Page \ vouched.touched
        PROVE  Contents(m_pageIndex[i])' = Contents(m_pageIndex[i])
    BY <2>1, <2>2, <2>3 DEF Contents
  <2>4. QED
    BY <1>0, <2>1, <2>2, <2>3 DEF Intact, CallTouches
<1>12. CASE CrashInFlush
  <2>1. UNCHANGED <<m_pageIndex, dat, idx, vouched>> /\ pc' = "down"
    BY <1>12 DEF CrashInFlush, memory
  <2>2. QED
    BY <1>0, <2>1, OthersIntact DEF CallTouches
<1>13. CASE Overwrite
  BY <1>13 DEF Overwrite, Intact, CallTouches
<1>14. CASE UNCHANGED vars
  BY <1>0, <1>14, OthersIntact DEF vars, memory, CallTouches
<1>15. QED
  BY <1>1, <1>2, <1>3, <1>4, <1>5, <1>6, <1>7, <1>8, <1>9, <1>10, <1>11, <1>12, <1>13, <1>14
     DEF Next

(***************************************************************************)
(* An entity that was neither stored nor deleted since the last flush is   *)
(* intact in the files at every moment, whatever is stored around it and   *)
(* wherever a write fails or the process dies.                             *)
(***************************************************************************)
THEOREM UntouchedSurvive ==
  ASSUME NoEmptyEntities
  PROVE  Spec => []UntouchedEntitiesSurviveCrash
<1>1. Init => Intact /\ CallTouches
  BY DEF Init, Intact, CallTouches
<1>2. CrashInv /\ [Next]_vars => Intact' /\ CallTouches'
  BY IntactStep
<1>3. CrashInv => UntouchedEntitiesSurviveCrash
  BY DEF CrashInv, Intact, UntouchedEntitiesSurviveCrash
<1>4. QED
  BY <1>1, <1>2, <1>3, Invariant, PTL DEF Spec, CrashInv

------------------------------------------------------------------------------
(***************************************************************************)
(* No page is lost.  The claim is about the manager's memory; it needs the *)
(* same of the index file, which a restart makes the memory, and of the    *)
(* call in progress, which holds the pages it took and the pages of the    *)
(* old entry it has not used yet.                                          *)
(***************************************************************************)
Accounted(index, empty, next, more) ==
  \A p \in Page : p < next =>
    \/ p \in empty
    \/ \E i \in Page : index[i] # Nothing /\ p \in Pages(index, i)
    \/ p \in more

InFlight == IF pc = "store" THEN CallPages ELSE {}

NothingLost ==
  /\ datFails = FALSE
  /\ Accounted(m_pageIndex, m_emptyPages, m_nextPage, InFlight)
  /\ idx \notin {Nothing, Torn} => Accounted(idx.pageIndex, idx.emptyPages, idx.nextPage, {})
  /\ pc = "store" /\ call.page = NewPage => call.old = <<>>

\* The pages of a call after one more page was written: those it had, and that
\* page.
LEMMA WritePageTakes ==
  ASSUME IInv, WritePage
  PROVE  /\ UNCHANGED <<pc, m_pageIndex, datFails, idx, reply, vouched>>
         /\ call'.page = call.page /\ call'.old = call.old /\ call'.val = call.val
         /\ call'.len = call.len /\ call'.before = call.before
         /\ \E p \in Page :
              /\ TakePage(p)
              /\ call'.pages = Append(call.pages, p)
              /\ dat' = [dat EXCEPT ![p] = <<call.val, Len(call.pages) + 1>>]
              /\ p \in CallPages'
              /\ CallPages \subseteq CallPages'
<1>1. PICK p \in Page :
        /\ TakePage(p)
        /\ dat' = [dat EXCEPT ![p] = <<call.val, Len(call.pages) + 1>>]
        /\ call' = [call EXCEPT !.pages = Append(@, p)]
  BY DEF WritePage
<1>2. pc = "store" /\ UNCHANGED <<pc, m_pageIndex, datFails, idx, reply, vouched>> /\ TypeOK /\ CallSound
  BY DEF WritePage, IInv
<1>3. /\ call'.pages = Append(call.pages, p) /\ call'.old = call.old
      /\ call'.page = call.page /\ call'.val = call.val
      /\ call'.len = call.len /\ call'.before = call.before
  BY <1>1, <1>2 DEF TypeOK
<1> DEFINE n == Len(call.pages)
<1>4. /\ n \in Nat
      /\ Len(call'.pages) = n + 1
      /\ DOMAIN call'.pages = 1 .. n + 1
      /\ DOMAIN call.pages = 1 .. n
      /\ \A k \in 1 .. n : call'.pages[k] = call.pages[k]
      /\ call'.pages[n + 1] = p
  BY <1>2, <1>3, CallTypes, AppendProperties, LenProperties
<1>5. p \in Range(call'.pages)
  BY <1>4 DEF Range
<1>6. Range(call.pages) \subseteq Range(call'.pages)
  <2>1. ASSUME NEW k \in 1 .. n
        PROVE  call.pages[k] \in Range(call'.pages)
    <3>1. k \in 1 .. n + 1
      BY <1>4
    <3>2. QED
      BY <1>4, <3>1 DEF Range
  <2>2. QED
    BY <1>4, <2>1 DEF Range
<1>7. OldLeft \subseteq Range(call'.pages) \cup OldLeft'
  <2>1. ASSUME NEW k \in n + 1 .. Len(call.old)
        PROVE  call.old[k] \in Range(call'.pages) \cup OldLeft'
    <3>1. CASE k = n + 1
      <4>1. ~(n >= Len(call.old))
        BY <1>2, <1>4, <3>1, CallTypes
      <4>2. p = call.old[n + 1]
        BY <1>1, <4>1 DEF TakePage, ReusePage, RecyclePage, ExtendFile
      <4>3. QED
        BY <1>5, <3>1, <4>2
    <3>2. CASE k # n + 1
      <4>1. k \in Len(call'.pages) + 1 .. Len(call'.old)
        BY <1>2, <1>3, <1>4, <3>2, CallTypes
      <4>2. QED
        BY <1>3, <4>1 DEF OldLeft, OldFrom
    <3>3. QED
      BY <3>1, <3>2
  <2>2. QED
    BY <2>1 DEF OldLeft, OldFrom
<1>8. p \in CallPages' /\ CallPages \subseteq CallPages'
  BY <1>5, <1>6, <1>7 DEF CallPages
<1>9. QED
  BY <1>1, <1>2, <1>3, <1>8

\* A table that is not in use owns no page and ends at its beginning.
LEMMA NoEntriesAccounted == Accounted(NoEntries, {}, 0, {})
BY DEF Accounted, Page

LEMMA NothingLostStep ==
  ASSUME IInv, NothingLost, NoEmptyEntities, "io" \notin Faults, [Next]_vars
  PROVE  NothingLost'
<1>0. TypeOK /\ InProgress /\ MemorySound
  BY DEF IInv
<1>1. ASSUME NEW v \in Val, NEW len \in Length, StoreNew(v, len)
      PROVE  NothingLost'
  BY <1>1 DEF StoreNew, memory, NoCall, NothingLost, Accounted, InFlight
<1>2. ASSUME NEW i \in Page, NEW v \in Val, NEW len \in Length, StoreOld(i, v, len)
      PROVE  NothingLost'
  <2>1. /\ m_pageIndex[i] # Nothing /\ pc = "idle" /\ pc' = "store"
        /\ UNCHANGED <<m_emptyPages, m_nextPage, datFails, idx>>
        /\ call'.page = i /\ call'.pages = <<>> /\ call'.old = m_pageIndex[i].pages
        /\ m_pageIndex' = [m_pageIndex EXCEPT ![i] = Nothing]
    BY <1>2 DEF StoreOld
  <2>2. m_pageIndex[i].pages \in Seq(Page)
    BY <1>0, <2>1, CallTypes DEF Index, Entry
  <2>3. OldLeft' = Pages(m_pageIndex, i)
    BY <2>1, <2>2, LenProperties DEF OldLeft, OldFrom, Pages, Range
  <2>4. \A j \in Page : m_pageIndex'[j] = IF j = i THEN Nothing ELSE m_pageIndex[j]
    BY <1>0, <2>1, CallTypes DEF Index
  <2>5. InFlight = {} /\ Pages(m_pageIndex, i) \subseteq InFlight'
    BY <2>1, <2>3 DEF InFlight, CallPages
  <2>6. Accounted(m_pageIndex', m_emptyPages', m_nextPage', InFlight')
    BY <2>1, <2>4, <2>5 DEF NothingLost, Accounted, Pages
  <2>7. i # NewPage
    BY DEF Page, NewPage
  <2>8. QED
    BY <2>1, <2>6, <2>7 DEF NothingLost
<1>3. CASE WritePage
  <2>1. /\ UNCHANGED <<pc, m_pageIndex, datFails, idx>>
        /\ call'.page = call.page /\ call'.old = call.old
    BY <1>3, WritePageTakes DEF IInv
  <2>2. PICK p \in Page : TakePage(p) /\ p \in CallPages' /\ CallPages \subseteq CallPages'
    BY <1>3, WritePageTakes
  <2>3. pc = "store" /\ InFlight = CallPages /\ InFlight' = CallPages'
    BY <1>3, <2>1 DEF WritePage, InFlight
  <2>4. ASSUME NEW q \in Page, q < m_nextPage'
        PROVE  \/ q < m_nextPage /\ (q \in m_emptyPages => q \in m_emptyPages')
               \/ q = p
    <3>1. CASE ReusePage(p) \/ RecyclePage(p)
      BY <2>4, <3>1 DEF ReusePage, RecyclePage
    <3>2. CASE ExtendFile(p)
      <4>1. m_nextPage \in Nat /\ q \in Nat /\ p = m_nextPage /\ q < m_nextPage + 1 /\ m_emptyPages = {}
        BY <1>0, <2>4, <3>2, CallTypes, DiskStorageAssumption DEF ExtendFile, Page
      <4>2. QED
        BY <4>1
    <3>3. QED
      BY <2>2, <3>1, <3>2 DEF TakePage
  <2>5. Accounted(m_pageIndex', m_emptyPages', m_nextPage', InFlight')
    BY <2>1, <2>2, <2>3, <2>4 DEF NothingLost, Accounted
  <2>6. QED
    BY <2>1, <2>5 DEF NothingLost
<1>4. ~WriteFails /\ \A i \in Page : ~LoadFails(i)
  BY DEF WriteFails, LoadFails, MayFail, NothingLost
<1>5. CASE FinishNew
  <2> DEFINE page == call.pages[1]
  <2>1. /\ pc = "store" /\ pc' = "idle" /\ call.page = NewPage /\ InsertEntry(page)
        /\ UNCHANGED <<m_emptyPages, m_nextPage, datFails, idx>>
    BY <1>5 DEF FinishNew
  <2>2. page \in Page /\ m_pageIndex[page] = Nothing
    BY <1>0, <1>5, CallEntry, FinishNewSound DEF FinishNew, InProgress
  <2> HIDE DEF page
  <2>3. \A j \in Page : m_pageIndex'[j] =
          IF j = page THEN [len |-> call.len, pages |-> call.pages] ELSE m_pageIndex[j]
    BY <1>0, <2>1, <2>2, CallTypes DEF InsertEntry, Index
  <2>4. [len |-> call.len, pages |-> call.pages] # Nothing
    BY <1>0, <1>5, <2>1, CallEntry, EntryIsSomething DEF FinishNew, InProgress
  <2>5. call.old = <<>> /\ Len(call.old) = 0
    BY <2>1 DEF NothingLost
  <2>6. OldLeft = {}
    BY <1>0, <2>5, CallTypes DEF OldLeft, OldFrom
  <2>7. InFlight \subseteq Range(call.pages)
    BY <2>6 DEF InFlight, CallPages
  <2>8. Accounted(m_pageIndex', m_emptyPages', m_nextPage', InFlight')
    BY <2>1, <2>2, <2>3, <2>4, <2>7 DEF NothingLost, Accounted, Pages
  <2>9. QED
    BY <2>1, <2>8 DEF NothingLost
<1>6. CASE FinishOld
  <2>1. /\ pc = "store" /\ pc' = "idle" /\ call.page # NewPage /\ InsertEntry(call.page)
        /\ m_emptyPages' = m_emptyPages \cup OldLeft
        /\ UNCHANGED <<m_nextPage, datFails, idx>>
    BY <1>6 DEF FinishOld, FreedPages, OldLeft
  <2>2. call.page \in Page /\ m_pageIndex[call.page] = Nothing
    BY <1>0, <2>1 DEF TypeOK, IInv, CallSound
  <2>3. \A j \in Page : m_pageIndex'[j] =
          IF j = call.page THEN [len |-> call.len, pages |-> call.pages] ELSE m_pageIndex[j]
    BY <1>0, <2>1, <2>2, CallTypes DEF InsertEntry, Index
  <2>4. [len |-> call.len, pages |-> call.pages] # Nothing
    <3>1. call.len \in Length
      BY <1>0, <2>1 DEF InProgress
    <3>2. [len |-> call.len, pages |-> call.pages] \in Entry
      BY <1>0, <3>1, CallTypes DEF Entry
    <3>3. QED
      BY <3>2, EntryIsSomething
  <2>5. InFlight = Range(call.pages) \cup OldLeft
    BY <2>1 DEF InFlight, CallPages
  <2>6. Accounted(m_pageIndex', m_emptyPages', m_nextPage', InFlight')
    BY <2>1, <2>2, <2>3, <2>4, <2>5 DEF NothingLost, Accounted, Pages
  <2>7. QED
    BY <2>1, <2>6 DEF NothingLost
<1>7. ASSUME NEW i \in Page, Load(i) \/ Refuse(i)
      PROVE  NothingLost'
  BY <1>7 DEF Load, Refuse, memory, NothingLost, InFlight
<1>8. ASSUME NEW i \in Page, Delete(i)
      PROVE  NothingLost'
  <2>1. /\ m_pageIndex[i] # Nothing
        /\ pc = "idle" /\ UNCHANGED <<pc, m_nextPage, datFails, idx>>
        /\ m_pageIndex' = [m_pageIndex EXCEPT ![i] = Nothing]
        /\ m_emptyPages' = m_emptyPages \cup Pages(m_pageIndex, i)
    BY <1>8 DEF Delete, Pages, Range
  <2>2. \A j \in Page : m_pageIndex'[j] = IF j = i THEN Nothing ELSE m_pageIndex[j]
    BY <1>0, <2>1, CallTypes DEF Index
  <2>3. InFlight = {} /\ InFlight' = {}
    BY <2>1 DEF InFlight
  <2>4. Accounted(m_pageIndex', m_emptyPages', m_nextPage', InFlight')
    BY <2>1, <2>2, <2>3 DEF NothingLost, Accounted, Pages
  <2>5. QED
    BY <2>1, <2>4 DEF NothingLost
<1>9. CASE FlushBegin \/ CrashInFlush
  BY <1>9 DEF FlushBegin, CrashInFlush, memory, NothingLost, InFlight
<1>10. CASE FlushEnd
  <2>1. /\ UNCHANGED <<m_pageIndex, m_emptyPages, m_nextPage, datFails>>
        /\ idx' = Snapshot
        /\ pc = "flush" /\ pc' = "idle"
    BY <1>10 DEF FlushEnd, memory
  <2>2. QED
    BY <2>1, SnapshotType DEF NothingLost, InFlight
<1>11. CASE CrashAndReopen
  <2>1. OpenFiles /\ datFails' = FALSE /\ pc' = "idle" /\ idx' = idx /\ idx # Torn
    BY <1>0, <1>11 DEF CrashAndReopen, InProgress
  <2>2. CASE idx = Nothing
    BY <2>1, <2>2, NoEntriesAccounted DEF OpenFiles, NothingLost, InFlight
  <2>3. CASE idx # Nothing
    BY <2>1, <2>3 DEF OpenFiles, NothingLost, InFlight
  <2>4. QED
    BY <2>2, <2>3
<1>12. CASE Overwrite
  BY <1>12, NoEntriesAccounted DEF Overwrite, NothingLost, InFlight
<1>13. CASE UNCHANGED vars
  BY <1>13 DEF vars, memory, NothingLost, InFlight, CallPages, OldLeft, OldFrom
<1>14. QED
  BY <1>1, <1>2, <1>3, <1>4, <1>5, <1>6, <1>7, <1>8, <1>9, <1>10, <1>11, <1>12, <1>13 DEF Next

(***************************************************************************)
(* As long as no I/O fails, whatever lies before the end of the .dat file  *)
(* is free, or belongs to an entry or to the call in progress, through any *)
(* crash and restart.                                                      *)
(***************************************************************************)
THEOREM NoLeak ==
  ASSUME NoEmptyEntities, "io" \notin Faults
  PROVE  Spec => []NoPageIsLost
<1>1. Init => NothingLost
  BY NoEntriesAccounted DEF Init, NothingLost, InFlight
<1>2. IInv /\ NothingLost /\ [Next]_vars => NothingLost'
  BY NothingLostStep
<1>3. IInv /\ NothingLost => NoPageIsLost
  <2> SUFFICES ASSUME IInv, NothingLost, NEW p \in 0 .. m_nextPage - 1
               PROVE  \/ p \in m_emptyPages
                      \/ \E i \in LiveIn(Snapshot) : p \in PagesIn(Snapshot, i)
                      \/ pc = "store" /\ p \in CallPages
    BY DEF NoPageIsLost
  <2>1. m_nextPage \in 0 .. MaxPages
    BY SnapshotType DEF IInv, TypeOK
  <2>2. p \in Page /\ p < m_nextPage
    BY <2>1, DiskStorageAssumption DEF Page
  <2>3. QED
    BY <2>2, SnapshotType DEF NothingLost, Accounted, InFlight, LiveIn, PagesIn, Pages
<1>4. QED
  BY <1>1, <1>2, <1>3, Invariant, PTL DEF Spec

------------------------------------------------------------------------------
(***************************************************************************)
(* Without faults the manager implements PageStore.  What the refinement   *)
(* needs beyond ownership is what the pages hold: those of an entry the    *)
(* pieces of one entity in order, those of the call in progress the pieces *)
(* written so far.                                                         *)
(***************************************************************************)
Entities == {Image(v, n) : v \in Val, n \in Length}

WholeEntries == \A i \in Page : m_pageIndex[i] # Nothing => Contents(m_pageIndex[i]) \in Entities

WholeCall ==
  /\ Len(call.pages) <= PagesNeeded(call.len)
  /\ \A k \in 1 .. Len(call.pages) : dat[call.pages[k]] = <<call.val, k>>
  /\ call.page # NewPage => call.before \in Entities

Faithful ==
  /\ pc \in {"idle", "store"}
  /\ datFails = FALSE
  /\ WholeEntries
  /\ pc = "store" => WholeCall

LEMMA PagesNeededType ==
  ASSUME NEW len \in Nat
  PROVE  PagesNeeded(len) \in Nat
<1>1. PICK size \in Nat \ {0} : size = PageSize
  BY DiskStorageAssumption
<1>2. PICK n \in Nat : n = len + size - 1
  BY <1>1
<1>3. n \div size \in Nat
  BY <1>1, <1>2
<1>4. QED
  BY <1>1, <1>2, <1>3 DEF PagesNeeded

LEMMA EntityIsSomething == \A e \in Entities : e # Nothing
<1> SUFFICES ASSUME NEW v \in Val, NEW n \in Length
             PROVE  Image(v, n) # Nothing
  BY DEF Entities
<1> DEFINE parts == [k \in 1 .. PagesNeeded(n) |-> <<v, k>>]
<1>1. PagesNeeded(n) \in Nat
  BY PagesNeededType, DiskStorageAssumption
<1>2. parts \in [1 .. PagesNeeded(n) -> Val \X Nat]
  BY <1>1
<1>3. parts \in Seq(Val \X Nat)
  BY <1>1, <1>2, SeqDef
<1>4. Image(v, n) = [len |-> n, parts |-> parts]
  BY DEF Image
<1> HIDE DEF parts
<1>5. Image(v, n) \in [len : Length, parts : Seq(Val \X Nat)]
  BY <1>3, <1>4
<1>6. QED
  BY <1>5, DiskStorageAssumption

LEMMA ViewAt ==
  \A i \in Page : View[i] = IF pc = "store" /\ call.page = i THEN call.before
                                                            ELSE Contents(m_pageIndex[i])
BY DEF View

\* Two views that agree on every identifier are the same.
LEMMA SameView ==
  ASSUME \A i \in Page : View'[i] = View[i]
  PROVE  UNCHANGED View
<1>1. View = [i \in Page |-> View[i]]
  BY DEF View
<1>2. View' = [i \in Page |-> View'[i]]
  BY DEF View
<1> DEFINE now == View
           next == View'
<1> HIDE DEF now, next
<1>3. [i \in Page |-> now[i]] = [i \in Page |-> next[i]]
  BY DEF now, next
<1>4. QED
  BY <1>1, <1>2, <1>3 DEF now, next

\* A view that changed at one identifier.
LEMMA ViewExcept ==
  ASSUME NEW i \in Page, NEW e, \A j \in Page : View'[j] = IF j = i THEN e ELSE View[j]
  PROVE  View' = [View EXCEPT ![i] = e]
<1>1. View = [j \in Page |-> View[j]]
  BY DEF View
<1>2. View' = [j \in Page |-> View'[j]]
  BY DEF View
<1> DEFINE now == View
           next == View'
<1> HIDE DEF now, next
<1>3. now = [j \in Page |-> now[j]] /\ next = [j \in Page |-> next[j]]
  BY <1>1, <1>2 DEF now, next
<1>4. \A j \in Page : next[j] = IF j = i THEN e ELSE now[j]
  BY DEF now, next
<1>5. next = [now EXCEPT ![i] = e]
  BY <1>3, <1>4
<1>6. QED
  BY <1>5 DEF now, next

LEMMA NewPageIsNoPage == NewPage \notin Page
BY DEF NewPage, Page

\* A step that leaves the .dat file alone reads the same from the same entry.
LEMMA SameContents ==
  ASSUME UNCHANGED dat, NEW i \in Page, m_pageIndex'[i] = m_pageIndex[i]
  PROVE  Contents(m_pageIndex[i])' = Contents(m_pageIndex[i])
BY DEF Contents

\* The entry that a finished call leaves behind is the entity it was given.
LEMMA WholeStored ==
  ASSUME IInv, WholeCall, pc = "store", ~MorePages, UNCHANGED dat,
         NEW i \in Page, m_pageIndex'[i] = [len |-> call.len, pages |-> call.pages]
  PROVE  /\ Contents(m_pageIndex[i])' = Image(call.val, call.len)
         /\ Contents(m_pageIndex[i])' \in Entities
<1>1. TypeOK /\ call.len \in Length /\ call.len \in Nat /\ call.val \in Val
  BY DiskStorageAssumption DEF IInv, InProgress
<1> DEFINE entry == [len |-> call.len, pages |-> call.pages]
           n == Len(call.pages)
<1>2. entry # Nothing
  <2>1. entry \in Entry
    BY <1>1, CallTypes DEF Entry
  <2>2. QED
    BY <2>1, EntryIsSomething
<1>3. n = PagesNeeded(call.len) /\ DOMAIN call.pages = 1 .. n
  <2>1. n \in Nat /\ DOMAIN call.pages = 1 .. n
    BY <1>1, CallTypes
  <2>2. PagesNeeded(call.len) \in Nat
    BY <1>1, PagesNeededType
  <2>3. n <= PagesNeeded(call.len) /\ ~(n < PagesNeeded(call.len))
    BY DEF MorePages, WholeCall
  <2>4. QED
    BY <2>1, <2>2, <2>3
<1>4. [k \in DOMAIN call.pages |-> dat[call.pages[k]]] = [k \in 1 .. n |-> <<call.val, k>>]
  <2>1. \A k \in 1 .. n : dat[call.pages[k]] = <<call.val, k>>
    BY DEF WholeCall
  <2> HIDE DEF n
  <2>2. QED
    BY <1>3, <2>1
<1>5. Contents(m_pageIndex[i])' = [len |-> call.len, parts |-> [k \in DOMAIN call.pages |-> dat[call.pages[k]]]]
  BY <1>2 DEF Contents
<1>6. Contents(m_pageIndex[i])' = Image(call.val, call.len)
  BY <1>3, <1>4, <1>5 DEF Image
<1>7. QED
  BY <1>1, <1>6 DEF Entities

\* A piece that is written leaves every entry and every piece of the call.
LEMMA WriteKeepsContents ==
  ASSUME IInv, WritePage
  PROVE  \A i \in Page : Contents(m_pageIndex[i])' = Contents(m_pageIndex[i])
<1>1. TypeOK /\ pc = "store" /\ UNCHANGED m_pageIndex
  BY WritePageTakes DEF IInv, WritePage
<1>2. PICK p \in Page : TakePage(p) /\ dat' = [dat EXCEPT ![p] = <<call.val, Len(call.pages) + 1>>]
  BY WritePageTakes
<1>3. \A i \in Page : m_pageIndex[i] # Nothing => p \notin Pages(m_pageIndex, i)
  BY <1>1, <1>2, TakePageEffect
<1>4. QED
  BY <1>1, <1>2, <1>3, UnownedPage

LEMMA WholeCallStep ==
  ASSUME IInv, WholeCall, WritePage
  PROVE  WholeCall'
<1>1. TypeOK /\ pc = "store" /\ MorePages
  BY DEF IInv, WritePage
<1>2. /\ call'.page = call.page /\ call'.val = call.val
      /\ call'.len = call.len /\ call'.before = call.before
  BY WritePageTakes
<1>3. PICK p \in Page :
        /\ TakePage(p)
        /\ call'.pages = Append(call.pages, p)
        /\ dat' = [dat EXCEPT ![p] = <<call.val, Len(call.pages) + 1>>]
  BY WritePageTakes
<1> DEFINE n == Len(call.pages)
<1>4. /\ n \in Nat /\ DOMAIN call.pages = 1 .. n
      /\ \A k \in 1 .. n : call.pages[k] \in Page
      /\ Len(call'.pages) = n + 1
      /\ \A k \in 1 .. n : call'.pages[k] = call.pages[k]
      /\ call'.pages[n + 1] = p
  BY <1>1, <1>3, CallTypes, AppendProperties
<1>5. dat \in [Page -> Piece \cup {Nothing}] /\ dat'[p] = <<call.val, n + 1>>
  BY <1>1, <1>3 DEF TypeOK
<1>6. p \notin Range(call.pages)
  BY <1>1, <1>3, TakePageEffect
<1>7. ASSUME NEW k \in 1 .. n
      PROVE  dat'[call'.pages[k]] = <<call.val, k>>
  <2>1. call.pages[k] # p
    BY <1>4, <1>6 DEF Range
  <2>2. QED
    BY <1>3, <1>4, <1>5, <2>1 DEF WholeCall
<1>8. PagesNeeded(call.len) \in Nat
  BY <1>1, PagesNeededType, DiskStorageAssumption DEF IInv, InProgress
<1>9. n + 1 <= PagesNeeded(call.len)
  BY <1>1, <1>4, <1>8 DEF MorePages
<1> HIDE DEF n
<1>10. \A k \in 1 .. n + 1 : k \in 1 .. n \/ k = n + 1
  BY <1>4
<1>11. \A k \in 1 .. n + 1 : dat'[call'.pages[k]] = <<call.val, k>>
  BY <1>4, <1>5, <1>7, <1>10
<1>12. QED
  BY <1>2, <1>4, <1>9, <1>11 DEF WholeCall

\* The entry of a call joins the table: the entities under all other identifiers
\* are what they were.
LEMMA EntryJoins ==
  ASSUME IInv, Faithful, pc = "store", ~MorePages, UNCHANGED dat,
         NEW i \in Page, m_pageIndex[i] = Nothing, InsertEntry(i)
  PROVE  /\ WholeEntries'
         /\ Contents(m_pageIndex[i])' = Image(call.val, call.len)
         /\ \A j \in Page \ {i} : Contents(m_pageIndex[j])' = Contents(m_pageIndex[j])
<1>1. \A j \in Page : m_pageIndex'[j] =
        IF j = i THEN [len |-> call.len, pages |-> call.pages] ELSE m_pageIndex[j]
  BY CallTypes DEF InsertEntry, Index, IInv
<1>2. /\ Contents(m_pageIndex[i])' = Image(call.val, call.len)
      /\ Contents(m_pageIndex[i])' \in Entities
  BY <1>1, WholeStored DEF Faithful
<1>3. \A j \in Page \ {i} : Contents(m_pageIndex[j])' = Contents(m_pageIndex[j])
  BY <1>1, SameContents
<1>4. WholeEntries'
  BY <1>1, <1>2, <1>3 DEF WholeEntries, Faithful
<1>5. QED
  BY <1>2, <1>3, <1>4

LEMMA NoRestart ==
  ASSUME Faults = {}, Faithful
  PROVE  /\ ~WriteFails /\ ~FlushBegin /\ ~FlushEnd /\ ~CrashAndReopen /\ ~CrashInFlush /\ ~Overwrite
         /\ \A i \in Page : ~LoadFails(i)
BY DEF Faithful, WriteFails, FlushBegin, FlushEnd, CrashAndReopen, CrashInFlush, Overwrite,
       LoadFails, MayFail

(***************************************************************************)
(* Every step keeps the pages whole, and is a step of PageStore or leaves  *)
(* its variables alone: an overwrite takes effect when it ends, a new      *)
(* entity appears when it ends, and no page in between shows.              *)
(***************************************************************************)
LEMMA RefinementStep ==
  ASSUME IInv, Faithful, NoEmptyEntities, Faults = {}, [Next]_vars
  PROVE  Faithful' /\ [Contract!Next]_(Contract!vars)
<1>0. TypeOK /\ InProgress /\ MemorySound /\ m_pageIndex \in Index
  BY CallTypes DEF IInv
<1>1. ASSUME NEW v \in Val, NEW len \in Length, StoreNew(v, len)
      PROVE  Faithful' /\ [Contract!Next]_(Contract!vars)
  <2>1. /\ pc = "idle" /\ pc' = "store" /\ UNCHANGED <<m_pageIndex, datFails, dat, reply>>
        /\ call'.page = NewPage /\ call'.pages = <<>> /\ call'.len = len
    BY <1>1 DEF StoreNew, memory, NoCall
  <2>2. \A i \in Page : Contents(m_pageIndex[i])' = Contents(m_pageIndex[i])
    BY <2>1, SameContents
  <2>3. WholeCall'
    BY <2>1, PagesNeededType, DiskStorageAssumption DEF WholeCall
  <2>4. Faithful'
    BY <2>1, <2>2, <2>3 DEF Faithful, WholeEntries
  <2>5. \A i \in Page : View'[i] = View[i]
    BY <2>1, <2>2, ViewAt, NewPageIsNoPage DEF View
  <2>6. QED
    BY <2>1, <2>4, <2>5, SameView DEF Contract!vars
<1>2. ASSUME NEW i \in Page, NEW v \in Val, NEW len \in Length, StoreOld(i, v, len)
      PROVE  Faithful' /\ [Contract!Next]_(Contract!vars)
  <2>1. /\ pc = "idle" /\ pc' = "store" /\ UNCHANGED <<datFails, dat, reply>>
        /\ m_pageIndex[i] # Nothing
        /\ m_pageIndex' = [m_pageIndex EXCEPT ![i] = Nothing]
        /\ call'.page = i /\ call'.pages = <<>> /\ call'.len = len /\ call'.before = View[i]
    BY <1>2 DEF StoreOld
  <2>2. \A j \in Page \ {i} :
          /\ m_pageIndex'[j] = m_pageIndex[j]
          /\ Contents(m_pageIndex[j])' = Contents(m_pageIndex[j])
    BY <1>0, <2>1, SameContents DEF Index
  <2>3. m_pageIndex'[i] = Nothing
    BY <1>0, <2>1 DEF Index
  <2>4. View[i] = Contents(m_pageIndex[i]) /\ View[i] \in Entities
    BY <2>1, ViewAt DEF Faithful, WholeEntries
  <2>5. WholeCall'
    BY <2>1, <2>4, PagesNeededType, DiskStorageAssumption DEF WholeCall
  <2>6. Faithful'
    BY <2>1, <2>2, <2>3, <2>5 DEF Faithful, WholeEntries
  <2>7. \A j \in Page : View'[j] = View[j]
    BY <2>1, <2>2, ViewAt DEF View
  <2>8. QED
    BY <2>1, <2>6, <2>7, SameView DEF Contract!vars
<1>3. CASE WritePage
  <2>1. /\ UNCHANGED <<pc, m_pageIndex, datFails, reply>> /\ pc = "store"
        /\ call'.page = call.page /\ call'.before = call.before
    BY <1>3, WritePageTakes DEF WritePage
  <2>2. \A i \in Page : Contents(m_pageIndex[i])' = Contents(m_pageIndex[i])
    BY <1>3, WriteKeepsContents
  <2>3. WholeCall'
    BY <1>3, <2>1, WholeCallStep DEF Faithful
  <2>4. Faithful'
    BY <2>1, <2>2, <2>3 DEF Faithful, WholeEntries
  <2>5. \A i \in Page : View'[i] = View[i]
    BY <2>1, <2>2, ViewAt DEF View
  <2>6. QED
    BY <2>1, <2>4, <2>5, SameView DEF Contract!vars
<1>4. CASE FinishNew
  <2>1. PICK page \in Page : page = call.pages[1] /\ m_pageIndex[page] = Nothing
    BY <1>0, <1>4, CallEntry, FinishNewSound DEF FinishNew, InProgress
  <2>2. PICK e \in Entities : e = Image(call.val, call.len)
    BY <1>0, <1>4 DEF FinishNew, InProgress, Entities
  <2>b. /\ pc = "store" /\ pc' = "idle" /\ call.page = NewPage /\ ~MorePages /\ InsertEntry(page)
        /\ UNCHANGED <<datFails, dat>> /\ reply' = Contract!Stored(page)
    BY <1>4, <2>1 DEF FinishNew
  <2>3. /\ WholeEntries'
        /\ Contents(m_pageIndex[page])' = e
        /\ \A j \in Page \ {page} : Contents(m_pageIndex[j])' = Contents(m_pageIndex[j])
    BY <2>1, <2>2, <2>b, EntryJoins
  <2>4. View[page] = Nothing
    BY <2>1, <2>b, ViewAt, NewPageIsNoPage DEF Contents
  <2>5. \A j \in Page : View'[j] = IF j = page THEN e ELSE View[j]
    BY <2>b, <2>3, ViewAt, NewPageIsNoPage DEF View
  <2>6. View' = [View EXCEPT ![page] = e]
    BY <2>5, ViewExcept
  <2>7. Contract!StoreNew(e)
    BY <2>b, <2>4, <2>6 DEF Contract!StoreNew
  <2>8. Contract!Next
    BY <2>7 DEF Contract!Next, Entities
  <2>9. QED
    BY <2>b, <2>3, <2>8 DEF Faithful
<1>5. CASE FinishOld
  <2>1. PICK page \in Page : page = call.page /\ m_pageIndex[page] = Nothing
    BY <1>0, <1>5 DEF TypeOK, IInv, CallSound, FinishOld
  <2>2. PICK e \in Entities : e = Image(call.val, call.len)
    BY <1>0, <1>5 DEF FinishOld, InProgress, Entities
  <2>b. /\ pc = "store" /\ pc' = "idle" /\ page # NewPage /\ ~MorePages /\ InsertEntry(page)
        /\ UNCHANGED <<datFails, dat>> /\ reply' = Contract!Stored(page)
    BY <1>5, <2>1 DEF FinishOld
  <2>3. View[page] # Nothing
    BY <2>1, <2>b, ViewAt, EntityIsSomething DEF Faithful, WholeCall
  <2>4. /\ WholeEntries'
        /\ Contents(m_pageIndex[page])' = e
        /\ \A j \in Page \ {page} : Contents(m_pageIndex[j])' = Contents(m_pageIndex[j])
    BY <2>1, <2>2, <2>b, EntryJoins
  <2>5. \A j \in Page : View'[j] = IF j = page THEN e ELSE View[j]
    BY <2>1, <2>b, <2>4, ViewAt DEF View
  <2>6. View' = [View EXCEPT ![page] = e]
    BY <2>5, ViewExcept
  <2>7. Contract!StoreOld(page, e)
    BY <2>b, <2>3, <2>6 DEF Contract!StoreOld
  <2>8. Contract!Next
    BY <2>7 DEF Contract!Next, Entities
  <2>9. QED
    BY <2>b, <2>4, <2>8 DEF Faithful
<1>6. ASSUME NEW i \in Page, Load(i) \/ Refuse(i)
      PROVE  Faithful' /\ [Contract!Next]_(Contract!vars)
  <2>1. pc = "idle" /\ UNCHANGED <<pc, call, m_pageIndex, datFails, dat>>
    BY <1>6 DEF Load, Refuse, memory
  <2>2. \A j \in Page : Contents(m_pageIndex[j])' = Contents(m_pageIndex[j])
    BY <2>1, SameContents
  <2>3. Faithful'
    BY <2>1, <2>2 DEF Faithful, WholeEntries
  <2>4. \A j \in Page : View[j] = Contents(m_pageIndex[j]) /\ View'[j] = View[j]
    BY <2>1, <2>2, ViewAt DEF View
  <2>5. UNCHANGED View
    BY <2>4, SameView
  <2>6. CASE Load(i)
    <3>1. View[i] # Nothing
      BY <2>4, <2>6, EntityIsSomething DEF Load, Faithful, WholeEntries
    <3>2. reply' = Contract!Loaded(View[i])
      BY <2>4, <2>6 DEF Load
    <3>3. Contract!Load(i)
      BY <2>5, <3>1, <3>2 DEF Contract!Load
    <3>4. QED
      BY <2>3, <3>3 DEF Contract!Next
  <2>7. CASE Refuse(i)
    <3>1. View[i] = Nothing
      BY <2>4, <2>7 DEF Refuse, Contents
    <3>2. Contract!Refuse(i)
      BY <2>5, <2>7, <3>1 DEF Refuse, Contract!Refuse
    <3>3. QED
      BY <2>3, <3>2 DEF Contract!Next
  <2>8. QED
    BY <1>6, <2>6, <2>7
<1>7. ASSUME NEW i \in Page, Delete(i)
      PROVE  Faithful' /\ [Contract!Next]_(Contract!vars)
  <2>1. /\ m_pageIndex[i] # Nothing /\ pc = "idle" /\ UNCHANGED <<pc, call, datFails, dat>>
        /\ m_pageIndex' = [m_pageIndex EXCEPT ![i] = Nothing]
        /\ reply' = Contract!Deleted(i)
    BY <1>7 DEF Delete
  <2>2. \A j \in Page : m_pageIndex'[j] = IF j = i THEN Nothing ELSE m_pageIndex[j]
    BY <1>0, <2>1 DEF Index
  <2>3. \A j \in Page \ {i} : Contents(m_pageIndex[j])' = Contents(m_pageIndex[j])
    BY <2>1, <2>2, SameContents
  <2>4. Contents(m_pageIndex[i])' = Nothing
    BY <2>2 DEF Contents
  <2>5. Faithful'
    BY <2>1, <2>2, <2>3 DEF Faithful, WholeEntries
  <2>6. View[i] # Nothing
    BY <2>1, ViewAt, EntityIsSomething DEF Faithful, WholeEntries
  <2>7. \A j \in Page : View'[j] = IF j = i THEN Nothing ELSE View[j]
    BY <2>1, <2>3, <2>4, ViewAt DEF View
  <2>8. View' = [View EXCEPT ![i] = Nothing]
    BY <2>7 DEF View
  <2>9. Contract!Delete(i)
    BY <2>1, <2>6, <2>8 DEF Contract!Delete
  <2>10. QED
    BY <2>5, <2>9 DEF Contract!Next
<1>8. CASE UNCHANGED vars
  <2>1. UNCHANGED <<pc, call, m_pageIndex, datFails, dat, reply>>
    BY <1>8 DEF vars, memory
  <2>2. \A j \in Page : Contents(m_pageIndex[j])' = Contents(m_pageIndex[j])
    BY <2>1, SameContents
  <2>3. Faithful'
    BY <2>1, <2>2 DEF Faithful, WholeEntries, WholeCall
  <2>4. \A j \in Page : View'[j] = View[j]
    BY <2>1, <2>2, ViewAt DEF View
  <2>5. QED
    BY <2>1, <2>3, <2>4, SameView DEF Contract!vars
<1>9. QED
  BY <1>1, <1>2, <1>3, <1>4, <1>5, <1>6, <1>7, <1>8, NoRestart DEF Next

(***************************************************************************)
(* Without faults the manager is the table of PageStore, for every page    *)
(* size and every file: a load returns exactly what was last stored under  *)
(* the identifier, however its pages are scattered, shared out and reused. *)
(***************************************************************************)
THEOREM DiskImplementsPageStore ==
  ASSUME NoEmptyEntities, Faults = {}
  PROVE  Spec => ImplementsPageStore
<1>1. Init => Faithful
  BY DEF Init, Faithful, WholeEntries, NoEntries
<1>2. Init => Contract!Init
  BY DEF Init, Contract!Init, View, NoEntries, Contents
<1>3. IInv /\ Faithful /\ [Next]_vars => Faithful' /\ [Contract!Next]_(Contract!vars)
  BY RefinementStep
<1>4. QED
  BY <1>1, <1>2, <1>3, Invariant, PTL DEF Spec, ImplementsPageStore, Contract!Spec

==============================================================================
