----------------------------- MODULE DiskStorage -----------------------------
(***************************************************************************)
(* DiskStorageManager: entities are cut into pages of a .dat file; which   *)
(* pages hold which entity, which pages are free and where the file ends   *)
(* is kept in memory and written to the .idx file only by flush() and by   *)
(* the destructor.                                                         *)
(*                                                                         *)
(* A store writes its pages one at a time, so the loop of storeByteArray   *)
(* is modelled page by page: an I/O error or the death of the process may  *)
(* come between any two pages, and in the middle of a flush.  (A page is   *)
(* in the file once it is written; that the stream may hold the last one   *)
(* back for a while is left out.)                                          *)
(***************************************************************************)
EXTENDS Integers, Sequences, FiniteSets, Functions

CONSTANTS
  Val,        \* the contents of an entity, apart from its length
  Length,     \* the lengths an entity may have, in bytes
  PageSize,   \* m_pageSize
  MaxPages,   \* bound on the pages of the .dat file (the code has none)
  Faults,     \* which of "io" (the .dat file fails) and "restart" may happen
  Nothing     \* no entry, no contents, no file

ASSUME DiskStorageAssumption ==
  /\ PageSize \in Nat \ {0}
  /\ MaxPages \in Nat
  /\ Length \subseteq Nat
  /\ Faults \subseteq {"io", "restart"}
  /\ Nothing \notin [len : Length, parts : Seq(Val \X Nat)]
  /\ Nothing \notin [len : Length, pages : Seq(Nat)]
  /\ Nothing # [torn |-> TRUE]

Page == 0 .. MaxPages - 1
NewPage == -1

\* The pages that cRem = len counts down over.
PagesNeeded(len) == (len + PageSize - 1) \div PageSize

\* An entity as a reader sees it: its length and the piece on each page.
Image(v, len) == [len |-> len, parts |-> [k \in 1 .. PagesNeeded(len) |-> <<v, k>>]]

VARIABLES
  pc,            \* "idle", or inside "store" or "flush", or "down": the index file is torn
  call,          \* the storeByteArray call in progress
  m_pageIndex,   \* identifier -> [len, pages], or Nothing
  m_emptyPages,  \* pages of the .dat file that may be reused
  m_nextPage,    \* the first page past the end of the .dat file
  datFails,      \* m_dataFile.fail(): nothing ever clears it
  dat,           \* the .dat file: what was last written on each page
  idx,           \* the .idx file: what the last flush wrote, or Nothing, or torn
  reply,         \* how the last call ended
  vouched        \* history: the contents at the last flush, and the identifiers
                 \* stored or deleted since

memory == <<m_pageIndex, m_emptyPages, m_nextPage, datFails>>
vars == <<pc, call, memory, dat, idx, reply, vouched>>

\* The local variables of storeByteArray; before is a history variable, what
\* the identifier held when the call began.
NoCall == [page |-> NewPage, val |-> Nothing, len |-> 0,
           pages |-> <<>>, old |-> <<>>, before |-> Nothing]

NoEntries == [i \in Page |-> Nothing]
Torn == [torn |-> TRUE]
Snapshot == [pageIndex |-> m_pageIndex, emptyPages |-> m_emptyPages, nextPage |-> m_nextPage]

\* What loadByteArray reads for an entry of an index table.
Contents(entry) ==
  IF entry = Nothing
    THEN Nothing
    ELSE [len |-> entry.len, parts |-> [k \in DOMAIN entry.pages |-> dat[entry.pages[k]]]]

\* What each identifier holds, a call in progress not yet counted.
View == [i \in Page |-> IF pc = "store" /\ call.page = i THEN call.before
                                                        ELSE Contents(m_pageIndex[i])]

Contract == INSTANCE PageStore WITH
              Id     <- Page,
              Entity <- {Image(v, n) : v \in Val, n \in Length},
              Absent <- Nothing,
              store  <- View

Init ==
  /\ pc = "idle"
  /\ call = NoCall
  /\ m_pageIndex = NoEntries
  /\ m_emptyPages = {}
  /\ m_nextPage = 0
  /\ datFails = FALSE
  /\ dat = [p \in Page |-> Nothing]
  /\ idx = Nothing
  /\ reply = Contract!NoReply
  /\ vouched = [view |-> NoEntries, touched |-> {}]

Touch(i) == vouched' = [vouched EXCEPT !.touched = @ \cup {i}]

------------------------------------------------------------------------------
(***************************************************************************)
(* storeByteArray                                                          *)
(***************************************************************************)

\* The bound on the .dat file: a store begins only if its pages will fit.
Fits(len, old) ==
  PagesNeeded(len) <= Len(old) + Cardinality(m_emptyPages) + (MaxPages - m_nextPage)

\* NewPage.  A length of zero would read m_pages[0] of an empty vector.
StoreNew(v, len) ==
  /\ pc = "idle"
  /\ len > 0
  /\ Fits(len, <<>>)
  /\ pc' = "store"
  /\ call' = [NoCall EXCEPT !.val = v, !.len = len]
  /\ UNCHANGED <<memory, dat, idx, reply, vouched>>

\* A known identifier: its entry leaves the index table before the first write.
StoreOld(i, v, len) ==
  /\ pc = "idle"
  /\ m_pageIndex[i] # Nothing
  /\ Fits(len, m_pageIndex[i].pages)
  /\ pc' = "store"
  /\ call' = [page |-> i, val |-> v, len |-> len, pages |-> <<>>,
              old |-> m_pageIndex[i].pages, before |-> View[i]]
  /\ m_pageIndex' = [m_pageIndex EXCEPT ![i] = Nothing]
  /\ Touch(i)
  /\ UNCHANGED <<m_emptyPages, m_nextPage, datFails, dat, idx, reply>>

\* Where the next piece goes: a page of the old entry, else the smallest free
\* page, else a page past the end of the file.
\* Mutant of ReusePage: the old pages are used up from their end.
ReusePageFromEnd(p) ==
  /\ Len(call.pages) < Len(call.old)
  /\ p = call.old[Len(call.old) - Len(call.pages)]
  /\ UNCHANGED <<m_emptyPages, m_nextPage>>

ReusePage(p) ==
  /\ Len(call.pages) < Len(call.old)
  /\ p = call.old[Len(call.pages) + 1]
  /\ UNCHANGED <<m_emptyPages, m_nextPage>>

RecyclePage(p) ==
  /\ Len(call.pages) >= Len(call.old)
  /\ p \in m_emptyPages
  /\ \A q \in m_emptyPages : p <= q
  /\ m_emptyPages' = m_emptyPages \ {p}
  /\ UNCHANGED m_nextPage

ExtendFile(p) ==
  /\ Len(call.pages) >= Len(call.old)
  /\ m_emptyPages = {}
  /\ p = m_nextPage
  /\ m_nextPage' = m_nextPage + 1
  /\ UNCHANGED m_emptyPages

TakePage(p) == ReusePage(p) \/ RecyclePage(p) \/ ExtendFile(p)

MorePages == Len(call.pages) < PagesNeeded(call.len)

WritePage ==
  /\ pc = "store"
  /\ MorePages
  /\ ~datFails
  /\ \E p \in Page :
       /\ TakePage(p)
       /\ dat' = [dat EXCEPT ![p] = <<call.val, Len(call.pages) + 1>>]
       /\ call' = [call EXCEPT !.pages = Append(@, p)]
  /\ UNCHANGED <<pc, m_pageIndex, datFails, idx, reply, vouched>>

\* The file refuses the write, or refused something before: the exception
\* leaves the loop with the page taken and, for a known identifier, its entry
\* gone.
MayFail == datFails \/ "io" \in Faults

WriteFails ==
  /\ MayFail
  /\ pc = "store"
  /\ MorePages
  /\ \E p \in Page : TakePage(p)
  /\ pc' = "idle"
  /\ call' = NoCall
  /\ datFails' = TRUE
  /\ reply' = <<"io error">>
  /\ UNCHANGED <<m_pageIndex, dat, idx, vouched>>

\* std::map::insert leaves an entry that is already there alone.
InsertEntry(i) ==
  m_pageIndex' = IF m_pageIndex[i] = Nothing
                   THEN [m_pageIndex EXCEPT ![i] = [len |-> call.len, pages |-> call.pages]]
                   ELSE m_pageIndex

\* The end of a NewPage store: the identifier is the first page.
FinishNew ==
  /\ pc = "store"
  /\ call.page = NewPage
  /\ ~MorePages
  /\ LET page == call.pages[1] IN
       /\ InsertEntry(page)
       /\ Touch(page)
       /\ reply' = Contract!Stored(page)
  /\ pc' = "idle"
  /\ call' = NoCall
  /\ UNCHANGED <<m_emptyPages, m_nextPage, datFails, dat, idx>>

\* The pages of the old entry from the position-th on.
OldFrom(position) == {call.old[k] : k \in position .. Len(call.old)}

\* Mutant of FreedPages: off by one, the last page in use is freed too.
FreedTooMany == OldFrom(Len(call.pages))

FreedPages == OldFrom(Len(call.pages) + 1)

\* The end of an overwrite: the pages that were not needed are free.
FinishOld ==
  /\ pc = "store"
  /\ call.page # NewPage
  /\ ~MorePages
  /\ InsertEntry(call.page)
  /\ m_emptyPages' = m_emptyPages \cup FreedPages
  /\ reply' = Contract!Stored(call.page)
  /\ pc' = "idle"
  /\ call' = NoCall
  /\ UNCHANGED <<m_nextPage, datFails, dat, idx, vouched>>

------------------------------------------------------------------------------
(***************************************************************************)
(* loadByteArray, deleteByteArray, and any call on an unknown identifier.  *)
(* Reading an entry that has no page would read past an empty vector.      *)
(***************************************************************************)
Load(i) ==
  /\ pc = "idle"
  /\ m_pageIndex[i] # Nothing
  /\ m_pageIndex[i].pages # <<>>
  /\ ~datFails
  /\ reply' = Contract!Loaded(Contents(m_pageIndex[i]))
  /\ UNCHANGED <<pc, call, memory, dat, idx, vouched>>

LoadFails(i) ==
  /\ MayFail
  /\ pc = "idle"
  /\ m_pageIndex[i] # Nothing
  /\ m_pageIndex[i].pages # <<>>
  /\ datFails' = TRUE
  /\ reply' = <<"io error">>
  /\ UNCHANGED <<pc, call, m_pageIndex, m_emptyPages, m_nextPage, dat, idx, vouched>>

\* Mutants of Delete: the entry stays; the pages are not given back.
DeleteKeepsEntry(i) ==
  /\ pc = "idle"
  /\ m_pageIndex[i] # Nothing
  /\ m_emptyPages' =
       m_emptyPages \cup {m_pageIndex[i].pages[k] : k \in DOMAIN m_pageIndex[i].pages}
  /\ reply' = Contract!Deleted(i)
  /\ Touch(i)
  /\ UNCHANGED <<pc, call, m_pageIndex, m_nextPage, datFails, dat, idx>>

DeleteKeepsPages(i) ==
  /\ pc = "idle"
  /\ m_pageIndex[i] # Nothing
  /\ m_pageIndex' = [m_pageIndex EXCEPT ![i] = Nothing]
  /\ reply' = Contract!Deleted(i)
  /\ Touch(i)
  /\ UNCHANGED <<pc, call, m_emptyPages, m_nextPage, datFails, dat, idx>>

Delete(i) ==
  /\ pc = "idle"
  /\ m_pageIndex[i] # Nothing
  /\ m_emptyPages' =
       m_emptyPages \cup {m_pageIndex[i].pages[k] : k \in DOMAIN m_pageIndex[i].pages}
  /\ m_pageIndex' = [m_pageIndex EXCEPT ![i] = Nothing]
  /\ reply' = Contract!Deleted(i)
  /\ Touch(i)
  /\ UNCHANGED <<pc, call, m_nextPage, datFails, dat, idx>>

Refuse(i) ==
  /\ pc = "idle"
  /\ m_pageIndex[i] = Nothing
  /\ reply' = Contract!Invalid(i)
  /\ UNCHANGED <<pc, call, memory, dat, idx, vouched>>

------------------------------------------------------------------------------
(***************************************************************************)
(* flush (the destructor calls it too) rewrites the .idx file in place:    *)
(* until it is done the file is neither the old table nor the new one.     *)
(* Only a restart reads that file, so without restarts nothing is flushed. *)
(* A stream of pages that failed does not keep the table from its file.    *)
(***************************************************************************)
FlushBegin ==
  /\ "restart" \in Faults
  /\ pc = "idle"
  /\ pc' = "flush"
  /\ idx' = Torn
  /\ UNCHANGED <<call, memory, dat, reply, vouched>>

FlushEnd ==
  /\ pc = "flush"
  /\ pc' = "idle"
  /\ idx' = Snapshot
  /\ vouched' = [view |-> View, touched |-> {}]
  /\ UNCHANGED <<call, memory, dat, reply>>

(***************************************************************************)
(* The process dies and the constructor reopens the files with Overwrite   *)
(* false: an empty .idx file is a new store.  A half-written one makes     *)
(* the constructor throw, or pass for a table part old and part new; the   *)
(* model follows neither, and only Overwrite goes on from there.  The .dat *)
(* file keeps what was written.                                            *)
(***************************************************************************)
OpenFiles ==
  IF idx = Nothing
    THEN /\ m_pageIndex' = NoEntries
         /\ m_emptyPages' = {}
         /\ m_nextPage' = 0
    ELSE /\ m_pageIndex' = idx.pageIndex
         /\ m_emptyPages' = idx.emptyPages
         /\ m_nextPage' = idx.nextPage

CrashAndReopen ==
  /\ "restart" \in Faults
  /\ pc \in {"idle", "store"}
  /\ OpenFiles
  /\ datFails' = FALSE
  /\ pc' = "idle"
  /\ call' = NoCall
  /\ reply' = <<"reopened">>
  /\ UNCHANGED <<dat, idx, vouched>>

CrashInFlush ==
  /\ "restart" \in Faults
  /\ pc = "flush"
  /\ pc' = "down"
  /\ reply' = <<"torn index file">>
  /\ UNCHANGED <<call, memory, dat, idx, vouched>>

\* The constructor with Overwrite true truncates both files.
Overwrite ==
  /\ "restart" \in Faults
  /\ pc \in {"idle", "down"}
  /\ pc' = "idle"
  /\ call' = NoCall
  /\ m_pageIndex' = NoEntries
  /\ m_emptyPages' = {}
  /\ m_nextPage' = 0
  /\ datFails' = FALSE
  /\ dat' = [p \in Page |-> Nothing]
  /\ idx' = Nothing
  /\ reply' = <<"reopened">>
  /\ vouched' = [view |-> NoEntries, touched |-> {}]

------------------------------------------------------------------------------

Next ==
  \/ \E v \in Val, len \in Length : StoreNew(v, len)
  \/ \E i \in Page, v \in Val, len \in Length : StoreOld(i, v, len)
  \/ WritePage
  \/ WriteFails
  \/ FinishNew
  \/ FinishOld
  \/ \E i \in Page : Load(i) \/ LoadFails(i) \/ Delete(i) \/ Refuse(i)
  \/ FlushBegin
  \/ FlushEnd
  \/ CrashAndReopen
  \/ CrashInFlush
  \/ Overwrite

Spec == Init /\ [][Next]_vars

------------------------------------------------------------------------------

\* The pages of the old entry that the call in progress has not reused yet.
OldLeft == OldFrom(Len(call.pages) + 1)

CallPages == Range(call.pages) \cup OldLeft

Distinct(s) == \A j, k \in DOMAIN s : s[j] = s[k] => j = k

\* The identifiers of an index table, and the pages one of them owns.
LiveIn(table) == {i \in Page : table.pageIndex[i] # Nothing}
PagesIn(table, i) == Range(table.pageIndex[i].pages)

Entry == [len : Length, pages : Seq(Page)]
Table == [pageIndex : [Page -> Entry \cup {Nothing}],
          emptyPages : SUBSET Page,
          nextPage : 0 .. MaxPages]
Piece == Val \X (Nat \ {0})
Stored == [len : Length, parts : Seq(Piece \cup {Nothing})]

(***************************************************************************)
(* The types of the manager's memory, of its files and of its call frame.  *)
(***************************************************************************)
TypeOK ==
  /\ pc \in {"idle", "store", "flush", "down"}
  /\ call \in [page : Page \cup {NewPage}, val : Val \cup {Nothing}, len : Length \cup {0},
               pages : Seq(Page), old : Seq(Page), before : Stored \cup {Nothing}]
  /\ Snapshot \in Table
  /\ datFails \in BOOLEAN
  /\ dat \in [Page -> Piece \cup {Nothing}]
  /\ idx \in Table \cup {Nothing, Torn}
  /\ vouched \in [view : [Page -> Stored \cup {Nothing}], touched : SUBSET Page]

(***************************************************************************)
(* In an index table no page has two owners: not two entries, not one      *)
(* entry twice, not an entry and the free list; and every page it speaks   *)
(* of lies inside the file.                                                *)
(***************************************************************************)
TableConsistent(table) ==
  /\ \A i \in LiveIn(table) :
       /\ Distinct(table.pageIndex[i].pages)
       /\ PagesIn(table, i) \cap table.emptyPages = {}
       /\ \A p \in PagesIn(table, i) : p < table.nextPage
  /\ \A i, j \in LiveIn(table) :
       i # j => PagesIn(table, i) \cap PagesIn(table, j) = {}
  /\ \A p \in table.emptyPages : p < table.nextPage

(***************************************************************************)
(* No page of the .dat file ever has two owners, in memory, in the .idx    *)
(* file or while a store is half done, through any sequence of stores that *)
(* grow and shrink, deletes, failed writes and restarts: two owners means  *)
(* that storing one entity silently destroys another.                      *)
(***************************************************************************)
PagesHaveOneOwner ==
  /\ TableConsistent(Snapshot)
  /\ idx \notin {Nothing, Torn} => TableConsistent(idx)
  /\ pc = "store" =>
       /\ Distinct(call.pages)
       /\ Distinct(call.old)
       /\ Range(call.pages) \cap OldLeft = {}
       /\ CallPages \cap m_emptyPages = {}
       /\ \A i \in LiveIn(Snapshot) : CallPages \cap PagesIn(Snapshot, i) = {}
       /\ \A p \in CallPages : p < m_nextPage

(***************************************************************************)
(* An identifier is the first page of its entry, before, during and after  *)
(* an overwrite.  The freshness of the identifiers that NewPage hands out  *)
(* rests on it: the manager looks for a free page, never for a free        *)
(* identifier.                                                             *)
(***************************************************************************)
IdentifierIsFirstPage ==
  /\ \A i \in LiveIn(Snapshot) :
       m_pageIndex[i].pages # <<>> /\ m_pageIndex[i].pages[1] = i
  /\ idx \notin {Nothing, Torn} =>
       \A i \in LiveIn(idx) : idx.pageIndex[i].pages # <<>> /\ idx.pageIndex[i].pages[1] = i
  /\ pc = "store" /\ call.page # NewPage =>
       /\ m_pageIndex[call.page] = Nothing
       /\ call.old # <<>> /\ call.old[1] = call.page
       /\ call.pages # <<>> => call.pages[1] = call.page

(***************************************************************************)
(* The two need each other: a page with two owners is the first of one     *)
(* entry at most, and NewPage takes any free page for an identifier.  They *)
(* hold together, over memory and files of their types.                    *)
(***************************************************************************)
IndexTableSound == TypeOK /\ PagesHaveOneOwner /\ IdentifierIsFirstPage

(***************************************************************************)
(* No page is lost: whatever lies before the end of the file is free, or   *)
(* belongs to an entry or to the call in progress.  (A failed write does   *)
(* lose pages, see WriteFails.)                                            *)
(***************************************************************************)
NoPageIsLost ==
  \A p \in 0 .. m_nextPage - 1 :
    \/ p \in m_emptyPages
    \/ \E i \in LiveIn(Snapshot) : p \in PagesIn(Snapshot, i)
    \/ pc = "store" /\ p \in CallPages

(***************************************************************************)
(* An entity that was neither stored nor deleted since the last flush is   *)
(* intact in the files at every moment, so a crash cannot harm it: no      *)
(* store of another entity ever writes on a page the .idx file gives it.   *)
(***************************************************************************)
UntouchedEntitiesSurviveCrash ==
  idx \notin {Nothing, Torn} =>
    \A i \in Page \ vouched.touched : Contents(idx.pageIndex[i]) = vouched.view[i]

(***************************************************************************)
(* Storing under NewPage never returns an identifier that is in use.       *)
(***************************************************************************)
NewIdentifiersAreFresh ==
  [][ \A i \in Page :
        pc = "store" /\ call.page = NewPage /\ pc' = "idle" /\ reply' = Contract!Stored(i)
          => m_pageIndex[i] = Nothing ]_vars

(***************************************************************************)
(* Without faults the manager is the table of PageStore: every load        *)
(* returns exactly what was last stored under that identifier, however     *)
(* its pages are scattered, shared out and reused.                         *)
(***************************************************************************)
ImplementsPageStore == Contract!Spec

(***************************************************************************)
(* What docs/source/overview.rst:146 says of an unexpected failure: the    *)
(* changes since the last flush are lost, that is, every entity is what it *)
(* was at that flush.                                                      *)
(***************************************************************************)
CrashLosesOnlyChanges ==
  idx \notin {Nothing, Torn} =>
    \A i \in Page : Contents(idx.pageIndex[i]) = vouched.view[i]

==============================================================================
