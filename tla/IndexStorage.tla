---------------------------- MODULE IndexStorage ----------------------------
(***************************************************************************)
(* The storage stack that the C API's Index assembles: a tree over a       *)
(* buffer over a disk storage manager; what Index::flush() and ~Index() do *)
(* to the three, one after the other; and what is left of them when the    *)
(* process dies.                                                           *)
(*                                                                         *)
(* The manager keeps its table of identifiers in memory, and writes it     *)
(* down when it is flushed; entities it overwrites in place.  After a      *)
(* crash the table of the last flush meets the pages of the moment: of an  *)
(* identifier that is in that table and was written since, the contents    *)
(* may be anything (DiskStorage shows that the others are safe).  A crash  *)
(* in the middle of a call is one that comes after it: what the call was   *)
(* writing counts as written.  (A crash in the middle of the manager's own *)
(* flush tears the table, and is left to DiskStorage.)                     *)
(***************************************************************************)
EXTENDS EvictionsBuffer

CONSTANTS
  HeaderId,  \* m_headerID, the page the tree's header is stored under
  Unknown    \* contents that nobody can tell

ASSUME IndexStorageAssumption ==
  /\ HeaderId \in Id
  /\ Unknown \notin Entity \cup {Absent}

VARIABLES
  phase,     \* "open", or in Index::flush or ~Index: see below
  durable,   \* what a crash would leave under each identifier, if that is known
  leaving,   \* history: what the index held when flush or ~Index stored its header
  promised   \* history: what it held when that was done, but for what the tree
             \* changed since and what the buffer held back

indexVars == <<vars, phase, durable, leaving, promised>>

NoView == [i \in Id |-> Absent]

\* An index that was created and closed before: its header is on disk.
IndexInit ==
  \E e \in Entity :
    /\ m_buffer = EmptyBuffer
    /\ store = [i \in Id |-> IF i = HeaderId THEN e ELSE Absent]
    /\ reply = Contract!NoReply
    /\ phase = "open"
    /\ durable = store
    /\ leaving = NoView
    /\ promised = store

------------------------------------------------------------------------------
(***************************************************************************)
(* What the calls on the manager, made or passed on by the buffer, do to   *)
(* the pages: rewriting the same contents in place changes nothing, and an *)
(* identifier that is not in the table on disk will not come back.         *)
(***************************************************************************)
Overwritten ==
  durable' = [i \in Id |-> IF store'[i] = store[i] \/ durable[i] = Absent THEN durable[i]
                                                                          ELSE Unknown]

\* What was stored or deleted is not what was flushed any more.
Retracted ==
  promised' = [i \in Id |-> IF reply' \in {Contract!Stored(i), Contract!Deleted(i)}
                              THEN Unknown ELSE promised[i]]

\* readNode, writeNode, deleteNode and storeHeader on the buffer, in any order;
\* the tree never deletes its header.
TreeCall ==
  /\ phase = "open"
  /\ \/ \E e \in Entity : StoreNew(e)
     \/ \E i \in Id :
          \/ \E e \in Entity : StoreOld(i, e)
          \/ LoadHit(i)
          \/ LoadMiss(i)
          \/ LoadRefused(i)
          \/ i # HeaderId /\ Delete(i)
  /\ Overwritten
  /\ Retracted
  /\ UNCHANGED <<phase, leaving>>

\* Index_ClearBuffer.
ClearBuffer ==
  /\ phase = "open"
  /\ Clear
  /\ Overwritten
  /\ UNCHANGED <<phase, leaving, promised>>

\* Both flush and ~Index begin with the tree, which stores its header.  (If that
\* throws, flush was a TreeCall, and ~Index a Crash.)
StoreHeader(next) ==
  /\ phase = "open"
  /\ \E e \in Entity : StoreOld(HeaderId, e)
  /\ reply' = Contract!Stored(HeaderId)
  /\ phase' = next
  /\ leaving' = View'
  /\ Overwritten
  /\ Retracted

IndexFlush == StoreHeader("flushing")
DestroyTree == StoreHeader("closing")

\* Mutant of DestroyBuffer: the storage manager went first, with its last
\* table, and the dirty entries go nowhere.
DestroyBufferLast ==
  /\ phase = "closing"
  /\ m_buffer' = EmptyBuffer
  /\ phase' = "drained"
  /\ UNCHANGED <<store, reply, durable, leaving, promised>>

\* ~Buffer: the dirty entries are written.  (One that is refused throws out of
\* a destructor: the process dies.)
DestroyBuffer ==
  /\ phase = "closing"
  /\ Clear
  /\ Overwritten
  /\ phase' = "drained"
  /\ UNCHANGED <<leaving, promised>>

HeldBack == {i \in Buffered : m_buffer[i].dirty}

\* Mutant of FlushStorage: Index::flush() forgets the storage manager.
FlushStorageIfClosing ==
  /\ phase \in {"flushing", "drained"}
  /\ durable' = IF phase = "flushing" THEN durable ELSE store
  /\ promised' = [i \in Id |-> IF phase = "flushing" /\ i \in HeldBack THEN Unknown ELSE leaving[i]]
  /\ phase' = "open"
  /\ leaving' = NoView
  /\ UNCHANGED vars

\* The storage manager is flushed: the end of Index::flush(), behind the back of
\* the buffer, or, by its destructor, of ~Index; then the index is opened again.
FlushStorage ==
  /\ phase \in {"flushing", "drained"}
  /\ durable' = store
  /\ promised' = [i \in Id |-> IF phase = "flushing" /\ i \in HeldBack THEN Unknown ELSE leaving[i]]
  /\ phase' = "open"
  /\ leaving' = NoView
  /\ UNCHANGED vars

\* The process dies, whatever it was doing, and the index is opened again.
Crash ==
  /\ \E disk \in [Id -> Entity \cup {Absent}] :
       /\ \A i \in Id : IF durable[i] = Unknown THEN disk[i] # Absent ELSE disk[i] = durable[i]
       /\ store' = disk
       /\ durable' = disk
  /\ m_buffer' = EmptyBuffer
  /\ reply' = Contract!NoReply
  /\ phase' = "open"
  /\ leaving' = NoView
  /\ UNCHANGED promised

IndexNext ==
  \/ TreeCall
  \/ ClearBuffer
  \/ IndexFlush
  \/ DestroyTree
  \/ DestroyBuffer
  \/ FlushStorage
  \/ Crash

IndexSpec == IndexInit /\ [][IndexNext]_indexVars

------------------------------------------------------------------------------

(***************************************************************************)
(* Whatever the buffer evicts and whenever the process dies, a page that   *)
(* the tree left alone since Index_Flush or Index_Destroy returned reads   *)
(* as it did then, after the crash, too.  This asks for the right order of *)
(* the three destructors.  It leaves out what a write-back buffer held     *)
(* back during Index_Flush, and what the tree wrote since: of a page that  *)
(* is overwritten in place the code keeps no older version.                *)
(***************************************************************************)
FlushedPagesSurviveCrash ==
  \A i \in Id : promised[i] # Unknown => View[i] = promised[i]

==============================================================================
