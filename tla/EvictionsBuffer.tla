--------------------------- MODULE EvictionsBuffer ---------------------------
(***************************************************************************)
(* RandomEvictionsBuffer: a cache of at most Capacity entries in front of  *)
(* a storage manager, write-back or write-through.  A full buffer evicts   *)
(* an entry drawn at random, and an evicted dirty entry is written to the  *)
(* storage manager at that moment, inside whatever call needed the room.   *)
(*                                                                         *)
(* The storage manager is its contract, PageStore: a call on it with an    *)
(* identifier that is not in use throws InvalidPageException.              *)
(***************************************************************************)
EXTENDS Integers, FiniteSets

CONSTANTS
  Id,            \* the identifiers the storage manager may hand out
  Entity,        \* the byte arrays a client may store
  Absent,        \* no contents, no entry
  Capacity,      \* m_capacity
  WriteThrough,  \* m_bWriteThrough
  AnyIdentifier  \* may a client overwrite an identifier that is not in use?

ASSUME EvictionsBufferAssumption ==
  /\ Capacity \in Nat
  /\ WriteThrough \in BOOLEAN
  /\ AnyIdentifier \in BOOLEAN
  /\ Absent \notin Entity
  /\ Absent \notin [data : Entity, dirty : BOOLEAN]

VARIABLES
  m_buffer,  \* identifier -> [data, dirty], or Absent
  store,     \* what the storage manager holds
  reply      \* how the last call ended

vars == <<m_buffer, store, reply>>

Buffered == {i \in Id : m_buffer[i] # Absent}

\* What the client of the buffer should find under each identifier.
View == [i \in Id |-> IF m_buffer[i] # Absent THEN m_buffer[i].data ELSE store[i]]

Storage  == INSTANCE PageStore
Contract == INSTANCE PageStore WITH store <- View

Clean(e) == [data |-> e, dirty |-> FALSE]
Dirty(e) == [data |-> e, dirty |-> TRUE]

EmptyBuffer == [i \in Id |-> Absent]

Init == Storage!Init /\ m_buffer = EmptyBuffer

------------------------------------------------------------------------------
(***************************************************************************)
(* addEntry and removeEntry.  disk is what the storage manager holds by    *)
(* then, answer what the call returns if nothing is thrown on the way.     *)
(***************************************************************************)
\* Mutant of MustEvict: only once the capacity is exceeded.
MustEvictLate == Cardinality(Buffered) > Capacity

MustEvict == Cardinality(Buffered) = Capacity /\ Buffered # {}

\* std::map::insert leaves an entry that is already there alone.
Insert(buffer, i, entry) == IF buffer[i] = Absent THEN [buffer EXCEPT ![i] = entry]
                                                  ELSE buffer

AddWithRoom(i, entry, disk, answer) ==
  /\ ~MustEvict
  /\ m_buffer' = Insert(m_buffer, i, entry)
  /\ store' = disk
  /\ reply' = answer

\* Mutant of AddEvicting: a dirty victim is dropped without being written.
AddEvictingUnwritten(i, entry, disk, answer) ==
  /\ MustEvict
  /\ \E victim \in Buffered :
       m_buffer' = Insert([m_buffer EXCEPT ![victim] = Absent], i, entry)
  /\ store' = disk
  /\ reply' = answer

AddEvicting(i, entry, disk, answer) ==
  /\ MustEvict
  /\ \E victim \in Buffered :
       /\ m_buffer[victim].dirty => disk[victim] # Absent
       /\ m_buffer' = Insert([m_buffer EXCEPT ![victim] = Absent], i, entry)
       /\ store' = IF m_buffer[victim].dirty
                     THEN [disk EXCEPT ![victim] = m_buffer[victim].data]
                     ELSE disk
  /\ reply' = answer

\* The victim's identifier is not in use: the exception leaves removeEntry
\* before the victim leaves the map, and the caller sees it as its own.
AddThrows(disk) ==
  /\ MustEvict
  /\ \E victim \in Buffered :
       /\ m_buffer[victim].dirty
       /\ disk[victim] = Absent
       /\ reply' = Contract!Invalid(victim)
  /\ store' = disk
  /\ UNCHANGED m_buffer

AddEntry(i, entry, disk, answer) ==
  \/ AddWithRoom(i, entry, disk, answer)
  \/ AddEvicting(i, entry, disk, answer)
  \/ AddThrows(disk)

------------------------------------------------------------------------------
(***************************************************************************)
(* storeByteArray                                                          *)
(***************************************************************************)
StoreNew(e) ==
  \E i \in Id :
    /\ store[i] = Absent
    /\ AddEntry(i, Clean(e), [store EXCEPT ![i] = e], Contract!Stored(i))

MayOverwrite(i) == View[i] # Absent \/ AnyIdentifier

WriteBack(i, e) ==
  /\ ~WriteThrough
  /\ IF m_buffer[i] # Absent
       THEN /\ m_buffer' = [m_buffer EXCEPT ![i] = Dirty(e)]
            /\ reply' = Contract!Stored(i)
            /\ UNCHANGED store
       ELSE AddEntry(i, Dirty(e), store, Contract!Stored(i))

\* Mutant of WriteBoth: only the buffer is written.
WriteBufferOnly(i, e) ==
  /\ WriteThrough
  /\ store[i] # Absent
  /\ IF m_buffer[i] # Absent
       THEN /\ m_buffer' = [m_buffer EXCEPT ![i] = Clean(e)]
            /\ reply' = Contract!Stored(i)
            /\ UNCHANGED store
       ELSE AddEntry(i, Clean(e), store, Contract!Stored(i))

WriteBoth(i, e) ==
  /\ WriteThrough
  /\ store[i] # Absent
  /\ LET disk == [store EXCEPT ![i] = e] IN
       IF m_buffer[i] # Absent
         THEN /\ m_buffer' = [m_buffer EXCEPT ![i] = Clean(e)]
              /\ store' = disk
              /\ reply' = Contract!Stored(i)
         ELSE AddEntry(i, Clean(e), disk, Contract!Stored(i))

\* The storage manager throws before the buffer is touched.
WriteRefused(i) ==
  /\ WriteThrough
  /\ store[i] = Absent
  /\ reply' = Contract!Invalid(i)
  /\ UNCHANGED <<m_buffer, store>>

StoreOld(i, e) ==
  /\ MayOverwrite(i)
  /\ WriteBack(i, e) \/ WriteBoth(i, e) \/ WriteRefused(i)

------------------------------------------------------------------------------
(***************************************************************************)
(* loadByteArray, deleteByteArray                                          *)
(***************************************************************************)
LoadHit(i) ==
  /\ m_buffer[i] # Absent
  /\ reply' = Contract!Loaded(m_buffer[i].data)
  /\ UNCHANGED <<m_buffer, store>>

LoadMiss(i) ==
  /\ m_buffer[i] = Absent
  /\ store[i] # Absent
  /\ AddEntry(i, Clean(store[i]), store, Contract!Loaded(store[i]))

LoadRefused(i) ==
  /\ m_buffer[i] = Absent
  /\ store[i] = Absent
  /\ reply' = Contract!Invalid(i)
  /\ UNCHANGED <<m_buffer, store>>

\* Mutant of Delete: the buffer keeps its copy.
DeleteKeepsBuffered(i) ==
  /\ store' = [store EXCEPT ![i] = Absent]
  /\ reply' = IF store[i] # Absent THEN Contract!Deleted(i) ELSE Contract!Invalid(i)
  /\ UNCHANGED m_buffer

\* The entry leaves the buffer first, even if the storage manager then throws.
Delete(i) ==
  /\ m_buffer' = [m_buffer EXCEPT ![i] = Absent]
  /\ store' = [store EXCEPT ![i] = Absent]
  /\ reply' = IF store[i] # Absent THEN Contract!Deleted(i) ELSE Contract!Invalid(i)

(***************************************************************************)
(* clear(), and flush() from the destructor followed by a new buffer over  *)
(* the same storage manager: every dirty entry is written.  (If the        *)
(* storage manager refused one, the exception would leave entries behind   *)
(* that were freed already; that is not modelled.)                         *)
(***************************************************************************)
WrittenBack ==
  [i \in Id |-> IF m_buffer[i] # Absent /\ m_buffer[i].dirty THEN m_buffer[i].data ELSE store[i]]

Clear ==
  /\ \A i \in Buffered : m_buffer[i].dirty => store[i] # Absent
  /\ store' = WrittenBack
  /\ m_buffer' = EmptyBuffer
  /\ UNCHANGED reply

Next ==
  \/ \E e \in Entity : StoreNew(e)
  \/ \E i \in Id :
       \/ \E e \in Entity : StoreOld(i, e)
       \/ LoadHit(i)
       \/ LoadMiss(i)
       \/ LoadRefused(i)
       \/ Delete(i)
  \/ Clear

Spec == Init /\ [][Next]_vars

------------------------------------------------------------------------------

(***************************************************************************)
(* The types of the buffer and of the storage behind it.                   *)
(***************************************************************************)
TypeOK ==
  /\ m_buffer \in [Id -> [data : Entity, dirty : BOOLEAN] \cup {Absent}]
  /\ store \in [Id -> Entity \cup {Absent}]

(***************************************************************************)
(* A clean entry is what the storage manager holds, and whatever is        *)
(* buffered is in use there, so that evicting an entry never loses a       *)
(* change, never throws, and never brings a deleted identifier back.       *)
(***************************************************************************)
BufferIsCoherent ==
  \A i \in Buffered :
    /\ store[i] # Absent
    /\ ~m_buffer[i].dirty => store[i] = m_buffer[i].data

(***************************************************************************)
(* addEntry's own assertion (RandomEvictionsBuffer.cc:73): the buffer      *)
(* holds no more than its capacity, after any mix of hits, misses and      *)
(* evictions.                                                              *)
(***************************************************************************)
CapacityRespected == Cardinality(Buffered) <= Capacity

(***************************************************************************)
(* With write-through the storage manager has every change already, so     *)
(* that losing the buffer loses nothing.                                   *)
(***************************************************************************)
WriteThroughHoldsNothingBack == WriteThrough => View = store

(***************************************************************************)
(* Whichever entries the random evictions pick, a client that overwrites   *)
(* only identifiers it was given sees the table of PageStore: the last     *)
(* contents stored, wherever they are.                                     *)
(***************************************************************************)
ImplementsPageStore == Contract!Spec

(***************************************************************************)
(* docs/source/overview.rst:68: "An exception is thrown if the caller      *)
(* requests an invalid ID to be overwritten."                              *)
(***************************************************************************)
InvalidOverwritesAreRefused ==
  [][ \A i \in Id, e \in Entity :
        StoreOld(i, e) /\ View[i] = Absent => reply' = Contract!Invalid(i) ]_vars

==============================================================================
