------------------------- MODULE IndexStorageProofs -------------------------
(***************************************************************************)
(* Proofs about EvictionsBuffer, for every set of identifiers and          *)
(* contents and every capacity, and about IndexStorage over it: what of a  *)
(* flushed index survives a crash.                                         *)
(***************************************************************************)
EXTENDS IndexStorage, FiniteSetTheorems, TLAPS

BufferEntry == [data : Entity, dirty : BOOLEAN]

\* The two ways to keep a buffered identifier in use at the storage manager:
\* clients that only overwrite what they were given, or write-through.
Guarded == ~AnyIdentifier \/ WriteThrough

\* With write-through nothing is ever dirty.
NothingDirty == WriteThrough => \A i \in Buffered : ~m_buffer[i].dirty

(***************************************************************************)
(* The inductive invariant: coherence alone does not say that a            *)
(* write-through buffer can be thrown away.                                *)
(***************************************************************************)
IInv == TypeOK /\ BufferIsCoherent /\ NothingDirty

\* What addEntry may be given: room for i, and a storage manager that has at
\* most i changed and agrees with the entry if that is clean.
MayAdd(i, entry, disk) ==
  /\ i \in Id
  /\ m_buffer[i] = Absent
  /\ entry \in BufferEntry
  /\ WriteThrough => ~entry.dirty
  /\ disk \in [Id -> Entity \cup {Absent}]
  /\ \A j \in Id : j # i => disk[j] = store[j]
  /\ disk[i] # Absent
  /\ ~entry.dirty => disk[i] = entry.data

\* Entries are entries, and are not Absent.
LEMMA EntryProperties ==
  ASSUME NEW e \in Entity
  PROVE  /\ Clean(e) \in BufferEntry /\ Clean(e) # Absent
         /\ Clean(e).data = e /\ Clean(e).dirty = FALSE
         /\ Dirty(e) \in BufferEntry /\ Dirty(e) # Absent
         /\ Dirty(e).data = e /\ Dirty(e).dirty = TRUE
<1>1. Clean(e) \in BufferEntry /\ Dirty(e) \in BufferEntry
  BY DEF Clean, Dirty, BufferEntry
<1>2. Absent \notin BufferEntry
  BY EvictionsBufferAssumption DEF BufferEntry
<1>3. Clean(e).data = e /\ Clean(e).dirty = FALSE
  BY DEF Clean
<1>4. Dirty(e).data = e /\ Dirty(e).dirty = TRUE
  BY DEF Dirty
<1>5. QED
  BY <1>1, <1>2, <1>3, <1>4

\* What the client sees changes under one identifier.
LEMMA ViewUpdate ==
  ASSUME NEW i \in Id, NEW e,
         \A j \in Id : (IF m_buffer'[j] # Absent THEN m_buffer'[j].data ELSE store'[j])
                         = IF j = i THEN e ELSE View[j]
  PROVE  View' = [View EXCEPT ![i] = e]
BY DEF View

\* What addEntry does then: no exception, the entry is in, and every other
\* identifier shows what it showed, evicted or not.
LEMMA AddEntryEffect ==
  ASSUME IInv, NEW i, NEW entry, NEW disk, NEW answer,
         MayAdd(i, entry, disk), AddEntry(i, entry, disk, answer)
  PROVE  IInv' /\ View' = [View EXCEPT ![i] = entry.data] /\ reply' = answer
<1> USE EvictionsBufferAssumption
<1>1. entry # Absent /\ entry.data \in Entity /\ entry.dirty \in BOOLEAN
  BY DEF MayAdd, BufferEntry
<1>2. CASE AddWithRoom(i, entry, disk, answer)
  <2>1. /\ m_buffer' = [m_buffer EXCEPT ![i] = entry]
        /\ store' = disk
        /\ reply' = answer
    BY <1>2 DEF AddWithRoom, Insert, MayAdd
  <2>2. \A j \in Id : m_buffer'[j] = IF j = i THEN entry ELSE m_buffer[j]
    BY <2>1 DEF IInv, TypeOK, MayAdd
  <2>3. TypeOK'
    BY <2>1 DEF IInv, TypeOK, MayAdd, BufferEntry
  <2>4. BufferIsCoherent' /\ NothingDirty'
    BY <2>1, <2>2 DEF IInv, BufferIsCoherent, NothingDirty, Buffered, MayAdd
  <2>5. View' = [View EXCEPT ![i] = entry.data]
    <3>1. \A j \in Id : (IF m_buffer'[j] # Absent THEN m_buffer'[j].data ELSE store'[j])
                          = IF j = i THEN entry.data ELSE View[j]
      BY <1>1, <2>1, <2>2 DEF View, MayAdd
    <3>2. QED
      BY <3>1, ViewUpdate DEF MayAdd
  <2>6. QED
    BY <2>1, <2>3, <2>4, <2>5 DEF IInv
<1>3. CASE AddEvicting(i, entry, disk, answer)
  <2>1. PICK victim \in Buffered :
          /\ m_buffer[victim].dirty => disk[victim] # Absent
          /\ m_buffer' = Insert([m_buffer EXCEPT ![victim] = Absent], i, entry)
          /\ store' = IF m_buffer[victim].dirty
                        THEN [disk EXCEPT ![victim] = m_buffer[victim].data]
                        ELSE disk
    BY <1>3 DEF AddEvicting
  <2>2. /\ victim \in Id
        /\ victim # i
        /\ m_buffer[victim] \in BufferEntry
        /\ m_buffer[victim].data \in Entity
        /\ store[victim] # Absent
        /\ ~m_buffer[victim].dirty => store[victim] = m_buffer[victim].data
    BY DEF Buffered, MayAdd, IInv, TypeOK, BufferIsCoherent, BufferEntry
  <2>3. m_buffer' = [m_buffer EXCEPT ![victim] = Absent, ![i] = entry]
    BY <2>1, <2>2 DEF Insert, MayAdd, IInv, TypeOK
  <2>4. \A j \in Id : m_buffer'[j] = IF j = i THEN entry
                                      ELSE IF j = victim THEN Absent ELSE m_buffer[j]
    BY <2>2, <2>3 DEF IInv, TypeOK, MayAdd
  <2>5. \A j \in Id : store'[j] = IF j = victim THEN m_buffer[victim].data ELSE disk[j]
    BY <2>1, <2>2 DEF MayAdd
  <2>6. TypeOK'
    <3>1. m_buffer' \in [Id -> BufferEntry \cup {Absent}]
      BY <2>2, <2>3 DEF IInv, TypeOK, MayAdd, BufferEntry
    <3>2. store' \in [Id -> Entity \cup {Absent}]
      BY <2>1, <2>2 DEF MayAdd
    <3>3. QED
      BY <3>1, <3>2 DEF TypeOK, BufferEntry
  <2>7. BufferIsCoherent' /\ NothingDirty'
    BY <2>2, <2>4, <2>5 DEF IInv, BufferIsCoherent, NothingDirty, Buffered, MayAdd
  <2>8. View' = [View EXCEPT ![i] = entry.data]
    <3>1. ASSUME NEW j \in Id
          PROVE  (IF m_buffer'[j] # Absent THEN m_buffer'[j].data ELSE store'[j])
                   = IF j = i THEN entry.data
                     ELSE IF m_buffer[j] # Absent THEN m_buffer[j].data ELSE store[j]
      BY <1>1, <2>2, <2>4, <2>5 DEF MayAdd, Buffered
    <3>2. QED
      BY <3>1 DEF View
  <2>9. QED
    BY <1>3, <2>6, <2>7, <2>8 DEF IInv, AddEvicting
<1>4. ~AddThrows(disk)
  BY DEF AddThrows, MayAdd, IInv, BufferIsCoherent, Buffered
<1>5. QED
  BY <1>2, <1>3, <1>4 DEF AddEntry

\* The arguments that the calls give addEntry are such.
LEMMA StoreNewMayAdd ==
  ASSUME IInv, NEW i \in Id, NEW e \in Entity, store[i] = Absent
  PROVE  MayAdd(i, Clean(e), [store EXCEPT ![i] = e])
BY EvictionsBufferAssumption
   DEF MayAdd, IInv, TypeOK, BufferIsCoherent, Buffered, Clean, BufferEntry

LEMMA LoadMissMayAdd ==
  ASSUME IInv, NEW i \in Id, m_buffer[i] = Absent, store[i] # Absent
  PROVE  MayAdd(i, Clean(store[i]), store)
BY EvictionsBufferAssumption DEF MayAdd, IInv, TypeOK, Clean, BufferEntry

------------------------------------------------------------------------------
(***************************************************************************)
(* What each call does to the invariant, to what the client sees and to    *)
(* the answer.                                                             *)
(***************************************************************************)
LEMMA StoreNewEffect ==
  ASSUME IInv, NEW e \in Entity, StoreNew(e)
  PROVE  IInv' /\ Contract!StoreNew(e)
<1>1. PICK i \in Id :
        /\ store[i] = Absent
        /\ AddEntry(i, Clean(e), [store EXCEPT ![i] = e], Contract!Stored(i))
  BY DEF StoreNew
<1>2. /\ IInv'
      /\ View' = [View EXCEPT ![i] = Clean(e).data]
      /\ reply' = Contract!Stored(i)
  BY <1>1, StoreNewMayAdd, AddEntryEffect
<1>3. View[i] = Absent
  BY <1>1 DEF IInv, BufferIsCoherent, Buffered, View
<1>4. QED
  BY <1>2, <1>3 DEF Contract!StoreNew, Clean

LEMMA StoreOldEffect ==
  ASSUME IInv, Guarded, NEW i \in Id, NEW e \in Entity, StoreOld(i, e)
  PROVE  IInv' /\ (Contract!StoreOld(i, e) \/ Contract!Refuse(i))
<1> USE EvictionsBufferAssumption
<1>1. CASE WriteBack(i, e)
  <2>1. ~WriteThrough /\ View[i] # Absent /\ store[i] # Absent
    BY <1>1 DEF WriteBack, StoreOld, MayOverwrite, Guarded, View, IInv,
                BufferIsCoherent, Buffered
  <2>2. CASE m_buffer[i] # Absent
    <3>1. /\ m_buffer' = [m_buffer EXCEPT ![i] = Dirty(e)]
          /\ store' = store
          /\ reply' = Contract!Stored(i)
      BY <1>1, <2>2 DEF WriteBack
    <3>2. Dirty(e) \in BufferEntry /\ Dirty(e).data = e /\ Dirty(e).dirty /\ Dirty(e) # Absent
      BY EntryProperties
    <3>3. TypeOK'
      BY <3>1, <3>2 DEF IInv, TypeOK, BufferEntry
    <3>4. \A j \in Id : m_buffer'[j] = IF j = i THEN Dirty(e) ELSE m_buffer[j]
      BY <3>1 DEF IInv, TypeOK
    <3>5. BufferIsCoherent' /\ NothingDirty'
      BY <2>1, <3>1, <3>2, <3>4 DEF IInv, BufferIsCoherent, NothingDirty, Buffered
    <3>6. View' = [View EXCEPT ![i] = e]
      <4>1. \A j \in Id : (IF m_buffer'[j] # Absent THEN m_buffer'[j].data ELSE store'[j])
                            = IF j = i THEN e ELSE View[j]
        BY <3>1, <3>2, <3>4 DEF View
      <4>2. QED
        BY <4>1, ViewUpdate
    <3>7. QED
      BY <2>1, <3>1, <3>3, <3>5, <3>6 DEF IInv, Contract!StoreOld
  <2>3. CASE m_buffer[i] = Absent
    <3>1. MayAdd(i, Dirty(e), store)
      BY <2>1, <2>3 DEF MayAdd, Dirty, BufferEntry, IInv, TypeOK
    <3>2. AddEntry(i, Dirty(e), store, Contract!Stored(i))
      BY <1>1, <2>3 DEF WriteBack
    <3>3. IInv' /\ View' = [View EXCEPT ![i] = Dirty(e).data] /\ reply' = Contract!Stored(i)
      BY <3>1, <3>2, AddEntryEffect
    <3>4. QED
      BY <2>1, <3>3 DEF Contract!StoreOld, Dirty
  <2>4. QED
    BY <2>2, <2>3
<1>2. CASE WriteBoth(i, e)
  <2>1. WriteThrough /\ store[i] # Absent /\ View[i] # Absent
    BY <1>2 DEF WriteBoth, View, IInv, TypeOK
  <2>2. CASE m_buffer[i] # Absent
    <3>1. /\ m_buffer' = [m_buffer EXCEPT ![i] = Clean(e)]
          /\ store' = [store EXCEPT ![i] = e]
          /\ reply' = Contract!Stored(i)
      BY <1>2, <2>2 DEF WriteBoth
    <3>2. Clean(e) \in BufferEntry /\ Clean(e).data = e /\ ~Clean(e).dirty /\ Clean(e) # Absent
      BY EntryProperties
    <3>3. TypeOK'
      BY <3>1, <3>2 DEF IInv, TypeOK, BufferEntry
    <3>4. \A j \in Id : /\ m_buffer'[j] = IF j = i THEN Clean(e) ELSE m_buffer[j]
                        /\ store'[j] = IF j = i THEN e ELSE store[j]
      BY <3>1 DEF IInv, TypeOK
    <3>5. BufferIsCoherent' /\ NothingDirty'
      BY <2>1, <3>2, <3>4 DEF IInv, BufferIsCoherent, NothingDirty, Buffered
    <3>6. View' = [View EXCEPT ![i] = e]
      BY <3>2, <3>4 DEF View
    <3>7. QED
      BY <2>1, <3>1, <3>3, <3>5, <3>6 DEF IInv, Contract!StoreOld
  <2>3. CASE m_buffer[i] = Absent
    <3>1. MayAdd(i, Clean(e), [store EXCEPT ![i] = e])
      BY <2>1, <2>3 DEF MayAdd, Clean, BufferEntry, IInv, TypeOK
    <3>2. AddEntry(i, Clean(e), [store EXCEPT ![i] = e], Contract!Stored(i))
      BY <1>2, <2>3 DEF WriteBoth
    <3>3. IInv' /\ View' = [View EXCEPT ![i] = Clean(e).data] /\ reply' = Contract!Stored(i)
      BY <3>1, <3>2, AddEntryEffect
    <3>4. QED
      BY <2>1, <3>3 DEF Contract!StoreOld, Clean
  <2>4. QED
    BY <2>2, <2>3
<1>3. CASE WriteRefused(i)
  <2>1. View[i] = Absent
    BY <1>3 DEF WriteRefused, View, IInv, BufferIsCoherent, Buffered
  <2>2. UNCHANGED <<m_buffer, store>> /\ View' = View
    BY <1>3 DEF WriteRefused, View
  <2>3. IInv'
    BY <2>2 DEF IInv, TypeOK, BufferIsCoherent, NothingDirty, Buffered
  <2>4. QED
    BY <1>3, <2>1, <2>2, <2>3 DEF WriteRefused, Contract!Refuse
<1>4. QED
  BY <1>1, <1>2, <1>3 DEF StoreOld

LEMMA LoadEffect ==
  ASSUME IInv, NEW i \in Id, LoadHit(i) \/ LoadMiss(i) \/ LoadRefused(i)
  PROVE  IInv' /\ (Contract!Load(i) \/ Contract!Refuse(i))
<1> USE EvictionsBufferAssumption
<1>1. CASE LoadMiss(i)
  <2>1. IInv' /\ View' = [View EXCEPT ![i] = Clean(store[i]).data]
              /\ reply' = Contract!Loaded(store[i])
    BY <1>1, LoadMissMayAdd, AddEntryEffect DEF LoadMiss
  <2>2. View[i] = store[i] /\ store[i] # Absent /\ Clean(store[i]).data = store[i]
    BY <1>1 DEF LoadMiss, View, Clean
  <2>3. View' = View
    BY <2>1, <2>2 DEF View
  <2>4. QED
    BY <2>1, <2>2, <2>3 DEF Contract!Load
<1>2. CASE LoadHit(i) \/ LoadRefused(i)
  <2>1. UNCHANGED <<m_buffer, store>> /\ View' = View
    BY <1>2 DEF LoadHit, LoadRefused, View
  <2>2. IInv'
    BY <2>1 DEF IInv, TypeOK, BufferIsCoherent, NothingDirty, Buffered
  <2>3. CASE LoadHit(i)
    <3>1. View[i] = m_buffer[i].data /\ View[i] # Absent
      BY <2>3 DEF LoadHit, View, IInv, TypeOK
    <3>2. QED
      BY <2>1, <2>2, <2>3, <3>1 DEF LoadHit, Contract!Load
  <2>4. CASE LoadRefused(i)
    BY <2>1, <2>2, <2>4 DEF LoadRefused, Contract!Refuse, View
  <2>5. QED
    BY <1>2, <2>3, <2>4
<1>3. QED
  BY <1>1, <1>2

LEMMA DeleteEffect ==
  ASSUME IInv, NEW i \in Id, Delete(i)
  PROVE  IInv' /\ (Contract!Delete(i) \/ Contract!Refuse(i))
<1> USE EvictionsBufferAssumption
<1>1. /\ m_buffer' = [m_buffer EXCEPT ![i] = Absent]
      /\ store' = [store EXCEPT ![i] = Absent]
  BY DEF Delete
<1>2. TypeOK'
  BY <1>1 DEF IInv, TypeOK
<1>3. \A j \in Id : /\ m_buffer'[j] = IF j = i THEN Absent ELSE m_buffer[j]
                    /\ store'[j] = IF j = i THEN Absent ELSE store[j]
  BY <1>1 DEF IInv, TypeOK
<1>4. BufferIsCoherent' /\ NothingDirty'
  BY <1>3 DEF IInv, BufferIsCoherent, NothingDirty, Buffered
<1>5. View' = [View EXCEPT ![i] = Absent]
  BY <1>3 DEF View
<1>6. CASE store[i] # Absent
  <2>1. View[i] # Absent
    BY <1>6 DEF View, IInv, TypeOK
  <2>2. QED
    BY <1>2, <1>4, <1>5, <1>6, <2>1 DEF IInv, Delete, Contract!Delete
<1>7. CASE store[i] = Absent
  <2>1. View[i] = Absent
    BY <1>7 DEF View, IInv, BufferIsCoherent, Buffered
  <2>2. View' = View
    BY <1>5, <2>1 DEF View
  <2>3. QED
    BY <1>2, <1>4, <1>7, <2>1, <2>2 DEF IInv, Delete, Contract!Refuse
<1>8. QED
  BY <1>6, <1>7

\* Writing the dirty entries back changes nothing that a client can see.
LEMMA WrittenBackIsView == IInv => WrittenBack = View
BY DEF IInv, BufferIsCoherent, Buffered, WrittenBack, View

LEMMA ClearEffect ==
  ASSUME IInv, Clear
  PROVE  IInv' /\ View' = View
<1> USE EvictionsBufferAssumption
<1>1. m_buffer' = EmptyBuffer /\ store' = View
  BY WrittenBackIsView DEF Clear
<1>2. View \in [Id -> Entity \cup {Absent}]
  BY DEF IInv, TypeOK, View
<1>3. QED
  BY <1>1, <1>2 DEF IInv, TypeOK, BufferIsCoherent, NothingDirty, Buffered, EmptyBuffer, View

------------------------------------------------------------------------------

LEMMA StepEffect ==
  ASSUME IInv, Guarded, [Next]_vars
  PROVE  IInv' /\ [Contract!Next]_(Contract!vars)
<1>1. CASE \E e \in Entity : StoreNew(e)
  BY <1>1, StoreNewEffect DEF Contract!Next
<1>2. ASSUME NEW i \in Id, NEW e \in Entity, StoreOld(i, e)
      PROVE  IInv' /\ [Contract!Next]_(Contract!vars)
  BY <1>2, StoreOldEffect DEF Contract!Next
<1>3. ASSUME NEW i \in Id, LoadHit(i) \/ LoadMiss(i) \/ LoadRefused(i)
      PROVE  IInv' /\ [Contract!Next]_(Contract!vars)
  BY <1>3, LoadEffect DEF Contract!Next
<1>4. ASSUME NEW i \in Id, Delete(i)
      PROVE  IInv' /\ [Contract!Next]_(Contract!vars)
  BY <1>4, DeleteEffect DEF Contract!Next
<1>5. CASE Clear
  BY <1>5, ClearEffect DEF Clear, Contract!vars
<1>6. CASE UNCHANGED vars
  BY <1>6 DEF vars, Contract!vars, View, IInv, TypeOK, BufferIsCoherent, NothingDirty, Buffered
<1>7. QED
  BY <1>1, <1>2, <1>3, <1>4, <1>5, <1>6 DEF Next

LEMMA InitEffect == Init => IInv /\ Contract!Init
BY EvictionsBufferAssumption
   DEF Init, Storage!Init, Contract!Init, Contract!NoReply, Storage!NoReply, EmptyBuffer,
       IInv, TypeOK, BufferIsCoherent, NothingDirty, Buffered, View

LEMMA Invariant ==
  ASSUME Guarded
  PROVE  Spec => []IInv
<1>1. Init => IInv
  BY InitEffect
<1>2. IInv /\ [Next]_vars => IInv'
  BY StepEffect
<1>3. QED
  BY <1>1, <1>2, PTL DEF Spec

(***************************************************************************)
(* The buffer is coherent with the storage manager, for clients that only  *)
(* overwrite identifiers they were given or with write-through.            *)
(***************************************************************************)
THEOREM Coherence ==
  ASSUME Guarded
  PROVE  Spec => []BufferIsCoherent
<1>1. IInv => BufferIsCoherent
  BY DEF IInv
<1>2. QED
  BY <1>1, Invariant, PTL

(***************************************************************************)
(* Under the same hypothesis the buffer, whatever it evicts, behaves as    *)
(* the table of PageStore.                                                 *)
(***************************************************************************)
THEOREM Refinement ==
  ASSUME Guarded
  PROVE  Spec => ImplementsPageStore
<1>1. Init => Contract!Init
  BY InitEffect
<1>2. IInv /\ [Next]_vars => [Contract!Next]_(Contract!vars)
  BY StepEffect
<1>3. QED
  BY <1>1, <1>2, Invariant, PTL DEF Spec, Contract!Spec, ImplementsPageStore

LEMMA CleanViewIsStore == IInv => WriteThroughHoldsNothingBack
BY DEF IInv, TypeOK, BufferIsCoherent, NothingDirty, WriteThroughHoldsNothingBack, View, Buffered

(***************************************************************************)
(* A write-through buffer holds nothing that the storage manager has not.  *)
(***************************************************************************)
THEOREM NothingHeldBack ==
  ASSUME Guarded
  PROVE  Spec => []WriteThroughHoldsNothingBack
BY CleanViewIsStore, Invariant, PTL

(***************************************************************************)
(* With write-through, overwriting an identifier that is not in use is     *)
(* refused, whatever the client does.                                      *)
(***************************************************************************)
THEOREM OverwritesRefused ==
  ASSUME WriteThrough
  PROVE  Spec => InvalidOverwritesAreRefused
<1>1. Guarded
  BY DEF Guarded
<1>2. ASSUME IInv, NEW i \in Id, NEW e \in Entity, StoreOld(i, e), View[i] = Absent
      PROVE  reply' = Contract!Invalid(i)
  <2>1. store[i] = Absent
    BY <1>2, CleanViewIsStore DEF WriteThroughHoldsNothingBack
  <2>2. WriteRefused(i)
    BY <1>2, <2>1 DEF StoreOld, WriteBack, WriteBoth
  <2>3. QED
    BY <2>2 DEF WriteRefused
<1>3. IInv => \A i \in Id, e \in Entity :
                StoreOld(i, e) /\ View[i] = Absent => reply' = Contract!Invalid(i)
  BY <1>2
<1>4. QED
  BY <1>1, <1>3, Invariant, PTL DEF InvalidOverwritesAreRefused

------------------------------------------------------------------------------
(***************************************************************************)
(* The capacity, for any client at all: the types are inductive by         *)
(* themselves, and so is the bound together with them.                     *)
(***************************************************************************)
CInv == TypeOK /\ CapacityRespected

\* Buffers that hold no more than before.
LEMMA NoneAdded ==
  ASSUME IsFiniteSet(Id), CapacityRespected, Buffered' \subseteq Buffered
  PROVE  CapacityRespected'
<1>1. IsFiniteSet(Buffered)
  BY FS_Subset DEF Buffered
<1>2. Cardinality(Buffered') <= Cardinality(Buffered)
  BY <1>1, FS_Subset
<1>3. Cardinality(Buffered) \in Nat /\ Cardinality(Buffered') \in Nat
  BY <1>1, FS_Subset, FS_CardinalityType
<1>4. QED
  BY <1>2, <1>3, EvictionsBufferAssumption DEF CapacityRespected

LEMMA AddEntryCapacity ==
  ASSUME IsFiniteSet(Id), Capacity # 0, CInv,
         NEW i \in Id, NEW entry \in BufferEntry,
         NEW disk \in [Id -> Entity \cup {Absent}], NEW answer,
         AddEntry(i, entry, disk, answer)
  PROVE  CInv'
<1> USE EvictionsBufferAssumption
<1>1. /\ IsFiniteSet(Buffered)
      /\ Cardinality(Buffered) \in Nat
      /\ Cardinality(Buffered) <= Capacity
  BY FS_Subset, FS_CardinalityType DEF Buffered, CInv, CapacityRespected
<1>2. CASE AddWithRoom(i, entry, disk, answer)
  <2>1. m_buffer' = Insert(m_buffer, i, entry) /\ store' = disk
    BY <1>2 DEF AddWithRoom
  <2>2. TypeOK'
    BY <2>1 DEF CInv, TypeOK, Insert, BufferEntry
  <2>3. CASE i \in Buffered
    <3>1. Buffered' \subseteq Buffered
      BY <2>1, <2>3 DEF Insert, Buffered
    <3>2. QED
      BY <2>2, <3>1, NoneAdded DEF CInv
  <2>4. CASE i \notin Buffered
    <3>1. Buffered' \subseteq Buffered \cup {i}
      BY <2>1 DEF Insert, Buffered, CInv, TypeOK
    <3>2. Cardinality(Buffered) < Capacity
      <4>1. Cardinality(Buffered) # Capacity \/ Buffered = {}
        BY <1>2 DEF AddWithRoom, MustEvict
      <4>2. Buffered = {} => Cardinality(Buffered) = 0
        BY FS_EmptySet
      <4>3. QED
        BY <1>1, <4>1, <4>2
    <3>3. /\ IsFiniteSet(Buffered \cup {i})
          /\ Cardinality(Buffered \cup {i}) = Cardinality(Buffered) + 1
      BY <1>1, <2>4, FS_AddElement
    <3>4. /\ Cardinality(Buffered') \in Nat
          /\ Cardinality(Buffered') <= Cardinality(Buffered \cup {i})
      BY <3>1, <3>3, FS_Subset, FS_CardinalityType
    <3>5. Cardinality(Buffered') <= Capacity
      BY <1>1, <3>2, <3>3, <3>4
    <3>6. QED
      BY <2>2, <3>5 DEF CInv, CapacityRespected
  <2>5. QED
    BY <2>3, <2>4
<1>3. CASE AddEvicting(i, entry, disk, answer)
  <2>1. PICK victim \in Buffered :
          /\ m_buffer' = Insert([m_buffer EXCEPT ![victim] = Absent], i, entry)
          /\ store' = IF m_buffer[victim].dirty
                        THEN [disk EXCEPT ![victim] = m_buffer[victim].data]
                        ELSE disk
    BY <1>3 DEF AddEvicting
  <2>2. victim \in Id /\ m_buffer[victim].data \in Entity
    BY DEF Buffered, CInv, TypeOK
  <2>3. TypeOK'
    <3>1. m_buffer' \in [Id -> BufferEntry \cup {Absent}]
      BY <2>1, <2>2 DEF CInv, TypeOK, Insert, BufferEntry
    <3>2. store' \in [Id -> Entity \cup {Absent}]
      BY <2>1, <2>2
    <3>3. QED
      BY <3>1, <3>2 DEF TypeOK, BufferEntry
  <2> DEFINE rest == Buffered \ {victim}
  <2>4. Buffered' \subseteq rest \cup {i}
    BY <2>1, <2>2 DEF Insert, Buffered, CInv, TypeOK
  <2>5. IsFiniteSet(rest) /\ Cardinality(rest) = Cardinality(Buffered) - 1
    BY <1>1, FS_RemoveElement
  <2> HIDE DEF rest
  <2>6. /\ IsFiniteSet(rest \cup {i})
        /\ Cardinality(rest \cup {i}) = IF i \in rest THEN Cardinality(rest)
                                                      ELSE Cardinality(rest) + 1
    BY <2>5, FS_AddElement
  <2>7. /\ Cardinality(Buffered') \in Nat
        /\ Cardinality(Buffered') <= Cardinality(rest \cup {i})
    BY <2>4, <2>6, FS_Subset, FS_CardinalityType
  <2>8. Cardinality(rest \cup {i}) <= Cardinality(Buffered)
    BY <1>1, <2>5, <2>6
  <2>9. Cardinality(Buffered') <= Capacity
    <3>1. Cardinality(rest \cup {i}) \in Nat
      BY <2>6, FS_CardinalityType
    <3>2. QED
      BY <1>1, <2>7, <2>8, <3>1
  <2>10. QED
    BY <2>3, <2>9 DEF CInv, CapacityRespected
<1>4. CASE AddThrows(disk)
  <2>1. UNCHANGED m_buffer /\ store' = disk
    BY <1>4 DEF AddThrows
  <2>2. QED
    BY <2>1 DEF CInv, TypeOK, CapacityRespected, Buffered
<1>5. QED
  BY <1>2, <1>3, <1>4 DEF AddEntry

\* A call that replaces or drops entries, or leaves them alone.
LEMMA NotAddedCapacity ==
  ASSUME IsFiniteSet(Id), CInv, TypeOK', Buffered' \subseteq Buffered
  PROVE  CInv'
BY NoneAdded DEF CInv

LEMMA CapacityStep ==
  ASSUME IsFiniteSet(Id), Capacity # 0, CInv, [Next]_vars
  PROVE  CInv'
<1> USE EvictionsBufferAssumption
<1>1. ASSUME NEW e \in Entity, StoreNew(e)
      PROVE  CInv'
  <2>1. PICK i \in Id :
          AddEntry(i, Clean(e), [store EXCEPT ![i] = e], Contract!Stored(i))
    BY <1>1 DEF StoreNew
  <2>2. [store EXCEPT ![i] = e] \in [Id -> Entity \cup {Absent}]
    BY DEF CInv, TypeOK
  <2>3. QED
    BY <2>1, <2>2, AddEntryCapacity, EntryProperties
<1>2. ASSUME NEW i \in Id, NEW e \in Entity, StoreOld(i, e)
      PROVE  CInv'
  <2>1. store \in [Id -> Entity \cup {Absent}] /\ [store EXCEPT ![i] = e] \in [Id -> Entity \cup {Absent}]
    BY DEF CInv, TypeOK
  <2>2. CASE \/ AddEntry(i, Dirty(e), store, Contract!Stored(i))
             \/ AddEntry(i, Clean(e), [store EXCEPT ![i] = e], Contract!Stored(i))
    BY <2>1, <2>2, AddEntryCapacity, EntryProperties
  <2>3. ASSUME NEW entry \in {Clean(e), Dirty(e)}, m_buffer[i] # Absent,
               m_buffer' = [m_buffer EXCEPT ![i] = entry],
               store' \in {store, [store EXCEPT ![i] = e]}
        PROVE  CInv'
    <3>1. entry \in BufferEntry
      BY EntryProperties
    <3>2. TypeOK'
      BY <2>1, <2>3, <3>1 DEF CInv, TypeOK, BufferEntry
    <3>3. Buffered' \subseteq Buffered
      BY <2>3 DEF Buffered, CInv, TypeOK
    <3>4. QED
      BY <3>2, <3>3, NotAddedCapacity
  <2>4. CASE WriteRefused(i)
    BY <2>4 DEF WriteRefused, CInv, TypeOK, CapacityRespected, Buffered
  <2>5. QED
    BY <1>2, <2>2, <2>3, <2>4 DEF StoreOld, WriteBack, WriteBoth
<1>3. ASSUME NEW i \in Id, LoadMiss(i)
      PROVE  CInv'
  <2>1. AddEntry(i, Clean(store[i]), store, Contract!Loaded(store[i])) /\ store[i] \in Entity
    BY <1>3 DEF LoadMiss, CInv, TypeOK
  <2>2. QED
    BY <2>1, AddEntryCapacity, EntryProperties DEF CInv, TypeOK
<1>4. ASSUME NEW i \in Id, LoadHit(i) \/ LoadRefused(i)
      PROVE  CInv'
  BY <1>4 DEF LoadHit, LoadRefused, CInv, TypeOK, CapacityRespected, Buffered
<1>5. ASSUME NEW i \in Id, Delete(i)
      PROVE  CInv'
  <2>1. TypeOK'
    BY <1>5 DEF Delete, CInv, TypeOK
  <2>2. Buffered' \subseteq Buffered
    BY <1>5 DEF Delete, Buffered, CInv, TypeOK
  <2>3. QED
    BY <2>1, <2>2, NotAddedCapacity
<1>6. CASE Clear
  <2>1. TypeOK'
    <3>1. WrittenBack \in [Id -> Entity \cup {Absent}]
      BY DEF WrittenBack, CInv, TypeOK
    <3>2. QED
      BY <1>6, <3>1 DEF Clear, EmptyBuffer, TypeOK
  <2>2. Buffered' \subseteq Buffered
    BY <1>6 DEF Clear, EmptyBuffer, Buffered
  <2>3. QED
    BY <2>1, <2>2, NotAddedCapacity
<1>7. CASE UNCHANGED vars
  BY <1>7 DEF vars, CInv, TypeOK, CapacityRespected, Buffered
<1>8. QED
  BY <1>1, <1>2, <1>3, <1>4, <1>5, <1>6, <1>7 DEF Next

(***************************************************************************)
(* The assertion of addEntry, for every capacity but zero: the buffer      *)
(* never holds more entries than it may, whatever the client asks for.     *)
(***************************************************************************)
THEOREM CapacityKept ==
  ASSUME IsFiniteSet(Id), Capacity # 0
  PROVE  Spec => []CapacityRespected
<1>1. Init => CInv
  <2> SUFFICES ASSUME Init
               PROVE  CInv
    OBVIOUS
  <2>1. Buffered = {}
    BY DEF Init, EmptyBuffer, Buffered
  <2>2. TypeOK
    BY InitEffect DEF IInv
  <2>3. QED
    BY <2>1, <2>2, FS_EmptySet, EvictionsBufferAssumption DEF CInv, CapacityRespected
<1>2. CInv /\ [Next]_vars => CInv'
  BY CapacityStep
<1>3. CInv => CapacityRespected
  BY DEF CInv
<1>4. QED
  BY <1>1, <1>2, <1>3, PTL DEF Spec

------------------------------------------------------------------------------
(***************************************************************************)
(* Which identifiers a call on the buffer leaves alone, in the buffer and  *)
(* behind it: those it was not about, unless they were held back before    *)
(* and the eviction drew one of them.                                      *)
(***************************************************************************)
LeftAlone(j) == store'[j] = store[j] /\ j \notin HeldBack'

LEMMA AddEntryLeavesAlone ==
  ASSUME IInv, NEW i, NEW entry, NEW disk, NEW answer,
         MayAdd(i, entry, disk), AddEntry(i, entry, disk, answer),
         NEW j \in Id, j \notin HeldBack, disk[j] = store[j], j = i => ~entry.dirty
  PROVE  LeftAlone(j)
<1>1. \A k \in Id : m_buffer'[k] = Absent \/ m_buffer'[k] = m_buffer[k] \/ (k = i /\ m_buffer'[k] = entry)
  BY EvictionsBufferAssumption
     DEF AddEntry, AddWithRoom, AddEvicting, AddThrows, Insert, MayAdd, IInv, TypeOK, Buffered
<1>2. j \notin HeldBack'
  BY <1>1 DEF HeldBack, Buffered
<1>3. store'[j] = disk[j]
  <2>1. CASE AddEvicting(i, entry, disk, answer)
    <3>1. PICK victim \in Buffered :
            store' = IF m_buffer[victim].dirty THEN [disk EXCEPT ![victim] = m_buffer[victim].data]
                                               ELSE disk
      BY <2>1 DEF AddEvicting
    <3>2. m_buffer[victim].dirty => victim # j
      BY DEF HeldBack
    <3>3. QED
      BY <3>1, <3>2 DEF MayAdd
  <2>2. CASE AddWithRoom(i, entry, disk, answer) \/ AddThrows(disk)
    BY <2>2 DEF AddWithRoom, AddThrows
  <2>3. QED
    BY <2>1, <2>2 DEF AddEntry
<1>4. QED
  BY <1>2, <1>3 DEF LeftAlone

\* The calls, as TreeCall has them.
CallOn(i) ==
  \/ \E e \in Entity : StoreOld(i, e)
  \/ LoadHit(i)
  \/ LoadMiss(i)
  \/ LoadRefused(i)
  \/ Delete(i)

Named(j) == reply' \in {Contract!Stored(j), Contract!Deleted(j)}

LEMMA StoreNewLeavesAlone ==
  ASSUME IInv, NEW e \in Entity, StoreNew(e), NEW j \in Id, j \notin HeldBack, ~Named(j)
  PROVE  LeftAlone(j)
<1>1. PICK i \in Id :
        /\ store[i] = Absent
        /\ AddEntry(i, Clean(e), [store EXCEPT ![i] = e], Contract!Stored(i))
  BY DEF StoreNew
<1>2. MayAdd(i, Clean(e), [store EXCEPT ![i] = e])
  BY <1>1, StoreNewMayAdd
<1>3. reply' = Contract!Stored(i)
  BY <1>1, <1>2, AddEntryEffect
<1>4. j # i
  BY <1>3 DEF Named
<1>5. [store EXCEPT ![i] = e][j] = store[j]
  BY <1>4 DEF IInv, TypeOK
<1>6. QED
  BY <1>1, <1>2, <1>4, <1>5, AddEntryLeavesAlone

LEMMA StoreOldLeavesAlone ==
  ASSUME IInv, Guarded, NEW i \in Id, NEW e \in Entity, StoreOld(i, e),
         NEW j \in Id, j \notin HeldBack, ~Named(j)
  PROVE  LeftAlone(j)
<1> USE EvictionsBufferAssumption
<1>1. CASE WriteBack(i, e)
  <2>1. ~WriteThrough /\ store[i] # Absent
    BY <1>1 DEF WriteBack, StoreOld, MayOverwrite, Guarded, View, IInv, BufferIsCoherent, Buffered
  <2>2. CASE m_buffer[i] # Absent
    <3>1. m_buffer' = [m_buffer EXCEPT ![i] = Dirty(e)] /\ store' = store /\ Named(i)
      BY <1>1, <2>2 DEF WriteBack, Named
    <3>2. j # i
      BY <3>1
    <3>3. m_buffer'[j] = m_buffer[j]
      BY <3>1, <3>2 DEF IInv, TypeOK
    <3>4. QED
      BY <3>1, <3>3 DEF LeftAlone, HeldBack, Buffered
  <2>3. CASE m_buffer[i] = Absent
    <3>1. MayAdd(i, Dirty(e), store)
      BY <2>1, <2>3 DEF MayAdd, Dirty, BufferEntry, IInv, TypeOK
    <3>2. AddEntry(i, Dirty(e), store, Contract!Stored(i))
      BY <1>1, <2>3 DEF WriteBack
    <3>3. Named(i)
      BY <3>1, <3>2, AddEntryEffect DEF Named
    <3>4. QED
      BY <3>1, <3>2, <3>3, AddEntryLeavesAlone
  <2>4. QED
    BY <2>2, <2>3
<1>2. CASE WriteBoth(i, e)
  <2>1. WriteThrough /\ store[i] # Absent
    BY <1>2 DEF WriteBoth
  <2>2. CASE m_buffer[i] # Absent
    <3>1. /\ m_buffer' = [m_buffer EXCEPT ![i] = Clean(e)]
          /\ store' = [store EXCEPT ![i] = e]
          /\ Named(i)
      BY <1>2, <2>2 DEF WriteBoth, Named
    <3>2. j # i
      BY <3>1
    <3>3. m_buffer'[j] = m_buffer[j] /\ store'[j] = store[j]
      BY <3>1, <3>2 DEF IInv, TypeOK
    <3>4. QED
      BY <3>3 DEF LeftAlone, HeldBack, Buffered
  <2>3. CASE m_buffer[i] = Absent
    <3>1. MayAdd(i, Clean(e), [store EXCEPT ![i] = e])
      BY <2>1, <2>3 DEF MayAdd, Clean, BufferEntry, IInv, TypeOK
    <3>2. AddEntry(i, Clean(e), [store EXCEPT ![i] = e], Contract!Stored(i))
      BY <1>2, <2>3 DEF WriteBoth
    <3>3. Named(i)
      BY <3>1, <3>2, AddEntryEffect DEF Named
    <3>4. j # i
      BY <3>3
    <3>5. [store EXCEPT ![i] = e][j] = store[j]
      BY <3>4 DEF IInv, TypeOK
    <3>6. QED
      BY <3>1, <3>2, <3>4, <3>5, AddEntryLeavesAlone
  <2>4. QED
    BY <2>2, <2>3
<1>3. CASE WriteRefused(i)
  BY <1>3 DEF WriteRefused, LeftAlone, HeldBack, Buffered
<1>4. QED
  BY <1>1, <1>2, <1>3 DEF StoreOld

LEMMA CallLeavesAlone ==
  ASSUME IInv, Guarded, NEW i \in Id, CallOn(i),
         NEW j \in Id, j \notin HeldBack, ~Named(j)
  PROVE  LeftAlone(j)
<1>1. CASE \E e \in Entity : StoreOld(i, e)
  BY <1>1, StoreOldLeavesAlone
<1>2. CASE LoadMiss(i)
  <2>1. AddEntry(i, Clean(store[i]), store, Contract!Loaded(store[i]))
    BY <1>2 DEF LoadMiss
  <2>2. MayAdd(i, Clean(store[i]), store)
    BY <1>2, LoadMissMayAdd DEF LoadMiss
  <2>3. ~Clean(store[i]).dirty
    BY DEF Clean
  <2>4. QED
    BY <2>1, <2>2, <2>3, AddEntryLeavesAlone
<1>3. CASE LoadHit(i) \/ LoadRefused(i)
  BY <1>3 DEF LoadHit, LoadRefused, LeftAlone, HeldBack, Buffered
<1>4. CASE Delete(i)
  <2>1. j = i => store[i] = Absent
    BY <1>4 DEF Delete, Named
  <2>2. store'[j] = store[j] /\ m_buffer'[j] \in {Absent, m_buffer[j]}
    BY <1>4, <2>1 DEF Delete, IInv, TypeOK
  <2>3. QED
    BY <2>2 DEF LeftAlone, HeldBack, Buffered
<1>5. QED
  BY <1>1, <1>2, <1>3, <1>4 DEF CallOn

LEMMA ClearLeavesAlone ==
  ASSUME IInv, Clear, NEW j \in Id, j \notin HeldBack
  PROVE  LeftAlone(j)
BY DEF Clear, WrittenBack, EmptyBuffer, LeftAlone, HeldBack, Buffered, IInv, TypeOK

------------------------------------------------------------------------------
(***************************************************************************)
(* The inductive invariant.  What is promised is what the manager has and  *)
(* what a crash would leave of it, and is not about to be written.  The    *)
(* invariant of the runs says nothing of the disk, which shows only after  *)
(* a crash, nor of what is in store for the promise while flush or ~Index  *)
(* are at work.                                                            *)
(***************************************************************************)
Phase == {"open", "flushing", "closing", "drained"}

IndexTypeOK ==
  /\ phase \in Phase
  /\ durable \in [Id -> Entity \cup {Absent, Unknown}]
  /\ leaving \in [Id -> Entity \cup {Absent}]
  /\ promised \in [Id -> Entity \cup {Absent, Unknown}]

PromisesAreOnDisk ==
  \A i \in Id : promised[i] # Unknown =>
    store[i] = promised[i] /\ durable[i] = promised[i] /\ i \notin HeldBack

LeavingIsKept ==
  /\ phase # "open" => leaving = View
  /\ phase = "drained" => m_buffer = EmptyBuffer

IndexInv == IInv /\ IndexTypeOK /\ PromisesAreOnDisk /\ LeavingIsKept

\* An empty buffer is coherent with whatever is behind it.
LEMMA EmptyBufferIsCoherent ==
  ASSUME m_buffer' = EmptyBuffer, store' \in [Id -> Entity \cup {Absent}]
  PROVE  IInv'
BY DEF EmptyBuffer, IInv, TypeOK, BufferIsCoherent, NothingDirty, Buffered

\* The view is a table of entities.
LEMMA ViewType == IInv => View \in [Id -> Entity \cup {Absent}]
BY DEF IInv, TypeOK, View

\* A call that leaves alone what is still promised keeps the promises.
LEMMA PromisesKept ==
  ASSUME IndexInv, Overwritten, promised' \in [Id -> Entity \cup {Absent, Unknown}],
         \A i \in Id : promised'[i] # Unknown => promised[i] = promised'[i] /\ LeftAlone(i)
  PROVE  PromisesAreOnDisk' /\ durable' \in [Id -> Entity \cup {Absent, Unknown}]
BY DEF IndexInv, IndexTypeOK, PromisesAreOnDisk, Overwritten, LeftAlone

LEMMA RetractedPromises ==
  ASSUME IndexInv, Retracted
  PROVE  /\ promised' \in [Id -> Entity \cup {Absent, Unknown}]
         /\ \A i \in Id : promised'[i] # Unknown => promised[i] = promised'[i] /\ ~Named(i)
BY DEF IndexInv, IndexTypeOK, Retracted, Named

\* What is promised is not held back.
LEMMA PromisedIsWritten ==
  ASSUME IndexInv, NEW i \in Id, promised[i] # Unknown
  PROVE  i \notin HeldBack
BY DEF IndexInv, PromisesAreOnDisk

LEMMA TreeCallStep ==
  ASSUME Guarded, IndexInv, TreeCall
  PROVE  IndexInv'
<1>1. \/ \E e \in Entity : StoreNew(e)
      \/ \E i \in Id : CallOn(i)
  BY DEF TreeCall, CallOn
<1>2. IInv'
  <2>1. [Next]_vars
    BY <1>1 DEF CallOn, Next
  <2>2. QED
    BY <2>1, StepEffect DEF IndexInv
<1>3. Overwritten /\ Retracted /\ phase = "open" /\ UNCHANGED <<phase, leaving>>
  BY DEF TreeCall
<1>4. \A j \in Id : j \notin HeldBack /\ ~Named(j) => LeftAlone(j)
  BY <1>1, StoreNewLeavesAlone, CallLeavesAlone DEF IndexInv
<1>5. \A i \in Id : promised'[i] # Unknown => promised[i] = promised'[i] /\ LeftAlone(i)
  BY <1>3, <1>4, RetractedPromises, PromisedIsWritten
<1>6. PromisesAreOnDisk' /\ IndexTypeOK'
  BY <1>3, <1>5, PromisesKept, RetractedPromises DEF IndexTypeOK, IndexInv
<1>7. LeavingIsKept'
  BY <1>3 DEF LeavingIsKept
<1>8. QED
  BY <1>2, <1>6, <1>7 DEF IndexInv

LEMMA StoreHeaderStep ==
  ASSUME Guarded, IndexInv, NEW next \in {"flushing", "closing"}, StoreHeader(next)
  PROVE  IndexInv'
<1>1. PICK e \in Entity : StoreOld(HeaderId, e)
  BY DEF StoreHeader
<1>2. HeaderId \in Id
  BY IndexStorageAssumption
<1>3. IInv'
  BY <1>1, <1>2, StoreOldEffect DEF IndexInv
<1>4. Overwritten /\ Retracted /\ phase' = next /\ leaving' = View'
  BY DEF StoreHeader
<1>5. \A j \in Id : j \notin HeldBack /\ ~Named(j) => LeftAlone(j)
  BY <1>1, <1>2, StoreOldLeavesAlone DEF IndexInv
<1>6. \A i \in Id : promised'[i] # Unknown => promised[i] = promised'[i] /\ LeftAlone(i)
  BY <1>4, <1>5, RetractedPromises, PromisedIsWritten
<1>7. View' \in [Id -> Entity \cup {Absent}]
  BY <1>3 DEF IInv, TypeOK, View
<1>8. PromisesAreOnDisk' /\ IndexTypeOK'
  BY <1>4, <1>6, <1>7, PromisesKept, RetractedPromises DEF IndexTypeOK, Phase
<1>9. LeavingIsKept'
  BY <1>4 DEF LeavingIsKept
<1>10. QED
  BY <1>3, <1>8, <1>9 DEF IndexInv

\* Index_ClearBuffer, and ~Buffer.
LEMMA ClearStep ==
  ASSUME IndexInv, Clear, Overwritten, UNCHANGED <<leaving, promised>>,
         phase' = phase \/ phase' = "drained", phase \in {"open", "closing"},
         phase' = "drained" => phase = "closing"
  PROVE  IndexInv'
<1>1. IInv' /\ View' = View
  BY ClearEffect DEF IndexInv
<1>2. \A i \in Id : promised'[i] # Unknown => promised[i] = promised'[i] /\ LeftAlone(i)
  BY ClearLeavesAlone, PromisedIsWritten DEF IndexInv
<1>3. PromisesAreOnDisk' /\ IndexTypeOK'
  BY <1>2, PromisesKept DEF IndexTypeOK, IndexInv, Phase
<1>4. LeavingIsKept'
  BY <1>1 DEF LeavingIsKept, IndexInv, Clear
<1>5. QED
  BY <1>1, <1>3, <1>4 DEF IndexInv

LEMMA FlushStorageStep ==
  ASSUME IndexInv, FlushStorage
  PROVE  IndexInv'
<1>1. /\ phase \in {"flushing", "drained"}
      /\ durable' = store
      /\ promised' = [i \in Id |-> IF phase = "flushing" /\ i \in HeldBack THEN Unknown ELSE leaving[i]]
      /\ phase' = "open" /\ leaving' = NoView
      /\ UNCHANGED <<m_buffer, store, reply>>
  BY DEF FlushStorage, vars
<1>2. IInv' /\ HeldBack' = HeldBack
  BY <1>1 DEF IndexInv, IInv, TypeOK, BufferIsCoherent, NothingDirty, HeldBack, Buffered
<1>3. leaving = View
  BY <1>1 DEF IndexInv, LeavingIsKept
<1>4. phase = "drained" => HeldBack = {}
  BY DEF IndexInv, LeavingIsKept, EmptyBuffer, HeldBack, Buffered
<1>5. IndexTypeOK'
  <2>1. store \in [Id -> Entity \cup {Absent}] /\ leaving \in [Id -> Entity \cup {Absent}]
    BY DEF IndexInv, IInv, TypeOK, IndexTypeOK
  <2>2. QED
    BY <1>1, <2>1 DEF IndexTypeOK, NoView, Phase
<1>6. ASSUME NEW i \in Id, promised'[i] # Unknown
      PROVE  store'[i] = promised'[i] /\ durable'[i] = promised'[i] /\ i \notin HeldBack'
  <2>1. i \notin HeldBack
    BY <1>1, <1>4, <1>6
  <2>2. View[i] = store[i]
    BY <2>1 DEF View, HeldBack, Buffered, IndexInv, IInv, BufferIsCoherent
  <2>3. promised'[i] = leaving[i]
    BY <1>1, <2>1
  <2>4. QED
    BY <1>1, <1>2, <1>3, <2>1, <2>2, <2>3
<1>7. LeavingIsKept'
  BY <1>1 DEF LeavingIsKept
<1>8. QED
  BY <1>2, <1>5, <1>6, <1>7 DEF IndexInv, PromisesAreOnDisk

LEMMA CrashStep ==
  ASSUME IndexInv, Crash
  PROVE  IndexInv'
<1>1. PICK disk \in [Id -> Entity \cup {Absent}] :
        /\ \A i \in Id : IF durable[i] = Unknown THEN disk[i] # Absent ELSE disk[i] = durable[i]
        /\ store' = disk
        /\ durable' = disk
  BY DEF Crash
<1>2. m_buffer' = EmptyBuffer /\ phase' = "open" /\ leaving' = NoView /\ promised' = promised
  BY DEF Crash
<1>3. IInv'
  BY <1>1, <1>2, EmptyBufferIsCoherent
<1>4. IndexTypeOK'
  BY <1>1, <1>2 DEF IndexTypeOK, IndexInv, NoView, Phase
<1>5. HeldBack' = {}
  BY <1>2 DEF HeldBack, Buffered, EmptyBuffer
<1>6. PromisesAreOnDisk'
  BY <1>1, <1>2, <1>5 DEF PromisesAreOnDisk, IndexInv
<1>7. QED
  BY <1>2, <1>3, <1>4, <1>6 DEF IndexInv, LeavingIsKept

LEMMA IndexStep ==
  ASSUME Guarded, IndexInv, [IndexNext]_indexVars
  PROVE  IndexInv'
<1>1. CASE TreeCall
  BY <1>1, TreeCallStep
<1>2. CASE ClearBuffer
  BY <1>2, ClearStep DEF ClearBuffer
<1>3. CASE IndexFlush
  BY <1>3, StoreHeaderStep DEF IndexFlush
<1>4. CASE DestroyTree
  BY <1>4, StoreHeaderStep DEF DestroyTree
<1>5. CASE DestroyBuffer
  BY <1>5, ClearStep DEF DestroyBuffer
<1>6. CASE FlushStorage
  BY <1>6, FlushStorageStep
<1>7. CASE Crash
  BY <1>7, CrashStep
<1>8. CASE UNCHANGED indexVars
  BY <1>8 DEF indexVars, vars, IndexInv, IInv, TypeOK, BufferIsCoherent, NothingDirty, Buffered,
              IndexTypeOK, PromisesAreOnDisk, LeavingIsKept, HeldBack, View
<1>9. QED
  BY <1>1, <1>2, <1>3, <1>4, <1>5, <1>6, <1>7, <1>8 DEF IndexNext

LEMMA IndexInitHolds == IndexInit => IndexInv
<1> SUFFICES ASSUME IndexInit
             PROVE  IndexInv
  OBVIOUS
<1>1. PICK e \in Entity :
        /\ m_buffer = EmptyBuffer
        /\ store = [i \in Id |-> IF i = HeaderId THEN e ELSE Absent]
        /\ phase = "open"
        /\ durable = store
        /\ leaving = NoView
        /\ promised = store
  BY DEF IndexInit
<1>2. IInv
  BY <1>1, EvictionsBufferAssumption
     DEF EmptyBuffer, IInv, TypeOK, BufferIsCoherent, NothingDirty, Buffered
<1>3. IndexTypeOK
  BY <1>1 DEF IndexTypeOK, NoView, Phase
<1>4. HeldBack = {}
  BY <1>1 DEF HeldBack, Buffered, EmptyBuffer
<1>5. QED
  BY <1>1, <1>2, <1>3, <1>4 DEF IndexInv, PromisesAreOnDisk, LeavingIsKept

(***************************************************************************)
(* A page that is promised reads as promised, whatever was evicted and     *)
(* whenever the process died: for every buffer whose client overwrites     *)
(* only identifiers it was given, as trees do, or that writes through.     *)
(***************************************************************************)
THEOREM FlushedSurvives ==
  ASSUME Guarded
  PROVE  IndexSpec => []FlushedPagesSurviveCrash
<1>1. IndexInv => FlushedPagesSurviveCrash
  <2> SUFFICES ASSUME IndexInv, NEW i \in Id, promised[i] # Unknown
               PROVE  View[i] = promised[i]
    BY DEF FlushedPagesSurviveCrash
  <2>1. store[i] = promised[i] /\ i \notin HeldBack
    BY DEF IndexInv, PromisesAreOnDisk
  <2>2. QED
    BY <2>1 DEF View, HeldBack, Buffered, IndexInv, IInv, BufferIsCoherent
<1>2. QED
  BY <1>1, IndexInitHolds, IndexStep, PTL DEF IndexSpec

(***************************************************************************)
(* When Index_Destroy is through, or Index_Flush over a buffer that writes *)
(* through, the promise is the whole index as it was when its header was   *)
(* stored: nothing is held back.                                           *)
(***************************************************************************)
WholeIndexPromised ==
  [][ FlushStorage /\ (WriteThrough \/ phase = "drained")
        => promised' = View /\ View' = View ]_indexVars

THEOREM NothingIsLeftOut ==
  ASSUME Guarded
  PROVE  IndexSpec => WholeIndexPromised
<1>1. ASSUME IndexInv, FlushStorage, WriteThrough \/ phase = "drained"
      PROVE  promised' = View /\ View' = View
  <2>1. /\ promised' = [i \in Id |-> IF phase = "flushing" /\ i \in HeldBack THEN Unknown ELSE leaving[i]]
        /\ UNCHANGED <<m_buffer, store>>
    BY <1>1 DEF FlushStorage, vars
  <2>2. leaving = View
    BY <1>1 DEF FlushStorage, IndexInv, LeavingIsKept
  <2>3. phase # "drained" => HeldBack = {}
    BY <1>1 DEF IndexInv, IInv, NothingDirty, HeldBack
  <2>4. promised' = [i \in Id |-> leaving[i]]
    BY <2>1, <2>3
  <2>5. leaving = [i \in Id |-> leaving[i]]
    BY <1>1 DEF IndexInv, IndexTypeOK
  <2>6. View' = View
    BY <2>1 DEF View
  <2>7. QED
    BY <2>2, <2>4, <2>5, <2>6
<1>2. IndexInv => (FlushStorage /\ (WriteThrough \/ phase = "drained") => promised' = View /\ View' = View)
  BY <1>1
<1>3. QED
  BY <1>2, IndexInitHolds, IndexStep, PTL DEF IndexSpec, WholeIndexPromised

=============================================================================
