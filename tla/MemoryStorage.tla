---------------------------- MODULE MemoryStorage ----------------------------
(***************************************************************************)
(* MemoryStorageManager: a vector of entries indexed by identifier and a   *)
(* stack of the identifiers that were deleted, reused last in first out.   *)
(* Vector positions count from 0 in the code and from 1 here, so the slot  *)
(* of identifier i is m_buffer[i + 1].                                     *)
(***************************************************************************)
EXTENDS Naturals, Sequences

CONSTANTS
  Entity,      \* the byte arrays a client may store
  Nullptr,     \* the slot of a deleted identifier
  MaxEntries   \* bound on the length of the vector (the code has none)

ASSUME MemoryStorageAssumption ==
  /\ MaxEntries \in Nat
  /\ Nullptr \notin Entity

VARIABLES
  m_buffer,      \* std::vector<Entry*>
  m_emptyPages,  \* std::stack<id_type>, its top at the end
  reply          \* how the last call ended

vars == <<m_buffer, m_emptyPages, reply>>

Id == 0 .. MaxEntries - 1

Slot(i) == IF i < Len(m_buffer) THEN m_buffer[i + 1] ELSE Nullptr

Contract == INSTANCE PageStore WITH
              Absent <- Nullptr,
              store  <- [i \in Id |-> Slot(i)]

Init ==
  /\ m_buffer = <<>>
  /\ m_emptyPages = <<>>
  /\ reply = Contract!NoReply

(***************************************************************************)
(* storeByteArray with NewPage: the vector grows only when no identifier   *)
(* was ever given back.                                                    *)
(***************************************************************************)
StoreGrow(e) ==
  /\ m_emptyPages = <<>>
  /\ Len(m_buffer) < MaxEntries
  /\ m_buffer' = Append(m_buffer, e)
  /\ reply' = Contract!Stored(Len(m_buffer))
  /\ UNCHANGED m_emptyPages

\* Mutant of StoreReuse: the identifier stays on the stack.
StoreReuseNoPop(e) ==
  /\ m_emptyPages # <<>>
  /\ LET page == m_emptyPages[Len(m_emptyPages)] IN
       /\ m_buffer' = [m_buffer EXCEPT ![page + 1] = e]
       /\ reply' = Contract!Stored(page)
  /\ UNCHANGED m_emptyPages

StoreReuse(e) ==
  /\ m_emptyPages # <<>>
  /\ LET page == m_emptyPages[Len(m_emptyPages)] IN
       /\ m_buffer' = [m_buffer EXCEPT ![page + 1] = e]
       /\ m_emptyPages' = SubSeq(m_emptyPages, 1, Len(m_emptyPages) - 1)
       /\ reply' = Contract!Stored(page)

(***************************************************************************)
(* The calls that name an identifier.  m_buffer.at() throws beyond the end *)
(* of the vector, and a null slot is refused the same way.                 *)
(***************************************************************************)
StoreOld(i, e) ==
  /\ Slot(i) # Nullptr
  /\ m_buffer' = [m_buffer EXCEPT ![i + 1] = e]
  /\ reply' = Contract!Stored(i)
  /\ UNCHANGED m_emptyPages

Load(i) ==
  /\ Slot(i) # Nullptr
  /\ reply' = Contract!Loaded(Slot(i))
  /\ UNCHANGED <<m_buffer, m_emptyPages>>

\* Mutant of Delete: the slot not cleared.
DeleteKeepsSlot(i) ==
  /\ Slot(i) # Nullptr
  /\ m_emptyPages' = Append(m_emptyPages, i)
  /\ reply' = Contract!Deleted(i)
  /\ UNCHANGED m_buffer

Delete(i) ==
  /\ Slot(i) # Nullptr
  /\ m_buffer' = [m_buffer EXCEPT ![i + 1] = Nullptr]
  /\ m_emptyPages' = Append(m_emptyPages, i)
  /\ reply' = Contract!Deleted(i)

Refuse(i) ==
  /\ Slot(i) = Nullptr
  /\ reply' = Contract!Invalid(i)
  /\ UNCHANGED <<m_buffer, m_emptyPages>>

Next ==
  \/ \E e \in Entity : StoreGrow(e) \/ StoreReuse(e)
  \/ \E i \in Id :
       \/ \E e \in Entity : StoreOld(i, e)
       \/ Load(i)
       \/ Delete(i)
       \/ Refuse(i)

Spec == Init /\ [][Next]_vars

------------------------------------------------------------------------------

(***************************************************************************)
(* The types of the vector and of the stack.                               *)
(***************************************************************************)
TypeOK ==
  /\ m_buffer \in Seq(Entity \cup {Nullptr})
  /\ Len(m_buffer) <= MaxEntries
  /\ m_emptyPages \in Seq(Id)

(***************************************************************************)
(* The stack holds every deleted slot, and no slot twice: otherwise two    *)
(* NewPage calls would hand out one identifier (a slot pushed twice), one  *)
(* would overwrite a live entry (a live slot on the stack), or a slot      *)
(* would never be used again.  It takes a store, a delete and another      *)
(* store in the wrong order to break it.                                   *)
(***************************************************************************)
StackIsTheHoles ==
  /\ \A k \in DOMAIN m_emptyPages :
       /\ m_emptyPages[k] < Len(m_buffer)
       /\ m_buffer[m_emptyPages[k] + 1] = Nullptr
  /\ \A j, k \in DOMAIN m_emptyPages :
       m_emptyPages[j] = m_emptyPages[k] => j = k
  /\ \A i \in 1 .. Len(m_buffer) :
       m_buffer[i] = Nullptr =>
         \E k \in DOMAIN m_emptyPages : m_emptyPages[k] = i - 1

(***************************************************************************)
(* The vector and the stack together behave as the table of PageStore:     *)
(* a NewPage store never lands on an identifier in use, and nothing but a  *)
(* call that names an identifier changes what it holds.                    *)
(***************************************************************************)
ImplementsPageStore == Contract!Spec

==============================================================================
