---------------------------- MODULE SessionProofs ----------------------------
(***************************************************************************)
(* Proofs about two parts of a session that TreeSession composes: the      *)
(* memory storage manager, for every set of entities and every bound on    *)
(* the vector, and the pages of results, for result sets of any size.      *)
(***************************************************************************)
EXTENDS MemoryStorage, CIndexProperties, SequenceTheorems, TLAPS

(***************************************************************************)
(* The two facts together are inductive: the stack can only be shown to    *)
(* hold deleted slots if its members are positions of the vector.          *)
(***************************************************************************)
IInv == TypeOK /\ StackIsTheHoles

\* Popping a stack keeps the rest of it where it was.
LEMMA PopProperties ==
  ASSUME NEW S, NEW s \in Seq(S), s # <<>>
  PROVE  /\ SubSeq(s, 1, Len(s) - 1) \in Seq(S)
         /\ Len(SubSeq(s, 1, Len(s) - 1)) = Len(s) - 1
         /\ \A k \in 1 .. Len(s) - 1 : SubSeq(s, 1, Len(s) - 1)[k] = s[k]
<1>1. PICK m \in Int, n \in Int : m = 1 /\ n = Len(s) - 1
  OBVIOUS
<1>2. n >= 0 /\ \A k \in m .. n : s[k] \in S
  BY <1>1, EmptySeq, ElementOfSeq
<1>3. /\ SubSeq(s, m, n) \in Seq(S)
      /\ Len(SubSeq(s, m, n)) = IF m <= n THEN n - m + 1 ELSE 0
      /\ \A i \in 1 .. n - m + 1 : SubSeq(s, m, n)[i] = s[m + i - 1]
  BY <1>2, SubSeqProperties
<1>4. /\ SubSeq(s, m, n) \in Seq(S)
      /\ Len(SubSeq(s, m, n)) = n
      /\ \A i \in 1 .. n : SubSeq(s, m, n)[i] = s[i]
  BY <1>1, <1>2, <1>3
<1>5. QED
  BY <1>1, <1>4

\* The top of the stack is the slot of a deleted identifier.
LEMMA TopIsAHole ==
  ASSUME IInv, m_emptyPages # <<>>
  PROVE  LET page == m_emptyPages[Len(m_emptyPages)] IN
           /\ Len(m_emptyPages) \in DOMAIN m_emptyPages
           /\ page \in Id
           /\ page < Len(m_buffer)
           /\ page + 1 \in 1 .. Len(m_buffer)
           /\ m_buffer[page + 1] = Nullptr
<1>1. /\ Len(m_emptyPages) \in 1 .. Len(m_emptyPages)
      /\ DOMAIN m_emptyPages = 1 .. Len(m_emptyPages)
  BY EmptySeq, LenProperties DEF IInv, TypeOK
<1>2. m_emptyPages[Len(m_emptyPages)] \in Id
  BY <1>1, ElementOfSeq DEF IInv, TypeOK
<1>3. Len(m_buffer) \in Nat
  BY LenProperties DEF IInv, TypeOK
<1>4. QED
  BY <1>1, <1>2, <1>3, MemoryStorageAssumption DEF IInv, StackIsTheHoles, Id

\* An identifier in use names a slot of the vector.
LEMMA LiveSlot ==
  ASSUME TypeOK, NEW i \in Id, Slot(i) # Nullptr
  PROVE  /\ i \in Nat
         /\ i + 1 \in 1 .. Len(m_buffer)
         /\ i < Len(m_buffer)
         /\ m_buffer[i + 1] = Slot(i)
         /\ m_buffer[i + 1] # Nullptr
<1>1. Len(m_buffer) \in Nat
  BY LenProperties DEF TypeOK
<1>2. QED
  BY <1>1, MemoryStorageAssumption DEF Slot, Id

------------------------------------------------------------------------------
(***************************************************************************)
(* TypeOK is preserved by every step.                                      *)
(***************************************************************************)
LEMMA TypeStep ==
  ASSUME IInv, [Next]_vars
  PROVE  TypeOK'
<1> USE DEF TypeOK
<1>0. TypeOK
  BY DEF IInv
<1>1. ASSUME NEW e \in Entity, StoreGrow(e)
      PROVE  TypeOK'
  BY <1>0, <1>1, AppendProperties, LenProperties, MemoryStorageAssumption DEF StoreGrow
<1>2. ASSUME NEW e \in Entity, StoreReuse(e)
      PROVE  TypeOK'
  BY <1>0, <1>2, TopIsAHole, PopProperties, ExceptSeq DEF StoreReuse
<1>3. ASSUME NEW i \in Id, NEW e \in Entity, StoreOld(i, e)
      PROVE  TypeOK'
  BY <1>0, <1>3, LiveSlot, ExceptSeq DEF StoreOld
<1>4. ASSUME NEW i \in Id, Delete(i)
      PROVE  TypeOK'
  BY <1>0, <1>4, LiveSlot, ExceptSeq, AppendProperties DEF Delete
<1>5. ASSUME NEW i \in Id, Load(i) \/ Refuse(i)
      PROVE  TypeOK'
  BY <1>0, <1>5 DEF Load, Refuse
<1>6. CASE UNCHANGED vars
  BY <1>0, <1>6 DEF vars
<1>7. QED
  BY <1>1, <1>2, <1>3, <1>4, <1>5, <1>6 DEF Next

(***************************************************************************)
(* StackIsTheHoles is preserved by every step: one step per action.        *)
(***************************************************************************)
LEMMA HolesStep ==
  ASSUME IInv, [Next]_vars
  PROVE  StackIsTheHoles'
<1>0. /\ Len(m_buffer) \in Nat
      /\ Len(m_emptyPages) \in Nat
      /\ DOMAIN m_emptyPages = 1 .. Len(m_emptyPages)
      /\ \A k \in 1 .. Len(m_emptyPages) : m_emptyPages[k] \in Nat
  <2>1. Id \subseteq Nat
    BY MemoryStorageAssumption DEF Id
  <2>2. QED
    BY <2>1, LenProperties, ElementOfSeq DEF IInv, TypeOK
<1>a. DOMAIN m_emptyPages' = 1 .. Len(m_emptyPages')
  BY TypeStep, LenProperties DEF TypeOK
<1>b. /\ \A k \in 1 .. Len(m_emptyPages) :
           /\ m_emptyPages[k] < Len(m_buffer)
           /\ m_buffer[m_emptyPages[k] + 1] = Nullptr
      /\ \A j, k \in 1 .. Len(m_emptyPages) : m_emptyPages[j] = m_emptyPages[k] => j = k
      /\ \A i \in 1 .. Len(m_buffer) :
           m_buffer[i] = Nullptr => \E k \in 1 .. Len(m_emptyPages) : m_emptyPages[k] = i - 1
  <2>1. StackIsTheHoles
    BY DEF IInv
  <2>2. QED
    BY <1>0, <2>1 DEF StackIsTheHoles
<1>1. ASSUME NEW e \in Entity, StoreGrow(e)
      PROVE  StackIsTheHoles'
  <2>1. /\ Len(m_buffer') = Len(m_buffer) + 1
        /\ \A k \in 1 .. Len(m_buffer) : m_buffer'[k] = m_buffer[k]
        /\ m_buffer'[Len(m_buffer) + 1] = e
    BY <1>1, AppendProperties DEF StoreGrow, IInv, TypeOK
  <2>2. e # Nullptr /\ m_emptyPages' = <<>> /\ m_emptyPages = <<>>
    BY <1>1, MemoryStorageAssumption DEF StoreGrow
  <2>3. \A k \in 1 .. Len(m_buffer) : m_buffer[k] # Nullptr
    BY <2>2, <1>0, <1>b, EmptySeq
  <2>4. QED
    BY <2>1, <2>2, <2>3, <1>0 DEF StackIsTheHoles
<1>2. ASSUME NEW e \in Entity, StoreReuse(e)
      PROVE  StackIsTheHoles'
  <2> DEFINE page == m_emptyPages[Len(m_emptyPages)]
  <2>1. /\ m_emptyPages # <<>>
        /\ m_buffer' = [m_buffer EXCEPT ![page + 1] = e]
        /\ m_emptyPages' = SubSeq(m_emptyPages, 1, Len(m_emptyPages) - 1)
        /\ e # Nullptr
    BY <1>2, MemoryStorageAssumption DEF StoreReuse
  <2>2. /\ Len(m_emptyPages) \in DOMAIN m_emptyPages
        /\ page + 1 \in 1 .. Len(m_buffer)
    BY <2>1, TopIsAHole
  <2>3. /\ Len(m_emptyPages') = Len(m_emptyPages) - 1
        /\ \A k \in 1 .. Len(m_emptyPages) - 1 : m_emptyPages'[k] = m_emptyPages[k]
    BY <2>1, PopProperties DEF IInv, TypeOK
  <2>4. /\ Len(m_buffer') = Len(m_buffer)
        /\ \A j \in 1 .. Len(m_buffer) :
             m_buffer'[j] = IF j = page + 1 THEN e ELSE m_buffer[j]
    BY <2>1, <2>2, ExceptSeq DEF IInv, TypeOK
  <2> HIDE DEF page
  <2>5. \A k \in 1 .. Len(m_emptyPages) - 1 : m_emptyPages[k] # page
    BY <1>0, <1>b, <2>2 DEF page
  <2>6. \A k \in DOMAIN m_emptyPages' :
          /\ m_emptyPages'[k] < Len(m_buffer')
          /\ m_buffer'[m_emptyPages'[k] + 1] = Nullptr
    <3> SUFFICES ASSUME NEW k \in DOMAIN m_emptyPages'
                 PROVE  /\ m_emptyPages'[k] < Len(m_buffer')
                        /\ m_buffer'[m_emptyPages'[k] + 1] = Nullptr
      OBVIOUS
    <3>1. k \in 1 .. Len(m_emptyPages) - 1 /\ k \in 1 .. Len(m_emptyPages)
      BY <1>0, <1>a, <2>3
    <3>2. m_emptyPages'[k] = m_emptyPages[k] /\ m_emptyPages[k] \in Nat /\ m_emptyPages[k] # page
      BY <1>0, <2>3, <2>5, <3>1
    <3>3. m_emptyPages[k] < Len(m_buffer) /\ m_buffer[m_emptyPages[k] + 1] = Nullptr
      BY <1>b, <3>1
    <3>4. page \in Nat
      BY <1>0, <2>2 DEF page
    <3>5. m_emptyPages[k] + 1 \in 1 .. Len(m_buffer)
      BY <1>0, <3>2, <3>3
    <3>6. m_emptyPages[k] + 1 # page + 1
      BY <3>2, <3>3, <3>4
    <3>7. QED
      BY <2>4, <3>2, <3>3, <3>5, <3>6
  <2>7. ASSUME NEW j \in DOMAIN m_emptyPages', NEW k \in DOMAIN m_emptyPages',
               m_emptyPages'[j] = m_emptyPages'[k]
        PROVE  j = k
    <3>1. /\ j \in 1 .. Len(m_emptyPages) - 1 /\ j \in 1 .. Len(m_emptyPages)
          /\ k \in 1 .. Len(m_emptyPages) - 1 /\ k \in 1 .. Len(m_emptyPages)
      BY <1>0, <1>a, <2>3
    <3>2. m_emptyPages[j] = m_emptyPages[k]
      BY <2>3, <2>7, <3>1
    <3>3. QED
      BY <1>b, <3>1, <3>2
  <2>8. ASSUME NEW i \in 1 .. Len(m_buffer'), m_buffer'[i] = Nullptr
        PROVE  \E k \in DOMAIN m_emptyPages' : m_emptyPages'[k] = i - 1
    <3>1. i \in 1 .. Len(m_buffer) /\ i # page + 1 /\ m_buffer[i] = Nullptr
      BY <2>1, <2>4, <2>8
    <3>2. PICK k \in 1 .. Len(m_emptyPages) : m_emptyPages[k] = i - 1
      BY <1>b, <3>1
    <3>3. k # Len(m_emptyPages)
      <4> SUFFICES ASSUME k = Len(m_emptyPages)
                   PROVE  FALSE
        OBVIOUS
      <4>1. page = i - 1
        BY <3>2 DEF page
      <4>2. QED
        BY <3>1, <4>1
    <3>4. k \in 1 .. Len(m_emptyPages) - 1
      <4>1. \A n \in Nat : \A l \in 1 .. n : l # n => l \in 1 .. n - 1
        OBVIOUS
      <4>2. Len(m_emptyPages) \in Nat
        BY <1>0
      <4>3. QED
        BY <3>3, <4>1, <4>2, Zenon
    <3>5. m_emptyPages'[k] = i - 1
      <4>1. m_emptyPages'[k] = m_emptyPages[k]
        BY <2>3, <3>4
      <4>2. QED
        BY <3>2, <4>1
    <3>6. k \in DOMAIN m_emptyPages'
      BY <1>a, <2>3, <3>4
    <3>7. QED
      BY <3>5, <3>6
  <2>9. QED
    BY <2>6, <2>7, <2>8 DEF StackIsTheHoles
<1>3. ASSUME NEW i \in Id, NEW e \in Entity, StoreOld(i, e)
      PROVE  StackIsTheHoles'
  <2>1. /\ i \in Nat
        /\ i + 1 \in 1 .. Len(m_buffer)
        /\ m_buffer[i + 1] # Nullptr
        /\ e # Nullptr
        /\ m_emptyPages' = m_emptyPages
    BY <1>3, LiveSlot, MemoryStorageAssumption DEF StoreOld, IInv
  <2>2. /\ Len(m_buffer') = Len(m_buffer)
        /\ \A j \in 1 .. Len(m_buffer) :
             m_buffer'[j] = IF j = i + 1 THEN e ELSE m_buffer[j]
    BY <1>3, <2>1, ExceptSeq DEF StoreOld, IInv, TypeOK
  <2>3. ASSUME NEW k \in 1 .. Len(m_emptyPages)
        PROVE  m_buffer'[m_emptyPages[k] + 1] = Nullptr
    <3>1. /\ m_emptyPages[k] \in Nat
          /\ m_emptyPages[k] < Len(m_buffer)
          /\ m_buffer[m_emptyPages[k] + 1] = Nullptr
      BY <1>0, <1>b
    <3>2. m_emptyPages[k] + 1 \in 1 .. Len(m_buffer) /\ m_emptyPages[k] + 1 # i + 1
      BY <1>0, <2>1, <3>1
    <3>3. QED
      BY <2>2, <3>1, <3>2
  <2>4. ASSUME NEW n \in 1 .. Len(m_buffer), m_buffer'[n] = Nullptr
        PROVE  m_buffer[n] = Nullptr
    BY <2>1, <2>2, <2>4
  <2>5. QED
    BY <1>0, <1>b, <2>1, <2>2, <2>3, <2>4 DEF StackIsTheHoles
<1>4. ASSUME NEW i \in Id, Delete(i)
      PROVE  StackIsTheHoles'
  <2>1. /\ i \in Nat
        /\ i + 1 \in 1 .. Len(m_buffer)
        /\ m_buffer[i + 1] # Nullptr
    BY <1>4, LiveSlot DEF Delete, IInv
  <2>2. /\ Len(m_buffer') = Len(m_buffer)
        /\ \A j \in 1 .. Len(m_buffer) :
             m_buffer'[j] = IF j = i + 1 THEN Nullptr ELSE m_buffer[j]
    BY <1>4, <2>1, ExceptSeq DEF Delete, IInv, TypeOK
  <2>3. /\ Len(m_emptyPages') = Len(m_emptyPages) + 1
        /\ \A k \in 1 .. Len(m_emptyPages) : m_emptyPages'[k] = m_emptyPages[k]
        /\ m_emptyPages'[Len(m_emptyPages) + 1] = i
    BY <1>4, AppendProperties DEF Delete, IInv, TypeOK
  <2>4. \A k \in 1 .. Len(m_emptyPages) : m_emptyPages[k] # i
    BY <1>0, <1>b, <2>1
  <2>5. \A k \in DOMAIN m_emptyPages' :
          /\ m_emptyPages'[k] < Len(m_buffer')
          /\ m_buffer'[m_emptyPages'[k] + 1] = Nullptr
    <3> SUFFICES ASSUME NEW k \in DOMAIN m_emptyPages'
                 PROVE  /\ m_emptyPages'[k] < Len(m_buffer')
                        /\ m_buffer'[m_emptyPages'[k] + 1] = Nullptr
      OBVIOUS
    <3>1. k \in 1 .. Len(m_emptyPages) \/ k = Len(m_emptyPages) + 1
      BY <1>0, <1>a, <2>3
    <3>2. CASE k \in 1 .. Len(m_emptyPages)
      <4>1. /\ m_emptyPages[k] \in Nat
            /\ m_emptyPages[k] < Len(m_buffer)
            /\ m_buffer[m_emptyPages[k] + 1] = Nullptr
        BY <1>0, <1>b, <3>2
      <4>2. m_emptyPages'[k] = m_emptyPages[k]
        BY <2>3, <3>2
      <4>3. m_emptyPages[k] + 1 \in 1 .. Len(m_buffer)
        BY <1>0, <4>1
      <4>4. QED
        BY <2>2, <4>1, <4>2, <4>3
    <3>3. CASE k = Len(m_emptyPages) + 1
      <4>1. m_emptyPages'[k] = i
        BY <2>3, <3>3
      <4>2. i < Len(m_buffer)
        BY <1>0, <2>1
      <4>3. QED
        BY <2>1, <2>2, <4>1, <4>2
    <3>4. QED
      BY <3>1, <3>2, <3>3
  <2>6. \A j, k \in DOMAIN m_emptyPages' : m_emptyPages'[j] = m_emptyPages'[k] => j = k
    BY <1>0, <1>a, <1>b, <2>3, <2>4
  <2>7. ASSUME NEW n \in 1 .. Len(m_buffer'), m_buffer'[n] = Nullptr
        PROVE  \E k \in DOMAIN m_emptyPages' : m_emptyPages'[k] = n - 1
    <3>1. CASE n = i + 1
      <4>1. /\ Len(m_emptyPages) + 1 \in DOMAIN m_emptyPages'
            /\ m_emptyPages'[Len(m_emptyPages) + 1] = n - 1
        BY <1>0, <1>a, <2>1, <2>3, <3>1
      <4>2. QED
        BY <4>1
    <3>2. CASE n # i + 1
      <4>1. n \in 1 .. Len(m_buffer) /\ m_buffer[n] = Nullptr
        BY <2>2, <2>7, <3>2
      <4>2. PICK k \in 1 .. Len(m_emptyPages) : m_emptyPages[k] = n - 1
        BY <1>b, <4>1
      <4>3. k \in DOMAIN m_emptyPages' /\ m_emptyPages'[k] = n - 1
        BY <1>0, <1>a, <2>3, <4>2
      <4>4. QED
        BY <4>3
    <3>3. QED
      BY <3>1, <3>2
  <2>8. QED
    BY <2>5, <2>6, <2>7 DEF StackIsTheHoles
<1>5. ASSUME NEW i \in Id, Load(i) \/ Refuse(i)
      PROVE  StackIsTheHoles'
  BY <1>5 DEF Load, Refuse, IInv, StackIsTheHoles
<1>6. CASE UNCHANGED vars
  BY <1>6 DEF vars, IInv, StackIsTheHoles
<1>7. QED
  BY <1>1, <1>2, <1>3, <1>4, <1>5, <1>6 DEF Next

LEMMA Invariant == Spec => []IInv
<1>1. Init => IInv
  BY EmptySeq, MemoryStorageAssumption DEF Init, IInv, TypeOK, StackIsTheHoles
<1>2. IInv /\ [Next]_vars => IInv'
  BY TypeStep, HolesStep DEF IInv
<1>3. QED
  BY <1>1, <1>2, PTL DEF Spec

(***************************************************************************)
(* Type correctness of the memory manager.                                 *)
(***************************************************************************)
THEOREM TypeCorrect == Spec => []TypeOK
<1>1. IInv => TypeOK
  BY DEF IInv
<1>2. QED
  BY <1>1, Invariant, PTL

(***************************************************************************)
(* The stack of free identifiers holds exactly the deleted slots, each     *)
(* once, after any sequence of stores and deletes.                         *)
(***************************************************************************)
THEOREM StackCorrect == Spec => []StackIsTheHoles
<1>1. IInv => StackIsTheHoles
  BY DEF IInv
<1>2. QED
  BY <1>1, Invariant, PTL

------------------------------------------------------------------------------
(***************************************************************************)
(* The slots of the vector after a step, in the words of PageStore.        *)
(***************************************************************************)
Slots == [i \in Id |-> Slot(i)]

\* Filling or emptying a slot of the vector changes that identifier only.
LEMMA SlotUpdate ==
  ASSUME IInv, NEW page \in Id, page + 1 \in 1 .. Len(m_buffer),
         NEW e \in Entity \cup {Nullptr},
         m_buffer' = [m_buffer EXCEPT ![page + 1] = e]
  PROVE  Slots' = [Slots EXCEPT ![page] = e]
<1>1. /\ Len(m_buffer') = Len(m_buffer)
      /\ \A j \in 1 .. Len(m_buffer) :
           m_buffer'[j] = IF j = page + 1 THEN e ELSE m_buffer[j]
  BY ExceptSeq DEF IInv, TypeOK
<1>2. Len(m_buffer) \in Nat /\ Id \subseteq Nat
  BY MemoryStorageAssumption, LenProperties DEF IInv, TypeOK, Id
<1>3. ASSUME NEW i \in Id
      PROVE  Slot(i)' = IF i = page THEN e ELSE Slot(i)
  <2>1. CASE i = page
    BY <1>1, <1>2, <2>1 DEF Slot
  <2>2. CASE i # page /\ i < Len(m_buffer)
    <3>1. i + 1 \in 1 .. Len(m_buffer) /\ i + 1 # page + 1
      BY <1>2, <2>2
    <3>2. QED
      BY <1>1, <2>2, <3>1 DEF Slot
  <2>3. CASE i # page /\ ~(i < Len(m_buffer))
    BY <1>1, <2>3 DEF Slot
  <2>4. QED
    BY <2>1, <2>2, <2>3
<1>4. QED
  BY <1>3 DEF Slots

\* Growing the vector fills the slot past its end, which was not in use.
LEMMA SlotAppend ==
  ASSUME IInv, NEW e \in Entity, Len(m_buffer) < MaxEntries,
         m_buffer' = Append(m_buffer, e)
  PROVE  /\ Len(m_buffer) \in Id
         /\ Slots[Len(m_buffer)] = Nullptr
         /\ Slots' = [Slots EXCEPT ![Len(m_buffer)] = e]
<1>1. PICK n \in Nat : n = Len(m_buffer)
  BY LenProperties DEF IInv, TypeOK
<1>2. /\ Len(m_buffer') = n + 1
      /\ \A j \in 1 .. n : m_buffer'[j] = m_buffer[j]
      /\ m_buffer'[n + 1] = e
  BY <1>1, AppendProperties DEF IInv, TypeOK
<1>3. n \in Id /\ Id \subseteq Nat
  BY <1>1, MemoryStorageAssumption DEF Id
<1>4. ASSUME NEW i \in Id
      PROVE  Slot(i)' = IF i = n THEN e ELSE Slot(i)
  BY <1>1, <1>2, <1>3 DEF Slot
<1>5. Slot(n) = Nullptr
  BY <1>1 DEF Slot
<1>6. QED
  BY <1>1, <1>3, <1>4, <1>5 DEF Slots

(***************************************************************************)
(* Every call of the memory manager is one call of PageStore.              *)
(***************************************************************************)
LEMMA StepSimulation ==
  ASSUME IInv, [Next]_vars
  PROVE  [Contract!Next]_(Contract!vars)
<1>1. ASSUME NEW e \in Entity, StoreGrow(e)
      PROVE  Contract!StoreNew(e)
  BY <1>1, SlotAppend DEF StoreGrow, Contract!StoreNew, Slots
<1>2. ASSUME NEW e \in Entity, StoreReuse(e)
      PROVE  Contract!StoreNew(e)
  <2> DEFINE page == m_emptyPages[Len(m_emptyPages)]
  <2>1. /\ page \in Id
        /\ page + 1 \in 1 .. Len(m_buffer)
        /\ m_buffer[page + 1] = Nullptr
    BY <1>2, TopIsAHole DEF StoreReuse
  <2>2. /\ m_buffer' = [m_buffer EXCEPT ![page + 1] = e]
        /\ reply' = Contract!Stored(page)
    BY <1>2 DEF StoreReuse
  <2> HIDE DEF page
  <2>3. Slot(page) = Nullptr
    BY <2>1 DEF Slot
  <2>4. Slots' = [Slots EXCEPT ![page] = e]
    BY <2>1, <2>2, SlotUpdate
  <2>5. QED
    BY <2>1, <2>2, <2>3, <2>4 DEF Contract!StoreNew, Slots
<1>3. ASSUME NEW i \in Id, NEW e \in Entity, StoreOld(i, e)
      PROVE  Contract!StoreOld(i, e)
  <2>1. i + 1 \in 1 .. Len(m_buffer) /\ Slot(i) # Nullptr
    BY <1>3, LiveSlot DEF StoreOld, IInv
  <2>2. Slots' = [Slots EXCEPT ![i] = e]
    BY <1>3, <2>1, SlotUpdate DEF StoreOld
  <2>3. QED
    BY <1>3, <2>1, <2>2 DEF StoreOld, Contract!StoreOld, Slots
<1>4. ASSUME NEW i \in Id, Delete(i)
      PROVE  Contract!Delete(i)
  <2>1. i + 1 \in 1 .. Len(m_buffer) /\ Slot(i) # Nullptr
    BY <1>4, LiveSlot DEF Delete, IInv
  <2>2. Slots' = [Slots EXCEPT ![i] = Nullptr]
    BY <1>4, <2>1, SlotUpdate DEF Delete
  <2>3. QED
    BY <1>4, <2>1, <2>2 DEF Delete, Contract!Delete, Slots
<1>5. ASSUME NEW i \in Id, Load(i)
      PROVE  Contract!Load(i)
  BY <1>5 DEF Load, Slot, Contract!Load
<1>6. ASSUME NEW i \in Id, Refuse(i)
      PROVE  Contract!Refuse(i)
  BY <1>6 DEF Refuse, Slot, Contract!Refuse
<1>7. CASE UNCHANGED vars
  BY <1>7 DEF vars, Slot, Contract!vars
<1>8. QED
  BY <1>1, <1>2, <1>3, <1>4, <1>5, <1>6, <1>7 DEF Next, Contract!Next

(***************************************************************************)
(* The memory manager implements the table of PageStore: its identifiers   *)
(* are fresh, and nothing but a call that names an identifier changes what *)
(* it holds.                                                               *)
(***************************************************************************)
THEOREM Refinement == Spec => ImplementsPageStore
<1>1. Init => Contract!Init
  <2> SUFFICES ASSUME Init
               PROVE  Contract!Init
    OBVIOUS
  <2>1. \A i \in Id : Slot(i) = Nullptr
    BY MemoryStorageAssumption, EmptySeq DEF Init, Slot, Id
  <2>2. QED
    BY <2>1 DEF Init, Contract!Init
<1>2. IInv /\ [Next]_vars => [Contract!Next]_(Contract!vars)
  BY StepSimulation
<1>3. QED
  BY <1>1, <1>2, Invariant, PTL DEF Spec, Contract!Spec, ImplementsPageStore

------------------------------------------------------------------------------
(***************************************************************************)
(* A page holds the places from its start on, as many as the limit, that   *)
(* there are in the result set, and no other.  A place is thus on exactly  *)
(* one of the pages that start at multiples of the limit: this is why the  *)
(* pages tile the result.                                                  *)
(***************************************************************************)
THEOREM PagePlaces ==
  ASSUME NEW count \in Nat, NEW start \in Nat, NEW limit \in Nat \ {0}, NEW place \in Nat
  PROVE  LET page == PageOf(count, start, limit) IN
           page.start <= place /\ place < page.end
             <=> place < count /\ start <= place /\ place < start + limit
BY DEF PageOf, Smaller

(***************************************************************************)
(* A limit of zero asks for everything, wherever the page starts.          *)
(***************************************************************************)
THEOREM NoLimit ==
  ASSUME NEW count \in Nat, NEW start \in Nat
  PROVE  PageOf(count, start, 0) = [start |-> 0, end |-> count]
BY DEF PageOf

(***************************************************************************)
(* A page lies inside the result set and is no longer than its limit,      *)
(* which is the length of the array that was allocated for it.             *)
(***************************************************************************)
THEOREM PageInside ==
  ASSUME NEW count \in Nat, NEW start \in Nat, NEW limit \in Nat \ {0}
  PROVE  LET page == PageOf(count, start, limit) IN
           /\ page.start \in Nat /\ page.end \in Nat
           /\ start <= count => page.start = start /\ page.start <= page.end
           /\ page.end <= count
           /\ page.end - page.start <= limit
BY DEF PageOf, Smaller

(***************************************************************************)
(* A page ends where the next one begins.                                  *)
(***************************************************************************)
THEOREM PagesAdjoin ==
  ASSUME NEW count \in Nat, NEW start \in Nat, NEW limit \in Nat \ {0}
  PROVE  start <= count => PageOf(count, start, limit).end = PageOf(count, start + limit, limit).start
BY DEF PageOf, Smaller

==============================================================================
