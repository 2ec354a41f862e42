------------------------------ MODULE PageStore ------------------------------
(***************************************************************************)
(* What every storage manager promises an index (IStorageManager): a       *)
(* table from identifiers to byte arrays.  Storing under NewPage allocates *)
(* an identifier nobody uses, storing under a known identifier replaces    *)
(* its contents, and an identifier that is not in use is refused.          *)
(*                                                                         *)
(* The memory manager, the disk manager and the buffer in front of either  *)
(* are shown to implement this specification.                              *)
(***************************************************************************)

CONSTANTS
  Id,       \* the identifiers a storage manager may hand out
  Entity,   \* the byte arrays a client may store
  Absent    \* marks an identifier that is not in use

VARIABLES
  store,    \* what loadByteArray would return for each identifier
  reply     \* how the last call ended, as its caller sees it

vars == <<store, reply>>

(***************************************************************************)
(* The outcomes of a call: an identifier, contents, or the exception       *)
(* InvalidPageException.                                                   *)
(***************************************************************************)
NoReply     == <<"none">>
Stored(i)   == <<"stored", i>>
Loaded(e)   == <<"loaded", e>>
Deleted(i)  == <<"deleted", i>>
Invalid(i)  == <<"invalid", i>>

Init ==
  /\ store = [i \in Id |-> Absent]
  /\ reply = NoReply

(***************************************************************************)
(* storeByteArray, with NewPage and with an identifier.                    *)
(***************************************************************************)
StoreNew(e) ==
  \E i \in Id :
    /\ store[i] = Absent
    /\ store' = [store EXCEPT ![i] = e]
    /\ reply' = Stored(i)

StoreOld(i, e) ==
  /\ store[i] # Absent
  /\ store' = [store EXCEPT ![i] = e]
  /\ reply' = Stored(i)

Load(i) ==
  /\ store[i] # Absent
  /\ reply' = Loaded(store[i])
  /\ UNCHANGED store

Delete(i) ==
  /\ store[i] # Absent
  /\ store' = [store EXCEPT ![i] = Absent]
  /\ reply' = Deleted(i)

\* Any call that names an identifier which is not in use.
Refuse(i) ==
  /\ store[i] = Absent
  /\ reply' = Invalid(i)
  /\ UNCHANGED store

Next ==
  \/ \E e \in Entity : StoreNew(e)
  \/ \E i \in Id :
       \/ \E e \in Entity : StoreOld(i, e)
       \/ Load(i)
       \/ Delete(i)
       \/ Refuse(i)

Spec == Init /\ [][Next]_vars

==============================================================================
