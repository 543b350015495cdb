------------------------------ MODULE NameIndex ------------------------------
(***************************************************************************)
(* The name index by itself (sorted_array.c): contacts come and go in the  *)
(* cells of a hash table, one insertion or removal of database.c at a      *)
(* time, and a boot sorts what it finds.  Module Database has the index    *)
(* with the hash table that it is kept beside.                             *)
(***************************************************************************)
EXTENDS SortedArray

CONSTANTS
    SomeContacts,   \* contacts, each with a phone of its own
    SomePrefixes,   \* strings to seek
    NumCells,
    Vacant          \* a cell without a contact

ASSUME NameAssumption ==
    /\ SomeContacts \subseteq [phone : Nat, name : Seq(Nat)]
    /\ SomePrefixes \subseteq Seq(Nat)
    /\ NumCells \in Nat /\ Vacant \notin SomeContacts

VARIABLES held,     \* the contact of each cell, or Vacant
          index

Live == {c \in 0 .. NumCells - 1 : held[c] # Vacant}

NamesInit ==
    /\ held = [c \in 0 .. NumCells - 1 |-> Vacant]
    /\ index = <<>>

(* database_contact_add, with whatever cell the hash table has found; the  *)
(* card has no more slots for contacts than the index has entries.         *)
InsertName(c, contact) ==
    /\ held[c] = Vacant
    /\ Cardinality(Live) < IndexCapacity
    /\ \A d \in Live : held[d].phone # contact.phone
    /\ held' = [held EXCEPT ![c] = contact]
    /\ index' = Inserted(index, contact, c, held').index

(* database_contact_remove                                                 *)
RemoveName(c) ==
    /\ held[c] # Vacant
    /\ index' = Removed(index, held[c], held).index
    /\ held' = [held EXCEPT ![c] = Vacant]

Rebuild ==
    /\ index' = BuiltNames(Live, held)
    /\ UNCHANGED held

NamesNext ==
    \/ \E c \in 0 .. NumCells - 1 : RemoveName(c) \/ (\E contact \in SomeContacts : InsertName(c, contact))
    \/ Rebuild

NamesSpec == NamesInit /\ [][NamesNext]_<<held, index>>
-----------------------------------------------------------------------------
(* Names by their letters, whatever the case, then by case, then phones.   *)
Precedes(a, b) ==
    LET folded == BytesCmp(Folded(a.name), Folded(b.name))
        exact  == BytesCmp(a.name, b.name)
    IN  \/ folded < 0
        \/ folded = 0 /\ exact < 0
        \/ folded = 0 /\ exact = 0 /\ a.phone < b.phone

(* The index is exactly the live contacts in alphabetical order, although  *)
(* it compares no more than the keys of most of them (sorted_array_insert, *)
(* sorted_array_remove).                                                   *)
IndexSorted ==
    /\ {index[k].cell : k \in DOMAIN index} = Live
    /\ Len(index) = Cardinality(Live)
    /\ \A j, k \in DOMAIN index : j < k => Precedes(held[index[j].cell], held[index[k].cell])

(* A prefix's rank is the number of contacts before all those whose names  *)
(* start with it or come after it, in any case (sorted_array_seek).        *)
SeekIsLowerBound ==
    \A s \in SomePrefixes :
        Seek(index, s, held).lo =
            Cardinality({c \in Live : BytesCmp(Folded(held[c].name), Folded(s)) < 0})

(* The heapsort of a boot arrives at the index that the insertions and     *)
(* removals have kept (sorted_array_build).                                *)
RebuildAgrees == BuiltNames(Live, held) = index
=============================================================================
