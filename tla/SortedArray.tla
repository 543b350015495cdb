----------------------------- MODULE SortedArray -----------------------------
(***************************************************************************)
(* The name index (sorted_array.c): the hash table's occupied cells in the *)
(* order of their contacts' names.  An entry keeps the first KeyLength     *)
(* characters of the name, folded to lower case; only when two of these    *)
(* keys are equal are the contacts read from the card.                     *)
(*                                                                         *)
(* Read is the card as read_contact returns it: for each cell its contact  *)
(* or something that is no contact, when it returns an error.              *)
(***************************************************************************)
EXTENDS SequencesExt, Scan, Heapsort

CONSTANTS
    KeyLength,       \* KEY_LEN
    IndexCapacity    \* HASH_TABLE_ENTRIES

ASSUME IndexAssumption == KeyLength \in Nat /\ IndexCapacity \in Nat

(* Characters are their codes.                                             *)
RemoveCase(c) == IF c \in 65 .. 90 THEN c + 32 ELSE c

Folded(s) == [i \in DOMAIN s |-> RemoveCase(s[i])]

(* bytes_cmp: negative, 0 or positive.                                     *)
BytesCmp(a, b) ==
    LET n       == IF Len(a) < Len(b) THEN Len(a) ELSE Len(b)
        differs == {i \in 1 .. n : a[i] # b[i]}
        first   == CHOOSE i \in differs : \A j \in differs : i <= j
    IN  IF differs = {} THEN Len(a) - Len(b) ELSE a[first] - b[first]

(* sorted_array_make_key                                                   *)
MakeKey(name) == [i \in 1 .. KeyLength |-> IF i <= Len(name) THEN RemoveCase(name[i]) ELSE 0]

ProbeFromContact(c) ==
    [key |-> MakeKey(c.name), name |-> c.name, phone |-> c.phone, nameOnly |-> FALSE]

ProbeFromString(s) == [key |-> MakeKey(s), name |-> s, phone |-> 0, nameOnly |-> TRUE]

(* Mutant: the phones of contacts with the same name are not compared.     *)
TiebreakNoPhone(probe, c) ==
    LET folded == BytesCmp(Folded(probe.name), Folded(c.name))
        exact  == BytesCmp(probe.name, c.name)
    IN  IF folded # 0 \/ probe.nameOnly THEN folded ELSE exact

(* tiebreak_fn, on a contact that was read.                                *)
Tiebreak(probe, c) ==
    LET folded == BytesCmp(Folded(probe.name), Folded(c.name))
        exact  == BytesCmp(probe.name, c.name)
    IN  IF folded # 0 \/ probe.nameOnly THEN folded
        ELSE IF exact # 0 THEN exact
        ELSE probe.phone - c.phone

IsContact(c) == c \in [phone : Nat, name : Seq(Nat)]

(* cmp: it returns an error when it cannot read the entry's contact.       *)
Comparable(probe, entry, Read) == probe.key # entry.key \/ IsContact(Read[entry.cell])

Cmp(probe, entry, Read) ==
    IF probe.key # entry.key THEN BytesCmp(probe.key, entry.key)
    ELSE Tiebreak(probe, Read[entry.cell])

(* Mutant: an entry equal to the probe is passed.                          *)
LowerBoundPastMatch(index, probe, Read) ==
    LET search[k \in 0 .. Len(index) + 1] ==
            IF k = 0 THEN [ok |-> TRUE, lo |-> 0, hi |-> Len(index), match |-> FALSE]
            ELSE LET at  == search[k - 1]
                     mid == at.lo + (at.hi - at.lo) \div 2
                 IN  IF ~at.ok \/ at.lo >= at.hi THEN at
                     ELSE IF ~Comparable(probe, index[mid + 1], Read) THEN [at EXCEPT !.ok = FALSE]
                     ELSE IF Cmp(probe, index[mid + 1], Read) >= 0
                     THEN [at EXCEPT !.lo = mid + 1]
                     ELSE [at EXCEPT !.hi = mid, !.match = FALSE]
    IN  search[Len(index) + 1]

(* binary_search_lower_bound: in .lo the lower bound, counted from 0.      *)
LowerBound(index, probe, Read) ==
    LET search[k \in 0 .. Len(index) + 1] ==
            IF k = 0 THEN [ok |-> TRUE, lo |-> 0, hi |-> Len(index), match |-> FALSE]
            ELSE LET at  == search[k - 1]
                     mid == at.lo + (at.hi - at.lo) \div 2
                 IN  IF ~at.ok \/ at.lo >= at.hi THEN at
                     ELSE IF ~Comparable(probe, index[mid + 1], Read) THEN [at EXCEPT !.ok = FALSE]
                     ELSE IF Cmp(probe, index[mid + 1], Read) > 0
                     THEN [at EXCEPT !.lo = mid + 1]
                     ELSE [at EXCEPT !.hi = mid, !.match = Cmp(probe, index[mid + 1], Read) = 0]
    IN  search[Len(index) + 1]

(* sorted_array_seek, sorted_array_find                                    *)
Seek(index, prefix, Read) == LowerBound(index, ProbeFromString(prefix), Read)
Find(index, c, Read)      == LowerBound(index, ProbeFromContact(c), Read)

(* sorted_array_insert and sorted_array_remove: whether they return        *)
(* STRG_OK, and the index they leave.                                      *)
Inserted(index, c, cell, Read) ==
    LET at == Find(index, c, Read)
    IN  IF Len(index) < IndexCapacity /\ at.ok /\ ~at.match
        THEN [ok |-> TRUE,
              index |-> InsertAt(index, at.lo + 1, [key |-> MakeKey(c.name), cell |-> cell])]
        ELSE [ok |-> FALSE, index |-> index]

Removed(index, c, Read) ==
    LET at == Find(index, c, Read)
    IN  IF at.ok /\ at.match THEN [ok |-> TRUE, index |-> RemoveAt(index, at.lo + 1)]
        ELSE [ok |-> FALSE, index |-> index]

(* entry_cmp, on contacts that can be read.                                *)
EntryLess(a, b, Read) ==
    IF a.key # b.key THEN BytesCmp(a.key, b.key) < 0
    ELSE Tiebreak(ProbeFromContact(Read[a.cell]), Read[b.cell]) < 0

(* sorted_array_build: the occupied cells in ascending order, sorted.      *)
BuiltNames(cells, Read) ==
    LET order == Ascending(cells)
        mem   == [k \in 0 .. Len(order) - 1 |->
                     [key |-> MakeKey(Read[order[k + 1]].name), cell |-> order[k + 1]]]
        less  == {p \in Range(mem) \X Range(mem) : EntryLess(p[1], p[2], Read)}
        done  == Sorted(mem, Len(order), less)
    IN  [k \in 1 .. Len(order) |-> done[k - 1]]
=============================================================================
