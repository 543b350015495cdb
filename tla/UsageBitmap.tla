----------------------------- MODULE UsageBitmap -----------------------------
(***************************************************************************)
(* The usage bitmap (usage_bitmap.c, mem_layout.h) and the scans over it.  *)
(* A bit per data sector; the bits are in words, and the last word of each *)
(* bitmap sector is its checksum, which no scan may take for bits.  A word *)
(* is the set of its bits that are 1; map is the array in RAM.             *)
(***************************************************************************)
EXTENDS SequencesExt, Scan

CONSTANTS
    BitsPerElement,    \* BITS_PER_ELEMENT
    WordsPerSector,    \* USAGE_WORDS_PER_SECTOR
    ContactSectors,    \* CONTACT_MEMORY_SECTOR_SIZE: the first data sectors
    MessageSectors,    \* TOTAL_MESSAGE_SECTOR_SIZE: those after them
    ContactCapacity,   \* CONTACT_SECTOR_CAPACITY
    ContactSlots       \* HASH_TABLE_ENTRIES

NoBit == -1            \* UINT16_MAX

BitmapSectors ==
    LET perSector == WordsPerSector * BitsPerElement
    IN  (ContactSectors + MessageSectors + perSector - 1) \div perSector

ASSUME BitmapAssumption ==
    /\ {BitsPerElement, WordsPerSector, ContactSectors, MessageSectors, ContactCapacity}
           \subseteq Nat \ {0}
    /\ ContactSlots \in (ContactSectors - 1) * ContactCapacity + 1 .. ContactSectors * ContactCapacity

ElementsPerSector == WordsPerSector + 1
BitsPerSector     == WordsPerSector * BitsPerElement
Bits              == 0 .. BitsPerElement - 1
MapWords          == 0 .. BitmapSectors * ElementsPerSector - 1

(* USAGE_BITMAP_FIND_INDEX, _FIND_BIT, _WORD_TO_INDEX, _IS_CRC_WORD        *)
FindIndex(i) ==
    (i \div BitsPerSector) * ElementsPerSector + (i % BitsPerSector) \div BitsPerElement
FindBit(i)     == i % BitsPerElement
WordToIndex(w) ==
    (w \div ElementsPerSector) * BitsPerSector + (w % ElementsPerSector) * BitsPerElement
IsCrcWord(w)   == w % ElementsPerSector >= WordsPerSector

Least(S)    == CHOOSE x \in S : \A y \in S : x <= y
Greatest(S) == CHOOSE x \in S : \A y \in S : x >= y

(* check_usage_bit, and update_usage_bit when its write succeeds           *)
CheckBit(map, i) == FindBit(i) \in map[FindIndex(i)]

Updated(map, i, used) ==
    [map EXCEPT ![FindIndex(i)] = IF used THEN @ \cup {FindBit(i)} ELSE @ \ {FindBit(i)}]

(* Mutant: the checksums are taken for bits.                               *)
NextBitInTrailers(map, cur, lim) ==
    LET bits(w) == IF w = FindIndex(cur) THEN {b \in map[w] : b >= FindBit(cur)} ELSE map[w]
        words   == {w \in FindIndex(cur) .. FindIndex(lim) : bits(w) # {}}
    IN  IF words = {} THEN NoBit ELSE WordToIndex(Least(words)) + Least(bits(Least(words)))

(* get_next_bit: from cur on, to the end of the word of lim.               *)
NextBit(map, cur, lim) ==
    LET bits(w) == IF w = FindIndex(cur) THEN {b \in map[w] : b >= FindBit(cur)} ELSE map[w]
        words   == {w \in FindIndex(cur) .. FindIndex(lim) : ~IsCrcWord(w) /\ bits(w) # {}}
    IN  IF words = {} THEN NoBit ELSE WordToIndex(Least(words)) + Least(bits(Least(words)))

(* get_prev_bit: from lim down to cur.                                     *)
PrevBit(map, cur, lim) ==
    LET bits(w) == {b \in map[w] : /\ w = FindIndex(lim) => b <= FindBit(lim)
                                   /\ w = FindIndex(cur) => b >= FindBit(cur)}
        words   == {w \in FindIndex(cur) .. FindIndex(lim) : ~IsCrcWord(w) /\ bits(w) # {}}
    IN  IF words = {} THEN NoBit
        ELSE WordToIndex(Greatest(words)) + Greatest(bits(Greatest(words)))

(* usage_bitmap_iterator_next, usage_bitmap_iterator_prev: where an        *)
(* iterator over the first total bits that stands on cur goes.             *)
IteratorNext(map, total, cur) ==
    LET start == IF cur = NoBit THEN 0 ELSE cur + 1
    IN  IF start >= total THEN NoBit ELSE NextBit(map, start, total - 1)

IteratorPrev(map, total, cur) ==
    IF total = 0 \/ cur = 0 THEN NoBit
    ELSE PrevBit(map, 0, IF cur = NoBit THEN total - 1 ELSE cur - 1)

(* get_nth_set_bit, counted from 0                                         *)
NthSetBit(bits, n) ==
    IF \E b \in bits : Cardinality({a \in bits : a < b}) = n
    THEN CHOOSE b \in bits : Cardinality({a \in bits : a < b}) = n
    ELSE NoBit

-----------------------------------------------------------------------------
(* The data sectors that the scan of the contact region finds in use, in   *)
(* its order; used[k] are the slots in use that sector k's header names,   *)
(* or Lost if its checksum is wrong.                                       *)
ContactScan(map) ==
    LET words == {w \in FindIndex(0) .. FindIndex(ContactSectors) : ~IsCrcWord(w)}
        found == {i \in UNION {{WordToIndex(w) + b : b \in map[w]} : w \in words} : i < ContactSectors}
    IN  Ascending(found)

(* free_list_free_range: the slots or sectors that it frees, in order.     *)
FreeRange(from, to, capacity) ==
    [k \in 1 .. (IF to < capacity THEN to ELSE capacity) - from |-> from + k - 1]

(* Mutant: the slots of a sector that fails its checksum are freed too.    *)
FreedInSectorEvenLost(k, slots, Lost) ==
    Ascending({s \in Range(FreeRange(k * ContactCapacity, (k + 1) * ContactCapacity, ContactSlots)) :
                  slots = Lost \/ s % ContactCapacity \notin slots})

(* insert_contacts_from_sector frees the slots of sector k that are not    *)
(* used; of a sector that fails its checksum hash_reconstruct_contact      *)
(* frees none.                                                             *)
FreedInSector(k, slots, Lost) ==
    IF slots = Lost THEN <<>>
    ELSE Ascending({s \in Range(FreeRange(k * ContactCapacity, (k + 1) * ContactCapacity, ContactSlots)) :
                       s % ContactCapacity \notin slots})

(* hash_reconstruct_contact: the contact slots in the order it frees them. *)
ContactsFreed(map, used, Lost) ==
    LET scan == ContactScan(map)
        at[n \in 0 .. Len(scan)] ==      \* after n sectors
            IF n = 0 THEN [freed |-> <<>>, last |-> 0]
            ELSE [freed |-> at[n - 1].freed
                               \o FreeRange(at[n - 1].last, scan[n] * ContactCapacity, ContactSlots)
                               \o FreedInSector(scan[n], used[scan[n]], Lost),
                  last  |-> (scan[n] + 1) * ContactCapacity]
    IN  at[Len(scan)].freed \o FreeRange(at[Len(scan)].last, ContactSlots, ContactSlots)

(* hash_reconstruct_message: the message sectors in the order it frees     *)
(* them.  (Those of chats without a contact are in ChatStore.)             *)
MessagesFreed(map) ==
    LET first == ContactSectors
        last  == ContactSectors + MessageSectors - 1
        at[n \in 0 .. MessageSectors] ==     \* after n sectors
            IF n = 0 THEN [freed |-> <<>>, next |-> 0, bit |-> NextBit(map, first, last)]
            ELSE LET was == at[n - 1]
                     m   == was.bit - first
                 IN  IF was.bit = NoBit \/ was.bit > last THEN was
                     ELSE [freed |-> was.freed \o FreeRange(was.next, m, MessageSectors),
                           next  |-> m + 1,
                           bit   |-> IF was.bit = last THEN NoBit
                                     ELSE NextBit(map, was.bit + 1, last)]
        end == at[MessageSectors]
    IN  end.freed \o FreeRange(end.next, MessageSectors, MessageSectors)

-----------------------------------------------------------------------------
(* The listing by usage, which reads no hash table (and which the database *)
(* does not call).  A sector's number of contacts before it.               *)
CountBefore(scan, used, n) ==
    Cardinality(UNION {{<<scan[k], s>> : s \in used[scan[k]]} : k \in 1 .. n - 1})

(* get_nth_contact_index, when it can read the sectors: the slot, or NoBit.*)
NthContact(map, used, n) ==
    LET scan == ContactScan(map)
        has  == {k \in DOMAIN scan : CountBefore(scan, used, k + 1) > n}
        k    == Least(has)
    IN  IF has = {} THEN NoBit
        ELSE scan[k] * ContactCapacity + NthSetBit(used[scan[k]], n - CountBefore(scan, used, k))

(* hash_get_contact_list_by_usage: the slots it reads.                     *)
ContactsByUsage(map, used, start, n) ==
    LET first == NthContact(map, used, start)
        scan  == {k \in Range(ContactScan(map)) : k >= first \div ContactCapacity}
        slots == UNION {{k * ContactCapacity + s : s \in used[k]} : k \in scan}
        all   == Ascending({s \in slots : s >= first})
    IN  IF first = NoBit THEN <<>> ELSE SubSeq(all, 1, IF n < Len(all) THEN n ELSE Len(all))
=============================================================================
