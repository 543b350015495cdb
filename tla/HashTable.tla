------------------------------ MODULE HashTable ------------------------------
(***************************************************************************)
(* The contact hash table (hash_table.c): open addressing with double      *)
(* hashing and tombstones.  An entry in RAM has the 16-bit hash of a phone *)
(* and the slot of its contact on the card; only the contact itself has    *)
(* the phone, so a lookup reads the card to tell phones of one hash apart. *)
(* A boot fills the table again from the card.                             *)
(*                                                                         *)
(* One step here is one journal transaction (module Journal).  A write may *)
(* fail: the card then refuses every write until power is cut, and the     *)
(* failed one may be undone at the next boot, although it is read until    *)
(* then.  A contact sector may also lose its content while power is off.   *)
(*                                                                         *)
(* The messages of a chat and the message allocator are in ChatStore; here *)
(* a contact has a chat or it has none.  A call that is refused            *)
(* (STRG_EXISTS, STRG_FULL, STRG_EMPTY) changes nothing and is no step.    *)
(* Nor is the add that finds no sector to follow its chat's full one and   *)
(* goes on over the last contact sector (ExtendWithoutSector in ChatStore, *)
(* which has what becomes of the contacts there): the results of this      *)
(* module and of Database are about databases that have not met it.        *)
(***************************************************************************)
EXTENDS Integers, Sequences, FiniteSets

CONSTANTS
    Phones, Names,
    Unnamed,         \* the name of a contact that a message created
    TableSize,       \* HASH_TABLE_SIZE
    NumSlots,        \* HASH_TABLE_ENTRIES: contact slots on the card
    SectorCapacity,  \* CONTACT_SECTOR_CAPACITY
    Hash,            \* hash_phone
    Free,            \* a slot whose bit is clear
    Lost,            \* a slot of a contact sector that fails its checksum
    NoContact        \* a phone that has no contact

Contacts == [phone : Phones, name : Names]
Cells    == 0 .. TableSize - 1
Attempts == 0 .. TableSize - 1
Slots    == 0 .. NumSlots - 1

(* hash_double                                                             *)
HashDouble(key, attempt) ==
    ((key % TableSize) + attempt * (1 + (key % (TableSize - 1)))) % TableSize

Probe(p, i) == HashDouble(Hash[p], i)

ASSUME SizeAssumption ==
    /\ TableSize \in Nat /\ NumSlots \in Nat /\ SectorCapacity \in Nat \ {0}
    /\ TableSize >= 2 /\ NumSlots > 0 /\ NumSlots < TableSize

ASSUME HashAssumption == Hash \in [Phones -> Nat]

ASSUME ContactAssumption ==
    /\ Unnamed \in Names /\ Free \notin Contacts /\ Lost \notin Contacts /\ Free # Lost
    /\ NoContact \notin Phones /\ NoContact \notin [name : Names, chat : BOOLEAN]

(* HASH_TABLE_SIZE is prime (14293), so a probe sequence visits every cell.*)
ASSUME ProbesReachAllCells ==
    \A p \in Phones : \A c \in Cells : \E i \in Attempts : Probe(p, i) = c

Empty           == [state |-> "empty"]
Tombstone       == [state |-> "deleted"]
Occupied(h, s, chat) == [state |-> "occupied", id |-> h, slot |-> s, chat |-> chat]
OccupiedEntries == [state : {"occupied"}, id : Nat, slot : Slots, chat : BOOLEAN]

(* What the database is doing, and where it is.                            *)
Off             == [kind |-> "off"]
Idle            == [kind |-> "idle"]
ReadingContacts(k) == [kind |-> "contacts", at |-> k]
ReadingChats(k) == [kind |-> "chats", at |-> k]
Messaging(p, c) == [kind |-> "message", phone |-> p, cell |-> c]
Removing(p, c)  == [kind |-> "remove", phone |-> p, cell |-> c]

VARIABLES
    table,      \* RAM: htable
    freeSlots,  \* RAM: contact_allocator, as a set: any free slot may be next
    numElems,   \* RAM: num_elems
    contacts,   \* card: the contact slots, as they are read
    durable,    \* card: the contact slots, as the next boot restores them
    chats,      \* card: the slots whose contact has a chat
    op,         \* the operation in progress
    doubt       \* the phones of the call whose write failed, if one has

ram  == <<table, freeSlots, numElems>>
card == <<contacts, durable, chats>>
vars == <<ram, card, op, doubt>>

(* database_format                                                         *)
Init ==
    /\ table = [c \in Cells |-> Empty]
    /\ freeSlots = Slots
    /\ numElems = 0
    /\ contacts = [s \in Slots |-> Free]
    /\ durable = contacts
    /\ chats = {}
    /\ op = Idle
    /\ doubt = {}

-----------------------------------------------------------------------------
(* hash_find_entry.  When the slot's bit is clear, read_contact leaves the *)
(* buffer uninitialised and the comparison with it may give either result: *)
(* u is the one it gives.                                                  *)
Matches(p, i, u) ==
    LET entry == table[Probe(p, i)]
    IN  /\ entry.state = "occupied" /\ entry.id = Hash[p]
        /\ IF contacts[entry.slot] = Free THEN u ELSE contacts[entry.slot].phone = p

(* Mutant: the walk ends at a tombstone.                                   *)
FoundBeforeTombstone(p, i, u) ==
    /\ Matches(p, i, u)
    /\ \A j \in 0 .. i - 1 : table[Probe(p, j)].state = "occupied" /\ ~Matches(p, j, u)

(* The i-th attempt is the entry of phone p.                               *)
Found(p, i, u) ==
    /\ Matches(p, i, u)
    /\ \A j \in 0 .. i - 1 : table[Probe(p, j)].state # "empty" /\ ~Matches(p, j, u)

(* Only a removal that failed leaves such a slot behind.                   *)
Garbage ==
    IF \E c \in Cells : table[c].state = "occupied" /\ contacts[table[c].slot] = Free
    THEN BOOLEAN ELSE {FALSE}

IsFound(p, u) == \E i \in Attempts : Found(p, i, u)

(* The i-th attempt is where phone p is inserted: the first tombstone, or  *)
(* the empty cell at the end of the walk.                                  *)
FindsFree(p, i, u) ==
    /\ table[Probe(p, i)].state # "occupied"
    /\ \A j \in 0 .. i - 1 : table[Probe(p, j)].state = "occupied"
    /\ ~IsFound(p, u)

EntryOf(p, i) == table[Probe(p, i)]

-----------------------------------------------------------------------------
Failing == doubt # {}

Holding(s, p, n) == [contacts EXCEPT ![s] = [phone |-> p, name |-> n]]

(* write_contact and remove_contact, when they return STRG_OK or true.     *)
Written(new) ==
    /\ ~Failing
    /\ contacts' = new /\ durable' = new
    /\ UNCHANGED doubt

(* When they fail: the slot was not written; or it was, but the journal    *)
(* was not released and a boot restores it.  A failed write_contact may    *)
(* also have released it, by its first call of journal_free.               *)
WriteFails(phones, new, released) ==
    /\ IF Failing THEN UNCHANGED <<contacts, durable, doubt>>
       ELSE /\ doubt' = phones
            /\ \/ UNCHANGED <<contacts, durable>>
               \/ contacts' = new /\ UNCHANGED durable
               \/ released /\ contacts' = new /\ durable' = new

(* A message write or a chat's removal fails.                              *)
ChatWriteFails(p) ==
    /\ doubt' = IF Failing THEN doubt ELSE {p}
    /\ UNCHANGED <<contacts, durable, chats>>

(* A new entry, in the cell that phone p's i-th attempt found.             *)
Enter(p, i, s) ==
    /\ table' = [table EXCEPT ![Probe(p, i)] = Occupied(Hash[p], s, FALSE)]
    /\ freeSlots' = freeSlots \ {s}
    /\ numElems' = numElems + 1

-----------------------------------------------------------------------------
(* hash_insert_contact                                                     *)

InsertContact(p, n) ==
    /\ op = Idle
    /\ \E u \in Garbage, i \in Attempts, s \in freeSlots :
          /\ FindsFree(p, i, u)
          /\ Written(Holding(s, p, n))
          /\ Enter(p, i, s)
    /\ UNCHANGED <<chats, op>>

(* The slot is freed and the cell gets its old content back.               *)
InsertContactFails(p, n) ==
    /\ op = Idle
    /\ \E u \in Garbage, i \in Attempts, s \in freeSlots :
          FindsFree(p, i, u) /\ WriteFails({p}, Holding(s, p, n), TRUE)
    /\ UNCHANGED <<ram, chats, op>>

-----------------------------------------------------------------------------
(* hash_update_contact, and hash_update_phone for another phone, whose     *)
(* hash gets a cell of its own before the old one is given up.             *)

UpdateContact(p, n) ==
    /\ op = Idle
    /\ \E u \in Garbage, i \in Attempts :
          Found(p, i, u) /\ Written(Holding(EntryOf(p, i).slot, p, n))
    /\ UNCHANGED <<ram, chats, op>>

UpdateContactFails(p, n) ==
    /\ op = Idle
    /\ \E u \in Garbage, i \in Attempts :
          Found(p, i, u) /\ WriteFails({p}, Holding(EntryOf(p, i).slot, p, n), TRUE)
    /\ UNCHANGED <<ram, chats, op>>

(* Mutant: the new entry keeps the hash of the old phone.                  *)
UpdatePhoneOldHash(p, q, n) ==
    /\ op = Idle /\ p # q
    /\ \E i \in {j \in Attempts : \E u \in Garbage : Found(p, j, u)},
          k \in {j \in Attempts : \E u \in Garbage : FindsFree(q, j, u)} :
          /\ Written(Holding(EntryOf(p, i).slot, q, n))
          /\ table' = [table EXCEPT ![Probe(q, k)] = EntryOf(p, i),
                                    ![Probe(p, i)] = Tombstone]
    /\ UNCHANGED <<freeSlots, numElems, chats, op>>

UpdatePhone(p, q, n) ==
    /\ op = Idle /\ p # q
    /\ \E i \in {j \in Attempts : \E u \in Garbage : Found(p, j, u)},
          k \in {j \in Attempts : \E u \in Garbage : FindsFree(q, j, u)} :
          /\ Written(Holding(EntryOf(p, i).slot, q, n))
          /\ table' = [table EXCEPT ![Probe(q, k)] = [EntryOf(p, i) EXCEPT !.id = Hash[q]],
                                    ![Probe(p, i)] = Tombstone]
    /\ UNCHANGED <<freeSlots, numElems, chats, op>>

(* The new cell gets its old content back.                                 *)
UpdatePhoneFails(p, q, n) ==
    /\ op = Idle /\ p # q
    /\ \E i \in {j \in Attempts : \E u \in Garbage : Found(p, j, u)},
          k \in {j \in Attempts : \E u \in Garbage : FindsFree(q, j, u)} :
          /\ WriteFails({p, q}, Holding(EntryOf(p, i).slot, q, n), TRUE)
    /\ UNCHANGED <<ram, chats, op>>

-----------------------------------------------------------------------------
(* hash_insert_message.  A phone without a contact first gets an unnamed   *)
(* one.                                                                    *)

(* (While the card refuses writes this changes nothing.)                   *)
MessageToContact(p) ==
    /\ op = Idle
    /\ ~Failing
    /\ \E u \in Garbage, i \in Attempts :
          Found(p, i, u) /\ op' = Messaging(p, Probe(p, i))
    /\ UNCHANGED <<ram, card, doubt>>

MessageToNewContact(p) ==
    /\ op = Idle
    /\ \E u \in Garbage, i \in Attempts, s \in freeSlots :
          /\ FindsFree(p, i, u)
          /\ Written(Holding(s, p, Unnamed))
          /\ Enter(p, i, s)
          /\ op' = Messaging(p, Probe(p, i))
    /\ UNCHANGED chats

(* Unlike hash_insert_contact, this does not free the slot again.          *)
MessageToNewContactFails(p) ==
    /\ op = Idle
    /\ \E u \in Garbage, i \in Attempts, s \in freeSlots :
          /\ FindsFree(p, i, u)
          /\ WriteFails({p}, Holding(s, p, Unnamed), TRUE)
          /\ freeSlots' = freeSlots \ {s}
    /\ UNCHANGED <<table, numElems, chats, op>>

(* The first message of a chat, or another one.                            *)
WriteMessage ==
    /\ op.kind = "message"
    /\ ~Failing
    /\ table' = [table EXCEPT ![op.cell].chat = TRUE]
    /\ chats' = chats \cup {table[op.cell].slot}
    /\ op' = Idle
    /\ UNCHANGED <<freeSlots, numElems, contacts, durable, doubt>>

(* No message sector is left for a chat's first message, or to follow the  *)
(* full sector of a chat: write_next_message_sector refuses UINT16_MAX     *)
(* while the last contact sector is in use.  (When it is not, the add is   *)
(* acknowledged and destroys that sector: ExtendWithoutSector.)            *)
NoMessageSector ==
    /\ op.kind = "message"
    /\ op' = Idle
    /\ UNCHANGED <<ram, card, doubt>>

WriteMessageFails ==
    /\ op.kind = "message"
    /\ op' = Idle
    /\ ChatWriteFails(op.phone)
    /\ UNCHANGED ram

-----------------------------------------------------------------------------
(* hash_remove_message                                                     *)

RemoveChat(p) ==
    /\ op = Idle
    /\ ~Failing
    /\ \E u \in Garbage, i \in Attempts :
          /\ Found(p, i, u) /\ EntryOf(p, i).chat
          /\ table' = [table EXCEPT ![Probe(p, i)].chat = FALSE]
          /\ chats' = chats \ {EntryOf(p, i).slot}
    /\ UNCHANGED <<freeSlots, numElems, contacts, durable, op, doubt>>

RemoveChatFails(p) ==
    /\ op = Idle
    /\ \E u \in Garbage, i \in Attempts : Found(p, i, u) /\ EntryOf(p, i).chat
    /\ ChatWriteFails(p)
    /\ UNCHANGED <<ram, op>>

(* hash_remove: the chat, if there is one, and then the contact, whether   *)
(* or not the chat was removed.                                            *)

BeginRemove(p) ==
    /\ op = Idle
    /\ ~Failing
    /\ \E u \in Garbage, i \in Attempts :
          /\ Found(p, i, u)
          /\ table' = [table EXCEPT ![Probe(p, i)].chat = FALSE]
          /\ chats' = chats \ {EntryOf(p, i).slot}
          /\ op' = Removing(p, Probe(p, i))
    /\ UNCHANGED <<freeSlots, numElems, contacts, durable, doubt>>

BeginRemoveFails(p) ==
    /\ op = Idle
    /\ \E u \in Garbage, i \in Attempts :
          /\ Found(p, i, u)
          /\ Failing \/ EntryOf(p, i).chat
          /\ table' = [table EXCEPT ![Probe(p, i)].chat = FALSE]
          /\ op' = Removing(p, Probe(p, i))
    /\ ChatWriteFails(p)
    /\ UNCHANGED <<freeSlots, numElems>>

(* Mutant: the count is not decreased.                                     *)
RemoveContactUncounted ==
    /\ op.kind = "remove"
    /\ LET s == table[op.cell].slot
       IN  /\ contacts[s] # Free
           /\ Written([contacts EXCEPT ![s] = Free])
           /\ freeSlots' = freeSlots \cup {s}
    /\ table' = [table EXCEPT ![op.cell] = Tombstone]
    /\ op' = Idle
    /\ UNCHANGED <<chats, numElems>>

RemoveContact ==
    /\ op.kind = "remove"
    /\ LET s == table[op.cell].slot
       IN  /\ contacts[s] # Free
           /\ Written([contacts EXCEPT ![s] = Free])
           /\ freeSlots' = freeSlots \cup {s}
    /\ table' = [table EXCEPT ![op.cell] = Tombstone]
    /\ numElems' = numElems - 1
    /\ op' = Idle
    /\ UNCHANGED chats

(* Mutant: the count is decreased before the write.                        *)
RemoveContactFailsCounted ==
    /\ op.kind = "remove"
    /\ WriteFails({op.phone}, [contacts EXCEPT ![table[op.cell].slot] = Free], FALSE)
    /\ numElems' = numElems - 1
    /\ op' = Idle
    /\ UNCHANGED <<table, freeSlots, chats>>

RemoveContactFails ==
    /\ op.kind = "remove"
    /\ WriteFails({op.phone}, [contacts EXCEPT ![table[op.cell].slot] = Free], FALSE)
    /\ op' = Idle
    /\ UNCHANGED <<ram, chats>>

-----------------------------------------------------------------------------
(* Power cuts, and database_mount.                                         *)

PowerCut ==
    /\ op # Off
    /\ table' = [c \in Cells |-> Empty]
    /\ freeSlots' = {}
    /\ numElems' = 0
    /\ contacts' = durable
    /\ op' = Off
    /\ doubt' = {}
    /\ UNCHANGED <<durable, chats>>

SectorOf(s) == {t \in Slots : t \div SectorCapacity = s \div SectorCapacity}

(* A contact sector in use no longer matches its checksum.                 *)
Decay(s) ==
    /\ op = Off
    /\ contacts[s] \in Contacts
    /\ contacts' = [t \in Slots |-> IF t \in SectorOf(s) THEN Lost ELSE contacts[t]]
    /\ durable' = contacts'
    /\ UNCHANGED <<ram, chats, op, doubt>>

PowerOn ==
    /\ op = Off
    /\ op' = ReadingContacts(0)
    /\ UNCHANGED <<ram, card, doubt>>

(* hash_reconstruct_contact and insert_contacts_from_sector, slot by slot. *)
(* The slots of a sector that fails its checksum are neither entered nor   *)
(* freed.                                                                  *)
FreeSlotRead ==
    /\ op.kind = "contacts" /\ op.at < NumSlots
    /\ contacts[op.at] \notin Contacts
    /\ freeSlots' = IF contacts[op.at] = Free THEN freeSlots \cup {op.at} ELSE freeSlots
    /\ op' = ReadingContacts(op.at + 1)
    /\ UNCHANGED <<table, numElems, card, doubt>>

ContactRead ==
    /\ op.kind = "contacts" /\ op.at < NumSlots
    /\ contacts[op.at] \in Contacts
    /\ LET p == contacts[op.at].phone
       IN  \E i \in Attempts :
              /\ Found(p, i, FALSE) \/ FindsFree(p, i, FALSE)
              /\ table' = [table EXCEPT ![Probe(p, i)] = Occupied(Hash[p], op.at, FALSE)]
    /\ numElems' = numElems + 1
    /\ op' = ReadingContacts(op.at + 1)
    /\ UNCHANGED <<freeSlots, card, doubt>>

ContactsRead ==
    /\ op = ReadingContacts(NumSlots)
    /\ op' = ReadingChats(0)
    /\ UNCHANGED <<ram, card, doubt>>

(* hash_reconstruct_message and insert_message_from_sector, here in the    *)
(* order of the contacts' slots: each chat changes its own entry only.     *)
HasEntry(s, i) ==
    /\ contacts[s] \in Contacts
    /\ Found(contacts[s].phone, i, FALSE)
    /\ EntryOf(contacts[s].phone, i).slot = s

ChatRead ==
    /\ op.kind = "chats" /\ op.at < NumSlots
    /\ op.at \in chats
    /\ \E i \in Attempts :
          /\ HasEntry(op.at, i)
          /\ table' = [table EXCEPT ![Probe(contacts[op.at].phone, i)].chat = TRUE]
    /\ op' = ReadingChats(op.at + 1)
    /\ UNCHANGED <<freeSlots, numElems, card, doubt>>

(* remove_orphaned_message_chat, if there is a chat.                       *)
NoChatRead ==
    /\ op.kind = "chats" /\ op.at < NumSlots
    /\ op.at \in chats => \A i \in Attempts : ~HasEntry(op.at, i)
    /\ chats' = chats \ {op.at}
    /\ op' = ReadingChats(op.at + 1)
    /\ UNCHANGED <<ram, contacts, durable, doubt>>

Mounted ==
    /\ op = ReadingChats(NumSlots)
    /\ op' = Idle
    /\ UNCHANGED <<ram, card, doubt>>

Calls(p) ==
    \/ MessageToContact(p) \/ MessageToNewContact(p) \/ MessageToNewContactFails(p)
    \/ RemoveChat(p) \/ RemoveChatFails(p) \/ BeginRemove(p) \/ BeginRemoveFails(p)
    \/ \E n \in Names :
          \/ InsertContact(p, n) \/ InsertContactFails(p, n)
          \/ UpdateContact(p, n) \/ UpdateContactFails(p, n)
          \/ \E q \in Phones : UpdatePhone(p, q, n) \/ UpdatePhoneFails(p, q, n)

Next ==
    \/ \E p \in Phones : Calls(p)
    \/ WriteMessage \/ NoMessageSector \/ WriteMessageFails
    \/ RemoveContact \/ RemoveContactFails
    \/ PowerCut \/ (\E s \in Slots : Decay(s)) \/ PowerOn
    \/ FreeSlotRead \/ ContactRead \/ ContactsRead \/ ChatRead \/ NoChatRead \/ Mounted

Spec == Init /\ [][Next]_vars
-----------------------------------------------------------------------------
(* The iterator over the occupied cells.                                   *)
OccupiedCells == {c \in Cells : table[c].state = "occupied"}
NoCell == TableSize      \* UINT16_MAX: not positioned, or past the end

(* Mutant: the walk starts over at the cell it stands on.                  *)
IteratorNextSame(cur) ==
    LET later == {c \in OccupiedCells : cur = NoCell \/ c >= cur}
    IN  IF later = {} THEN NoCell ELSE CHOOSE c \in later : \A d \in later : c <= d

(* hash_table_iterator_next, hash_table_iterator_prev                      *)
IteratorNext(cur) ==
    LET later == {c \in OccupiedCells : cur = NoCell \/ c > cur}
    IN  IF later = {} THEN NoCell ELSE CHOOSE c \in later : \A d \in later : c <= d

IteratorPrev(cur) ==
    LET earlier == {c \in OccupiedCells : cur = NoCell \/ c < cur}
    IN  IF earlier = {} THEN NoCell ELSE CHOOSE c \in earlier : \A d \in earlier : c >= d

Forwards  == [cur \in Cells \cup {NoCell} |-> IteratorNext(cur)]
Backwards == [cur \in Cells \cup {NoCell} |-> IteratorPrev(cur)]

(* The cells that a walk stands on until it has passed the last one, which *)
(* leaves the iterator where it began.                                     *)
Walk(step) ==
    LET at[k \in 1 .. TableSize] ==
            IF k = 1 THEN step[NoCell]
            ELSE IF at[k - 1] = NoCell THEN NoCell ELSE step[at[k - 1]]
        steps == {k \in 1 .. TableSize : at[k] # NoCell}
    IN  [k \in 1 .. Cardinality(steps) |-> at[k]]

(* The cells of a walk whose contacts have a chat.                         *)
HeadCells(cells) ==
    LET first[k \in 0 .. Len(cells)] ==      \* of the first k
            IF k = 0 THEN <<>>
            ELSE IF table[cells[k]].chat THEN Append(first[k - 1], cells[k]) ELSE first[k - 1]
    IN  first[Len(cells)]

(* hash_get_contact_list, hash_get_message_list: the cells they read.      *)
ListedFrom(cells, start, n) ==
    SubSeq(cells, start + 1, IF start + n < Len(cells) THEN start + n ELSE Len(cells))

ContactList(start, n) ==
    ListedFrom(Walk(Forwards), start, n)

MessageList(start, n) ==
    ListedFrom(HeadCells(Walk(Forwards)), start, n)

-----------------------------------------------------------------------------
Ops == {Off, Idle}
    \cup {ReadingContacts(k) : k \in 0 .. NumSlots}
    \cup {ReadingChats(k) : k \in 0 .. NumSlots}
    \cup {Messaging(p, c) : p \in Phones, c \in Cells}
    \cup {Removing(p, c) : p \in Phones, c \in Cells}

(* Entries, slots and counts are in the ranges of their C types.           *)
TypeOK ==
    /\ table \in [Cells -> {Empty, Tombstone} \cup OccupiedEntries]
    /\ freeSlots \subseteq Slots
    /\ numElems \in Nat
    /\ contacts \in [Slots -> Contacts \cup {Free, Lost}]
    /\ durable \in [Slots -> Contacts \cup {Free, Lost}]
    /\ chats \subseteq Slots
    /\ op \in Ops
    /\ doubt \subseteq Phones

Running == op.kind \in {"idle", "message", "remove"}

(* The slots that hold phone p's contact, as a boot would find them.       *)
SlotsOf(p) == {s \in Slots : durable[s] \in Contacts /\ durable[s].phone = p}

(* A phone that a lookup may take for a phone of the failed call: their    *)
(* hashes are the same.                                                    *)
Doubtful(p) == \E q \in doubt : Hash[q] = Hash[p]

(* hash_find_entry finds a phone's entry, past whatever tombstones and     *)
(* other phones' entries, if and only if the phone has a contact; and then *)
(* it is the one entry of that contact's slot.  Its walk always comes to a *)
(* cell to insert at.  A call whose write failed may spoil this for the    *)
(* phones of its own hash, and for no others.                              *)
LookupExact ==
    Running =>
        \A p \in Phones : ~Doubtful(p) =>
            \A u \in Garbage :
                /\ IsFound(p, u) <=> SlotsOf(p) # {}
                /\ \A i \in Attempts : Found(p, i, u) =>
                      /\ SlotsOf(p) = {EntryOf(p, i).slot}
                      /\ \A c \in OccupiedCells :
                            table[c].slot = EntryOf(p, i).slot => c = Probe(p, i)
                /\ \E i \in Attempts : table[Probe(p, i)].state # "occupied"

(* What RAM keeps beside the entries is what the card says: the allocator  *)
(* has the free slots, num_elems is the number of contacts, an entry has a *)
(* chat if its contact has one.                                            *)
RamAgreesWithCard ==
    Running /\ ~Failing =>
        /\ freeSlots = {s \in Slots : contacts[s] = Free}
        /\ numElems = Cardinality({s \in Slots : contacts[s] \in Contacts})
        /\ \A c \in OccupiedCells : table[c].chat <=> table[c].slot \in chats

(* Walking the table forwards lists each contact once, walking it back     *)
(* lists them in reverse, and the chats that a walk lists are those on the *)
(* card, once (hash_get_contact_list, hash_get_message_list).              *)
ListingsComplete ==
    Running /\ ~Failing =>
        LET all   == ContactList(0, TableSize)
            heads == MessageList(0, TableSize)
        IN  /\ Len(all) = numElems
            /\ {table[all[k]].slot : k \in DOMAIN all} = {s \in Slots : contacts[s] \in Contacts}
            /\ Walk(Backwards) = [k \in DOMAIN all |-> all[Len(all) + 1 - k]]
            /\ Len(heads) = Cardinality(chats)
            /\ {table[heads[k]].slot : k \in DOMAIN heads} = chats

-----------------------------------------------------------------------------
(* The inductive invariant.                                                *)

(* The slots that the reconstruction has read, and those whose chat it has.*)
SlotsRead == CASE op.kind = "off" -> {} [] op.kind = "contacts" -> 0 .. op.at - 1 [] OTHER -> Slots
ChatsRead == CASE op.kind \in {"off", "contacts"} -> {} [] op.kind = "chats" -> 0 .. op.at - 1
               [] OTHER -> Slots

(* A phone has one contact.  Only a failed call's contacts can be read     *)
(* otherwise than a boot would find them.  A chat belongs to a contact.    *)
CardInv ==
    /\ \A s, t \in Slots :
          durable[s] \in Contacts /\ durable[t] \in Contacts
            /\ durable[s].phone = durable[t].phone => s = t
    /\ \A s \in Slots : contacts[s] # durable[s] =>
          /\ contacts[s] \in Contacts => contacts[s].phone \in doubt
          /\ durable[s] \in Contacts => durable[s].phone \in doubt
    /\ \A s \in Slots : contacts[s] = Lost <=> durable[s] = Lost
    /\ \A s \in chats : durable[s] # Free
    /\ ~Running => doubt = {}

(* An entry has its contact's slot, which no other has, and its phone's    *)
(* hash; a contact that was read has an entry.                             *)
EntryInv ==
    /\ \A c \in OccupiedCells :
          LET e == table[c]
          IN  /\ e.slot \in SlotsRead /\ durable[e.slot] \in Contacts
              /\ \/ e.id = Hash[durable[e.slot].phone]
                 \/ durable[e.slot].phone \in doubt /\ \E q \in doubt : e.id = Hash[q]
    /\ \A c, d \in OccupiedCells : table[c].slot = table[d].slot => c = d
    /\ \A s \in SlotsRead :
          durable[s] \in Contacts /\ durable[s].phone \notin doubt
            => \E c \in OccupiedCells : table[c].slot = s

(* The walk to an entry meets no empty cell.                               *)
Reachable(c) ==
    \E i \in Attempts :
       /\ HashDouble(table[c].id, i) = c
       /\ \A j \in 0 .. i - 1 : /\ HashDouble(table[c].id, j) # c
                               /\ table[HashDouble(table[c].id, j)].state # "empty"

ReachInv == \A c \in OccupiedCells : Reachable(c)

(* The allocator, the count, the chats and the operation in progress.      *)
RamInv ==
    /\ numElems = Cardinality(OccupiedCells)
    /\ ~Failing => freeSlots = {s \in SlotsRead : contacts[s] = Free}
    /\ ~Failing => \A c \in OccupiedCells :
          table[c].chat <=> table[c].slot \in chats \cap ChatsRead
    /\ op.kind \in {"message", "remove"} => op.cell \in OccupiedCells
    /\ op.kind \in {"message", "remove"} /\ ~Failing =>
          durable[table[op.cell].slot].phone = op.phone
    /\ op.kind = "remove" /\ ~Failing => ~table[op.cell].chat

TableInv == TypeOK /\ CardInv /\ EntryInv /\ ReachInv /\ RamInv

-----------------------------------------------------------------------------
(* The phone book: each phone's contact, as a boot would find it.          *)
Book == [p \in Phones |->
            IF SlotsOf(p) = {} THEN NoContact
            ELSE LET s == CHOOSE x \in SlotsOf(p) : TRUE
                 IN  [name |-> durable[s].name, chat |-> s \in chats]]

Power == IF Failing THEN "failed" ELSE IF Running THEN "on" ELSE "off"

Serving == IF op.kind \in {"message", "remove"} /\ ~Failing
           THEN [call |-> op.kind, phone |-> op.phone] ELSE NoContact

PB == INSTANCE PhoneBook WITH book <- Book, power <- Power, serving <- Serving

(* The hash table, its slots and its reconstruction implement the phone    *)
(* book: a map from phones to contacts whose calls return what the map     *)
(* says and change nothing else, whatever collides, is removed, is cut or  *)
(* fails.                                                                  *)
IsPhoneBook == PB!Spec
=============================================================================
