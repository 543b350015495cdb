------------------------------ MODULE ChatStore ------------------------------
(***************************************************************************)
(* Contacts and their chats: hash_table.c on contact.c, message.c and the  *)
(* two free lists, with the reconstruction of all of it at boot.           *)
(*                                                                         *)
(* A chat is a chain of message sectors linked by prev from its newest     *)
(* sector, the head, which only RAM knows (latest_msg_extent).  A boot     *)
(* takes a used sector for a head when its next names no used sector.      *)
(*                                                                         *)
(* One step here is one journal transaction: module Journal and theorem    *)
(* JournalIsAtomic show that a transaction is indivisible on a card whose  *)
(* writes do not tear.  An operation of several transactions is several    *)
(* steps, and power can be cut between them.  Failing writes are not       *)
(* modelled here (Journal has them).                                       *)
(***************************************************************************)
EXTENDS Integers, SequencesExt

CONSTANTS
    Phones,        \* phone numbers
    None,          \* no phone, no entry
    NumSlots,      \* contact slots; the last one fills the last contact sector
    NumSectors,    \* message sectors
    Capacity,      \* messages in a sector
    MaxMessages    \* bound: messages sent

(* The code has 10000 slots, 28586 sectors and three messages a sector.    *)
ASSUME ChatStoreAssumption ==
    /\ None \notin Phones
    /\ NumSlots \in Nat \ {0} /\ NumSectors \in Nat \ {0} /\ Capacity \in Nat \ {0}
    /\ MaxMessages \in Nat

Slots    == 0 .. NumSlots - 1
LastSlot == NumSlots - 1
Sectors  == 0 .. NumSectors - 1
End      == NumSectors           \* UINT16_MAX: no sector
Messages == 1 .. MaxMessages     \* named in the order they are sent

(* A slot is used when its bit in the contact sector and the sector's      *)
(* usage bit are set.  A used slot with phone None holds bytes that are    *)
(* the phone of no client (ExtendWithoutSector).                           *)
SlotContents   == [used : BOOLEAN, phone : Phones \cup {None}]
SectorContents == [used : BOOLEAN, slot : Slots, prev : Sectors \cup {End},
                   next : Sectors \cup {End}, msgs : Seq(Messages)]
Unused == [used |-> FALSE, slot |-> 0, prev |-> End, next |-> End, msgs |-> <<>>]

(* The occupied hash entries, by phone.                                    *)
Entries == [slot : Slots, latest : Sectors \cup {End}] \cup {None}

ASSUME NoEntryAssumption == None \notin [slot : Slots, latest : Sectors \cup {End}]

(* What dbTask is doing, and where it is.                                  *)
Off   == [kind |-> "off"]
Idle  == [kind |-> "idle"]
Stuck == [kind |-> "stuck"]
Appending(p) == [kind |-> "append", phone |-> p]
Linking(p, t) == [kind |-> "link", phone |-> p, sector |-> t]
Removing(p, at, whole) == [kind |-> "remove", phone |-> p, at |-> at, whole |-> whole]
Scanning(i) == [kind |-> "scan", at |-> i]
Orphaning(start, at) == [kind |-> "orphan", start |-> start, at |-> at]

Ops == {Off, Idle, Stuck} \cup {Appending(p) : p \in Phones}
    \cup {Linking(p, t) : p \in Phones, t \in Sectors \cup {End}}
    \cup {Removing(p, at, whole) : p \in Phones, at \in Sectors \cup {End}, whole \in BOOLEAN}
    \cup {Scanning(i) : i \in 0 .. NumSectors}
    \cup {Orphaning(start, at) : start \in Sectors, at \in Sectors \cup {End}}

VARIABLES
    contacts,      \* card: the contact slots
    sectors,       \* card: the message sectors
    entries,       \* RAM: the hash entries
    freeSlots,     \* RAM: contact_allocator, its top last
    freeSectors,   \* RAM: message_allocator, its top last
    op,            \* the operation in progress
    sent,          \* the last message's number
    owner,         \* ghost: the phone each message was sent to
    kept,          \* ghost: per phone, its acknowledged messages, newest first
    removing,      \* ghost: the phones whose removal has begun and has not
                   \* succeeded; kept is what their chat was then
    gone,          \* ghost: messages whose removal was acknowledged
    split          \* ghost: the operations of several transactions that a
                   \* power cut has left half done, and "extend" once an add
                   \* took UINT16_MAX for a sector (ExtendWithoutSector)

vars == <<contacts, sectors, entries, freeSlots, freeSectors, op, sent, owner, kept,
          removing, gone, split>>

ghosts == <<sent, owner, kept, removing, gone, split>>

(* database_format: everything is free, the lists in ascending order.      *)
Init ==
    /\ contacts = [s \in Slots |-> [used |-> FALSE, phone |-> None]]
    /\ sectors = [t \in Sectors |-> Unused]
    /\ entries = [p \in Phones |-> None]
    /\ freeSlots = [k \in 1 .. NumSlots |-> k - 1]
    /\ freeSectors = [k \in 1 .. NumSectors |-> k - 1]
    /\ op = Idle
    /\ sent = 0
    /\ owner = [m \in Messages |-> None]
    /\ kept = [p \in Phones |-> <<>>]
    /\ removing = {}
    /\ gone = {}
    /\ split = {}

-----------------------------------------------------------------------------
(* free_list_allocate: the lists are stacks.                               *)
Top(stack)    == stack[Len(stack)]
Popped(stack) == SubSeq(stack, 1, Len(stack) - 1)

(* Mutant: a chat's new sector does not name the one before.               *)
NewSectorNoPrev(slot, prev, m) ==
    [used |-> TRUE, slot |-> slot, prev |-> End, next |-> End, msgs |-> <<m>>]

(* write_contact sets the slot's bits; remove_contact clears them.         *)
Stored(p) == [used |-> TRUE, phone |-> p]
Erased    == [used |-> FALSE, phone |-> None]

(* create_new_message_sector, with its first message.                      *)
NewSector(slot, prev, m) ==
    [used |-> TRUE, slot |-> slot, prev |-> prev, next |-> End, msgs |-> <<m>>]

-----------------------------------------------------------------------------
(* database_message_get_chat: at most n messages of a chat, the first      *)
(* being number start counted from the newest.                             *)

(* The sectors that a walk along prev reads from sector s: it ends at End, *)
(* at a sector whose usage bit is clear, or at the cap on hops.            *)
Chain(s) ==
    LET following(c) == IF c = <<>> THEN s ELSE sectors[Last(c)].prev
        chain[h \in 0 .. NumSectors] ==
            IF h = 0 THEN <<>>
            ELSE LET c == chain[h - 1]
                     t == following(c)
                 IN  IF t # End /\ sectors[t].used THEN Append(c, t) ELSE c
    IN  chain[NumSectors]

(* Messages in the first k sectors of a chain.                             *)
Passed(chain, k) ==
    LET passed[i \in 0 .. k] ==
            IF i = 0 THEN 0 ELSE passed[i - 1] + Len(sectors[chain[i]].msgs)
    IN  passed[k]

(* Messages of a sector from slot pos down, newest first.                  *)
NewestFirst(t, pos) == Reverse(SubSeq(sectors[t].msgs, 1, pos + 1))

(* Mutant: the first sector of a page read from its newest message.        *)
StartSlotIgnored(chain, k, start) == Len(sectors[chain[k]].msgs) - 1

(* find_message_n_index: message number start is in the k-th sector.       *)
StartSlot(chain, k, start) == Passed(chain, k) - 1 - start

GetChat(s, start, n) ==
    LET chain == Chain(s)
        whole == chain # <<>> /\ sectors[Last(chain)].prev = End
        from  == {k \in DOMAIN chain : Passed(chain, k) > start}
        k     == CHOOSE x \in from : \A y \in from : x <= y
        list  == NewestFirst(chain[k], StartSlot(chain, k, start)) \o
                 FlattenSeq([i \in 1 .. Len(chain) - k |->
                                 NewestFirst(chain[k + i], Capacity - 1)])
    IN  IF n = 0 THEN [ok |-> TRUE, list |-> <<>>]
        ELSE IF from = {} THEN [ok |-> FALSE, list |-> <<>>]
        ELSE IF n <= Len(list) THEN [ok |-> TRUE, list |-> SubSeq(list, 1, n)]
        ELSE [ok |-> whole, list |-> list]

AllMessages == NumSectors * Capacity + 1

(* STRG_EMPTY if the phone has no contact or no chat.                      *)
Listing(p) ==
    IF entries[p] = None THEN [ok |-> TRUE, list |-> <<>>]
    ELSE IF entries[p].latest = End THEN [ok |-> TRUE, list |-> <<>>]
    ELSE GetChat(entries[p].latest, 0, AllMessages)

-----------------------------------------------------------------------------
(* database_contact_add, and hash_update_phone, whose one transaction      *)
(* rewrites the slot.                                                      *)

AddContact(p) ==
    /\ op = Idle
    /\ entries[p] = None /\ freeSlots # <<>>
    /\ contacts' = [contacts EXCEPT ![Top(freeSlots)] = Stored(p)]
    /\ entries' = [entries EXCEPT ![p] = [slot |-> Top(freeSlots), latest |-> End]]
    /\ freeSlots' = Popped(freeSlots)
    /\ UNCHANGED <<sectors, freeSectors, op, ghosts>>

UpdatePhone(p, q) ==
    /\ op = Idle
    /\ entries[p] # None /\ entries[q] = None
    /\ contacts' = [contacts EXCEPT ![entries[p].slot] = Stored(q)]
    /\ entries' = [entries EXCEPT ![q] = entries[p], ![p] = None]
    /\ owner' = [m \in Messages |-> IF owner[m] = p THEN q ELSE owner[m]]
    /\ kept' = [kept EXCEPT ![q] = kept[p], ![p] = <<>>]
    /\ removing' = IF p \in removing THEN (removing \ {p}) \cup {q} ELSE removing
    /\ UNCHANGED <<sectors, freeSlots, freeSectors, op, sent, gone, split>>

-----------------------------------------------------------------------------
(* hash_insert_message.  A phone without a contact gets an unnamed one, in *)
(* a transaction of its own.                                               *)

BeginAddMessage(p) ==
    /\ op = Idle
    /\ sent < MaxMessages
    /\ entries[p] # None \/ freeSlots # <<>>
    /\ sent' = sent + 1
    /\ owner' = [owner EXCEPT ![sent + 1] = p]
    /\ op' = Appending(p)
    /\ IF entries[p] # None THEN UNCHANGED <<contacts, entries, freeSlots>>
       ELSE /\ contacts' = [contacts EXCEPT ![Top(freeSlots)] = Stored(p)]
            /\ entries' = [entries EXCEPT ![p] = [slot |-> Top(freeSlots), latest |-> End]]
            /\ freeSlots' = Popped(freeSlots)
    /\ UNCHANGED <<sectors, freeSectors, kept, removing, gone, split>>

(* The add has returned STRG_OK.                                           *)
Acknowledge(p) ==
    /\ kept' = [kept EXCEPT ![p] = IF p \in removing THEN <<sent>> ELSE <<sent>> \o @]
    /\ removing' = removing \ {p}
    /\ op' = Idle
    /\ UNCHANGED <<sent, owner, gone>>

SectorFull(t) == Len(sectors[t].msgs) >= Capacity

(* write_new_message_sector: the chat's first sector.                      *)
StartChat(p) ==
    /\ op = Appending(p) /\ entries[p].latest = End
    /\ freeSectors # <<>>
    /\ LET t == Top(freeSectors)
       IN  /\ ~sectors[t].used
           /\ sectors' = [sectors EXCEPT ![t] = NewSector(entries[p].slot, End, sent)]
           /\ entries' = [entries EXCEPT ![p].latest = t]
    /\ freeSectors' = Popped(freeSectors)
    /\ Acknowledge(p)
    /\ UNCHANGED <<contacts, freeSlots, split>>

(* write_message                                                           *)
AppendMessage(p) ==
    /\ op = Appending(p) /\ entries[p].latest # End
    /\ sectors[entries[p].latest].used /\ ~SectorFull(entries[p].latest)
    /\ sectors' = [sectors EXCEPT ![entries[p].latest].msgs = Append(@, sent)]
    /\ Acknowledge(p)
    /\ UNCHANGED <<contacts, entries, freeSlots, freeSectors, split>>

(* STRG_FULL, and write_next_message_sector's first transaction: the new   *)
(* sector, which names the full one.                                       *)
WriteNextSector(p) ==
    /\ op = Appending(p) /\ entries[p].latest # End
    /\ sectors[entries[p].latest].used /\ SectorFull(entries[p].latest)
    /\ freeSectors # <<>>
    /\ LET t == Top(freeSectors)
       IN  /\ ~sectors[t].used
           /\ sectors' = [sectors EXCEPT
                              ![t] = NewSector(entries[p].slot, entries[p].latest, sent)]
           /\ op' = Linking(p, t)
    /\ freeSectors' = Popped(freeSectors)
    /\ UNCHANGED <<contacts, entries, freeSlots, ghosts>>

(* Mutant: the entry keeps the full sector as the chat's head.             *)
PointToNextOldHead(p) ==
    /\ op.kind = "link" /\ op.phone = p
    /\ sectors' = [sectors EXCEPT ![entries[p].latest].next = op.sector]
    /\ Acknowledge(p)
    /\ UNCHANGED <<contacts, entries, freeSlots, freeSectors, split>>

(* point_message_sector_to_next: its second one.  (The sector is End after *)
(* ExtendWithoutSector.)                                                   *)
PointToNext(p) ==
    /\ op.kind = "link" /\ op.phone = p
    /\ sectors' = [sectors EXCEPT ![entries[p].latest].next = op.sector]
    /\ entries' = [entries EXCEPT ![p].latest = op.sector]
    /\ Acknowledge(p)
    /\ UNCHANGED <<contacts, freeSlots, freeSectors, split>>

(* hash_table.c:532 does not ask whether a sector was allocated, and       *)
(* write_next_message_sector's first transaction is made on UINT16_MAX.    *)
(* Its usage bit and, by the uint16_t index of write_sector, its sector    *)
(* are those of the last contact sector: if that is unused it becomes used *)
(* and the message's sector is written over it, with a valid CRC.  Its     *)
(* used_bitmap is then the high byte of next, 0xFF, and its phones are     *)
(* bytes of the message, which may spell any phone.  The second            *)
(* transaction (PointToNext) makes UINT16_MAX the chat's head, which says  *)
(* that there is no chat.                                                  *)
ExtendWithoutSector(p) ==
    /\ op = Appending(p) /\ entries[p].latest # End
    /\ sectors[entries[p].latest].used /\ SectorFull(entries[p].latest)
    /\ freeSectors = <<>> /\ ~contacts[LastSlot].used
    /\ \E q \in Phones \cup {None} : contacts' = [contacts EXCEPT ![LastSlot] = Stored(q)]
    /\ op' = Linking(p, End)
    /\ split' = split \cup {"extend"}
    /\ UNCHANGED <<sectors, entries, freeSlots, freeSectors, sent, owner, kept, removing, gone>>

(* The add returns an error: no sector is left, or the chat's head is not  *)
(* a used sector.  (A used sector is never on the list: SectorsAccounted.) *)
AddMessageFails(p) ==
    /\ op = Appending(p)
    /\ IF entries[p].latest = End THEN freeSectors = <<>>
       ELSE \/ ~sectors[entries[p].latest].used
            \/ SectorFull(entries[p].latest) /\ freeSectors = <<>> /\ contacts[LastSlot].used
    /\ op' = Idle
    /\ UNCHANGED <<contacts, sectors, entries, freeSlots, freeSectors, ghosts>>

-----------------------------------------------------------------------------
(* database_message_remove_chat, and database_contact_remove, which then   *)
(* removes the contact (whole).                                            *)

(* Mutant: the contact is removed without its chat.                        *)
BeginRemoveKeepingChat(p, whole) ==
    /\ op = Idle
    /\ entries[p] # None
    /\ whole \/ entries[p].latest # End
    /\ op' = Removing(p, IF whole THEN End ELSE entries[p].latest, whole)
    /\ removing' = IF kept[p] = <<>> THEN removing ELSE removing \cup {p}
    /\ UNCHANGED <<contacts, sectors, entries, freeSlots, freeSectors, sent, owner, kept, gone, split>>

BeginRemove(p, whole) ==
    /\ op = Idle
    /\ entries[p] # None
    /\ whole \/ entries[p].latest # End
    /\ op' = Removing(p, entries[p].latest, whole)
    /\ removing' = IF kept[p] = <<>> THEN removing ELSE removing \cup {p}
    /\ UNCHANGED <<contacts, sectors, entries, freeSlots, freeSectors, sent, owner, kept, gone, split>>

(* Mutant: the removal follows the chain from its other end.               *)
RemoveSectorForward ==
    /\ op.kind = "remove" /\ op.at # End
    /\ sectors[op.at].used
    /\ sectors' = [sectors EXCEPT ![op.at] = Unused]
    /\ freeSectors' = Append(freeSectors, op.at)
    /\ op' = [op EXCEPT !.at = sectors[op.at].next]
    /\ UNCHANGED <<contacts, entries, freeSlots, ghosts>>

(* remove_message_sector: one sector, one transaction.                     *)
RemoveSector ==
    /\ op.kind = "remove" /\ op.at # End
    /\ sectors[op.at].used
    /\ sectors' = [sectors EXCEPT ![op.at] = Unused]
    /\ freeSectors' = Append(freeSectors, op.at)
    /\ op' = [op EXCEPT !.at = sectors[op.at].prev]
    /\ UNCHANGED <<contacts, entries, freeSlots, ghosts>>

(* remove_message_chat meets an unused sector and gives up; the chat's     *)
(* head stays.                                                             *)
RemoveChatFails ==
    /\ op.kind = "remove" /\ op.at # End
    /\ ~sectors[op.at].used /\ ~op.whole
    /\ op' = Idle
    /\ UNCHANGED <<contacts, sectors, entries, freeSlots, freeSectors, ghosts>>

RemovedFor(p) ==
    /\ gone' = gone \cup {m \in 1 .. sent : owner[m] = p}
    /\ kept' = [kept EXCEPT ![p] = <<>>]
    /\ removing' = removing \ {p}
    /\ op' = Idle
    /\ UNCHANGED <<sent, owner, split>>

RemoveChatEnds ==
    /\ op.kind = "remove" /\ op.at = End /\ ~op.whole
    /\ entries' = [entries EXCEPT ![op.phone].latest = End]
    /\ RemovedFor(op.phone)
    /\ UNCHANGED <<contacts, sectors, freeSlots, freeSectors>>

(* remove_contact, whether or not the chat was removed.  If it was not,    *)
(* hash_remove fails and leaves an occupied entry whose slot is free;      *)
(* hash_find_entry then compares that entry's phone with an uninitialised  *)
(* buffer.  The model follows the database no further than this (Stuck):   *)
(* only its next boot.                                                     *)
RemoveContactEnds ==
    /\ op.kind = "remove" /\ op.whole
    /\ op.at # End => ~sectors[op.at].used
    /\ LET slot == entries[op.phone].slot
       IN  /\ contacts' = [contacts EXCEPT ![slot] = Erased]
           /\ freeSlots' = Append(freeSlots, slot)
    /\ IF op.at = End
       THEN /\ entries' = [entries EXCEPT ![op.phone] = None]
            /\ RemovedFor(op.phone)
       ELSE /\ entries' = [entries EXCEPT ![op.phone].latest = End]
            /\ op' = Stuck
            /\ UNCHANGED ghosts
    /\ UNCHANGED <<sectors, freeSectors>>

-----------------------------------------------------------------------------
(* Power cuts, and database_mount.                                         *)

PartlyRemoved ==
    /\ op.kind = "remove"
    /\ op.at # End /\ op.at # entries[op.phone].latest

PowerCut ==
    /\ op # Off
    /\ split' = CASE op.kind = "link" -> split \cup {"add"}
                  [] PartlyRemoved    -> split \cup {"remove"}
                  [] OTHER            -> split
    /\ op' = Off
    /\ entries' = [p \in Phones |-> None]
    /\ freeSlots' = <<>> /\ freeSectors' = <<>>
    /\ UNCHANGED <<contacts, sectors, sent, owner, kept, removing, gone>>

(* hash_reconstruct_contact: the used slots in ascending order, a later    *)
(* one of the same phone taking the entry; the others are freed.           *)
SlotsOf(p) == {s \in Slots : contacts[s].used /\ contacts[s].phone = p}

(* The slots that it frees, in its order.                                  *)
UnusedSlots ==
    LET freed[k \in 0 .. NumSlots] ==      \* after k slots
            IF k = 0 THEN <<>>
            ELSE IF contacts[k - 1].used THEN freed[k - 1] ELSE Append(freed[k - 1], k - 1)
    IN  freed[NumSlots]

(* Mutant: every slot is freed.                                            *)
ReconstructContactsFreeAll ==
    /\ op = Off
    /\ entries' = [p \in Phones |->
                      IF SlotsOf(p) = {} THEN None ELSE [slot |-> Max(SlotsOf(p)), latest |-> End]]
    /\ freeSlots' = [k \in 1 .. NumSlots |-> k - 1]
    /\ op' = Scanning(0)
    /\ UNCHANGED <<contacts, sectors, freeSectors, ghosts>>

ReconstructContacts ==
    /\ op = Off
    /\ entries' = [p \in Phones |->
                      IF SlotsOf(p) = {} THEN None ELSE [slot |-> Max(SlotsOf(p)), latest |-> End]]
    /\ freeSlots' = UnusedSlots
    /\ op' = Scanning(0)
    /\ UNCHANGED <<contacts, sectors, freeSectors, ghosts>>

(* hash_reconstruct_message.                                               *)
IsHead(t) ==
    LET next == sectors[t].next
    IN  IF next = End THEN TRUE ELSE ~sectors[next].used

(* insert_message_from_sector: the contact is there, and its entry has the *)
(* slot that the chat names.  (The bytes of an overwritten slot, which are *)
(* no client's phone, are entered as a string and looked up by phone_len:  *)
(* the entry they make is not the one they find.)                          *)
HasContact(t) ==
    LET slot == sectors[t].slot
    IN  /\ contacts[slot].used /\ contacts[slot].phone # None
        /\ entries[contacts[slot].phone].slot = slot

ScanSector ==
    /\ op.kind = "scan" /\ op.at < NumSectors
    /\ LET t == op.at
       IN  CASE ~sectors[t].used ->
                  /\ freeSectors' = Append(freeSectors, t)
                  /\ op' = Scanning(t + 1)
                  /\ UNCHANGED entries
             [] sectors[t].used /\ ~IsHead(t) ->
                  /\ op' = Scanning(t + 1)
                  /\ UNCHANGED <<entries, freeSectors>>
             [] sectors[t].used /\ IsHead(t) /\ HasContact(t) ->
                  /\ entries' = [entries EXCEPT ![contacts[sectors[t].slot].phone].latest = t]
                  /\ op' = Scanning(t + 1)
                  /\ UNCHANGED freeSectors
             [] OTHER ->
                  /\ op' = Orphaning(t, t)
                  /\ UNCHANGED <<entries, freeSectors>>
    /\ UNCHANGED <<contacts, sectors, freeSlots, ghosts>>

(* Mutant: a sector that the scan will free is freed here too.             *)
RemoveOrphanFreesAll ==
    /\ op.kind = "orphan" /\ op.at # End
    /\ sectors[op.at].used
    /\ sectors' = [sectors EXCEPT ![op.at] = Unused]
    /\ freeSectors' = Append(freeSectors, op.at)
    /\ op' = [op EXCEPT !.at = sectors[op.at].prev]
    /\ UNCHANGED <<contacts, entries, freeSlots, ghosts>>

(* remove_orphaned_message_chat: one sector, one transaction.  A sector    *)
(* that the scan has yet to reach is left for it to free.                  *)
RemoveOrphan ==
    /\ op.kind = "orphan" /\ op.at # End
    /\ sectors[op.at].used
    /\ sectors' = [sectors EXCEPT ![op.at] = Unused]
    /\ freeSectors' = IF op.at <= op.start THEN Append(freeSectors, op.at) ELSE freeSectors
    /\ op' = [op EXCEPT !.at = sectors[op.at].prev]
    /\ UNCHANGED <<contacts, entries, freeSlots, ghosts>>

OrphanRemoved ==
    /\ op.kind = "orphan"
    /\ op.at # End => ~sectors[op.at].used
    /\ op' = Scanning(op.start + 1)
    /\ UNCHANGED <<contacts, sectors, entries, freeSlots, freeSectors, ghosts>>

Mounted ==
    /\ op = Scanning(NumSectors)
    /\ op' = Idle
    /\ UNCHANGED <<contacts, sectors, entries, freeSlots, freeSectors, ghosts>>

Next ==
    \/ \E p \in Phones :
          \/ AddContact(p) \/ (\E q \in Phones : UpdatePhone(p, q))
          \/ BeginAddMessage(p) \/ StartChat(p) \/ AppendMessage(p)
          \/ WriteNextSector(p) \/ PointToNext(p) \/ ExtendWithoutSector(p)
          \/ AddMessageFails(p) \/ (\E whole \in BOOLEAN : BeginRemove(p, whole))
    \/ RemoveSector \/ RemoveChatFails \/ RemoveChatEnds \/ RemoveContactEnds
    \/ PowerCut \/ ReconstructContacts \/ ScanSector \/ RemoveOrphan \/ OrphanRemoved
    \/ Mounted

Spec == Init /\ [][Next]_vars
-----------------------------------------------------------------------------
(* The card and the RAM state are what their C types hold, and a message's *)
(* sector is never above its capacity nor empty.                           *)
TypeOK ==
    /\ contacts \in [Slots -> SlotContents]
    /\ \A t \in Sectors :
          LET c == sectors[t]
          IN  /\ c.used \in BOOLEAN /\ c.slot \in Slots
              /\ c.prev \in Sectors \cup {End} /\ c.next \in Sectors \cup {End}
              /\ ToSet(c.msgs) \subseteq Messages
              /\ c.used <=> Len(c.msgs) \in 1 .. Capacity
    /\ entries \in [Phones -> Entries]
    /\ ToSet(freeSlots) \subseteq Slots /\ ToSet(freeSectors) \subseteq Sectors
    /\ op \in Ops
    /\ sent \in 0 .. MaxMessages
    /\ owner \in [Messages -> Phones \cup {None}]
    /\ \A p \in Phones : ToSet(kept[p]) \subseteq Messages
    /\ removing \subseteq Phones
    /\ gone \subseteq Messages
    /\ split \subseteq {"add", "remove", "extend"}

(* A cut that leaves a removal, or an extended chat, half done breaks more *)
(* than one of the properties (IntactOrRemoved, ListedDespiteAddCuts), and *)
(* so does an add that finds no sector (ListedWhenFull); the next ones are *)
(* about a database that has met none of these.  All other cuts are in,    *)
(* those of orphan removal too.                                            *)
Whole == op = Idle /\ split = {}

(* The list has each of these messages once, and in this order.            *)
HasInOrder(list, wanted) ==
    \A i \in DOMAIN wanted : \E k \in DOMAIN list :
        /\ list[k] = wanted[i]
        /\ \A j \in DOMAIN wanted, l \in DOMAIN list :
              list[l] = wanted[j] => (j < i => l < k) /\ (j = i => l = k)

ListsAcknowledged ==
    \A p \in Phones \ removing :
        Listing(p).ok /\ HasInOrder(Listing(p).list, kept[p])

(* A chat can be read to its end and lists every message whose add         *)
(* returned STRG_OK and whose removal has not begun, in the order of the   *)
(* adds, newest first (read_n_messages).                                   *)
AcknowledgedListed == Whole => ListsAcknowledged

(* The same when the sectors have run out: an add that finds none returns  *)
(* an error (write_next_message_sector), and loses nothing.                *)
ListedWhenFull == op = Idle /\ split \subseteq {"extend"} => ListsAcknowledged

(* The same when message adds have been cut too, at any write:             *)
(* test_database.cpp:977, "Cutting power at every write of a message add   *)
(* never loses earlier messages in the chat".                              *)
ListedDespiteAddCuts == op = Idle /\ split \subseteq {"add"} => ListsAcknowledged

(* A chat lists only messages sent to its own phone, whatever sectors and  *)
(* contact slots have been freed and allocated again -- while the database *)
(* is Whole.                                                               *)
ChatsNotMixed ==
    Whole => \A p \in Phones : \A m \in ToSet(Listing(p).list) : owner[m] = p

(* A message does not come back once the removal of its chat or contact    *)
(* has returned STRG_OK, while the database is Whole.                      *)
RemovedStaysRemoved ==
    Whole => \A p \in Phones : ToSet(Listing(p).list) \cap gone = {}

(* The hash entries are the card's contacts, one for one, and the contact  *)
(* allocator holds each other slot once.                                   *)
EntriesMatchCard ==
    Whole =>
        /\ \A p \in Phones : entries[p] # None => SlotsOf(p) = {entries[p].slot}
        /\ \A p \in Phones : entries[p] = None => SlotsOf(p) = {}
        /\ IsInjective(freeSlots)
        /\ ToSet(freeSlots) = {s \in Slots : ~contacts[s].used}

(* The message allocator holds each unused sector once, and no used one:   *)
(* of those that the scan has passed, while the database is mounted.       *)
SectorsAccounted ==
    LET passed == CASE op.kind = "off"    -> 0
                    [] op.kind = "scan"   -> op.at
                    [] op.kind = "orphan" -> op.start + 1
                    [] OTHER              -> NumSectors
    IN  /\ IsInjective(freeSectors)
        /\ ToSet(freeSectors) = {t \in Sectors : t < passed /\ ~sectors[t].used}

(* Every used message sector is part of a chat that can be read and        *)
(* removed: none is lost to a Whole database.                              *)
NoSectorLeaked ==
    Whole =>
        \A t \in Sectors : sectors[t].used =>
            \E p \in Phones : /\ entries[p] # None
                              /\ Contains(Chain(entries[p].latest), t)

(* test_database.cpp:944: a power cut during the removal of a contact      *)
(* leaves either the contact and its chat intact or fully removed after    *)
(* the reboot.                                                             *)
IntactOrRemoved ==
    op = Idle =>
        \A p \in removing : \/ ToSet(kept[p]) \subseteq ToSet(Listing(p).list)
                            \/ ToSet(kept[p]) \cap ToSet(Listing(p).list) = {}

(* Any page of a chat is that slice of the whole chat, and a page that     *)
(* starts beyond its oldest message is refused (find_message_n_index).     *)
PagesAreSlices ==
    Whole =>
        \A p \in Phones :
            LET all == Listing(p).list
            IN  \A start \in 0 .. Len(all), n \in 1 .. Capacity + 2 :
                    all # <<>> =>
                        LET page == GetChat(entries[p].latest, start, n)
                            last == IF start + n < Len(all) THEN start + n ELSE Len(all)
                        IN  IF start < Len(all)
                            THEN page.ok /\ page.list = SubSeq(all, start + 1, last)
                            ELSE ~page.ok
=============================================================================
