------------------------------- MODULE Mount -------------------------------
(***************************************************************************)
(* How a database comes up (database_init, database_format and             *)
(* database_mount in database.c, superheader.c): the superheader decides   *)
(* whether the card is mounted, formatted or refused.  A format writes one *)
(* sector after another and may be cut, or fail, at each of them; a mount  *)
(* reads the usage bitmap and fills the two allocators from it.            *)
(*                                                                         *)
(* The rollback of an active journal is in Journal, the contents of chats, *)
(* rings and tables in ChatStore, RingHistory and HashTable; a call here   *)
(* uses or frees a contact slot or a message sector, as a whole.           *)
(***************************************************************************)
EXTENDS UsageBitmap

CONSTANTS
    RingSectors,    \* the sectors of both histories
    Trailer,        \* what the checksum words read as, taken for bits
    MaxCalls,       \* bound: calls after each boot or format
    Torn,           \* a sector whose checksum does not match
    Lost            \* a contact sector in use that fails its checksum

VARIABLES
    card,           \* card: superheader, journal header, bitmap and rings
    slots,          \* card: the used slots in each contact sector's header
    usageBitmap,    \* RAM: usage_bitmap
    contactFree,    \* RAM: contact_allocator's stack
    messageFree,    \* RAM: message_allocator's stack
    op,             \* what the database is doing
    calls,          \* the calls since then
    kept,           \* the data sectors that the database's calls left in use
    halfWiped       \* a format of a mountable card has ended before its end

(* A torn sector is told from every content.  The code has two rings of    *)
(* 5000 sectors.                                                           *)
ASSUME MountAssumption ==
    /\ RingSectors \in Nat /\ MaxCalls \in Nat
    /\ Torn \notin {"good", "outdated", "blank", "other", "valid", "stale", "empty", "entries"}
    /\ \A used \in SUBSET (0 .. ContactSectors + MessageSectors - 1) : used # Torn
    /\ \A used \in SUBSET (0 .. ContactCapacity - 1) : used # Lost

vars == <<card, slots, usageBitmap, contactFree, messageFree, op, calls, kept, halfWiped>>
ram  == <<usageBitmap, contactFree, messageFree>>

Off     == [kind |-> "off"]
Refused == [kind |-> "refused"]
On      == [kind |-> "on"]
FormattingAt(n) == [kind |-> "format", at |-> n]

Superheader   == <<"superheader", 0>>
JournalHeader == <<"journal", 0>>
BitmapSector(s) == <<"bitmap", s>>
RingSector(r)   == <<"ring", r>>

(* Mutant: the superheader first.                                          *)
FormatOrderHeaderFirst ==
    <<Superheader, JournalHeader>>
        \o [k \in 1 .. BitmapSectors |-> BitmapSector(k - 1)]
        \o [k \in 1 .. RingSectors |-> RingSector(k - 1)]

(* The sectors that database_format writes, in its order.                  *)
FormatOrder ==
    <<JournalHeader>>
        \o [k \in 1 .. BitmapSectors |-> BitmapSector(k - 1)]
        \o [k \in 1 .. RingSectors |-> RingSector(k - 1)]
        \o <<Superheader>>

(* journal_header_init, init_usage_bitmap, clear_ring_buffer and           *)
(* superheader_init: what they write to a sector.                          *)
Formatted(s) ==
    CASE s[1] = "superheader" -> "good"
      [] s[1] = "journal"     -> "valid"
      [] s[1] = "bitmap"      -> {}
      [] s[1] = "ring"        -> "empty"

DataSectors == 0 .. ContactSectors + MessageSectors - 1
InSector(s) == {i \in DataSectors : i \div BitsPerSector = s}
Positions(k) == {p \in 0 .. ContactCapacity - 1 : k * ContactCapacity + p < ContactSlots}

(* The array in RAM, of a card on which these sectors are in use.          *)
MapOf(inUse) ==
    [w \in MapWords |->
        IF IsCrcWord(w) THEN Trailer ELSE {b \in Bits : WordToIndex(w) + b \in inUse}]

(* A mountable card with any content, or one that was never a database's,  *)
(* was outdated, or whose superheader went bad.                            *)
Init ==
    /\ slots \in {f \in [0 .. ContactSectors - 1 -> (SUBSET (0 .. ContactCapacity - 1)) \cup {Lost}] :
                    \A k \in DOMAIN f : f[k] \in (SUBSET Positions(k)) \cup {Lost}}
    /\ \E messages \in SUBSET (0 .. MessageSectors - 1), header \in {"good", "outdated", "blank", "other", Torn} :
          LET inUse == {k \in DOMAIN slots : slots[k] # {}} \cup {ContactSectors + m : m \in messages}
          IN  /\ kept = IF header \in {"blank", "other"} THEN {} ELSE inUse
              /\ card = [s \in Range(FormatOrder) |->
                            CASE s = Superheader   -> header
                              [] s[1] = "bitmap"   -> inUse \cap InSector(s[2])
                              [] s = JournalHeader -> IF header = "blank" THEN "blank" ELSE "valid"
                              [] OTHER -> IF header \in {"blank", "other"} THEN "stale" ELSE "entries"]
    /\ usageBitmap = MapOf({}) /\ contactFree = <<>> /\ messageFree = <<>>
    /\ op = Off
    /\ calls = 0
    /\ halfWiped = FALSE

-----------------------------------------------------------------------------
(* get_superheader_status: a checksum that does not match and a blank      *)
(* magic, or a magic of something else, are uninitialised.                 *)
Status(header) ==
    CASE header = Torn -> "corrupted"
      [] header \in {"blank", "other"} -> "uninitialised"
      [] OTHER -> header

(* database_init                                                           *)
BootFormats ==
    /\ op = Off /\ Status(card[Superheader]) = "uninitialised"
    /\ op' = FormattingAt(1)
    /\ UNCHANGED <<card, slots, ram, calls, kept, halfWiped>>

BootRefuses ==
    /\ op = Off /\ Status(card[Superheader]) \in {"corrupted", "outdated"}
    /\ op' = Refused
    /\ UNCHANGED <<card, slots, ram, calls, kept, halfWiped>>

Readable == card[JournalHeader] # Torn /\ \A s \in 0 .. BitmapSectors - 1 : card[BitmapSector(s)] # Torn

(* database_mount: journal_init, read_usage_bitmap, and the reconstruction *)
(* of the allocators.                                                      *)
BootMounts ==
    /\ op = Off /\ Status(card[Superheader]) = "good" /\ Readable
    /\ card' = [card EXCEPT ![JournalHeader] = "valid"]
    /\ usageBitmap' = MapOf(UNION {card[BitmapSector(s)] : s \in 0 .. BitmapSectors - 1})
    /\ contactFree' = ContactsFreed(usageBitmap', slots, Lost)
    /\ messageFree' = MessagesFreed(usageBitmap')
    /\ op' = On
    /\ UNCHANGED <<slots, calls, kept, halfWiped>>

(* history_init fails if its search comes to a sector that cannot be read. *)
RingReadable == \A r \in 0 .. RingSectors - 1 : card[RingSector(r)] # Torn

MountFails ==
    /\ op = Off /\ Status(card[Superheader]) = "good"
    /\ ~(Readable /\ RingReadable)
    /\ op' = Refused
    /\ UNCHANGED <<card, slots, ram, calls, kept, halfWiped>>

Forgotten == usageBitmap' = MapOf({}) /\ contactFree' = <<>> /\ messageFree' = <<>>

(* The client calls database_format.  (What RAM holds is not read until    *)
(* the format has ended.)                                                  *)
AskFormat ==
    /\ op \in {On, Refused}
    /\ op' = FormattingAt(1)
    /\ Forgotten
    /\ calls' = 0
    /\ UNCHANGED <<card, slots, kept, halfWiped>>

Formatting == op.kind = "format"

FormatWrites ==
    /\ Formatting /\ op.at < Len(FormatOrder)
    /\ card' = [card EXCEPT ![FormatOrder[op.at]] = Formatted(FormatOrder[op.at])]
    /\ op' = FormattingAt(op.at + 1)
    /\ UNCHANGED <<slots, ram, calls, kept, halfWiped>>

(* The last sector; then free_list_init fills both allocators.             *)
FormatEnds ==
    /\ Formatting /\ op.at = Len(FormatOrder)
    /\ card' = [card EXCEPT ![FormatOrder[op.at]] = Formatted(FormatOrder[op.at])]
    /\ usageBitmap' = MapOf({})
    /\ contactFree' = FreeRange(0, ContactSlots, ContactSlots)
    /\ messageFree' = FreeRange(0, MessageSectors, MessageSectors)
    /\ op' = On
    /\ kept' = {} /\ halfWiped' = FALSE
    /\ UNCHANGED <<slots, calls>>

(* A cut tears the sector being written, if its content was to change.  A  *)
(* write that fails ends the format.                                       *)
FormatFails ==
    /\ Formatting
    /\ op' = Refused
    /\ halfWiped' = (halfWiped \/ Status(card[Superheader]) = "good")
    /\ UNCHANGED <<card, slots, ram, calls, kept>>

AfterCut(s) == {card[s], Formatted(s)} \cup IF card[s] = Formatted(s) THEN {} ELSE {Torn}

PowerCut ==
    /\ op # Off
    /\ IF Formatting
       THEN /\ \E content \in AfterCut(FormatOrder[op.at]) :
                  card' = [card EXCEPT ![FormatOrder[op.at]] = content]
            /\ IF op.at = Len(FormatOrder) /\ card'[Superheader] = "good"
               THEN kept' = {} /\ halfWiped' = FALSE
               ELSE /\ halfWiped' = (halfWiped \/ Status(card[Superheader]) = "good")
                    /\ UNCHANGED kept
       ELSE UNCHANGED <<card, kept, halfWiped>>
    /\ Forgotten
    /\ calls' = 0
    /\ op' = Off
    /\ UNCHANGED slots

-----------------------------------------------------------------------------
(* update_usage_bit, on the card and in RAM.                               *)
SetUsage(i, used) ==
    /\ usageBitmap' = Updated(usageBitmap, i, used)
    /\ LET s == BitmapSector(i \div BitsPerSector)
       IN  card' = [card EXCEPT ![s] = {j \in InSector(s[2]) : CheckBit(usageBitmap', j)}]
    /\ kept' = IF used THEN kept \cup {i} ELSE kept \ {i}

Call ==
    /\ op = On /\ calls < MaxCalls
    /\ calls' = calls + 1
    /\ UNCHANGED <<op, halfWiped>>

(* free_list_allocate and write_contact                                    *)
AddContact ==
    /\ Call
    /\ contactFree # <<>>
    /\ LET s == Last(contactFree)
           k == s \div ContactCapacity
       IN  /\ SetUsage(k, TRUE)
           /\ slots' = [slots EXCEPT ![k] = (IF CheckBit(usageBitmap, k) THEN @ ELSE {})
                                               \cup {s % ContactCapacity}]
    /\ contactFree' = Front(contactFree)
    /\ UNCHANGED messageFree

(* remove_contact: of the last contact of a sector only the bit changes.   *)
RemoveContact(s) ==
    LET k == s \div ContactCapacity
    IN  /\ Call
        /\ CheckBit(usageBitmap, k) /\ slots[k] # Lost /\ s % ContactCapacity \in slots[k]
        /\ IF slots[k] = {s % ContactCapacity}
           THEN SetUsage(k, FALSE) /\ UNCHANGED slots
           ELSE /\ slots' = [slots EXCEPT ![k] = @ \ {s % ContactCapacity}]
                /\ UNCHANGED <<card, usageBitmap, kept>>
        /\ contactFree' = Append(contactFree, s)
        /\ UNCHANGED messageFree

(* A message's new sector, and remove_message_sector.                      *)
AddSector ==
    /\ Call
    /\ messageFree # <<>>
    /\ SetUsage(ContactSectors + Last(messageFree), TRUE)
    /\ messageFree' = Front(messageFree)
    /\ UNCHANGED <<slots, contactFree>>

RemoveSector(m) ==
    /\ Call
    /\ CheckBit(usageBitmap, ContactSectors + m)
    /\ SetUsage(ContactSectors + m, FALSE)
    /\ messageFree' = Append(messageFree, m)
    /\ UNCHANGED <<slots, contactFree>>

Next ==
    \/ BootFormats \/ BootRefuses \/ BootMounts \/ MountFails
    \/ AskFormat \/ FormatWrites \/ FormatEnds \/ FormatFails \/ PowerCut
    \/ AddContact \/ AddSector
    \/ (\E s \in 0 .. ContactSlots - 1 : RemoveContact(s))
    \/ (\E m \in 0 .. MessageSectors - 1 : RemoveSector(m))

Spec == Init /\ [][Next]_vars
-----------------------------------------------------------------------------
InUse == {i \in DataSectors : CheckBit(usageBitmap, i)}

(* A database that is up has what its calls have left on the card and      *)
(* nothing of another's: a boot wipes no card that was ever formatted, and *)
(* mounts none whose format was interrupted -- unless the interrupted      *)
(* format was one that a client asked for on a mountable card.             *)
CardIsAsLeft ==
    op = On /\ ~halfWiped =>
        /\ InUse = kept
        /\ card[Superheader] = "good" /\ card[JournalHeader] = "valid"
        /\ \A s \in 0 .. BitmapSectors - 1 : card[BitmapSector(s)] = kept \cap InSector(s)
        /\ \A r \in 0 .. RingSectors - 1 : card[RingSector(r)] \in {"empty", "entries"}

(* The allocators have each slot and each sector that is not in use, once, *)
(* whatever a reboot found on the card: the slots that the last contact    *)
(* sector lacks are never handed out, nor are those of a sector that       *)
(* cannot be read.                                                         *)
AllocatorsExact ==
    op = On =>
        /\ IsInjective(contactFree) /\ IsInjective(messageFree)
        /\ Range(contactFree) =
              {s \in 0 .. ContactSlots - 1 :
                  LET k == s \div ContactCapacity
                  IN  k \in InUse => slots[k] # Lost /\ s % ContactCapacity \notin slots[k]}
        /\ Range(messageFree) = {m \in 0 .. MessageSectors - 1 : ContactSectors + m \notin InUse}

(* Every scan finds the sectors in use, in order, across words, checksums  *)
(* and the ends of regions.  (get_next_bit looks at all of its last word,  *)
(* so a result past its limit means that there is none up to it.)          *)
ScansExact ==
    op = On =>
        /\ \A i, j \in DataSectors : i <= j =>
              LET between == {x \in InUse : x \in i .. j}
                  next    == NextBit(usageBitmap, i, j)
              IN  /\ IF between # {} THEN next = Least(between) ELSE next = NoBit \/ next > j
                  /\ PrevBit(usageBitmap, i, j) = IF between = {} THEN NoBit ELSE Greatest(between)
        /\ \A total \in {n + 1 : n \in DataSectors} : \A cur \in {NoBit} \cup {x \in InUse : x < total} :
              LET later   == {x \in InUse : x > cur}
                  earlier == {x \in InUse : x < (IF cur = NoBit THEN total ELSE cur)}
                  next    == IteratorNext(usageBitmap, total, cur)
              IN  /\ IF later \cap 0 .. total - 1 # {} THEN next = Least(later)
                     ELSE next = NoBit \/ next >= total
                  /\ IteratorPrev(usageBitmap, total, cur) =
                         IF earlier = {} THEN NoBit ELSE Greatest(earlier)
        /\ (\A k \in 0 .. ContactSectors - 1 : slots[k] # Lost) =>
              LET all == Ascending({s \in 0 .. ContactSlots - 1 :
                                       /\ s \div ContactCapacity \in InUse
                                       /\ s % ContactCapacity \in slots[s \div ContactCapacity]})
              IN  \A start, n \in 0 .. ContactSlots :
                     ContactsByUsage(usageBitmap, slots, start, n) =
                        SubSeq(all, start + 1, IF start + n < Len(all) THEN start + n ELSE Len(all))
=============================================================================
