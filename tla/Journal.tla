------------------------------ MODULE Journal ------------------------------
(***************************************************************************)
(* The rollback journal (journal.c) and every operation that writes under  *)
(* its protection (contact.c, message.c, message_history.c,                *)
(* call_history.c), one sector write per step, with power cuts, torn       *)
(* sector writes, failing writes and the recovery that runs at boot.       *)
(*                                                                         *)
(* The card has one journal entry: a header, the old content of the data   *)
(* sector being changed and the old usage bitmap sector.  A transaction    *)
(* copies both, writes the header as ACTIVE, changes the bitmap and the    *)
(* data sector in place and writes the header as COMMITTED.  A boot that   *)
(* finds the header ACTIVE writes the copies back.                         *)
(***************************************************************************)
EXTENDS Naturals, FiniteSets

CONSTANTS
    ContactSectors,   \* data sectors of the contact region
    MessageSectors,   \* data sectors of the message region
    HistorySectors,   \* data sectors of the message and call history rings
    ContactValues,    \* contents of a contact sector with a contact in it
    MessageValues,    \* contents of a message sector with a message in it
    HistoryValues,    \* contents of a history sector with an entry in it
    BitmapSectors,    \* sectors of the usage bitmap
    BitmapOf(_),      \* the bitmap sector that holds a data sector's bit
    Blank,            \* a zeroed sector: memset, create_new_message_sector
    Torn,             \* a sector whose CRC trailer does not match
    Free,             \* in Stored: a sector whose usage bit is clear
    NoTxn,            \* no transaction is running
    NoHeader,         \* the zeroed header of a Journal struct at power on
    NoWrite,          \* a transaction that leaves its data sector alone
    TornHeader,       \* TRUE if a power cut can tear the header sector too
    MayFail,          \* TRUE if the storage driver can report a failed write
    FailStop          \* TRUE if a card that failed fails until power is cut

Allocated == ContactSectors \cup MessageSectors
Sectors   == Allocated \cup HistorySectors

ContentsOf(s) == IF s \in ContactSectors THEN ContactValues
                 ELSE IF s \in MessageSectors THEN MessageValues
                 ELSE HistoryValues

Contents == ContactValues \cup MessageValues \cup HistoryValues \cup {Blank, Torn}

ASSUME SectorsAssumption ==
    /\ ContactSectors # {} /\ ContactSectors \cap MessageSectors = {}
    /\ Allocated \cap HistorySectors = {}
    /\ \A s \in Allocated : BitmapOf(s) \in BitmapSectors

ASSUME ContentsAssumption ==
    LET Values == ContactValues \cup MessageValues \cup HistoryValues
    IN  /\ {Blank, Torn, Free, NoWrite} \cap Values = {}
        /\ Blank # Torn /\ Blank # Free /\ Blank # NoWrite
        /\ Torn # Free /\ Torn # NoWrite /\ Free # NoWrite

ASSUME SwitchesAssumption ==
    /\ TornHeader \in BOOLEAN
    /\ MayFail \in BOOLEAN
    /\ FailStop \in BOOLEAN

(* JRNL_TYPE.  Only these types journal a bitmap sector.                   *)
BitmapTypes == {"CONTACT", "MESSAGE", "REMOVE"}
Types == BitmapTypes \cup {"HISTORY"}

(* A usage bitmap sector: the data sectors whose bit is set, and its CRC.  *)
Bitmaps == [ok : BOOLEAN, used : SUBSET Allocated]
TornBitmap == [ok |-> FALSE, used |-> {}]

Headers == [state : {"EMPTY", "ACTIVE", "COMMITTED"}, type : Types, sector : Sectors]
EmptyHeader == [state |-> "EMPTY", type |-> "CONTACT",
                sector |-> CHOOSE s \in ContactSectors : TRUE]

(* A transaction: what journal_add saves and what the operation writes.    *)
Txns == [type : Types, sector : Sectors, bit : {"set", "clear", "keep"},
         old : Contents, new : Contents \cup {NoWrite}]

ASSUME SentinelsAssumption ==
    NoTxn \notin Txns /\ NoHeader \notin Headers /\ Torn \notin Headers

VARIABLES
    hdr,       \* card: journal header sector
    jcontent,  \* card: journal copy of a data sector
    jbitmap,   \* card: journal copy of a usage bitmap sector
    data,      \* card: the data region
    bitmap,    \* card: the usage bitmap
    rhdr,      \* RAM: journal->header
    rbitmap,   \* RAM: usage_bitmap
    txn,       \* RAM: the transaction in progress
    pc,        \* the sector write (or boot step) that comes next
    result,    \* what the last operation returned
    failing    \* the driver reports every write as failed

card == <<hdr, jcontent, jbitmap, data, bitmap>>
ram  == <<rhdr, rbitmap, txn>>
vars == <<card, ram, pc, result, failing>>

(* The writes of a transaction, then those of a rollback.                  *)
TxnWrites  == {"j_bitmap", "j_content", "j_header", "bit", "data", "free", "free_again"}
BootWrites == {"rb_content", "rb_bitmap", "rb_free"}
Running    == TxnWrites \cup {"idle"}

-----------------------------------------------------------------------------
(* database_format has run: empty bitmap, cleared rings, an EMPTY header.  *)
(* The rest of the data region holds whatever was on the card.             *)
Init ==
    /\ hdr = EmptyHeader
    /\ jcontent = Torn
    /\ jbitmap = TornBitmap
    /\ data = [s \in Sectors |-> IF s \in HistorySectors THEN Blank ELSE Torn]
    /\ bitmap = [b \in BitmapSectors |-> [ok |-> TRUE, used |-> {}]]
    /\ rhdr = NoHeader
    /\ rbitmap = [b \in BitmapSectors |-> TornBitmap]
    /\ txn = NoTxn
    /\ pc = "off"
    /\ result = "none"
    /\ failing = FALSE

(* check_usage_bit: the RAM bitmap decides whether a sector is in use.     *)
InUse(s) == s \in rbitmap[BitmapOf(s)].used

(* Mutants of After: the header is written before the copies; the header   *)
(* is released before the data sector is written.                          *)
AfterHeaderFirst(w, t) ==
    CASE w = "begin"     -> "j_header"
      [] w = "j_header"  -> IF t.type \in BitmapTypes THEN "j_bitmap" ELSE "j_content"
      [] w = "j_bitmap" /\ t.type # "REMOVE" -> "j_content"
      [] w \in {"j_bitmap", "j_content"} -> IF t.bit = "keep" THEN "data" ELSE "bit"
      [] w = "bit"       -> IF t.new = NoWrite THEN "free" ELSE "data"
      [] w = "data"      -> "free"
      [] OTHER           -> "idle"

AfterFreeBeforeData(w, t) ==
    CASE w = "begin"     -> IF t.type \in BitmapTypes THEN "j_bitmap" ELSE "j_content"
      [] w = "j_bitmap"  -> IF t.type = "REMOVE" THEN "j_header" ELSE "j_content"
      [] w = "j_content" -> "j_header"
      [] w = "j_header"  -> IF t.bit = "keep" THEN "free" ELSE "bit"
      [] w = "bit"       -> "free"
      [] w = "free"      -> IF t.new = NoWrite THEN "idle" ELSE "data"
      [] OTHER           -> "idle"

(* The order of an operation's sector writes, "begin" being the call.      *)
After(w, t) ==
    CASE w = "begin"     -> IF t.type \in BitmapTypes THEN "j_bitmap" ELSE "j_content"
      [] w = "j_bitmap"  -> IF t.type = "REMOVE" THEN "j_header" ELSE "j_content"
      [] w = "j_content" -> "j_header"
      [] w = "j_header"  -> IF t.bit = "keep" THEN "data" ELSE "bit"
      [] w = "bit"       -> IF t.new = NoWrite THEN "free" ELSE "data"
      [] w = "data"      -> "free"
      [] w = "free"      -> IF t.type = "CONTACT" /\ t.bit = "set" THEN "free_again" ELSE "idle"
      [] w = "free_again" -> "idle"

(* An operation calls journal_add, which first builds the RAM header.      *)
Begin(t) ==
    /\ pc = "idle"
    /\ txn' = t
    /\ rhdr' = [state |-> "ACTIVE", type |-> t.type, sector |-> t.sector]
    /\ pc' = After("begin", t)
    /\ result' = "none"
    /\ UNCHANGED <<card, rbitmap, failing>>

(* Reading a used sector must pass its CRC or the operation returns before *)
(* it journals; a sector not in use is rebuilt from a blank one.           *)
Readable(s) == data[s] # Torn

WriteContact(s, v) ==
    /\ InUse(s) => Readable(s)
    /\ Begin([type |-> "CONTACT", sector |-> s, bit |-> "set",
              old |-> IF InUse(s) THEN data[s] ELSE Blank, new |-> v])

(* The last contact of a sector clears its bit, any other is cleared in it. *)
RemoveContact(s) ==
    /\ InUse(s) /\ Readable(s)
    /\ \/ Begin([type |-> "CONTACT", sector |-> s, bit |-> "clear",
                 old |-> data[s], new |-> NoWrite])
       \/ \E v \in ContactValues :
             Begin([type |-> "CONTACT", sector |-> s, bit |-> "keep",
                    old |-> data[s], new |-> v])

(* write_message appends to a chat's sector and sets its bit again.        *)
WriteMessage(s, v) ==
    /\ InUse(s) /\ Readable(s)
    /\ Begin([type |-> "MESSAGE", sector |-> s, bit |-> "set",
              old |-> data[s], new |-> v])

(* write_new_message_sector, and the first half of                         *)
(* write_next_message_sector: the journaled content is a blank sector.     *)
NewMessageSector(s, v) ==
    /\ ~InUse(s)
    /\ Begin([type |-> "MESSAGE", sector |-> s, bit |-> "set",
              old |-> Blank, new |-> v])

(* The second half: the full sector gets its next pointer.                 *)
PointToNext(s, v) ==
    /\ InUse(s) /\ Readable(s)
    /\ Begin([type |-> "MESSAGE", sector |-> s, bit |-> "keep",
              old |-> data[s], new |-> v])

RemoveMessageSector(s) ==
    /\ InUse(s) /\ Readable(s)
    /\ Begin([type |-> "MESSAGE", sector |-> s, bit |-> "clear",
              old |-> data[s], new |-> NoWrite])

(* remove_message_bit saves no content: the data sector is not written.    *)
RemoveMessageBit(s) ==
    /\ InUse(s) /\ Readable(s)
    /\ Begin([type |-> "REMOVE", sector |-> s, bit |-> "clear",
              old |-> Blank, new |-> NoWrite])

(* message_history_add and call_history_add, one sector per transaction.   *)
HistoryAdd(s, v) ==
    /\ Readable(s)
    /\ Begin([type |-> "HISTORY", sector |-> s, bit |-> "keep",
              old |-> data[s], new |-> v])

Operation ==
    \/ \E s \in ContactSectors :
          \/ \E v \in ContactValues : WriteContact(s, v)
          \/ RemoveContact(s)
    \/ \E s \in MessageSectors :
          \/ \E v \in MessageValues :
                WriteMessage(s, v) \/ NewMessageSector(s, v) \/ PointToNext(s, v)
          \/ RemoveMessageSector(s)
          \/ RemoveMessageBit(s)
    \/ \E s \in HistorySectors : \E v \in HistoryValues : HistoryAdd(s, v)

-----------------------------------------------------------------------------
(* The sector writes of a transaction, each of which may fail instead.     *)

Step(w) == /\ pc = w
           /\ ~failing
           /\ pc' = After(w, txn)
           /\ UNCHANGED failing

(* The operation returns STRG_OK with its last write.                      *)
ReturnIfDone == IF pc' = "idle" THEN txn' = NoTxn /\ result' = "ok"
                                ELSE UNCHANGED <<txn, result>>

JournalBitmap ==
    /\ Step("j_bitmap")
    /\ jbitmap' = rbitmap[BitmapOf(txn.sector)]
    /\ UNCHANGED <<hdr, jcontent, data, bitmap, ram, result>>

(* Mutant: the sector is saved after the operation has changed its buffer. *)
JournalContentSavesNew ==
    /\ Step("j_content")
    /\ jcontent' = txn.new
    /\ UNCHANGED <<hdr, jbitmap, data, bitmap, ram, result>>

JournalContent ==
    /\ Step("j_content")
    /\ jcontent' = txn.old
    /\ UNCHANGED <<hdr, jbitmap, data, bitmap, ram, result>>

JournalHeader ==
    /\ Step("j_header")
    /\ hdr' = rhdr
    /\ UNCHANGED <<jcontent, jbitmap, data, bitmap, ram, result>>

(* update_usage_bit changes RAM, restamps the CRC and writes the sector.   *)
WithBit(used, t) == IF t.bit = "set" THEN used \cup {t.sector} ELSE used \ {t.sector}

UpdateUsageBit ==
    /\ Step("bit")
    /\ LET b == BitmapOf(txn.sector)
       IN  rbitmap' = [rbitmap EXCEPT ![b] = [ok |-> TRUE, used |-> WithBit(@.used, txn)]]
           /\ bitmap' = [bitmap EXCEPT ![b] = rbitmap'[b]]
    /\ UNCHANGED <<hdr, jcontent, jbitmap, data, rhdr, txn, result>>

WriteData ==
    /\ Step("data")
    /\ data' = [data EXCEPT ![txn.sector] = txn.new]
    /\ UNCHANGED <<hdr, jcontent, jbitmap, bitmap, ram, result>>

(* journal_free; write_contact calls it twice.                             *)
JournalFree ==
    /\ Step("free") \/ Step("free_again")
    /\ rhdr' = [rhdr EXCEPT !.state = "COMMITTED"]
    /\ hdr' = rhdr'
    /\ ReturnIfDone
    /\ UNCHANGED <<jcontent, jbitmap, data, bitmap, rbitmap>>

(* Mutant: update_usage_bit keeps its RAM change when its write failed.    *)
WriteFailsKeepsBit ==
    /\ pc \in TxnWrites
    /\ MayFail \/ failing
    /\ failing' = FailStop
    /\ rhdr' = IF pc \in {"free", "free_again"} THEN [rhdr EXCEPT !.state = "COMMITTED"]
                                                ELSE rhdr
    /\ rbitmap' = IF pc = "bit"
                  THEN [rbitmap EXCEPT ![BitmapOf(txn.sector)].used = WithBit(@, txn)]
                  ELSE rbitmap
    /\ pc' = "idle"
    /\ txn' = NoTxn
    /\ result' = "fail"
    /\ UNCHANGED card

(* The driver reports a failed write.  The sector keeps its content,       *)
(* update_usage_bit takes its RAM change back, journal_free has already    *)
(* marked the RAM header, and the operation returns STRG_FAIL.             *)
WriteFails ==
    /\ pc \in TxnWrites
    /\ MayFail \/ failing
    /\ failing' = FailStop
    /\ rhdr' = IF pc \in {"free", "free_again"} THEN [rhdr EXCEPT !.state = "COMMITTED"]
                                                ELSE rhdr
    /\ pc' = "idle"
    /\ txn' = NoTxn
    /\ result' = "fail"
    /\ UNCHANGED <<card, rbitmap>>

-----------------------------------------------------------------------------
(* Boot: get_journal_status, then journal_rollback if the header is        *)
(* ACTIVE, then read_usage_bitmap.                                         *)

PowerOn ==
    /\ pc = "off"
    /\ IF hdr = Torn
       THEN pc' = "refused" /\ UNCHANGED rhdr      \* JRNL_CORRUPTED
       ELSE /\ rhdr' = hdr
            /\ pc' = IF hdr.state # "ACTIVE" THEN "load"
                     ELSE IF hdr.type = "REMOVE" THEN "rb_bitmap" ELSE "rb_content"
    /\ UNCHANGED <<card, rbitmap, txn, result, failing>>

(* Mutant: journal_rollback restores the data sector and not the bitmap.   *)
RollbackContentOnly ==
    /\ pc = "rb_content" /\ ~failing
    /\ IF jcontent = Torn
       THEN pc' = "refused" /\ UNCHANGED data
       ELSE data' = [data EXCEPT ![rhdr.sector] = jcontent] /\ pc' = "rb_free"
    /\ UNCHANGED <<hdr, jcontent, jbitmap, bitmap, ram, result, failing>>

(* A copy that fails its CRC aborts the rollback, and the mount with it.   *)
RollbackContent ==
    /\ pc = "rb_content" /\ ~failing
    /\ IF jcontent = Torn
       THEN pc' = "refused" /\ UNCHANGED data
       ELSE /\ data' = [data EXCEPT ![rhdr.sector] = jcontent]
            /\ pc' = IF rhdr.type = "HISTORY" THEN "rb_free" ELSE "rb_bitmap"
    /\ UNCHANGED <<hdr, jcontent, jbitmap, bitmap, ram, result, failing>>

RollbackBitmap ==
    /\ pc = "rb_bitmap" /\ ~failing
    /\ IF ~jbitmap.ok
       THEN pc' = "refused" /\ UNCHANGED bitmap
       ELSE /\ bitmap' = [bitmap EXCEPT ![BitmapOf(rhdr.sector)] = jbitmap]
            /\ pc' = "rb_free"
    /\ UNCHANGED <<hdr, jcontent, jbitmap, data, ram, result, failing>>

(* Mutant: journal_rollback does not call journal_free.                    *)
RollbackWithoutFree ==
    /\ pc = "rb_free" /\ ~failing
    /\ pc' = "load"
    /\ UNCHANGED <<card, ram, result, failing>>

RollbackFree ==
    /\ pc = "rb_free" /\ ~failing
    /\ rhdr' = [rhdr EXCEPT !.state = "COMMITTED"]
    /\ hdr' = rhdr'
    /\ pc' = "load"
    /\ UNCHANGED <<jcontent, jbitmap, data, bitmap, rbitmap, txn, result, failing>>

(* A rollback write that fails makes journal_init, and the mount, fail.    *)
RollbackFails ==
    /\ pc \in BootWrites
    /\ MayFail
    /\ failing' = FailStop
    /\ pc' = "refused"
    /\ UNCHANGED <<card, ram, result>>

ReadBitmap ==
    /\ pc = "load"
    /\ IF \A b \in BitmapSectors : bitmap[b].ok
       THEN pc' = "idle" /\ rbitmap' = bitmap
       ELSE pc' = "refused" /\ UNCHANGED rbitmap
    /\ UNCHANGED <<card, rhdr, txn, result, failing>>

-----------------------------------------------------------------------------
(* Power is cut.  The sector being written then may be left torn: neither  *)
(* its old nor its new content.  RAM is lost.                              *)

TearSector ==
    CASE pc = "j_bitmap"  -> jbitmap' = TornBitmap /\ UNCHANGED <<hdr, jcontent, data, bitmap>>
      [] pc = "j_content" -> jcontent' = Torn /\ UNCHANGED <<hdr, jbitmap, data, bitmap>>
      [] pc \in {"data", "rb_content"} ->
            /\ data' = [data EXCEPT ![rhdr.sector] = Torn]
            /\ UNCHANGED <<hdr, jcontent, jbitmap, bitmap>>
      [] pc \in {"bit", "rb_bitmap"} ->
            /\ bitmap' = [bitmap EXCEPT ![BitmapOf(rhdr.sector)] = TornBitmap]
            /\ UNCHANGED <<hdr, jcontent, jbitmap, data>>
      [] pc \in {"j_header", "free", "free_again", "rb_free"} ->
            /\ TornHeader
            /\ hdr' = Torn
            /\ UNCHANGED <<jcontent, jbitmap, data, bitmap>>
      [] OTHER -> FALSE

PowerCut ==
    /\ pc # "off"
    /\ \/ UNCHANGED card
       \/ ~failing /\ TearSector
    /\ rhdr' = NoHeader
    /\ rbitmap' = [b \in BitmapSectors |-> TornBitmap]
    /\ txn' = NoTxn
    /\ pc' = "off"
    /\ result' = "none"
    /\ failing' = FALSE

-----------------------------------------------------------------------------
Transaction == JournalBitmap \/ JournalContent \/ JournalHeader \/ UpdateUsageBit
               \/ WriteData \/ JournalFree \/ WriteFails

Boot == PowerOn \/ RollbackContent \/ RollbackBitmap \/ RollbackFree
        \/ RollbackFails \/ ReadBitmap

Next == Operation \/ Transaction \/ Boot \/ PowerCut

Spec == Init /\ [][Next]_vars

-----------------------------------------------------------------------------
(***************************************************************************)
(* What the card durably holds: the card as a boot would leave it.         *)
(***************************************************************************)

Active == hdr # Torn /\ hdr.state = "ACTIVE"

RecoveredData ==
    IF Active /\ hdr.type # "REMOVE" THEN [data EXCEPT ![hdr.sector] = jcontent] ELSE data

RecoveredBitmap ==
    IF Active /\ hdr.type \in BitmapTypes
    THEN [bitmap EXCEPT ![BitmapOf(hdr.sector)] = jbitmap] ELSE bitmap

Stored == [s \in Sectors |->
             IF s \in Allocated /\ s \notin RecoveredBitmap[BitmapOf(s)].used
             THEN Free ELSE RecoveredData[s]]

-----------------------------------------------------------------------------
(* Every variable holds a value of its type: among others no header names  *)
(* a sector outside the data region and a transaction exists exactly while *)
(* one of its writes is due.                                               *)
TypeOK ==
    /\ hdr \in Headers \cup {Torn}
    /\ jcontent \in Contents
    /\ jbitmap \in Bitmaps
    /\ data \in [Sectors -> Contents]
    /\ bitmap \in [BitmapSectors -> Bitmaps]
    /\ rhdr \in Headers \cup {NoHeader}
    /\ rbitmap \in [BitmapSectors -> Bitmaps]
    /\ txn \in Txns \cup {NoTxn}
    /\ pc \in Running \cup BootWrites \cup {"off", "load", "refused"}
    /\ result \in {"none", "ok", "fail"}
    /\ failing \in BOOLEAN
    /\ pc \in TxnWrites <=> txn # NoTxn

(* Wherever power is cut, and however often while it recovers, the card    *)
(* boots again: journal_init and read_usage_bitmap refuse a card only      *)
(* after a write that the driver reported as failed during that same boot. *)
(* (A cut that tears the header sector itself breaks this: TornHeader.)    *)
RefusedOnlyAfterFailedWrite == pc = "refused" => failing

(* After recovery a sector in use holds an intact content of its own       *)
(* region: no half-written sector, no blank one, no message in a contact   *)
(* sector; and a history sector is never half-written.                     *)
StoredWellKept ==
    hdr # Torn =>
        \A s \in Sectors : Stored[s] \in ContentsOf(s) \cup
                              (IF s \in HistorySectors THEN {Blank} ELSE {Free})

(* While the database runs, the usage bitmap in RAM that decides every     *)
(* allocation is the one on the card, failed updates included.             *)
RamBitmapMatchesCard == pc \in Running => rbitmap = bitmap

(* The journal implements indivisible transactions on the stored contents: *)
(* whatever the interleaving of writes, cuts and reboots, a transaction    *)
(* happened completely or not at all, and one that failed changed nothing  *)
(* (a contact write excepted, see FailCommittedContact).                   *)
Phase == CASE pc = "idle"       -> "idle"
           [] pc = "free_again" -> "committed"
           [] pc \in TxnWrites \ {"free_again"} -> "busy"
           [] OTHER             -> "down"

Pending == IF pc \in TxnWrites
           THEN [sector |-> txn.sector,
                 value  |-> IF txn.bit = "clear" THEN Free ELSE txn.new]
           ELSE NoTxn

Atomic == INSTANCE AtomicCard WITH stored <- Stored, pending <- Pending, phase <- Phase

AtomicTransactions == Atomic!WeakSpec

-----------------------------------------------------------------------------
(***************************************************************************)
(* The inductive invariant behind the properties above, for a card whose   *)
(* header writes are not torn and whose failures last until power is cut.  *)
(***************************************************************************)

FailuresLast == MayFail => FailStop

SafeCard == ~TornHeader /\ FailuresLast

(* Where a cut that tears the header leaves the card for good.             *)
HeaderLost == hdr = Torn /\ pc \in {"off", "refused"} /\ ~failing /\ TypeOK

(* What the operations may put into a transaction.                         *)
TxnSound ==
    pc \in TxnWrites =>
        /\ txn.type \in BitmapTypes <=> txn.sector \in Allocated
        /\ txn.type = "CONTACT" => txn.sector \in ContactSectors
        /\ txn.bit # "keep" => txn.sector \in Allocated
        /\ txn.bit # "clear" => txn.new # NoWrite
        /\ txn.new # NoWrite => txn.new \in ContentsOf(txn.sector)
        /\ txn.type = "REMOVE" => txn.bit = "clear" /\ txn.new = NoWrite
        /\ txn.type # "REMOVE" => txn.old # Torn
        /\ rhdr # NoHeader /\ rhdr.type = txn.type /\ rhdr.sector = txn.sector
        /\ pc # "free_again" => rhdr.state = "ACTIVE"
        /\ pc = "free_again" => rhdr.state = "COMMITTED" /\ txn.type = "CONTACT"
        /\ pc \in {"j_bitmap", "bit"} => txn.type \in BitmapTypes
        /\ pc = "bit" => txn.bit # "keep"
        /\ pc = "data" => txn.new # NoWrite
        /\ pc \in {"j_content", "data"} => txn.type # "REMOVE"

(* Until the header is written, what was and will be saved is what the     *)
(* card holds; a sector not in use is only ever set.                       *)
CopiesSound ==
    pc \in {"j_bitmap", "j_content", "j_header"} =>
        /\ txn.sector \in Allocated /\ txn.sector \notin bitmap[BitmapOf(txn.sector)].used
             => txn.bit = "set"
        /\ txn.sector \in HistorySectors \/
              (txn.sector \in bitmap[BitmapOf(txn.sector)].used /\ txn.type # "REMOVE")
             => txn.old = data[txn.sector]
        /\ pc # "j_bitmap" /\ txn.type \in BitmapTypes
             => jbitmap = bitmap[BitmapOf(txn.sector)]
        /\ pc = "j_header" /\ txn.type # "REMOVE" => jcontent = txn.old

(* While the transaction changes the card in place, the header is ACTIVE   *)
(* and the card differs from the copies only in the transaction's sector.  *)
UndoSound ==
    pc \in {"bit", "data", "free"} =>
        /\ hdr = rhdr
        /\ txn.sector \in Allocated =>
              LET used == bitmap[BitmapOf(txn.sector)].used
              IN  /\ bitmap[BitmapOf(txn.sector)].ok
                  /\ txn.bit = "keep" => txn.sector \in used
                  /\ used = IF pc = "bit" \/ txn.bit = "keep" THEN jbitmap.used
                            ELSE WithBit(jbitmap.used, txn)
        /\ pc = "free" /\ txn.new # NoWrite => data[txn.sector] = txn.new

(* Each step of a rollback has put back what it had to.                    *)
RollbackSound ==
    pc \in BootWrites =>
        /\ hdr = rhdr /\ Active
        /\ pc = "rb_content" => hdr.type # "REMOVE"
        /\ pc = "rb_bitmap" => hdr.type \in BitmapTypes
        /\ pc # "rb_content" /\ hdr.type # "REMOVE" => data[hdr.sector] = jcontent
        /\ pc = "rb_free" /\ hdr.type \in BitmapTypes => bitmap[BitmapOf(hdr.sector)] = jbitmap

(* The ACTIVE header is on the card exactly while it is needed, and its    *)
(* copies are intact then.                                                 *)
HeaderSound ==
    /\ hdr # Torn
    /\ hdr.type \in BitmapTypes <=> hdr.sector \in Allocated
    /\ Active => /\ hdr.type # "REMOVE" => jcontent # Torn
                 /\ pc \in {"off", "refused", "bit", "data", "free"} \cup BootWrites \/ failing
    /\ failing => MayFail /\ pc \in {"idle", "j_bitmap", "j_content", "refused"}
    /\ \A b \in BitmapSectors : RecoveredBitmap[b].ok

JournalInv ==
    /\ TypeOK
    /\ HeaderSound
    /\ TxnSound
    /\ CopiesSound
    /\ UndoSound
    /\ RollbackSound
    /\ StoredWellKept
    /\ RamBitmapMatchesCard
    /\ RefusedOnlyAfterFailedWrite
=============================================================================
