--------------------------- MODULE JournalProofs ---------------------------
(***************************************************************************)
(* Proofs about the rollback journal, for every set of sectors, contents   *)
(* and bitmap sectors and every assignment of data sectors to bitmap       *)
(* sectors: JournalInv is inductive when header writes are not torn and a  *)
(* failing card keeps failing until power is cut.                          *)
(***************************************************************************)
EXTENDS Journal, TLAPS

LEMMA InitInv == Init => JournalInv
<1> SUFFICES ASSUME Init PROVE JournalInv
  OBVIOUS
<1> USE SectorsAssumption, ContentsAssumption, SwitchesAssumption, SentinelsAssumption
<1>0. EmptyHeader \in Headers /\ EmptyHeader.sector \in ContactSectors
      /\ EmptyHeader.state = "EMPTY" /\ EmptyHeader.type = "CONTACT"
  BY DEF EmptyHeader, Headers, Types, BitmapTypes, Sectors, Allocated
<1>1. TypeOK
  BY <1>0 DEF Init, TypeOK, Contents, Bitmaps, TornBitmap, Running, TxnWrites, BootWrites
<1>2. ~Active /\ hdr # Torn
  BY <1>0 DEF Init, Active
<1>3. HeaderSound
  BY <1>0, <1>2 DEF Init, HeaderSound, RecoveredBitmap, BitmapTypes, Allocated
<1>4. TxnSound /\ CopiesSound /\ UndoSound /\ RollbackSound
  BY DEF Init, TxnSound, CopiesSound, UndoSound, RollbackSound, TxnWrites, BootWrites
<1>5. StoredWellKept
  BY <1>2 DEF Init, StoredWellKept, Stored, RecoveredBitmap, RecoveredData, Allocated, Sectors
<1>6. RamBitmapMatchesCard /\ RefusedOnlyAfterFailedWrite
  BY DEF Init, RamBitmapMatchesCard, RefusedOnlyAfterFailedWrite, Running, TxnWrites
<1> QED
  BY <1>1, <1>3, <1>4, <1>5, <1>6 DEF JournalInv

-----------------------------------------------------------------------------
(* What each operation establishes about the transaction it begins.        *)
Admissible(t) ==
    /\ t \in Txns
    /\ t.type \in BitmapTypes <=> t.sector \in Allocated
    /\ t.type = "CONTACT" => t.sector \in ContactSectors
    /\ t.bit # "keep" => t.sector \in Allocated
    /\ t.bit # "clear" => t.new # NoWrite
    /\ t.new # NoWrite => t.new \in ContentsOf(t.sector)
    /\ t.type = "REMOVE" => t.bit = "clear" /\ t.new = NoWrite
    /\ t.type # "REMOVE" => t.old # Torn
    /\ t.sector \in Allocated /\ ~InUse(t.sector) => t.bit = "set"
    /\ t.sector \in HistorySectors \/ (InUse(t.sector) /\ t.type # "REMOVE")
         => t.old = data[t.sector]

(* Every operation begins an admissible transaction.                       *)
LEMMA OperationBegins ==
    ASSUME JournalInv, Operation
    PROVE  \E t \in Txns : Begin(t) /\ Admissible(t)
<1> USE SectorsAssumption, ContentsAssumption
<1>0. /\ data \in [Sectors -> Contents]
      /\ ContactSectors \cup MessageSectors \cup HistorySectors = Sectors
  BY DEF JournalInv, TypeOK, Sectors, Allocated
<1> DEFINE T(ty, s, b, o, n) == [type |-> ty, sector |-> s, bit |-> b, old |-> o, new |-> n]
<1>1. ASSUME NEW s \in ContactSectors, NEW v \in ContactValues, WriteContact(s, v)
      PROVE  \E t \in Txns : Begin(t) /\ Admissible(t)
  <2> DEFINE t == T("CONTACT", s, "set", IF InUse(s) THEN data[s] ELSE Blank, v)
  <2>1. Begin(t)
    BY <1>1 DEF WriteContact
  <2>2. t \in Txns
    BY <1>0 DEF Txns, Contents, Types, BitmapTypes
  <2>3. Admissible(t)
    BY <1>0, <1>1, <2>2
    DEF WriteContact, Readable, Admissible, BitmapTypes, Allocated, ContentsOf
  <2> QED
    BY <2>1, <2>2, <2>3
<1>2. ASSUME NEW s \in ContactSectors, RemoveContact(s)
      PROVE  \E t \in Txns : Begin(t) /\ Admissible(t)
  <2>1. CASE Begin(T("CONTACT", s, "clear", data[s], NoWrite))
    <3>1. T("CONTACT", s, "clear", data[s], NoWrite) \in Txns
      BY <1>0 DEF Txns, Types, BitmapTypes
    <3>2. Admissible(T("CONTACT", s, "clear", data[s], NoWrite))
      BY <1>0, <1>2, <3>1 DEF RemoveContact, Readable, Admissible, BitmapTypes, Allocated
    <3> QED
      BY <2>1, <3>1, <3>2
  <2>2. ASSUME NEW v \in ContactValues, Begin(T("CONTACT", s, "keep", data[s], v))
        PROVE  \E t \in Txns : Begin(t) /\ Admissible(t)
    <3>1. T("CONTACT", s, "keep", data[s], v) \in Txns
      BY <1>0 DEF Txns, Contents, Types, BitmapTypes
    <3>2. Admissible(T("CONTACT", s, "keep", data[s], v))
      BY <1>0, <1>2, <3>1 DEF RemoveContact, Readable, Admissible, BitmapTypes, Allocated,
                              ContentsOf
    <3> QED
      BY <2>2, <3>1, <3>2
  <2> QED
    BY <1>2, <2>1, <2>2 DEF RemoveContact
<1>3. ASSUME NEW s \in MessageSectors, NEW v \in MessageValues,
             WriteMessage(s, v) \/ PointToNext(s, v)
      PROVE  \E t \in Txns : Begin(t) /\ Admissible(t)
  <2>1. PICK b \in {"set", "keep"} : Begin(T("MESSAGE", s, b, data[s], v))
    BY <1>3 DEF WriteMessage, PointToNext
  <2>2. T("MESSAGE", s, b, data[s], v) \in Txns
    BY <1>0 DEF Txns, Contents, Types, BitmapTypes
  <2>3. Admissible(T("MESSAGE", s, b, data[s], v))
    BY <1>0, <1>3, <2>2 DEF WriteMessage, PointToNext, Readable, Admissible, BitmapTypes,
                            Allocated, ContentsOf
  <2> QED
    BY <2>1, <2>2, <2>3
<1>4. ASSUME NEW s \in MessageSectors, NEW v \in MessageValues, NewMessageSector(s, v)
      PROVE  \E t \in Txns : Begin(t) /\ Admissible(t)
  <2>1. T("MESSAGE", s, "set", Blank, v) \in Txns
    BY <1>0 DEF Txns, Contents, Types, BitmapTypes
  <2>2. Admissible(T("MESSAGE", s, "set", Blank, v))
    BY <1>0, <1>4, <2>1 DEF NewMessageSector, Admissible, BitmapTypes, Allocated, ContentsOf
  <2> QED
    BY <1>4, <2>1, <2>2 DEF NewMessageSector
<1>5. ASSUME NEW s \in MessageSectors, RemoveMessageSector(s)
      PROVE  \E t \in Txns : Begin(t) /\ Admissible(t)
  <2>1. T("MESSAGE", s, "clear", data[s], NoWrite) \in Txns
    BY <1>0 DEF Txns, Types, BitmapTypes
  <2>2. Admissible(T("MESSAGE", s, "clear", data[s], NoWrite))
    BY <1>0, <1>5, <2>1 DEF RemoveMessageSector, Readable, Admissible, BitmapTypes, Allocated
  <2> QED
    BY <1>5, <2>1, <2>2 DEF RemoveMessageSector
<1>6. ASSUME NEW s \in MessageSectors, RemoveMessageBit(s)
      PROVE  \E t \in Txns : Begin(t) /\ Admissible(t)
  <2>1. T("REMOVE", s, "clear", Blank, NoWrite) \in Txns
    BY <1>0 DEF Txns, Contents, Types, BitmapTypes
  <2>2. Admissible(T("REMOVE", s, "clear", Blank, NoWrite))
    BY <1>0, <1>6, <2>1 DEF RemoveMessageBit, Admissible, BitmapTypes, Allocated
  <2> QED
    BY <1>6, <2>1, <2>2 DEF RemoveMessageBit
<1>7. ASSUME NEW s \in HistorySectors, NEW v \in HistoryValues, HistoryAdd(s, v)
      PROVE  \E t \in Txns : Begin(t) /\ Admissible(t)
  <2>1. T("HISTORY", s, "keep", data[s], v) \in Txns
    BY <1>0 DEF Txns, Contents, Types
  <2>2. Admissible(T("HISTORY", s, "keep", data[s], v))
    BY <1>0, <1>7, <2>1 DEF HistoryAdd, Readable, Admissible, BitmapTypes, Allocated,
                            ContentsOf
  <2> QED
    BY <1>7, <2>1, <2>2 DEF HistoryAdd
<1> QED
  BY <1>1, <1>2, <1>3, <1>4, <1>5, <1>6, <1>7 DEF Operation

-----------------------------------------------------------------------------
(* One lemma per action.  What the card durably holds is a function of the *)
(* card alone.                                                             *)
LEMMA SameCardSameStored ==
    ASSUME UNCHANGED card
    PROVE  Active' = Active /\ RecoveredData' = RecoveredData
           /\ RecoveredBitmap' = RecoveredBitmap /\ Stored' = Stored
BY DEF card, Active, RecoveredData, RecoveredBitmap, Stored

LEMMA BeginInv ==
    ASSUME JournalInv, NEW t \in Txns, Begin(t), Admissible(t)
    PROVE  JournalInv'
<1> USE SectorsAssumption, SentinelsAssumption
<1>0. /\ pc = "idle" /\ UNCHANGED card /\ UNCHANGED <<rbitmap, failing>>
      /\ pc' = After("begin", t) /\ txn' = t /\ result' = "none"
      /\ rhdr' = [state |-> "ACTIVE", type |-> t.type, sector |-> t.sector]
      /\ pc' \in {"j_bitmap", "j_content"}
      /\ rbitmap = bitmap
  BY DEF Begin, After, JournalInv, RamBitmapMatchesCard, Running
<1>1. TypeOK'
  BY <1>0 DEF JournalInv, TypeOK, card, Txns, Headers, Running, TxnWrites
<1>2. HeaderSound'
  BY <1>0, SameCardSameStored DEF JournalInv, HeaderSound, card, BootWrites
<1>3. TxnSound'
  BY <1>0 DEF Admissible, TxnSound, TxnWrites, After, Headers, Txns, BitmapTypes
<1>4. CopiesSound'
  BY <1>0 DEF Admissible, CopiesSound, InUse, card, After
<1>5. UndoSound' /\ RollbackSound'
  BY <1>0 DEF UndoSound, RollbackSound, BootWrites
<1>6. StoredWellKept'
  BY <1>0, SameCardSameStored DEF JournalInv, StoredWellKept, card
<1>7. RamBitmapMatchesCard' /\ RefusedOnlyAfterFailedWrite'
  BY <1>0 DEF RamBitmapMatchesCard, RefusedOnlyAfterFailedWrite, card
<1> QED
  BY <1>1, <1>2, <1>3, <1>4, <1>5, <1>6, <1>7 DEF JournalInv

(* The two journal copies change only while no header is ACTIVE, so that   *)
(* the stored contents do not depend on them.                              *)
LEMMA JournalBitmapInv ==
    ASSUME JournalInv, JournalBitmap
    PROVE  JournalInv' /\ Stored' = Stored
<1> USE SectorsAssumption
<1>0. /\ pc = "j_bitmap" /\ ~failing /\ UNCHANGED failing /\ txn # NoTxn
      /\ txn \in Txns /\ txn.sector \in Allocated
      /\ jbitmap' = bitmap[BitmapOf(txn.sector)]
      /\ UNCHANGED <<hdr, jcontent, data, bitmap, rhdr, rbitmap, txn, result>>
      /\ pc' = IF txn.type = "REMOVE" THEN "j_header" ELSE "j_content"
      /\ ~Active /\ ~Active' /\ rbitmap = bitmap
  BY DEF JournalBitmap, Step, After, ram, JournalInv, TypeOK, TxnSound, TxnWrites, HeaderSound,
         Active, BootWrites, RamBitmapMatchesCard, Running
<1>1. TypeOK'
  BY <1>0 DEF JournalInv, TypeOK, Running, TxnWrites
<1>2. HeaderSound'
  BY <1>0 DEF JournalInv, HeaderSound, RecoveredBitmap
<1>3. TxnSound'
  BY <1>0 DEF JournalInv, TxnSound, TxnWrites, BitmapTypes
<1>4. CopiesSound'
  BY <1>0 DEF JournalInv, CopiesSound
<1>5. UndoSound' /\ RollbackSound'
  BY <1>0 DEF UndoSound, RollbackSound, BootWrites
<1>a. Stored' = Stored
  BY <1>0 DEF Stored, RecoveredBitmap, RecoveredData
<1>6. StoredWellKept'
  BY <1>0, <1>a DEF JournalInv, StoredWellKept
<1>7. RamBitmapMatchesCard' /\ RefusedOnlyAfterFailedWrite'
  BY <1>0 DEF RamBitmapMatchesCard, RefusedOnlyAfterFailedWrite
<1> QED
  BY <1>1, <1>2, <1>3, <1>4, <1>5, <1>6, <1>7, <1>a DEF JournalInv

LEMMA JournalContentInv ==
    ASSUME JournalInv, JournalContent
    PROVE  JournalInv' /\ Stored' = Stored
<1>0. /\ pc = "j_content" /\ ~failing /\ UNCHANGED failing /\ txn # NoTxn
      /\ txn \in Txns
      /\ jcontent' = txn.old
      /\ UNCHANGED <<hdr, jbitmap, data, bitmap, rhdr, rbitmap, txn, result>>
      /\ pc' = "j_header"
      /\ ~Active /\ ~Active' /\ rbitmap = bitmap
  BY DEF JournalContent, Step, After, ram, JournalInv, TypeOK, TxnWrites, HeaderSound,
         Active, BootWrites, RamBitmapMatchesCard, Running
<1>1. TypeOK'
  BY <1>0 DEF JournalInv, TypeOK, Running, TxnWrites, Txns
<1>2. HeaderSound'
  BY <1>0 DEF JournalInv, HeaderSound, RecoveredBitmap
<1>3. TxnSound'
  BY <1>0 DEF JournalInv, TxnSound, TxnWrites
<1>4. CopiesSound'
  BY <1>0 DEF JournalInv, CopiesSound
<1>5. UndoSound' /\ RollbackSound'
  BY <1>0 DEF UndoSound, RollbackSound, BootWrites
<1>a. Stored' = Stored
  BY <1>0 DEF Stored, RecoveredBitmap, RecoveredData
<1>6. StoredWellKept'
  BY <1>0, <1>a DEF JournalInv, StoredWellKept
<1>7. RamBitmapMatchesCard' /\ RefusedOnlyAfterFailedWrite'
  BY <1>0 DEF RamBitmapMatchesCard, RefusedOnlyAfterFailedWrite
<1> QED
  BY <1>1, <1>2, <1>3, <1>4, <1>5, <1>6, <1>7, <1>a DEF JournalInv

(* The header turns ACTIVE over copies of what the card holds, so the      *)
(* stored contents are the same before and after.                          *)
LEMMA JournalHeaderInv ==
    ASSUME JournalInv, JournalHeader
    PROVE  JournalInv' /\ Stored' = Stored
<1> USE SectorsAssumption, SentinelsAssumption
<1>0. /\ pc = "j_header" /\ ~failing /\ UNCHANGED failing /\ txn # NoTxn
      /\ txn \in Txns /\ rhdr \in Headers /\ rhdr.state = "ACTIVE"
      /\ rhdr.type = txn.type /\ rhdr.sector = txn.sector
      /\ hdr' = rhdr
      /\ UNCHANGED <<jcontent, jbitmap, data, bitmap, rhdr, rbitmap, txn, result>>
      /\ pc' = IF txn.bit = "keep" THEN "data" ELSE "bit"
      /\ ~Active /\ Active' /\ rbitmap = bitmap
  BY DEF JournalHeader, Step, After, ram, JournalInv, TypeOK, TxnSound, TxnWrites, HeaderSound,
         Active, BootWrites, RamBitmapMatchesCard, Running
<1>1. TypeOK'
  BY <1>0 DEF JournalInv, TypeOK, Running, TxnWrites
<1>a. /\ txn.type \in BitmapTypes <=> txn.sector \in Allocated
      /\ txn.type # "REMOVE" => txn.old # Torn /\ jcontent = txn.old
      /\ txn.type \in BitmapTypes => jbitmap = bitmap[BitmapOf(txn.sector)]
      /\ txn.sector \in Allocated /\ txn.sector \notin bitmap[BitmapOf(txn.sector)].used
             => txn.bit = "set"
      /\ txn.sector \in HistorySectors \/
              (txn.sector \in bitmap[BitmapOf(txn.sector)].used /\ txn.type # "REMOVE")
             => txn.old = data[txn.sector]
  BY <1>0 DEF JournalInv, TxnSound, CopiesSound, TxnWrites
<1>b. RecoveredBitmap' = bitmap /\ RecoveredBitmap = bitmap
  BY <1>0, <1>a DEF RecoveredBitmap, JournalInv, TypeOK
<1>2. HeaderSound'
  BY <1>0, <1>a, <1>b DEF JournalInv, HeaderSound
<1>3. TxnSound'
  BY <1>0 DEF JournalInv, TxnSound, TxnWrites
<1>4. CopiesSound' /\ RollbackSound'
  BY <1>0 DEF CopiesSound, RollbackSound, BootWrites
<1>5. UndoSound'
  <2>1. txn.sector \in Allocated => bitmap[BitmapOf(txn.sector)].ok
    BY <1>b DEF JournalInv, HeaderSound
  <2> QED
    BY <1>0, <1>a, <2>1 DEF UndoSound
<1>6. Stored' = Stored
  <2>1. RecoveredData = data
    BY <1>0 DEF RecoveredData
  <2>2. RecoveredData' = IF txn.type # "REMOVE" THEN [data EXCEPT ![txn.sector] = txn.old] ELSE data
    BY <1>0, <1>a DEF RecoveredData
  <2>3. ASSUME NEW s \in Sectors
        PROVE  (IF s \in Allocated /\ s \notin bitmap[BitmapOf(s)].used THEN Free
                                                                     ELSE RecoveredData'[s])
             = (IF s \in Allocated /\ s \notin bitmap[BitmapOf(s)].used THEN Free
                                                                     ELSE RecoveredData[s])
    <3>1. CASE s # txn.sector
      BY <2>1, <2>2, <3>1
    <3>2. CASE s = txn.sector
      BY <1>0, <1>a, <2>1, <2>2, <3>2 DEF JournalInv, TypeOK, Sectors
    <3> QED
      BY <3>1, <3>2
  <2> QED
    BY <1>b, <2>3 DEF Stored
<1>7. StoredWellKept'
  BY <1>0, <1>6 DEF JournalInv, StoredWellKept, HeaderSound
<1>8. RamBitmapMatchesCard' /\ RefusedOnlyAfterFailedWrite'
  BY <1>0 DEF RamBitmapMatchesCard, RefusedOnlyAfterFailedWrite
<1> QED
  BY <1>1, <1>2, <1>3, <1>4, <1>5, <1>6, <1>7, <1>8 DEF JournalInv

(* The in-place writes of the bitmap and of the data sector are masked by  *)
(* the copies for as long as the header is ACTIVE.                         *)
LEMMA UpdateUsageBitInv ==
    ASSUME JournalInv, UpdateUsageBit
    PROVE  JournalInv' /\ Stored' = Stored
<1> USE SectorsAssumption
<1> DEFINE b == BitmapOf(txn.sector)
<1>0. /\ pc = "bit" /\ ~failing /\ UNCHANGED failing /\ txn # NoTxn /\ txn \in Txns
      /\ pc' = IF txn.new = NoWrite THEN "free" ELSE "data"
      /\ UNCHANGED <<hdr, jcontent, jbitmap, data, rhdr, txn, result>>
      /\ rbitmap = bitmap
  BY DEF UpdateUsageBit, Step, After, JournalInv, TypeOK, TxnWrites, RamBitmapMatchesCard, Running
<1>a. /\ hdr = rhdr /\ hdr.type = txn.type /\ hdr.sector = txn.sector /\ Active /\ Active'
      /\ txn.type \in BitmapTypes /\ txn.sector \in Allocated /\ txn.bit # "keep"
      /\ bitmap[b].used = jbitmap.used
      /\ b \in BitmapSectors
  BY <1>0 DEF JournalInv, TxnSound, UndoSound, HeaderSound, TxnWrites, Active
<1>b. /\ rbitmap' = [bitmap EXCEPT ![b] = [ok |-> TRUE, used |-> WithBit(bitmap[b].used, txn)]]
      /\ bitmap' = rbitmap'
      /\ [ok |-> TRUE, used |-> WithBit(bitmap[b].used, txn)] \in Bitmaps
      /\ bitmap \in [BitmapSectors -> Bitmaps]
  <2>1. bitmap \in [BitmapSectors -> Bitmaps]
    BY DEF JournalInv, TypeOK
  <2>2. rbitmap' = [bitmap EXCEPT ![b] = [ok |-> TRUE, used |-> WithBit(bitmap[b].used, txn)]]
        /\ bitmap' = [bitmap EXCEPT ![b] = rbitmap'[b]]
    BY <1>0, <1>a DEF UpdateUsageBit, WithBit
  <2>3. bitmap[b].used \in SUBSET Allocated
    BY <1>a, <2>1 DEF Bitmaps
  <2>4. [ok |-> TRUE, used |-> WithBit(bitmap[b].used, txn)] \in Bitmaps
    BY <1>a, <2>3 DEF Bitmaps, WithBit
  <2> QED
    BY <1>a, <2>1, <2>2, <2>4
<1>c. RecoveredBitmap' = RecoveredBitmap
  BY <1>0, <1>a, <1>b DEF RecoveredBitmap
<1>d. Stored' = Stored
  BY <1>0, <1>a, <1>c DEF Stored, RecoveredData
<1>1. TypeOK'
  BY <1>0, <1>b DEF JournalInv, TypeOK, Running, TxnWrites
<1>2. HeaderSound'
  BY <1>0, <1>a, <1>c DEF JournalInv, HeaderSound, BootWrites
<1>3. TxnSound'
  BY <1>0, <1>a DEF JournalInv, TxnSound, TxnWrites
<1>4. CopiesSound' /\ RollbackSound'
  BY <1>0 DEF CopiesSound, RollbackSound, BootWrites
<1>5. UndoSound'
  BY <1>0, <1>a, <1>b DEF UndoSound
<1>6. StoredWellKept'
  BY <1>0, <1>d DEF JournalInv, StoredWellKept
<1>7. RamBitmapMatchesCard' /\ RefusedOnlyAfterFailedWrite'
  BY <1>0, <1>b DEF RamBitmapMatchesCard, RefusedOnlyAfterFailedWrite
<1> QED
  BY <1>1, <1>2, <1>3, <1>4, <1>5, <1>6, <1>7, <1>d DEF JournalInv

LEMMA WriteDataInv ==
    ASSUME JournalInv, WriteData
    PROVE  JournalInv' /\ Stored' = Stored
<1> USE SectorsAssumption
<1>0. /\ pc = "data" /\ ~failing /\ UNCHANGED failing /\ txn # NoTxn /\ txn \in Txns
      /\ pc' = "free"
      /\ data' = [data EXCEPT ![txn.sector] = txn.new]
      /\ UNCHANGED <<hdr, jcontent, jbitmap, bitmap, rhdr, rbitmap, txn, result>>
      /\ rbitmap = bitmap
  BY DEF WriteData, Step, After, ram, JournalInv, TypeOK, TxnWrites, RamBitmapMatchesCard, Running
<1>a. /\ hdr = rhdr /\ hdr.type = txn.type /\ hdr.sector = txn.sector /\ Active /\ Active'
      /\ txn.type # "REMOVE" /\ txn.new # NoWrite /\ txn.sector \in Sectors
      /\ data \in [Sectors -> Contents]
  BY <1>0 DEF JournalInv, TypeOK, TxnSound, UndoSound, HeaderSound, TxnWrites, Active, Txns
<1>b. RecoveredBitmap' = RecoveredBitmap /\ RecoveredData' = RecoveredData
  BY <1>0, <1>a DEF RecoveredBitmap, RecoveredData
<1>d. Stored' = Stored
  BY <1>b DEF Stored
<1>1. TypeOK'
  BY <1>0, <1>a DEF JournalInv, TypeOK, Running, TxnWrites, Txns
<1>2. HeaderSound'
  BY <1>0, <1>a, <1>b DEF JournalInv, HeaderSound, BootWrites
<1>3. TxnSound'
  BY <1>0, <1>a DEF JournalInv, TxnSound, TxnWrites
<1>4. CopiesSound' /\ RollbackSound'
  BY <1>0 DEF CopiesSound, RollbackSound, BootWrites
<1>5. UndoSound'
  BY <1>0, <1>a DEF JournalInv, UndoSound
<1>6. StoredWellKept'
  BY <1>0, <1>d DEF JournalInv, StoredWellKept
<1>7. RamBitmapMatchesCard' /\ RefusedOnlyAfterFailedWrite'
  BY <1>0 DEF RamBitmapMatchesCard, RefusedOnlyAfterFailedWrite
<1> QED
  BY <1>1, <1>2, <1>3, <1>4, <1>5, <1>6, <1>7, <1>d DEF JournalInv

-----------------------------------------------------------------------------
(* The commit.  Before it the copies mask what the transaction wrote, after *)
(* it the card itself is what is stored.                                   *)
LEMMA CommitStores ==
    ASSUME JournalInv, JournalFree, pc = "free"
    PROVE  Stored' = [Stored EXCEPT ![txn.sector] =
                          IF txn.bit = "clear" THEN Free ELSE txn.new]
<1> USE SectorsAssumption
<1> DEFINE v == IF txn.bit = "clear" THEN Free ELSE txn.new
<1>1. /\ ~Active' /\ UNCHANGED <<data, bitmap>>
      /\ RecoveredData' = data /\ RecoveredBitmap' = bitmap
  <2>1. rhdr \in Headers /\ rhdr # NoHeader
    BY DEF JournalInv, TypeOK, TxnSound, TxnWrites
  <2>2. hdr'.state = "COMMITTED"
    BY <2>1 DEF JournalFree, Headers
  <2> QED
    BY <2>2 DEF JournalFree, Active, RecoveredData, RecoveredBitmap
<1>2. /\ hdr = rhdr /\ hdr.type = txn.type /\ hdr.sector = txn.sector /\ Active
      /\ txn \in Txns /\ txn.sector \in Sectors
      /\ txn.type \in BitmapTypes <=> txn.sector \in Allocated
      /\ txn.type = "REMOVE" => txn.bit = "clear" /\ txn.new = NoWrite
      /\ txn.bit # "keep" => txn.sector \in Allocated
      /\ txn.bit # "clear" => txn.new # NoWrite
      /\ txn.new # NoWrite => data[txn.sector] = txn.new
      /\ data \in [Sectors -> Contents] /\ bitmap \in [BitmapSectors -> Bitmaps]
  BY DEF JournalInv, TypeOK, TxnSound, UndoSound, TxnWrites, Active, HeaderSound, Txns
<1>3. txn.sector \in Allocated =>
         LET used == bitmap[BitmapOf(txn.sector)].used
         IN  /\ txn.bit = "keep" => txn.sector \in used
             /\ used = IF txn.bit = "keep" THEN jbitmap.used ELSE WithBit(jbitmap.used, txn)
  BY DEF JournalInv, UndoSound
<1>4. ASSUME NEW s \in Sectors, s # txn.sector
      PROVE  /\ RecoveredData[s] = data[s]
             /\ s \in Allocated => (s \in RecoveredBitmap[BitmapOf(s)].used
                                        <=> s \in bitmap[BitmapOf(s)].used)
  <2>1. RecoveredData[s] = data[s]
    BY <1>2, <1>4 DEF RecoveredData
  <2>2. CASE txn.sector \in Allocated /\ BitmapOf(s) = BitmapOf(txn.sector)
    <3>1. s \in Allocated => RecoveredBitmap[BitmapOf(s)] = jbitmap
      BY <1>2, <2>2 DEF RecoveredBitmap
    <3> QED
      BY <1>3, <1>4, <2>1, <2>2, <3>1 DEF WithBit
  <2>3. CASE ~(txn.sector \in Allocated /\ BitmapOf(s) = BitmapOf(txn.sector))
    BY <1>2, <1>4, <2>1, <2>3 DEF RecoveredBitmap
  <2> QED
    BY <2>2, <2>3
<1>5. Stored'[txn.sector] = v
  <2>1. Stored'[txn.sector] = IF txn.sector \in Allocated
                                 /\ txn.sector \notin bitmap[BitmapOf(txn.sector)].used
                              THEN Free ELSE data[txn.sector]
    BY <1>1, <1>2 DEF Stored
  <2>2. CASE txn.bit = "clear"
    BY <1>2, <1>3, <2>1, <2>2 DEF WithBit
  <2>3. CASE txn.bit # "clear"
    BY <1>2, <1>3, <2>1, <2>3 DEF WithBit, Txns
  <2> QED
    BY <2>2, <2>3
<1>6. \A s \in Sectors : s # txn.sector => Stored'[s] = Stored[s]
  BY <1>1, <1>4 DEF Stored
<1>7. Stored' = [s \in Sectors |-> Stored'[s]] /\ Stored = [s \in Sectors |-> Stored[s]]
  BY DEF Stored
<1> QED
  BY <1>2, <1>5, <1>6, <1>7

LEMMA JournalFreeInv ==
    ASSUME JournalInv, JournalFree
    PROVE  /\ JournalInv'
           /\ pc = "free_again" => Stored' = Stored
<1> USE SectorsAssumption, SentinelsAssumption
<1>0. /\ pc \in {"free", "free_again"} /\ ~failing /\ UNCHANGED failing
      /\ txn # NoTxn /\ txn \in Txns /\ rhdr \in Headers /\ rhdr # NoHeader
      /\ rhdr.type = txn.type /\ rhdr.sector = txn.sector
      /\ rhdr' = [rhdr EXCEPT !.state = "COMMITTED"] /\ hdr' = rhdr'
      /\ pc' \in {"idle", "free_again"}
      /\ pc' = "idle" => txn' = NoTxn /\ result' = "ok"
      /\ pc' # "idle" => UNCHANGED <<txn, result>>
                           /\ txn.type = "CONTACT" /\ txn.bit = "set"
      /\ UNCHANGED <<jcontent, jbitmap, data, bitmap, rbitmap>>
      /\ rbitmap = bitmap
  BY DEF JournalFree, Step, After, ReturnIfDone, JournalInv, TypeOK, TxnSound, TxnWrites,
         RamBitmapMatchesCard, Running
<1>a. /\ hdr' \in Headers /\ hdr' # Torn /\ ~Active'
      /\ hdr'.type = txn.type /\ hdr'.sector = txn.sector /\ hdr'.state = "COMMITTED"
  BY <1>0 DEF Headers, Active
<1>b. RecoveredBitmap' = bitmap /\ RecoveredData' = data
  BY <1>0, <1>a DEF RecoveredBitmap, RecoveredData
<1>c. txn.type \in BitmapTypes <=> txn.sector \in Allocated
  BY <1>0 DEF JournalInv, TxnSound, TxnWrites
<1>d. \A b \in BitmapSectors : bitmap[b].ok
  <2>1. CASE ~Active
    BY <2>1 DEF JournalInv, HeaderSound, RecoveredBitmap
  <2>2. CASE Active
    <3>1. pc = "free"
      BY <1>0, <2>2 DEF JournalInv, HeaderSound, BootWrites
    <3>2. /\ hdr.type = txn.type /\ hdr.sector = txn.sector
          /\ txn.sector \in Allocated => bitmap[BitmapOf(txn.sector)].ok
      BY <1>0, <3>1 DEF JournalInv, UndoSound
    <3>3. \A b \in BitmapSectors : RecoveredBitmap[b].ok
      BY DEF JournalInv, HeaderSound
    <3> QED
      BY <1>c, <3>2, <3>3 DEF RecoveredBitmap
  <2> QED
    BY <2>1, <2>2
<1>e. pc = "free_again" => Stored' = Stored
  <2>1. pc = "free_again" => ~Active
    BY <1>0 DEF JournalInv, HeaderSound, BootWrites
  <2>2. pc = "free_again" => RecoveredBitmap = bitmap /\ RecoveredData = data
    BY <2>1 DEF RecoveredBitmap, RecoveredData
  <2> QED
    BY <1>b, <2>2 DEF Stored
<1>1. TypeOK'
  BY <1>0, <1>a DEF JournalInv, TypeOK, Running, TxnWrites
<1>2. HeaderSound'
  BY <1>0, <1>a, <1>b, <1>c, <1>d DEF JournalInv, HeaderSound
<1>3. TxnSound'
  BY <1>0, <1>a DEF JournalInv, TxnSound, TxnWrites
<1>4. CopiesSound' /\ UndoSound' /\ RollbackSound'
  BY <1>0 DEF CopiesSound, UndoSound, RollbackSound, BootWrites
<1>6. StoredWellKept'
  <2>1. CASE pc = "free_again"
    BY <1>e, <2>1 DEF JournalInv, StoredWellKept, HeaderSound
  <2>2. CASE pc = "free"
    <3>1. Stored' = [Stored EXCEPT ![txn.sector] =
                       IF txn.bit = "clear" THEN Free ELSE txn.new]
      BY <2>2, CommitStores
    <3>2. IF txn.bit = "clear" THEN txn.sector \in Allocated
                               ELSE txn.new \in ContentsOf(txn.sector)
      BY <1>0 DEF JournalInv, TxnSound, TxnWrites
    <3>3. \A s \in Allocated : s \notin HistorySectors
      OBVIOUS
    <3>4. \A s \in Sectors : Stored[s] \in ContentsOf(s) \cup
                              (IF s \in HistorySectors THEN {Blank} ELSE {Free})
      BY DEF JournalInv, StoredWellKept, HeaderSound
    <3> QED
      BY <3>1, <3>2, <3>3, <3>4 DEF StoredWellKept, Stored
  <2> QED
    BY <1>0, <2>1, <2>2
<1>7. RamBitmapMatchesCard' /\ RefusedOnlyAfterFailedWrite'
  BY <1>0 DEF RamBitmapMatchesCard, RefusedOnlyAfterFailedWrite
<1> QED
  BY <1>1, <1>2, <1>3, <1>4, <1>6, <1>7, <1>e DEF JournalInv

-----------------------------------------------------------------------------
(* A failed write leaves the card alone.  It may leave the header ACTIVE;  *)
(* the card is failing then, so that no later transaction reaches the      *)
(* header write and the copies survive until the next boot.                *)
LEMMA WriteFailsInv ==
    ASSUME JournalInv, WriteFails, FailuresLast
    PROVE  JournalInv' /\ Stored' = Stored
<1> USE SectorsAssumption, SwitchesAssumption, SentinelsAssumption
<1>0. /\ pc \in TxnWrites /\ pc' = "idle" /\ txn' = NoTxn /\ result' = "fail"
      /\ failing' = TRUE /\ MayFail
      /\ UNCHANGED <<card, rbitmap>>
      /\ rhdr \in Headers /\ rhdr' \in Headers
      /\ rbitmap = bitmap
  <2>1. rhdr \in Headers /\ pc \in TxnWrites
    BY DEF WriteFails, JournalInv, TypeOK, TxnSound
  <2>2. rhdr' \in Headers
    BY <2>1 DEF WriteFails, Headers
  <2>3. MayFail /\ failing' = TRUE
    BY DEF WriteFails, FailuresLast, JournalInv, HeaderSound
  <2> QED
    BY <2>1, <2>2, <2>3 DEF WriteFails, JournalInv, RamBitmapMatchesCard, Running
<1>a. Stored' = Stored /\ RecoveredBitmap' = RecoveredBitmap /\ Active' = Active
  BY <1>0, SameCardSameStored
<1>1. TypeOK'
  BY <1>0 DEF JournalInv, TypeOK, card, Running, TxnWrites
<1>2. HeaderSound'
  BY <1>0, <1>a DEF JournalInv, HeaderSound, card
<1>3. TxnSound' /\ CopiesSound' /\ UndoSound' /\ RollbackSound'
  BY <1>0 DEF TxnSound, CopiesSound, UndoSound, RollbackSound, TxnWrites, BootWrites
<1>4. StoredWellKept'
  BY <1>0, <1>a DEF JournalInv, StoredWellKept, card
<1>5. RamBitmapMatchesCard' /\ RefusedOnlyAfterFailedWrite'
  BY <1>0 DEF RamBitmapMatchesCard, RefusedOnlyAfterFailedWrite, card
<1> QED
  BY <1>1, <1>2, <1>3, <1>4, <1>5, <1>a DEF JournalInv

-----------------------------------------------------------------------------
(* Boot.                                                                   *)
LEMMA PowerOnInv ==
    ASSUME JournalInv, PowerOn
    PROVE  JournalInv' /\ Stored' = Stored
<1>0. /\ pc = "off" /\ UNCHANGED <<card, rbitmap, txn, result, failing>>
      /\ hdr \in Headers /\ rhdr' = hdr /\ txn = NoTxn /\ ~failing
      /\ pc' = IF hdr.state # "ACTIVE" THEN "load"
               ELSE IF hdr.type = "REMOVE" THEN "rb_bitmap" ELSE "rb_content"
      /\ hdr # Torn
  BY DEF PowerOn, JournalInv, HeaderSound, TypeOK, TxnWrites
<1>a. Stored' = Stored /\ RecoveredBitmap' = RecoveredBitmap /\ Active' = Active
      /\ (Active <=> hdr.state = "ACTIVE")
  BY <1>0, SameCardSameStored DEF Active
<1>b. UNCHANGED <<hdr, jcontent, jbitmap, data, bitmap>>
  BY <1>0 DEF card
<1>1. TypeOK'
  BY <1>0, <1>b DEF JournalInv, TypeOK, Running, TxnWrites, BootWrites
<1>2. HeaderSound'
  BY <1>0, <1>a, <1>b DEF JournalInv, HeaderSound, BootWrites
<1>3. TxnSound' /\ CopiesSound' /\ UndoSound'
  BY <1>0 DEF TxnSound, CopiesSound, UndoSound, TxnWrites
<1>4. RollbackSound'
  BY <1>0, <1>a, <1>b DEF RollbackSound, BootWrites, BitmapTypes
<1>5. StoredWellKept'
  BY <1>a, <1>b DEF JournalInv, StoredWellKept
<1>6. RamBitmapMatchesCard' /\ RefusedOnlyAfterFailedWrite'
  BY <1>0 DEF RamBitmapMatchesCard, RefusedOnlyAfterFailedWrite, Running, TxnWrites
<1> QED
  BY <1>1, <1>2, <1>3, <1>4, <1>5, <1>6, <1>a DEF JournalInv

LEMMA RollbackContentInv ==
    ASSUME JournalInv, RollbackContent
    PROVE  JournalInv' /\ Stored' = Stored
<1> USE SectorsAssumption
<1>0. /\ pc = "rb_content" /\ ~failing /\ txn = NoTxn
      /\ hdr = rhdr /\ Active /\ hdr.type # "REMOVE" /\ jcontent # Torn
      /\ hdr \in Headers /\ hdr.sector \in Sectors /\ jcontent \in Contents
      /\ data \in [Sectors -> Contents]
  BY DEF RollbackContent, JournalInv, RollbackSound, HeaderSound, TypeOK, TxnWrites, BootWrites,
         Headers
<1>a. /\ data' = [data EXCEPT ![hdr.sector] = jcontent]
      /\ pc' = IF hdr.type = "HISTORY" THEN "rb_free" ELSE "rb_bitmap"
      /\ UNCHANGED <<hdr, jcontent, jbitmap, bitmap, rhdr, rbitmap, txn, result, failing>>
  BY <1>0 DEF RollbackContent, ram
<1>b. RecoveredData' = RecoveredData /\ RecoveredBitmap' = RecoveredBitmap /\ Active'
  BY <1>0, <1>a DEF RecoveredData, RecoveredBitmap, Active
<1>c. Stored' = Stored
  BY <1>b DEF Stored
<1>1. TypeOK'
  BY <1>0, <1>a DEF JournalInv, TypeOK, Running, TxnWrites, BootWrites
<1>2. HeaderSound'
  BY <1>0, <1>a, <1>b DEF JournalInv, HeaderSound, BootWrites
<1>3. TxnSound' /\ CopiesSound' /\ UndoSound'
  BY <1>a DEF TxnSound, CopiesSound, UndoSound, TxnWrites
<1>4. RollbackSound'
  BY <1>0, <1>a, <1>b DEF RollbackSound, BootWrites, BitmapTypes, Headers, Types
<1>5. StoredWellKept'
  BY <1>a, <1>c DEF JournalInv, StoredWellKept
<1>6. RamBitmapMatchesCard' /\ RefusedOnlyAfterFailedWrite'
  BY <1>a DEF RamBitmapMatchesCard, RefusedOnlyAfterFailedWrite, Running, TxnWrites
<1> QED
  BY <1>1, <1>2, <1>3, <1>4, <1>5, <1>6, <1>c DEF JournalInv

LEMMA RollbackBitmapInv ==
    ASSUME JournalInv, RollbackBitmap
    PROVE  JournalInv' /\ Stored' = Stored
<1> USE SectorsAssumption
<1>0. /\ pc = "rb_bitmap" /\ ~failing /\ txn = NoTxn
      /\ hdr = rhdr /\ Active /\ hdr.type \in BitmapTypes /\ hdr.sector \in Allocated
      /\ BitmapOf(hdr.sector) \in BitmapSectors
      /\ jbitmap \in Bitmaps /\ bitmap \in [BitmapSectors -> Bitmaps]
      /\ hdr.type # "REMOVE" => data[hdr.sector] = jcontent
  BY DEF RollbackBitmap, JournalInv, RollbackSound, HeaderSound, TypeOK, TxnWrites, BootWrites
<1>d. jbitmap.ok
  <2>1. RecoveredBitmap[BitmapOf(hdr.sector)].ok
    BY <1>0 DEF JournalInv, HeaderSound
  <2> QED
    BY <1>0, <2>1 DEF RecoveredBitmap
<1>a. /\ bitmap' = [bitmap EXCEPT ![BitmapOf(hdr.sector)] = jbitmap]
      /\ pc' = "rb_free"
      /\ UNCHANGED <<hdr, jcontent, jbitmap, data, rhdr, rbitmap, txn, result, failing>>
  BY <1>0, <1>d DEF RollbackBitmap, ram
<1>b. RecoveredData' = RecoveredData /\ RecoveredBitmap' = RecoveredBitmap /\ Active'
  BY <1>0, <1>a DEF RecoveredData, RecoveredBitmap, Active
<1>c. Stored' = Stored
  BY <1>b DEF Stored
<1>1. TypeOK'
  BY <1>0, <1>a DEF JournalInv, TypeOK, Running, TxnWrites, BootWrites
<1>2. HeaderSound'
  BY <1>0, <1>a, <1>b DEF JournalInv, HeaderSound, BootWrites
<1>3. TxnSound' /\ CopiesSound' /\ UndoSound'
  BY <1>a DEF TxnSound, CopiesSound, UndoSound, TxnWrites
<1>4. RollbackSound'
  BY <1>0, <1>a, <1>b DEF RollbackSound, BootWrites
<1>5. StoredWellKept'
  BY <1>a, <1>c DEF JournalInv, StoredWellKept
<1>6. RamBitmapMatchesCard' /\ RefusedOnlyAfterFailedWrite'
  BY <1>a DEF RamBitmapMatchesCard, RefusedOnlyAfterFailedWrite, Running, TxnWrites
<1> QED
  BY <1>1, <1>2, <1>3, <1>4, <1>5, <1>6, <1>c DEF JournalInv

(* Everything has been put back when the header stops being ACTIVE.        *)
LEMMA RollbackFreeInv ==
    ASSUME JournalInv, RollbackFree
    PROVE  JournalInv' /\ Stored' = Stored
<1> USE SectorsAssumption, SentinelsAssumption
<1>0. /\ pc = "rb_free" /\ ~failing /\ txn = NoTxn
      /\ hdr = rhdr /\ Active /\ hdr \in Headers
      /\ hdr.type \in BitmapTypes <=> hdr.sector \in Allocated
      /\ bitmap \in [BitmapSectors -> Bitmaps] /\ data \in [Sectors -> Contents]
      /\ hdr.type # "REMOVE" => data[hdr.sector] = jcontent
      /\ hdr.type \in BitmapTypes => bitmap[BitmapOf(hdr.sector)] = jbitmap
  BY DEF RollbackFree, JournalInv, RollbackSound, HeaderSound, TypeOK, TxnWrites, BootWrites
<1>a. /\ rhdr' = [hdr EXCEPT !.state = "COMMITTED"] /\ hdr' = rhdr' /\ pc' = "load"
      /\ UNCHANGED <<jcontent, jbitmap, data, bitmap, rbitmap, txn, result, failing>>
      /\ hdr' \in Headers /\ hdr' # Torn /\ hdr'.type = hdr.type
      /\ hdr'.sector = hdr.sector /\ ~Active'
  BY <1>0 DEF RollbackFree, Headers, Active
<1>b. /\ RecoveredData' = data /\ RecoveredData = data
      /\ RecoveredBitmap' = bitmap /\ RecoveredBitmap = bitmap
  BY <1>0, <1>a DEF RecoveredData, RecoveredBitmap
<1>c. Stored' = Stored
  BY <1>b DEF Stored
<1>1. TypeOK'
  BY <1>0, <1>a DEF JournalInv, TypeOK, Running, TxnWrites, BootWrites
<1>2. HeaderSound'
  BY <1>0, <1>a, <1>b DEF JournalInv, HeaderSound
<1>3. TxnSound' /\ CopiesSound' /\ UndoSound' /\ RollbackSound'
  BY <1>a DEF TxnSound, CopiesSound, UndoSound, RollbackSound, TxnWrites, BootWrites
<1>5. StoredWellKept'
  BY <1>a, <1>c DEF JournalInv, StoredWellKept, HeaderSound
<1>6. RamBitmapMatchesCard' /\ RefusedOnlyAfterFailedWrite'
  BY <1>a DEF RamBitmapMatchesCard, RefusedOnlyAfterFailedWrite, Running, TxnWrites
<1> QED
  BY <1>1, <1>2, <1>3, <1>5, <1>6, <1>c DEF JournalInv

LEMMA RollbackFailsInv ==
    ASSUME JournalInv, RollbackFails, FailuresLast
    PROVE  JournalInv' /\ Stored' = Stored
<1> USE SwitchesAssumption
<1>0. /\ pc' = "refused" /\ failing' = TRUE /\ MayFail /\ txn = NoTxn
      /\ UNCHANGED <<card, rhdr, rbitmap, txn, result>>
  BY DEF RollbackFails, FailuresLast, ram, JournalInv, TypeOK, BootWrites, TxnWrites
<1>a. Stored' = Stored /\ RecoveredBitmap' = RecoveredBitmap /\ Active' = Active
  BY <1>0, SameCardSameStored
<1>1. TypeOK'
  BY <1>0 DEF JournalInv, TypeOK, card, Running, TxnWrites
<1>2. HeaderSound'
  BY <1>0, <1>a DEF JournalInv, HeaderSound, card
<1>3. TxnSound' /\ CopiesSound' /\ UndoSound' /\ RollbackSound'
  BY <1>0 DEF TxnSound, CopiesSound, UndoSound, RollbackSound, TxnWrites, BootWrites
<1>4. StoredWellKept'
  BY <1>0, <1>a DEF JournalInv, StoredWellKept, card
<1>5. RamBitmapMatchesCard' /\ RefusedOnlyAfterFailedWrite'
  BY <1>0 DEF RamBitmapMatchesCard, RefusedOnlyAfterFailedWrite, Running, TxnWrites
<1> QED
  BY <1>1, <1>2, <1>3, <1>4, <1>5, <1>a DEF JournalInv

LEMMA ReadBitmapInv ==
    ASSUME JournalInv, ReadBitmap
    PROVE  JournalInv' /\ Stored' = Stored
<1>0. /\ pc = "load" /\ ~failing /\ ~Active /\ txn = NoTxn
      /\ UNCHANGED <<card, rhdr, txn, result, failing>>
  BY DEF ReadBitmap, JournalInv, HeaderSound, TypeOK, TxnWrites, BootWrites
<1>1. pc' = "idle" /\ rbitmap' = bitmap
  BY <1>0 DEF ReadBitmap, JournalInv, HeaderSound, RecoveredBitmap
<1>a. Stored' = Stored /\ RecoveredBitmap' = RecoveredBitmap /\ Active' = Active
  BY <1>0, SameCardSameStored
<1>2. TypeOK'
  BY <1>0, <1>1 DEF JournalInv, TypeOK, card, Running, TxnWrites
<1>3. HeaderSound'
  BY <1>0, <1>1, <1>a DEF JournalInv, HeaderSound, card
<1>4. TxnSound' /\ CopiesSound' /\ UndoSound' /\ RollbackSound'
  BY <1>1 DEF TxnSound, CopiesSound, UndoSound, RollbackSound, TxnWrites, BootWrites
<1>5. StoredWellKept'
  BY <1>0, <1>a DEF JournalInv, StoredWellKept, card
<1>6. RamBitmapMatchesCard' /\ RefusedOnlyAfterFailedWrite'
  BY <1>0, <1>1 DEF RamBitmapMatchesCard, RefusedOnlyAfterFailedWrite, card
<1> QED
  BY <1>2, <1>3, <1>4, <1>5, <1>6, <1>a DEF JournalInv

-----------------------------------------------------------------------------
(* A torn write is harmless: a torn copy is not needed, because no header  *)
(* is ACTIVE while copies are written, and a sector torn in place is       *)
(* masked by its copy, because the header is ACTIVE then.                  *)
LEMMA TornWriteMasked ==
    ASSUME JournalInv, ~failing, TearSector, hdr' # Torn
    PROVE  /\ hdr' = hdr /\ Stored' = Stored /\ RecoveredBitmap' = RecoveredBitmap
           /\ Active' = Active
           /\ Active => jcontent' = jcontent
           /\ jcontent' \in Contents /\ jbitmap' \in Bitmaps
           /\ data' \in [Sectors -> Contents] /\ bitmap' \in [BitmapSectors -> Bitmaps]
<1> USE SectorsAssumption
<1>0. /\ jcontent \in Contents /\ jbitmap \in Bitmaps /\ Torn \in Contents
      /\ data \in [Sectors -> Contents] /\ bitmap \in [BitmapSectors -> Bitmaps]
      /\ TornBitmap \in Bitmaps
  BY DEF JournalInv, TypeOK, Contents, Bitmaps, TornBitmap
<1>1. CASE pc \in {"j_bitmap", "j_content"}
  <2>1. ~Active
    BY <1>1 DEF JournalInv, HeaderSound, BootWrites
  <2>2. /\ UNCHANGED <<hdr, data, bitmap>>
        /\ jcontent' \in {jcontent, Torn} /\ jbitmap' \in {jbitmap, TornBitmap}
    BY <1>1 DEF TearSector
  <2>3. Active' = Active /\ RecoveredData' = RecoveredData /\ RecoveredBitmap' = RecoveredBitmap
    BY <2>1, <2>2 DEF Active, RecoveredData, RecoveredBitmap
  <2> QED
    BY <1>0, <2>1, <2>2, <2>3 DEF Stored
<1>2. CASE pc \in {"data", "rb_content"}
  <2>1. Active /\ rhdr = hdr /\ hdr.type # "REMOVE"
    BY <1>2 DEF JournalInv, TxnSound, UndoSound, HeaderSound, RollbackSound, TxnWrites,
                BootWrites, Active
  <2>2. /\ data' = [data EXCEPT ![hdr.sector] = Torn]
        /\ UNCHANGED <<hdr, jcontent, jbitmap, bitmap>>
    BY <1>2, <2>1 DEF TearSector
  <2>3. Active' = Active /\ RecoveredData' = RecoveredData /\ RecoveredBitmap' = RecoveredBitmap
    BY <1>0, <2>1, <2>2 DEF Active, RecoveredData, RecoveredBitmap
  <2> QED
    BY <1>0, <2>1, <2>2, <2>3 DEF Stored
<1>3. CASE pc \in {"bit", "rb_bitmap"}
  <2>1. Active /\ rhdr = hdr /\ hdr.type \in BitmapTypes
    BY <1>3 DEF JournalInv, TxnSound, UndoSound, HeaderSound, RollbackSound, TxnWrites,
                BootWrites, Active
  <2>2. /\ bitmap' = [bitmap EXCEPT ![BitmapOf(hdr.sector)] = TornBitmap]
        /\ UNCHANGED <<hdr, jcontent, jbitmap, data>>
    BY <1>3, <2>1 DEF TearSector
  <2>3. Active' = Active /\ RecoveredData' = RecoveredData /\ RecoveredBitmap' = RecoveredBitmap
    BY <1>0, <2>1, <2>2 DEF Active, RecoveredData, RecoveredBitmap
  <2> QED
    BY <1>0, <2>1, <2>2, <2>3 DEF Stored
<1>4. CASE pc \notin {"j_bitmap", "j_content", "data", "rb_content", "bit", "rb_bitmap"}
  BY <1>4 DEF TearSector
<1> QED
  BY <1>1, <1>2, <1>3, <1>4

LEMMA PowerCutInv ==
    ASSUME JournalInv, PowerCut, hdr' # Torn
    PROVE  JournalInv' /\ Stored' = Stored
<1>0. /\ rhdr' = NoHeader /\ rbitmap' = [b \in BitmapSectors |-> TornBitmap]
      /\ txn' = NoTxn /\ pc' = "off" /\ result' = "none" /\ failing' = FALSE
      /\ TornBitmap \in Bitmaps
  BY DEF PowerCut, Bitmaps, TornBitmap
<1>a. /\ hdr' = hdr /\ Stored' = Stored /\ RecoveredBitmap' = RecoveredBitmap
      /\ Active' = Active
      /\ Active => jcontent' = jcontent
      /\ jcontent' \in Contents /\ jbitmap' \in Bitmaps
      /\ data' \in [Sectors -> Contents] /\ bitmap' \in [BitmapSectors -> Bitmaps]
  <2>1. CASE UNCHANGED card
    BY <2>1, SameCardSameStored DEF card, JournalInv, TypeOK
  <2>2. CASE ~failing /\ TearSector
    BY <2>2, TornWriteMasked
  <2> QED
    BY <2>1, <2>2 DEF PowerCut
<1>1. TypeOK'
  BY <1>0, <1>a DEF JournalInv, TypeOK, TxnWrites
<1>2. HeaderSound'
  BY <1>0, <1>a DEF JournalInv, HeaderSound
<1>3. TxnSound' /\ CopiesSound' /\ UndoSound' /\ RollbackSound'
  BY <1>0 DEF TxnSound, CopiesSound, UndoSound, RollbackSound, TxnWrites, BootWrites
<1>4. StoredWellKept'
  BY <1>0, <1>a DEF JournalInv, StoredWellKept
<1>5. RamBitmapMatchesCard' /\ RefusedOnlyAfterFailedWrite'
  BY <1>0 DEF RamBitmapMatchesCard, RefusedOnlyAfterFailedWrite, Running, TxnWrites
<1> QED
  BY <1>1, <1>2, <1>3, <1>4, <1>5, <1>a DEF JournalInv

LEMMA StutterInv ==
    ASSUME JournalInv, UNCHANGED vars
    PROVE  JournalInv'
<1>0. UNCHANGED <<card, rhdr, rbitmap, txn, pc, result, failing>>
  BY DEF vars, ram
<1>a. Stored' = Stored /\ RecoveredBitmap' = RecoveredBitmap /\ Active' = Active
  BY <1>0, SameCardSameStored
<1>1. TypeOK' /\ HeaderSound'
  BY <1>0, <1>a DEF JournalInv, TypeOK, HeaderSound, card
<1>2. TxnSound' /\ CopiesSound' /\ UndoSound' /\ RollbackSound'
  BY <1>0, <1>a DEF JournalInv, TxnSound, CopiesSound, UndoSound, RollbackSound, card
<1>3. StoredWellKept' /\ RamBitmapMatchesCard' /\ RefusedOnlyAfterFailedWrite'
  BY <1>0, <1>a DEF JournalInv, StoredWellKept, RamBitmapMatchesCard,
                    RefusedOnlyAfterFailedWrite, card
<1> QED
  BY <1>1, <1>2, <1>3 DEF JournalInv

-----------------------------------------------------------------------------
(* Only a cut during one of its own writes tears the header.               *)
LEMMA HeaderTears ==
    ASSUME JournalInv, PowerCut, hdr' = Torn
    PROVE  TornHeader /\ HeaderLost'
<1>1. hdr # Torn
  BY DEF JournalInv, HeaderSound
<1>2. TornHeader /\ TearSector /\ UNCHANGED <<jcontent, jbitmap, data, bitmap>>
  BY <1>1 DEF PowerCut, card, TearSector
<1>3. TornBitmap \in Bitmaps
  BY DEF Bitmaps, TornBitmap
<1>4. TypeOK'
  BY <1>2, <1>3 DEF JournalInv, TypeOK, PowerCut, TxnWrites
<1> QED
  BY <1>2, <1>4 DEF HeaderLost, PowerCut

LEMMA HeaderStaysLost == HeaderLost /\ [Next]_vars => HeaderLost'
<1> SUFFICES ASSUME HeaderLost, [Next]_vars PROVE HeaderLost'
  OBVIOUS
<1> USE DEF HeaderLost
<1>1. ~Operation
  BY DEF Operation, WriteContact, RemoveContact, WriteMessage, NewMessageSector, PointToNext,
         RemoveMessageSector, RemoveMessageBit, HistoryAdd, Begin
<1>2. ~Transaction
  BY DEF Transaction, JournalBitmap, JournalContent, JournalHeader, UpdateUsageBit, WriteData,
         JournalFree, WriteFails, Step, TxnWrites
<1>3. CASE Boot
  BY <1>3 DEF Boot, PowerOn, RollbackContent, RollbackBitmap, RollbackFree, RollbackFails,
              ReadBitmap, BootWrites, TypeOK, card, Running, TxnWrites
<1>4. CASE PowerCut
  <2>1. UNCHANGED card
    BY <1>4 DEF PowerCut, TearSector
  <2>2. TornBitmap \in Bitmaps
    BY DEF Bitmaps, TornBitmap
  <2> QED
    BY <1>4, <2>1, <2>2 DEF PowerCut, TypeOK, card, TxnWrites
<1>5. CASE UNCHANGED vars
  BY <1>5 DEF vars, ram, card, TypeOK
<1> QED
  BY <1>1, <1>2, <1>3, <1>4, <1>5 DEF Next

LEMMA NextInv ==
    ASSUME FailuresLast, JournalInv, [Next]_vars
    PROVE  JournalInv' \/ (TornHeader /\ HeaderLost')
<1>1. CASE Operation
  BY <1>1, OperationBegins, BeginInv
<1>2. CASE Transaction
  BY <1>2, JournalBitmapInv, JournalContentInv, JournalHeaderInv, UpdateUsageBitInv,
     WriteDataInv, JournalFreeInv, WriteFailsInv DEF Transaction
<1>3. CASE Boot
  BY <1>3, PowerOnInv, RollbackContentInv, RollbackBitmapInv, RollbackFreeInv,
     RollbackFailsInv, ReadBitmapInv DEF Boot
<1>4. CASE PowerCut
  BY <1>4, PowerCutInv, HeaderTears
<1>5. CASE UNCHANGED vars
  BY <1>5, StutterInv
<1> QED
  BY <1>1, <1>2, <1>3, <1>4, <1>5 DEF Next

(* JournalInv holds in every reachable state of a card whose header is not *)
(* torn, whatever the operations, power cuts, torn copies and failures.    *)
THEOREM JournalInvariant == SafeCard => (Spec => []JournalInv)
<1> SUFFICES ASSUME SafeCard PROVE Spec => []JournalInv
  OBVIOUS
<1>1. JournalInv /\ [Next]_vars => JournalInv'
  BY NextInv DEF SafeCard
<1> QED
  BY <1>1, InitInv, PTL DEF Spec

(* It also holds while the header may be torn, until a cut tears it.       *)
LEMMA SoundUntilHeaderLost == FailuresLast => (Spec => [](JournalInv \/ HeaderLost))
<1> SUFFICES ASSUME FailuresLast PROVE Spec => [](JournalInv \/ HeaderLost)
  OBVIOUS
<1>1. (JournalInv \/ HeaderLost) /\ [Next]_vars => (JournalInv \/ HeaderLost)'
  BY NextInv, HeaderStaysLost
<1> QED
  BY <1>1, InitInv, PTL DEF Spec

(* The variables keep their types, whatever a cut tears.                   *)
THEOREM TypeCorrect == FailuresLast => (Spec => []TypeOK)
<1>1. JournalInv \/ HeaderLost => TypeOK
  BY DEF JournalInv, HeaderLost
<1> QED
  BY <1>1, SoundUntilHeaderLost, PTL

(* After recovery a sector in use is intact and of its own region, as long *)
(* as there is a header to recover by.                                     *)
THEOREM StoredSectorsIntact == FailuresLast => (Spec => []StoredWellKept)
<1>1. JournalInv \/ HeaderLost => StoredWellKept
  BY DEF JournalInv, HeaderLost, StoredWellKept
<1> QED
  BY <1>1, SoundUntilHeaderLost, PTL

(* Power may be cut at any write and however often, and tear any sector,   *)
(* the journal header too: journal_init and read_usage_bitmap refuse a     *)
(* card only after a write that failed in that boot, or when the header    *)
(* itself is torn.  The last does happen (the run journal_torn_mount), and *)
(* there is no third case.                                                 *)
THEOREM RefusedOnlyForTornHeader ==
    FailuresLast => (Spec => [](hdr # Torn => RefusedOnlyAfterFailedWrite))
<1>1. JournalInv \/ HeaderLost => (hdr # Torn => RefusedOnlyAfterFailedWrite)
  BY DEF JournalInv, HeaderLost
<1> QED
  BY <1>1, SoundUntilHeaderLost, PTL

(* The allocation decisions taken from the RAM bitmap are those the card   *)
(* would give.                                                             *)
THEOREM RamBitmapFaithful == FailuresLast => (Spec => []RamBitmapMatchesCard)
<1>1. JournalInv \/ HeaderLost => RamBitmapMatchesCard
  BY DEF JournalInv, HeaderLost, RamBitmapMatchesCard, Running, TxnWrites
<1> QED
  BY <1>1, SoundUntilHeaderLost, PTL

-----------------------------------------------------------------------------
(***************************************************************************)
(* The journal implements AtomicCard: the recovered contents of the card   *)
(* change in one indivisible step per transaction.  Every step of Journal  *)
(* is shown to be a step of AtomicCard or a stutter under the refinement   *)
(* mapping stored <- Stored, pending <- Pending, phase <- Phase.           *)
(***************************************************************************)

LEMMA InitRefines == Init => Atomic!Init
<1> SUFFICES ASSUME Init PROVE Atomic!Init
  OBVIOUS
<1> USE SectorsAssumption, SentinelsAssumption
<1>1. ~Active
  BY DEF Init, Active, EmptyHeader
<1>2. Stored = [s \in Sectors |-> IF s \in HistorySectors THEN Blank ELSE Free]
  BY <1>1 DEF Init, Stored, RecoveredData, RecoveredBitmap, Sectors, Allocated
<1>3. Phase = "down" /\ Pending = NoTxn
  BY DEF Init, Phase, Pending, TxnWrites
<1> QED
  BY <1>2, <1>3 DEF Init, Atomic!Init, Atomic!Sectors, Atomic!Allocated, Sectors, Allocated

(* A step that keeps the stored contents, the transaction and the phase.   *)
LEMMA Stutters ==
    ASSUME Stored' = Stored, txn' = txn, result' = result, Phase' = Phase,
           pc \in TxnWrites <=> pc' \in TxnWrites
    PROVE  UNCHANGED Atomic!vars
BY DEF Atomic!vars, Pending

LEMMA BeginRefines ==
    ASSUME NEW t \in Txns, Begin(t), Admissible(t)
    PROVE  Atomic!Next
<1>1. pc = "idle" /\ pc' \in {"j_bitmap", "j_content"} /\ txn' = t /\ result' = "none"
  BY DEF Begin, After
<1>2. Stored' = Stored
  BY SameCardSameStored DEF Begin
<1>3. Phase = "idle" /\ Phase' = "busy"
  BY <1>1 DEF Phase, TxnWrites
<1> DEFINE v == IF t.bit = "clear" THEN Free ELSE t.new
<1>4. Pending' = [sector |-> t.sector, value |-> v]
  BY <1>1 DEF Pending, TxnWrites
<1>5. t.sector \in Atomic!Sectors
  BY DEF Txns, Atomic!Sectors, Atomic!Allocated, Sectors, Allocated
<1>6. v \in Atomic!Storable(t.sector)
  BY SectorsAssumption DEF Admissible, Atomic!Storable
<1>7. Atomic!Begin(t.sector, v)
  BY <1>1, <1>2, <1>3, <1>4 DEF Atomic!Begin
<1> QED
  BY <1>5, <1>6, <1>7 DEF Atomic!Next

(* journal_free is the commit point.                                       *)
LEMMA JournalFreeRefines ==
    ASSUME JournalInv, JournalFree
    PROVE  Atomic!Next
<1>1. Pending = [sector |-> txn.sector,
                 value  |-> IF txn.bit = "clear" THEN Free ELSE txn.new]
  BY DEF JournalFree, Step, Pending, TxnWrites
<1>2. CASE pc = "free"
  <2>1. Phase = "busy" /\ pc' \in {"idle", "free_again"}
    BY <1>2 DEF Phase, TxnWrites, JournalFree, Step, After
  <2>2. Stored' = [Stored EXCEPT ![Pending.sector] = Pending.value]
    BY <1>1, <1>2, CommitStores
  <2>3. CASE pc' = "idle"
    <3>1. Phase' = "idle" /\ Pending' = NoTxn /\ result' = "ok"
      BY <2>3 DEF Phase, Pending, JournalFree, ReturnIfDone, TxnWrites
    <3> QED
      BY <2>1, <2>2, <3>1 DEF Atomic!Commit, Atomic!Next
  <2>4. CASE pc' = "free_again"
    <3>1. Phase' = "committed" /\ Pending' = Pending /\ result' = result
      BY <1>2, <2>4 DEF Phase, Pending, JournalFree, ReturnIfDone, TxnWrites
    <3> QED
      BY <2>1, <2>2, <3>1 DEF Atomic!Commit, Atomic!Next
  <2> QED
    BY <2>1, <2>3, <2>4
<1>3. CASE pc = "free_again"
  <2>1. Phase = "committed" /\ pc' = "idle" /\ Stored' = Stored
    BY <1>3, JournalFreeInv DEF Phase, JournalFree, Step, After
  <2>2. Phase' = "idle" /\ Pending' = NoTxn /\ result' = "ok"
    BY <2>1 DEF Phase, Pending, JournalFree, ReturnIfDone, TxnWrites
  <2> QED
    BY <2>1, <2>2 DEF Atomic!Finish, Atomic!Next
<1> QED
  BY <1>2, <1>3 DEF JournalFree, Step

(* A failed write before the commit changed nothing; the one after it can  *)
(* only be the second journal_free of write_contact.                       *)
LEMMA WriteFailsRefines ==
    ASSUME JournalInv, WriteFails, FailuresLast
    PROVE  Atomic!Next \/ Atomic!FailCommittedContact
<1>1. pc' = "idle" /\ result' = "fail" /\ Stored' = Stored
  BY WriteFailsInv DEF WriteFails
<1>2. Phase' = "idle" /\ Pending' = NoTxn
  BY <1>1 DEF Phase, Pending, TxnWrites
<1>3. CASE pc = "free_again"
  <2>1. Phase = "committed" /\ Pending.sector \in ContactSectors
    BY <1>3 DEF Phase, Pending, TxnWrites, JournalInv, TxnSound
  <2> QED
    BY <1>1, <1>2, <2>1 DEF Atomic!FailCommittedContact
<1>4. CASE pc # "free_again"
  <2>1. Phase = "busy"
    BY <1>4 DEF Phase, TxnWrites, WriteFails
  <2> QED
    BY <1>1, <1>2, <2>1 DEF Atomic!Fail, Atomic!Next
<1> QED
  BY <1>3, <1>4

LEMMA TransactionRefines ==
    ASSUME JournalInv, Transaction, FailuresLast
    PROVE  [Atomic!Next \/ Atomic!FailCommittedContact]_(Atomic!vars)
<1>1. CASE JournalBitmap \/ JournalContent \/ JournalHeader \/ UpdateUsageBit \/ WriteData
  <2>1. Stored' = Stored
    BY <1>1, JournalBitmapInv, JournalContentInv, JournalHeaderInv, UpdateUsageBitInv,
       WriteDataInv
  <2>2. /\ pc \in TxnWrites \ {"free_again"} /\ pc' \in TxnWrites \ {"free_again"}
        /\ txn' = txn /\ result' = result
    BY <1>1 DEF JournalBitmap, JournalContent, JournalHeader, UpdateUsageBit, WriteData, Step,
                After, TxnWrites, ram
  <2>3. Phase' = Phase
    BY <2>2 DEF Phase, TxnWrites
  <2> QED
    BY <2>1, <2>2, <2>3, Stutters
<1>2. CASE JournalFree
  BY <1>2, JournalFreeRefines
<1>3. CASE WriteFails
  BY <1>3, WriteFailsRefines
<1> QED
  BY <1>1, <1>2, <1>3 DEF Transaction

LEMMA BootRefines ==
    ASSUME JournalInv, Boot, FailuresLast
    PROVE  [Atomic!Next]_(Atomic!vars)
<1>0. Stored' = Stored
  BY PowerOnInv, RollbackContentInv, RollbackBitmapInv, RollbackFreeInv, RollbackFailsInv,
     ReadBitmapInv DEF Boot
<1>1. CASE PowerOn \/ RollbackContent \/ RollbackBitmap \/ RollbackFree \/ RollbackFails
  <2>1. /\ pc \in BootWrites \cup {"off"} /\ pc' \in BootWrites \cup {"load", "refused"}
        /\ txn' = txn /\ result' = result
    BY <1>1 DEF PowerOn, RollbackContent, RollbackBitmap, RollbackFree, RollbackFails,
                BootWrites, ram
  <2>2. Phase' = Phase /\ pc \notin TxnWrites /\ pc' \notin TxnWrites
    BY <2>1 DEF Phase, TxnWrites, BootWrites
  <2> QED
    BY <1>0, <2>1, <2>2, Stutters
<1>2. CASE ReadBitmap
  <2>1. pc = "load" /\ txn' = txn /\ result' = result /\ pc' \in {"idle", "refused"}
    BY <1>2 DEF ReadBitmap
  <2>2. CASE pc' = "idle"
    <3>1. Phase = "down" /\ Phase' = "idle" /\ Pending' = Pending
      BY <2>1, <2>2 DEF Phase, Pending, TxnWrites
    <3> QED
      BY <1>0, <2>1, <3>1 DEF Atomic!Recover, Atomic!Next
  <2>3. CASE pc' = "refused"
    <3>1. Phase' = Phase /\ pc \notin TxnWrites /\ pc' \notin TxnWrites
      BY <2>1, <2>3 DEF Phase, TxnWrites
    <3> QED
      BY <1>0, <2>1, <3>1, Stutters
  <2> QED
    BY <2>1, <2>2, <2>3
<1> QED
  BY <1>1, <1>2 DEF Boot

LEMMA PowerCutRefines ==
    ASSUME JournalInv, PowerCut, hdr' # Torn
    PROVE  Atomic!Next
<1>1. Stored' = Stored /\ pc' = "off" /\ result' = "none"
  BY PowerCutInv DEF PowerCut
<1>2. Phase' = "down" /\ Pending' = NoTxn
  BY <1>1 DEF Phase, Pending, TxnWrites
<1> QED
  BY <1>1, <1>2 DEF Atomic!Crash, Atomic!Next

LEMMA NextRefines ==
    SafeCard /\ JournalInv /\ [Next]_vars
      => [Atomic!Next \/ Atomic!FailCommittedContact]_(Atomic!vars)
<1> SUFFICES ASSUME SafeCard, JournalInv, [Next]_vars
             PROVE  [Atomic!Next \/ Atomic!FailCommittedContact]_(Atomic!vars)
  OBVIOUS
<1>0. hdr' # Torn /\ FailuresLast
  BY NextInv DEF SafeCard, JournalInv, HeaderSound
<1>1. CASE Operation
  BY <1>1, OperationBegins, BeginRefines
<1>2. CASE Transaction
  BY <1>0, <1>2, TransactionRefines
<1>3. CASE Boot
  BY <1>0, <1>3, BootRefines
<1>4. CASE PowerCut
  BY <1>0, <1>4, PowerCutRefines
<1>5. CASE UNCHANGED vars
  <2>1. UNCHANGED card /\ pc' = pc /\ txn' = txn /\ result' = result
    BY <1>5 DEF vars, ram
  <2>2. Stored' = Stored /\ Phase' = Phase
    BY <2>1, SameCardSameStored DEF Phase
  <2> QED
    BY <2>1, <2>2, Stutters
<1> QED
  BY <1>1, <1>2, <1>3, <1>4, <1>5 DEF Next

(* Transactions are indivisible on the stored contents, for every set of   *)
(* sectors: a sequence of power cuts, failed writes and reboots exposes    *)
(* either all of a transaction or none of it.                              *)
THEOREM JournalIsAtomic == SafeCard => (Spec => AtomicTransactions)
<1> SUFFICES ASSUME SafeCard PROVE Spec => AtomicTransactions
  OBVIOUS
<1>1. JournalInv /\ [Next]_vars
        => [Atomic!Next \/ Atomic!FailCommittedContact]_(Atomic!vars)
  BY NextRefines
<1>2. Spec => []JournalInv
  BY JournalInvariant
<1> QED
  BY <1>1, <1>2, InitRefines, PTL DEF Spec, AtomicTransactions, Atomic!WeakSpec
=============================================================================
