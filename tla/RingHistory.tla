---------------------------- MODULE RingHistory ----------------------------
(***************************************************************************)
(* A history ring (message_history.c, and call_history.c, its copy for     *)
(* calls) on the ring buffer of ring_buffer.c.  Adding an entry fills the  *)
(* current sector slot by slot; an add that finds it full marks it FULL in *)
(* one journal transaction and writes the entry to the next sector in a    *)
(* second one.  The current sector is not stored: a boot finds it again by *)
(* a binary search over the sectors' sequence numbers.                     *)
(*                                                                         *)
(* A transaction is three steps here: journal_add saves the sector         *)
(* (undo # NoUndo is the ACTIVE header), the sector is written in place,   *)
(* journal_free drops the saved copy.  Module Journal has their single     *)
(* sector writes.                                                          *)
(***************************************************************************)
EXTENDS Integers, SequencesExt

CONSTANTS
    Size,          \* sectors in the ring
    Capacity,      \* entries in a sector
    SeqModulus,    \* sequence numbers count modulo this (2^32 in the code)
    MaxAdds,       \* bound: adds attempted
    MayFail        \* TRUE if writes can fail (until power is cut)

(* The code's ring has 5000 sectors and 2^32 sequence numbers.             *)
ASSUME RingAssumption ==
    /\ Size \in Nat \ {0} /\ Capacity \in Nat \ {0}
    /\ SeqModulus \in Nat /\ SeqModulus > Size
    /\ MaxAdds \in Nat
    /\ MayFail \in BOOLEAN

Indices == 0 .. Size - 1
Seqs    == 0 .. SeqModulus - 1
Entries == 1 .. MaxAdds     \* entries are named in the order of their adds

(* RingBufferHeader and the slots; slots above head hold stale entries.    *)
SectorContents == [state : {"EMPTY", "OCCUPIED", "FULL"}, seq : Seqs,
                   head : 0 .. Capacity - 1, slots : [0 .. Capacity - 1 -> Entries \cup {0}]]
Cleared == [state |-> "EMPTY", seq |-> 0, head |-> 0,
            slots |-> [i \in 0 .. Capacity - 1 |-> 0]]

Undos  == [index : Indices, old : SectorContents]
NoUndo == [index |-> Size, old |-> Cleared]

(* RingBuffer: the cursor in RAM.                                          *)
Rings == [current : Indices, occupancy : 0 .. Size, seq : Seqs]
EmptyRing == [current |-> 0, occupancy |-> 0, seq |-> 0]

VARIABLES
    sectors,   \* card: the ring's sectors
    undo,      \* card: the sector saved by an ACTIVE journal, or NoUndo
    rb,        \* RAM: the ring's cursor
    pc,        \* "off", "idle" or the next step of an add
    moved,     \* RAM: message_history_add runs for the second time in this add
    attempted, \* adds begun so far; the last one's entry
    acked,     \* ghost: the entries whose add returned STRG_OK
    failing,   \* writes fail until power is cut
    split      \* ghost: power was cut, or a write failed, between the two
               \* transactions of an add

vars == <<sectors, undo, rb, pc, moved, attempted, acked, failing, split>>

(* database_format: clear_ring_buffer writes every sector EMPTY.           *)
Init ==
    /\ sectors = [i \in Indices |-> Cleared]
    /\ undo = NoUndo
    /\ rb = EmptyRing
    /\ pc = "off"
    /\ moved = FALSE
    /\ attempted = 0
    /\ acked = {}
    /\ failing = FALSE
    /\ split = FALSE

-----------------------------------------------------------------------------
(* Mutant: the cursor wraps one sector early.                              *)
MoveNextEarly(r) == [r EXCEPT !.current = IF @ + 1 < r.occupancy - 1 THEN @ + 1 ELSE 0]

(* The cursor's moves.                                                     *)
AddToRing(r) == [r EXCEPT !.occupancy = IF @ < Size THEN @ + 1 ELSE @]
MoveNext(r)  == [r EXCEPT !.current = IF @ < r.occupancy - 1 THEN @ + 1 ELSE 0]
IncSeq(r)    == [r EXCEPT !.seq = (@ + 1) % SeqModulus]

(* Mutant: the comparison that a never wrapping sequence would allow.      *)
TargetRightNoWrap(card, mid) ==
    card[mid].state # "EMPTY" /\ card[mid].seq >= card[0].seq

(* binary_search_head: the sectors of the current lap continue the first   *)
(* one's sequence, one by one; those of the lap before do not.             *)
TargetRight(card, mid) ==
    /\ card[mid].state # "EMPTY"
    /\ (card[mid].seq + SeqModulus - card[0].seq) % SeqModulus = mid

(* The round of its loop, which changes nothing once the bounds have met.  *)
SearchRound(card, at) ==
    LET mid == at.lo + (at.hi - at.lo) \div 2
    IN  IF at.hi - at.lo <= 1 THEN at
        ELSE IF TargetRight(card, mid) THEN [at EXCEPT !.lo = mid] ELSE [at EXCEPT !.hi = mid]

SearchHead(card) ==
    LET search[k \in 0 .. Size] ==      \* after k rounds
            IF k = 0 THEN [lo |-> 0, hi |-> Size] ELSE SearchRound(card, search[k - 1])
    IN  search[Size].lo

(* reconstruct_ring_buffer                                                 *)
Rebuild(card) ==
    IF card[0].state = "EMPTY" THEN EmptyRing
    ELSE LET head == SearchHead(card)
             wrapped == head = Size - 1 \/ card[head + 1].state # "EMPTY"
         IN  [current |-> head, occupancy |-> IF wrapped THEN Size ELSE head + 1,
              seq |-> card[head].seq]

-----------------------------------------------------------------------------
(* message_history_get_range: at most n entries, the first being number    *)
(* start counted from the newest.                                          *)

(* The entries of a sector from slot pos down, newest first.               *)
SectorEntries(sector, pos) ==
    IF sector.state = "EMPTY" THEN <<>>
    ELSE [k \in 1 .. pos + 1 |-> sector.slots[pos + 1 - k]]

(* Sectors before the one that holds entry number start, when the current  *)
(* one holds count entries, and that entry's slot there.                   *)
SectorsToStart(start, count) ==
    IF start < count THEN 0 ELSE 1 + (start - count) \div Capacity

(* Mutant: an older sector read from its oldest slot.                      *)
StartSlotNotInverted(start, count) ==
    IF start < count THEN count - 1 - start ELSE (start - count) % Capacity

StartSlot(start, count) ==
    IF start < count THEN count - 1 - start
    ELSE Capacity - 1 - ((start - count) % Capacity)

(* The index that the iterator has after k steps back: it wraps within the *)
(* occupied sectors.                                                       *)
StepsBack(r, k) == (r.current + r.occupancy - k) % r.occupancy

GetRange(card, r, start, n) ==
    LET current == card[r.current]
        skip    == SectorsToStart(start, current.head + 1)
        pos     == StartSlot(start, current.head + 1)
        Sector(k) == card[StepsBack(r, k)]
        visits  == <<SectorEntries(Sector(skip), pos)>> \o
                   [k \in 1 .. r.occupancy - skip - 1 |->
                        SectorEntries(Sector(skip + k), Capacity - 1)]
        all     == FlattenSeq(visits)
    IN  CASE current.state = "EMPTY" -> [ok |-> TRUE, list |-> <<>>]
          [] current.state # "EMPTY" /\ skip >= r.occupancy -> [ok |-> FALSE, list |-> <<>>]
          [] OTHER -> [ok |-> TRUE, list |-> SubSeq(all, 1, IF n < Len(all) THEN n ELSE Len(all))]

Listing(card, r) == GetRange(card, r, 0, Size * Capacity).list

-----------------------------------------------------------------------------
(* message_history_add                                                     *)

BeginAdd ==
    /\ pc = "idle" /\ attempted < MaxAdds
    /\ attempted' = attempted + 1
    /\ rb' = IF rb.occupancy = 0 THEN AddToRing(rb) ELSE rb
    /\ pc' = "journal"
    /\ UNCHANGED <<sectors, undo, moved, acked, failing, split>>

JournalAdd ==
    /\ pc = "journal" /\ ~failing
    /\ undo' = [index |-> rb.current, old |-> sectors[rb.current]]
    /\ pc' = "write"
    /\ UNCHANGED <<sectors, rb, moved, attempted, acked, failing, split>>

(* An EMPTY sector, or a FULL one of the lap before, is started afresh; the *)
(* entry goes to the next slot of an OCCUPIED one, unless it has none.     *)
NoSlotLeft(sector) == sector.state = "OCCUPIED" /\ sector.head = Capacity - 1

(* Mutant: a reused sector keeps the sequence number of its last lap.      *)
WithEntryOldSeq(sector, e) ==
    LET head == IF sector.state = "OCCUPIED" THEN sector.head + 1 ELSE 0
    IN  [state |-> "OCCUPIED",
         seq   |-> IF sector.state = "EMPTY" THEN rb.seq ELSE sector.seq,
         head  |-> head,
         slots |-> [sector.slots EXCEPT ![head] = e]]

WithEntry(sector, e) ==
    LET head == IF sector.state = "OCCUPIED" THEN sector.head + 1 ELSE 0
    IN  [state |-> "OCCUPIED",
         seq   |-> IF sector.state = "OCCUPIED" THEN sector.seq ELSE rb.seq,
         head  |-> head,
         slots |-> [sector.slots EXCEPT ![head] = e]]

WriteSector ==
    /\ pc = "write" /\ ~failing
    /\ LET sector == sectors[rb.current]
       IN  IF NoSlotLeft(sector)
           THEN /\ sectors' = [sectors EXCEPT ![rb.current].state = "FULL"]
                /\ pc' = "free_full"
           ELSE /\ sectors' = [sectors EXCEPT ![rb.current] = WithEntry(sector, attempted)]
                /\ pc' = "free"
    /\ UNCHANGED <<undo, rb, moved, attempted, acked, failing, split>>

(* set_sector_full_move_next: commit, move the cursor, add again.          *)
FreeFull ==
    /\ pc = "free_full" /\ ~failing
    /\ undo' = NoUndo
    /\ rb' = IncSeq(MoveNext(AddToRing(rb)))
    /\ pc' = "journal"
    /\ moved' = TRUE
    /\ UNCHANGED <<sectors, attempted, acked, failing, split>>

Free ==
    /\ pc = "free" /\ ~failing
    /\ undo' = NoUndo
    /\ pc' = "idle"
    /\ moved' = FALSE
    /\ acked' = acked \cup {attempted}
    /\ UNCHANGED <<sectors, rb, attempted, failing, split>>

(* A failed write: the add returns its error, what it did stays.           *)
WriteFails ==
    /\ pc \in {"journal", "write", "free_full", "free"}
    /\ MayFail
    /\ split' = (split \/ moved)
    /\ failing' = TRUE
    /\ pc' = "idle"
    /\ moved' = FALSE
    /\ UNCHANGED <<sectors, undo, rb, attempted, acked>>

PowerCut ==
    /\ pc # "off"
    /\ pc' = "off"
    /\ split' = (split \/ moved)
    /\ rb' = EmptyRing
    /\ moved' = FALSE
    /\ failing' = FALSE
    /\ UNCHANGED <<sectors, undo, attempted, acked>>

(* Mutant: the boot does not roll back.                                    *)
RecoveredAsIs == sectors

(* journal_rollback, then history_init.                                    *)
Recovered == IF undo = NoUndo THEN sectors ELSE [sectors EXCEPT ![undo.index] = undo.old]

Boot ==
    /\ pc = "off"
    /\ sectors' = Recovered
    /\ undo' = NoUndo
    /\ rb' = Rebuild(Recovered)
    /\ pc' = "idle"
    /\ UNCHANGED <<moved, attempted, acked, failing, split>>

Next == BeginAdd \/ JournalAdd \/ WriteSector \/ FreeFull \/ Free \/ WriteFails
        \/ PowerCut \/ Boot

Spec == Init /\ [][Next]_vars
-----------------------------------------------------------------------------
(* The sectors, the saved sector and the cursor are what their C types     *)
(* hold; the cursor stays inside the ring and its occupied part.           *)
TypeOK ==
    /\ sectors \in [Indices -> SectorContents]
    /\ undo \in Undos \cup {NoUndo}
    /\ rb \in Rings
    /\ pc \in {"off", "idle", "journal", "write", "free_full", "free"}
    /\ moved \in BOOLEAN
    /\ attempted \in 0 .. MaxAdds
    /\ acked \subseteq Entries
    /\ failing \in BOOLEAN /\ split \in BOOLEAN
    /\ pc \in {"journal", "write", "free_full", "free"} => rb.current < rb.occupancy

(* What the next boot would list.                                          *)
Durable == Listing(Recovered, Rebuild(Recovered))

(* message_history_add promises a ring: once an add has returned STRG_OK,  *)
(* its entry is listed after any reboot until newer entries have filled    *)
(* every other sector of the ring.                                         *)
AcknowledgedKept ==
    \A e \in acked : ~Contains(Durable, e) =>
        /\ Len(Durable) > (Size - 1) * Capacity
        /\ \A k \in DOMAIN Durable : Durable[k] > e

(* The same where no add was split.                                        *)
WholeAddsKept == ~split => AcknowledgedKept

(* Whatever was cut, the binary search finds the sector of the newest      *)
(* entry: the list a reboot gives is in order of time, newest first, and   *)
(* no entry is listed twice.                                               *)
DurableNewestFirst ==
    \A k \in 1 .. Len(Durable) - 1 : Durable[k] > Durable[k + 1]

(* The cursor that a boot would rebuild is the one the adds have moved to  *)
(* (ReconstructAfterAddsMatchesRamState), sequence wrap included.          *)
RebuildMatchesRam == pc = "idle" /\ ~failing => Rebuild(sectors) = rb

(* Paging agrees with the full list: a page from any start is that slice   *)
(* of it, and a start past the oldest entry is refused.                    *)
RangesAreSlices ==
    pc = "idle" =>
        LET whole == Listing(sectors, rb)
        IN  \A start \in 0 .. Size * Capacity, n \in 0 .. Size * Capacity :
                LET page == GetRange(sectors, rb, start, n)
                IN  IF start < Len(whole)
                    THEN page.ok /\ page.list = SubSeq(whole, start + 1,
                                      IF start + n < Len(whole) THEN start + n ELSE Len(whole))
                    ELSE page.list = <<>> /\ (page.ok <=> whole = <<>>)

(* While the database runs, the list starts with the newest entry that an  *)
(* add has acknowledged, or with a later one (message_history.h: 0 is the  *)
(* latest message), also after an add that failed.                         *)
LatestListedFirst ==
    pc = "idle" /\ acked # {} =>
        LET whole == Listing(sectors, rb)
        IN  whole # <<>> /\ \A e \in acked : whole[1] >= e

(* The same where no add was split.                                        *)
WholeAddsListedFirst == ~split => LatestListedFirst
=============================================================================
