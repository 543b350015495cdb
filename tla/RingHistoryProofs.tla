------------------------- MODULE RingHistoryProofs -------------------------
(***************************************************************************)
(* Proofs about RingHistory, for a ring and sectors of any size, any       *)
(* number of adds, and writes that may fail and be cut at every step.      *)
(*                                                                         *)
(* The card is looked at as the next boot will see it (Recovered): there   *)
(* it is a ring at every moment (Ring), and the cursor that the boot's     *)
(* search finds is the only one that fits it.                              *)
(***************************************************************************)
EXTENDS RingHistory, RecursionLemmas

SlotIndices == 0 .. Capacity - 1

(* The sectors that a cursor calls occupied.                               *)
Used(r) == 0 .. r.occupancy - 1

(* In a ring with its head at h, sector i was begun before sector j.       *)
Older(i, j, h) == IF i <= h THEN j <= h /\ i < j ELSE j <= h \/ i < j

Sequenced(card, r) ==
    /\ card[r.current].seq = r.seq
    /\ \A i \in 0 .. r.current : card[i].seq = (card[0].seq + i) % SeqModulus
    /\ \A i \in r.current + 1 .. r.occupancy - 1 :
          card[i].seq = (card[0].seq + SeqModulus - Size + i) % SeqModulus

InOrder(card, r) ==
    \A i1, i2 \in Used(r) : \A j1 \in 0 .. card[i1].head, j2 \in 0 .. card[i2].head :
        Older(i1, i2, r.current) \/ (i1 = i2 /\ j1 < j2)
            => card[i1].slots[j1] < card[i2].slots[j2]

(* The card is a ring with cursor r: an empty one; one in its first lap;   *)
(* or one in which the lap before follows the head.                        *)
RingAt(card, r) ==
    /\ r.current \in Used(r)
    /\ r.occupancy < Size => r.current = r.occupancy - 1
    /\ card[r.current].state # "EMPTY"
    /\ card[r.current].state = "FULL" => card[r.current].head = Capacity - 1
    /\ \A i \in Used(r) \ {r.current} : card[i].state = "FULL" /\ card[i].head = Capacity - 1
    /\ Sequenced(card, r)
    /\ InOrder(card, r)

Ring(card, r) ==
    /\ card \in [Indices -> SectorContents] /\ r \in Rings
    /\ \A i \in Indices \ Used(r) : card[i].state = "EMPTY"
    /\ IF r.occupancy = 0 THEN r = EmptyRing ELSE RingAt(card, r)

Newest(card, r) == card[r.current].slots[card[r.current].head]

InRing(card, r, e) ==
    \E i \in Used(r) : \E j \in 0 .. card[i].head : card[i].slots[j] = e

AllLater(card, r, e) ==
    \A i \in Used(r) : \A j \in 0 .. card[i].head : card[i].slots[j] > e

(* Whatever the cursor points at can be paged through.                     *)
Pageable(card, r) ==
    \/ card[r.current].state = "EMPTY"
    \/ \A i \in Used(r) \ {r.current} : card[i].state # "EMPTY" /\ card[i].head = Capacity - 1

-----------------------------------------------------------------------------
(* The inductive invariant.                                                *)
Cursor == Rebuild(Recovered)

Begun(r) == IF r.occupancy = 0 THEN AddToRing(r) ELSE r
Moved(r) == IncSeq(MoveNext(AddToRing(r)))

AddCursor == IF moved THEN Moved(Cursor) ELSE Begun(Cursor)

(* Where an add is, what it has saved and written.                         *)
AddInv ==
    /\ moved => /\ pc \in {"journal", "write", "free"}
                /\ Cursor.occupancy # 0 /\ Recovered[Cursor.current].state = "FULL"
    /\ ~failing =>
        CASE pc = "off"  -> TRUE
          [] pc = "idle" -> undo = NoUndo /\ rb = Cursor
          [] pc = "journal" -> undo = NoUndo /\ rb = AddCursor
          [] pc = "write" ->
                /\ undo = [index |-> rb.current, old |-> sectors[rb.current]]
                /\ rb = AddCursor
          [] pc = "free_full" ->
                /\ undo.index = rb.current /\ rb = Cursor /\ rb.occupancy # 0
                /\ NoSlotLeft(undo.old)
                /\ sectors[rb.current] = [undo.old EXCEPT !.state = "FULL"]
          [] pc = "free" ->
                /\ undo.index = rb.current /\ rb = AddCursor
                /\ ~NoSlotLeft(undo.old)
                /\ sectors[rb.current] = WithEntry(undo.old, attempted)

(* No entry is later than the last add, and until that is written none is  *)
(* as late.                                                                *)
EarlierThan(card, n) == \A i \in Indices, j \in SlotIndices : card[i].slots[j] < n

EntriesInv ==
    /\ EarlierThan(sectors, attempted + 1) /\ EarlierThan(Recovered, attempted + 1)
    /\ pc \in {"journal", "write", "free_full"} => EarlierThan(sectors, attempted)
    /\ pc \in {"journal", "write", "free_full", "free"} => EarlierThan(Recovered, attempted)

(* After a failed write what is in RAM need not fit the card.              *)
FailedInv ==
    failing =>
        /\ pc \in {"idle", "journal"} /\ ~moved
        /\ rb.current \in Used(rb) /\ Pageable(sectors, rb)
        /\ ~split => \A e \in acked : /\ sectors[rb.current].state # "EMPTY"
                                      /\ e <= Newest(sectors, rb)

AckedInv ==
    /\ \A e \in acked : Cursor.occupancy # 0 /\ e <= Newest(Recovered, Cursor)
    /\ ~split /\ ~moved /\ Cursor.occupancy # 0 => Recovered[Cursor.current].state = "OCCUPIED"
    /\ ~split =>
          \A e \in acked : \/ InRing(Recovered, Cursor, e)
                           \/ Cursor.occupancy = Size /\ AllLater(Recovered, Cursor, e)

RingInv ==
    /\ TypeOK
    /\ Ring(Recovered, Cursor)
    /\ AddInv
    /\ EntriesInv
    /\ FailedInv
    /\ AckedInv

-----------------------------------------------------------------------------
(* A number below twice the modulus wraps at most once.                    *)
LEMMA WrapOnce ==
    ASSUME NEW n \in Nat, n > 0, NEW a \in 0 .. 2 * n - 1
    PROVE  a % n = IF a < n THEN a ELSE a - n
  OBVIOUS

LEMMA SeqWraps ==
    \A a \in 0 .. 2 * SeqModulus - 1 :
        a % SeqModulus = IF a < SeqModulus THEN a ELSE a - SeqModulus
  BY RingAssumption, WrapOnce

LEMMA RingNumbers ==
    /\ Size \in Nat /\ Size > 0 /\ Capacity \in Nat /\ Capacity > 0
    /\ SeqModulus \in Nat /\ SeqModulus > Size /\ SeqModulus > 0
    /\ 0 \in Indices /\ Size - 1 \in Indices /\ 0 \in Seqs
    /\ \A i \in Indices : i \in Nat /\ i < Size
    /\ \A i \in Seqs : i \in Nat /\ i < SeqModulus
  BY RingAssumption DEF Indices, Seqs

(* binary_search_head asks a question that tells the sectors of the lap at *)
(* hand, to which the head belongs, from all others.                       *)
LEMMA TargetRightTellsLaps ==
    ASSUME NEW card, NEW r, Ring(card, r), r.occupancy # 0, NEW mid \in 1 .. Size - 1
    PROVE  TargetRight(card, mid) <=> mid <= r.current
<1> DEFINE first == card[0].seq
           here == card[mid].seq
<1>1. /\ card \in [Indices -> SectorContents] /\ mid \in Indices
      /\ first \in Seqs /\ here \in Seqs /\ RingAt(card, r)
      /\ r.current \in Nat /\ r.occupancy \in 0 .. Size /\ mid \in Nat /\ mid # 0
  <2>1. card \in [Indices -> SectorContents] /\ r \in Rings /\ RingAt(card, r)
    BY DEF Ring
  <2>2. mid \in Indices /\ mid \in Nat /\ mid # 0
    BY RingNumbers DEF Indices
  <2>3. r.current \in Nat /\ r.occupancy \in 0 .. Size
    BY <2>1, RingNumbers DEF Rings
  <2>4. first \in Seqs /\ here \in Seqs
    BY <2>1, <2>2, RingNumbers DEF SectorContents
  <2> QED
    BY <2>1, <2>2, <2>3, <2>4
<1>2. CASE mid <= r.current
  <2>1. here = (first + mid) % SeqModulus /\ card[mid].state # "EMPTY"
    <3>1. mid \in 0 .. r.current /\ mid \in Used(r)
      BY <1>1, <1>2, RingNumbers DEF RingAt, Used
    <3> QED
      BY <1>1, <3>1 DEF RingAt, Sequenced
  <2>2. here = first + mid \/ here = first + mid - SeqModulus
    <3> HIDE DEF first, here
    <3> DEFINE a == first + mid
    <3>1. a \in 0 .. 2 * SeqModulus - 1 /\ here = a % SeqModulus
      BY <1>1, <2>1, RingNumbers DEF Seqs
    <3>2. here = a \/ here = a - SeqModulus
      <4> HIDE DEF a
      <4> QED BY <3>1, SeqWraps
    <3> QED
      BY <1>1, <3>2, RingNumbers DEF Seqs
  <2>3. (here + SeqModulus - first) % SeqModulus = mid
    <3> HIDE DEF first, here
    <3> DEFINE a == here + SeqModulus - first
    <3>1. a \in 0 .. 2 * SeqModulus - 1 /\ (a = mid + SeqModulus \/ a = mid)
      BY <1>1, <2>2, RingNumbers DEF Seqs
    <3>2. a % SeqModulus = IF a < SeqModulus THEN a ELSE a - SeqModulus
      <4> HIDE DEF a
      <4> QED BY <3>1, RingNumbers, SeqWraps
    <3> QED
      BY <1>1, <3>1, <3>2, RingNumbers
  <2> QED
    BY <1>2, <2>1, <2>3 DEF TargetRight
<1>3. CASE mid > r.current /\ mid < r.occupancy
  <2>1. here = (first + SeqModulus - Size + mid) % SeqModulus
    <3>1. mid \in r.current + 1 .. r.occupancy - 1
      BY <1>1, <1>3, RingNumbers
    <3> QED
      BY <1>1, <3>1 DEF RingAt, Sequenced
  <2>2. (here + SeqModulus - first) % SeqModulus # mid
    <3> HIDE DEF first, here
    <3> DEFINE b == first + SeqModulus - Size + mid
               a == here + SeqModulus - first
    <3>1. b \in 0 .. 2 * SeqModulus - 1 /\ here = b % SeqModulus
      BY <1>1, <2>1, RingNumbers DEF Seqs
    <3>2. here = IF b < SeqModulus THEN b ELSE b - SeqModulus
      <4> HIDE DEF b
      <4> QED BY <3>1, RingNumbers, SeqWraps
    <3>3. a \in 0 .. 2 * SeqModulus - 1 /\ (a = mid - Size + 2 * SeqModulus \/ a = mid - Size + SeqModulus)
      BY <1>1, <3>2, RingNumbers DEF Seqs
    <3>4. a % SeqModulus = IF a < SeqModulus THEN a ELSE a - SeqModulus
      <4> HIDE DEF a
      <4> QED BY <3>3, RingNumbers, SeqWraps
    <3> QED
      BY <1>1, <3>3, <3>4, RingNumbers
  <2> QED
    BY <1>1, <1>3, <2>2, RingNumbers DEF TargetRight
<1>4. CASE mid > r.current /\ mid >= r.occupancy
  <2>1. card[mid].state = "EMPTY"
    BY <1>1, <1>4, RingNumbers DEF Ring, Used
  <2> QED
    BY <1>1, <1>4, <2>1, RingNumbers DEF TargetRight
<1> QED
  BY <1>1, <1>2, <1>3, <1>4, RingNumbers

(* The bounds of the search.                                               *)
Bounds == [lo : 0 .. Size, hi : 0 .. Size]

SearchSteps(g, card) ==
    /\ g \in [0 .. Size -> Bounds]
    /\ g[0] = [lo |-> 0, hi |-> Size]
    /\ \A k \in 1 .. Size : g[k] = SearchRound(card, g[k - 1])
    /\ SearchHead(card) = g[Size].lo

LEMMA SearchRoundBounds ==
    ASSUME NEW card, NEW at \in Bounds
    PROVE  SearchRound(card, at) \in Bounds
<1>1. at.lo \in 0 .. Size /\ at.hi \in 0 .. Size
  BY DEF Bounds
<1> DEFINE mid == at.lo + (at.hi - at.lo) \div 2
<1>2. CASE at.hi - at.lo <= 1
  BY <1>2 DEF SearchRound
<1>3. CASE ~ (at.hi - at.lo <= 1)
  <2>1. mid \in 0 .. Size
    BY <1>1, <1>3, RingNumbers
  <2>2. [at EXCEPT !.lo = mid] \in Bounds /\ [at EXCEPT !.hi = mid] \in Bounds
    <3> HIDE DEF mid
    <3> QED BY <2>1 DEF Bounds
  <2> QED
    BY <1>3, <2>2 DEF SearchRound
<1> QED
  BY <1>2, <1>3

LEMMA SearchHeadSteps ==
    ASSUME NEW card
    PROVE  \E g : SearchSteps(g, card)
<1> DEFINE Body(g) == [k \in 0 .. Size |-> IF k = 0 THEN [lo |-> 0, hi |-> Size]
                                           ELSE SearchRound(card, g[k - 1])]
           search == CHOOSE g : g = Body(g)
           start == [lo |-> 0, hi |-> Size]
           step == [k \in 0 .. Size |-> [at \in Bounds |-> SearchRound(card, at)]]
<1>1. /\ start \in Bounds /\ 0 \in Nat /\ Size \in Nat /\ 0 <= Size
      /\ step \in [0 .. Size -> [Bounds -> Bounds]]
  BY RingNumbers, SearchRoundBounds DEF Bounds
<1>2. \E g : Iterates(g, 0, Size, Bounds, start, step)
  <2> HIDE DEF step, start
  <2> QED BY <1>1, RecursionExists
<1>3. PICK h : Iterates(h, 0, Size, Bounds, start, step)
  BY <1>2
<1>4. /\ h \in [0 .. Size -> Bounds] /\ h[0] = start
      /\ \A k \in 1 .. Size : h[k] = SearchRound(card, h[k - 1])
  <2>1. /\ h \in [0 .. Size -> Bounds] /\ h[0] = start
        /\ \A k \in 0 + 1 .. Size : h[k] = step[k][h[k - 1]]
    BY <1>3 DEF Iterates
  <2>2. ASSUME NEW k \in 1 .. Size PROVE k \in 0 + 1 .. Size /\ k \in 0 .. Size /\ k - 1 \in 0 .. Size
    BY RingNumbers
  <2> QED
    BY <2>1, <2>2
<1>5. h = Body(h)
  <2>1. ASSUME NEW k \in 0 .. Size PROVE h[k] = IF k = 0 THEN start ELSE SearchRound(card, h[k - 1])
    <3>1. k # 0 => k \in 1 .. Size
      BY RingNumbers
    <3> QED
      BY <1>4, <3>1
  <2>2. h = [k \in 0 .. Size |-> h[k]]
    BY <1>4
  <2> QED
    BY <2>1, <2>2
<1>6. search = Body(search)
  BY <1>5
<1>7. SearchHead(card) = search[Size].lo
  BY DEF SearchHead
<1> HIDE DEF search
<1>8. \A k \in 0 .. Size : search[k] = IF k = 0 THEN start ELSE SearchRound(card, search[k - 1])
  BY <1>6
<1>9. search[0] = start /\ \A k \in 1 .. Size : search[k] = SearchRound(card, search[k - 1])
  <2>1. 0 \in 0 .. Size /\ \A k \in 1 .. Size : k \in 0 .. Size /\ k # 0
    BY RingNumbers
  <2> QED
    BY <1>8, <2>1
<1> DEFINE S == {k \in 0 .. Size : search[k] \in Bounds}
<1>10. 0 \in S
  BY <1>1, <1>9
<1>11. ASSUME NEW k \in 0 .. Size - 1, k \in S PROVE k + 1 \in S
  <2>1. k + 1 \in 1 .. Size /\ k + 1 \in 0 .. Size /\ (k + 1) - 1 = k
    BY RingNumbers
  <2>2. search[k + 1] = SearchRound(card, search[k]) /\ search[k] \in Bounds
    BY <1>9, <1>11, <2>1
  <2> QED
    BY <2>1, <2>2, SearchRoundBounds
<1>12. 0 .. Size \subseteq S
  <2> HIDE DEF S
  <2> QED BY <1>1, <1>10, <1>11, IntervalInduction
<1>13. search \in [0 .. Size -> Bounds]
  BY <1>6, <1>12
<1> QED
  BY <1>7, <1>9, <1>13 DEF SearchSteps

(* The binary search finds the head.                                       *)
LEMMA SearchFinds ==
    ASSUME NEW card, NEW r, Ring(card, r), r.occupancy # 0
    PROVE  SearchHead(card) = r.current
<1>1. PICK g : SearchSteps(g, card)
  BY SearchHeadSteps
<1>2. r.current \in Nat /\ r.current < Size /\ r.current \in Indices
  BY RingNumbers DEF Ring, Rings
<1> DEFINE Around(k) == /\ g[k].lo <= r.current /\ r.current < g[k].hi
                        /\ g[k].hi - g[k].lo <= 1 \/ g[k].hi - g[k].lo <= Size - k
           S == {k \in 0 .. Size : Around(k)}
<1>3. 0 \in S
  BY <1>1, <1>2, RingNumbers DEF SearchSteps
<1>4. ASSUME NEW k \in 0 .. Size - 1, k \in S PROVE k + 1 \in S
  <2>1. k + 1 \in 1 .. Size /\ k + 1 \in 0 .. Size /\ (k + 1) - 1 = k /\ k \in 0 .. Size
    BY RingNumbers
  <2>2. g[k] \in Bounds /\ g[k + 1] = SearchRound(card, g[k]) /\ Around(k)
    BY <1>1, <1>4, <2>1 DEF SearchSteps
  <2>3. g[k].lo \in 0 .. Size /\ g[k].hi \in 0 .. Size
    BY <2>2 DEF Bounds
  <2>4. CASE g[k].hi - g[k].lo <= 1
    BY <2>1, <2>2, <2>4 DEF SearchRound
  <2>5. CASE ~ (g[k].hi - g[k].lo <= 1)
    <3> DEFINE mid == g[k].lo + (g[k].hi - g[k].lo) \div 2
    <3>1. mid \in g[k].lo + 1 .. g[k].hi - 1 /\ mid \in 1 .. Size - 1
      BY <2>3, <2>5, RingNumbers
    <3>2. g[k + 1] = IF TargetRight(card, mid) THEN [g[k] EXCEPT !.lo = mid]
                                               ELSE [g[k] EXCEPT !.hi = mid]
      BY <2>2, <2>5 DEF SearchRound
    <3> HIDE DEF mid
    <3>3. TargetRight(card, mid) <=> mid <= r.current
      BY <3>1, TargetRightTellsLaps
    <3>4. CASE mid <= r.current
      <4>1. g[k + 1].lo = mid /\ g[k + 1].hi = g[k].hi
        BY <2>2, <3>2, <3>3, <3>4 DEF Bounds
      <4> QED
        BY <1>2, <2>1, <2>2, <2>3, <2>5, <3>1, <3>4, <4>1, RingNumbers
    <3>5. CASE ~ (mid <= r.current)
      <4>1. g[k + 1].hi = mid /\ g[k + 1].lo = g[k].lo
        BY <2>2, <3>2, <3>3, <3>5 DEF Bounds
      <4> QED
        BY <1>2, <2>1, <2>2, <2>3, <2>5, <3>1, <3>5, <4>1, RingNumbers
    <3> QED
      BY <3>4, <3>5
  <2> QED
    BY <2>4, <2>5
<1>5. 0 .. Size \subseteq S
  <2> HIDE DEF S
  <2>1. 0 \in Nat /\ Size \in Nat
    BY RingNumbers
  <2> QED BY <1>3, <1>4, <2>1, IntervalInduction
<1>6. Size \in 0 .. Size /\ Around(Size) /\ g[Size] \in Bounds
  BY <1>1, <1>5, RingNumbers DEF SearchSteps
<1>7. g[Size].lo \in 0 .. Size /\ g[Size].hi \in 0 .. Size
  BY <1>6 DEF Bounds
<1> QED
  BY <1>1, <1>2, <1>6, <1>7, RingNumbers DEF SearchSteps

(* reconstruct_ring_buffer finds the cursor that fits the card: there is   *)
(* no other.                                                               *)
LEMMA RebuildFinds ==
    ASSUME NEW card, NEW r, Ring(card, r)
    PROVE  Rebuild(card) = r
<1>1. /\ r \in Rings /\ r.current \in Indices /\ r.occupancy \in 0 .. Size /\ r.seq \in Seqs
      /\ r = [current |-> r.current, occupancy |-> r.occupancy, seq |-> r.seq]
  BY DEF Ring, Rings
<1>2. CASE r.occupancy = 0
  <2>1. card[0].state = "EMPTY" /\ r = EmptyRing
    BY <1>2, RingNumbers DEF Ring, Used
  <2> QED
    BY <2>1 DEF Rebuild
<1>3. CASE r.occupancy # 0
  <2>1. RingAt(card, r)
    BY <1>3 DEF Ring
  <2>2. card[0].state # "EMPTY"
    <3>1. 0 \in Used(r)
      BY <1>1, <1>3, RingNumbers DEF Used
    <3> QED
      BY <2>1, <3>1 DEF RingAt
  <2>3. SearchHead(card) = r.current
    BY <1>3, SearchFinds
  <2>4. (r.current = Size - 1 \/ card[r.current + 1].state # "EMPTY") <=> r.occupancy = Size
    <3>1. CASE r.occupancy = Size
      <4>1. r.current # Size - 1 => r.current + 1 \in Used(r) \ {r.current}
        BY <1>1, <3>1, RingNumbers DEF Used
      <4> QED
        BY <2>1, <3>1, <4>1 DEF RingAt
    <3>2. CASE r.occupancy # Size
      <4>1. r.current = r.occupancy - 1 /\ r.current + 1 \in Indices \ Used(r)
        BY <1>1, <2>1, <3>2, RingNumbers DEF RingAt, Used, Indices
      <4>2. card[r.current + 1].state = "EMPTY"
        BY <4>1 DEF Ring
      <4> QED
        BY <1>1, <3>2, <4>1, <4>2, RingNumbers
    <3> QED
      BY <3>1, <3>2
  <2>5. r.occupancy # Size => r.occupancy = r.current + 1
    BY <1>1, <2>1, RingNumbers DEF RingAt
  <2>6. r.seq = card[r.current].seq
    BY <2>1 DEF RingAt, Sequenced
  <2> QED
    BY <1>1, <2>2, <2>3, <2>4, <2>5, <2>6 DEF Rebuild
<1> QED
  BY <1>2, <1>3

-----------------------------------------------------------------------------
(* What the writes of an add do to a ring.                                 *)

(* The last slot filled is marked.                                         *)
LEMMA RingMarked ==
    ASSUME NEW card, NEW r, Ring(card, r), r.occupancy # 0,
           card[r.current].head = Capacity - 1
    PROVE  Ring([card EXCEPT ![r.current].state = "FULL"], r)
<1> DEFINE after == [card EXCEPT ![r.current].state = "FULL"]
<1>1. /\ card \in [Indices -> SectorContents] /\ r \in Rings /\ RingAt(card, r)
      /\ r.current \in Indices /\ r.current \in Used(r) /\ Used(r) \subseteq Indices
  BY RingNumbers DEF Ring, RingAt, Rings, Used, Indices
<1>2. /\ after \in [Indices -> SectorContents]
      /\ \A i \in Indices : /\ after[i].head = card[i].head /\ after[i].seq = card[i].seq
                            /\ after[i].slots = card[i].slots
                            /\ i # r.current => after[i] = card[i]
      /\ after[r.current].state = "FULL"
  BY <1>1 DEF SectorContents
<1> HIDE DEF after
<1>3. \A i \in Indices \ Used(r) : after[i].state = "EMPTY"
  BY <1>1, <1>2 DEF Ring
<1>4. Sequenced(after, r)
  <2>1. 0 .. r.current \subseteq Indices /\ r.current + 1 .. r.occupancy - 1 \subseteq Indices
    BY <1>1, RingNumbers DEF Indices, Rings
  <2> QED
    BY <1>1, <1>2, <2>1, RingNumbers DEF Sequenced, RingAt
<1>5. InOrder(after, r)
  <2>1. InOrder(card, r)
    BY <1>1 DEF RingAt
  <2> QED
    BY <1>1, <1>2, <2>1 DEF InOrder
<1>6. RingAt(after, r)
  BY <1>1, <1>2, <1>4, <1>5 DEF RingAt
<1> QED
  BY <1>1, <1>2, <1>3, <1>6 DEF Ring, after

(* A sector with one more entry than it had, the latest of all.            *)
HasNew(card, i, new, n) ==
    /\ new \in SectorContents /\ new.state = "OCCUPIED" /\ new.slots[new.head] = n
    /\ \A j \in 0 .. new.head - 1 : new.slots[j] = card[i].slots[j]

(* The order of the entries survives an add when the ring's other sectors  *)
(* were in that order, and the add's own follows all of them.              *)
LEMMA OrderKept ==
    ASSUME NEW card \in [Indices -> SectorContents], NEW r \in Rings, NEW r2 \in Rings,
           r.occupancy # 0 => InOrder(card, r),
           r2.current \in Used(r2),
           NEW n \in Nat, EarlierThan(card, n),
           NEW new, HasNew(card, r2.current, new, n),
           new.head = 0 \/ (r2.current \in Used(r) /\ new.head - 1 <= card[r2.current].head),
           \A i \in Used(r2) \ {r2.current} :
              /\ i \in Used(r) /\ ~ Older(r2.current, i, r2.current)
              /\ new.head # 0 => (Older(i, r2.current, r2.current) => Older(i, r2.current, r.current))
              /\ \A j \in Used(r2) \ {r2.current} :
                    Older(i, j, r2.current) => Older(i, j, r.current)
    PROVE  InOrder([card EXCEPT ![r2.current] = new], r2)
<1> DEFINE c == r2.current
           after == [card EXCEPT ![c] = new]
<1>1. c \in Indices /\ c \in Nat /\ Used(r2) \subseteq Indices /\ Used(r) \subseteq Indices
  BY RingNumbers DEF Rings, Used, Indices
<1>2. after[c] = new /\ \A i \in Indices : i # c => after[i] = card[i]
  BY <1>1
<1>3. /\ new \in SectorContents /\ new.head \in 0 .. Capacity - 1 /\ new.slots[new.head] = n
      /\ \A i \in Indices : card[i].head \in 0 .. Capacity - 1
      /\ \A j \in 0 .. new.head - 1 : new.slots[j] = card[c].slots[j]
  BY DEF SectorContents, HasNew
<1>4. ASSUME NEW i1 \in Used(r2), NEW i2 \in Used(r2),
             NEW j1 \in 0 .. after[i1].head, NEW j2 \in 0 .. after[i2].head,
             Older(i1, i2, c) \/ (i1 = i2 /\ j1 < j2)
      PROVE  after[i1].slots[j1] < after[i2].slots[j2]
  <2>1. i1 \in Indices /\ i2 \in Indices /\ j1 \in Nat /\ j2 \in Nat /\ ~ Older(c, c, c)
    BY <1>1, <1>2, <1>3 DEF Older
  <2>2. i1 = c => i2 = c
    BY <1>4, <2>1
  (* The new entry is the latest. *)
  <2>3. CASE i2 = c /\ j2 = new.head
    <3>1. j1 \in SlotIndices
      BY <1>2, <1>3, <2>1, RingNumbers DEF SlotIndices
    <3>2. i1 = c => j1 \in 0 .. new.head - 1
      BY <1>2, <1>3, <1>4, <2>1, <2>3
    <3>3. after[i1].slots[j1] = card[i1].slots[j1]
      BY <1>2, <1>3, <2>1, <3>2
    <3> QED
      BY <1>2, <1>3, <2>1, <2>3, <3>1, <3>3 DEF EarlierThan
  (* The others are where they were. *)
  <2>4. CASE ~ (i2 = c /\ j2 = new.head)
    <3>1. i2 = c => j2 \in 0 .. new.head - 1 /\ new.head # 0
      BY <1>2, <1>3, <2>1, <2>4
    <3>2. i1 = c => j1 \in 0 .. new.head - 1 /\ new.head # 0
      BY <1>2, <1>3, <1>4, <2>1, <2>2, <3>1
    <3>3. after[i1].slots[j1] = card[i1].slots[j1] /\ after[i2].slots[j2] = card[i2].slots[j2]
      BY <1>2, <1>3, <2>1, <3>1, <3>2
    <3>4. i1 \in Used(r) /\ i2 \in Used(r)
      BY <3>1, <3>2, <1>3
    <3>5. j1 \in 0 .. card[i1].head /\ j2 \in 0 .. card[i2].head
      <4>1. i1 = c \/ i2 = c => new.head \in Nat /\ card[c].head \in Nat /\ new.head - 1 <= card[c].head
        BY <1>1, <1>3, <3>1, <3>2
      <4> QED
        BY <1>2, <2>1, <3>1, <3>2, <4>1
    <3>6. Older(i1, i2, r.current) \/ (i1 = i2 /\ j1 < j2)
      BY <1>4, <2>1, <2>2, <3>1
    <3>7. r.occupancy # 0
      BY <3>4 DEF Used, Rings
    <3> QED
      BY <3>3, <3>4, <3>5, <3>6, <3>7 DEF InOrder
  <2> QED
    BY <2>3, <2>4
<1> HIDE DEF after
<1>5. InOrder(after, r2)
  BY <1>4 DEF InOrder
<1> QED
  BY <1>5 DEF after

(* The first entry of all.                                                 *)
LEMMA RingStarts ==
    ASSUME NEW card, NEW r, Ring(card, r), r.occupancy = 0,
           NEW n \in Nat, EarlierThan(card, n),
           NEW new, HasNew(card, 0, new, n), new.seq = 0, new.head = 0
    PROVE  Ring([card EXCEPT ![0] = new], AddToRing(r))
<1> DEFINE r2 == AddToRing(r)
           after == [card EXCEPT ![0] = new]
<1>1. /\ card \in [Indices -> SectorContents] /\ r \in Rings /\ r = EmptyRing
      /\ new \in SectorContents
  BY DEF Ring, HasNew
<1>2. r2 = [current |-> 0, occupancy |-> 1, seq |-> 0] /\ r2 \in Rings /\ Used(r2) = {0}
  BY <1>1, RingNumbers DEF AddToRing, EmptyRing, Rings, Used
<1>3. /\ after \in [Indices -> SectorContents] /\ after[0] = new
      /\ \A i \in Indices : i # 0 => after[i] = card[i]
  BY <1>1, RingNumbers
<1>4. InOrder(after, r2)
  <2>1. InOrder([card EXCEPT ![r2.current] = new], r2)
    <3>1. r2.current = 0 /\ r2.current \in Used(r2) /\ Used(r2) \ {r2.current} = {}
      BY <1>2
    <3> HIDE DEF r2
    <3>2. HasNew(card, r2.current, new, n) /\ r2 \in Rings
      BY <1>2, <3>1
    <3>3. \A i \in Used(r2) \ {r2.current} :
             /\ i \in Used(r) /\ ~ Older(r2.current, i, r2.current)
             /\ new.head # 0 => (Older(i, r2.current, r2.current) => Older(i, r2.current, r.current))
             /\ \A j \in Used(r2) \ {r2.current} :
                   Older(i, j, r2.current) => Older(i, j, r.current)
      BY <3>1
    <3>4. /\ card \in [Indices -> SectorContents] /\ r \in Rings
          /\ r.occupancy # 0 => InOrder(card, r)
          /\ new.head = 0 \/ (r2.current \in Used(r) /\ new.head - 1 <= card[r2.current].head)
      BY <1>1
    <3> QED BY <3>1, <3>2, <3>3, <3>4, OrderKept
  <2> QED
    BY <1>2, <2>1
<1>5. Sequenced(after, r2)
  <2>1. r2.current = 0 /\ r2.occupancy = 1 /\ r2.seq = 0
    BY <1>2
  <2> HIDE DEF r2, after
  <2>2. 0 % SeqModulus = 0
    BY RingNumbers, SeqWraps
  <2> QED
    BY <1>3, <2>1, <2>2 DEF Sequenced
<1>6. RingAt(after, r2)
  <2> HIDE DEF r2, after
  <2> QED BY <1>2, <1>3, <1>4, <1>5, RingNumbers DEF RingAt, HasNew
<1>7. \A i \in Indices \ Used(r2) : after[i].state = "EMPTY"
  <2>1. \A i \in Indices : card[i].state = "EMPTY"
    BY <1>1, RingNumbers DEF Ring, Used
  <2> QED
    BY <1>2, <1>3, <2>1
<1> HIDE DEF after, r2
<1> QED
  BY <1>2, <1>3, <1>6, <1>7 DEF Ring, after, r2

(* The next entry of the current sector, or its first one again.           *)
LEMMA RingFills ==
    ASSUME NEW card, NEW r, Ring(card, r), r.occupancy # 0,
           NEW n \in Nat, EarlierThan(card, n),
           NEW new, HasNew(card, r.current, new, n), new.seq = r.seq,
           new.head = 0 \/ new.head = card[r.current].head + 1
    PROVE  Ring([card EXCEPT ![r.current] = new], r)
<1> DEFINE after == [card EXCEPT ![r.current] = new]
<1>1. /\ card \in [Indices -> SectorContents] /\ r \in Rings /\ RingAt(card, r)
      /\ r.current \in Indices /\ r.current \in Used(r) /\ Used(r) \subseteq Indices
      /\ new \in SectorContents
  BY RingNumbers DEF Ring, RingAt, Rings, Used, Indices, HasNew
<1>2. /\ after \in [Indices -> SectorContents]
      /\ \A i \in Indices : after[i].seq = card[i].seq /\ (i # r.current => after[i] = card[i])
      /\ after[r.current] = new
  BY <1>1 DEF RingAt, Sequenced
<1>3. \A i \in Indices \ Used(r) : after[i].state = "EMPTY"
  BY <1>1, <1>2 DEF Ring
<1>4. Sequenced(after, r)
  <2>1. 0 .. r.current \subseteq Indices /\ r.current + 1 .. r.occupancy - 1 \subseteq Indices
    BY <1>1, RingNumbers DEF Indices, Rings
  <2> HIDE DEF after
  <2> QED
    BY <1>1, <1>2, <2>1, RingNumbers DEF Sequenced, RingAt
<1>5. InOrder(after, r)
  <2>1. new.head = 0 \/ (r.current \in Used(r) /\ new.head - 1 <= card[r.current].head)
    BY <1>1 DEF SectorContents
  <2>2. \A i \in Used(r) \ {r.current} : ~ Older(r.current, i, r.current)
    BY <1>1, RingNumbers DEF Older, Used
  <2>3. InOrder(card, r)
    BY <1>1 DEF RingAt
  <2> QED
    BY <1>1, <2>1, <2>2, <2>3, OrderKept
<1>6. RingAt(after, r)
  <2> HIDE DEF after
  <2> QED BY <1>1, <1>2, <1>4, <1>5 DEF RingAt, HasNew
<1> HIDE DEF after
<1> QED
  BY <1>1, <1>2, <1>3, <1>6 DEF Ring, after

(* Where the cursor goes from a full sector.                               *)
LEMMA MovedIs ==
    ASSUME NEW card, NEW r, Ring(card, r), r.occupancy # 0
    PROVE  /\ Moved(r) \in Rings
           /\ Moved(r).seq = (r.seq + 1) % SeqModulus
           /\ Moved(r).current \in Used(Moved(r))
           /\ \/ /\ r.occupancy < Size
                 /\ Moved(r).occupancy = r.occupancy + 1
                 /\ Moved(r).current = r.occupancy /\ r.current = r.occupancy - 1
              \/ /\ r.occupancy = Size /\ Moved(r).occupancy = Size
                 /\ r.current < Size - 1 /\ Moved(r).current = r.current + 1
              \/ /\ r.occupancy = Size /\ Moved(r).occupancy = Size
                 /\ r.current = Size - 1 /\ Moved(r).current = 0
<1> DEFINE grown == AddToRing(r)
           on == MoveNext(grown)
<1>1. /\ r \in Rings /\ r.current \in 0 .. r.occupancy - 1 /\ r.occupancy \in 1 .. Size
      /\ r.seq \in Seqs /\ (r.occupancy < Size => r.current = r.occupancy - 1)
  BY RingNumbers DEF Ring, RingAt, Used, Rings
<1>2. /\ grown.current = r.current /\ grown.seq = r.seq
      /\ grown.occupancy = IF r.occupancy < Size THEN r.occupancy + 1 ELSE r.occupancy
      /\ grown \in Rings
  BY <1>1, RingNumbers DEF AddToRing, Rings
<1> HIDE DEF grown
<1>3. /\ on.occupancy = grown.occupancy /\ on.seq = r.seq
      /\ on.current = IF r.current < grown.occupancy - 1 THEN r.current + 1 ELSE 0
      /\ on \in Rings
  BY <1>1, <1>2, RingNumbers DEF MoveNext, Rings, Indices
<1>4. Moved(r) = IncSeq(on)
  BY DEF Moved, grown
<1>5. (r.seq + 1) % SeqModulus \in Seqs
  BY <1>1, RingNumbers DEF Seqs
<1> HIDE DEF on
<1>6. /\ Moved(r).occupancy = on.occupancy /\ Moved(r).current = on.current
      /\ Moved(r).seq = (r.seq + 1) % SeqModulus /\ Moved(r) \in Rings
  BY <1>3, <1>4, <1>5 DEF IncSeq, Rings
<1> QED
  BY <1>1, <1>2, <1>3, <1>6, RingNumbers DEF Used

(* What the other sectors look like from there.                            *)
LEMMA MovedOthers ==
    ASSUME NEW card, NEW r, Ring(card, r), r.occupancy # 0, card[r.current].state = "FULL",
           NEW i \in Used(Moved(r)) \ {Moved(r).current}
    PROVE  /\ i \in Used(r) /\ i \in Indices /\ card[i].state = "FULL" /\ card[i].head = Capacity - 1
           /\ ~ Older(Moved(r).current, i, Moved(r).current)
           /\ Older(i, Moved(r).current, Moved(r).current)
           /\ Moved(r).current \in Used(r) => Older(Moved(r).current, i, r.current)
           /\ \A j \in Used(Moved(r)) \ {Moved(r).current} :
                 Older(i, j, Moved(r).current) => Older(i, j, r.current)
<1> DEFINE r2 == Moved(r)
<1>1. /\ r \in Rings /\ r.current \in 0 .. r.occupancy - 1 /\ r.occupancy \in 1 .. Size
      /\ RingAt(card, r)
  BY RingNumbers DEF Ring, RingAt, Used, Rings
<1>2. /\ r2.current \in 0 .. r2.occupancy - 1
      /\ \/ /\ r.occupancy < Size /\ r2.occupancy = r.occupancy + 1
            /\ r2.current = r.occupancy /\ r.current = r.occupancy - 1
         \/ /\ r.occupancy = Size /\ r2.occupancy = Size
            /\ r.current < Size - 1 /\ r2.current = r.current + 1
         \/ /\ r.occupancy = Size /\ r2.occupancy = Size
            /\ r.current = Size - 1 /\ r2.current = 0
  BY MovedIs DEF Used
<1>3. i \in 0 .. r2.occupancy - 1 /\ i # r2.current
  BY DEF Used
<1> HIDE DEF r2
<1>4. i \in Used(r) /\ i \in Indices
  BY <1>1, <1>2, <1>3, RingNumbers DEF Used, Indices
<1>5. card[i].state = "FULL" /\ card[i].head = Capacity - 1
  BY <1>1, <1>4 DEF RingAt
<1>6. ~ Older(r2.current, i, r2.current) /\ Older(i, r2.current, r2.current)
  BY <1>1, <1>2, <1>3, RingNumbers DEF Older
<1>7. r2.current \in Used(r) => Older(r2.current, i, r.current)
  BY <1>1, <1>2, <1>3, RingNumbers DEF Older, Used
<1>8. ASSUME NEW j \in Used(r2) \ {r2.current}, Older(i, j, r2.current)
      PROVE  Older(i, j, r.current)
  <2>1. j \in 0 .. r2.occupancy - 1 /\ j # r2.current
    BY DEF Used
  <2> QED
    BY <1>1, <1>2, <1>3, <1>8, <2>1, RingNumbers DEF Older
<1> QED
  BY <1>4, <1>5, <1>6, <1>7, <1>8 DEF r2

(* The first entry of the next sector: one more of this lap, or the first  *)
(* of the next.                                                            *)
LEMMA MovedSequenced ==
    ASSUME NEW card, NEW r, Ring(card, r), r.occupancy # 0,
           NEW new, new.seq = Moved(r).seq
    PROVE  Sequenced([card EXCEPT ![Moved(r).current] = new], Moved(r))
<1> DEFINE r2 == Moved(r)
           after == [card EXCEPT ![r2.current] = new]
           first == card[0].seq
<1>1. /\ r \in Rings /\ r.current \in 0 .. r.occupancy - 1 /\ r.occupancy \in 1 .. Size
      /\ card \in [Indices -> SectorContents] /\ Sequenced(card, r) /\ r.seq \in Seqs
      /\ first \in Seqs
  <2>1. /\ r \in Rings /\ card \in [Indices -> SectorContents] /\ RingAt(card, r)
    BY DEF Ring
  <2>2. r.current \in 0 .. r.occupancy - 1 /\ r.occupancy \in 1 .. Size /\ r.seq \in Seqs
    BY <2>1, RingNumbers DEF RingAt, Used, Rings
  <2>3. first \in Seqs
    BY <2>1, RingNumbers DEF SectorContents
  <2> QED
    BY <2>1, <2>2, <2>3 DEF RingAt
<1>2. /\ r2.seq = (r.seq + 1) % SeqModulus
      /\ r2.current \in 0 .. r2.occupancy - 1
      /\ \/ /\ r.occupancy < Size /\ r2.occupancy = r.occupancy + 1
            /\ r2.current = r.occupancy /\ r.current = r.occupancy - 1
         \/ /\ r.occupancy = Size /\ r2.occupancy = Size
            /\ r.current < Size - 1 /\ r2.current = r.current + 1
         \/ /\ r.occupancy = Size /\ r2.occupancy = Size
            /\ r.current = Size - 1 /\ r2.current = 0
  BY MovedIs DEF Used
<1>3. r2.current \in Indices
  BY <1>1, <1>2, RingNumbers DEF Indices
<1>4. after[r2.current].seq = r2.seq /\ \A i \in Indices : i # r2.current => after[i] = card[i]
  BY <1>1, <1>3
<1> HIDE DEF r2, after, first
<1>5. /\ \A i \in 0 .. r.current : card[i].seq = (first + i) % SeqModulus
      /\ \A i \in r.current + 1 .. r.occupancy - 1 :
            card[i].seq = (first + SeqModulus - Size + i) % SeqModulus
      /\ r.seq = (first + r.current) % SeqModulus
  BY <1>1 DEF Sequenced, first
<1>6. \A a \in 0 .. 2 * SeqModulus - 1 :
         a % SeqModulus = IF a < SeqModulus THEN a ELSE a - SeqModulus
  BY SeqWraps
<1>7. r2.seq = (first + r.current + 1) % SeqModulus
  <2> DEFINE a == first + r.current  b == r.seq + 1  d == first + r.current + 1
  <2>1. /\ a \in 0 .. 2 * SeqModulus - 1 /\ b \in 0 .. 2 * SeqModulus - 1
        /\ d \in 0 .. 2 * SeqModulus - 1 /\ d = a + 1 /\ a < 2 * SeqModulus - 1
        /\ r.seq = a % SeqModulus
    BY <1>1, <1>5, RingNumbers DEF Seqs
  <2>2. /\ r.seq = IF a < SeqModulus THEN a ELSE a - SeqModulus
        /\ b % SeqModulus = IF b < SeqModulus THEN b ELSE b - SeqModulus
        /\ d % SeqModulus = IF d < SeqModulus THEN d ELSE d - SeqModulus
    <3> HIDE DEF a, b, d
    <3> QED BY <1>6, <2>1
  <2>3. b % SeqModulus = d % SeqModulus
    <3>1. b = r.seq + 1 /\ r.seq \in Int
      BY <1>1, RingNumbers DEF Seqs
    <3> HIDE DEF a, b, d
    <3> QED BY <2>1, <2>2, <3>1, RingNumbers
  <2> QED
    BY <1>2, <2>3
<1>8. CASE r2.current # 0
  <2>1. /\ after[0] = card[0] /\ r2.current = r.current + 1 /\ r2.current \in Nat
        /\ 0 .. r2.current \subseteq Indices
    BY <1>1, <1>2, <1>4, <1>8, RingNumbers DEF Indices
  <2>2. ASSUME NEW i \in 0 .. r2.current PROVE after[i].seq = (first + i) % SeqModulus
    <3>1. CASE i = r2.current
      <4>1. first + r.current + 1 = first + i
        BY <1>1, <2>1, <3>1, RingNumbers DEF Seqs
      <4> QED
        BY <1>4, <1>7, <3>1, <4>1
    <3>2. CASE i # r2.current
      <4>1. i \in 0 .. r.current /\ i \in Indices
        BY <1>1, <2>1, <3>2
      <4> QED
        BY <1>4, <1>5, <3>2, <4>1
    <3> QED
      BY <3>1, <3>2
  <2>3. ASSUME NEW i \in r2.current + 1 .. r2.occupancy - 1
        PROVE  after[i].seq = (first + SeqModulus - Size + i) % SeqModulus
    <3>1. r2.occupancy \in 1 .. Size /\ r2.occupancy - 1 <= r.occupancy
          /\ (r2.occupancy # r.occupancy => r2.current = r.occupancy)
      BY <1>1, <1>2, RingNumbers
    <3>2. i \in r.current + 1 .. r.occupancy - 1 /\ i \in 0 .. Size - 1 /\ i # r2.current
      BY <1>1, <2>1, <3>1, RingNumbers
    <3> QED
      BY <1>4, <1>5, <3>2 DEF Indices
  <2> QED
    BY <1>4, <2>1, <2>2, <2>3 DEF Sequenced, r2, after, first
<1>9. CASE r2.current = 0
  <2>1. /\ r.current = Size - 1 /\ r2.occupancy = Size /\ after[0].seq = r2.seq
        /\ r2.seq \in Seqs
    <3>1. r2.seq \in Seqs
      BY <1>1, <1>2, RingNumbers DEF Seqs
    <3> QED
      BY <1>1, <1>2, <1>4, <1>9, <3>1, RingNumbers
  <2>2. r2.seq = first + Size \/ r2.seq = first + Size - SeqModulus
    <3> DEFINE a == first + r.current + 1
    <3>1. a \in 0 .. 2 * SeqModulus - 1 /\ a = first + Size
      BY <1>1, <2>1, RingNumbers DEF Seqs
    <3>2. a % SeqModulus = a \/ a % SeqModulus = a - SeqModulus
      <4> HIDE DEF a
      <4> QED BY <1>6, <3>1
    <3>3. r2.seq = a \/ r2.seq = a - SeqModulus
      BY <1>7, <3>2
    <3> QED
      BY <1>1, <3>1, <3>3, RingNumbers DEF Seqs
  <2>3. \A i \in 0 .. 0 : after[i].seq = (r2.seq + i) % SeqModulus
    <3>1. r2.seq % SeqModulus = r2.seq /\ r2.seq + 0 = r2.seq
      <4>1. r2.seq \in 0 .. 2 * SeqModulus - 1 /\ r2.seq < SeqModulus /\ r2.seq + 0 = r2.seq
        BY <2>1, RingNumbers DEF Seqs
      <4> QED
        BY <1>6, <4>1
    <3> QED
      BY <2>1, <3>1
  <2>4. ASSUME NEW i \in 0 + 1 .. Size - 1
        PROVE  after[i].seq = (r2.seq + SeqModulus - Size + i) % SeqModulus
    <3>1. i \in 0 .. r.current /\ i \in Indices /\ i # r2.current
      BY <1>9, <2>1, RingNumbers DEF Indices
    <3>2. after[i].seq = (first + i) % SeqModulus
      BY <1>4, <1>5, <3>1
    <3> DEFINE a == first + i  b == r2.seq + SeqModulus - Size + i
    <3>3. /\ a \in 0 .. 2 * SeqModulus - 1 /\ b \in 0 .. 2 * SeqModulus - 1
          /\ b = a \/ b = a + SeqModulus
      BY <1>1, <2>1, <2>2, RingNumbers DEF Seqs
    <3>4. a % SeqModulus = b % SeqModulus
      <4> HIDE DEF a, b
      <4> QED BY <1>6, <3>3, RingNumbers
    <3> QED
      BY <3>2, <3>4
  <2> QED
    BY <1>4, <1>9, <2>1, <2>3, <2>4 DEF Sequenced, r2, after
<1> QED
  BY <1>8, <1>9

LEMMA RingMoves ==
    ASSUME NEW card, NEW r, Ring(card, r), r.occupancy # 0, card[r.current].state = "FULL",
           NEW n \in Nat, EarlierThan(card, n),
           NEW new, HasNew(card, Moved(r).current, new, n), new.seq = Moved(r).seq, new.head = 0
    PROVE  Ring([card EXCEPT ![Moved(r).current] = new], Moved(r))
<1> DEFINE r2 == Moved(r)
           after == [card EXCEPT ![r2.current] = new]
<1>1. /\ card \in [Indices -> SectorContents] /\ r \in Rings /\ r2 \in Rings
      /\ r.current \in Indices /\ r2.current \in Indices /\ r2.current \in Used(r2)
      /\ RingAt(card, r) /\ new \in SectorContents
  BY MovedIs, RingNumbers DEF Ring, Rings, HasNew
<1>2. /\ after \in [Indices -> SectorContents] /\ after[r2.current] = new
      /\ \A i \in Indices : i # r2.current => after[i] = card[i]
  BY <1>1
<1>3. Sequenced(after, r2)
  BY MovedSequenced
<1>4. \A i \in Used(r2) \ {r2.current} :
         /\ i \in Used(r) /\ i \in Indices /\ card[i].state = "FULL" /\ card[i].head = Capacity - 1
         /\ ~ Older(r2.current, i, r2.current)
         /\ \A j \in Used(r2) \ {r2.current} : Older(i, j, r2.current) => Older(i, j, r.current)
  BY MovedOthers
<1>5. /\ r.occupancy < Size => r2.occupancy = r.occupancy + 1
      /\ r2.occupancy < Size => r2.current = r2.occupancy - 1
      /\ r2.occupancy >= r.occupancy /\ r2.occupancy \in 1 .. Size /\ r.occupancy \in 1 .. Size
  BY <1>1, MovedIs, RingNumbers DEF Rings
<1> HIDE DEF r2, after
<1>6. InOrder([card EXCEPT ![r2.current] = new], r2)
  <2>1. InOrder(card, r)
    BY <1>1 DEF RingAt
  <2>2. HasNew(card, r2.current, new, n)
    BY DEF r2
  <2> QED
    BY <1>1, <1>4, <2>1, <2>2, OrderKept
<1>7. RingAt(after, r2)
  BY <1>1, <1>2, <1>3, <1>4, <1>5, <1>6 DEF RingAt, HasNew, after
<1>8. \A i \in Indices \ Used(r2) : after[i].state = "EMPTY"
  <2>1. \A i \in Indices \ Used(r2) : i \in Indices \ Used(r) /\ i # r2.current
    BY <1>1, <1>5 DEF Used
  <2> QED
    BY <1>2, <2>1 DEF Ring
<1> QED
  BY <1>1, <1>2, <1>5, <1>7, <1>8 DEF Ring, r2, after

-----------------------------------------------------------------------------
(* The invariant and the steps of the program.                             *)

LEMMA UndoNumbers == \A u \in Undos : u # NoUndo /\ u.index \in Indices /\ u.old \in SectorContents
  BY RingNumbers DEF Undos, NoUndo, Indices

LEMMA SlotsAreNumbers ==
    ASSUME NEW card \in [Indices -> SectorContents], NEW i \in Indices, NEW j \in SlotIndices
    PROVE  card[i].slots[j] \in Nat
<1>1. card[i].slots \in [SlotIndices -> Entries \cup {0}]
  BY DEF SectorContents, SlotIndices
<1>2. card[i].slots[j] \in Entries \cup {0}
  BY <1>1
<1> QED
  BY <1>2 DEF Entries

LEMMA RecoveredType ==
    ASSUME TypeOK
    PROVE  Recovered \in [Indices -> SectorContents]
  BY UndoNumbers DEF TypeOK, Recovered

LEMMA CursorIs ==
    ASSUME RingInv
    PROVE  /\ Ring(Recovered, Cursor) /\ Cursor \in Rings /\ Recovered \in [Indices -> SectorContents]
           /\ Cursor.current \in Indices /\ Cursor.occupancy \in 0 .. Size
           /\ Cursor.occupancy = 0 => Cursor = EmptyRing
           /\ Cursor.occupancy # 0 => /\ RingAt(Recovered, Cursor)
                                      /\ Cursor.current \in Used(Cursor)
  BY DEF RingInv, Ring, Rings, RingAt

(* While an add runs there is an entry to write.                           *)
LEMMA AddsAnEntry ==
    ASSUME RingInv, pc \in {"journal", "write", "free_full", "free"}
    PROVE  attempted \in Entries /\ attempted \in Nat /\ EarlierThan(Recovered, attempted)
<1>1. EarlierThan(Recovered, attempted) /\ attempted \in 0 .. MaxAdds
  BY DEF RingInv, EntriesInv, TypeOK
<1>2. Recovered[0].slots[0] < attempted /\ Recovered[0].slots[0] \in Nat
  <2>1. 0 \in SlotIndices
    BY RingNumbers DEF SlotIndices
  <2>2. Recovered[0] \in SectorContents
    BY RingNumbers, RecoveredType DEF RingInv
  <2> QED
    BY <1>1, <2>1, <2>2, RingNumbers DEF EarlierThan, SectorContents, SlotIndices, Entries
<1> QED
  BY <1>1, <1>2 DEF Entries

LEMMA WithEntryIs ==
    ASSUME TypeOK, NEW sector \in SectorContents, ~ NoSlotLeft(sector), NEW e \in Entries
    PROVE  LET new == WithEntry(sector, e)
           IN  /\ new \in SectorContents /\ new.state = "OCCUPIED"
               /\ new.head = IF sector.state = "OCCUPIED" THEN sector.head + 1 ELSE 0
               /\ new.seq = IF sector.state = "OCCUPIED" THEN sector.seq ELSE rb.seq
               /\ \A j \in SlotIndices :
                     new.slots[j] = IF j = new.head THEN e ELSE sector.slots[j]
<1> DEFINE head == IF sector.state = "OCCUPIED" THEN sector.head + 1 ELSE 0
           seq == IF sector.state = "OCCUPIED" THEN sector.seq ELSE rb.seq
           slots == [sector.slots EXCEPT ![head] = e]
<1>1. sector.head \in SlotIndices /\ sector.seq \in Seqs /\ rb.seq \in Seqs
      /\ sector.slots \in [SlotIndices -> Entries \cup {0}]
  BY DEF SectorContents, TypeOK, Rings, SlotIndices
<1>2. head \in SlotIndices /\ seq \in Seqs
  BY <1>1, RingNumbers DEF NoSlotLeft, SlotIndices
<1>3. slots \in [SlotIndices -> Entries \cup {0}] /\ slots[head] = e
      /\ \A j \in SlotIndices : slots[j] = IF j = head THEN e ELSE sector.slots[j]
  <2> HIDE DEF head
  <2> QED BY <1>1, <1>2
<1>4. WithEntry(sector, e) = [state |-> "OCCUPIED", seq |-> seq, head |-> head, slots |-> slots]
  BY DEF WithEntry
<1> HIDE DEF head, seq, slots
<1>5. WithEntry(sector, e) \in SectorContents
  BY <1>2, <1>3, <1>4 DEF SectorContents, SlotIndices
<1> QED
  BY <1>3, <1>4, <1>5 DEF head, seq

(* The cursor of an add that runs.                                         *)
LEMMA AddCursorIs ==
    ASSUME RingInv, ~ failing, pc \in {"journal", "write", "free"}
    PROVE  /\ rb = AddCursor /\ rb.current \in Indices /\ rb \in Rings
           /\ Cursor.occupancy = 0 => rb = AddToRing(Cursor) /\ rb.current = 0 /\ rb.occupancy = 1
                                      /\ rb.seq = 0 /\ ~ moved
           /\ Cursor.occupancy # 0 /\ ~ moved => rb = Cursor
           /\ moved => /\ rb = Moved(Cursor) /\ Cursor.occupancy # 0
                       /\ Recovered[Cursor.current].state = "FULL"
                       /\ Recovered[rb.current].state # "OCCUPIED"
<1>1. rb = AddCursor /\ rb \in Rings /\ rb.current \in Indices
  BY DEF RingInv, AddInv, TypeOK, Rings
<1>2. moved => Cursor.occupancy # 0 /\ Recovered[Cursor.current].state = "FULL"
  BY DEF RingInv, AddInv
<1>3. Cursor.occupancy = 0 => ~ moved
  BY <1>2
<1>4. Cursor.occupancy = 0 => rb = AddToRing(Cursor)
  BY <1>1, <1>3 DEF AddCursor, Begun
<1>5. Cursor.occupancy # 0 /\ ~ moved => rb = Cursor
  BY <1>1 DEF AddCursor, Begun
<1>6. Cursor.occupancy = 0 => rb.current = 0 /\ rb.occupancy = 1 /\ rb.seq = 0
  BY <1>4, CursorIs, RingNumbers DEF EmptyRing, AddToRing
<1>7. ASSUME moved PROVE rb = Moved(Cursor) /\ Recovered[rb.current].state # "OCCUPIED"
  <2>1. rb = Moved(Cursor)
    BY <1>1, <1>7 DEF AddCursor
  <2> DEFINE r == Cursor
  <2>2. Ring(Recovered, r) /\ r.occupancy # 0
    BY <1>2, <1>7, CursorIs
  <2>3. /\ r \in Rings /\ RingAt(Recovered, r) /\ Recovered[r.current].state = "FULL"
        /\ \A i \in Indices \ Used(r) : Recovered[i].state = "EMPTY"
    BY <1>2, <1>7, CursorIs DEF Ring
  <2> HIDE DEF r
  <2>4. rb.current \in Used(r) => Recovered[rb.current].state = "FULL"
    BY <2>3 DEF RingAt
  <2> QED
    BY <1>1, <2>1, <2>3, <2>4 DEF r
<1> QED
  BY <1>1, <1>2, <1>3, <1>4, <1>5, <1>6, <1>7

(* Once the entry is in its sector the card is a ring again, with the      *)
(* cursor that RAM has.                                                    *)
LEMMA WroteRing ==
    ASSUME RingInv, ~ failing, pc = "free"
    PROVE  /\ Recovered[rb.current] \in SectorContents
           /\ ~ NoSlotLeft(Recovered[rb.current])
           /\ sectors = [Recovered EXCEPT ![rb.current] = WithEntry(Recovered[rb.current], attempted)]
           /\ Ring(sectors, rb)
<1> DEFINE old == Recovered[rb.current]
           new == WithEntry(old, attempted)
<1>1. /\ undo.index = rb.current /\ rb.current \in Indices /\ ~ NoSlotLeft(undo.old)
      /\ sectors[rb.current] = WithEntry(undo.old, attempted)
      /\ sectors \in [Indices -> SectorContents] /\ undo \in Undos
      /\ TypeOK
  BY RingNumbers DEF RingInv, AddInv, TypeOK, Rings, NoUndo, Indices
<1>2. /\ Recovered = [sectors EXCEPT ![rb.current] = undo.old] /\ undo.old \in SectorContents
      /\ Recovered \in [Indices -> SectorContents]
  BY <1>1, UndoNumbers, RecoveredType DEF Recovered
<1>3. old = undo.old /\ old \in SectorContents /\ ~ NoSlotLeft(old)
  BY <1>1, <1>2
<1>4. sectors = [Recovered EXCEPT ![rb.current] = new]
  <2>1. sectors[rb.current] = new
    BY <1>1, <1>3
  <2> HIDE DEF new
  <2> QED BY <1>1, <1>2, <2>1
<1>5. /\ attempted \in Entries /\ attempted \in Nat /\ EarlierThan(Recovered, attempted)
  BY AddsAnEntry
<1>6. /\ new \in SectorContents /\ new.state = "OCCUPIED"
      /\ new.head = IF old.state = "OCCUPIED" THEN old.head + 1 ELSE 0
      /\ new.seq = IF old.state = "OCCUPIED" THEN old.seq ELSE rb.seq
      /\ \A j \in SlotIndices : new.slots[j] = IF j = new.head THEN attempted ELSE old.slots[j]
  <2> HIDE DEF old
  <2> QED BY <1>1, <1>3, <1>5, WithEntryIs
<1> HIDE DEF new
<1>7. HasNew(Recovered, rb.current, new, attempted)
  <2>1. new.head \in SlotIndices /\ \A j \in 0 .. new.head - 1 : j \in SlotIndices /\ j # new.head
    BY <1>6, RingNumbers DEF SectorContents, SlotIndices
  <2> QED
    BY <1>6, <2>1 DEF HasNew
<1>8. /\ rb = AddCursor /\ rb \in Rings
      /\ Cursor.occupancy = 0 => rb = AddToRing(Cursor) /\ rb.current = 0 /\ rb.occupancy = 1
                                      /\ rb.seq = 0 /\ ~ moved
      /\ Cursor.occupancy # 0 /\ ~ moved => rb = Cursor
      /\ moved => /\ rb = Moved(Cursor) /\ Cursor.occupancy # 0
                  /\ Recovered[Cursor.current].state = "FULL"
                  /\ Recovered[rb.current].state # "OCCUPIED"
  BY AddCursorIs
<1>9. Ring(Recovered, Cursor)
  BY DEF RingInv
<1>10. Ring([Recovered EXCEPT ![rb.current] = new], rb)
  <2>1. CASE Cursor.occupancy = 0
    <3>1. old.state = "EMPTY" /\ rb.current = 0
      <4>1. 0 \in Indices \ Used(Cursor)
        BY <2>1, RingNumbers DEF Used
      <4> QED
        BY <1>8, <1>9, <2>1, <4>1 DEF Ring
    <3> QED
      BY <1>5, <1>6, <1>7, <1>8, <1>9, <2>1, <3>1, RingStarts
  <2>2. CASE Cursor.occupancy # 0 /\ ~ moved
    <3>1. rb = Cursor /\ rb.occupancy # 0 /\ Ring(Recovered, rb)
      BY <1>8, <1>9, <2>2
    <3>2. new.seq = rb.seq
      BY <1>6, <3>1 DEF Ring, RingAt, Sequenced
    <3> QED
      BY <1>5, <1>6, <1>7, <3>1, <3>2, RingFills
  <2>3. CASE moved
    BY <1>5, <1>6, <1>7, <1>8, <1>9, <2>3, RingMoves
  <2> QED
    BY <2>1, <2>2, <2>3
<1> QED
  BY <1>3, <1>4, <1>10 DEF new

LEMMA NewestIs ==
    ASSUME NEW card, NEW r, Ring(card, r), r.occupancy # 0
    PROVE  /\ card[r.current].state # "EMPTY"
           /\ r.current \in Indices /\ r.current \in Used(r) /\ card[r.current] \in SectorContents
           /\ card[r.current].head \in SlotIndices
           /\ Newest(card, r) \in Entries \cup {0}
           /\ InRing(card, r, Newest(card, r))
<1>1. /\ card \in [Indices -> SectorContents] /\ RingAt(card, r) /\ r.current \in Used(r)
      /\ r.current \in Indices /\ card[r.current].state # "EMPTY"
  BY DEF Ring, RingAt, Rings
<1>2. /\ card[r.current] \in SectorContents /\ card[r.current].head \in SlotIndices
      /\ Newest(card, r) \in Entries \cup {0}
  BY <1>1 DEF SectorContents, SlotIndices, Newest
<1>3. card[r.current].head \in 0 .. card[r.current].head
  BY <1>2, RingNumbers DEF SlotIndices
<1> QED
  BY <1>1, <1>2, <1>3 DEF InRing, Newest

LEMMA AckedEarlier ==
    ASSUME RingInv, NEW n \in Nat, EarlierThan(Recovered, n), NEW e \in acked
    PROVE  e < n /\ e \in Nat
<1> DEFINE r == Cursor
<1>1. r.occupancy # 0 /\ e <= Newest(Recovered, r) /\ Ring(Recovered, r) /\ e \in Entries
  BY DEF RingInv, AckedInv, TypeOK
<1> HIDE DEF r
<1>2. Newest(Recovered, r) < n /\ Newest(Recovered, r) \in Nat
  BY <1>1, NewestIs DEF Newest, EarlierThan, Entries
<1> QED
  BY <1>1, <1>2 DEF Entries

(* What an add that goes on to another sector does to the entries of a     *)
(* ring: the sector it takes is new, or the oldest one.                    *)
LEMMA MovedEntries ==
    ASSUME NEW card, NEW r, Ring(card, r), r.occupancy # 0, card[r.current].state = "FULL",
           NEW n \in Nat, EarlierThan(card, n),
           NEW new, HasNew(card, Moved(r).current, new, n), new.head = 0, new.seq = Moved(r).seq,
           NEW e \in Nat, e < n,
           InRing(card, r, e) \/ (r.occupancy = Size /\ AllLater(card, r, e))
    PROVE  LET after == [card EXCEPT ![Moved(r).current] = new]
           IN  \/ InRing(after, Moved(r), e)
               \/ Moved(r).occupancy = Size /\ AllLater(after, Moved(r), e)
<1> DEFINE r2 == Moved(r)
           after == [card EXCEPT ![r2.current] = new]
<1>1. /\ card \in [Indices -> SectorContents] /\ r \in Rings /\ r2 \in Rings
      /\ r2.current \in Indices /\ r2.current \in Used(r2) /\ InOrder(card, r)
      /\ r.occupancy \in 1 .. Size
  BY MovedIs, RingNumbers DEF Ring, Rings, RingAt
<1>2. /\ after[r2.current] = new
      /\ \A i \in Indices : i # r2.current => after[i] = card[i]
  BY <1>1
<1>3. \A i \in Used(r2) \ {r2.current} :
         /\ i \in Used(r) /\ i \in Indices /\ card[i].head = Capacity - 1
         /\ (r2.current \in Used(r) => Older(r2.current, i, r.current))
  BY MovedOthers
<1>4. /\ r2.occupancy >= r.occupancy /\ r2.occupancy \in 1 .. Size
      /\ r2.current \in Used(r) => r.occupancy = Size /\ r2.occupancy = Size
      /\ r.occupancy = Size => r2.occupancy = Size
  BY <1>1, MovedIs, RingNumbers DEF Rings, Used
<1>5. new.head = 0 /\ new.slots[0] = n /\ \A j \in 0 .. new.head : j = 0
  BY DEF HasNew
<1> HIDE DEF r2, after
<1>6. CASE \E i \in Used(r) \ {r2.current} : \E j \in 0 .. card[i].head : card[i].slots[j] = e
  <2>1. PICK i \in Used(r) \ {r2.current} : \E j \in 0 .. card[i].head : card[i].slots[j] = e
    BY <1>6
  <2>2. i \in Used(r2) /\ i \in Indices /\ after[i] = card[i]
    <3>1. r2.occupancy \in Nat /\ r.occupancy \in Nat /\ r2.occupancy >= r.occupancy
          /\ r.occupancy <= Size
      BY <1>1, <1>4, RingNumbers
    <3>2. i \in Used(r2) /\ i \in Indices
      BY <3>1, RingNumbers DEF Used, Indices
    <3> QED
      BY <1>2, <2>1, <3>2
  <2>3. InRing(after, r2, e)
    BY <2>1, <2>2 DEF InRing
  <2> QED
    BY <2>3 DEF r2, after
<1>7. CASE r2.current \in Used(r) /\ \E j \in 0 .. card[r2.current].head : card[r2.current].slots[j] = e
  <2>1. PICK j \in 0 .. card[r2.current].head : card[r2.current].slots[j] = e
    BY <1>7
  <2>2. ASSUME NEW i \in Used(r2), NEW k \in 0 .. after[i].head
        PROVE  after[i].slots[k] > e
    <3>1. CASE i = r2.current
      BY <1>2, <1>5, <3>1
    <3>2. CASE i # r2.current
      <4>1. Older(r2.current, i, r.current) /\ i \in Used(r) /\ after[i] = card[i] /\ i \in Indices
        BY <1>2, <1>3, <1>7, <3>2
      <4>2. card[r2.current].slots[j] < card[i].slots[k]
        BY <1>1, <1>7, <2>1, <4>1 DEF InOrder
      <4>3. card[i].slots[k] \in Nat
        <5>1. k \in SlotIndices /\ card[i] \in SectorContents
          BY <1>1, <1>3, <3>2, <4>1 DEF SlotIndices
        <5>2. card[i].slots \in [SlotIndices -> Entries \cup {0}]
          BY <5>1 DEF SectorContents, SlotIndices
        <5>3. card[i].slots[k] \in Entries \cup {0}
          BY <5>1, <5>2
        <5> QED
          BY <5>3 DEF Entries
      <4> QED
        BY <2>1, <4>1, <4>2, <4>3
    <3> QED
      BY <3>1, <3>2
  <2> QED
    BY <1>4, <1>7, <2>2 DEF AllLater, r2, after
<1>8. CASE r.occupancy = Size /\ AllLater(card, r, e)
  <2>2. ASSUME NEW i \in Used(r2), NEW k \in 0 .. after[i].head
        PROVE  after[i].slots[k] > e
    <3>1. CASE i = r2.current
      BY <1>2, <1>5, <3>1
    <3>2. CASE i # r2.current
      BY <1>2, <1>3, <1>8, <3>2 DEF AllLater
    <3> QED
      BY <3>1, <3>2
  <2> QED
    BY <1>4, <1>8, <2>2 DEF AllLater, r2, after
<1> QED
  BY <1>6, <1>7, <1>8 DEF InRing

LEMMA FilledEntries ==
    ASSUME NEW card, NEW r, Ring(card, r), r.occupancy # 0,
           NEW n \in Nat, EarlierThan(card, n),
           NEW new, HasNew(card, r.current, new, n), new.head = card[r.current].head + 1,
           NEW e \in Nat, e < n,
           InRing(card, r, e) \/ (r.occupancy = Size /\ AllLater(card, r, e))
    PROVE  LET after == [card EXCEPT ![r.current] = new]
           IN  \/ InRing(after, r, e)
               \/ r.occupancy = Size /\ AllLater(after, r, e)
<1> DEFINE after == [card EXCEPT ![r.current] = new]
<1>1. /\ card \in [Indices -> SectorContents] /\ r \in Rings /\ r.current \in Indices
      /\ Used(r) \subseteq Indices /\ card[r.current].head \in Nat
      /\ new.head \in Nat /\ new.head - 1 = card[r.current].head /\ new.slots[new.head] = n
      /\ \A j \in 0 .. new.head - 1 : new.slots[j] = card[r.current].slots[j]
  <2>1. /\ card \in [Indices -> SectorContents] /\ r \in Rings /\ r.current \in Indices
        /\ card[r.current].head \in SlotIndices
    BY NewestIs DEF Ring
  <2>2. Used(r) \subseteq Indices
    BY <2>1, RingNumbers DEF Rings, Used, Indices
  <2>3. /\ new.slots[new.head] = n
        /\ \A j \in 0 .. new.head - 1 : new.slots[j] = card[r.current].slots[j]
    BY DEF HasNew
  <2> QED
    BY <2>1, <2>2, <2>3, RingNumbers DEF SlotIndices
<1>2. /\ after[r.current] = new
      /\ \A i \in Indices : i # r.current => after[i] = card[i]
  BY <1>1
<1> HIDE DEF after
<1>3. ASSUME NEW i \in Used(r), NEW j \in 0 .. card[i].head
      PROVE  j \in 0 .. after[i].head /\ after[i].slots[j] = card[i].slots[j]
  BY <1>1, <1>2
<1>4. ASSUME NEW i \in Used(r), NEW j \in 0 .. after[i].head
      PROVE  \/ after[i].slots[j] = n
             \/ j \in 0 .. card[i].head /\ after[i].slots[j] = card[i].slots[j]
  <2>1. CASE i = r.current
    <3>1. j = new.head \/ j \in 0 .. new.head - 1
      BY <1>1, <1>2, <2>1
    <3> QED
      BY <1>1, <1>2, <2>1, <3>1
  <2>2. CASE i # r.current
    BY <1>1, <1>2, <2>2
  <2> QED
    BY <2>1, <2>2
<1>5. CASE InRing(card, r, e)
  <2>1. InRing(after, r, e)
    BY <1>3, <1>5 DEF InRing
  <2> QED
    BY <2>1 DEF after
<1>6. CASE r.occupancy = Size /\ AllLater(card, r, e)
  <2>1. AllLater(after, r, e)
    BY <1>4, <1>6 DEF AllLater
  <2> QED
    BY <1>6, <2>1 DEF after
<1> QED
  BY <1>5, <1>6

(* The entries acknowledged before, and the one just written.              *)
LEMMA WroteAcked ==
    ASSUME RingInv, ~ failing, pc = "free"
    PROVE  /\ rb.occupancy # 0 /\ Newest(sectors, rb) = attempted
           /\ sectors[rb.current].state = "OCCUPIED" /\ InRing(sectors, rb, attempted)
           /\ \A e \in acked : e < attempted
           /\ ~ split => \A e \in acked :
                 InRing(sectors, rb, e) \/ (rb.occupancy = Size /\ AllLater(sectors, rb, e))
<1> DEFINE old == Recovered[rb.current]
           new == WithEntry(old, attempted)
<1>1. /\ old \in SectorContents /\ ~ NoSlotLeft(old)
      /\ sectors = [Recovered EXCEPT ![rb.current] = new]
      /\ Ring(sectors, rb) /\ rb.current \in Indices
      /\ Recovered \in [Indices -> SectorContents] /\ TypeOK
  BY WroteRing, AddCursorIs, CursorIs DEF RingInv
<1>2. /\ attempted \in Entries /\ attempted \in Nat /\ EarlierThan(Recovered, attempted)
  BY AddsAnEntry
<1>3. /\ new \in SectorContents /\ new.state = "OCCUPIED"
      /\ new.head = IF old.state = "OCCUPIED" THEN old.head + 1 ELSE 0
      /\ new.seq = IF old.state = "OCCUPIED" THEN old.seq ELSE rb.seq
      /\ \A j \in SlotIndices : new.slots[j] = IF j = new.head THEN attempted ELSE old.slots[j]
  <2> HIDE DEF old
  <2> QED BY <1>1, <1>2, WithEntryIs
<1> HIDE DEF new
<1>4. new.head \in SlotIndices /\ \A j \in 0 .. new.head - 1 : j \in SlotIndices /\ j # new.head
  BY <1>3, RingNumbers DEF SectorContents, SlotIndices
<1>5. HasNew(Recovered, rb.current, new, attempted)
  BY <1>3, <1>4 DEF HasNew
<1>6. sectors[rb.current] = new
  BY <1>1
<1>7. rb.occupancy # 0
  <2>1. rb.current < rb.occupancy /\ rb.current \in Nat
    BY <1>1, RingNumbers DEF TypeOK
  <2> QED
    BY <2>1
<1>8. Newest(sectors, rb) = attempted /\ sectors[rb.current].state = "OCCUPIED"
  BY <1>3, <1>4, <1>6 DEF Newest
<1>9. InRing(sectors, rb, attempted)
  BY <1>1, <1>7, <1>8, NewestIs
<1>10. \A e \in acked : e < attempted /\ e \in Nat
  BY <1>2, AckedEarlier
<1>11. ASSUME ~ split, NEW e \in acked
       PROVE  InRing(sectors, rb, e) \/ (rb.occupancy = Size /\ AllLater(sectors, rb, e))
  <2> DEFINE r == Cursor
  <2>1. /\ r.occupancy # 0 /\ Ring(Recovered, r)
        /\ InRing(Recovered, r, e) \/ (r.occupancy = Size /\ AllLater(Recovered, r, e))
        /\ ~ moved => Recovered[r.current].state = "OCCUPIED"
    BY <1>11 DEF RingInv, AckedInv
  <2>2. /\ ~ moved => rb = r
        /\ moved => /\ rb = Moved(r) /\ Recovered[r.current].state = "FULL"
                    /\ Recovered[rb.current].state # "OCCUPIED"
    BY <2>1, AddCursorIs
  <2> HIDE DEF r
  <2>3. e < attempted /\ e \in Nat
    BY <1>10
  <2>4. CASE ~ moved
    <3>1. new.head = Recovered[r.current].head + 1 /\ HasNew(Recovered, r.current, new, attempted)
      BY <1>3, <1>5, <2>1, <2>2, <2>4
    <3>2. LET after == [Recovered EXCEPT ![r.current] = new]
          IN  \/ InRing(after, r, e)
              \/ r.occupancy = Size /\ AllLater(after, r, e)
      <4> HIDE DEF old
      <4> QED BY <1>2, <2>1, <2>3, <3>1, FilledEntries
    <3> QED
      BY <1>1, <2>2, <2>4, <3>2
  <2>5. CASE moved
    <3>1. new.head = 0 /\ new.seq = Moved(r).seq /\ HasNew(Recovered, Moved(r).current, new, attempted)
      BY <1>3, <1>5, <2>2, <2>5
    <3>2. LET after == [Recovered EXCEPT ![Moved(r).current] = new]
          IN  \/ InRing(after, Moved(r), e)
              \/ Moved(r).occupancy = Size /\ AllLater(after, Moved(r), e)
      <4> HIDE DEF old
      <4> QED BY <1>2, <2>1, <2>2, <2>3, <2>5, <3>1, MovedEntries
    <3> QED
      BY <1>1, <2>2, <2>5, <3>2
  <2> QED
    BY <2>4, <2>5
<1> QED
  BY <1>7, <1>8, <1>9, <1>10, <1>11

-----------------------------------------------------------------------------
LEMMA RingInit == Init => RingInv
<1> SUFFICES ASSUME Init PROVE RingInv
  OBVIOUS
<1>1. Cleared \in SectorContents /\ EmptyRing \in Rings
  BY RingNumbers DEF Cleared, SectorContents, EmptyRing, Rings
<1>2. /\ sectors \in [Indices -> SectorContents] /\ undo = NoUndo /\ rb = EmptyRing /\ pc = "off"
      /\ moved = FALSE /\ attempted = 0 /\ acked = {} /\ failing = FALSE /\ split = FALSE
      /\ \A i \in Indices : sectors[i].state = "EMPTY"
      /\ \A i \in Indices : \A j \in SlotIndices : sectors[i].slots[j] = 0
  BY <1>1 DEF Init, Cleared, SlotIndices
<1>3. TypeOK
  <2>1. attempted \in 0 .. MaxAdds
    BY <1>2, RingAssumption
  <2> QED
    BY <1>1, <1>2, <2>1 DEF TypeOK
<1>4. Recovered = sectors
  BY <1>2 DEF Recovered
<1>5. Ring(Recovered, EmptyRing)
  BY <1>1, <1>2, <1>4 DEF Ring, EmptyRing
<1>6. Cursor = EmptyRing
  BY <1>5, RebuildFinds DEF Cursor
<1>7. EntriesInv
  BY <1>2, <1>4 DEF EntriesInv, EarlierThan
<1>8. AddInv /\ FailedInv
  BY <1>2 DEF AddInv, FailedInv
<1>9. AckedInv
  BY <1>2, <1>6 DEF AckedInv, EmptyRing
<1> QED
  BY <1>3, <1>5, <1>6, <1>7, <1>8, <1>9 DEF RingInv

LEMMA BeginAddKeeps == RingInv /\ BeginAdd => RingInv'
<1> SUFFICES ASSUME RingInv, BeginAdd PROVE RingInv'
  OBVIOUS
<1>1. /\ pc = "idle" /\ pc' = "journal" /\ attempted < MaxAdds /\ attempted' = attempted + 1
      /\ rb' = (IF rb.occupancy = 0 THEN AddToRing(rb) ELSE rb)
      /\ sectors' = sectors /\ undo' = undo /\ moved' = moved /\ acked' = acked
      /\ failing' = failing /\ split' = split
  BY DEF BeginAdd
<1>2. Recovered' = Recovered
  BY <1>1 DEF Recovered
<1>3. Cursor' = Cursor
  BY <1>2 DEF Cursor
<1>4. TypeOK /\ rb \in Rings /\ attempted \in 0 .. MaxAdds /\ ~ moved
  BY <1>1 DEF RingInv, AddInv, TypeOK
<1>5. rb.occupancy = 0 => rb.current = 0
  <2>1. CASE failing
    BY <1>4, <2>1 DEF RingInv, FailedInv, Used, Rings
  <2>2. CASE ~ failing
    <3>1. rb = Cursor
      BY <1>1, <2>2 DEF RingInv, AddInv
    <3> QED
      BY <3>1, CursorIs DEF EmptyRing
  <2> QED
    BY <2>1, <2>2
<1>6. AddToRing(rb) \in Rings /\ AddToRing(rb).current = rb.current
      /\ (rb.occupancy = 0 => AddToRing(rb).occupancy = 1)
  BY <1>4, RingNumbers DEF AddToRing, Rings
<1>7. rb' \in Rings /\ rb'.current = rb.current /\ rb'.occupancy # 0
      /\ (rb.occupancy # 0 => rb' = rb)
  BY <1>1, <1>4, <1>6
<1>8. rb'.current < rb'.occupancy
  <2>1. CASE rb.occupancy = 0
    BY <1>1, <1>5, <1>6, <2>1
  <2>2. CASE rb.occupancy # 0 /\ failing
    BY <1>4, <1>7, <2>2, RingNumbers DEF RingInv, FailedInv, Used, Rings
  <2>3. CASE rb.occupancy # 0 /\ ~ failing
    <3>1. rb = Cursor
      BY <1>1, <2>3 DEF RingInv, AddInv
    <3>2. rb.current \in Used(rb)
      BY <2>3, <3>1, CursorIs
    <3> QED
      BY <1>4, <1>7, <2>3, <3>2, RingNumbers DEF Used, Rings
  <2> QED
    BY <2>1, <2>2, <2>3
<1>9. TypeOK'
  <2>1. attempted' \in 0 .. MaxAdds
    BY <1>1, <1>4, RingAssumption
  <2> QED
    BY <1>1, <1>4, <1>7, <1>8, <2>1 DEF TypeOK
<1>10. Ring(Recovered, Cursor)'
  BY <1>2, <1>3 DEF RingInv
<1>11. AddInv'
  <2>1. ~ failing => undo = NoUndo /\ rb = Cursor
    BY <1>1 DEF RingInv, AddInv
  <2>2. ~ failing => rb' = Begun(Cursor)
    BY <1>1, <2>1 DEF Begun
  <2>3. ~ failing' => rb' = AddCursor'
    BY <1>1, <1>3, <1>4, <2>2 DEF AddCursor
  <2> QED
    BY <1>1, <1>4, <2>1, <2>3 DEF AddInv
<1>12. EntriesInv'
  <2>1. /\ \A i \in Indices, j \in SlotIndices : sectors[i].slots[j] < attempted + 1
        /\ \A i \in Indices, j \in SlotIndices : Recovered[i].slots[j] < attempted + 1
    BY DEF RingInv, EntriesInv, EarlierThan
  <2>2. /\ \A i \in Indices, j \in SlotIndices : sectors[i].slots[j] \in Nat
        /\ \A i \in Indices, j \in SlotIndices : Recovered[i].slots[j] \in Nat
    <3>1. sectors \in [Indices -> SectorContents] /\ Recovered \in [Indices -> SectorContents]
      BY <1>4, RecoveredType DEF TypeOK
    <3> QED
      BY <3>1, SlotsAreNumbers
  <2>3. /\ \A i \in Indices, j \in SlotIndices : sectors[i].slots[j] < (attempted + 1) + 1
        /\ \A i \in Indices, j \in SlotIndices : Recovered[i].slots[j] < (attempted + 1) + 1
    BY <1>4, <2>1, <2>2
  <2> QED
    BY <1>1, <1>2, <2>1, <2>3 DEF EntriesInv, EarlierThan
<1>13. FailedInv'
  <2> SUFFICES ASSUME failing PROVE FailedInv'
    BY <1>1 DEF FailedInv
  <2>1. rb.current \in Used(rb)
    BY DEF RingInv, FailedInv
  <2>2. rb' = rb
    BY <1>4, <1>7, <2>1 DEF Used, Rings
  <2> QED
    BY <1>1, <2>2 DEF RingInv, FailedInv, Newest
<1>14. AckedInv'
  BY <1>1, <1>2, <1>3 DEF RingInv, AckedInv
<1> QED
  BY <1>9, <1>10, <1>11, <1>12, <1>13, <1>14 DEF RingInv

LEMMA JournalAddKeeps == RingInv /\ JournalAdd => RingInv'
<1> SUFFICES ASSUME RingInv, JournalAdd PROVE RingInv'
  OBVIOUS
<1>1. /\ pc = "journal" /\ pc' = "write" /\ ~ failing
      /\ undo' = [index |-> rb.current, old |-> sectors[rb.current]]
      /\ rb' = rb /\ attempted' = attempted
      /\ sectors' = sectors /\ moved' = moved /\ acked' = acked
      /\ failing' = failing /\ split' = split
  BY DEF JournalAdd
<1>2. /\ TypeOK /\ rb \in Rings /\ rb.current \in Indices /\ sectors \in [Indices -> SectorContents]
      /\ undo = NoUndo /\ Recovered = sectors
  BY <1>1 DEF RingInv, AddInv, TypeOK, Rings, Recovered
<1>3. undo' \in Undos /\ undo'.index = rb.current /\ undo'.old = sectors[rb.current]
  BY <1>1, <1>2 DEF Undos
<1>4. Recovered' = Recovered
  <2>1. undo' # NoUndo
    BY <1>3, UndoNumbers
  <2>2. Recovered' = [sectors EXCEPT ![rb.current] = sectors[rb.current]]
    BY <1>1, <1>3, <2>1 DEF Recovered
  <2> QED
    BY <1>2, <2>2
<1>5. Cursor' = Cursor
  BY <1>4 DEF Cursor
<1>6. TypeOK'
  BY <1>1, <1>2, <1>3 DEF TypeOK
<1>7. Ring(Recovered, Cursor)'
  BY <1>4, <1>5 DEF RingInv
<1>8. AddInv'
  <2>1. rb = AddCursor
    BY <1>1 DEF RingInv, AddInv
  <2>2. rb' = AddCursor'
    BY <1>1, <1>5, <2>1 DEF AddCursor
  <2> QED
    BY <1>1, <1>4, <1>5, <2>2 DEF RingInv, AddInv
<1>9. EntriesInv'
  BY <1>1, <1>4 DEF RingInv, EntriesInv
<1>10. FailedInv'
  BY <1>1 DEF FailedInv
<1>11. AckedInv'
  BY <1>1, <1>4, <1>5 DEF RingInv, AckedInv
<1> QED
  BY <1>6, <1>7, <1>8, <1>9, <1>10, <1>11 DEF RingInv

LEMMA WriteSectorKeeps == RingInv /\ WriteSector => RingInv'
<1> SUFFICES ASSUME RingInv, WriteSector PROVE RingInv'
  OBVIOUS
<1> DEFINE old == sectors[rb.current]
           new == IF NoSlotLeft(old) THEN [old EXCEPT !.state = "FULL"]
                  ELSE WithEntry(old, attempted)
<1>1. /\ pc = "write" /\ ~ failing /\ undo' = undo /\ rb' = rb /\ moved' = moved
      /\ attempted' = attempted /\ acked' = acked /\ failing' = failing /\ split' = split
      /\ pc' = IF NoSlotLeft(old) THEN "free_full" ELSE "free"
      /\ NoSlotLeft(old) => sectors' = [sectors EXCEPT ![rb.current].state = "FULL"]
      /\ ~ NoSlotLeft(old) => sectors' = [sectors EXCEPT ![rb.current] = new]
  BY DEF WriteSector
<1>2. /\ TypeOK /\ rb \in Rings /\ rb.current \in Indices /\ sectors \in [Indices -> SectorContents]
      /\ undo = [index |-> rb.current, old |-> old] /\ rb = AddCursor
      /\ old \in SectorContents
  BY <1>1 DEF RingInv, AddInv, TypeOK, Rings
<1>3. undo \in Undos /\ undo # NoUndo /\ undo.index = rb.current /\ undo.old = old
  BY <1>2, UndoNumbers DEF Undos
<1>4. Recovered = sectors
  <2>1. Recovered = [sectors EXCEPT ![rb.current] = sectors[rb.current]]
    BY <1>3 DEF Recovered
  <2> QED
    BY <1>2, <2>1
<1>5. /\ attempted \in Entries /\ attempted \in Nat /\ EarlierThan(sectors, attempted)
      /\ EarlierThan(Recovered, attempted)
  BY <1>1, AddsAnEntry DEF RingInv, EntriesInv
<1>6. sectors' = [sectors EXCEPT ![rb.current] = new]
  <2>1. CASE NoSlotLeft(old)
    <3>1. [sectors EXCEPT ![rb.current].state = "FULL"]
             = [sectors EXCEPT ![rb.current] = [old EXCEPT !.state = "FULL"]]
      BY <1>2
    <3> QED
      BY <1>1, <2>1, <3>1
  <2>2. CASE ~ NoSlotLeft(old)
    BY <1>1, <2>2
  <2> QED
    BY <2>1, <2>2
<1>7. /\ new \in SectorContents
      /\ \A j \in SlotIndices : new.slots[j] = old.slots[j] \/ (~ NoSlotLeft(old) /\ new.slots[j] = attempted)
  <2>1. CASE NoSlotLeft(old)
    BY <1>2, <2>1 DEF SectorContents
  <2>2. CASE ~ NoSlotLeft(old)
    <3> HIDE DEF old
    <3> QED BY <1>2, <1>5, <2>2, WithEntryIs
  <2> QED
    BY <2>1, <2>2
<1> HIDE DEF new
<1>8. Recovered' = Recovered
  <2>1. Recovered' = [sectors' EXCEPT ![rb.current] = old]
    BY <1>1, <1>3 DEF Recovered
  <2> QED
    BY <1>2, <1>4, <1>6, <2>1
<1>9. Cursor' = Cursor
  BY <1>8 DEF Cursor
<1>10. TypeOK'
  <2>1. sectors' \in [Indices -> SectorContents]
    BY <1>2, <1>6, <1>7
  <2> QED
    BY <1>1, <1>2, <2>1 DEF TypeOK
<1>11. Ring(Recovered, Cursor)'
  BY <1>8, <1>9 DEF RingInv
<1>12. sectors'[rb.current] = new
  BY <1>2, <1>6
<1>13. AddInv'
  <2>1. moved' => /\ pc' \in {"journal", "write", "free"}
                  /\ Cursor.occupancy # 0 /\ Recovered[Cursor.current].state = "FULL"
    <3>1. moved => ~ NoSlotLeft(old)
      BY <1>1, <1>4, AddCursorIs DEF NoSlotLeft
    <3> QED
      BY <1>1, <3>1 DEF RingInv, AddInv
  <2>2. CASE NoSlotLeft(old)
    <3>1. ~ moved /\ Cursor.occupancy # 0 /\ rb = Cursor
      <4>1. ~ moved
        BY <1>1, <1>4, <2>2, AddCursorIs DEF NoSlotLeft
      <4>2. Cursor.occupancy = 0 => old.state = "EMPTY"
        <5>1. Cursor.occupancy = 0 => rb.current \in Indices \ Used(Cursor)
          BY <1>2, RingNumbers DEF Used
        <5> QED
          BY <1>4, <5>1, CursorIs DEF Ring
      <4>3. Cursor.occupancy # 0
        BY <2>2, <4>2 DEF NoSlotLeft
      <4> QED
        BY <1>2, <4>1, <4>3 DEF AddCursor, Begun
    <3>2. sectors'[rb.current] = [undo.old EXCEPT !.state = "FULL"]
      BY <1>3, <1>12, <2>2 DEF new
    <3> QED
      BY <1>1, <1>3, <1>8, <1>9, <2>1, <2>2, <3>1, <3>2 DEF AddInv
  <2>3. CASE ~ NoSlotLeft(old)
    <3>1. sectors'[rb'.current] = WithEntry(undo.old, attempted)'
      BY <1>1, <1>3, <1>12, <2>3 DEF new, WithEntry
    <3>2. rb' = AddCursor'
      BY <1>1, <1>2, <1>9 DEF AddCursor
    <3> QED
      BY <1>1, <1>3, <1>8, <1>9, <2>1, <2>3, <3>1, <3>2 DEF AddInv
  <2> QED
    BY <2>2, <2>3
<1>14. EntriesInv'
  <2>1. EarlierThan(sectors', attempted + 1)
    <3>1. ASSUME NEW i \in Indices, NEW j \in SlotIndices PROVE sectors'[i].slots[j] < attempted + 1
      <4>1. sectors[i].slots[j] < attempted + 1
        BY DEF RingInv, EntriesInv, EarlierThan
      <4> QED
        BY <1>2, <1>5, <1>6, <1>7, <4>1
    <3> QED
      BY <3>1 DEF EarlierThan
  <2>2. NoSlotLeft(old) => EarlierThan(sectors', attempted)
    <3>1. ASSUME NoSlotLeft(old), NEW i \in Indices, NEW j \in SlotIndices
          PROVE  sectors'[i].slots[j] < attempted
      <4>1. sectors[i].slots[j] < attempted
        BY <1>5 DEF EarlierThan
      <4> QED
        BY <1>2, <1>6, <1>7, <3>1, <4>1
    <3> QED
      BY <3>1 DEF EarlierThan
  <2> QED
    BY <1>1, <1>5, <1>8, <2>1, <2>2 DEF RingInv, EntriesInv
<1>15. FailedInv'
  BY <1>1 DEF FailedInv
<1>16. AckedInv'
  BY <1>1, <1>8, <1>9 DEF RingInv, AckedInv
<1> QED
  BY <1>10, <1>11, <1>13, <1>14, <1>15, <1>16 DEF RingInv

(* The sector marked FULL, which only the next boot or the commit makes    *)
(* part of the ring.                                                       *)
LEMMA MarkedRing ==
    ASSUME RingInv, ~ failing, pc = "free_full"
    PROVE  /\ rb = Cursor /\ rb.occupancy # 0 /\ Ring(sectors, rb) /\ ~ moved
           /\ sectors = [Recovered EXCEPT ![rb.current].state = "FULL"]
           /\ rb.current \in Indices /\ Recovered \in [Indices -> SectorContents]
           /\ sectors[rb.current].state = "FULL"
<1>1. /\ undo.index = rb.current /\ rb = Cursor /\ rb.occupancy # 0 /\ NoSlotLeft(undo.old)
      /\ sectors[rb.current] = [undo.old EXCEPT !.state = "FULL"] /\ ~ moved
      /\ sectors \in [Indices -> SectorContents] /\ rb.current \in Indices /\ undo \in Undos
      /\ TypeOK
  BY RingNumbers DEF RingInv, AddInv, TypeOK, Rings, NoUndo, Indices
<1>2. /\ Recovered = [sectors EXCEPT ![rb.current] = undo.old] /\ undo.old \in SectorContents
      /\ Recovered \in [Indices -> SectorContents]
  BY <1>1, UndoNumbers, RecoveredType DEF Recovered
<1>3. sectors = [Recovered EXCEPT ![rb.current].state = "FULL"]
  <2>1. Recovered[rb.current] = undo.old /\ \A i \in Indices : i # rb.current => Recovered[i] = sectors[i]
    BY <1>1, <1>2
  <2> DEFINE after == [Recovered EXCEPT ![rb.current].state = "FULL"]
  <2>2. after[rb.current] = [undo.old EXCEPT !.state = "FULL"]
    BY <1>1, <1>2, <2>1
  <2>3. /\ after \in [Indices -> SectorContents]
        /\ \A i \in Indices : i # rb.current => after[i] = sectors[i]
    BY <1>1, <1>2, <2>1 DEF SectorContents
  <2> HIDE DEF after
  <2>4. sectors = after
    BY <1>1, <2>2, <2>3
  <2> QED
    BY <2>4 DEF after
<1>4. Ring(Recovered, rb) /\ Recovered[rb.current].head = Capacity - 1
  BY <1>1, <1>2 DEF RingInv, NoSlotLeft
<1>5. Ring([Recovered EXCEPT ![rb.current].state = "FULL"], rb)
  BY <1>1, <1>4, RingMarked
<1>6. sectors[rb.current].state = "FULL"
  BY <1>1, <1>2 DEF SectorContents
<1> QED
  BY <1>1, <1>2, <1>3, <1>5, <1>6

LEMMA FreeFullKeeps == RingInv /\ FreeFull => RingInv'
<1> SUFFICES ASSUME RingInv, FreeFull PROVE RingInv'
  OBVIOUS
<1>1. /\ pc = "free_full" /\ ~ failing /\ undo' = NoUndo /\ rb' = Moved(rb)
      /\ pc' = "journal" /\ moved' = TRUE /\ sectors' = sectors
      /\ attempted' = attempted /\ acked' = acked /\ failing' = failing /\ split' = split
  BY DEF FreeFull, Moved
<1>2. /\ rb = Cursor /\ rb.occupancy # 0 /\ Ring(sectors, rb) /\ ~ moved
      /\ sectors = [Recovered EXCEPT ![rb.current].state = "FULL"]
      /\ rb.current \in Indices /\ Recovered \in [Indices -> SectorContents]
      /\ sectors[rb.current].state = "FULL" /\ TypeOK
  BY <1>1, MarkedRing DEF RingInv
<1>3. Recovered' = sectors
  BY <1>1 DEF Recovered
<1>4. Cursor' = rb
  <2>1. Rebuild(sectors) = rb
    BY <1>2, RebuildFinds
  <2> QED
    BY <1>3, <2>1 DEF Cursor
<1>5. Moved(rb) \in Rings /\ Moved(rb).current \in Used(Moved(rb))
  BY <1>2, MovedIs
<1>6. TypeOK'
  <2>1. Moved(rb).current < Moved(rb).occupancy
    BY <1>5, RingNumbers DEF Used, Rings
  <2> QED
    BY <1>1, <1>2, <1>5, <2>1 DEF TypeOK
<1>7. Ring(Recovered, Cursor)'
  BY <1>2, <1>3, <1>4
<1>8. AddInv'
  <2>1. rb' = AddCursor'
    BY <1>1, <1>4 DEF AddCursor
  <2> QED
    BY <1>1, <1>2, <1>3, <1>4, <2>1 DEF AddInv
<1>9. EntriesInv'
  BY <1>1, <1>3 DEF RingInv, EntriesInv
<1>10. FailedInv'
  BY <1>1 DEF FailedInv
<1>11. AckedInv'
  <2>1. \A i \in Indices : sectors[i].slots = Recovered[i].slots /\ sectors[i].head = Recovered[i].head
    BY <1>2 DEF SectorContents
  <2>2. Used(rb) \subseteq Indices
    BY <1>2, RingNumbers DEF Ring, Rings, Used, Indices
  <2>3. Newest(sectors, rb) = Newest(Recovered, Cursor)
    BY <1>2, <2>1 DEF Newest
  <2>4. \A e \in acked : /\ InRing(Recovered, Cursor, e) => InRing(sectors, rb, e)
                         /\ AllLater(Recovered, Cursor, e) => AllLater(sectors, rb, e)
    BY <1>2, <2>1, <2>2 DEF InRing, AllLater
  <2> QED
    BY <1>1, <1>2, <1>3, <1>4, <2>3, <2>4 DEF RingInv, AckedInv
<1> QED
  BY <1>6, <1>7, <1>8, <1>9, <1>10, <1>11 DEF RingInv

LEMMA FreeKeeps == RingInv /\ Free => RingInv'
<1> SUFFICES ASSUME RingInv, Free PROVE RingInv'
  OBVIOUS
<1>1. /\ pc = "free" /\ ~ failing /\ undo' = NoUndo /\ pc' = "idle" /\ moved' = FALSE
      /\ acked' = acked \cup {attempted} /\ sectors' = sectors /\ rb' = rb
      /\ attempted' = attempted /\ failing' = failing /\ split' = split
  BY DEF Free
<1>2. /\ Ring(sectors, rb) /\ attempted \in Entries /\ attempted \in Nat /\ TypeOK
  BY <1>1, WroteRing, AddsAnEntry DEF RingInv
<1>3. Recovered' = sectors
  BY <1>1 DEF Recovered
<1>4. Cursor' = rb
  <2>1. Rebuild(sectors) = rb
    BY <1>2, RebuildFinds
  <2> QED
    BY <1>3, <2>1 DEF Cursor
<1>5. TypeOK'
  BY <1>1, <1>2 DEF TypeOK
<1>6. Ring(Recovered, Cursor)'
  BY <1>2, <1>3, <1>4
<1>7. AddInv'
  BY <1>1, <1>4 DEF AddInv
<1>8. EntriesInv'
  BY <1>1, <1>3 DEF RingInv, EntriesInv
<1>9. FailedInv'
  BY <1>1 DEF FailedInv
<1>10. AckedInv'
  <2>1. /\ rb.occupancy # 0 /\ Newest(sectors, rb) = attempted
        /\ sectors[rb.current].state = "OCCUPIED" /\ InRing(sectors, rb, attempted)
        /\ \A e \in acked : e < attempted
        /\ ~ split => \A e \in acked :
              InRing(sectors, rb, e) \/ (rb.occupancy = Size /\ AllLater(sectors, rb, e))
    BY <1>1, WroteAcked
  <2>2. \A e \in acked' : e <= attempted
    <3>1. \A e \in acked : e \in Nat
      BY <1>2 DEF TypeOK, Entries
    <3> QED
      BY <1>1, <1>2, <2>1, <3>1
  <2>3. ~ split => \A e \in acked' :
              InRing(sectors, rb, e) \/ (rb.occupancy = Size /\ AllLater(sectors, rb, e))
    BY <1>1, <2>1
  <2> QED
    BY <1>1, <1>3, <1>4, <2>1, <2>2, <2>3 DEF AckedInv
<1> QED
  BY <1>5, <1>6, <1>7, <1>8, <1>9, <1>10 DEF RingInv

(* Whatever step of an add fails, the cursor that it leaves in RAM can be  *)
(* paged from; it is at the newest entry unless the cursor had moved on.   *)
LEMMA RingPageable ==
    ASSUME NEW card, NEW r, Ring(card, r), r.occupancy # 0
    PROVE  Pageable(card, r)
  BY DEF Ring, RingAt, Pageable

LEMMA AddPageable ==
    ASSUME RingInv, ~ failing, pc \in {"journal", "write"}
    PROVE  /\ Pageable(Recovered, rb)
           /\ ~ moved => \A e \in acked : /\ Recovered[rb.current].state # "EMPTY"
                                          /\ e <= Newest(Recovered, rb)
<1>1. /\ rb = AddCursor /\ rb.current \in Indices /\ rb \in Rings
      /\ Cursor.occupancy = 0 => rb = AddToRing(Cursor) /\ rb.current = 0 /\ rb.occupancy = 1
                                      /\ rb.seq = 0 /\ ~ moved
      /\ Cursor.occupancy # 0 /\ ~ moved => rb = Cursor
      /\ moved => /\ rb = Moved(Cursor) /\ Cursor.occupancy # 0
                  /\ Recovered[Cursor.current].state = "FULL"
                  /\ Recovered[rb.current].state # "OCCUPIED"
  BY AddCursorIs
<1> DEFINE r == Cursor
<1>2. Ring(Recovered, r)
  BY DEF RingInv
<1>3. \A e \in acked : r.occupancy # 0 /\ e <= Newest(Recovered, r)
  BY DEF RingInv, AckedInv
<1>4. CASE r.occupancy = 0
  <2>1. 0 \in Indices \ Used(r)
    BY <1>4, RingNumbers DEF Used
  <2>2. Recovered[rb.current].state = "EMPTY"
    BY <1>1, <1>2, <1>4, <2>1 DEF Ring
  <2> QED
    BY <1>3, <1>4, <2>2 DEF Pageable
<1>5. CASE r.occupancy # 0 /\ ~ moved
  <2> HIDE DEF r
  <2>1. rb = r
    BY <1>1, <1>5 DEF r
  <2> QED
    BY <1>2, <1>3, <1>5, <2>1, RingPageable, NewestIs
<1>6. CASE moved
  <2>1. rb = Moved(r) /\ r.occupancy # 0 /\ Recovered[r.current].state = "FULL"
    BY <1>1, <1>6
  <2> HIDE DEF r
  <2>2. \A i \in Used(Moved(r)) \ {Moved(r).current} :
           Recovered[i].state = "FULL" /\ Recovered[i].head = Capacity - 1
    BY <1>2, <2>1, MovedOthers
  <2>3. Pageable(Recovered, rb)
    BY <2>1, <2>2 DEF Pageable
  <2> QED
    BY <1>6, <2>3
<1> QED
  BY <1>4, <1>5, <1>6

LEMMA WriteFailsKeeps == RingInv /\ WriteFails => RingInv'
<1> SUFFICES ASSUME RingInv, WriteFails PROVE RingInv'
  OBVIOUS
<1>1. /\ pc \in {"journal", "write", "free_full", "free"} /\ split' = (split \/ moved)
      /\ failing' = TRUE /\ pc' = "idle" /\ moved' = FALSE /\ sectors' = sectors
      /\ undo' = undo /\ rb' = rb /\ attempted' = attempted /\ acked' = acked
  BY DEF WriteFails
<1>2. Recovered' = Recovered
  BY <1>1 DEF Recovered
<1>3. Cursor' = Cursor
  BY <1>2 DEF Cursor
<1>4. TypeOK /\ rb \in Rings /\ rb.current < rb.occupancy
      /\ split \in BOOLEAN /\ moved \in BOOLEAN
  BY <1>1 DEF RingInv, TypeOK
<1>5. TypeOK'
  BY <1>1, <1>4 DEF TypeOK
<1>6. Ring(Recovered, Cursor)'
  BY <1>2, <1>3 DEF RingInv
<1>7. AddInv'
  BY <1>1 DEF AddInv
<1>8. EntriesInv'
  BY <1>1, <1>2 DEF RingInv, EntriesInv
<1>9. rb.current \in Used(rb)
  BY <1>4, RingNumbers DEF Rings, Used
<1>10. Pageable(sectors, rb) /\ (~ split /\ ~ moved =>
          \A e \in acked : sectors[rb.current].state # "EMPTY" /\ e <= Newest(sectors, rb))
  <2>1. CASE failing
    BY <2>1 DEF RingInv, FailedInv
  <2>2. CASE ~ failing /\ pc \in {"journal", "write"}
    <3>1. Recovered = sectors
      <4>1. CASE pc = "journal"
        BY <2>2, <4>1 DEF RingInv, AddInv, Recovered
      <4>2. CASE pc = "write"
        <5>1. undo.index = rb.current /\ undo.old = sectors[rb.current]
          BY <2>2, <4>2 DEF RingInv, AddInv
        <5>2. [sectors EXCEPT ![rb.current] = sectors[rb.current]] = sectors
          BY <1>4 DEF TypeOK
        <5> QED
          BY <5>1, <5>2 DEF Recovered
      <4> QED
        BY <2>2, <4>1, <4>2
    <3> QED
      BY <2>2, <3>1, AddPageable
  <2>3. CASE ~ failing /\ pc = "free_full"
    <3>1. /\ rb = Cursor /\ rb.occupancy # 0 /\ Ring(sectors, rb)
          /\ sectors = [Recovered EXCEPT ![rb.current].state = "FULL"]
          /\ rb.current \in Indices /\ Recovered \in [Indices -> SectorContents]
      BY <2>3, MarkedRing
    <3>2. sectors[rb.current].slots = Recovered[rb.current].slots
          /\ sectors[rb.current].head = Recovered[rb.current].head
      BY <3>1 DEF SectorContents
    <3>3. \A e \in acked : e <= Newest(sectors, rb)
      BY <3>1, <3>2 DEF RingInv, AckedInv, Newest
    <3> QED
      BY <3>1, <3>3, RingPageable, NewestIs
  <2>4. CASE ~ failing /\ pc = "free"
    <3>1. Ring(sectors, rb) /\ rb.occupancy # 0 /\ Newest(sectors, rb) = attempted
          /\ \A e \in acked : e < attempted
      BY <2>4, WroteRing, WroteAcked
    <3>2. \A e \in acked : e <= Newest(sectors, rb)
      BY <1>4, <3>1 DEF TypeOK, Entries
    <3> QED
      BY <3>1, <3>2, RingPageable, NewestIs
  <2> QED
    BY <1>1, <2>1, <2>2, <2>3, <2>4
<1>11. FailedInv'
  BY <1>1, <1>4, <1>9, <1>10 DEF FailedInv, Newest
<1>12. AckedInv'
  BY <1>1, <1>2, <1>3, <1>4 DEF RingInv, AckedInv
<1> QED
  BY <1>5, <1>6, <1>7, <1>8, <1>11, <1>12 DEF RingInv

LEMMA PowerCutKeeps == RingInv /\ PowerCut => RingInv'
<1> SUFFICES ASSUME RingInv, PowerCut PROVE RingInv'
  OBVIOUS
<1>1. /\ pc' = "off" /\ split' = (split \/ moved) /\ rb' = EmptyRing
      /\ failing' = FALSE /\ moved' = FALSE /\ sectors' = sectors
      /\ undo' = undo /\ attempted' = attempted /\ acked' = acked
  BY DEF PowerCut
<1>2. Recovered' = Recovered
  BY <1>1 DEF Recovered
<1>3. Cursor' = Cursor
  BY <1>2 DEF Cursor
<1>4. TypeOK /\ split \in BOOLEAN /\ moved \in BOOLEAN /\ EmptyRing \in Rings
  BY RingNumbers DEF RingInv, TypeOK, EmptyRing, Rings
<1>5. TypeOK'
  BY <1>1, <1>4 DEF TypeOK
<1>6. AckedInv'
  BY <1>1, <1>2, <1>3, <1>4 DEF RingInv, AckedInv
<1>7. EntriesInv'
  BY <1>1, <1>2 DEF RingInv, EntriesInv
<1> QED
  BY <1>1, <1>2, <1>3, <1>5, <1>6, <1>7 DEF RingInv, AddInv, FailedInv

LEMMA BootKeeps == RingInv /\ Boot => RingInv'
<1> SUFFICES ASSUME RingInv, Boot PROVE RingInv'
  OBVIOUS
<1>1. /\ pc = "off" /\ pc' = "idle" /\ sectors' = Recovered /\ undo' = NoUndo /\ rb' = Cursor
      /\ moved' = moved /\ attempted' = attempted /\ acked' = acked
      /\ failing' = failing /\ split' = split
  BY DEF Boot, Cursor
<1>2. Recovered' = Recovered
  BY <1>1 DEF Recovered
<1>3. Cursor' = Cursor
  BY <1>2 DEF Cursor
<1>4. TypeOK /\ ~ failing /\ ~ moved /\ Recovered \in [Indices -> SectorContents] /\ Cursor \in Rings
  BY <1>1, CursorIs DEF RingInv, FailedInv, AddInv
<1>5. TypeOK'
  BY <1>1, <1>4 DEF TypeOK
<1>6. AckedInv'
  BY <1>1, <1>2, <1>3 DEF RingInv, AckedInv
<1>7. EntriesInv'
  BY <1>1, <1>2 DEF RingInv, EntriesInv
<1>8. AddInv' /\ FailedInv'
  BY <1>1, <1>3, <1>4 DEF AddInv, FailedInv
<1> QED
  BY <1>2, <1>3, <1>5, <1>6, <1>7, <1>8 DEF RingInv

LEMMA RingStutters == RingInv /\ UNCHANGED vars => RingInv'
<1> SUFFICES ASSUME RingInv, UNCHANGED vars PROVE RingInv'
  OBVIOUS
<1>1. /\ sectors' = sectors /\ undo' = undo /\ rb' = rb /\ pc' = pc /\ moved' = moved
      /\ attempted' = attempted /\ acked' = acked /\ failing' = failing /\ split' = split
  BY DEF vars
<1>2. Recovered' = Recovered
  BY <1>1 DEF Recovered
<1>3. Cursor' = Cursor
  BY <1>2 DEF Cursor
<1>4. TypeOK' /\ EntriesInv' /\ AckedInv' /\ FailedInv'
  BY <1>1, <1>2, <1>3 DEF RingInv, TypeOK, EntriesInv, AckedInv, FailedInv, Newest
<1>5. AddInv'
  <2>1. AddCursor' = AddCursor
    BY <1>1, <1>3 DEF AddCursor
  <2>2. WithEntry(undo.old, attempted)' = WithEntry(undo.old, attempted)
    BY <1>1 DEF WithEntry
  <2> QED
    BY <1>1, <1>2, <1>3, <2>1, <2>2 DEF RingInv, AddInv
<1> QED
  BY <1>2, <1>3, <1>4, <1>5 DEF RingInv

(* The card is a ring at every moment, with one cursor that fits it, and   *)
(* what RAM and the add in progress hold is in step with it.               *)
THEOREM RingInvariant == Spec => []RingInv
<1>1. RingInv /\ [Next]_vars => RingInv'
  BY BeginAddKeeps, JournalAddKeeps, WriteSectorKeeps, FreeFullKeeps, FreeKeeps,
     WriteFailsKeeps, PowerCutKeeps, BootKeeps, RingStutters DEF Next
<1> QED
  BY RingInit, <1>1, PTL DEF Spec

(* The sectors, the saved sector and the cursor stay what their C types    *)
(* hold, and an add never leaves the occupied part of the ring.            *)
THEOREM TypeCorrect == Spec => []TypeOK
<1>1. RingInv => TypeOK
  BY DEF RingInv
<1> QED
  BY RingInvariant, <1>1, PTL

(* reconstruct_ring_buffer rebuilds the cursor that the adds have moved    *)
(* to, whichever sectors hold which sequence numbers, wrapped or not.      *)
THEOREM RebuildCorrect == Spec => []RebuildMatchesRam
<1>1. RingInv => RebuildMatchesRam
  BY DEF RingInv, AddInv, RebuildMatchesRam, Cursor, Recovered
<1> QED
  BY RingInvariant, <1>1, PTL

-----------------------------------------------------------------------------
(* The lists that message_history_get_range gives.  Slot number v, counted *)
(* from the last slot of the current sector back through the ring:         *)
SlotBack(card, r, v) ==
    card[StepsBack(r, v \div Capacity)].slots[Capacity - 1 - (v % Capacity)]

Unused(card, r) == Capacity - 1 - card[r.current].head

(* The sectors' entries laid end to end, from slot pos of the one that is  *)
(* skip sectors back.                                                      *)
Pages(card, r, skip, pos) ==
    FlattenSeq(<<SectorEntries(card[StepsBack(r, skip)], pos)>> \o
               [k \in 1 .. r.occupancy - skip - 1 |->
                    SectorEntries(card[StepsBack(r, skip + k)], Capacity - 1)])

Listable(card, r) ==
    /\ card \in [Indices -> SectorContents] /\ r \in Rings
    /\ r.current \in Used(r)
    /\ card[r.current].state # "EMPTY" /\ Pageable(card, r)

LEMMA StepsBackIs ==
    ASSUME NEW r \in Rings, r.current \in Used(r), NEW k \in 0 .. r.occupancy - 1
    PROVE  /\ StepsBack(r, k) = IF k <= r.current THEN r.current - k
                                ELSE r.current + r.occupancy - k
           /\ StepsBack(r, k) \in Used(r) /\ StepsBack(r, k) \in Indices
           /\ (StepsBack(r, k) = r.current <=> k = 0)
<1> DEFINE occ == r.occupancy  a == r.current + r.occupancy - k
<1>1. occ \in Nat /\ occ > 0 /\ occ <= Size /\ r.current \in 0 .. occ - 1
  BY RingNumbers DEF Rings, Used
<1>2. a \in 0 .. 2 * occ - 1
  BY <1>1
<1>3. a % occ = IF a < occ THEN a ELSE a - occ
  <2> HIDE DEF a, occ
  <2> QED BY <1>1, <1>2, WrapOnce
<1>4. StepsBack(r, k) = a % occ
  BY DEF StepsBack
<1>5. StepsBack(r, k) = IF k <= r.current THEN r.current - k ELSE r.current + r.occupancy - k
  BY <1>1, <1>3, <1>4
<1> QED
  BY <1>1, <1>5, RingNumbers DEF Used, Indices

LEMMA EveryStepBack ==
    ASSUME NEW r \in Rings, r.current \in Used(r), NEW i \in Used(r)
    PROVE  \E k \in 0 .. r.occupancy - 1 : StepsBack(r, k) = i
<1> DEFINE k == IF i <= r.current THEN r.current - i ELSE r.current + r.occupancy - i
<1>1. k \in 0 .. r.occupancy - 1 /\ i = IF k <= r.current THEN r.current - k
                                            ELSE r.current + r.occupancy - k
  BY RingNumbers DEF Rings, Used
<1> HIDE DEF k
<1> QED
  BY <1>1, StepsBackIs

LEMMA SectorEntriesAre ==
    ASSUME NEW sector \in SectorContents, sector.state # "EMPTY", NEW pos \in SlotIndices
    PROVE  /\ SectorEntries(sector, pos) \in Seq(Entries \cup {0})
           /\ Len(SectorEntries(sector, pos)) = pos + 1
           /\ \A p \in 1 .. pos + 1 : SectorEntries(sector, pos)[p] = sector.slots[(pos + 1) - p]
<1> DEFINE list == SectorEntries(sector, pos)  n == pos + 1  X == Entries \cup {0}
<1>1. list = [k \in 1 .. pos + 1 |-> sector.slots[pos + 1 - k]]
  BY DEF SectorEntries
<1>2. \A k \in 1 .. pos + 1 : sector.slots[pos + 1 - k] \in X
  BY RingNumbers DEF SectorContents, SlotIndices
<1>3. n \in Nat /\ list \in [1 .. n -> X]
  BY <1>1, <1>2, RingNumbers DEF SlotIndices
<1>4. list \in Seq(X) /\ Len(list) = n
  <2> HIDE DEF list, n, X
  <2> QED BY <1>3, FunctionIsSeq
<1>5. \A p \in 1 .. pos + 1 : pos + 1 - p = (pos + 1) - p
  BY RingNumbers DEF SlotIndices
<1> QED
  BY <1>1, <1>4, <1>5

LEMMA PagesAre ==
    ASSUME NEW card, NEW r, Listable(card, r),
           NEW skip \in 0 .. r.occupancy - 1, NEW pos \in SlotIndices
    PROVE  LET all  == Pages(card, r, skip, pos)
               base == skip * Capacity + (Capacity - 1 - pos)
           IN  /\ all \in Seq(Entries \cup {0})
               /\ Len(all) = pos + 1 + (r.occupancy - skip - 1) * Capacity
               /\ \A x \in 1 .. Len(all) : all[x] = SlotBack(card, r, base + (x - 1))
<1> DEFINE X == Entries \cup {0}
           c == Capacity
           a == pos + 1
           m == r.occupancy - skip - 1
           Sector(k) == card[StepsBack(r, skip + k)]
           head == SectorEntries(card[StepsBack(r, skip)], pos)
           tail == [k \in 1 .. m |-> SectorEntries(Sector(k), c - 1)]
           visits == <<head>> \o tail
           all == Pages(card, r, skip, pos)
           base == skip * c + (c - 1 - pos)
<1>1. /\ c \in Nat /\ c > 0 /\ c - 1 \in SlotIndices /\ a \in 1 .. c /\ m \in Nat /\ skip \in Nat
      /\ r.occupancy \in Nat /\ r \in Rings /\ r.current \in Used(r)
  BY RingNumbers DEF SlotIndices, Rings, Listable
<1>2. ASSUME NEW k \in 0 .. r.occupancy - 1
      PROVE  card[StepsBack(r, k)] \in SectorContents /\ card[StepsBack(r, k)].state # "EMPTY"
  <2>1. StepsBack(r, k) \in Used(r) /\ StepsBack(r, k) \in Indices
    BY <1>1, StepsBackIs
  <2> DEFINE i == StepsBack(r, k)
  <2> HIDE DEF i
  <2>2. card[i] \in SectorContents /\ card[i].state # "EMPTY"
    BY <2>1 DEF Listable, Pageable, i
  <2> QED
    BY <2>2 DEF i
<1>3. /\ head \in Seq(X) /\ Len(head) = a
      /\ \A p \in 1 .. a : head[p] = card[StepsBack(r, skip)].slots[a - p]
  <2> DEFINE sector == card[StepsBack(r, skip)]
  <2>1. sector \in SectorContents /\ sector.state # "EMPTY"
    BY <1>2
  <2> HIDE DEF sector
  <2>2. /\ SectorEntries(sector, pos) \in Seq(X) /\ Len(SectorEntries(sector, pos)) = a
        /\ \A p \in 1 .. a : SectorEntries(sector, pos)[p] = sector.slots[a - p]
    BY <2>1, SectorEntriesAre
  <2> HIDE DEF a, X
  <2> QED
    BY <2>2 DEF sector
<1>4. ASSUME NEW k \in 1 .. m
      PROVE  /\ tail[k] \in Seq(X) /\ Len(tail[k]) = c
             /\ \A q \in 1 .. c : tail[k][q] = Sector(k).slots[c - q]
  <2>1. skip + k \in 0 .. r.occupancy - 1
    BY <1>1
  <2> DEFINE sector == Sector(k)  last == c - 1
  <2>2. sector \in SectorContents /\ sector.state # "EMPTY"
    BY <1>2, <2>1
  <2>3. tail[k] = SectorEntries(sector, last) /\ last \in SlotIndices
    BY <1>1
  <2> HIDE DEF sector, tail
  <2>4. /\ SectorEntries(sector, last) \in Seq(Entries \cup {0})
        /\ Len(SectorEntries(sector, last)) = last + 1
        /\ \A p \in 1 .. last + 1 : SectorEntries(sector, last)[p] = sector.slots[(last + 1) - p]
    <3> HIDE DEF last
    <3> QED BY <2>2, <2>3, SectorEntriesAre
  <2>5. last + 1 = c
    BY <1>1
  <2> QED
    BY <2>3, <2>4, <2>5 DEF sector
<1>5. /\ visits \in [1 .. m + 1 -> Seq(X)] /\ visits[1] = head
      /\ \A k \in 1 .. m : visits[k + 1] = tail[k]
  <2> DEFINE one == <<head>>  Y == Seq(X)
  <2>1. one \in Seq(Y) /\ Len(one) = 1 /\ one[1] = head
    BY <1>3
  <2>2. tail \in Seq(Y) /\ Len(tail) = m
    <3>1. tail \in [1 .. m -> Y]
      BY <1>4
    <3> HIDE DEF tail, m, Y
    <3> QED BY <1>1, <3>1, FunctionIsSeq
  <2>3. /\ visits \in Seq(Y) /\ Len(visits) = 1 + m
        /\ \A p \in 1 .. 1 : visits[p] = one[p]
        /\ \A q \in 1 .. m : visits[1 + q] = tail[q]
    <3> HIDE DEF one, tail, Y, m
    <3>1. /\ one \o tail \in Seq(Y) /\ Len(one \o tail) = Len(one) + Len(tail)
          /\ \A p \in 1 .. Len(one) : (one \o tail)[p] = one[p]
          /\ \A q \in 1 .. Len(tail) : (one \o tail)[Len(one) + q] = tail[q]
      <4>1. one \in Seq(Y) /\ tail \in Seq(Y)
        BY <2>1, <2>2
      <4> QED
        BY <4>1, Joined
    <3> QED
      BY <2>1, <2>2, <3>1 DEF one
  <2> HIDE DEF visits, tail, head, m, Y, one
  <2>4. visits \in [1 .. m + 1 -> Y]
    BY <1>1, <2>3
  <2>5. visits[1] = head /\ \A k \in 1 .. m : visits[k + 1] = tail[k]
    BY <1>1, <2>1, <2>3
  <2> QED
    BY <2>4, <2>5 DEF Y
<1>6. all = FlattenSeq(visits)
  BY DEF Pages
<1>7. /\ all \in Seq(X) /\ Len(all) = a + m * c
      /\ \A p \in 1 .. a : all[p] = head[p]
      /\ \A k \in 1 .. m, q \in 1 .. c : all[a + (k - 1) * c + q] = tail[k][q]
  <2>1. \A k \in 2 .. m + 1 : Len(visits[k]) = c
    <3>1. ASSUME NEW k \in 2 .. m + 1 PROVE Len(visits[k]) = c
      <4>1. k - 1 \in 1 .. m /\ k = (k - 1) + 1
        BY <1>1
      <4>2. visits[(k - 1) + 1] = tail[k - 1]
        BY <1>5, <4>1
      <4>3. Len(tail[k - 1]) = c
        BY <1>4, <4>1
      <4> QED
        BY <4>1, <4>2, <4>3
    <3> QED
      BY <3>1
  <2> HIDE DEF visits, head, tail, all, m, c, a, X
  <2>2. LaidOut(FlattenSeq(visits), X, m, c, visits)
    BY <1>1, <1>5, <2>1, FlattenPages
  <2>3. Len(visits[1]) = a /\ visits[1] = head
    BY <1>3, <1>5
  <2>4. \A k \in 1 .. m : visits[k + 1] = tail[k]
    BY <1>5
  <2> QED
    BY <1>6, <2>2, <2>3, <2>4 DEF LaidOut
<1> HIDE DEF all
<1>8. ASSUME NEW x \in 1 .. Len(all) PROVE all[x] = SlotBack(card, r, base + (x - 1))
  <2>1. CASE x <= a
    <3> DEFINE q == c - 1 - pos + (x - 1)
    <3>1. x \in 1 .. a /\ q \in 0 .. c - 1 /\ base + (x - 1) = skip * c + q
          /\ c - 1 - q = a - x
      BY <1>1, <2>1, TimesGrows DEF SlotIndices
    <3>2. (skip * c + q) \div c = skip /\ (skip * c + q) % c = q
      <4>1. q \in 0 .. c - 1
        BY <3>1
      <4> HIDE DEF q, c
      <4> QED BY <1>1, <4>1, DivisionIs
    <3>3. all[x] = card[StepsBack(r, skip)].slots[a - x]
      <4> HIDE DEF all, head, a
      <4> QED BY <1>3, <1>7, <3>1
    <3> QED
      BY <3>1, <3>2, <3>3 DEF SlotBack
  <2>2. CASE x > a
    <3> DEFINE y == x - a - 1  d == y \div c  q == y % c
    <3>1. m * c \in Nat /\ y \in Nat /\ y <= m * c - 1 /\ x = a + y + 1
      <4>1. m * c \in Nat
        <5> HIDE DEF m, c
        <5> QED BY <1>1, TimesGrows
      <4> HIDE DEF m, a, c
      <4> QED BY <1>1, <1>7, <2>2, <4>1
    <3>2. d \in Nat /\ q \in 0 .. c - 1 /\ y = d * c + q
      <4> HIDE DEF y, c
      <4> QED BY <1>1, <3>1, DivisionOf
    <3> HIDE DEF d, q, y
    <3>3. d < m
      <4> SUFFICES ASSUME d >= m PROVE FALSE
        BY <1>1, <3>2
      <4>1. m * c <= d * c /\ d * c \in Nat
        <5> HIDE DEF m, c
        <5> QED BY <1>1, <3>2, TimesGrows
      <4>2. y <= m * c - 1 /\ y \in Nat /\ m * c \in Nat /\ q \in Nat /\ y = d * c + q
        BY <3>1, <3>2
      <4> DEFINE mc == m * c  dc == d * c
      <4> HIDE DEF mc, dc
      <4> QED
        BY <4>1, <4>2 DEF mc, dc
    <3> DEFINE k == d + 1
    <3>4. k \in 1 .. m /\ q + 1 \in 1 .. c /\ k - 1 = d
      BY <1>1, <3>2, <3>3
    <3>5. x = a + (k - 1) * c + (q + 1)
      <4>1. d * c \in Nat
        <5> HIDE DEF c
        <5> QED BY <1>1, <3>2, TimesGrows
      <4>2. (k - 1) * c = d * c
        BY <3>4
      <4> HIDE DEF a, c, k
      <4> QED BY <1>1, <3>1, <3>2, <3>4, <4>1, <4>2
    <3>6. all[x] = Sector(k).slots[c - (q + 1)]
      <4>1. all[a + (k - 1) * c + (q + 1)] = tail[k][q + 1]
        <5> HIDE DEF all, tail, a, m, c, k
        <5> QED BY <1>7, <3>4
      <4>2. tail[k][q + 1] = Sector(k).slots[c - (q + 1)]
        <5> HIDE DEF tail, m, c, k
        <5> QED BY <1>4, <3>4
      <4> HIDE DEF all, tail, a, m, c, k
      <4> QED
        BY <3>5, <4>1, <4>2
    <3>7. base + (x - 1) = (skip + k) * c + q
      <4>1. (skip + k) * c = skip * c + d * c + c /\ skip * c \in Nat /\ d * c \in Nat
        <5>1. skip * c \in Nat /\ d * c \in Nat
          <6> HIDE DEF c
          <6> QED BY <1>1, <3>2, TimesGrows
        <5>2. (skip + (d + 1)) * c = skip * c + d * c + c
          <6> HIDE DEF c
          <6> QED BY <1>1, <3>2
        <5> QED
          BY <5>1, <5>2
      <4>2. base = skip * c + (c - 1 - pos) /\ a = pos + 1 /\ pos \in Nat
        BY RingNumbers DEF SlotIndices
      <4> HIDE DEF base, a, c, k
      <4> QED BY <1>1, <3>1, <3>2, <4>1, <4>2
    <3>8. ((skip + k) * c + q) \div c = skip + k /\ ((skip + k) * c + q) % c = q
      <4> DEFINE s == skip + k
      <4>1. s \in Nat
        BY <1>1, <3>2
      <4> HIDE DEF s, c
      <4>2. (s * c + q) \div c = s /\ (s * c + q) % c = q
        BY <1>1, <3>2, <4>1, DivisionIs
      <4> QED
        BY <4>2 DEF s
    <3>9. c - (q + 1) = c - 1 - q
      BY <1>1, <3>2
    <3> HIDE DEF base, all, k
    <3> QED
      BY <3>6, <3>7, <3>8, <3>9 DEF SlotBack
  <2>3. Len(all) \in Nat
    BY <1>7
  <2> QED
    BY <1>1, <2>1, <2>2, <2>3
<1> QED
  BY <1>1, <1>7, <1>8 DEF all

(* How many entries are listed in all.                                     *)
Listed(card, r) == card[r.current].head + 1 + (r.occupancy - 1) * Capacity

LEMMA ListedIs ==
    ASSUME NEW card, NEW r, Listable(card, r)
    PROVE  /\ card[r.current].head \in SlotIndices /\ r.occupancy \in 1 .. Size
           /\ (r.occupancy - 1) * Capacity \in Nat /\ Size * Capacity \in Nat
           /\ Listed(card, r) \in 1 .. Size * Capacity
           /\ r.occupancy = Size => Listed(card, r) > (Size - 1) * Capacity
           /\ Unused(card, r) \in Nat
<1>1. card[r.current].head \in SlotIndices /\ r.occupancy \in 1 .. Size
      /\ r.occupancy - 1 \in Nat
  BY RingNumbers DEF Listable, Rings, SectorContents, SlotIndices, Used
<1>2. /\ (r.occupancy - 1) * Capacity \in Nat /\ (Size - 1) * Capacity \in Nat
      /\ (r.occupancy - 1) * Capacity <= (Size - 1) * Capacity
  <2> DEFINE i == r.occupancy - 1  j == Size - 1
  <2>1. i \in Nat /\ j \in Nat /\ i <= j
    BY <1>1, RingNumbers
  <2> HIDE DEF i, j
  <2>2. i * Capacity \in Nat /\ j * Capacity \in Nat /\ i * Capacity <= j * Capacity
    BY <2>1, RingNumbers, TimesGrows
  <2> QED
    BY <2>2 DEF i, j
<1>3. Size * Capacity = (Size - 1) * Capacity + Capacity
  BY RingNumbers
<1> DEFINE all == Size * Capacity  rest == (r.occupancy - 1) * Capacity  most == (Size - 1) * Capacity
<1>4. Listed(card, r) = card[r.current].head + 1 + rest
  BY DEF Listed
<1>5. r.occupancy = Size => rest = most
  OBVIOUS
<1> HIDE DEF all, rest, most
<1>6. /\ rest \in Nat /\ most \in Nat /\ rest <= most /\ all = most + Capacity
      /\ card[r.current].head \in 0 .. Capacity - 1
  BY <1>1, <1>2, <1>3 DEF all, rest, most, SlotIndices
<1>7. /\ Listed(card, r) \in 1 .. all /\ all \in Nat
      /\ r.occupancy = Size => Listed(card, r) > most
      /\ Unused(card, r) \in Nat
  BY <1>4, <1>5, <1>6, RingNumbers DEF Unused
<1> QED
  BY <1>1, <1>2, <1>7 DEF all, most

(* Where a range starts: with entry number start.                          *)
LEMMA RangeStart ==
    ASSUME NEW card, NEW r, Listable(card, r), NEW start \in Nat
    PROVE  LET count == card[r.current].head + 1
               skip == SectorsToStart(start, count)
               pos  == StartSlot(start, count)
           IN  /\ pos \in SlotIndices /\ skip \in Nat
               /\ skip < r.occupancy <=> start < Listed(card, r)
               /\ skip * Capacity + (Capacity - 1 - pos) = Unused(card, r) + start
               /\ skip < r.occupancy =>
                     pos + 1 + (r.occupancy - skip - 1) * Capacity = Listed(card, r) - start
<1> DEFINE head == card[r.current].head
           count == head + 1
           skip == SectorsToStart(start, count)
           pos  == StartSlot(start, count)
           rest == (r.occupancy - 1) * Capacity
           occ == r.occupancy
<1>1. /\ head \in 0 .. Capacity - 1 /\ occ \in 1 .. Size /\ rest \in Nat
      /\ Listed(card, r) = count + rest /\ Unused(card, r) = Capacity - 1 - head
      /\ Capacity \in Nat /\ Capacity > 0
  BY ListedIs, RingNumbers DEF SlotIndices, Listed, Unused
<1> HIDE DEF head
<1>2. CASE start < count
  <2>1. skip = 0 /\ pos = count - 1 - start
    BY <1>2 DEF SectorsToStart, StartSlot
  <2>2. pos \in SlotIndices /\ skip \in Nat /\ skip < occ
    BY <1>1, <1>2, <2>1 DEF SlotIndices
  <2>3. start < Listed(card, r)
    <3> HIDE DEF rest
    <3> QED BY <1>1, <1>2
  <2>4. skip * Capacity = 0 /\ (occ - skip - 1) * Capacity = rest
    <3>1. occ - skip - 1 = occ - 1 /\ 0 * Capacity = 0
      BY <1>1, <2>1
    <3> HIDE DEF skip
    <3> QED BY <2>1, <3>1
  <2> HIDE DEF skip, pos, rest, occ
  <2>5. /\ skip * Capacity + (Capacity - 1 - pos) = Unused(card, r) + start
        /\ pos + 1 + (occ - skip - 1) * Capacity = Listed(card, r) - start
    BY <1>1, <2>1, <2>4
  <2> QED
    BY <2>2, <2>3, <2>5 DEF skip, pos, occ, head
<1>3. CASE ~ (start < count)
  <2> DEFINE y == start - count  d == y \div Capacity  q == y % Capacity
  <2>1. y \in Nat /\ start = count + y
    BY <1>1, <1>3
  <2>2. d \in Nat /\ q \in 0 .. Capacity - 1 /\ y = d * Capacity + q
    <3> HIDE DEF y
    <3> QED BY <1>1, <2>1, DivisionOf
  <2>3. skip = 1 + d /\ pos = Capacity - 1 - q
    BY <1>3 DEF SectorsToStart, StartSlot
  <2> HIDE DEF skip, pos, d, q, y
  <2>4. pos \in SlotIndices /\ skip \in Nat
    BY <1>1, <2>2, <2>3 DEF SlotIndices
  <2>5. skip * Capacity = d * Capacity + Capacity /\ d * Capacity \in Nat
    <3>1. (1 + d) * Capacity = d * Capacity + Capacity
      BY <1>1, <2>2
    <3> QED
      BY <1>1, <2>2, <2>3, <3>1, TimesGrows
  <2>6. ASSUME skip < occ
        PROVE  /\ start < Listed(card, r)
               /\ pos + 1 + (occ - skip - 1) * Capacity = Listed(card, r) - start
    <3> DEFINE e == occ - skip - 1
    <3>1. e \in Nat /\ occ - 1 = e + d + 1
      BY <1>1, <2>2, <2>3, <2>6
    <3> HIDE DEF e, occ
    <3>2. (e + d + 1) * Capacity = e * Capacity + d * Capacity + Capacity
          /\ e * Capacity \in Nat
      BY <1>1, <2>2, <3>1, TimesGrows
    <3>3. rest = e * Capacity + d * Capacity + Capacity
      BY <3>1, <3>2 DEF occ
    <3>4. pos + 1 + e * Capacity = Listed(card, r) - start /\ start < Listed(card, r)
      <4> DEFINE ec == e * Capacity  dc == d * Capacity
      <4>1. ec \in Nat /\ dc \in Nat /\ rest = ec + dc + Capacity /\ y = dc + q
        BY <2>2, <2>5, <3>2, <3>3
      <4> HIDE DEF ec, dc, rest
      <4>2. pos + 1 + ec = Listed(card, r) - start /\ start < Listed(card, r)
        BY <1>1, <2>1, <2>2, <2>3, <4>1
      <4> QED
        BY <4>2 DEF ec
    <3> QED
      BY <3>4 DEF e
  <2>7. ASSUME ~ (skip < occ) PROVE ~ (start < Listed(card, r))
    <3> DEFINE o == occ - 1
    <3>1. o \in Nat /\ o <= d
      BY <1>1, <2>2, <2>3, <2>7
    <3> HIDE DEF o
    <3>2. o * Capacity <= d * Capacity
      BY <1>1, <2>2, <3>1, TimesGrows
    <3>3. rest = o * Capacity
      BY DEF o
    <3> DEFINE dc == d * Capacity
    <3>4. rest <= dc /\ dc \in Nat /\ y = dc + q
      BY <2>2, <2>5, <3>2, <3>3
    <3> HIDE DEF dc, rest
    <3> QED
      BY <1>1, <2>1, <2>2, <3>4
  <2>8. skip * Capacity + (Capacity - 1 - pos) = Unused(card, r) + start
    <3> DEFINE dc == d * Capacity
    <3>1. skip * Capacity = dc + Capacity /\ dc \in Nat /\ y = dc + q
      BY <2>2, <2>5
    <3> HIDE DEF dc
    <3>2. dc + Capacity + (Capacity - 1 - pos) = Unused(card, r) + start
      BY <1>1, <2>1, <2>2, <2>3, <3>1
    <3> QED
      BY <3>1, <3>2
  <2> QED
    BY <2>4, <2>6, <2>7, <2>8 DEF skip, pos, head
<1> QED
  BY <1>2, <1>3

IsPage(page, card, r, start, n) ==
    IF start < Listed(card, r)
    THEN /\ page.ok /\ page.list \in Seq(Entries \cup {0})
         /\ Len(page.list) = IF n < Listed(card, r) - start THEN n ELSE Listed(card, r) - start
         /\ \A x \in 1 .. Len(page.list) :
               page.list[x] = SlotBack(card, r, Unused(card, r) + start + (x - 1))
    ELSE ~ page.ok /\ page.list = << >>

(* A page is its slice of the ring's slots, counted back from the newest.  *)
LEMMA GetRangeIs ==
    ASSUME NEW card, NEW r, Listable(card, r), NEW start \in Nat, NEW n \in Nat
    PROVE  IsPage(GetRange(card, r, start, n), card, r, start, n)
<1> DEFINE count == card[r.current].head + 1
           skip == SectorsToStart(start, count)
           pos  == StartSlot(start, count)
           all == Pages(card, r, skip, pos)
           len == IF n < Len(all) THEN n ELSE Len(all)
           page == GetRange(card, r, start, n)
<1>1. /\ pos \in SlotIndices /\ skip \in Nat
      /\ skip < r.occupancy <=> start < Listed(card, r)
      /\ skip * Capacity + (Capacity - 1 - pos) = Unused(card, r) + start
      /\ skip < r.occupancy =>
            pos + 1 + (r.occupancy - skip - 1) * Capacity = Listed(card, r) - start
  BY RangeStart
<1>2. /\ card[r.current].state # "EMPTY"
      /\ r.occupancy \in 1 .. Size /\ Listed(card, r) \in Nat /\ Unused(card, r) \in Nat
  BY ListedIs DEF Listable
<1>3. page = IF skip >= r.occupancy THEN [ok |-> FALSE, list |-> <<>>]
             ELSE [ok |-> TRUE, list |-> SubSeq(all, 1, len)]
  BY <1>2, RingNumbers DEF GetRange, Pages
<1> HIDE DEF skip, pos, page, count
<1>4. CASE start < Listed(card, r)
  <2>1. skip \in 0 .. r.occupancy - 1 /\ page = [ok |-> TRUE, list |-> SubSeq(all, 1, len)]
    BY <1>1, <1>2, <1>3, <1>4
  <2>2. /\ all \in Seq(Entries \cup {0})
        /\ Len(all) = pos + 1 + (r.occupancy - skip - 1) * Capacity
        /\ \A x \in 1 .. Len(all) :
              all[x] = SlotBack(card, r, skip * Capacity + (Capacity - 1 - pos) + (x - 1))
    BY <1>1, <2>1, PagesAre
  <2> HIDE DEF all
  <2>3. /\ Len(all) = Listed(card, r) - start /\ Len(all) \in Nat
        /\ \A x \in 1 .. Len(all) : all[x] = SlotBack(card, r, Unused(card, r) + start + (x - 1))
    BY <1>1, <1>2, <1>4, <2>1, <2>2
  <2>4. len \in 0 .. Len(all) /\ len \in Nat
    BY <2>3
  <2>5. /\ SubSeq(all, 1, len) \in Seq(Entries \cup {0}) /\ Len(SubSeq(all, 1, len)) = len
        /\ \A x \in 1 .. len : SubSeq(all, 1, len)[x] = all[x]
    <3> HIDE DEF len
    <3> QED BY <2>2, <2>3, <2>4, SubSeqProperties
  <2>6. \A x \in 1 .. len : x \in 1 .. Len(all)
    BY <2>3, <2>4
  <2>7. page.ok /\ page.list = SubSeq(all, 1, len)
    BY <2>1
  <2>8. len = IF n < Listed(card, r) - start THEN n ELSE Listed(card, r) - start
    BY <2>3
  <2> HIDE DEF len
  <2>9. IsPage(page, card, r, start, n)
    BY <1>4, <2>3, <2>5, <2>6, <2>7, <2>8 DEF IsPage
  <2> QED
    BY <2>9 DEF page
<1>5. CASE ~ (start < Listed(card, r))
  <2>1. page = [ok |-> FALSE, list |-> <<>>]
    BY <1>1, <1>2, <1>3, <1>5
  <2>2. IsPage(page, card, r, start, n)
    BY <1>5, <2>1 DEF IsPage
  <2> QED
    BY <2>2 DEF page
<1> QED
  BY <1>4, <1>5

LEMMA ListingIs ==
    ASSUME NEW card, NEW r, Listable(card, r)
    PROVE  LET whole == Listing(card, r)
           IN  /\ whole \in Seq(Entries \cup {0}) /\ Len(whole) = Listed(card, r)
               /\ \A x \in 1 .. Listed(card, r) :
                     whole[x] = SlotBack(card, r, Unused(card, r) + (x - 1))
<1> DEFINE page == GetRange(card, r, 0, Size * Capacity)  most == Size * Capacity
<1>1. /\ Listed(card, r) \in 1 .. most /\ most \in Nat /\ Unused(card, r) \in Nat
  BY ListedIs
<1>2. IsPage(page, card, r, 0, most)
  <2>1. 0 \in Nat
    OBVIOUS
  <2> QED
    BY <1>1, <2>1, GetRangeIs
<1> HIDE DEF page, most
<1>3. /\ page.list \in Seq(Entries \cup {0})
      /\ Len(page.list) = Listed(card, r)
      /\ \A x \in 1 .. Listed(card, r) :
               page.list[x] = SlotBack(card, r, Unused(card, r) + 0 + (x - 1))
  <2>1. 0 < Listed(card, r)
        /\ (IF most < Listed(card, r) - 0 THEN most ELSE Listed(card, r) - 0) = Listed(card, r)
    BY <1>1
  <2> QED
    BY <1>2, <2>1 DEF IsPage
<1>4. Unused(card, r) + 0 = Unused(card, r)
  BY <1>1
<1>5. Listing(card, r) = page.list
  BY DEF Listing, page
<1> QED
  BY <1>3, <1>4, <1>5

-----------------------------------------------------------------------------
(* Which entries are listed, and in which order.                           *)

LEMMA StepsOlder ==
    ASSUME NEW r \in Rings, r.current \in Used(r),
           NEW k1 \in 0 .. r.occupancy - 1, NEW k2 \in 0 .. r.occupancy - 1, k1 < k2
    PROVE  Older(StepsBack(r, k2), StepsBack(r, k1), r.current)
<1>1. /\ StepsBack(r, k1) = IF k1 <= r.current THEN r.current - k1 ELSE r.current + r.occupancy - k1
      /\ StepsBack(r, k2) = IF k2 <= r.current THEN r.current - k2 ELSE r.current + r.occupancy - k2
  BY StepsBackIs
<1>2. r.occupancy \in Nat /\ r.current \in 0 .. r.occupancy - 1
  BY RingNumbers DEF Rings, Used
<1> QED
  BY <1>1, <1>2 DEF Older

(* The sector and the slot that a place in the list stands for.            *)
LEMMA ListedSlot ==
    ASSUME NEW card, NEW r, Listable(card, r), NEW x \in 1 .. Listed(card, r)
    PROVE  LET v == Unused(card, r) + (x - 1)
               k == v \div Capacity
           IN  /\ v \in Nat /\ k \in 0 .. r.occupancy - 1
               /\ Capacity - 1 - (v % Capacity) \in 0 .. card[StepsBack(r, k)].head
               /\ StepsBack(r, k) \in Used(r) /\ StepsBack(r, k) \in Indices
<1> DEFINE v == Unused(card, r) + (x - 1)
           k == v \div Capacity
           q == v % Capacity
           i == StepsBack(r, k)
           rest == (r.occupancy - 1) * Capacity
<1>1. /\ card[r.current].head \in 0 .. Capacity - 1 /\ r.occupancy \in 1 .. Size
      /\ rest \in Nat /\ Listed(card, r) = card[r.current].head + 1 + rest
      /\ Unused(card, r) = Capacity - 1 - card[r.current].head
      /\ Capacity \in Nat /\ Capacity > 0
  BY ListedIs, RingNumbers DEF Listed, Unused, SlotIndices
<1>2. v \in Nat /\ v <= Capacity - 1 + rest /\ v >= Unused(card, r)
  <2> HIDE DEF rest
  <2> QED BY <1>1
<1>3. k \in Nat /\ q \in 0 .. Capacity - 1 /\ v = k * Capacity + q
  <2> HIDE DEF v
  <2> QED BY <1>1, <1>2, DivisionOf
<1> HIDE DEF v, k, q
<1>4. k <= r.occupancy - 1
  <2> SUFFICES ASSUME k >= r.occupancy PROVE FALSE
    BY <1>1, <1>3
  <2> DEFINE occ == r.occupancy
  <2>1. occ \in Nat /\ occ <= k /\ occ * Capacity = rest + Capacity
    BY <1>1
  <2> HIDE DEF occ, rest
  <2>2. occ * Capacity <= k * Capacity /\ k * Capacity \in Nat
    BY <1>1, <1>3, <2>1, TimesGrows
  <2> DEFINE kc == k * Capacity
  <2>3. rest + Capacity <= kc /\ kc \in Nat /\ v = kc + q
    BY <1>3, <2>1, <2>2
  <2> HIDE DEF kc
  <2> QED
    BY <1>1, <1>2, <1>3, <2>3
<1>5. k \in 0 .. r.occupancy - 1
  BY <1>1, <1>3, <1>4
<1>6. i \in Used(r) /\ i \in Indices /\ (i = r.current <=> k = 0)
  BY <1>5, StepsBackIs DEF Listable
<1> HIDE DEF i
<1>7. Capacity - 1 - q \in 0 .. card[i].head
  <2>1. CASE k = 0
    <3>1. v = q /\ i = r.current
      BY <1>1, <1>3, <1>6, <2>1
    <3> QED
      BY <1>1, <1>2, <1>3, <3>1
  <2>2. CASE k # 0
    <3>1. i # r.current /\ card[i].head = Capacity - 1
      BY <1>6, <2>2 DEF Listable, Pageable
    <3> QED
      BY <1>1, <1>3, <3>1
  <2> QED
    BY <2>1, <2>2
<1> QED
  BY <1>2, <1>5, <1>6, <1>7 DEF v, k, q, i

LEMMA RingListable ==
    ASSUME NEW card, NEW r, Ring(card, r), r.occupancy # 0
    PROVE  Listable(card, r)
  BY NewestIs, RingPageable DEF Ring, Listable

(* The newest entry first, each followed by the one before.                *)
LEMMA RingNewestFirst ==
    ASSUME NEW card, NEW r, Ring(card, r), r.occupancy # 0,
           NEW x \in 1 .. Listed(card, r) - 1
    PROVE  Listing(card, r)[x] > Listing(card, r)[x + 1]
<1> DEFINE y == x + 1
           v == Unused(card, r) + (x - 1)
           w == Unused(card, r) + (y - 1)
           i == StepsBack(r, v \div Capacity)
           j == StepsBack(r, w \div Capacity)
           s == Capacity - 1 - (v % Capacity)
           t == Capacity - 1 - (w % Capacity)
<1>1. Listable(card, r) /\ r \in Rings /\ r.current \in Used(r) /\ InOrder(card, r)
      /\ card \in [Indices -> SectorContents]
  BY RingListable DEF Listable, Ring, RingAt
<1>2. /\ Listed(card, r) \in Nat /\ Unused(card, r) \in Nat
  BY <1>1, ListedIs
<1>3. x \in 1 .. Listed(card, r) /\ y \in 1 .. Listed(card, r)
  BY <1>2
<1>4. /\ v \in Nat /\ v \div Capacity \in 0 .. r.occupancy - 1
      /\ s \in 0 .. card[i].head /\ i \in Used(r) /\ i \in Indices
  BY <1>1, <1>3, ListedSlot
<1>5. /\ w \in Nat /\ w \div Capacity \in 0 .. r.occupancy - 1
      /\ t \in 0 .. card[j].head /\ j \in Used(r) /\ j \in Indices
  <2> HIDE DEF y
  <2> QED BY <1>1, <1>3, ListedSlot
<1>6. v < w
  BY <1>2, <1>3
<1>7. Listing(card, r)[x] = card[i].slots[s] /\ Listing(card, r)[y] = card[j].slots[t]
  <2>1. \A z \in 1 .. Listed(card, r) :
           Listing(card, r)[z] = SlotBack(card, r, Unused(card, r) + (z - 1))
    BY <1>1, ListingIs
  <2> HIDE DEF y
  <2> QED
    BY <1>3, <2>1 DEF SlotBack
<1> HIDE DEF v, w, y
<1>8. v \div Capacity < w \div Capacity
      \/ (v \div Capacity = w \div Capacity /\ v % Capacity < w % Capacity)
  BY <1>4, <1>5, <1>6, RingNumbers, DivisionOrder
<1>9. card[j].slots[t] < card[i].slots[s]
  <2>1. CASE v \div Capacity < w \div Capacity
    <3>1. Older(j, i, r.current)
      BY <1>1, <1>4, <1>5, <2>1, StepsOlder
    <3> HIDE DEF i, j, s, t
    <3> QED
      BY <1>1, <1>4, <1>5, <3>1 DEF InOrder
  <2>2. CASE v \div Capacity = w \div Capacity /\ v % Capacity < w % Capacity
    <3>1. i = j /\ t < s
      <4>1. v % Capacity \in Int /\ w % Capacity \in Int /\ Capacity \in Int
        BY <1>4, <1>5, RingNumbers
      <4> QED
        BY <2>2, <4>1
    <3> HIDE DEF i, j, s, t
    <3> QED
      BY <1>1, <1>4, <1>5, <3>1 DEF InOrder
  <2> QED
    BY <1>8, <2>1, <2>2
<1>10. card[j].slots[t] \in Nat /\ card[i].slots[s] \in Nat
  <2> HIDE DEF i, j, s, t
  <2>1. s \in SlotIndices /\ t \in SlotIndices
    <3>1. card[i].head \in 0 .. Capacity - 1 /\ card[j].head \in 0 .. Capacity - 1
      BY <1>1, <1>4, <1>5 DEF SectorContents
    <3> QED
      BY <1>4, <1>5, <3>1, RingNumbers DEF SlotIndices
  <2> QED
    BY <1>1, <1>4, <1>5, <2>1, SlotsAreNumbers
<1> HIDE DEF i, j, s, t
<1>11. Listing(card, r)[x] > Listing(card, r)[y]
  BY <1>7, <1>9, <1>10
<1> QED
  BY <1>11 DEF y

(* Every entry of the ring is listed.                                      *)
LEMMA RingListed ==
    ASSUME NEW card, NEW r, Listable(card, r), NEW e, InRing(card, r, e)
    PROVE  Contains(Listing(card, r), e)
<1>1. PICK i \in Used(r) : \E j \in 0 .. card[i].head : card[i].slots[j] = e
  BY DEF InRing
<1>2. PICK j \in 0 .. card[i].head : card[i].slots[j] = e
  BY <1>1
<1>3. PICK k \in 0 .. r.occupancy - 1 : StepsBack(r, k) = i
  BY EveryStepBack DEF Listable
<1> DEFINE rest == (r.occupancy - 1) * Capacity
           q == Capacity - 1 - j
           v == k * Capacity + q
           x == v - Unused(card, r) + 1
<1>4. /\ card[r.current].head \in 0 .. Capacity - 1 /\ r.occupancy \in 1 .. Size
      /\ rest \in Nat /\ Listed(card, r) = card[r.current].head + 1 + rest
      /\ Unused(card, r) = Capacity - 1 - card[r.current].head
      /\ Capacity \in Nat /\ Capacity > 0
  BY ListedIs, RingNumbers DEF Listed, Unused, SlotIndices
<1>5. i = r.current <=> k = 0
  BY <1>3, StepsBackIs DEF Listable
<1>6. j \in 0 .. Capacity - 1 /\ (k = 0 => j <= card[r.current].head)
  <2>1. i # r.current => card[i].head = Capacity - 1
    BY DEF Listable, Pageable
  <2> QED
    BY <1>2, <1>4, <1>5, <2>1
<1>7. q \in 0 .. Capacity - 1 /\ Capacity - 1 - q = j
  BY <1>4, <1>6
<1>8. v \div Capacity = k /\ v % Capacity = q
  <2>1. k \in Nat /\ q \in 0 .. Capacity - 1 /\ Capacity \in Nat
    BY <1>4, <1>7
  <2> HIDE DEF q
  <2> QED BY <2>1, DivisionIs
<1>9. k * Capacity \in Nat /\ k * Capacity <= rest /\ (k # 0 => k * Capacity >= Capacity)
  <2> DEFINE o == r.occupancy - 1
  <2>1. o \in Nat /\ k \in Nat /\ k <= o /\ rest = o * Capacity
    BY <1>4
  <2> HIDE DEF o, rest
  <2>2. k * Capacity \in Nat /\ k * Capacity <= o * Capacity
    BY <1>4, <2>1, TimesGrows
  <2>3. k # 0 => 1 * Capacity <= k * Capacity
    BY <1>4, <2>1, TimesGrows
  <2> QED
    BY <1>4, <2>1, <2>2, <2>3
<1>10. x \in 1 .. Listed(card, r) /\ Unused(card, r) + (x - 1) = v
  <2> DEFINE kc == k * Capacity
  <2>1. kc \in Nat /\ kc <= rest /\ (k # 0 => kc >= Capacity) /\ (k = 0 => kc = 0)
        /\ x = kc + q - Unused(card, r) + 1 /\ v = kc + q
    BY <1>4, <1>9
  <2>2. k = 0 => q >= Unused(card, r)
    BY <1>4, <1>6
  <2> HIDE DEF kc, rest, q, v, x
  <2> QED
    BY <1>4, <1>7, <2>1, <2>2
<1> HIDE DEF v, x, q
<1>11. Listing(card, r)[x] = SlotBack(card, r, v) /\ Len(Listing(card, r)) = Listed(card, r)
  <2>1. \A z \in 1 .. Listed(card, r) :
           Listing(card, r)[z] = SlotBack(card, r, Unused(card, r) + (z - 1))
    BY ListingIs
  <2> QED
    BY <1>10, <2>1, ListingIs
<1>12. SlotBack(card, r, v) = e
  BY <1>2, <1>3, <1>7, <1>8 DEF SlotBack
<1> QED
  BY <1>10, <1>11, <1>12 DEF Contains

LEMMA EmptyListing ==
    ASSUME NEW card, NEW r, card[r.current].state = "EMPTY"
    PROVE  /\ Listing(card, r) = << >>
           /\ \A start, n : GetRange(card, r, start, n) = [ok |-> TRUE, list |-> << >>]
  BY DEF Listing, GetRange

(* The list that a reboot gives is in order of time, newest first,         *)
(* whatever was cut before it and whatever write had failed.               *)
THEOREM DurableInOrder == Spec => []DurableNewestFirst
<1>1. RingInv => DurableNewestFirst
  <2> SUFFICES ASSUME RingInv PROVE DurableNewestFirst
    OBVIOUS
  <2> DEFINE card == Recovered  r == Cursor
  <2>1. Ring(card, r) /\ Durable = Listing(card, r)
    BY DEF RingInv, Durable, Cursor
  <2>2. r.occupancy = 0 => card[r.current].state = "EMPTY"
    <3>1. r.occupancy = 0 => r.current \in Indices \ Used(r)
      BY CursorIs, RingNumbers DEF Used
    <3> QED
      BY <2>1, <3>1 DEF Ring
  <2> HIDE DEF card, r
  <2>3. CASE r.occupancy = 0
    <3>1. Durable = << >>
      BY <2>1, <2>2, <2>3, EmptyListing
    <3> QED
      BY <3>1 DEF DurableNewestFirst
  <2>4. CASE r.occupancy # 0
    <3>1. Len(Durable) = Listed(card, r)
      BY <2>1, <2>4, RingListable, ListingIs
    <3>2. ASSUME NEW x \in 1 .. Listed(card, r) - 1
          PROVE  Listing(card, r)[x] > Listing(card, r)[x + 1]
      BY <2>1, <2>4, RingNewestFirst
    <3> QED
      BY <2>1, <3>1, <3>2 DEF DurableNewestFirst
  <2> QED
    BY <2>3, <2>4
<1> QED
  BY RingInvariant, <1>1, PTL

(* Once an add that was not split has returned STRG_OK its entry is listed *)
(* after any reboot, until newer entries have filled every other sector.   *)
THEOREM AcknowledgedStay == Spec => []WholeAddsKept
<1>1. RingInv => WholeAddsKept
  <2> SUFFICES ASSUME RingInv, ~ split, NEW e \in acked, ~ Contains(Durable, e)
               PROVE  /\ Len(Durable) > (Size - 1) * Capacity
                      /\ \A x \in DOMAIN Durable : Durable[x] > e
    BY DEF WholeAddsKept, AcknowledgedKept
  <2> DEFINE card == Recovered  r == Cursor
  <2>1. /\ Ring(card, r) /\ Durable = Listing(card, r) /\ r.occupancy # 0
        /\ InRing(card, r, e) \/ (r.occupancy = Size /\ AllLater(card, r, e))
    BY DEF RingInv, AckedInv, Durable, Cursor
  <2> HIDE DEF card, r
  <2>2. Listable(card, r)
    BY <2>1, RingListable
  <2>3. ~ InRing(card, r, e)
    BY <2>1, <2>2, RingListed
  <2>4. r.occupancy = Size /\ AllLater(card, r, e)
    BY <2>1, <2>3
  <2>5. /\ Durable \in Seq(Entries \cup {0}) /\ Len(Durable) = Listed(card, r)
        /\ \A x \in 1 .. Listed(card, r) : Durable[x] = SlotBack(card, r, Unused(card, r) + (x - 1))
    BY <2>1, <2>2, ListingIs
  <2>6. ASSUME NEW x \in 1 .. Listed(card, r) PROVE Durable[x] > e
    <3> DEFINE v == Unused(card, r) + (x - 1)
               i == StepsBack(r, v \div Capacity)
               s == Capacity - 1 - (v % Capacity)
    <3>1. s \in 0 .. card[i].head /\ i \in Used(r)
      BY <2>2, ListedSlot
    <3>2. Durable[x] = card[i].slots[s]
      BY <2>5 DEF SlotBack
    <3> HIDE DEF i, s
    <3> QED
      BY <2>4, <3>1, <3>2 DEF AllLater
  <2>7. Len(Durable) > (Size - 1) * Capacity
    BY <2>2, <2>4, <2>5, ListedIs
  <2>8. DOMAIN Durable = 1 .. Listed(card, r)
    BY <2>5, LenProperties
  <2> QED
    BY <2>6, <2>7, <2>8
<1> QED
  BY RingInvariant, <1>1, PTL

(* While the database runs its list starts with the newest entry that an   *)
(* add which was not split has acknowledged, or a later one; also after an *)
(* add that failed.                                                        *)
THEOREM LatestFirst == Spec => []WholeAddsListedFirst
<1>1. RingInv => WholeAddsListedFirst
  <2> SUFFICES ASSUME RingInv, ~ split, pc = "idle", acked # {}
               PROVE  LET whole == Listing(sectors, rb)
                      IN  whole # << >> /\ \A e \in acked : whole[1] >= e
    BY DEF WholeAddsListedFirst, LatestListedFirst
  <2>1. Listable(sectors, rb) /\ \A e \in acked : e <= Newest(sectors, rb)
    <3>1. CASE failing
      <4>1. sectors[rb.current].state # "EMPTY" /\ \A e \in acked : e <= Newest(sectors, rb)
        BY <3>1 DEF RingInv, FailedInv
      <4> QED
        BY <3>1, <4>1 DEF RingInv, FailedInv, TypeOK, Listable
    <3>2. CASE ~ failing
      <4> DEFINE card == Recovered  r == Cursor
      <4>1. sectors = card /\ rb = r
        BY <3>2 DEF RingInv, AddInv, Recovered
      <4>2. Ring(card, r) /\ \A e \in acked : r.occupancy # 0 /\ e <= Newest(card, r)
        BY DEF RingInv, AckedInv
      <4> HIDE DEF card, r
      <4> QED
        BY <4>1, <4>2, RingListable
    <3> QED
      BY <3>1, <3>2
  <2>2. Listed(sectors, rb) \in Nat /\ Listed(sectors, rb) >= 1 /\ Unused(sectors, rb) \in Nat
    BY <2>1, ListedIs
  <2>3. /\ Listing(sectors, rb) \in Seq(Entries \cup {0})
        /\ Len(Listing(sectors, rb)) = Listed(sectors, rb)
        /\ \A x \in 1 .. Listed(sectors, rb) :
              Listing(sectors, rb)[x] = SlotBack(sectors, rb, Unused(sectors, rb) + (x - 1))
    BY <2>1, ListingIs
  <2>4. SlotBack(sectors, rb, Unused(sectors, rb) + (1 - 1)) = Newest(sectors, rb)
    <3> DEFINE v == Unused(sectors, rb)
    <3>1. /\ sectors[rb.current].head \in 0 .. Capacity - 1 /\ Capacity \in Nat /\ Capacity > 0
          /\ v = Capacity - 1 - sectors[rb.current].head /\ rb.occupancy >= 1
      BY <2>1, ListedIs, RingNumbers DEF Unused, SlotIndices
    <3>2. v \in 0 .. Capacity - 1 /\ v + (1 - 1) = 0 * Capacity + v
          /\ Capacity - 1 - v = sectors[rb.current].head
      BY <3>1
    <3>3. (0 * Capacity + v) \div Capacity = 0 /\ (0 * Capacity + v) % Capacity = v
      <4> HIDE DEF v
      <4>1. 0 \in Nat
        OBVIOUS
      <4> QED BY <3>1, <3>2, <4>1, DivisionIs
    <3>4. StepsBack(rb, 0) = rb.current
      <4>1. rb \in Rings /\ rb.current \in Used(rb) /\ 0 \in 0 .. rb.occupancy - 1
        BY <2>1, ListedIs DEF Listable
      <4> QED
        BY <4>1, StepsBackIs
    <3> HIDE DEF v
    <3>5. SlotBack(sectors, rb, v + (1 - 1)) = sectors[rb.current].slots[sectors[rb.current].head]
      BY <3>2, <3>3, <3>4 DEF SlotBack
    <3> QED
      BY <3>5 DEF v, Newest
  <2>5. Listing(sectors, rb)[1] = Newest(sectors, rb)
    <3>1. 1 \in 1 .. Listed(sectors, rb)
      BY <2>2
    <3> QED
      BY <2>3, <2>4, <3>1
  <2>6. Listing(sectors, rb) # << >>
    <3>1. Len(<<>>) = 0
      OBVIOUS
    <3> QED
      BY <2>2, <2>3, <3>1
  <2>7. Newest(sectors, rb) \in Nat
    <3>1. sectors[rb.current].head \in SlotIndices /\ rb.current \in Indices
          /\ sectors \in [Indices -> SectorContents]
      BY <2>1, ListedIs DEF Listable, Rings
    <3> QED
      BY <3>1, SlotsAreNumbers DEF Newest
  <2>8. \A e \in acked : e \in Nat
    BY DEF RingInv, TypeOK, Entries
  <2> QED
    BY <2>1, <2>5, <2>6, <2>7, <2>8
<1> QED
  BY RingInvariant, <1>1, PTL

(* A page is the slice of the full list that it names.                     *)
LEMMA PageIsSlice ==
    ASSUME NEW card, NEW r, Listable(card, r), NEW start \in Nat, NEW n \in Nat
    PROVE  LET whole == Listing(card, r)
               page == GetRange(card, r, start, n)
           IN  IF start < Len(whole)
               THEN page.ok /\ page.list = SubSeq(whole, start + 1,
                                 IF start + n < Len(whole) THEN start + n ELSE Len(whole))
               ELSE page.list = <<>> /\ (page.ok <=> whole = <<>>)
<1> DEFINE whole == Listing(card, r)
           page == GetRange(card, r, start, n)
           X == Entries \cup {0}
           base == Unused(card, r)
           last == IF start + n < Len(whole) THEN start + n ELSE Len(whole)
<1>1. /\ whole \in Seq(X) /\ Len(whole) = Listed(card, r)
      /\ \A x \in 1 .. Listed(card, r) : whole[x] = SlotBack(card, r, base + (x - 1))
  BY ListingIs
<1>2. Listed(card, r) \in Nat /\ Listed(card, r) >= 1 /\ base \in Nat
  BY ListedIs
<1>3. IsPage(page, card, r, start, n)
  BY GetRangeIs
<1> HIDE DEF whole, page, base, X
<1>4. CASE start < Len(whole)
  <2> DEFINE m == start + 1  part == SubSeq(whole, m, last)
  <2>1. /\ page.ok /\ page.list \in Seq(X)
        /\ Len(page.list) = IF n < Listed(card, r) - start THEN n ELSE Listed(card, r) - start
        /\ \A x \in 1 .. Len(page.list) : page.list[x] = SlotBack(card, r, base + start + (x - 1))
    BY <1>1, <1>3, <1>4 DEF IsPage, X, base
  <2>2. m \in 1 .. Len(whole) + 1 /\ last \in m - 1 .. Len(whole) /\ m \in Nat /\ last \in Nat
    BY <1>1, <1>2, <1>4
  <2>3. /\ part \in Seq(X) /\ Len(part) = last - m + 1
        /\ \A i \in 1 .. last - m + 1 : part[i] = whole[m + (i - 1)]
    <3> HIDE DEF m, last
    <3> QED BY <1>1, <2>2, SubSeqIs
  <2>4. last - m + 1 = Len(page.list)
    BY <1>1, <1>2, <1>4, <2>1
  <2>5. ASSUME NEW i \in 1 .. Len(page.list) PROVE page.list[i] = part[i]
    <3>1. m + (i - 1) \in 1 .. Listed(card, r) /\ i \in 1 .. last - m + 1 /\ i \in Nat
      BY <1>1, <1>2, <1>4, <2>1, <2>2, <2>4
    <3>2. part[i] = SlotBack(card, r, base + ((m + (i - 1)) - 1))
      <4> DEFINE z == m + (i - 1)
      <4>1. whole[z] = SlotBack(card, r, base + (z - 1))
        BY <1>1, <3>1
      <4>2. part[i] = whole[z]
        BY <2>3, <3>1
      <4> QED
        BY <4>1, <4>2
    <3>3. base + ((m + (i - 1)) - 1) = base + start + (i - 1)
      BY <1>2, <3>1
    <3> HIDE DEF part, m
    <3> QED
      BY <2>1, <3>2, <3>3
  <2>6. page.list = part
    <3> HIDE DEF part, m, last
    <3> QED BY <2>1, <2>3, <2>4, <2>5, SeqEqual
  <2> QED
    BY <1>4, <2>1, <2>6 DEF whole, page
<1>5. CASE ~ (start < Len(whole))
  <2>1. ~ page.ok /\ page.list = << >>
    BY <1>1, <1>3, <1>5 DEF IsPage
  <2>2. whole # << >>
    <3>1. Len(<<>>) = 0
      OBVIOUS
    <3> QED
      BY <1>1, <1>2, <3>1
  <2> QED
    BY <1>5, <2>1, <2>2 DEF whole, page
<1> QED
  BY <1>4, <1>5

(* message_history_get_range pages through the list that it gives in one   *)
(* go, also from a cursor that an add which failed has left behind.        *)
THEOREM RangesSlice == Spec => []RangesAreSlices
<1>1. RingInv => RangesAreSlices
  <2> SUFFICES ASSUME RingInv, pc = "idle",
                      NEW start \in 0 .. Size * Capacity, NEW n \in 0 .. Size * Capacity
               PROVE  LET whole == Listing(sectors, rb)
                          page == GetRange(sectors, rb, start, n)
                      IN  IF start < Len(whole)
                          THEN page.ok /\ page.list = SubSeq(whole, start + 1,
                                            IF start + n < Len(whole) THEN start + n ELSE Len(whole))
                          ELSE page.list = <<>> /\ (page.ok <=> whole = <<>>)
    BY DEF RangesAreSlices
  <2>1. start \in Nat /\ n \in Nat
    BY RingNumbers
  <2>2. sectors[rb.current].state = "EMPTY" \/ Listable(sectors, rb)
    <3>1. CASE failing
      BY <3>1 DEF RingInv, FailedInv, TypeOK, Listable
    <3>2. CASE ~ failing
      <4> DEFINE card == Recovered  r == Cursor
      <4>1. sectors = card /\ rb = r
        BY <3>2 DEF RingInv, AddInv, Recovered
      <4>2. Ring(card, r)
        BY DEF RingInv
      <4>3. r.occupancy = 0 => card[r.current].state = "EMPTY"
        <5>1. r.occupancy = 0 => r.current \in Indices \ Used(r)
          BY CursorIs, RingNumbers DEF Used
        <5> QED
          BY <4>2, <5>1 DEF Ring
      <4> HIDE DEF card, r
      <4> QED
        BY <4>1, <4>2, <4>3, RingListable
    <3> QED
      BY <3>1, <3>2
  <2>3. CASE sectors[rb.current].state = "EMPTY"
    <3>1. Listing(sectors, rb) = << >>
          /\ GetRange(sectors, rb, start, n) = [ok |-> TRUE, list |-> << >>]
      BY <2>3, EmptyListing
    <3>2. Len(<<>>) = 0
      OBVIOUS
    <3>3. ~ (start < 0)
      BY <2>1
    <3> QED
      BY <3>1, <3>2, <3>3
  <2>4. CASE Listable(sectors, rb)
    BY <2>1, <2>4, PageIsSlice
  <2> QED
    BY <2>2, <2>3, <2>4
<1> QED
  BY RingInvariant, <1>1, PTL
============================================================================
