--------------------------- MODULE ChatStoreProofs ---------------------------
(***************************************************************************)
(* Proofs about ChatStore.  Its properties are about a database that has   *)
(* lost nothing to a cut in the middle of a chain operation (split = {});  *)
(* the invariant says what the card and the RAM state then are at every    *)
(* moment, in the middle of operations and of a mount too.  What holds     *)
(* whatever was cut, the types and the allocator, is proved first.         *)
(***************************************************************************)
EXTENDS ChatStore, RecursionLemmas, FiniteSetTheorems

-----------------------------------------------------------------------------
(* The invariant.                                                          *)

(* TypeOK, and that the lists are sequences.                               *)
TypeInv ==
    /\ contacts \in [Slots -> SlotContents]
    /\ sectors \in [Sectors -> SectorContents]
    /\ \A t \in Sectors : sectors[t].used <=> Len(sectors[t].msgs) \in 1 .. Capacity
    /\ entries \in [Phones -> Entries]
    /\ freeSlots \in Seq(Slots) /\ freeSectors \in Seq(Sectors)
    /\ op \in Ops
    /\ sent \in 0 .. MaxMessages
    /\ owner \in [Messages -> Phones \cup {None}]
    /\ kept \in [Phones -> Seq(Messages)]
    /\ removing \subseteq Phones
    /\ gone \subseteq 1 .. sent
    /\ split \subseteq {"add", "remove", "extend"}

(* An operation on a chat is one of a phone that has a contact; a scan     *)
(* finds an entry for the contact of every used slot.                      *)
OpInv ==
    /\ op.kind \in {"append", "link", "remove"} => entries[op.phone] # None
    /\ op.kind \in {"append", "link"} => sent \in Messages
    /\ op.kind \in {"scan", "orphan"} => \A p \in Phones : SlotsOf(p) # {} => entries[p] # None

(* The sectors that are linked into chats: all that are used, except a new *)
(* one to which the chat's head does not point yet.                        *)
Pending == IF op.kind = "link" THEN {op.sector} ELSE {}
Linked  == {t \in Sectors : sectors[t].used /\ t \notin Pending}
Chat(s) == {t \in Linked : sectors[t].slot = s}

Older(t, u) ==
    \A i \in DOMAIN sectors[t].msgs, j \in DOMAIN sectors[u].msgs :
        sectors[t].msgs[i] < sectors[u].msgs[j]

(* A phone has at most one slot.                                           *)
ContactsInv ==
    /\ \A s \in Slots : contacts[s].used => contacts[s].phone \in Phones
    /\ \A s, t \in Slots :
          contacts[s].used /\ contacts[t].used /\ contacts[s].phone = contacts[t].phone => s = t

(* The entries and the free slots are those of the card.                   *)
EntriesInv ==
    op.kind # "off" =>
        /\ \A p \in Phones : entries[p] # None => contacts[entries[p].slot] = Stored(p)
        /\ \A s \in Slots : contacts[s].used =>
              /\ entries[contacts[s].phone] # None
              /\ entries[contacts[s].phone].slot = s
        /\ IsInjective(freeSlots)
        /\ ToSet(freeSlots) = {s \in Slots : ~contacts[s].used}

(* A sector that prev names is full, older, of the same chat and names     *)
(* this one next; one that next names names this one prev, or has just     *)
(* been removed.                                                           *)
PrevInv(t) ==
    LET u == sectors[t].prev
    IN  u # End =>
          /\ u \in Linked /\ sectors[u].slot = sectors[t].slot /\ sectors[u].next = t
          /\ Len(sectors[u].msgs) = Capacity
          /\ Older(u, t)

NextInv(t) ==
    LET u == sectors[t].next
    IN  u # End =>
          \/ u \in Linked /\ sectors[u].prev = t
          \/ /\ op.kind = "remove" /\ t = op.at /\ op.at # entries[op.phone].latest
             /\ ~sectors[u].used

ChainsInv ==
    /\ \A t \in Linked : contacts[sectors[t].slot].used /\ PrevInv(t) /\ NextInv(t)
    /\ \A t, u \in Linked : sectors[t].slot = sectors[u].slot /\ IsHead(t) /\ IsHead(u) => t = u

(* Where the entries say that the chats' heads are: in a running database, *)
(* during a removal, and during a scan.                                    *)
HeadOf(p) ==
    IF entries[p].latest = End THEN Chat(entries[p].slot) = {}
    ELSE entries[p].latest \in Chat(entries[p].slot) /\ IsHead(entries[p].latest)

HeadsInv ==
    /\ op.kind \in {"idle", "append", "link", "remove"} =>
          \A p \in Phones : entries[p] # None /\ ~(op.kind = "remove" /\ op.phone = p) => HeadOf(p)
    /\ op.kind = "scan" =>
          \A p \in Phones : entries[p] # None =>
              IF entries[p].latest = End
              THEN \A t \in Chat(entries[p].slot) : IsHead(t) => t >= op.at
              ELSE HeadOf(p)

LinkInv ==
    op.kind = "link" =>
        LET e == entries[op.phone]
        IN  /\ e.latest # End /\ op.sector \in Sectors
            /\ sectors[op.sector] = NewSector(e.slot, e.latest, sent)
            /\ Len(sectors[e.latest].msgs) = Capacity

RemoveInv ==
    op.kind = "remove" =>
        LET e == entries[op.phone]
        IN  /\ IF op.at = End THEN Chat(e.slot) = {}
               ELSE op.at \in Chat(e.slot) /\ IsHead(op.at)
            /\ op.at # e.latest => e.latest # End /\ ~sectors[e.latest].used
            /\ op.phone \in removing \/ kept[op.phone] = <<>>

(* The messages on the card are in the order they were sent, are of the    *)
(* sector's contact and are not removed ones.                              *)
StoredInv(t) ==
    LET msgs == sectors[t].msgs
    IN  \A i \in DOMAIN msgs :
           /\ msgs[i] <= sent
           /\ owner[msgs[i]] = contacts[sectors[t].slot].phone
           /\ msgs[i] \notin gone
           /\ \A j \in DOMAIN msgs : i < j => msgs[i] < msgs[j]

MessagesInv ==
    /\ \A t \in Sectors : sectors[t].used => StoredInv(t)
    /\ op.kind \in {"append", "link"} =>
          /\ owner[sent] = op.phone /\ sent \notin gone
          /\ \A t \in Linked : \A i \in DOMAIN sectors[t].msgs : sectors[t].msgs[i] # sent

Holds(p, m) ==
    \E t \in Linked : /\ contacts[sectors[t].slot].phone = p
                      /\ \E i \in DOMAIN sectors[t].msgs : sectors[t].msgs[i] = m

KeptInv ==
    \A p \in Phones :
        /\ \A i \in DOMAIN kept[p] :
              /\ kept[p][i] <= sent
              /\ op.kind \in {"append", "link"} => kept[p][i] # sent
              /\ \A j \in DOMAIN kept[p] : i < j => kept[p][j] < kept[p][i]
        /\ p \notin removing => \A i \in DOMAIN kept[p] : Holds(p, kept[p][i])

WholeInv ==
    /\ op.kind \notin {"stuck", "orphan"}
    /\ ContactsInv
    /\ EntriesInv
    /\ ChainsInv
    /\ HeadsInv
    /\ LinkInv
    /\ RemoveInv
    /\ MessagesInv
    /\ KeptInv

StoreInv ==
    /\ TypeInv
    /\ OpInv
    /\ SectorsAccounted
    /\ split = {} => WholeInv

-----------------------------------------------------------------------------
(* The operators of the model.                                             *)

LEMMA Sizes ==
    /\ NumSlots \in Nat /\ NumSlots > 0 /\ NumSectors \in Nat /\ NumSectors > 0
    /\ Capacity \in Nat /\ Capacity > 0 /\ MaxMessages \in Nat
    /\ None \notin Phones
    /\ End \notin Sectors /\ End \in Nat /\ Sectors \subseteq Nat /\ Slots \subseteq Nat
    /\ LastSlot \in Slots
BY ChatStoreAssumption DEF End, Sectors, Slots, LastSlot

(* What an operation's record holds.                                       *)
LEMMA OpShape ==
    ASSUME NEW o \in Ops
    PROVE  /\ o.kind \in {"off", "idle", "stuck", "append", "link", "remove", "scan", "orphan"}
           /\ o.kind = "off" => o = Off
           /\ o.kind = "idle" => o = Idle
           /\ o.kind = "stuck" => o = Stuck
           /\ o.kind = "append" => o.phone \in Phones /\ o = Appending(o.phone)
           /\ o.kind = "link" =>
                 o.phone \in Phones /\ o.sector \in Sectors \cup {End} /\ o = Linking(o.phone, o.sector)
           /\ o.kind = "remove" =>
                 /\ o.phone \in Phones /\ o.at \in Sectors \cup {End} /\ o.whole \in BOOLEAN
                 /\ o = Removing(o.phone, o.at, o.whole)
           /\ o.kind = "scan" => o.at \in 0 .. NumSectors /\ o = Scanning(o.at)
           /\ o.kind = "orphan" =>
                 /\ o.start \in Sectors /\ o.at \in Sectors \cup {End}
                 /\ o = Orphaning(o.start, o.at)
BY DEF Ops, Off, Idle, Stuck, Appending, Linking, Removing, Scanning, Orphaning

LEMMA OpKinds ==
    /\ Off.kind = "off" /\ Idle.kind = "idle" /\ Stuck.kind = "stuck"
    /\ Off \in Ops /\ Idle \in Ops /\ Stuck \in Ops
    /\ \A p \in Phones : /\ Appending(p) \in Ops /\ Appending(p).kind = "append"
                         /\ Appending(p).phone = p
    /\ \A p \in Phones, t \in Sectors \cup {End} :
          /\ Linking(p, t) \in Ops /\ Linking(p, t).kind = "link"
          /\ Linking(p, t).phone = p /\ Linking(p, t).sector = t
    /\ \A p \in Phones, t \in Sectors \cup {End}, w \in BOOLEAN :
          /\ Removing(p, t, w) \in Ops /\ Removing(p, t, w).kind = "remove"
          /\ Removing(p, t, w).phone = p /\ Removing(p, t, w).at = t /\ Removing(p, t, w).whole = w
    /\ \A i \in 0 .. NumSectors :
          Scanning(i) \in Ops /\ Scanning(i).kind = "scan" /\ Scanning(i).at = i
    /\ \A s \in Sectors, t \in Sectors \cup {End} :
          /\ Orphaning(s, t) \in Ops /\ Orphaning(s, t).kind = "orphan"
          /\ Orphaning(s, t).start = s /\ Orphaning(s, t).at = t
<1>1. \A p \in Phones : Appending(p) \in Ops
  BY DEF Ops
<1>2. \A p \in Phones, t \in Sectors \cup {End} : Linking(p, t) \in Ops
  <2>1. \A p \in Phones, t \in Sectors \cup {End} : Linking(p, t)
           \in {Linking(a, b) : a \in Phones, b \in Sectors \cup {End}}
    OBVIOUS
  <2> QED
    BY <2>1 DEF Ops
<1>3. \A p \in Phones, t \in Sectors \cup {End}, w \in BOOLEAN : Removing(p, t, w) \in Ops
  <2>1. \A p \in Phones, t \in Sectors \cup {End}, w \in BOOLEAN : Removing(p, t, w)
           \in {Removing(a, b, c) : a \in Phones, b \in Sectors \cup {End}, c \in BOOLEAN}
    OBVIOUS
  <2> QED
    BY <2>1 DEF Ops
<1>4. \A i \in 0 .. NumSectors : Scanning(i) \in Ops
  BY DEF Ops
<1>5. \A s \in Sectors, t \in Sectors \cup {End} : Orphaning(s, t) \in Ops
  <2>1. \A s \in Sectors, t \in Sectors \cup {End} : Orphaning(s, t)
           \in {Orphaning(a, b) : a \in Sectors, b \in Sectors \cup {End}}
    OBVIOUS
  <2> QED
    BY <2>1 DEF Ops
<1>6. Off \in Ops /\ Idle \in Ops /\ Stuck \in Ops
  BY DEF Ops
<1> QED
  BY <1>1, <1>2, <1>3, <1>4, <1>5, <1>6
     DEF Off, Idle, Stuck, Appending, Linking, Removing, Scanning, Orphaning

(* An allocator's stack, when its top is taken and when one is put on it.  *)
LEMMA TopTaken ==
    ASSUME NEW X, NEW s \in Seq(X), s # <<>>
    PROVE  /\ Top(s) \in X /\ Popped(s) \in Seq(X)
           /\ Top(s) \in ToSet(s)
           /\ IsInjective(s) => /\ IsInjective(Popped(s))
                                /\ ToSet(Popped(s)) = ToSet(s) \ {Top(s)}
<1> DEFINE n == Len(s)
<1>1. n \in Nat /\ n > 0 /\ DOMAIN s = 1 .. n /\ \A i \in 1 .. n : s[i] \in X
  BY LenProperties, EmptySeq
<1>2. /\ Popped(s) \in Seq(X) /\ DOMAIN Popped(s) = 1 .. n - 1
      /\ \A i \in 1 .. n - 1 : Popped(s)[i] = s[i]
  <2>1. 1 \in 1 .. Len(s) + 1 /\ n - 1 \in 1 - 1 .. Len(s)
    BY <1>1
  <2>2. /\ SubSeq(s, 1, n - 1) \in Seq(X) /\ Len(SubSeq(s, 1, n - 1)) = (n - 1) - 1 + 1
        /\ \A i \in 1 .. (n - 1) - 1 + 1 : SubSeq(s, 1, n - 1)[i] = s[1 + (i - 1)]
    BY <2>1, SubSeqIs
  <2>3. (n - 1) - 1 + 1 = n - 1 /\ \A i \in 1 .. n - 1 : 1 + (i - 1) = i
    BY <1>1
  <2> QED
    BY <2>2, <2>3, LenProperties DEF Popped
<1>3. Top(s) = s[n]
  BY DEF Top
<1>4. ASSUME IsInjective(s)
      PROVE  IsInjective(Popped(s)) /\ ToSet(Popped(s)) = ToSet(s) \ {Top(s)}
  <2>1. \A i, j \in 1 .. n : s[i] = s[j] => i = j
    BY <1>1, <1>4 DEF IsInjective
  <2> DEFINE Below(m) == /\ \A i \in 1 .. m - 1 : i \in 1 .. m /\ i # m
                        /\ \A i \in 1 .. m : i # m => i \in 1 .. m - 1
  <2>2. \A m \in Nat : Below(m)
    OBVIOUS
  <2>3. Below(n)
    BY <1>1, <2>2
  <2>4. n \in 1 .. n
    BY <1>1
  <2> HIDE DEF n
  <2> QED
    BY <1>1, <1>2, <1>3, <2>1, <2>2, <2>3, <2>4 DEF IsInjective, ToSet
<1>5. n \in 1 .. n
  BY <1>1
<1> QED
  BY <1>1, <1>2, <1>3, <1>4, <1>5 DEF ToSet

LEMMA PutOn ==
    ASSUME NEW X, NEW s \in Seq(X), NEW x \in X
    PROVE  /\ Append(s, x) \in Seq(X) /\ Append(s, x) # <<>>
           /\ ToSet(Append(s, x)) = ToSet(s) \cup {x}
           /\ IsInjective(s) /\ x \notin ToSet(s) => IsInjective(Append(s, x))
<1> DEFINE n == Len(s)  a == Append(s, x)
<1>1. n \in Nat /\ DOMAIN s = 1 .. n
  BY LenProperties
<1>2. /\ a \in Seq(X) /\ DOMAIN a = 1 .. n + 1 /\ a[n + 1] = x
      /\ \A i \in 1 .. n : a[i] = s[i]
  BY <1>1, AppendProperties, LenProperties
<1>3. /\ \A i \in 1 .. n : i \in 1 .. n + 1
      /\ \A i \in 1 .. n + 1 : i \in 1 .. n \/ i = n + 1
      /\ n + 1 \in 1 .. n + 1
  BY <1>1
<1>4. a # <<>>
  BY AppendProperties
<1> HIDE DEF a, n
<1>5. ToSet(a) = ToSet(s) \cup {x}
  BY <1>1, <1>2, <1>3 DEF ToSet
<1>6. ASSUME IsInjective(s), x \notin ToSet(s) PROVE IsInjective(a)
  BY <1>1, <1>2, <1>3, <1>6 DEF ToSet, IsInjective
<1> QED
  BY <1>2, <1>4, <1>5, <1>6 DEF a

(* The stack of a format: all numbers below n, once each.                  *)
LEMMA Counting ==
    ASSUME NEW n \in Nat
    PROVE  LET s == [k \in 1 .. n |-> k - 1]
           IN  s \in Seq(0 .. n - 1) /\ IsInjective(s) /\ ToSet(s) = 0 .. n - 1
<1> DEFINE s == [k \in 1 .. n |-> k - 1]
<1>1. s \in [1 .. n -> 0 .. n - 1]
  OBVIOUS
<1>2. s \in Seq(0 .. n - 1) /\ DOMAIN s = 1 .. n
  BY <1>1, FunctionIsSeq
<1>3. IsInjective(s)
  BY DEF IsInjective
<1>4. \A i \in 0 .. n - 1 : i + 1 \in 1 .. n /\ s[i + 1] = i
  OBVIOUS
<1>5. ToSet(s) = 0 .. n - 1
  <2>1. \A k \in 1 .. n : s[k] \in 0 .. n - 1
    BY <1>1
  <2> HIDE DEF s
  <2> QED BY <1>2, <1>4, <2>1 DEF ToSet
<1> QED
  BY <1>2, <1>3, <1>5

(* What the boot frees: the slots that are not used, once each.            *)
UnusedUpto(g) ==
    /\ g \in [0 .. NumSlots -> Seq(Slots)]
    /\ g[0] = <<>>
    /\ \A k \in 1 .. NumSlots :
          g[k] = IF contacts[k - 1].used THEN g[k - 1] ELSE Append(g[k - 1], k - 1)
    /\ UnusedSlots = g[NumSlots]

LEMMA UnusedSteps == \E g : UnusedUpto(g)
<1> DEFINE Body(g) == [k \in 0 .. NumSlots |->
                          IF k = 0 THEN <<>>
                          ELSE IF contacts[k - 1].used THEN g[k - 1] ELSE Append(g[k - 1], k - 1)]
           freed == CHOOSE g : g = Body(g)
           V == Seq(Slots)
           step == [k \in 0 .. NumSlots |->
                       [s \in V |-> IF k = 0 \/ contacts[k - 1].used THEN s ELSE Append(s, k - 1)]]
<1>1. NumSlots \in Nat /\ 0 \in Nat /\ 0 <= NumSlots /\ 0 \in 0 .. NumSlots /\ <<>> \in V
  BY Sizes
<1>2. \A k \in 0 .. NumSlots, s \in V : k # 0 => Append(s, k - 1) \in V
  <2>1. \A k \in 0 .. NumSlots : k # 0 => k - 1 \in Slots
    BY Sizes DEF Slots
  <2> QED
    BY <2>1
<1>3. step \in [0 .. NumSlots -> [V -> V]]
  BY <1>2
<1>4. \E g : Iterates(g, 0, NumSlots, V, <<>>, step)
  <2> HIDE DEF step, V
  <2> QED BY <1>1, <1>3, RecursionExists
<1>5. PICK h : Iterates(h, 0, NumSlots, V, <<>>, step)
  BY <1>4
<1>6. /\ h \in [0 .. NumSlots -> V] /\ h[0] = <<>>
      /\ \A k \in 1 .. NumSlots :
            h[k] = IF contacts[k - 1].used THEN h[k - 1] ELSE Append(h[k - 1], k - 1)
  <2>1. /\ h \in [0 .. NumSlots -> V] /\ h[0] = <<>>
        /\ \A k \in 0 + 1 .. NumSlots : h[k] = step[k][h[k - 1]]
    BY <1>5 DEF Iterates
  <2>2. \A k \in 1 .. NumSlots : k \in 0 + 1 .. NumSlots /\ k \in 0 .. NumSlots /\ k - 1 \in 0 .. NumSlots /\ k # 0
    BY <1>1
  <2> QED
    BY <2>1, <2>2
<1>7. h = Body(h)
  <2>1. ASSUME NEW k \in 0 .. NumSlots
        PROVE  h[k] = IF k = 0 THEN <<>>
                      ELSE IF contacts[k - 1].used THEN h[k - 1] ELSE Append(h[k - 1], k - 1)
    <3>1. k # 0 => k \in 1 .. NumSlots
      BY <1>1
    <3> QED
      BY <1>6, <3>1
  <2>2. h = [k \in 0 .. NumSlots |-> h[k]]
    BY <1>6
  <2> QED
    BY <2>1, <2>2
<1>8. freed = Body(freed)
  BY <1>7
<1>9. UnusedSlots = freed[NumSlots]
  BY DEF UnusedSlots
<1> HIDE DEF freed
<1>10. \A k \in 0 .. NumSlots :
          freed[k] = IF k = 0 THEN <<>>
                     ELSE IF contacts[k - 1].used THEN freed[k - 1] ELSE Append(freed[k - 1], k - 1)
  BY <1>8
<1>11. /\ freed[0] = <<>>
       /\ \A k \in 1 .. NumSlots :
             freed[k] = IF contacts[k - 1].used THEN freed[k - 1] ELSE Append(freed[k - 1], k - 1)
  <2>1. 0 \in 0 .. NumSlots /\ \A k \in 1 .. NumSlots : k \in 0 .. NumSlots /\ k # 0
    BY <1>1
  <2> QED
    BY <1>10, <2>1
<1> DEFINE S == {k \in 0 .. NumSlots : freed[k] \in V}
<1>12. 0 \in S
  BY <1>1, <1>11
<1>13. ASSUME NEW k \in 0 .. NumSlots - 1, k \in S PROVE k + 1 \in S
  <2>1. k + 1 \in 1 .. NumSlots /\ k + 1 \in 0 .. NumSlots /\ (k + 1) - 1 = k /\ k + 1 # 0
    BY <1>1
  <2>2. freed[k + 1] = IF contacts[k].used THEN freed[k] ELSE Append(freed[k], k)
    BY <1>11, <2>1
  <2>3. Append(freed[k], k) \in V
    BY <1>2, <1>13, <2>1
  <2> QED
    BY <1>13, <2>1, <2>2, <2>3
<1>14. 0 .. NumSlots \subseteq S
  <2> HIDE DEF S
  <2> QED BY <1>1, <1>12, <1>13, IntervalInduction
<1>15. freed \in [0 .. NumSlots -> V]
  BY <1>8, <1>14
<1> QED
  BY <1>9, <1>11, <1>15 DEF UnusedUpto

LEMMA UnusedSlotsAre ==
    /\ UnusedSlots \in Seq(Slots)
    /\ IsInjective(UnusedSlots)
    /\ ToSet(UnusedSlots) = {s \in Slots : ~contacts[s].used}
<1>1. PICK g : UnusedUpto(g)
  BY UnusedSteps
<1> DEFINE Below(k) == {s \in Slots : s < k /\ ~contacts[s].used}
           S == {k \in 0 .. NumSlots : IsInjective(g[k]) /\ ToSet(g[k]) = Below(k)}
<1>2. NumSlots \in Nat /\ 0 \in Nat /\ 0 \in 0 .. NumSlots /\ NumSlots \in 0 .. NumSlots
  BY Sizes
<1>3. 0 \in S
  <2>1. Below(0) = {} /\ g[0] = <<>>
    BY <1>1 DEF UnusedUpto, Slots
  <2>2. IsInjective(<<>>) /\ ToSet(<<>>) = {}
    BY DEF IsInjective, ToSet
  <2> HIDE DEF Below
  <2> QED BY <1>2, <2>1, <2>2
<1>4. ASSUME NEW k \in 0 .. NumSlots - 1, k \in S PROVE k + 1 \in S
  <2>1. k + 1 \in 1 .. NumSlots /\ k + 1 \in 0 .. NumSlots /\ (k + 1) - 1 = k /\ k \in Slots
    BY <1>2 DEF Slots
  <2>2. /\ g[k + 1] = IF contacts[k].used THEN g[k] ELSE Append(g[k], k)
        /\ g[k] \in Seq(Slots) /\ IsInjective(g[k]) /\ ToSet(g[k]) = Below(k)
    BY <1>1, <1>4, <2>1 DEF UnusedUpto
  <2>3. /\ k \notin Below(k)
        /\ Below(k + 1) = IF contacts[k].used THEN Below(k) ELSE Below(k) \cup {k}
    BY <2>1 DEF Slots
  <2> HIDE DEF Below
  <2>4. CASE contacts[k].used
    BY <2>1, <2>2, <2>3, <2>4
  <2>5. CASE ~contacts[k].used
    <3>1. IsInjective(Append(g[k], k)) /\ ToSet(Append(g[k], k)) = ToSet(g[k]) \cup {k}
      BY <2>1, <2>2, <2>3, PutOn
    <3> QED
      BY <2>1, <2>2, <2>3, <2>5, <3>1
  <2> QED
    BY <2>4, <2>5
<1>5. NumSlots \in S
  <2>1. 0 .. NumSlots \subseteq S
    <3> HIDE DEF S
    <3> QED BY <1>2, <1>3, <1>4, IntervalInduction
  <2> QED
    BY <1>2, <2>1
<1>6. Below(NumSlots) = {s \in Slots : ~contacts[s].used}
  BY <1>2 DEF Slots
<1> QED
  BY <1>1, <1>2, <1>5, <1>6 DEF UnusedUpto

(* A sector's contents.                                                    *)
LEMMA ContentsFacts ==
    ASSUME NEW c \in SectorContents
    PROVE  /\ c.used \in BOOLEAN /\ c.slot \in Slots /\ c.prev \in Sectors \cup {End}
           /\ c.next \in Sectors \cup {End} /\ c.msgs \in Seq(Messages)
           /\ Len(c.msgs) \in Nat /\ DOMAIN c.msgs = 1 .. Len(c.msgs)
           /\ \A i \in DOMAIN c.msgs : c.msgs[i] \in Messages /\ c.msgs[i] \in Nat
<1>1. c.msgs \in Seq(Messages)
  BY DEF SectorContents
<1>2. DOMAIN c.msgs = 1 .. Len(c.msgs) /\ \A i \in 1 .. Len(c.msgs) : c.msgs[i] \in Messages
  BY <1>1, ElementOfSeq, LenProperties
<1> QED
  BY <1>1, <1>2 DEF SectorContents, Messages

LEMMA NewSectorFacts ==
    ASSUME NEW s \in Slots, NEW t \in Sectors \cup {End}, NEW m \in Messages
    PROVE  LET c == NewSector(s, t, m)
           IN  /\ c \in SectorContents
               /\ c.used /\ c.slot = s /\ c.prev = t /\ c.next = End /\ c.msgs = <<m>>
               /\ Len(c.msgs) = 1 /\ DOMAIN c.msgs = 1 .. 1 /\ c.msgs[1] = m /\ Len(c.msgs) \in 1 .. Capacity
BY Sizes DEF NewSector, SectorContents

LEMMA UnusedFacts ==
    /\ Unused \in SectorContents /\ ~Unused.used /\ ~(Len(Unused.msgs) \in 1 .. Capacity)
BY Sizes DEF Unused, SectorContents, Slots

LEMMA StoredFacts ==
    \A p \in Phones : Stored(p) \in SlotContents /\ Stored(p).used /\ Stored(p).phone = p
BY DEF Stored, SlotContents

(* How far the scan has come that fills the message allocator.             *)
Reached(o) ==
    IF o.kind = "off" THEN 0
    ELSE IF o.kind = "scan" THEN o.at
    ELSE IF o.kind = "orphan" THEN o.start + 1
    ELSE NumSectors

AllocInv ==
    /\ IsInjective(freeSectors)
    /\ ToSet(freeSectors) = {t \in Sectors : t < Reached(op) /\ ~sectors[t].used}

LEMMA AllocIs == AllocInv <=> SectorsAccounted
BY DEF AllocInv, SectorsAccounted, Reached

-----------------------------------------------------------------------------
(* What holds whatever was cut.                                            *)

BasicInv == TypeInv /\ OpInv /\ AllocInv

LEMMA InitBasic == ASSUME Init PROVE BasicInv
<1>1. /\ freeSlots \in Seq(Slots) /\ freeSectors \in Seq(Sectors)
      /\ IsInjective(freeSectors) /\ ToSet(freeSectors) = Sectors
  BY Counting, Sizes DEF Init, Slots, Sectors
<1>2. op = Idle /\ op.kind = "idle" /\ op \in Ops
  BY OpKinds DEF Init
<1>3. contacts \in [Slots -> SlotContents] /\ sectors \in [Sectors -> SectorContents]
  BY UnusedFacts DEF Init, SlotContents
<1>4. /\ \A t \in Sectors : ~sectors[t].used /\ ~(Len(sectors[t].msgs) \in 1 .. Capacity)
      /\ \A t \in Sectors : t < NumSectors
  BY UnusedFacts, Sizes DEF Init, Sectors
<1>5. kept \in [Phones -> Seq(Messages)] /\ entries \in [Phones -> Entries]
  BY DEF Init, Entries
<1>6. TypeInv
  <2>1. sent \in 0 .. MaxMessages /\ gone \subseteq 1 .. sent /\ removing \subseteq Phones
    BY Sizes DEF Init
  <2>2. owner \in [Messages -> Phones \cup {None}]
    BY DEF Init
  <2>3. split \subseteq {"add", "remove", "extend"}
    BY DEF Init
  <2>4. \A t \in Sectors : sectors[t].used <=> Len(sectors[t].msgs) \in 1 .. Capacity
    BY <1>4
  <2> QED
    BY <1>1, <1>2, <1>3, <1>5, <2>1, <2>2, <2>3, <2>4 DEF TypeInv
<1>7. OpInv
  BY <1>2 DEF OpInv
<1>8. AllocInv
  BY <1>1, <1>2, <1>4, Sizes DEF AllocInv, Reached
<1> QED
  BY <1>6, <1>7, <1>8 DEF BasicInv

(* An entry, and what changes of it.                                       *)
LEMMA EntryFacts ==
    ASSUME NEW e \in Entries, e # None
    PROVE  /\ e.slot \in Slots /\ e.latest \in Sectors \cup {End}
           /\ \A t \in Sectors \cup {End} :
                 /\ [e EXCEPT !.latest = t] \in Entries /\ [e EXCEPT !.latest = t] # None
                 /\ [e EXCEPT !.latest = t].slot = e.slot /\ [e EXCEPT !.latest = t].latest = t
<1>1. e \in [slot : Slots, latest : Sectors \cup {End}]
  BY DEF Entries
<1>2. \A t \in Sectors \cup {End} :
         /\ [e EXCEPT !.latest = t] \in [slot : Slots, latest : Sectors \cup {End}]
         /\ [e EXCEPT !.latest = t].slot = e.slot /\ [e EXCEPT !.latest = t].latest = t
  BY <1>1
<1> QED
  BY <1>1, <1>2, NoEntryAssumption DEF Entries

LEMMA NewEntryFacts ==
    ASSUME NEW s \in Slots, NEW t \in Sectors \cup {End}
    PROVE  /\ [slot |-> s, latest |-> t] \in Entries /\ [slot |-> s, latest |-> t] # None
BY NoEntryAssumption DEF Entries

LEMMA TypeFacts ==
    ASSUME TypeInv
    PROVE  /\ \A t \in Sectors : sectors[t] \in SectorContents
           /\ \A p \in Phones : entries[p] # None =>
                 entries[p] \in Entries /\ entries[p].slot \in Slots
                 /\ entries[p].latest \in Sectors \cup {End}
           /\ \A s \in Slots : contacts[s] \in SlotContents
           /\ sent \in Nat /\ MaxMessages \in Nat /\ Messages \subseteq Nat
BY EntryFacts, Sizes DEF TypeInv, Messages

LEMMA AddContactBasic ==
    ASSUME BasicInv, NEW p \in Phones, AddContact(p) PROVE BasicInv'
<1> USE DEF BasicInv
<1>1. /\ op = Idle /\ entries[p] = None /\ freeSlots # <<>>
      /\ contacts' = [contacts EXCEPT ![Top(freeSlots)] = Stored(p)]
      /\ entries' = [entries EXCEPT ![p] = [slot |-> Top(freeSlots), latest |-> End]]
      /\ freeSlots' = Popped(freeSlots)
      /\ UNCHANGED <<sectors, freeSectors, op, sent, owner, kept, removing, gone, split>>
  BY DEF AddContact, ghosts
<1>2. Top(freeSlots) \in Slots /\ Popped(freeSlots) \in Seq(Slots)
  BY <1>1, TopTaken DEF TypeInv
<1>3. TypeInv'
  <2>1. [slot |-> Top(freeSlots), latest |-> End] \in Entries
    BY <1>2, NewEntryFacts
  <2> QED
    BY <1>1, <1>2, <2>1, StoredFacts DEF TypeInv
<1>4. OpInv'
  BY <1>1, OpKinds DEF OpInv
<1>5. AllocInv'
  BY <1>1 DEF AllocInv, Reached
<1> QED
  BY <1>3, <1>4, <1>5

LEMMA UpdatePhoneBasic ==
    ASSUME BasicInv, NEW p \in Phones, NEW q \in Phones, UpdatePhone(p, q) PROVE BasicInv'
<1> USE DEF BasicInv
<1>1. /\ op = Idle /\ entries[p] # None /\ entries[q] = None
      /\ contacts' = [contacts EXCEPT ![entries[p].slot] = Stored(q)]
      /\ entries' = [entries EXCEPT ![q] = entries[p], ![p] = None]
      /\ owner' = [m \in Messages |-> IF owner[m] = p THEN q ELSE owner[m]]
      /\ kept' = [kept EXCEPT ![q] = kept[p], ![p] = <<>>]
      /\ removing' = IF p \in removing THEN (removing \ {p}) \cup {q} ELSE removing
      /\ UNCHANGED <<sectors, freeSlots, freeSectors, op, sent, gone, split>>
  BY DEF UpdatePhone
<1>2. TypeInv'
  <2>1. contacts' \in [Slots -> SlotContents]
    BY <1>1, StoredFacts DEF TypeInv
  <2>2. entries' \in [Phones -> Entries]
    BY <1>1 DEF TypeInv, Entries
  <2>3. owner' \in [Messages -> Phones \cup {None}]
    BY <1>1 DEF TypeInv
  <2>4. kept' \in [Phones -> Seq(Messages)]
    <3>1. <<>> \in Seq(Messages)
      OBVIOUS
    <3> QED
      BY <1>1, <3>1 DEF TypeInv
  <2>5. removing' \subseteq Phones
    BY <1>1 DEF TypeInv
  <2> QED
    BY <1>1, <2>1, <2>2, <2>3, <2>4, <2>5 DEF TypeInv
<1>3. OpInv'
  BY <1>1, OpKinds DEF OpInv
<1>4. AllocInv'
  BY <1>1 DEF AllocInv, Reached
<1> QED
  BY <1>2, <1>3, <1>4

LEMMA BeginAddBasic ==
    ASSUME BasicInv, NEW p \in Phones, BeginAddMessage(p) PROVE BasicInv'
<1> USE DEF BasicInv
<1>1. /\ op = Idle /\ sent < MaxMessages /\ sent' = sent + 1
      /\ owner' = [owner EXCEPT ![sent + 1] = p]
      /\ op' = Appending(p)
      /\ UNCHANGED <<sectors, freeSectors, kept, removing, gone, split>>
  BY DEF BeginAddMessage
<1>2. op'.kind = "append" /\ op' \in Ops /\ op'.phone = p /\ op.kind = "idle"
  BY <1>1, OpKinds
<1>3. sent' \in Messages /\ sent' \in 0 .. MaxMessages /\ 1 .. sent \subseteq 1 .. sent'
  BY <1>1, Sizes DEF TypeInv, Messages
<1>4. /\ contacts' \in [Slots -> SlotContents] /\ entries' \in [Phones -> Entries]
      /\ freeSlots' \in Seq(Slots) /\ entries'[p] # None
  <2>1. CASE entries[p] # None
    BY <2>1 DEF BeginAddMessage, TypeInv
  <2>2. CASE entries[p] = None
    <3>1. /\ contacts' = [contacts EXCEPT ![Top(freeSlots)] = Stored(p)]
          /\ entries' = [entries EXCEPT ![p] = [slot |-> Top(freeSlots), latest |-> End]]
          /\ freeSlots' = Popped(freeSlots) /\ freeSlots # <<>>
      BY <2>2 DEF BeginAddMessage
    <3>2. Top(freeSlots) \in Slots /\ Popped(freeSlots) \in Seq(Slots)
      BY <3>1, TopTaken DEF TypeInv
    <3>3. [slot |-> Top(freeSlots), latest |-> End] \in Entries
          /\ [slot |-> Top(freeSlots), latest |-> End] # None
      BY <3>2, NewEntryFacts
    <3> QED
      BY <3>1, <3>2, <3>3, StoredFacts DEF TypeInv
  <2> QED
    BY <2>1, <2>2
<1>5. TypeInv'
  BY <1>1, <1>2, <1>3, <1>4 DEF TypeInv
<1>6. OpInv'
  BY <1>2, <1>3, <1>4 DEF OpInv
<1>7. AllocInv'
  BY <1>1, <1>2 DEF AllocInv, Reached
<1> QED
  BY <1>5, <1>6, <1>7

(* What an add that succeeds does to the ghosts.                           *)
LEMMA AcknowledgeFacts ==
    ASSUME TypeInv, NEW p \in Phones, sent \in Messages, Acknowledge(p)
    PROVE  /\ kept' \in [Phones -> Seq(Messages)] /\ removing' \subseteq Phones
           /\ op' = Idle /\ op' \in Ops /\ op'.kind = "idle"
           /\ sent' = sent /\ owner' = owner /\ gone' = gone
           /\ sent' \in 0 .. MaxMessages /\ gone' \subseteq 1 .. sent'
           /\ owner' \in [Messages -> Phones \cup {None}]
<1>1. <<sent>> \in Seq(Messages) /\ <<sent>> \o kept[p] \in Seq(Messages)
  BY DEF TypeInv
<1>2. kept' \in [Phones -> Seq(Messages)]
  BY <1>1 DEF Acknowledge, TypeInv
<1> QED
  BY <1>2, OpKinds DEF Acknowledge, TypeInv

LEMMA StartChatBasic ==
    ASSUME BasicInv, NEW p \in Phones, StartChat(p) PROVE BasicInv'
<1> USE DEF BasicInv
<1> DEFINE t == Top(freeSectors)
<1>1. /\ op = Appending(p) /\ freeSectors # <<>> /\ ~sectors[t].used
      /\ sectors' = [sectors EXCEPT ![t] = NewSector(entries[p].slot, End, sent)]
      /\ entries' = [entries EXCEPT ![p] = [@ EXCEPT !.latest = t]]
      /\ freeSectors' = Popped(freeSectors)
      /\ Acknowledge(p)
      /\ UNCHANGED <<contacts, freeSlots, split>>
  BY DEF StartChat
<1>2. op.kind = "append" /\ op.phone = p /\ sent \in Messages /\ entries[p] # None
  BY <1>1, OpKinds DEF OpInv
<1>3. t \in Sectors /\ Popped(freeSectors) \in Seq(Sectors) /\ IsInjective(freeSectors')
      /\ ToSet(freeSectors') = ToSet(freeSectors) \ {t}
  BY <1>1, TopTaken DEF TypeInv, AllocInv
<1> HIDE DEF t
<1>4. NewSector(entries[p].slot, End, sent) \in SectorContents
      /\ Len(NewSector(entries[p].slot, End, sent).msgs) \in 1 .. Capacity
      /\ NewSector(entries[p].slot, End, sent).used
  BY <1>2, TypeFacts, NewSectorFacts
<1>5. TypeInv'
  <2>1. entries' \in [Phones -> Entries]
    BY <1>1, <1>2, <1>3, TypeFacts, EntryFacts DEF TypeInv
  <2>2. sectors' \in [Sectors -> SectorContents]
        /\ \A u \in Sectors : sectors'[u].used <=> Len(sectors'[u].msgs) \in 1 .. Capacity
    BY <1>1, <1>3, <1>4 DEF TypeInv
  <2> QED
    BY <1>1, <1>2, <1>3, <2>1, <2>2, AcknowledgeFacts DEF TypeInv
<1>6. OpInv'
  BY <1>1, <1>2, AcknowledgeFacts DEF OpInv
<1>7. AllocInv'
  <2>1. \A u \in Sectors : sectors'[u].used <=> (u = t \/ sectors[u].used)
    BY <1>1, <1>3, <1>4 DEF TypeInv
  <2>2. Reached(op) = NumSectors /\ Reached(op') = NumSectors
    BY <1>1, <1>2, AcknowledgeFacts DEF Reached
  <2> QED
    BY <1>1, <1>3, <2>1, <2>2 DEF AllocInv
<1> QED
  BY <1>5, <1>6, <1>7

LEMMA AppendMessageBasic ==
    ASSUME BasicInv, NEW p \in Phones, AppendMessage(p) PROVE BasicInv'
<1> USE DEF BasicInv
<1> DEFINE t == entries[p].latest
<1>1. /\ op = Appending(p) /\ t # End /\ sectors[t].used /\ ~SectorFull(t)
      /\ sectors' = [sectors EXCEPT ![t].msgs = Append(@, sent)]
      /\ Acknowledge(p)
      /\ UNCHANGED <<contacts, entries, freeSlots, freeSectors, split>>
  BY DEF AppendMessage
<1>2. op.kind = "append" /\ op.phone = p /\ sent \in Messages /\ entries[p] # None
  BY <1>1, OpKinds DEF OpInv
<1>3. t \in Sectors
  BY <1>1, <1>2, TypeFacts
<1> HIDE DEF t
<1> DEFINE c == sectors[t]  d == [c EXCEPT !.msgs = Append(c.msgs, sent)]
<1>4. c \in SectorContents /\ Len(c.msgs) \in Nat /\ Len(c.msgs) < Capacity /\ c.msgs \in Seq(Messages)
  BY <1>1, <1>3, TypeFacts, ContentsFacts, Sizes DEF SectorFull
<1>5. d \in SectorContents /\ d.used /\ Len(d.msgs) \in 1 .. Capacity
  <2>1. Append(c.msgs, sent) \in Seq(Messages) /\ Len(Append(c.msgs, sent)) = Len(c.msgs) + 1
    BY <1>2, <1>4, AppendProperties
  <2> HIDE DEF c
  <2>2. d \in SectorContents /\ d.msgs = Append(c.msgs, sent) /\ d.used = c.used
    BY <1>4, <2>1 DEF SectorContents
  <2> QED
    BY <1>1, <1>4, <2>1, <2>2, Sizes DEF c
<1>6. sectors' = [sectors EXCEPT ![t] = d]
  <2>1. sectors' = [sectors EXCEPT ![t].msgs = Append(sectors[t].msgs, sent)]
    BY <1>1
  <2> QED
    BY <2>1
<1> HIDE DEF d
<1>7. TypeInv'
  BY <1>1, <1>2, <1>3, <1>5, <1>6, AcknowledgeFacts DEF TypeInv
<1>8. OpInv'
  BY <1>1, <1>2, AcknowledgeFacts DEF OpInv
<1>9. AllocInv'
  <2>1. \A u \in Sectors : sectors'[u].used <=> sectors[u].used
    BY <1>1, <1>3, <1>5, <1>6 DEF TypeInv
  <2>2. Reached(op) = NumSectors /\ Reached(op') = NumSectors
    BY <1>1, <1>2, AcknowledgeFacts DEF Reached
  <2> QED
    BY <1>1, <2>1, <2>2 DEF AllocInv
<1> QED
  BY <1>7, <1>8, <1>9

LEMMA WriteNextBasic ==
    ASSUME BasicInv, NEW p \in Phones, WriteNextSector(p) PROVE BasicInv'
<1> USE DEF BasicInv
<1> DEFINE t == Top(freeSectors)  c == NewSector(entries[p].slot, entries[p].latest, sent)
<1>1. /\ op = Appending(p) /\ entries[p].latest # End
      /\ freeSectors # <<>> /\ ~sectors[t].used
      /\ sectors' = [sectors EXCEPT ![t] = c]
      /\ op' = Linking(p, t)
      /\ freeSectors' = Popped(freeSectors)
      /\ UNCHANGED <<contacts, entries, freeSlots, sent, owner, kept, removing, gone, split>>
  BY DEF WriteNextSector, ghosts
<1>2. op.kind = "append" /\ op.phone = p /\ sent \in Messages /\ entries[p] # None
  BY <1>1, OpKinds DEF OpInv
<1>3. t \in Sectors /\ Popped(freeSectors) \in Seq(Sectors) /\ IsInjective(freeSectors')
      /\ ToSet(freeSectors') = ToSet(freeSectors) \ {t}
  BY <1>1, TopTaken DEF TypeInv, AllocInv
<1>4. c \in SectorContents /\ Len(c.msgs) \in 1 .. Capacity /\ c.used
  BY <1>2, TypeFacts, NewSectorFacts
<1>5. op' \in Ops /\ op'.kind = "link" /\ op'.phone = p /\ op'.sector = t
  BY <1>1, <1>3, OpKinds
<1> HIDE DEF t, c
<1>6. TypeInv'
  BY <1>1, <1>3, <1>4, <1>5 DEF TypeInv
<1>7. OpInv'
  BY <1>1, <1>2, <1>5 DEF OpInv
<1>8. AllocInv'
  <2>1. \A u \in Sectors : sectors'[u].used <=> (u = t \/ sectors[u].used)
    BY <1>1, <1>3, <1>4 DEF TypeInv
  <2>2. Reached(op) = NumSectors /\ Reached(op') = NumSectors
    BY <1>1, <1>2, <1>5 DEF Reached
  <2> QED
    BY <1>1, <1>3, <2>1, <2>2 DEF AllocInv
<1> QED
  BY <1>6, <1>7, <1>8

LEMMA PointToNextBasic ==
    ASSUME BasicInv, NEW p \in Phones, PointToNext(p) PROVE BasicInv'
<1> USE DEF BasicInv
<1> DEFINE t == entries[p].latest
<1>1. /\ op.kind = "link" /\ op.phone = p
      /\ sectors' = [sectors EXCEPT ![t].next = op.sector]
      /\ entries' = [entries EXCEPT ![p].latest = op.sector]
      /\ Acknowledge(p)
      /\ UNCHANGED <<contacts, freeSlots, freeSectors, split>>
  BY DEF PointToNext
<1>2. sent \in Messages /\ entries[p] # None /\ op.sector \in Sectors \cup {End}
  BY <1>1, OpShape DEF OpInv, TypeInv
<1> HIDE DEF t
<1>3. /\ sectors' \in [Sectors -> SectorContents]
      /\ \A u \in Sectors : /\ sectors'[u].used = sectors[u].used
                            /\ sectors'[u].msgs = sectors[u].msgs
  <2> DEFINE d(c) == [c EXCEPT !.next = op.sector]
  <2>1. \A c \in SectorContents : d(c) \in SectorContents /\ d(c).used = c.used /\ d(c).msgs = c.msgs
    BY <1>2 DEF SectorContents
  <2>2. sectors' = [sectors EXCEPT ![t] = d(@)]
    BY <1>1
  <2>3. \A u \in Sectors : sectors'[u] = sectors[u] \/ sectors'[u] = d(sectors[u])
    BY <2>2 DEF TypeInv
  <2>4. DOMAIN sectors' = Sectors /\ sectors' = [u \in Sectors |-> sectors'[u]]
    BY <2>2 DEF TypeInv
  <2> HIDE DEF d
  <2>5. \A u \in Sectors : sectors[u] \in SectorContents
    BY DEF TypeInv
  <2> QED
    BY <2>1, <2>3, <2>4, <2>5
<1>4. entries' \in [Phones -> Entries]
  BY <1>1, <1>2, TypeFacts, EntryFacts DEF TypeInv
<1>5. TypeInv'
  BY <1>1, <1>2, <1>3, <1>4, AcknowledgeFacts DEF TypeInv
<1>6. OpInv'
  BY <1>1, <1>2, AcknowledgeFacts DEF OpInv
<1>7. AllocInv'
  <2>1. Reached(op) = NumSectors /\ Reached(op') = NumSectors
    BY <1>1, <1>2, AcknowledgeFacts DEF Reached
  <2> QED
    BY <1>1, <1>3, <2>1 DEF AllocInv
<1> QED
  BY <1>5, <1>6, <1>7

LEMMA ExtendBasic ==
    ASSUME BasicInv, NEW p \in Phones, ExtendWithoutSector(p) PROVE BasicInv'
<1> USE DEF BasicInv
<1>1. /\ op = Appending(p) /\ op' = Linking(p, End)
      /\ \E q \in Phones \cup {None} : contacts' = [contacts EXCEPT ![LastSlot] = Stored(q)]
      /\ split' = split \cup {"extend"}
      /\ UNCHANGED <<sectors, entries, freeSlots, freeSectors, sent, owner, kept, removing, gone>>
  BY DEF ExtendWithoutSector
<1>2. /\ op.kind = "append" /\ op.phone = p /\ sent \in Messages /\ entries[p] # None
      /\ op' \in Ops /\ op'.kind = "link" /\ op'.phone = p
  BY <1>1, OpKinds DEF OpInv
<1>3. contacts' \in [Slots -> SlotContents]
  <2>1. \A q \in Phones \cup {None} : Stored(q) \in SlotContents
    BY DEF Stored, SlotContents
  <2> QED
    BY <1>1, <2>1 DEF TypeInv
<1>4. TypeInv'
  BY <1>1, <1>2, <1>3 DEF TypeInv
<1>5. OpInv'
  BY <1>1, <1>2 DEF OpInv
<1>6. AllocInv'
  <2>1. Reached(op) = NumSectors /\ Reached(op') = NumSectors
    BY <1>2 DEF Reached
  <2> QED
    BY <1>1, <2>1 DEF AllocInv
<1> QED
  BY <1>4, <1>5, <1>6

(* Steps that only end an operation, or begin a removal.                   *)
LEMMA QuietBasic ==
    ASSUME BasicInv,
           \/ \E p \in Phones : AddMessageFails(p) \/ \E whole \in BOOLEAN : BeginRemove(p, whole)
           \/ RemoveChatFails \/ OrphanRemoved \/ Mounted
    PROVE  BasicInv'
<1> USE DEF BasicInv
<1>1. UNCHANGED <<contacts, sectors, entries, freeSlots, freeSectors, sent, owner, kept, gone, split>>
  BY DEF AddMessageFails, BeginRemove, RemoveChatFails, OrphanRemoved, Mounted, ghosts
<1>2. removing' \subseteq Phones
  BY DEF AddMessageFails, BeginRemove, RemoveChatFails, OrphanRemoved, Mounted, ghosts, TypeInv
<1>3. ASSUME op' \in Ops, Reached(op') = Reached(op), OpInv' PROVE BasicInv'
  <2>1. TypeInv'
    BY <1>1, <1>2, <1>3 DEF TypeInv
  <2>2. AllocInv'
    BY <1>1, <1>3 DEF AllocInv
  <2> QED
    BY <1>3, <2>1, <2>2
<1>4. op \in Ops
  BY DEF TypeInv
<1>5. ASSUME NEW p \in Phones, AddMessageFails(p) PROVE BasicInv'
  <2>1. op = Appending(p) /\ op' = Idle
    BY <1>5 DEF AddMessageFails
  <2>2. op' \in Ops /\ op'.kind = "idle" /\ op.kind = "append"
    BY <2>1, OpKinds
  <2>3. OpInv' /\ Reached(op') = Reached(op)
    BY <2>2 DEF OpInv, Reached
  <2> QED
    BY <1>3, <2>2, <2>3
<1>6. ASSUME NEW p \in Phones, NEW whole \in BOOLEAN, BeginRemove(p, whole) PROVE BasicInv'
  <2>1. op = Idle /\ entries[p] # None /\ op' = Removing(p, entries[p].latest, whole)
    BY <1>6 DEF BeginRemove
  <2>2. op' \in Ops /\ op'.kind = "remove" /\ op'.phone = p /\ op.kind = "idle"
    BY <2>1, OpKinds, TypeFacts
  <2>3. OpInv' /\ Reached(op') = Reached(op)
    BY <1>1, <2>1, <2>2 DEF OpInv, Reached
  <2> QED
    BY <1>3, <2>2, <2>3
<1>7. CASE RemoveChatFails
  <2>1. op.kind = "remove" /\ op' = Idle
    BY <1>7 DEF RemoveChatFails
  <2>2. op' \in Ops /\ op'.kind = "idle"
    BY <2>1, OpKinds
  <2>3. OpInv' /\ Reached(op') = Reached(op)
    BY <2>1, <2>2 DEF OpInv, Reached
  <2> QED
    BY <1>3, <2>2, <2>3
<1>8. CASE OrphanRemoved
  <2>1. op.kind = "orphan" /\ op' = Scanning(op.start + 1)
    BY <1>8 DEF OrphanRemoved
  <2>2. op.start + 1 \in 0 .. NumSectors
    BY <1>4, <2>1, OpShape, Sizes DEF Sectors
  <2>3. op' \in Ops /\ op'.kind = "scan" /\ op'.at = op.start + 1
    BY <2>1, <2>2, OpKinds
  <2>4. \A p \in Phones : SlotsOf(p)' = SlotsOf(p)
    BY <1>1 DEF SlotsOf
  <2>5. OpInv' /\ Reached(op') = Reached(op)
    BY <1>1, <2>1, <2>3, <2>4 DEF OpInv, Reached
  <2> QED
    BY <1>3, <2>3, <2>5
<1>9. CASE Mounted
  <2>1. op = Scanning(NumSectors) /\ op' = Idle
    BY <1>9 DEF Mounted
  <2>2. NumSectors \in 0 .. NumSectors
    BY Sizes
  <2>3. op' \in Ops /\ op'.kind = "idle" /\ op.kind = "scan" /\ op.at = NumSectors
    BY <2>1, <2>2, OpKinds
  <2>4. OpInv' /\ Reached(op') = Reached(op)
    BY <2>3 DEF OpInv, Reached
  <2> QED
    BY <1>3, <2>3, <2>4
<1> QED
  BY <1>5, <1>6, <1>7, <1>8, <1>9

LEMMA RemoveSectorBasic ==
    ASSUME BasicInv, RemoveSector PROVE BasicInv'
<1> USE DEF BasicInv
<1> DEFINE t == op.at
<1>1. /\ op.kind = "remove" /\ t # End /\ sectors[t].used
      /\ sectors' = [sectors EXCEPT ![t] = Unused]
      /\ freeSectors' = Append(freeSectors, t)
      /\ op' = [op EXCEPT !.at = sectors[t].prev]
      /\ UNCHANGED <<contacts, entries, freeSlots, sent, owner, kept, removing, gone, split>>
  BY DEF RemoveSector, ghosts
<1>2. op.phone \in Phones /\ t \in Sectors /\ op = Removing(op.phone, t, op.whole) /\ op.whole \in BOOLEAN
  BY <1>1, OpShape DEF TypeInv
<1>3. sectors[t].prev \in Sectors \cup {End}
  BY <1>2, TypeFacts, ContentsFacts
<1>4. op' = Removing(op.phone, sectors[t].prev, op.whole)
  BY <1>1, <1>2 DEF Removing
<1>5. op' \in Ops /\ op'.kind = "remove" /\ op'.phone = op.phone
  BY <1>2, <1>3, <1>4, OpKinds
<1> HIDE DEF t
<1>6. t \notin ToSet(freeSectors)
  BY <1>1 DEF AllocInv
<1>7. /\ freeSectors' \in Seq(Sectors) /\ IsInjective(freeSectors')
      /\ ToSet(freeSectors') = ToSet(freeSectors) \cup {t}
  BY <1>1, <1>2, <1>6, PutOn DEF TypeInv, AllocInv
<1>8. TypeInv'
  BY <1>1, <1>2, <1>5, <1>7, UnusedFacts DEF TypeInv
<1>9. OpInv'
  BY <1>1, <1>5 DEF OpInv
<1>10. AllocInv'
  <2>1. \A u \in Sectors : sectors'[u].used <=> (u # t /\ sectors[u].used)
    BY <1>1, <1>2, UnusedFacts DEF TypeInv
  <2>2. Reached(op) = NumSectors /\ Reached(op') = NumSectors
    BY <1>1, <1>5 DEF Reached
  <2>3. \A u \in Sectors : u < NumSectors
    BY Sizes DEF Sectors
  <2> QED
    BY <1>2, <1>7, <2>1, <2>2, <2>3 DEF AllocInv
<1> QED
  BY <1>8, <1>9, <1>10

LEMMA RemoveEndsBasic ==
    ASSUME BasicInv, RemoveChatEnds \/ RemoveContactEnds PROVE BasicInv'
<1> USE DEF BasicInv
<1>1. op.kind = "remove" /\ UNCHANGED <<sectors, freeSectors>>
  BY DEF RemoveChatEnds, RemoveContactEnds
<1>2. op.phone \in Phones /\ entries[op.phone] # None
  BY <1>1, OpShape DEF TypeInv, OpInv
<1>3. ASSUME RemovedFor(op.phone)
      PROVE  /\ op' = Idle
             /\ sent' \in 0 .. MaxMessages /\ owner' \in [Messages -> Phones \cup {None}]
             /\ kept' \in [Phones -> Seq(Messages)] /\ removing' \subseteq Phones
             /\ gone' \subseteq 1 .. sent' /\ split' \subseteq {"add", "remove", "extend"}
  <2>1. <<>> \in Seq(Messages)
    OBVIOUS
  <2> QED
    BY <1>3, <2>1 DEF RemovedFor, TypeInv
<1>4. Erased \in SlotContents /\ ~Erased.used
  BY DEF Erased, SlotContents
<1>5. /\ op' = Idle \/ op' = Stuck
      /\ sent' \in 0 .. MaxMessages /\ owner' \in [Messages -> Phones \cup {None}]
      /\ kept' \in [Phones -> Seq(Messages)] /\ removing' \subseteq Phones
      /\ gone' \subseteq 1 .. sent' /\ split' \subseteq {"add", "remove", "extend"}
  <2>1. RemovedFor(op.phone) \/ (op' = Stuck /\ UNCHANGED ghosts)
    BY DEF RemoveChatEnds, RemoveContactEnds
  <2> QED
    BY <1>3, <2>1 DEF ghosts, TypeInv
<1>6. op' \in Ops /\ op'.kind \in {"idle", "stuck"}
  BY <1>5, OpKinds
<1>7. entries' \in [Phones -> Entries]
  <2>1. entries' = [entries EXCEPT ![op.phone] = None]
        \/ entries' = [entries EXCEPT ![op.phone].latest = End]
    BY DEF RemoveChatEnds, RemoveContactEnds
  <2>2. entries[op.phone] \in Entries /\ [entries[op.phone] EXCEPT !.latest = End] \in Entries
        /\ None \in Entries
    BY <1>2, TypeFacts, EntryFacts DEF Entries
  <2> QED
    BY <1>2, <2>1, <2>2 DEF TypeInv
<1>8. contacts' \in [Slots -> SlotContents] /\ freeSlots' \in Seq(Slots)
  <2>1. CASE RemoveChatEnds
    BY <2>1 DEF RemoveChatEnds, TypeInv
  <2>2. CASE RemoveContactEnds
    <3>1. /\ contacts' = [contacts EXCEPT ![entries[op.phone].slot] = Erased]
          /\ freeSlots' = Append(freeSlots, entries[op.phone].slot)
      BY <2>2 DEF RemoveContactEnds
    <3>2. entries[op.phone].slot \in Slots
      BY <1>2, TypeFacts
    <3> QED
      BY <1>4, <3>1, <3>2, PutOn DEF TypeInv
  <2> QED
    BY <2>1, <2>2
<1>9. TypeInv'
  BY <1>1, <1>5, <1>6, <1>7, <1>8 DEF TypeInv
<1>10. OpInv'
  BY <1>6 DEF OpInv
<1>11. AllocInv'
  <2>1. Reached(op) = NumSectors /\ Reached(op') = NumSectors
    BY <1>1, <1>6 DEF Reached
  <2> QED
    BY <1>1, <2>1 DEF AllocInv
<1> QED
  BY <1>9, <1>10, <1>11

LEMMA PowerCutBasic ==
    ASSUME BasicInv, PowerCut PROVE BasicInv'
<1> USE DEF BasicInv
<1>1. /\ op' = Off
      /\ entries' = [p \in Phones |-> None]
      /\ freeSlots' = <<>> /\ freeSectors' = <<>>
      /\ UNCHANGED <<contacts, sectors, sent, owner, kept, removing, gone>>
  BY DEF PowerCut
<1>2. split' \subseteq {"add", "remove", "extend"}
  BY DEF PowerCut, TypeInv
<1>3. op' \in Ops /\ op'.kind = "off"
  BY <1>1, OpKinds
<1>4. TypeInv'
  <2>1. <<>> \in Seq(Slots) /\ <<>> \in Seq(Sectors) /\ [p \in Phones |-> None] \in [Phones -> Entries]
    BY DEF Entries
  <2> QED
    BY <1>1, <1>2, <1>3, <2>1 DEF TypeInv
<1>5. OpInv'
  BY <1>3 DEF OpInv
<1>6. AllocInv'
  <2>1. IsInjective(<<>>) /\ ToSet(<<>>) = {}
    BY DEF IsInjective, ToSet
  <2>2. Reached(op') = 0 /\ \A t \in Sectors : ~(t < 0)
    BY <1>3, Sizes DEF Reached, Sectors
  <2> QED
    BY <1>1, <2>1, <2>2 DEF AllocInv
<1> QED
  BY <1>4, <1>5, <1>6

LEMMA ReconstructBasic ==
    ASSUME BasicInv, ReconstructContacts PROVE BasicInv'
<1> USE DEF BasicInv
<1>1. /\ op = Off
      /\ entries' = [p \in Phones |->
                        IF SlotsOf(p) = {} THEN None ELSE [slot |-> Max(SlotsOf(p)), latest |-> End]]
      /\ freeSlots' = UnusedSlots
      /\ op' = Scanning(0)
      /\ UNCHANGED <<contacts, sectors, freeSectors, sent, owner, kept, removing, gone, split>>
  BY DEF ReconstructContacts, ghosts
<1>2. 0 \in 0 .. NumSectors
  BY Sizes
<1>3. op' \in Ops /\ op'.kind = "scan" /\ op'.at = 0 /\ op.kind = "off"
  BY <1>1, <1>2, OpKinds
<1>4. ASSUME NEW p \in Phones, SlotsOf(p) # {}
      PROVE  Max(SlotsOf(p)) \in SlotsOf(p) /\ Max(SlotsOf(p)) \in Slots
  <2>1. SlotsOf(p) \subseteq 0 .. NumSlots - 1 /\ SlotsOf(p) \subseteq Slots
    BY DEF SlotsOf, Slots
  <2>2. \E s \in SlotsOf(p) : \A u \in SlotsOf(p) : s >= u
    <3> DEFINE R == {s \in Nat : \E u \in SlotsOf(p) : s = NumSlots - u}
    <3>1. R \subseteq Nat /\ \A u \in SlotsOf(p) : NumSlots - u \in R
      BY <2>1, Sizes
    <3>2. PICK m \in R : \A n \in R : m <= n
      <4> HIDE DEF R
      <4> QED BY <1>4, <3>1, LeastNatural
    <3>3. PICK s \in SlotsOf(p) : m = NumSlots - s
      BY <3>2
    <3>4. ASSUME NEW u \in SlotsOf(p) PROVE s >= u
      <4>1. m <= NumSlots - u
        BY <3>1, <3>2
      <4> QED
        BY <2>1, <3>3, <4>1, Sizes
    <3> QED
      BY <3>3, <3>4
  <2> QED
    BY <2>1, <2>2 DEF Max
<1>5. entries' \in [Phones -> Entries]
  BY <1>1, <1>4, NewEntryFacts DEF Entries
<1>6. TypeInv'
  BY <1>1, <1>3, <1>5, UnusedSlotsAre DEF TypeInv
<1>7. OpInv'
  <2>1. \A p \in Phones : SlotsOf(p)' = SlotsOf(p)
    BY <1>1 DEF SlotsOf
  <2>2. \A p \in Phones : SlotsOf(p) # {} => entries'[p] # None
    BY <1>1, <1>4, NewEntryFacts
  <2> QED
    BY <1>3, <2>1, <2>2 DEF OpInv
<1>8. AllocInv'
  <2>1. Reached(op) = 0 /\ Reached(op') = 0
    BY <1>3 DEF Reached
  <2> QED
    BY <1>1, <2>1 DEF AllocInv
<1> QED
  BY <1>6, <1>7, <1>8

LEMMA ScanSectorBasic ==
    ASSUME BasicInv, ScanSector PROVE BasicInv'
<1> USE DEF BasicInv
<1> DEFINE t == op.at
<1>1. /\ op.kind = "scan" /\ t < NumSectors
      /\ UNCHANGED <<contacts, sectors, freeSlots, sent, owner, kept, removing, gone, split>>
  BY DEF ScanSector, ghosts
<1>2. t \in 0 .. NumSectors /\ op = Scanning(t)
  BY <1>1, OpShape DEF TypeInv
<1>3. t \in Sectors /\ t + 1 \in 0 .. NumSectors /\ sectors[t].used \in BOOLEAN
  BY <1>1, <1>2, Sizes, TypeFacts, ContentsFacts DEF Sectors
<1>4. \/ /\ ~sectors[t].used /\ freeSectors' = Append(freeSectors, t)
         /\ op' = Scanning(t + 1) /\ UNCHANGED entries
      \/ /\ sectors[t].used /\ op' = Scanning(t + 1) /\ UNCHANGED <<entries, freeSectors>>
      \/ /\ sectors[t].used /\ HasContact(t)
         /\ entries' = [entries EXCEPT ![contacts[sectors[t].slot].phone].latest = t]
         /\ op' = Scanning(t + 1) /\ UNCHANGED freeSectors
      \/ sectors[t].used /\ op' = Orphaning(t, t) /\ UNCHANGED <<entries, freeSectors>>
  BY <1>1 DEF ScanSector
<1>5. /\ Scanning(t + 1) \in Ops /\ Scanning(t + 1).kind = "scan" /\ Scanning(t + 1).at = t + 1
      /\ Orphaning(t, t) \in Ops /\ Orphaning(t, t).kind = "orphan" /\ Orphaning(t, t).start = t
  BY <1>3, OpKinds
<1> HIDE DEF t
<1>6. op' \in Ops /\ op'.kind \in {"scan", "orphan"} /\ Reached(op') = t + 1 /\ Reached(op) = t
  BY <1>1, <1>4, <1>5 DEF Reached, t
<1>7. \A p \in Phones : SlotsOf(p)' = SlotsOf(p)
  BY <1>1 DEF SlotsOf
<1>8. /\ entries' \in [Phones -> Entries]
      /\ \A p \in Phones : SlotsOf(p) # {} => entries'[p] # None
  <2>1. \A p \in Phones : SlotsOf(p) # {} => entries[p] # None
    BY <1>1 DEF OpInv
  <2>2. CASE UNCHANGED entries
    BY <2>1, <2>2 DEF TypeInv
  <2>3. CASE HasContact(t) /\ entries' = [entries EXCEPT ![contacts[sectors[t].slot].phone].latest = t]
    <3> DEFINE s == sectors[t].slot  q == contacts[s].phone
    <3>1. s \in Slots /\ contacts[s].used /\ entries' = [entries EXCEPT ![q].latest = t]
      BY <1>3, <2>3, TypeFacts, ContentsFacts DEF HasContact
    <3>2. CASE q \in Phones
      <4>1. entries[q] # None
        BY <2>1, <3>1, <3>2 DEF SlotsOf
      <4>2. /\ [entries[q] EXCEPT !.latest = t] \in Entries
            /\ [entries[q] EXCEPT !.latest = t] # None
        BY <1>3, <3>2, <4>1, TypeFacts, EntryFacts
      <4> HIDE DEF q, s
      <4> QED
        BY <2>1, <3>1, <3>2, <4>2 DEF TypeInv
    <3>3. CASE q \notin Phones
      <4> HIDE DEF q, s
      <4>1. entries' = entries
        BY <3>1, <3>3 DEF TypeInv
      <4> QED
        BY <2>1, <4>1 DEF TypeInv
    <3> QED
      BY <3>2, <3>3
  <2> QED
    BY <1>4, <2>2, <2>3
<1>9. /\ freeSectors' \in Seq(Sectors) /\ IsInjective(freeSectors')
      /\ ToSet(freeSectors') = IF sectors[t].used THEN ToSet(freeSectors)
                               ELSE ToSet(freeSectors) \cup {t}
  <2>1. t \notin ToSet(freeSectors)
    BY <1>6, <1>3, Sizes DEF AllocInv
  <2>2. CASE sectors[t].used
    BY <1>4, <2>2 DEF TypeInv, AllocInv
  <2>3. CASE ~sectors[t].used
    <3>1. /\ Append(freeSectors, t) \in Seq(Sectors) /\ IsInjective(Append(freeSectors, t))
          /\ ToSet(Append(freeSectors, t)) = ToSet(freeSectors) \cup {t}
      BY <1>3, <2>1, PutOn DEF TypeInv, AllocInv
    <3> QED
      BY <1>4, <2>3, <3>1
  <2> QED
    BY <2>2, <2>3
<1>10. TypeInv'
  BY <1>1, <1>6, <1>8, <1>9 DEF TypeInv
<1>11. OpInv'
  BY <1>6, <1>7, <1>8 DEF OpInv
<1>12. AllocInv'
  <2>1. \A u \in Sectors : u < t + 1 <=> u < t \/ u = t
    BY <1>3, Sizes
  <2> QED
    BY <1>1, <1>3, <1>6, <1>9, <2>1 DEF AllocInv
<1> QED
  BY <1>10, <1>11, <1>12

LEMMA RemoveOrphanBasic ==
    ASSUME BasicInv, RemoveOrphan PROVE BasicInv'
<1> USE DEF BasicInv
<1> DEFINE t == op.at
<1>1. /\ op.kind = "orphan" /\ t # End /\ sectors[t].used
      /\ sectors' = [sectors EXCEPT ![t] = Unused]
      /\ freeSectors' = IF t <= op.start THEN Append(freeSectors, t) ELSE freeSectors
      /\ op' = [op EXCEPT !.at = sectors[t].prev]
      /\ UNCHANGED <<contacts, entries, freeSlots, sent, owner, kept, removing, gone, split>>
  BY DEF RemoveOrphan, ghosts
<1>2. t \in Sectors /\ op.start \in Sectors /\ op = Orphaning(op.start, t)
  BY <1>1, OpShape DEF TypeInv
<1>3. sectors[t].prev \in Sectors \cup {End}
  BY <1>2, TypeFacts, ContentsFacts
<1>4. op' = Orphaning(op.start, sectors[t].prev)
  BY <1>1, <1>2 DEF Orphaning
<1>5. op' \in Ops /\ op'.kind = "orphan" /\ op'.start = op.start
  BY <1>2, <1>3, <1>4, OpKinds
<1> HIDE DEF t
<1>6. t \notin ToSet(freeSectors)
  BY <1>1 DEF AllocInv
<1>7. /\ freeSectors' \in Seq(Sectors) /\ IsInjective(freeSectors')
      /\ ToSet(freeSectors') = IF t <= op.start THEN ToSet(freeSectors) \cup {t} ELSE ToSet(freeSectors)
  <2>1. /\ Append(freeSectors, t) \in Seq(Sectors) /\ IsInjective(Append(freeSectors, t))
        /\ ToSet(Append(freeSectors, t)) = ToSet(freeSectors) \cup {t}
    BY <1>2, <1>6, PutOn DEF TypeInv, AllocInv
  <2> QED
    BY <1>1, <2>1 DEF TypeInv, AllocInv
<1>8. TypeInv'
  BY <1>1, <1>2, <1>5, <1>7, UnusedFacts DEF TypeInv
<1>9. OpInv'
  <2>1. \A p \in Phones : SlotsOf(p)' = SlotsOf(p)
    BY <1>1 DEF SlotsOf
  <2> QED
    BY <1>1, <1>5, <2>1 DEF OpInv
<1>10. AllocInv'
  <2>1. \A u \in Sectors : sectors'[u].used <=> (u # t /\ sectors[u].used)
    BY <1>1, <1>2, UnusedFacts DEF TypeInv
  <2>2. Reached(op) = op.start + 1 /\ Reached(op') = op.start + 1
    BY <1>1, <1>5 DEF Reached
  <2> DEFINE Upto(n) == \A u \in Sectors : u < n + 1 <=> u <= n
  <2>3. Upto(op.start)
    <3>1. \A n \in Sectors : Upto(n)
      BY DEF Sectors
    <3> QED
      BY <1>2, <3>1
  <2> QED
    BY <1>2, <1>7, <2>1, <2>2, <2>3 DEF AllocInv
<1> QED
  BY <1>8, <1>9, <1>10

LEMMA BasicStep == ASSUME BasicInv, [Next]_vars PROVE BasicInv'
<1>1. CASE UNCHANGED vars
  <2>1. /\ \A p \in Phones : SlotsOf(p)' = SlotsOf(p)
        /\ UNCHANGED <<contacts, sectors, entries, freeSlots, freeSectors, op, sent, owner, kept,
                       removing, gone, split>>
    BY <1>1 DEF vars, SlotsOf
  <2> QED
    BY <2>1 DEF BasicInv, TypeInv, OpInv, AllocInv, Reached
<1>2. CASE Next
  BY <1>2, AddContactBasic, UpdatePhoneBasic, BeginAddBasic, StartChatBasic, AppendMessageBasic,
     WriteNextBasic, PointToNextBasic, ExtendBasic, QuietBasic, RemoveSectorBasic, RemoveEndsBasic,
     PowerCutBasic, ReconstructBasic, ScanSectorBasic, RemoveOrphanBasic DEF Next
<1> QED
  BY <1>1, <1>2

-----------------------------------------------------------------------------
(* What holds while nothing is split.                                      *)

LEMMA LinkedFacts ==
    ASSUME TypeInv
    PROVE  /\ \A t \in Linked : /\ t \in Sectors /\ sectors[t].used /\ sectors[t] \in SectorContents
                                /\ sectors[t].slot \in Slots
                                /\ sectors[t].prev \in Sectors \cup {End}
                                /\ sectors[t].next \in Sectors \cup {End}
                                /\ t # End
           /\ op.kind # "link" => Linked = {t \in Sectors : sectors[t].used} /\ Pending = {}
BY TypeFacts, ContentsFacts, Sizes DEF Linked, Pending

(* Without a removal under way, a head is a sector that has no next one,   *)
(* and no linked sector names a head as its previous one.                  *)
LEMMA HeadIs ==
    ASSUME TypeInv, ChainsInv, NEW t \in Linked
    PROVE  /\ op.kind # "remove" => (IsHead(t) <=> sectors[t].next = End)
           /\ IsHead(t) => \A u \in Linked : sectors[u].prev # t
<1>1. ASSUME op.kind # "remove" PROVE IsHead(t) <=> sectors[t].next = End
  <2>1. sectors[t].next # End => sectors[t].next \in Linked
    BY <1>1 DEF ChainsInv, NextInv
  <2> QED
    BY <2>1, LinkedFacts DEF IsHead
<1>2. ASSUME IsHead(t), NEW u \in Linked, sectors[u].prev = t PROVE FALSE
  <2>1. sectors[t].next = u /\ u # End /\ sectors[u].used
    BY <1>2, LinkedFacts DEF ChainsInv, PrevInv
  <2> QED
    BY <1>2, <2>1 DEF IsHead
<1> QED
  BY <1>1, <1>2

(* A step that changes no sector and not which one is pending.             *)
LEMMA SameSectors ==
    ASSUME UNCHANGED sectors, Pending' = Pending
    PROVE  /\ Linked' = Linked /\ \A s : Chat(s)' = Chat(s)
           /\ \A t : (IsHead(t)' <=> IsHead(t)) /\ (PrevInv(t)' <=> PrevInv(t))
<1>1. Linked' = Linked
  BY DEF Linked
<1>2. \A t, u : Older(t, u)' <=> Older(t, u)
  BY DEF Older
<1> QED
  BY <1>1, <1>2 DEF Chat, IsHead, PrevInv

(* A contact that is added, by itself or for its first message.            *)
ContactAdded(p) ==
    /\ entries[p] = None /\ freeSlots # <<>>
    /\ contacts' = [contacts EXCEPT ![Top(freeSlots)] = Stored(p)]
    /\ entries' = [entries EXCEPT ![p] = [slot |-> Top(freeSlots), latest |-> End]]
    /\ freeSlots' = Popped(freeSlots)

ContactKept == UNCHANGED <<contacts, entries, freeSlots>>

LEMMA ContactAddedInv ==
    ASSUME TypeInv, WholeInv, op.kind = "idle", NEW p \in Phones,
           ContactAdded(p) \/ ContactKept, UNCHANGED sectors, op'.kind \in {"idle", "append"}
    PROVE  /\ ContactsInv' /\ EntriesInv' /\ ChainsInv' /\ HeadsInv'
           /\ Linked' = Linked
           /\ \A t \in Linked : contacts'[sectors[t].slot].phone = contacts[sectors[t].slot].phone
<1> USE DEF WholeInv
<1>1. Pending' = Pending /\ Pending = {}
  BY DEF Pending
<1>2. /\ Linked' = Linked /\ \A s : Chat(s)' = Chat(s)
      /\ \A t : (IsHead(t)' <=> IsHead(t)) /\ (PrevInv(t)' <=> PrevInv(t))
  BY <1>1, SameSectors
<1>3. CASE ContactKept
  <2>1. ContactsInv' /\ EntriesInv'
    BY <1>3 DEF ContactKept, ContactsInv, EntriesInv
  <2>2. ChainsInv'
    BY <1>2, <1>3 DEF ContactKept, ChainsInv, NextInv
  <2>3. HeadsInv'
    BY <1>2, <1>3 DEF ContactKept, HeadsInv, HeadOf
  <2> QED
    BY <1>2, <1>3, <2>1, <2>2, <2>3 DEF ContactKept
<1>4. CASE ContactAdded(p)
  <2> DEFINE s == Top(freeSlots)
  <2>1. /\ s \in Slots /\ ~contacts[s].used
        /\ IsInjective(freeSlots') /\ ToSet(freeSlots') = {u \in Slots : ~contacts[u].used} \ {s}
    BY <1>4, TopTaken DEF ContactAdded, TypeInv, EntriesInv
  <2> HIDE DEF s
  <2>2. /\ contacts'[s] = Stored(p) /\ contacts'[s].used /\ contacts'[s].phone = p
        /\ \A u \in Slots : u # s => contacts'[u] = contacts[u]
    BY <1>4, <2>1, StoredFacts DEF ContactAdded, TypeInv, s
  <2>3. /\ entries'[p] # None /\ entries'[p].slot = s /\ entries'[p].latest = End
        /\ \A q \in Phones : q # p => entries'[q] = entries[q]
        /\ entries[p] = None
    BY <1>4, <2>1, NewEntryFacts DEF ContactAdded, TypeInv, s
  <2>4. \A u \in Slots : contacts[u].used => contacts[u].phone \in Phones /\ contacts[u].phone # p
    BY <2>3 DEF EntriesInv, ContactsInv
  <2>5. ContactsInv'
    BY <2>1, <2>2, <2>4 DEF ContactsInv
  <2>6. \A t \in Linked : sectors[t].slot \in Slots /\ contacts[sectors[t].slot].used
                           /\ sectors[t].slot # s
    BY <2>1, LinkedFacts DEF ChainsInv
  <2>7. EntriesInv'
    <3>1. \A q \in Phones : entries[q] # None =>
             entries[q].slot # s /\ entries[q].slot \in Slots /\ contacts[entries[q].slot] = Stored(q)
      BY <2>1, StoredFacts, TypeFacts DEF EntriesInv
    <3>2. \A q \in Phones : entries'[q] # None => contacts'[entries'[q].slot] = Stored(q)
      BY <2>2, <2>3, <3>1
    <3>3. \A u \in Slots : contacts'[u].used =>
             entries'[contacts'[u].phone] # None /\ entries'[contacts'[u].phone].slot = u
      BY <2>2, <2>3, <2>4 DEF EntriesInv
    <3>4. ToSet(freeSlots') = {u \in Slots : ~contacts'[u].used}
      BY <2>1, <2>2
    <3> QED
      BY <2>1, <3>2, <3>3, <3>4 DEF EntriesInv
  <2>8. ChainsInv'
    <3>1. \A t \in Linked : NextInv(t)'
      BY <1>2 DEF ChainsInv, NextInv
    <3>2. \A t \in Linked : contacts'[sectors[t].slot].used
      BY <2>2, <2>6
    <3> QED
      BY <1>2, <3>1, <3>2 DEF ChainsInv
  <2>9. Chat(s) = {}
    BY <2>6 DEF Chat
  <2>10. HeadsInv'
    <3>1. HeadOf(p)'
      BY <1>2, <2>3, <2>9 DEF HeadOf
    <3>2. \A q \in Phones : q # p /\ HeadOf(q) => HeadOf(q)'
      BY <1>2, <2>3 DEF HeadOf
    <3> QED
      BY <2>3, <3>1, <3>2 DEF HeadsInv
  <2> QED
    BY <1>2, <2>2, <2>5, <2>6, <2>7, <2>8, <2>10
<1> QED
  BY <1>3, <1>4

LEMMA AddContactWhole ==
    ASSUME BasicInv, BasicInv', WholeInv, NEW p \in Phones, AddContact(p) PROVE WholeInv'
<1> USE DEF BasicInv, WholeInv
<1>1. /\ op = Idle /\ ContactAdded(p)
      /\ UNCHANGED <<sectors, freeSectors, op, sent, owner, kept, removing, gone, split>>
  BY DEF AddContact, ContactAdded, ghosts
<1>2. op.kind = "idle" /\ op'.kind = "idle"
  BY <1>1, OpKinds
<1>3. /\ ContactsInv' /\ EntriesInv' /\ ChainsInv' /\ HeadsInv' /\ Linked' = Linked
      /\ \A t \in Linked : contacts'[sectors[t].slot].phone = contacts[sectors[t].slot].phone
  BY <1>1, <1>2, ContactAddedInv
<1>4. MessagesInv'
  BY <1>1, <1>2, <1>3, LinkedFacts DEF MessagesInv, StoredInv
<1>5. KeptInv'
  BY <1>1, <1>2, <1>3 DEF KeptInv, Holds
<1> QED
  BY <1>2, <1>3, <1>4, <1>5 DEF LinkInv, RemoveInv

LEMMA BeginAddWhole ==
    ASSUME BasicInv, BasicInv', WholeInv, NEW p \in Phones, BeginAddMessage(p) PROVE WholeInv'
<1> USE DEF BasicInv, WholeInv
<1>1. /\ op = Idle /\ sent < MaxMessages /\ sent' = sent + 1
      /\ owner' = [owner EXCEPT ![sent + 1] = p]
      /\ op' = Appending(p) /\ (ContactAdded(p) \/ ContactKept)
      /\ UNCHANGED <<sectors, freeSectors, kept, removing, gone, split>>
  BY DEF BeginAddMessage, ContactAdded, ContactKept
<1>2. op.kind = "idle" /\ op'.kind = "append" /\ op'.phone = p
  BY <1>1, OpKinds
<1>3. /\ ContactsInv' /\ EntriesInv' /\ ChainsInv' /\ HeadsInv' /\ Linked' = Linked
      /\ \A t \in Linked : contacts'[sectors[t].slot].phone = contacts[sectors[t].slot].phone
  BY <1>1, <1>2, ContactAddedInv
<1>4. sent' \in Messages /\ owner'[sent'] = p /\ sent \in Nat
      /\ \A m \in Messages : m <= sent => m <= sent' /\ m # sent' /\ owner'[m] = owner[m]
  BY <1>1, Sizes DEF TypeInv, Messages
<1>5. MessagesInv'
  <2>1. ASSUME NEW t \in Linked PROVE StoredInv(t)' /\ \A i \in DOMAIN sectors[t].msgs : sectors[t].msgs[i] # sent'
    <3>1. StoredInv(t) /\ \A i \in DOMAIN sectors[t].msgs : sectors[t].msgs[i] \in Messages
      BY LinkedFacts, ContentsFacts DEF MessagesInv
    <3> QED
      BY <1>1, <1>3, <1>4, <3>1 DEF StoredInv
  <2>2. sent' \notin gone'
    BY <1>1, <1>4 DEF TypeInv
  <2> QED
    BY <1>1, <1>2, <1>3, <1>4, <2>1, <2>2, LinkedFacts DEF MessagesInv
<1>6. KeptInv'
  <2>1. \A q \in Phones : \A i \in DOMAIN kept[q] : kept[q][i] \in Messages
    <3>1. \A q \in Phones : kept[q] \in Seq(Messages)
      BY DEF TypeInv
    <3> QED
      BY <3>1, ElementOfSeq, LenProperties
  <2>2. \A q, m : Holds(q, m) => Holds(q, m)'
    BY <1>1, <1>3 DEF Holds
  <2> QED
    BY <1>1, <1>4, <2>1, <2>2 DEF KeptInv
<1> QED
  BY <1>2, <1>3, <1>5, <1>6 DEF LinkInv, RemoveInv

(* What the acknowledgement of an add, whose message m the phone's chat    *)
(* has then, does to the messages that are kept.                           *)
LEMMA AcknowledgedKept ==
    ASSUME TypeInv, KeptInv, op.kind \in {"append", "link"}, sent \in Messages,
           NEW p \in Phones, Acknowledge(p),
           \A q, m : Holds(q, m) => Holds(q, m)', Holds(p, sent)'
    PROVE  KeptInv'
<1>1. /\ kept' = [kept EXCEPT ![p] = IF p \in removing THEN <<sent>> ELSE <<sent>> \o @]
      /\ removing' = removing \ {p} /\ op' = Idle /\ op'.kind = "idle" /\ sent' = sent
  BY OpKinds DEF Acknowledge
<1>2. sent \in Nat /\ kept[p] \in Seq(Messages) /\ DOMAIN kept = Phones
      /\ \A i \in DOMAIN kept[p] : kept[p][i] \in Messages /\ kept[p][i] \in Nat
  <2>1. kept[p] \in Seq(Messages)
    BY DEF TypeInv
  <2> QED
    BY <2>1, TypeFacts, ElementOfSeq, LenProperties DEF TypeInv
<1>3. ASSUME NEW q \in Phones, q # p
      PROVE  /\ \A i \in DOMAIN kept'[q] :
                   /\ kept'[q][i] <= sent'
                   /\ \A j \in DOMAIN kept'[q] : i < j => kept'[q][j] < kept'[q][i]
             /\ q \notin removing' => \A i \in DOMAIN kept'[q] : Holds(q, kept[q][i])'
  BY <1>1, <1>2, <1>3 DEF KeptInv
<1>4. /\ \A i \in DOMAIN kept'[p] :
            /\ kept'[p][i] <= sent'
            /\ \A j \in DOMAIN kept'[p] : i < j => kept'[p][j] < kept'[p][i]
      /\ \A i \in DOMAIN kept'[p] : Holds(p, kept[p][i])'
  <2>0. sent <= sent /\ ~(sent < sent)
    BY <1>2
  <2>1. CASE p \in removing
    <3>1. kept'[p] = <<sent>> /\ DOMAIN kept'[p] = 1 .. 1 /\ kept'[p][1] = sent
      BY <1>1, <1>2, <2>1
    <3>2. \A i \in 1 .. 1 : i = 1 /\ ~(i < i)
      OBVIOUS

    <3> QED
      BY <1>1, <2>0, <3>1, <3>2
  <2>2. CASE p \notin removing
    <3> DEFINE k == kept[p]  n == Len(k)
    <3>1. kept'[p] = <<sent>> \o k
      BY <1>1, <1>2, <2>2
    <3>2. /\ n \in Nat /\ DOMAIN k = 1 .. n
          /\ Len(kept'[p]) = 1 + n /\ DOMAIN kept'[p] = 1 .. 1 + n
          /\ kept'[p][1] = sent /\ \A i \in 1 .. n : kept'[p][1 + i] = k[i]
      <4>1. <<sent>> \in Seq(Messages) /\ Len(<<sent>>) = 1 /\ k \in Seq(Messages) /\ 1 \in 1 .. 1
            /\ <<sent>>[1] = sent
        BY <1>2
      <4> HIDE DEF k
      <4>2. /\ <<sent>> \o k \in Seq(Messages) /\ Len(<<sent>> \o k) = 1 + Len(k)
            /\ (<<sent>> \o k)[1] = sent /\ \A i \in 1 .. Len(k) : (<<sent>> \o k)[1 + i] = k[i]
        BY <4>1, Joined
      <4> QED
        BY <3>1, <4>1, <4>2, LenProperties
    <3> DEFINE stored == {m \in Messages : Holds(p, m)'}
    <3>3. \A i \in 1 .. n : /\ k[i] < sent /\ k[i] \in Nat /\ k[i] \in stored
                            /\ \A j \in 1 .. n : i < j => k[j] < k[i]
      <4>1. \A i \in 1 .. n : /\ k[i] <= sent /\ k[i] # sent /\ k[i] \in Messages /\ k[i] \in Nat
                              /\ Holds(p, k[i])
                              /\ \A j \in 1 .. n : i < j => k[j] < k[i]
        BY <1>2, <2>2, <3>2 DEF KeptInv
      <4>2. \A i \in 1 .. n : k[i] < sent
        <5> HIDE DEF k, n
        <5> QED BY <1>2, <4>1
      <4>3. \A m \in Messages : Holds(p, m) => m \in stored
        OBVIOUS
      <4> HIDE DEF stored
      <4> QED
        BY <4>1, <4>2, <4>3
    <3>6. sent \in stored
      BY <1>1 DEF Holds
    <3>9. n \in Nat /\ sent \in Nat /\ sent' = sent
      BY <1>1, <1>2, <3>2
    <3> HIDE DEF k, n, stored
    <3>4. \A i \in 1 .. 1 + n : i = 1 \/ (i - 1 \in 1 .. n /\ i = 1 + (i - 1))
      BY <3>9
    <3> DEFINE k2 == kept'[p]
    <3>10. k2[1] = sent /\ \A i \in 1 .. n : k2[1 + i] = k[i]
      BY <3>2
    <3> HIDE DEF k2
    <3>5. ASSUME NEW i \in 1 .. 1 + n
          PROVE  /\ k2[i] <= sent /\ k2[i] \in stored
                 /\ \A j \in 1 .. 1 + n : i < j => k2[j] < k2[i]
      <4>1. CASE i = 1
        <5>1. \A j \in 1 .. 1 + n : i < j => j - 1 \in 1 .. n /\ j = 1 + (j - 1)
          BY <3>9, <4>1
        <5> QED
          BY <3>9, <3>10, <3>3, <3>6, <4>1, <5>1
      <4>2. CASE i # 1
        <5>1. i - 1 \in 1 .. n /\ k2[i] = k[i - 1]
          BY <3>10, <3>4, <4>2
        <5>2. \A j \in 1 .. 1 + n : i < j => /\ j - 1 \in 1 .. n /\ i - 1 < j - 1
                                             /\ k2[j] = k[j - 1]
          <6>1. \A j \in 1 .. 1 + n : i < j => j - 1 \in 1 .. n /\ i - 1 < j - 1 /\ j = 1 + (j - 1)
            BY <3>9, <4>2
          <6> QED
            BY <3>10, <6>1
        <5> QED
          BY <3>9, <3>3, <5>1, <5>2
      <4> QED
        BY <4>1, <4>2
    <3>7. \A m \in stored : Holds(p, m)'
      BY DEF stored
    <3>8. \A i \in DOMAIN kept'[p] : Holds(p, kept[p][i])'
      BY <3>2, <3>5, <3>7 DEF k2
    <3> QED
      BY <3>2, <3>5, <3>8, <3>9 DEF k2
  <2> QED
    BY <2>1, <2>2
<1> QED
  BY <1>1, <1>3, <1>4 DEF KeptInv

(* Changes of an entry's head leave its contact as it is.                  *)
LEMMA HeadChanged ==
    ASSUME TypeInv, EntriesInv, op.kind # "off", NEW p \in Phones, entries[p] # None,
           NEW t \in Sectors \cup {End},
           entries' = [entries EXCEPT ![p].latest = t],
           UNCHANGED <<contacts, freeSlots>>
    PROVE  /\ EntriesInv'
           /\ entries'[p] # None /\ entries'[p].slot = entries[p].slot /\ entries'[p].latest = t
           /\ \A q \in Phones : q # p => entries'[q] = entries[q]
<1> DEFINE e == entries[p]
<1>1. entries' = [entries EXCEPT ![p] = [e EXCEPT !.latest = t]]
  OBVIOUS
<1>2. /\ [e EXCEPT !.latest = t] # None /\ [e EXCEPT !.latest = t].slot = e.slot
      /\ [e EXCEPT !.latest = t].latest = t
  BY TypeFacts, EntryFacts
<1> DEFINE d == [e EXCEPT !.latest = t]
<1>3. /\ entries'[p] # None /\ entries'[p].slot = e.slot /\ entries'[p].latest = t
      /\ \A q \in Phones : q # p => entries'[q] = entries[q]
  <2> HIDE DEF e
  <2>1. entries' = [entries EXCEPT ![p] = d]
    BY <1>1
  <2>2. DOMAIN entries = Phones
    BY DEF TypeInv
  <2> HIDE DEF d
  <2>3. entries'[p] = d /\ \A q \in Phones : q # p => entries'[q] = entries[q]
    BY <2>1, <2>2
  <2> QED
    BY <1>2, <2>3 DEF d
<1>4. \A q \in Phones : /\ entries'[q] = None <=> entries[q] = None
                        /\ entries'[q].slot = entries[q].slot
  BY <1>3
<1>6. ASSUME NEW s \in Slots, contacts[s].used
      PROVE  entries'[contacts[s].phone] # None /\ entries'[contacts[s].phone].slot = s
  <2> DEFINE q == contacts[s].phone
  <2>1. entries[q] # None /\ entries[q].slot = s
    BY <1>6 DEF EntriesInv
  <2>2. CASE q \in Phones
    BY <1>4, <2>1, <2>2
  <2>3. CASE q \notin Phones
    <3>1. entries'[q] = entries[q]
      BY <1>1, <2>3 DEF TypeInv
    <3> QED
      BY <2>1, <3>1
  <2> QED
    BY <2>2, <2>3
<1>7. EntriesInv'
  BY <1>4, <1>6 DEF EntriesInv
<1> QED
  BY <1>3, <1>7

(* The messages of an add's phone are the phone's: that of the add too.    *)
LEMMA PhoneOfEntry ==
    ASSUME TypeInv, WholeInv, op.kind # "off", NEW p \in Phones, entries[p] # None
    PROVE  /\ entries[p].slot \in Slots /\ contacts[entries[p].slot].used
           /\ contacts[entries[p].slot].phone = p
           /\ \A s \in Slots : contacts[s].used /\ contacts[s].phone = p => s = entries[p].slot
BY TypeFacts, StoredFacts DEF WholeInv, EntriesInv

LEMMA StartChatWhole ==
    ASSUME BasicInv, BasicInv', WholeInv, NEW p \in Phones, StartChat(p) PROVE WholeInv'
<1> USE DEF BasicInv, WholeInv
<1>0. PICK t, s, c :
          t = Top(freeSectors) /\ s = entries[p].slot /\ c = NewSector(s, End, sent)
  OBVIOUS
<1>1. /\ op = Appending(p) /\ entries[p].latest = End /\ freeSectors # <<>> /\ ~sectors[t].used
      /\ sectors' = [sectors EXCEPT ![t] = c]
      /\ entries' = [entries EXCEPT ![p].latest = t]
      /\ Acknowledge(p)
      /\ UNCHANGED <<contacts, freeSlots, split>>
  BY <1>0 DEF StartChat
<1>2. /\ op.kind = "append" /\ op.phone = p /\ op'.kind = "idle" /\ entries[p] # None
      /\ sent \in Messages /\ sent' = sent /\ owner' = owner /\ gone' = gone
  BY <1>1, OpKinds DEF Acknowledge, OpInv
<1>3. t \in Sectors /\ t # End /\ s \in Slots
  <2>1. freeSectors \in Seq(Sectors)
    BY DEF TypeInv
  <2>2. t \in Sectors
    BY <1>0, <1>1, <2>1, TopTaken
  <2>3. s \in Slots
    BY <1>0, <1>2, TypeFacts
  <2> QED
    BY <2>2, <2>3, Sizes
<1>4. /\ c.used /\ c.slot = s /\ c.prev = End /\ c.next = End
      /\ DOMAIN c.msgs = 1 .. 1 /\ c.msgs[1] = sent
  <2> DEFINE d == NewSector(s, End, sent)
  <2>1. /\ d.used /\ d.slot = s /\ d.prev = End /\ d.next = End
        /\ DOMAIN d.msgs = 1 .. 1 /\ d.msgs[1] = sent
    BY <1>2, <1>3, NewSectorFacts
  <2> QED
    BY <1>0, <2>1
<1>5. contacts[s].used /\ contacts[s].phone = p
  BY <1>0, <1>2, PhoneOfEntry
<1>6. Chat(s) = {}
  BY <1>0, <1>1, <1>2 DEF HeadsInv, HeadOf
<1>7. sectors'[t] = c /\ \A u \in Sectors : u # t => sectors'[u] = sectors[u]
  BY <1>1, <1>3 DEF TypeInv
<1>8. Pending = {} /\ Pending' = {} /\ t \notin Linked /\ Linked' = Linked \cup {t}
  <2>1. Pending = {} /\ Pending' = {}
    BY <1>2 DEF Pending
  <2> QED
    BY <1>1, <1>3, <1>4, <1>7, <2>1 DEF Linked
<1>9. ASSUME NEW u \in Linked
      PROVE  /\ u \in Sectors /\ u # t /\ sectors'[u] = sectors[u] /\ sectors[u].slot # s
             /\ (sectors[u].prev # End => sectors[u].prev \in Linked)
             /\ (sectors[u].next # End => sectors[u].next \in Linked)
             /\ (IsHead(u)' <=> IsHead(u))
  <2>1. u \in Sectors /\ u # t /\ sectors[u].slot # s
    BY <1>6, <1>8, LinkedFacts DEF Chat
  <2>2. (sectors[u].prev # End => sectors[u].prev \in Linked)
        /\ (sectors[u].next # End => sectors[u].next \in Linked /\ sectors[u].next \in Sectors)
    BY <1>2, LinkedFacts DEF ChainsInv, PrevInv, NextInv
  <2> QED
    BY <1>7, <1>8, <2>1, <2>2 DEF IsHead
<1>10. IsHead(t)'
  BY <1>4, <1>7 DEF IsHead
<1>11. ChainsInv'
  <2>1. ASSUME NEW u \in Linked PROVE contacts'[sectors'[u].slot].used /\ PrevInv(u)' /\ NextInv(u)'
    <3>1. contacts'[sectors'[u].slot].used
      BY <1>1, <1>9 DEF ChainsInv
    <3>2. PrevInv(u)'
      BY <1>8, <1>9 DEF ChainsInv, PrevInv, Older
    <3>3. NextInv(u)'
      BY <1>2, <1>8, <1>9 DEF ChainsInv, NextInv
    <3> QED
      BY <3>1, <3>2, <3>3
  <2>2. contacts'[sectors'[t].slot].used /\ PrevInv(t)' /\ NextInv(t)'
    BY <1>1, <1>4, <1>5, <1>7 DEF PrevInv, NextInv
  <2>3. ASSUME NEW u \in Linked', NEW v \in Linked',
               sectors'[u].slot = sectors'[v].slot, IsHead(u)', IsHead(v)'
        PROVE  u = v
    BY <1>4, <1>7, <1>8, <1>9, <2>3 DEF ChainsInv
  <2> QED
    BY <1>8, <2>1, <2>2, <2>3 DEF ChainsInv
<1>12. /\ EntriesInv'
       /\ entries'[p] # None /\ entries'[p].slot = s /\ entries'[p].latest = t
       /\ \A q \in Phones : q # p => entries'[q] = entries[q]
  BY <1>0, <1>1, <1>2, <1>3, HeadChanged
<1>13. HeadsInv'
  <2>1. HeadOf(p)'
    BY <1>3, <1>4, <1>7, <1>8, <1>10, <1>12 DEF HeadOf, Chat
  <2>2. ASSUME NEW q \in Phones, q # p, entries[q] # None PROVE HeadOf(q)'
    <3>1. entries'[q] = entries[q] /\ HeadOf(q)
      BY <1>2, <1>12, <2>2 DEF HeadsInv
    <3>2. entries[q].slot # s
      BY <1>0, <1>2, <2>2, PhoneOfEntry
    <3>3. Chat(entries[q].slot)' = Chat(entries[q].slot)
      BY <1>4, <1>7, <1>8, <1>9, <3>1, <3>2 DEF Chat
    <3> QED
      BY <1>9, <3>1, <3>3 DEF HeadOf, Chat
  <2> QED
    BY <1>2, <1>12, <2>1, <2>2 DEF HeadsInv
<1>14. ContactsInv'
  BY <1>1 DEF ContactsInv
<1>15. MessagesInv'
  <2>1. ASSUME NEW u \in Linked PROVE StoredInv(u)'
    BY <1>1, <1>2, <1>9, LinkedFacts DEF MessagesInv, StoredInv
  <2>2. StoredInv(t)'
    <3>1. owner[sent] = p /\ sent \notin gone /\ sent \in Nat
      BY <1>2, TypeFacts DEF MessagesInv
    <3>2. \A i \in 1 .. 1 : i = 1 /\ ~(i < i)
      OBVIOUS
    <3> QED
      BY <1>1, <1>2, <1>4, <1>5, <1>7, <3>1, <3>2 DEF StoredInv
  <2>3. \A u \in Sectors : sectors'[u].used => u \in Linked \/ u = t
    BY <1>7, <1>8 DEF Linked
  <2> QED
    BY <1>2, <2>1, <2>2, <2>3 DEF MessagesInv
<1>16. KeptInv'
  <2>1. \A q, m : Holds(q, m) => Holds(q, m)'
    BY <1>1, <1>8, <1>9 DEF Holds
  <2>2. Holds(p, sent)'
    BY <1>1, <1>2, <1>4, <1>5, <1>7, <1>8 DEF Holds
  <2> QED
    BY <1>1, <1>2, <2>1, <2>2, AcknowledgedKept
<1> QED
  BY <1>2, <1>11, <1>12, <1>13, <1>14, <1>15, <1>16 DEF LinkInv, RemoveInv

LEMMA AppendMessageWhole ==
    ASSUME BasicInv, BasicInv', WholeInv, NEW p \in Phones, AppendMessage(p) PROVE WholeInv'
<1> USE DEF BasicInv, WholeInv
<1>0. PICK t, s, old : t = entries[p].latest /\ s = entries[p].slot /\ old = sectors[t].msgs
  OBVIOUS
<1>1. /\ op = Appending(p) /\ t # End /\ sectors[t].used /\ ~SectorFull(t)
      /\ sectors' = [sectors EXCEPT ![t].msgs = Append(@, sent)]
      /\ Acknowledge(p)
      /\ UNCHANGED <<contacts, entries, freeSlots, freeSectors, split>>
  BY <1>0 DEF AppendMessage
<1>2. /\ op.kind = "append" /\ op.phone = p /\ op'.kind = "idle" /\ entries[p] # None
      /\ sent \in Messages /\ sent' = sent /\ owner' = owner /\ gone' = gone /\ sent \in Nat
  BY <1>1, OpKinds, TypeFacts DEF Acknowledge, OpInv
<1>3. contacts[s].used /\ contacts[s].phone = p
  BY <1>0, <1>2, PhoneOfEntry
<1>4. /\ t \in Linked /\ sectors[t].slot = s /\ IsHead(t)
      /\ t \in Sectors /\ sectors[t] \in SectorContents
  <2>1. t \in Chat(s) /\ IsHead(t)
    BY <1>0, <1>1, <1>2 DEF HeadsInv, HeadOf
  <2> QED
    BY <2>1, LinkedFacts DEF Chat
<1>5. PICK n \in Nat : /\ DOMAIN old = 1 .. n /\ n < Capacity /\ Len(old) = n
                       /\ old \in Seq(Messages)
                       /\ \A i \in 1 .. n : old[i] \in Messages /\ old[i] \in Nat
  <2> DEFINE n == Len(old)
  <2>1. /\ n \in Nat /\ DOMAIN old = 1 .. n /\ old \in Seq(Messages)
        /\ \A i \in DOMAIN old : old[i] \in Messages /\ old[i] \in Nat
    BY <1>0, <1>4, ContentsFacts
  <2>2. ~(n >= Capacity)
    BY <1>0, <1>1 DEF SectorFull
  <2>3. Len(old) = n
    OBVIOUS
  <2> HIDE DEF n
  <2>4. n < Capacity
    BY <2>1, <2>2, Sizes
  <2> QED
    BY <2>1, <2>3, <2>4
<1>6. /\ DOMAIN Append(old, sent) = 1 .. n + 1 /\ Append(old, sent)[n + 1] = sent
      /\ \A i \in 1 .. n : Append(old, sent)[i] = old[i]
  BY <1>2, <1>5, AppendProperties
<1>7. PICK new : new = Append(old, sent)
  OBVIOUS
<1>8. /\ \A u \in Sectors : u # t => sectors'[u] = sectors[u]
      /\ sectors'[t].used /\ sectors'[t].slot = s /\ sectors'[t].prev = sectors[t].prev
      /\ sectors'[t].next = sectors[t].next /\ sectors'[t].msgs = new
  <2> DEFINE d(c) == [c EXCEPT !.msgs = Append(c.msgs, sent)]
  <2>1. \A c \in SectorContents : /\ d(c).used = c.used /\ d(c).slot = c.slot /\ d(c).prev = c.prev
                                  /\ d(c).next = c.next /\ d(c).msgs = Append(c.msgs, sent)
    BY DEF SectorContents
  <2>2. sectors' = [sectors EXCEPT ![t] = d(sectors[t])]
    BY <1>1
  <2> HIDE DEF d
  <2>3. sectors'[t] = d(sectors[t]) /\ \A u \in Sectors : u # t => sectors'[u] = sectors[u]
    BY <1>4, <2>2 DEF TypeInv
  <2> QED
    BY <1>0, <1>1, <1>4, <1>7, <2>1, <2>3
<1>9. /\ DOMAIN new = 1 .. n + 1 /\ new[n + 1] = sent /\ \A i \in 1 .. n : new[i] = old[i]
  BY <1>6, <1>7
<1>10. /\ Pending = {} /\ Pending' = {} /\ Linked' = Linked
       /\ \A u : Chat(u)' = Chat(u)
  <2>1. Pending = {} /\ Pending' = {}
    BY <1>2 DEF Pending
  <2>2. \A u \in Sectors : sectors'[u].used = sectors[u].used /\ sectors'[u].slot = sectors[u].slot
    BY <1>1, <1>4, <1>8
  <2>3. Linked' = Linked
    BY <2>1, <2>2 DEF Linked
  <2> QED
    BY <2>1, <2>2, <2>3, LinkedFacts DEF Chat
<1>11. ASSUME NEW u \in Linked
       PROVE  /\ u \in Sectors /\ sectors'[u].prev = sectors[u].prev
              /\ sectors'[u].next = sectors[u].next /\ sectors'[u].slot = sectors[u].slot
              /\ sectors[u].prev # t
              /\ (sectors[u].prev # End => sectors[u].prev \in Linked)
              /\ (sectors[u].next # End => sectors[u].next \in Linked)
              /\ (IsHead(u)' <=> IsHead(u))
  <2>1. u \in Sectors /\ sectors[u].prev # t
    BY <1>4, LinkedFacts, HeadIs
  <2>2. (sectors[u].prev # End => sectors[u].prev \in Linked)
        /\ (sectors[u].next # End => sectors[u].next \in Linked /\ sectors[u].next \in Sectors)
    BY <1>2, LinkedFacts DEF ChainsInv, PrevInv, NextInv
  <2>3. sectors'[u].next = sectors[u].next
    BY <1>8, <2>1
  <2>4. sectors[u].next # End => sectors'[sectors[u].next].used = sectors[sectors[u].next].used
    BY <1>1, <1>8, <2>2
  <2> QED
    BY <1>4, <1>8, <2>1, <2>2, <2>3, <2>4 DEF IsHead
<1>12. \A i \in 1 .. n : old[i] < sent
  <2>1. StoredInv(t)
    BY <1>1, <1>4 DEF MessagesInv
  <2>2. \A i \in 1 .. n : old[i] <= sent /\ old[i] # sent
    BY <1>0, <1>2, <1>4, <1>5, <2>1 DEF MessagesInv, StoredInv
  <2> QED
    BY <1>2, <1>5, <2>2
<1>13. ASSUME NEW u \in Linked, u # t PROVE Older(u, t) => Older(u, t)'
  <2>1. \A i \in DOMAIN sectors[u].msgs : sectors[u].msgs[i] < sent
    <3>1. \A i \in DOMAIN sectors[u].msgs :
             sectors[u].msgs[i] <= sent /\ sectors[u].msgs[i] # sent /\ sectors[u].msgs[i] \in Nat
      BY <1>2, <1>13, LinkedFacts, ContentsFacts DEF MessagesInv, StoredInv
    <3> QED
      BY <1>2, <3>1
  <2>2. \A j \in 1 .. n + 1 : j \in 1 .. n \/ j = n + 1
    OBVIOUS
  <2> QED
    BY <1>0, <1>5, <1>8, <1>9, <1>11, <1>13, <2>1, <2>2 DEF Older
<1>14. ChainsInv'
  <2>1. ASSUME NEW u \in Linked PROVE contacts'[sectors'[u].slot].used /\ PrevInv(u)' /\ NextInv(u)'
    <3>1. contacts'[sectors'[u].slot].used
      BY <1>1, <1>11 DEF ChainsInv
    <3>2. PrevInv(u)'
      <4>0. PICK v : v = sectors[u].prev
        OBVIOUS
      <4>1. CASE v = End
        BY <1>11, <4>0, <4>1 DEF PrevInv
      <4>2. CASE v # End
        <5>1. v \in Linked /\ v # t /\ PrevInv(u) /\ sectors'[v] = sectors[v]
          BY <1>8, <1>11, <4>0, <4>2 DEF ChainsInv
        <5>2. Older(v, u) => Older(v, u)'
          <6>1. CASE u = t
            BY <1>13, <5>1, <6>1
          <6>2. CASE u # t
            BY <1>8, <1>11, <5>1, <6>2 DEF Older
          <6> QED
            BY <6>1, <6>2
        <5> QED
          BY <1>10, <1>11, <4>0, <4>2, <5>1, <5>2 DEF PrevInv
      <4> QED
        BY <4>1, <4>2
    <3>3. NextInv(u)'
      BY <1>2, <1>10, <1>11 DEF ChainsInv, NextInv
    <3> QED
      BY <3>1, <3>2, <3>3
  <2> QED
    BY <1>10, <1>11, <2>1 DEF ChainsInv
<1>15. HeadsInv'
  <2>1. ASSUME NEW q \in Phones, entries[q] # None PROVE HeadOf(q)'
    <3>1. HeadOf(q) /\ entries'[q] = entries[q]
      BY <1>1, <1>2, <2>1 DEF HeadsInv
    <3> QED
      BY <1>10, <1>11, <3>1 DEF HeadOf, Chat
  <2> QED
    BY <1>1, <1>2, <2>1 DEF HeadsInv
<1>16. ContactsInv' /\ EntriesInv'
  BY <1>1, <1>2 DEF ContactsInv, EntriesInv
<1>17. MessagesInv'
  <2>1. ASSUME NEW u \in Linked, u # t PROVE StoredInv(u)'
    BY <1>1, <1>2, <1>8, <1>11, <2>1, LinkedFacts DEF MessagesInv, StoredInv
  <2>2. StoredInv(t)'
    <3>1. owner[sent] = p /\ sent \notin gone /\ sent <= sent /\ ~(sent < sent)
      BY <1>2 DEF MessagesInv
    <3>2. \A j \in 1 .. n + 1 : j \in 1 .. n \/ (j = n + 1 /\ \A i \in 1 .. n + 1 : ~(j < i))
      OBVIOUS
    <3>3. \A i \in 1 .. n : /\ old[i] <= sent /\ owner[old[i]] = p /\ old[i] \notin gone
                            /\ \A j \in 1 .. n : i < j => old[i] < old[j]
      <4>1. StoredInv(t)
        BY <1>4, LinkedFacts DEF MessagesInv
      <4>2. sectors[t].msgs = old /\ contacts[sectors[t].slot].phone = p /\ DOMAIN old = 1 .. n
        BY <1>0, <1>3, <1>4, <1>5
      <4> QED
        BY <4>1, <4>2 DEF StoredInv
    <3>4. ASSUME NEW i \in 1 .. n + 1
          PROVE  /\ new[i] <= sent /\ owner[new[i]] = p /\ new[i] \notin gone
                 /\ \A j \in 1 .. n + 1 : i < j => new[i] < new[j]
      BY <1>9, <1>12, <3>1, <3>2, <3>3
    <3> QED
      BY <1>1, <1>2, <1>3, <1>8, <1>9, <3>4 DEF StoredInv
  <2>3. \A u \in Sectors : sectors'[u].used => u \in Linked
    BY <1>10 DEF Linked
  <2> QED
    BY <1>2, <2>1, <2>2, <2>3 DEF MessagesInv
<1>18. KeptInv'
  <2>1. ASSUME NEW q, NEW m, Holds(q, m) PROVE Holds(q, m)'
    <3>1. PICK u \in Linked : /\ contacts[sectors[u].slot].phone = q
                              /\ \E i \in DOMAIN sectors[u].msgs : sectors[u].msgs[i] = m
      BY <2>1 DEF Holds
    <3>2. \A i \in 1 .. n : i \in 1 .. n + 1
      OBVIOUS
    <3>3. PICK i \in DOMAIN sectors[u].msgs : sectors[u].msgs[i] = m
      BY <3>1
    <3>4. i \in DOMAIN sectors'[u].msgs /\ sectors'[u].msgs[i] = m
      <4>1. CASE u = t
        <5>1. i \in 1 .. n /\ i \in 1 .. n + 1 /\ old[i] = m
          BY <1>0, <1>5, <3>2, <3>3, <4>1
        <5>2. sectors'[u].msgs = new
          BY <1>8, <4>1
        <5> QED
          BY <1>9, <5>1, <5>2
      <4>2. CASE u # t
        BY <1>8, <1>11, <3>3, <4>2
      <4> QED
        BY <4>1, <4>2
    <3> QED
      BY <1>1, <1>10, <1>11, <3>1, <3>4 DEF Holds
  <2>2. Holds(p, sent)'
    <3>1. n + 1 \in 1 .. n + 1
      OBVIOUS
    <3> QED
      BY <1>1, <1>2, <1>3, <1>4, <1>8, <1>9, <1>10, <3>1 DEF Holds
  <2> QED
    BY <1>1, <1>2, <2>1, <2>2, AcknowledgedKept
<1> QED
  BY <1>2, <1>14, <1>15, <1>16, <1>17, <1>18 DEF LinkInv, RemoveInv

LEMMA UpdatePhoneWhole ==
    ASSUME BasicInv, BasicInv', WholeInv, NEW p \in Phones, NEW q \in Phones, UpdatePhone(p, q)
    PROVE  WholeInv'
<1> USE DEF BasicInv, WholeInv
<1>0. PICK s : s = entries[p].slot
  OBVIOUS
<1>1. /\ op = Idle /\ entries[p] # None /\ entries[q] = None
      /\ contacts' = [contacts EXCEPT ![s] = Stored(q)]
      /\ entries' = [entries EXCEPT ![q] = entries[p], ![p] = None]
      /\ owner' = [m \in Messages |-> IF owner[m] = p THEN q ELSE owner[m]]
      /\ kept' = [kept EXCEPT ![q] = kept[p], ![p] = <<>>]
      /\ removing' = IF p \in removing THEN (removing \ {p}) \cup {q} ELSE removing
      /\ UNCHANGED <<sectors, freeSlots, freeSectors, op, sent, gone, split>>
  BY <1>0 DEF UpdatePhone
<1>2. op.kind = "idle" /\ op'.kind = "idle" /\ p # q
  BY <1>1, OpKinds
<1>3. /\ s \in Slots /\ contacts[s].used /\ contacts[s].phone = p
      /\ \A u \in Slots : contacts[u].used /\ contacts[u].phone = p => u = s
  BY <1>0, <1>1, <1>2, PhoneOfEntry
<1>4. /\ contacts'[s] = Stored(q) /\ contacts'[s].used /\ contacts'[s].phone = q
      /\ \A u \in Slots : u # s => contacts'[u] = contacts[u]
  BY <1>1, <1>3, StoredFacts DEF TypeInv
<1>5. /\ entries'[q] = entries[p] /\ entries'[p] = None
      /\ \A r \in Phones : r # p /\ r # q => entries'[r] = entries[r]
  BY <1>1, <1>2 DEF TypeInv
<1>6. \A u \in Slots : contacts[u].used /\ u # s =>
         contacts[u].phone \in Phones /\ contacts[u].phone # p /\ contacts[u].phone # q
  BY <1>1, <1>2, <1>3 DEF ContactsInv, EntriesInv
<1>7. \A r \in Phones : entries[r] # None /\ r # p => entries[r].slot \in Slots /\ entries[r].slot # s
  BY <1>1, <1>2, <1>3, PhoneOfEntry
<1>8. Pending' = Pending /\ Pending = {}
  BY <1>2 DEF Pending
<1>9. /\ Linked' = Linked /\ \A u : Chat(u)' = Chat(u)
      /\ \A t : (IsHead(t)' <=> IsHead(t)) /\ (PrevInv(t)' <=> PrevInv(t))
  BY <1>1, <1>8, SameSectors
<1>10. ContactsInv'
  BY <1>3, <1>4, <1>6 DEF ContactsInv
<1>11. EntriesInv'
  <2>1. ASSUME NEW r \in Phones, entries'[r] # None PROVE contacts'[entries'[r].slot] = Stored(r)
    <3>1. CASE r = q
      BY <1>0, <1>4, <1>5, <3>1
    <3>2. CASE r # q
      BY <1>2, <1>4, <1>5, <1>7, <2>1, <3>2 DEF EntriesInv
    <3> QED
      BY <3>1, <3>2
  <2>2. ASSUME NEW u \in Slots, contacts'[u].used
        PROVE  entries'[contacts'[u].phone] # None /\ entries'[contacts'[u].phone].slot = u
    <3>1. CASE u = s
      BY <1>0, <1>1, <1>4, <1>5, <3>1
    <3>2. CASE u # s
      BY <1>2, <1>4, <1>5, <1>6, <2>2, <3>2 DEF EntriesInv
    <3> QED
      BY <3>1, <3>2
  <2>3. \A u \in Slots : contacts'[u].used <=> contacts[u].used
    BY <1>3, <1>4
  <2> QED
    BY <1>1, <1>2, <2>1, <2>2, <2>3 DEF EntriesInv
<1>12. \A t \in Linked : sectors[t].slot \in Slots /\ contacts[sectors[t].slot].used
                         /\ contacts'[sectors[t].slot].used
  BY <1>4, LinkedFacts DEF ChainsInv
<1>13. ChainsInv'
  <2>1. \A t \in Linked : NextInv(t)'
    BY <1>1, <1>2, <1>9 DEF ChainsInv, NextInv
  <2> QED
    BY <1>1, <1>9, <1>12, <2>1 DEF ChainsInv
<1>14. HeadsInv'
  <2>1. \A r \in Phones : entries[r] # None => HeadOf(r)
    BY <1>2 DEF HeadsInv
  <2>2. HeadOf(q)'
    BY <1>1, <1>5, <1>9, <2>1 DEF HeadOf
  <2>3. \A r \in Phones : r # p /\ r # q /\ entries[r] # None => HeadOf(r)'
    BY <1>5, <1>9, <2>1 DEF HeadOf
  <2> QED
    BY <1>2, <1>5, <2>2, <2>3 DEF HeadsInv
<1>15. MessagesInv'
  <2>1. ASSUME NEW t \in Linked PROVE StoredInv(t)'
    <3>1. StoredInv(t) /\ \A i \in DOMAIN sectors[t].msgs : sectors[t].msgs[i] \in Messages
      BY LinkedFacts, ContentsFacts DEF MessagesInv
    <3>2. \A m \in Messages : owner[m] = contacts[sectors[t].slot].phone =>
             owner'[m] = contacts'[sectors[t].slot].phone
      BY <1>1, <1>3, <1>4, <1>6, <1>12
    <3> QED
      BY <1>1, <3>1, <3>2 DEF StoredInv
  <2> QED
    BY <1>2, <1>8, <1>9, <2>1 DEF MessagesInv, Linked
<1>16. /\ kept'[p] = <<>> /\ kept'[q] = kept[p]
       /\ \A r \in Phones : r # p /\ r # q => kept'[r] = kept[r]
  BY <1>1, <1>2 DEF TypeInv
<1>17. KeptInv'
  <2>1. \A m : Holds(p, m) => Holds(q, m)'
    BY <1>1, <1>3, <1>4, <1>9, <1>12 DEF Holds
  <2>2. \A r \in Phones : \A m : r # p /\ Holds(r, m) => Holds(r, m)'
    BY <1>1, <1>3, <1>4, <1>9, <1>12 DEF Holds
  <2>3. q \notin removing' => p \notin removing
    BY <1>1
  <2>4. \A r \in Phones : r # p /\ r # q /\ r \notin removing' => r \notin removing
    BY <1>1
  <2>5. DOMAIN kept'[p] = {}
    BY <1>16
  <2>6. ASSUME NEW i \in DOMAIN kept[p], q \notin removing' PROVE Holds(q, kept[q][i])'
    <3>1. PICK m : m = kept[p][i]
      OBVIOUS
    <3>2. Holds(q, m)' /\ kept'[q][i] = m
      BY <1>16, <2>1, <2>3, <2>6, <3>1 DEF KeptInv
    <3> QED
      BY <3>2 DEF Holds
  <2>7. ASSUME NEW r \in Phones, r # p, r # q, r \notin removing', NEW i \in DOMAIN kept[r]
        PROVE  Holds(r, kept[r][i])'
    <3>1. PICK m : m = kept[r][i]
      OBVIOUS
    <3>2. Holds(r, m)' /\ kept'[r][i] = m
      BY <1>16, <2>2, <2>4, <2>7, <3>1 DEF KeptInv
    <3> QED
      BY <3>2 DEF Holds
  <2>8. \A r \in Phones : \A i \in DOMAIN kept'[r] :
           /\ kept'[r][i] <= sent'
           /\ \A j \in DOMAIN kept'[r] : i < j => kept'[r][j] < kept'[r][i]
    BY <1>1, <1>16, <2>5 DEF KeptInv
  <2>9. \A r \in Phones : r \notin removing' => \A i \in DOMAIN kept'[r] : Holds(r, kept[r][i])'
    BY <1>16, <2>5, <2>6, <2>7
  <2> QED
    BY <1>1, <1>2, <2>8, <2>9 DEF KeptInv
<1> QED
  BY <1>2, <1>10, <1>11, <1>13, <1>14, <1>15, <1>17 DEF LinkInv, RemoveInv

LEMMA WriteNextWhole ==
    ASSUME BasicInv, BasicInv', WholeInv, NEW p \in Phones, WriteNextSector(p) PROVE WholeInv'
<1> USE DEF BasicInv, WholeInv
<1>0. PICK t, s, h, c : /\ t = Top(freeSectors) /\ s = entries[p].slot /\ h = entries[p].latest
                        /\ c = NewSector(s, h, sent)
  OBVIOUS
<1>1. /\ op = Appending(p) /\ h # End /\ sectors[h].used /\ SectorFull(h)
      /\ freeSectors # <<>> /\ ~sectors[t].used
      /\ sectors' = [sectors EXCEPT ![t] = c] /\ op' = Linking(p, t)
      /\ UNCHANGED <<contacts, entries, freeSlots, sent, owner, kept, removing, gone, split>>
  BY <1>0 DEF WriteNextSector, ghosts
<1>2. /\ op.kind = "append" /\ op.phone = p /\ entries[p] # None /\ sent \in Messages
      /\ t \in Sectors /\ op'.kind = "link" /\ op'.phone = p /\ op'.sector = t
  <2>1. t \in Sectors
    BY <1>0, <1>1, TopTaken DEF TypeInv
  <2> QED
    BY <1>1, <2>1, OpKinds DEF OpInv
<1>3. contacts[s].used /\ contacts[s].phone = p /\ s \in Slots /\ h \in Sectors
  BY <1>0, <1>1, <1>2, PhoneOfEntry, TypeFacts
<1>4. /\ c.used /\ c.slot = s
      /\ DOMAIN c.msgs = 1 .. 1 /\ c.msgs[1] = sent
  <2> DEFINE d == NewSector(s, h, sent)
  <2>1. /\ d.used /\ d.slot = s
        /\ DOMAIN d.msgs = 1 .. 1 /\ d.msgs[1] = sent
    BY <1>2, <1>3, NewSectorFacts
  <2> QED
    BY <1>0, <2>1
<1>5. sectors'[t] = c /\ \A u \in Sectors : u # t => sectors'[u] = sectors[u]
  BY <1>1, <1>2 DEF TypeInv
<1>6. Pending = {} /\ Pending' = {t} /\ t \notin Linked /\ Linked' = Linked
  <2>1. Pending = {} /\ Pending' = {t}
    BY <1>2 DEF Pending
  <2> QED
    BY <1>1, <1>5, <2>1 DEF Linked
<1>7. ASSUME NEW u \in Linked
      PROVE  /\ u \in Sectors /\ u # t /\ sectors'[u] = sectors[u]
             /\ (sectors[u].prev # End => sectors[u].prev \in Linked)
             /\ (sectors[u].next # End => sectors[u].next \in Linked)
             /\ (IsHead(u)' <=> IsHead(u))
  <2>1. u \in Sectors /\ u # t
    BY <1>6, LinkedFacts
  <2>2. (sectors[u].prev # End => sectors[u].prev \in Linked)
        /\ (sectors[u].next # End => sectors[u].next \in Linked /\ sectors[u].next \in Sectors)
    BY <1>2, LinkedFacts DEF ChainsInv, PrevInv, NextInv
  <2> QED
    BY <1>5, <1>6, <2>1, <2>2 DEF IsHead
<1>8. \A u : Chat(u)' = Chat(u)
  BY <1>6, <1>7 DEF Chat
<1>9. ChainsInv'
  <2>1. ASSUME NEW u \in Linked PROVE contacts'[sectors'[u].slot].used /\ PrevInv(u)' /\ NextInv(u)'
    <3>1. contacts'[sectors'[u].slot].used
      BY <1>1, <1>7 DEF ChainsInv
    <3>2. PrevInv(u)'
      <4>1. PICK v : v = sectors[u].prev
        OBVIOUS
      <4>2. PrevInv(u) /\ (v # End => v \in Linked /\ sectors'[v] = sectors[v])
        BY <1>7, <4>1 DEF ChainsInv
      <4>3. \A w \in Linked : Older(w, u) => Older(w, u)'
        BY <1>7 DEF Older
      <4> QED
        BY <1>6, <1>7, <4>1, <4>2, <4>3 DEF PrevInv
    <3>3. NextInv(u)'
      BY <1>2, <1>6, <1>7 DEF ChainsInv, NextInv
    <3> QED
      BY <3>1, <3>2, <3>3
  <2>2. ASSUME NEW u \in Linked, NEW v \in Linked,
               sectors'[u].slot = sectors'[v].slot, IsHead(u)', IsHead(v)'
        PROVE  u = v
    BY <1>7, <2>2 DEF ChainsInv
  <2> QED
    BY <1>6, <2>1, <2>2 DEF ChainsInv
<1>10. HeadsInv'
  <2>1. ASSUME NEW q \in Phones, entries[q] # None PROVE HeadOf(q)'
    <3>1. HeadOf(q) /\ entries'[q] = entries[q]
      BY <1>1, <1>2, <2>1 DEF HeadsInv
    <3> QED
      <4>1. PICK z : z = entries[q].slot
        OBVIOUS
      <4>2. Chat(z)' = Chat(z)
        BY <1>8
      <4>3. \A w \in Chat(z) : IsHead(w)' <=> IsHead(w)
        BY <1>7 DEF Chat
      <4> QED
        BY <3>1, <4>1, <4>2, <4>3 DEF HeadOf
  <2> QED
    BY <1>1, <1>2, <2>1 DEF HeadsInv
<1>11. LinkInv'
  <2>1. Len(sectors[h].msgs) = Capacity
    <3>1. Len(sectors[h].msgs) \in 1 .. Capacity /\ Len(sectors[h].msgs) >= Capacity
      BY <1>1, <1>3 DEF TypeInv, SectorFull
    <3> QED
      BY <3>1, Sizes
  <2>2. h # t /\ sectors'[h] = sectors[h]
    BY <1>1, <1>3, <1>5
  <2> QED
    BY <1>0, <1>1, <1>2, <1>5, <2>1, <2>2 DEF LinkInv, NewSector
<1>12. ContactsInv' /\ EntriesInv'
  BY <1>1, <1>2 DEF ContactsInv, EntriesInv
<1>13. owner[sent] = p /\ sent \notin gone /\ sent \in Nat
  BY <1>2, TypeFacts DEF MessagesInv
<1>14. MessagesInv'
  <2>1. ASSUME NEW u \in Linked PROVE StoredInv(u)'
    BY <1>1, <1>7, LinkedFacts DEF MessagesInv, StoredInv
  <2>2. StoredInv(t)'
    <3>1. \A i \in 1 .. 1 : i = 1 /\ ~(i < i)
      OBVIOUS
    <3> QED
      BY <1>1, <1>3, <1>4, <1>5, <1>13, <3>1 DEF StoredInv
  <2>3. \A u \in Sectors : sectors'[u].used => u \in Linked \/ u = t
    BY <1>5, <1>6 DEF Linked
  <2> QED
    BY <1>1, <1>2, <1>6, <1>7, <1>13, <2>1, <2>2, <2>3 DEF MessagesInv
<1>15. KeptInv'
  <2>1. \A q, m : Holds(q, m) => Holds(q, m)'
    BY <1>1, <1>6, <1>7 DEF Holds
  <2> QED
    BY <1>1, <1>2, <2>1 DEF KeptInv
<1> QED
  BY <1>2, <1>9, <1>10, <1>11, <1>12, <1>14, <1>15 DEF RemoveInv

LEMMA PointToNextWhole ==
    ASSUME BasicInv, BasicInv', WholeInv, NEW p \in Phones, PointToNext(p) PROVE WholeInv'
<1> USE DEF BasicInv, WholeInv
<1>0. PICK t, s, h : t = op.sector /\ s = entries[p].slot /\ h = entries[p].latest
  OBVIOUS
<1>1. /\ op.kind = "link" /\ op.phone = p
      /\ sectors' = [sectors EXCEPT ![h].next = t]
      /\ entries' = [entries EXCEPT ![p].latest = t]
      /\ Acknowledge(p)
      /\ UNCHANGED <<contacts, freeSlots, freeSectors, split>>
  BY <1>0 DEF PointToNext
<1>2. /\ t \in Sectors /\ entries[p] # None /\ sent \in Messages /\ sent \in Nat
      /\ op'.kind = "idle" /\ sent' = sent /\ owner' = owner /\ gone' = gone
  BY <1>0, <1>1, OpShape, OpKinds, TypeFacts DEF Acknowledge, OpInv, TypeInv, LinkInv
<1>3. contacts[s].used /\ contacts[s].phone = p /\ s \in Slots
  BY <1>0, <1>1, <1>2, PhoneOfEntry
<1>4. /\ h # End /\ h \in Linked /\ h \in Sectors /\ sectors[h].slot = s /\ IsHead(h)
      /\ sectors[h].next = End /\ Len(sectors[h].msgs) = Capacity /\ sectors[h].used
  <2>1. h # End /\ Len(sectors[h].msgs) = Capacity
    BY <1>0, <1>1 DEF LinkInv
  <2>2. h \in Chat(s) /\ IsHead(h)
    BY <1>0, <1>1, <1>2, <2>1 DEF HeadsInv, HeadOf
  <2>3. h \in Linked /\ sectors[h].slot = s
    BY <2>2 DEF Chat
  <2>4. sectors[h].next = End
    BY <1>1, <2>2, <2>3, HeadIs
  <2> QED
    BY <2>1, <2>2, <2>3, <2>4, LinkedFacts
<1>5. /\ sectors[t].used /\ sectors[t].slot = s /\ sectors[t].prev = h /\ sectors[t].next = End
      /\ DOMAIN sectors[t].msgs = 1 .. 1 /\ sectors[t].msgs[1] = sent
  <2>1. sectors[t] = NewSector(s, h, sent)
    BY <1>0, <1>1 DEF LinkInv
  <2> DEFINE d == NewSector(s, h, sent)
  <2>2. /\ d.used /\ d.slot = s /\ d.prev = h /\ d.next = End
        /\ DOMAIN d.msgs = 1 .. 1 /\ d.msgs[1] = sent
    BY <1>2, <1>3, <1>4, NewSectorFacts
  <2> QED
    BY <2>1, <2>2
<1>6. Pending = {t} /\ Pending' = {} /\ t \notin Linked /\ h # t
  BY <1>0, <1>1, <1>2, <1>4 DEF Pending, Linked
<1>7. /\ \A u \in Sectors : u # h => sectors'[u] = sectors[u]
      /\ sectors'[h].used = sectors[h].used /\ sectors'[h].slot = s /\ sectors'[h].prev = sectors[h].prev
      /\ sectors'[h].next = t /\ sectors'[h].msgs = sectors[h].msgs
  <2> DEFINE d(c) == [c EXCEPT !.next = t]
  <2>1. \A c \in SectorContents : /\ d(c).used = c.used /\ d(c).slot = c.slot /\ d(c).prev = c.prev
                                  /\ d(c).next = t /\ d(c).msgs = c.msgs
    BY DEF SectorContents
  <2>2. sectors' = [sectors EXCEPT ![h] = d(sectors[h])]
    BY <1>1
  <2>3. sectors[h] \in SectorContents
    BY <1>4, TypeFacts
  <2> HIDE DEF d
  <2>4. sectors'[h] = d(sectors[h]) /\ \A u \in Sectors : u # h => sectors'[u] = sectors[u]
    BY <1>4, <2>2 DEF TypeInv
  <2>5. LET c == sectors[h]
        IN  /\ d(c).used = c.used /\ d(c).slot = c.slot /\ d(c).prev = c.prev
            /\ d(c).next = t /\ d(c).msgs = c.msgs
    BY <2>1, <2>3
  <2> QED
    BY <1>4, <2>4, <2>5
<1>8. \A u \in Sectors : /\ sectors'[u].used = sectors[u].used /\ sectors'[u].slot = sectors[u].slot
                         /\ sectors'[u].prev = sectors[u].prev /\ sectors'[u].msgs = sectors[u].msgs
  <2>1. \A u \in Sectors : u = h \/ sectors'[u] = sectors[u]
    BY <1>7
  <2> QED
    BY <1>4, <1>7, <2>1
<1>9. Linked' = Linked \cup {t}
  BY <1>2, <1>5, <1>6, <1>8 DEF Linked
<1>10. ASSUME NEW u \in Linked
       PROVE  /\ u \in Sectors /\ u # t
              /\ sectors[u].prev # h
              /\ (sectors[u].prev # End => sectors[u].prev \in Linked /\ sectors[u].prev # t
                                           /\ sectors[u].prev \in Sectors)
              /\ (sectors[u].next # End => sectors[u].next \in Linked /\ sectors[u].next \in Sectors)
              /\ u # h => sectors'[u] = sectors[u] /\ (IsHead(u)' <=> IsHead(u))
  <2>1. u \in Sectors /\ u # t /\ sectors[u].prev # h
    BY <1>4, <1>6, LinkedFacts, HeadIs
  <2>2. /\ (sectors[u].prev # End => sectors[u].prev \in Linked /\ sectors[u].prev # t
                                           /\ sectors[u].prev \in Sectors)
        /\ (sectors[u].next # End => sectors[u].next \in Linked /\ sectors[u].next \in Sectors)
    BY <1>1, <1>6, LinkedFacts DEF ChainsInv, PrevInv, NextInv
  <2>3. u # h => sectors'[u] = sectors[u] /\ (IsHead(u)' <=> IsHead(u))
    BY <1>7, <1>8, <2>1, <2>2 DEF IsHead
  <2> QED
    BY <2>1, <2>2, <2>3
<1>11. ~IsHead(h)' /\ IsHead(t)' /\ sectors'[t] = sectors[t] /\ t # End
  BY <1>2, <1>5, <1>6, <1>7, <1>8, Sizes DEF IsHead
<1>12. ChainsInv'
  <2>1. ASSUME NEW u \in Linked PROVE contacts'[sectors'[u].slot].used /\ PrevInv(u)' /\ NextInv(u)'
    <3>1. contacts'[sectors'[u].slot].used
      BY <1>1, <1>8, <1>10 DEF ChainsInv
    <3>2. PrevInv(u)'
      <4>0. PICK v : v = sectors[u].prev
        OBVIOUS
      <4>1. CASE v = End
        BY <1>8, <1>10, <4>0, <4>1 DEF PrevInv
      <4>2. CASE v # End
        <5>1. v \in Linked /\ v # h /\ v \in Sectors /\ PrevInv(u) /\ sectors'[v] = sectors[v]
          BY <1>10, <4>0, <4>2 DEF ChainsInv
        <5>2. Older(v, u) => Older(v, u)'
          BY <1>8, <1>10, <5>1 DEF Older
        <5> QED
          BY <1>8, <1>9, <1>10, <4>0, <4>2, <5>1, <5>2 DEF PrevInv
      <4> QED
        BY <4>1, <4>2
    <3>3. NextInv(u)'
      <4>1. CASE u = h
        BY <1>5, <1>7, <1>9, <1>11, <4>1 DEF NextInv
      <4>2. CASE u # h
        <5>1. NextInv(u) /\ sectors'[u] = sectors[u]
          BY <1>10, <4>2 DEF ChainsInv
        <5> QED
          <6>1. PICK w : w = sectors[u].next
            OBVIOUS
          <6>2. w # End => w \in Linked /\ w \in Sectors /\ sectors[w].prev = u
            BY <1>1, <1>10, <5>1, <6>1 DEF NextInv
          <6> QED
            BY <1>8, <1>9, <5>1, <6>1, <6>2 DEF NextInv
      <4> QED
        BY <4>1, <4>2
    <3> QED
      BY <3>1, <3>2, <3>3
  <2>2. contacts'[sectors'[t].slot].used /\ PrevInv(t)' /\ NextInv(t)'
    <3>1. Older(h, t)'
      <4>1. \A i \in DOMAIN sectors[h].msgs : sectors[h].msgs[i] < sent
        <5>1. StoredInv(h)
          BY <1>4 DEF MessagesInv
        <5>2. \A i \in DOMAIN sectors[h].msgs :
                 sectors[h].msgs[i] <= sent /\ sectors[h].msgs[i] # sent /\ sectors[h].msgs[i] \in Nat
          BY <1>1, <1>4, <5>1, LinkedFacts, ContentsFacts DEF MessagesInv, StoredInv
        <5> QED
          BY <1>2, <5>2
      <4>2. \A j \in 1 .. 1 : j = 1
        OBVIOUS
      <4> QED
        BY <1>5, <1>7, <1>11, <4>1, <4>2 DEF Older
    <3> QED
      BY <1>1, <1>3, <1>4, <1>5, <1>7, <1>9, <1>11, <3>1 DEF PrevInv, NextInv
  <2>3. ASSUME NEW u \in Linked', NEW v \in Linked',
               sectors'[u].slot = sectors'[v].slot, IsHead(u)', IsHead(v)'
        PROVE  u = v
    <3>1. u # h /\ v # h
      BY <1>11, <2>3
    <3>2. \A w \in Linked : w # h /\ IsHead(w)' => sectors'[w].slot # s
      BY <1>4, <1>8, <1>10 DEF ChainsInv
    <3> QED
      BY <1>5, <1>8, <1>9, <1>10, <1>11, <2>3, <3>1, <3>2 DEF ChainsInv
  <2> QED
    BY <1>9, <2>1, <2>2, <2>3 DEF ChainsInv
<1>13. /\ EntriesInv'
       /\ entries'[p] # None /\ entries'[p].slot = s /\ entries'[p].latest = t
       /\ \A q \in Phones : q # p => entries'[q] = entries[q]
  BY <1>0, <1>1, <1>2, HeadChanged
<1>14. HeadsInv'
  <2>1. HeadOf(p)'
    BY <1>5, <1>9, <1>11, <1>13 DEF HeadOf, Chat
  <2>2. ASSUME NEW q \in Phones, q # p, entries[q] # None PROVE HeadOf(q)'
    <3>1. entries'[q] = entries[q] /\ HeadOf(q)
      BY <1>1, <1>13, <2>2 DEF HeadsInv
    <3>2. entries[q].slot # s
      BY <1>0, <1>1, <1>3, <2>2, PhoneOfEntry
    <3> QED
      <4>1. PICK z : z = entries[q].slot /\ z # s
        BY <3>2
      <4>2. Chat(z)' = Chat(z)
        BY <1>5, <1>8, <1>9, <1>10, <1>11, <4>1 DEF Chat
      <4>3. \A w \in Chat(z) : w # h /\ (IsHead(w)' <=> IsHead(w))
        BY <1>4, <1>10, <4>1 DEF Chat
      <4> QED
        BY <3>1, <4>1, <4>2, <4>3 DEF HeadOf
  <2> QED
    BY <1>2, <1>13, <2>1, <2>2 DEF HeadsInv
<1>15. ContactsInv'
  BY <1>1 DEF ContactsInv
<1>16. MessagesInv'
  BY <1>1, <1>2, <1>8 DEF MessagesInv, StoredInv
<1>17. KeptInv'
  <2>1. \A q, m : Holds(q, m) => Holds(q, m)'
    BY <1>1, <1>8, <1>9, <1>10 DEF Holds
  <2>2. Holds(p, sent)'
    BY <1>1, <1>2, <1>3, <1>5, <1>9, <1>11 DEF Holds
  <2> QED
    BY <1>1, <1>2, <2>1, <2>2, AcknowledgedKept
<1> QED
  BY <1>2, <1>12, <1>13, <1>14, <1>15, <1>16, <1>17 DEF LinkInv, RemoveInv

(* Among linked sectors, one has the newest messages.                      *)
LEMMA NewestOf ==
    ASSUME TypeInv, NEW S, S \subseteq Linked, S # {}
    PROVE  \E x \in S : \A y \in S : sectors[y].msgs[1] <= sectors[x].msgs[1]
<1> DEFINE age(x) == MaxMessages - sectors[x].msgs[1]
           ages == {age(x) : x \in S}
<1>1. ASSUME NEW x \in S PROVE sectors[x].msgs[1] \in Nat /\ sectors[x].msgs[1] <= MaxMessages
  <2>1. x \in Sectors /\ sectors[x].used /\ sectors[x] \in SectorContents
    BY LinkedFacts
  <2>2. Len(sectors[x].msgs) \in 1 .. Capacity /\ DOMAIN sectors[x].msgs = 1 .. Len(sectors[x].msgs)
    BY <2>1, ContentsFacts DEF TypeInv
  <2>3. 1 \in DOMAIN sectors[x].msgs
    BY <2>2
  <2>4. sectors[x].msgs[1] \in Messages
    BY <2>1, <2>3, ContentsFacts
  <2> QED
    BY <2>4, Sizes DEF Messages
<1>2. ages \subseteq Nat /\ ages # {}
  BY <1>1, Sizes
<1>3. PICK a \in ages : \A b \in ages : a <= b
  <2> HIDE DEF ages
  <2> QED BY <1>2, LeastNatural
<1>4. PICK x \in S : a = age(x)
  BY <1>3
<1>5. ASSUME NEW y \in S PROVE sectors[y].msgs[1] <= sectors[x].msgs[1]
  <2>1. age(x) <= age(y)
    BY <1>3, <1>4
  <2> QED
    BY <1>1, <2>1, Sizes
<1> QED
  BY <1>5

(* A sector that is not a head is followed, in its chat, by one with newer *)
(* messages.                                                               *)
LEMMA Followed ==
    ASSUME TypeInv, ChainsInv, NEW t \in Linked, ~IsHead(t)
    PROVE  LET u == sectors[t].next
           IN  /\ u \in Linked /\ sectors[u].prev = t /\ sectors[u].slot = sectors[t].slot
               /\ sectors[t].msgs[1] < sectors[u].msgs[1]
               /\ sectors[t].msgs[1] \in Nat /\ sectors[u].msgs[1] \in Nat
<1>1. PICK u : u = sectors[t].next
  OBVIOUS
<1>2. u # End /\ sectors[u].used
  BY <1>1 DEF IsHead
<1>3. u \in Linked /\ sectors[u].prev = t
  BY <1>1, <1>2 DEF ChainsInv, NextInv
<1>4. sectors[u].slot = sectors[t].slot /\ Older(t, u)
  BY <1>3, LinkedFacts DEF ChainsInv, PrevInv
<1>5. ASSUME NEW x \in Linked PROVE 1 \in DOMAIN sectors[x].msgs /\ sectors[x].msgs[1] \in Nat
  <2>1. x \in Sectors /\ sectors[x].used /\ sectors[x] \in SectorContents
    BY LinkedFacts
  <2>2. Len(sectors[x].msgs) \in 1 .. Capacity /\ DOMAIN sectors[x].msgs = 1 .. Len(sectors[x].msgs)
    BY <2>1, ContentsFacts DEF TypeInv
  <2>3. 1 \in DOMAIN sectors[x].msgs
    BY <2>2
  <2> QED
    BY <2>1, <2>3, ContentsFacts
<1> QED
  BY <1>1, <1>3, <1>4, <1>5 DEF Older

(* A chat has a head, and nothing but its head if that names no other.     *)
LEMMA ChatHasHead ==
    ASSUME TypeInv, ChainsInv, NEW s, Chat(s) # {}
    PROVE  \E t \in Chat(s) : IsHead(t)
<1>1. PICK t \in Chat(s) : \A u \in Chat(s) : sectors[u].msgs[1] <= sectors[t].msgs[1]
  <2>1. Chat(s) \subseteq Linked
    BY DEF Chat
  <2> QED
    BY <2>1, NewestOf
<1>2. ASSUME ~IsHead(t) PROVE FALSE
  <2>1. PICK u : u = sectors[t].next
    OBVIOUS
  <2>2. u \in Chat(s) /\ sectors[t].msgs[1] < sectors[u].msgs[1]
        /\ sectors[t].msgs[1] \in Nat /\ sectors[u].msgs[1] \in Nat
    BY <1>2, <2>1, Followed DEF Chat
  <2> QED
    BY <1>1, <2>2
<1> QED
  BY <1>2

LEMMA LoneHead ==
    ASSUME TypeInv, ChainsInv, NEW s, NEW t \in Chat(s), IsHead(t), sectors[t].prev = End
    PROVE  Chat(s) = {t}
<1> DEFINE S == Chat(s) \ {t}
<1> SUFFICES ASSUME S # {} PROVE FALSE
  OBVIOUS
<1>1. PICK x \in S : \A y \in S : sectors[y].msgs[1] <= sectors[x].msgs[1]
  <2>1. S \subseteq Linked
    BY DEF Chat
  <2> HIDE DEF S
  <2> QED
    BY <2>1, NewestOf
<1>2. ~IsHead(x) /\ x \in Linked
  BY DEF ChainsInv, Chat
<1>3. PICK y : y = sectors[x].next
  OBVIOUS
<1>4. /\ y \in Chat(s) /\ sectors[y].prev = x /\ sectors[x].msgs[1] < sectors[y].msgs[1]
      /\ sectors[x].msgs[1] \in Nat /\ sectors[y].msgs[1] \in Nat
  BY <1>2, <1>3, Followed DEF Chat
<1>5. y # t
  BY <1>2, <1>4, LinkedFacts
<1> QED
  BY <1>1, <1>4, <1>5

(* Steps that change neither the card nor the entries, into an operation   *)
(* that is not a removal that has begun to free sectors.                   *)
LEMMA BeginRemoveWhole ==
    ASSUME BasicInv, BasicInv', WholeInv, NEW p \in Phones, NEW whole \in BOOLEAN,
           BeginRemove(p, whole)
    PROVE  WholeInv'
<1> USE DEF BasicInv, WholeInv
<1>1. /\ op = Idle /\ entries[p] # None /\ op' = Removing(p, entries[p].latest, whole)
      /\ removing' = IF kept[p] = <<>> THEN removing ELSE removing \cup {p}
      /\ UNCHANGED <<contacts, sectors, entries, freeSlots, freeSectors, sent, owner, kept, gone, split>>
  BY DEF BeginRemove
<1>2. /\ op.kind = "idle" /\ op'.kind = "remove" /\ op'.phone = p /\ op'.at = entries[p].latest
  <2>1. entries[p].latest \in Sectors \cup {End}
    BY <1>1, TypeFacts
  <2> QED
    BY <1>1, <2>1, OpKinds
<1>3. Pending' = Pending
  BY <1>2 DEF Pending
<1>4. /\ Linked' = Linked /\ \A s : Chat(s)' = Chat(s)
      /\ \A t : (IsHead(t)' <=> IsHead(t)) /\ (PrevInv(t)' <=> PrevInv(t))
  BY <1>1, <1>3, SameSectors
<1>5. ContactsInv' /\ EntriesInv'
  BY <1>1, <1>2 DEF ContactsInv, EntriesInv
<1>6. ChainsInv'
  <2>1. \A t \in Linked : NextInv(t)'
    BY <1>1, <1>2, <1>4 DEF ChainsInv, NextInv
  <2> QED
    BY <1>1, <1>4, <2>1 DEF ChainsInv
<1>7. HeadsInv'
  <2>1. \A q \in Phones : entries[q] # None => HeadOf(q)'
    BY <1>1, <1>2, <1>4 DEF HeadsInv, HeadOf
  <2> QED
    BY <1>1, <1>2, <2>1 DEF HeadsInv
<1>8. RemoveInv'
  <2>1. HeadOf(p)
    BY <1>1, <1>2 DEF HeadsInv
  <2> QED
    BY <1>1, <1>2, <1>4, <2>1 DEF RemoveInv, HeadOf
<1>9. MessagesInv'
  BY <1>1, <1>2, <1>4 DEF MessagesInv, StoredInv
<1>10. KeptInv'
  <2>1. \A q, m : Holds(q, m) => Holds(q, m)'
    BY <1>1, <1>4 DEF Holds
  <2> QED
    BY <1>1, <1>2, <2>1 DEF KeptInv
<1> QED
  BY <1>2, <1>5, <1>6, <1>7, <1>8, <1>9, <1>10 DEF LinkInv

LEMMA AddMessageFailsWhole ==
    ASSUME BasicInv, BasicInv', WholeInv, NEW p \in Phones, AddMessageFails(p) PROVE WholeInv'
<1> USE DEF BasicInv, WholeInv
<1>1. /\ op = Appending(p) /\ op' = Idle
      /\ UNCHANGED <<contacts, sectors, entries, freeSlots, sent, owner, kept, removing, gone, split>>
  BY DEF AddMessageFails, ghosts
<1>2. op.kind = "append" /\ op'.kind = "idle"
  BY <1>1, OpKinds
<1>3. Pending' = Pending
  BY <1>2 DEF Pending
<1>4. /\ Linked' = Linked /\ \A s : Chat(s)' = Chat(s)
      /\ \A t : (IsHead(t)' <=> IsHead(t)) /\ (PrevInv(t)' <=> PrevInv(t))
  BY <1>1, <1>3, SameSectors
<1>5. ContactsInv' /\ EntriesInv'
  BY <1>1, <1>2 DEF ContactsInv, EntriesInv
<1>6. ChainsInv'
  <2>1. \A t \in Linked : NextInv(t)'
    BY <1>1, <1>2, <1>4 DEF ChainsInv, NextInv
  <2> QED
    BY <1>1, <1>4, <2>1 DEF ChainsInv
<1>7. HeadsInv'
  <2>1. \A q \in Phones : entries[q] # None => HeadOf(q)'
    BY <1>1, <1>2, <1>4 DEF HeadsInv, HeadOf
  <2> QED
    BY <1>1, <1>2, <2>1 DEF HeadsInv
<1>8. MessagesInv'
  BY <1>1, <1>2, <1>4 DEF MessagesInv, StoredInv
<1>9. KeptInv'
  <2>1. \A q, m : Holds(q, m) => Holds(q, m)'
    BY <1>1, <1>4 DEF Holds
  <2> QED
    BY <1>1, <1>2, <2>1 DEF KeptInv
<1> QED
  BY <1>2, <1>5, <1>6, <1>7, <1>8, <1>9 DEF LinkInv, RemoveInv

(* A mount that ends has found every chat's head: a chat has one, and no   *)
(* sector is left to look at.                                              *)
LEMMA MountedWhole ==
    ASSUME BasicInv, BasicInv', WholeInv, Mounted PROVE WholeInv'
<1> USE DEF BasicInv, WholeInv
<1>1. /\ op = Scanning(NumSectors) /\ op' = Idle
      /\ UNCHANGED <<contacts, sectors, entries, freeSlots, sent, owner, kept, removing, gone, split>>
  BY DEF Mounted, ghosts
<1>2. op.kind = "scan" /\ op'.kind = "idle" /\ op.at = NumSectors
  <2>1. NumSectors \in 0 .. NumSectors
    BY Sizes
  <2> QED
    BY <1>1, <2>1, OpKinds
<1>3. Pending' = Pending
  BY <1>2 DEF Pending
<1>4. /\ Linked' = Linked /\ \A s : Chat(s)' = Chat(s)
      /\ \A t : (IsHead(t)' <=> IsHead(t)) /\ (PrevInv(t)' <=> PrevInv(t))
  BY <1>1, <1>3, SameSectors
<1>5. ContactsInv' /\ EntriesInv'
  BY <1>1, <1>2 DEF ContactsInv, EntriesInv
<1>6. ChainsInv'
  <2>1. \A t \in Linked : NextInv(t)'
    BY <1>1, <1>2, <1>4 DEF ChainsInv, NextInv
  <2> QED
    BY <1>1, <1>4, <2>1 DEF ChainsInv
<1>7. HeadsInv'
  <2>1. \A t \in Linked : ~(t >= NumSectors)
    BY LinkedFacts, Sizes DEF Sectors
  <2>2. ASSUME NEW q \in Phones, entries[q] # None PROVE HeadOf(q)
    <3>1. CASE entries[q].latest = End
      <4>1. \A t \in Chat(entries[q].slot) : ~IsHead(t)
        BY <1>2, <2>1, <2>2, <3>1 DEF HeadsInv, Chat
      <4> QED
        BY <3>1, <4>1, ChatHasHead DEF HeadOf
    <3>2. CASE entries[q].latest # End
      BY <1>2, <2>2, <3>2 DEF HeadsInv
    <3> QED
      BY <3>1, <3>2
  <2>3. \A q \in Phones : entries[q] # None => HeadOf(q)'
    BY <1>1, <1>4, <2>2 DEF HeadOf
  <2> QED
    BY <1>1, <1>2, <2>3 DEF HeadsInv
<1>8. MessagesInv'
  BY <1>1, <1>2, <1>4 DEF MessagesInv, StoredInv
<1>9. KeptInv'
  <2>1. \A q, m : Holds(q, m) => Holds(q, m)'
    BY <1>1, <1>4 DEF Holds
  <2> QED
    BY <1>1, <1>2, <2>1 DEF KeptInv
<1> QED
  BY <1>2, <1>5, <1>6, <1>7, <1>8, <1>9 DEF LinkInv, RemoveInv

(* A removal frees the head of the chat: the sector before it is the head  *)
(* then, and the chat is gone when there is none.                          *)
LEMMA RemoveSectorWhole ==
    ASSUME BasicInv, BasicInv', WholeInv, RemoveSector PROVE WholeInv'
<1> USE DEF BasicInv, WholeInv
<1>0. PICK p, t, v, s : /\ p = op.phone /\ t = op.at /\ v = sectors[t].prev
                        /\ s = entries[p].slot
  OBVIOUS
<1>1. /\ op.kind = "remove" /\ t # End /\ sectors[t].used
      /\ sectors' = [sectors EXCEPT ![t] = Unused]
      /\ op' = [op EXCEPT !.at = v]
      /\ UNCHANGED <<contacts, entries, freeSlots, sent, owner, kept, removing, gone, split>>
  BY <1>0 DEF RemoveSector, ghosts
<1>2. /\ p \in Phones /\ entries[p] # None
      /\ op'.kind = "remove" /\ op'.phone = p /\ op'.at = v
  <2>1. p \in Phones /\ op = Removing(p, t, op.whole)
    BY <1>0, <1>1, OpShape DEF TypeInv
  <2> QED
    BY <1>0, <1>1, <2>1 DEF OpInv, Removing
<1>3. contacts[s].used /\ contacts[s].phone = p
  BY <1>0, <1>1, <1>2, PhoneOfEntry
<1>4. t \in Chat(s) /\ IsHead(t) /\ t \in Linked /\ t \in Sectors /\ sectors[t].slot = s
  <2>1. t \in Chat(s) /\ IsHead(t)
    BY <1>0, <1>1 DEF RemoveInv
  <2> QED
    BY <2>1, LinkedFacts DEF Chat
<1>5. /\ sectors'[t] = Unused /\ ~sectors'[t].used
      /\ \A u \in Sectors : u # t => sectors'[u] = sectors[u]
  BY <1>1, <1>4, UnusedFacts DEF TypeInv
<1>6. Pending = {} /\ Pending' = {} /\ Linked' = Linked \ {t}
  <2>1. Pending = {} /\ Pending' = {}
    BY <1>1, <1>2 DEF Pending
  <2> QED
    BY <1>4, <1>5, <2>1 DEF Linked
<1>7. ASSUME NEW u \in Linked, u # t
      PROVE  /\ u \in Sectors /\ sectors'[u] = sectors[u]
             /\ sectors[u].prev # t
             /\ (sectors[u].prev # End => sectors[u].prev \in Linked)
             /\ (sectors[u].next # End =>
                   sectors[u].next \in Linked /\ sectors[sectors[u].next].prev = u)
  BY <1>0, <1>1, <1>4, <1>5, <1>7, LinkedFacts, HeadIs DEF ChainsInv, PrevInv, NextInv
<1>8. v # End => /\ v \in Linked /\ v # t /\ v \in Sectors /\ sectors[v].slot = s
                 /\ sectors[v].next = t
  BY <1>0, <1>4, LinkedFacts, HeadIs DEF ChainsInv, PrevInv
<1>9. ASSUME NEW u \in Linked, u # t
      PROVE  /\ IsHead(u) => IsHead(u)'
             /\ IsHead(u)' => IsHead(u) \/ u = v
             /\ sectors[u].next = t => u = v
  <2>1. PICK w : w = sectors[u].next
    OBVIOUS
  <2>2. w # End => w \in Sectors /\ sectors[w].used /\ sectors[w].prev = u
    BY <1>7, <1>9, <2>1, LinkedFacts
  <2>3. w # End /\ w # t => sectors'[w] = sectors[w]
    BY <1>5, <2>2
  <2> QED
    BY <1>0, <1>4, <1>5, <1>7, <1>9, <2>1, <2>2, <2>3, LinkedFacts DEF IsHead
<1>10. v # End => IsHead(v)'
  BY <1>5, <1>7, <1>8 DEF IsHead
<1>11. v = entries[p].latest => v = End
  <2>1. t # entries[p].latest => ~sectors[entries[p].latest].used
    BY <1>0, <1>1 DEF RemoveInv
  <2> QED
    BY <1>8, <2>1, LinkedFacts
<1>12. ChainsInv'
  <2>1. ASSUME NEW u \in Linked, u # t
        PROVE  contacts'[sectors'[u].slot].used /\ PrevInv(u)' /\ NextInv(u)'
    <3>1. contacts'[sectors'[u].slot].used
      BY <1>1, <1>7, <2>1 DEF ChainsInv
    <3>2. PrevInv(u)'
      <4>1. PICK w : w = sectors[u].prev
        OBVIOUS
      <4>2. PrevInv(u) /\ (w # End => w \in Linked /\ w # t /\ sectors'[w] = sectors[w])
        BY <1>7, <2>1, <4>1 DEF ChainsInv
      <4>3. \A x \in Linked : x # t /\ Older(x, u) => Older(x, u)'
        BY <1>7, <2>1 DEF Older
      <4> QED
        BY <1>6, <1>7, <2>1, <4>1, <4>2, <4>3 DEF PrevInv
    <3>3. NextInv(u)'
      <4>1. PICK w : w = sectors[u].next
        OBVIOUS
      <4>2. w # End => w \in Linked /\ sectors[w].prev = u
        BY <1>7, <2>1, <4>1
      <4>3. w = t => u = v /\ u # End
        BY <1>9, <2>1, <4>1, LinkedFacts
      <4>4. w # t /\ w # End => sectors'[w] = sectors[w]
        BY <1>7, <4>2
      <4> QED
        BY <1>0, <1>1, <1>2, <1>5, <1>6, <1>7, <1>11, <2>1, <4>1, <4>2, <4>3, <4>4 DEF NextInv
    <3> QED
      BY <3>1, <3>2, <3>3
  <2>2. ASSUME NEW u \in Linked, u # t, NEW w \in Linked, w # t,
               sectors'[u].slot = sectors'[w].slot, IsHead(u)', IsHead(w)'
        PROVE  u = w
    <3>1. sectors[u].slot = sectors[w].slot /\ (IsHead(u) \/ u = v) /\ (IsHead(w) \/ w = v)
      BY <1>7, <1>9, <2>2
    <3>2. \A x \in Linked : x # t /\ sectors[x].slot = s => ~IsHead(x)
      BY <1>4 DEF ChainsInv
    <3> QED
      BY <1>8, <2>2, <3>1, <3>2, LinkedFacts DEF ChainsInv
  <2> QED
    BY <1>6, <2>1, <2>2 DEF ChainsInv
<1>13. HeadsInv'
  <2>1. ASSUME NEW q \in Phones, q # p, entries[q] # None PROVE HeadOf(q)'
    <3>1. HeadOf(q) /\ entries'[q] = entries[q]
      BY <1>0, <1>1, <2>1 DEF HeadsInv
    <3>2. PICK z : z = entries[q].slot /\ z # s
      BY <1>0, <1>1, <1>3, <2>1, PhoneOfEntry
    <3>3. Chat(z)' = Chat(z)
      BY <1>4, <1>6, <1>7, <3>2 DEF Chat
    <3>4. \A w \in Chat(z) : IsHead(w) => IsHead(w)'
      BY <1>4, <1>9, <3>2 DEF Chat
    <3> QED
      BY <3>1, <3>2, <3>3, <3>4 DEF HeadOf
  <2> QED
    BY <1>1, <1>2, <2>1 DEF HeadsInv
<1>14. RemoveInv'
  <2>1. v = End => Chat(s)' = {}
    <3>1. ASSUME v = End PROVE Chat(s) = {t}
      BY <1>0, <1>4, <3>1, LoneHead
    <3> QED
      BY <1>6, <1>7, <3>1 DEF Chat
  <2>2. v # End => v \in Chat(s)'
    BY <1>6, <1>7, <1>8 DEF Chat
  <2>3. PICK h : h = entries[p].latest
    OBVIOUS
  <2>4. h # End /\ ~sectors'[h].used
    <3>1. CASE h = t
      BY <1>1, <1>5, <3>1
    <3>2. CASE h # t
      <4>1. h # End /\ ~sectors[h].used
        BY <1>0, <1>1, <2>3, <3>2 DEF RemoveInv
      <4>2. h \in Sectors
        BY <1>2, <2>3, <4>1, TypeFacts
      <4> QED
        BY <1>5, <3>2, <4>1, <4>2
    <3> QED
      BY <3>1, <3>2
  <2>5. p \in removing' \/ kept'[p] = <<>>
    BY <1>0, <1>1 DEF RemoveInv
  <2> QED
    BY <1>0, <1>1, <1>2, <1>10, <2>1, <2>2, <2>3, <2>4, <2>5 DEF RemoveInv
<1>15. ContactsInv' /\ EntriesInv'
  BY <1>1, <1>2 DEF ContactsInv, EntriesInv
<1>16. MessagesInv'
  <2>1. ASSUME NEW u \in Linked, u # t PROVE StoredInv(u)'
    BY <1>1, <1>7, <2>1, LinkedFacts DEF MessagesInv, StoredInv
  <2>2. \A u \in Sectors : sectors'[u].used => u \in Linked /\ u # t
    BY <1>6 DEF Linked
  <2> QED
    BY <1>2, <2>1, <2>2 DEF MessagesInv
<1>17. KeptInv'
  <2>1. \A q, m : q # p /\ Holds(q, m) => Holds(q, m)'
    BY <1>1, <1>3, <1>4, <1>6, <1>7 DEF Holds
  <2>2. p \in removing' \/ kept'[p] = <<>>
    BY <1>0, <1>1 DEF RemoveInv
  <2> QED
    BY <1>1, <1>2, <2>1, <2>2 DEF KeptInv
<1> QED
  BY <1>2, <1>12, <1>13, <1>14, <1>15, <1>16, <1>17 DEF LinkInv

(* A removal that ends, of a chat that has no sector left.                 *)
LEMMA RemovedForFacts ==
    ASSUME TypeInv, NEW p \in Phones, RemovedFor(p)
    PROVE  /\ op' = Idle /\ op'.kind = "idle" /\ UNCHANGED <<sent, owner, split>>
           /\ gone' = gone \cup {m \in 1 .. sent : owner[m] = p}
           /\ kept'[p] = <<>> /\ \A q \in Phones : q # p => kept'[q] = kept[q]
           /\ removing' = removing \ {p}
BY OpKinds DEF RemovedFor, TypeInv

LEMMA RemovedWhole ==
    ASSUME BasicInv, WholeInv, NEW p \in Phones, op.kind = "remove", op.phone = p, op.at = End,
           RemovedFor(p), UNCHANGED sectors,
           \A t \in Linked : contacts'[sectors[t].slot] = contacts[sectors[t].slot],
           \A q \in Phones : q # p => entries'[q] = entries[q]
    PROVE  /\ op'.kind = "idle" /\ Linked' = Linked /\ \A s : Chat(s)' = Chat(s)
           /\ ChainsInv' /\ MessagesInv' /\ KeptInv'
           /\ \A q \in Phones : q # p /\ entries[q] # None => HeadOf(q)'
<1> USE DEF BasicInv, WholeInv
<1>0. PICK s : s = entries[p].slot
  OBVIOUS
<1>1. /\ op'.kind = "idle" /\ UNCHANGED <<sent, owner>>
      /\ gone' = gone \cup {m \in 1 .. sent : owner[m] = p}
      /\ kept'[p] = <<>> /\ \A q \in Phones : q # p => kept'[q] = kept[q]
      /\ removing' = removing \ {p}
  BY RemovedForFacts
<1>2. Pending' = Pending
  BY <1>1 DEF Pending
<1>3. /\ Linked' = Linked /\ \A z : Chat(z)' = Chat(z)
      /\ \A t : (IsHead(t)' <=> IsHead(t)) /\ (PrevInv(t)' <=> PrevInv(t))
  BY <1>2, SameSectors
<1>4. entries[p] # None /\ Chat(s) = {}
  BY <1>0 DEF OpInv, RemoveInv
<1>5. /\ s \in Slots /\ contacts[s].used /\ contacts[s].phone = p
      /\ \A z \in Slots : contacts[z].used /\ contacts[z].phone = p => z = s
  BY <1>0, <1>4, PhoneOfEntry
<1>6. \A t \in Linked : contacts[sectors[t].slot].used /\ contacts[sectors[t].slot].phone # p
                        /\ t # End
  BY <1>4, <1>5, LinkedFacts DEF ChainsInv, Chat
<1>7. ChainsInv'
  <2>1. \A t \in Linked : NextInv(t)'
    BY <1>3, <1>6 DEF ChainsInv, NextInv
  <2> QED
    BY <1>3, <1>6, <2>1 DEF ChainsInv
<1>8. MessagesInv'
  <2>1. ASSUME NEW t \in Linked PROVE StoredInv(t)'
    <3>1. StoredInv(t)
      BY LinkedFacts DEF MessagesInv
    <3> QED
      BY <1>1, <1>6, <3>1 DEF StoredInv
  <2> QED
    BY <1>1, <1>2, <1>3, <2>1 DEF MessagesInv, Linked, Pending
<1>9. KeptInv'
  <2>1. \A q, m : Holds(q, m) => Holds(q, m)'
    BY <1>3 DEF Holds
  <2>2. DOMAIN kept'[p] = {}
    BY <1>1
  <2>3. ASSUME NEW q \in Phones, q # p, q \notin removing', NEW i \in DOMAIN kept[q]
        PROVE  Holds(q, kept[q][i])'
    <3>1. PICK m : m = kept[q][i]
      OBVIOUS
    <3>2. Holds(q, m)' /\ kept'[q][i] = m
      BY <1>1, <2>1, <2>3, <3>1 DEF KeptInv
    <3> QED
      BY <3>2 DEF Holds
  <2>4. \A q \in Phones : \A i \in DOMAIN kept'[q] :
           /\ kept'[q][i] <= sent'
           /\ \A j \in DOMAIN kept'[q] : i < j => kept'[q][j] < kept'[q][i]
    BY <1>1, <2>2 DEF KeptInv
  <2>5. \A q \in Phones : q \notin removing' => \A i \in DOMAIN kept'[q] : Holds(q, kept[q][i])'
    BY <1>1, <2>2, <2>3
  <2> QED
    BY <1>1, <2>4, <2>5 DEF KeptInv
<1>10. ASSUME NEW q \in Phones, q # p, entries[q] # None PROVE HeadOf(q)'
  <2>1. HeadOf(q) /\ entries'[q] = entries[q]
    BY <1>10 DEF HeadsInv
  <2> QED
    BY <1>3, <2>1 DEF HeadOf
<1> QED
  BY <1>1, <1>3, <1>7, <1>8, <1>9, <1>10

LEMMA RemoveChatEndsWhole ==
    ASSUME BasicInv, BasicInv', WholeInv, RemoveChatEnds PROVE WholeInv'
<1> USE DEF BasicInv, WholeInv
<1>0. PICK p, s : p = op.phone /\ s = entries[p].slot
  OBVIOUS
<1>1. /\ op.kind = "remove" /\ op.at = End
      /\ entries' = [entries EXCEPT ![p].latest = End]
      /\ RemovedFor(p)
      /\ UNCHANGED <<contacts, sectors, freeSlots>>
  BY <1>0 DEF RemoveChatEnds
<1>2. p \in Phones /\ entries[p] # None /\ Chat(s) = {}
  BY <1>0, <1>1, OpShape DEF TypeInv, OpInv, RemoveInv
<1>3. /\ EntriesInv'
      /\ entries'[p] # None /\ entries'[p].slot = s /\ entries'[p].latest = End
      /\ \A q \in Phones : q # p => entries'[q] = entries[q]
  <2>1. PICK t \in Sectors \cup {End} : t = End
    OBVIOUS
  <2>2. entries' = [entries EXCEPT ![p].latest = t] /\ op.kind # "off"
    BY <1>1, <2>1
  <2>3. UNCHANGED <<contacts, freeSlots>> /\ entries[p] # None /\ p \in Phones
    BY <1>1, <1>2
  <2>4. /\ EntriesInv'
        /\ entries'[p] # None /\ entries'[p].slot = entries[p].slot /\ entries'[p].latest = t
        /\ \A q \in Phones : q # p => entries'[q] = entries[q]
    BY <2>2, <2>3, HeadChanged
  <2> QED
    BY <1>0, <2>1, <2>4
<1>4. /\ op'.kind = "idle" /\ Linked' = Linked /\ \A z : Chat(z)' = Chat(z)
      /\ ChainsInv' /\ MessagesInv' /\ KeptInv'
      /\ \A q \in Phones : q # p /\ entries[q] # None => HeadOf(q)'
  BY <1>0, <1>1, <1>2, <1>3, RemovedWhole
<1>5. HeadsInv'
  <2>1. HeadOf(p)'
    BY <1>2, <1>3, <1>4 DEF HeadOf
  <2> QED
    BY <1>3, <1>4, <2>1 DEF HeadsInv
<1>6. ContactsInv'
  BY <1>1 DEF ContactsInv
<1> QED
  BY <1>3, <1>4, <1>5, <1>6 DEF LinkInv, RemoveInv

LEMMA RemoveContactEndsWhole ==
    ASSUME BasicInv, BasicInv', WholeInv, RemoveContactEnds PROVE WholeInv'
<1> USE DEF BasicInv, WholeInv
<1>0. PICK p, s, e : p = op.phone /\ s = entries[p].slot /\ e = Erased
  OBVIOUS
<1>1. op.kind = "remove" /\ op.at = End
  <2>1. op.kind = "remove" /\ (op.at # End => ~sectors[op.at].used)
    BY DEF RemoveContactEnds
  <2> QED
    BY <2>1, LinkedFacts DEF RemoveInv, Chat
<1>2. /\ contacts' = [contacts EXCEPT ![s] = e]
      /\ freeSlots' = Append(freeSlots, s)
      /\ entries' = [entries EXCEPT ![p] = None]
      /\ RemovedFor(p)
      /\ UNCHANGED sectors
  BY <1>0, <1>1 DEF RemoveContactEnds
<1>3. p \in Phones /\ entries[p] # None /\ Chat(s) = {}
  BY <1>0, <1>1, OpShape DEF TypeInv, OpInv, RemoveInv
<1>4. /\ s \in Slots /\ contacts[s].used /\ contacts[s].phone = p
      /\ \A z \in Slots : contacts[z].used /\ contacts[z].phone = p => z = s
  BY <1>0, <1>1, <1>3, PhoneOfEntry
<1>5. ~e.used
  BY <1>0 DEF Erased
<1>6. contacts'[s] = e /\ \A z \in Slots : z # s => contacts'[z] = contacts[z]
  BY <1>2, <1>4 DEF TypeInv
<1>7. entries'[p] = None /\ \A q \in Phones : q # p => entries'[q] = entries[q]
  BY <1>2, <1>3 DEF TypeInv
<1>8. \A t \in Linked : contacts'[sectors[t].slot] = contacts[sectors[t].slot]
  BY <1>3, <1>6, LinkedFacts DEF Chat
<1>9. /\ op'.kind = "idle" /\ Linked' = Linked /\ \A z : Chat(z)' = Chat(z)
      /\ ChainsInv' /\ MessagesInv' /\ KeptInv'
      /\ \A q \in Phones : q # p /\ entries[q] # None => HeadOf(q)'
  BY <1>0, <1>1, <1>2, <1>3, <1>7, <1>8, RemovedWhole
<1>10. ContactsInv'
  BY <1>5, <1>6 DEF ContactsInv
<1>11. EntriesInv'
  <2>1. ASSUME NEW q \in Phones, entries'[q] # None PROVE contacts'[entries'[q].slot] = Stored(q)
    <3>1. q # p /\ entries'[q] = entries[q]
      BY <1>7, <2>1
    <3>2. entries[q].slot \in Slots /\ contacts[entries[q].slot].phone = q
      BY <1>1, <2>1, <3>1, PhoneOfEntry
    <3> QED
      BY <1>1, <1>4, <1>6, <2>1, <3>1, <3>2 DEF EntriesInv
  <2>2. ASSUME NEW z \in Slots, contacts'[z].used
        PROVE  entries'[contacts'[z].phone] # None /\ entries'[contacts'[z].phone].slot = z
    <3>1. z # s /\ contacts'[z] = contacts[z] /\ contacts[z].used
      BY <1>5, <1>6, <2>2
    <3>2. contacts[z].phone \in Phones /\ contacts[z].phone # p
      BY <1>4, <3>1 DEF ContactsInv
    <3> QED
      BY <1>1, <1>7, <3>1, <3>2 DEF EntriesInv
  <2>3. /\ IsInjective(freeSlots) /\ freeSlots \in Seq(Slots)
        /\ ToSet(freeSlots) = {z \in Slots : ~contacts[z].used}
    BY <1>1 DEF TypeInv, EntriesInv
  <2>4. IsInjective(freeSlots') /\ ToSet(freeSlots') = ToSet(freeSlots) \cup {s}
    BY <1>2, <1>4, <2>3, PutOn
  <2>5. ToSet(freeSlots') = {z \in Slots : ~contacts'[z].used}
    BY <1>4, <1>5, <1>6, <2>3, <2>4
  <2> QED
    BY <2>1, <2>2, <2>4, <2>5 DEF EntriesInv
<1>12. HeadsInv'
  BY <1>7, <1>9 DEF HeadsInv
<1> QED
  BY <1>9, <1>10, <1>11, <1>12 DEF LinkInv, RemoveInv

(* A cut that splits nothing leaves no sector half linked or half freed.   *)
LEMMA PowerCutWhole ==
    ASSUME BasicInv, BasicInv', WholeInv, split' = {}, PowerCut PROVE WholeInv'
<1> USE DEF BasicInv, WholeInv
<1>1. /\ op' = Off /\ entries' = [p \in Phones |-> None]
      /\ UNCHANGED <<contacts, sectors, sent, owner, kept, removing, gone>>
  BY DEF PowerCut
<1>2. op'.kind = "off" /\ op.kind # "link" /\ ~PartlyRemoved
  <2>1. op.kind = "link" => split' = split \cup {"add"}
    BY DEF PowerCut
  <2>2. op.kind # "link" /\ PartlyRemoved => split' = split \cup {"remove"}
    BY DEF PowerCut
  <2> QED
    BY <1>1, <2>1, <2>2, OpKinds
<1>3. Pending' = Pending
  BY <1>2 DEF Pending
<1>4. /\ Linked' = Linked /\ \A s : Chat(s)' = Chat(s)
      /\ \A t : (IsHead(t)' <=> IsHead(t)) /\ (PrevInv(t)' <=> PrevInv(t))
  BY <1>1, <1>3, SameSectors
<1>5. ContactsInv' /\ EntriesInv'
  BY <1>1, <1>2 DEF ContactsInv, EntriesInv
<1>6. ChainsInv'
  <2>1. \A t \in Linked : NextInv(t)'
    BY <1>1, <1>2, <1>4, LinkedFacts DEF ChainsInv, NextInv, PartlyRemoved
  <2> QED
    BY <1>1, <1>4, <2>1 DEF ChainsInv
<1>7. HeadsInv'
  BY <1>2 DEF HeadsInv
<1>8. MessagesInv'
  BY <1>1, <1>2, <1>4 DEF MessagesInv, StoredInv
<1>9. KeptInv'
  <2>1. \A q, m : Holds(q, m) => Holds(q, m)'
    BY <1>1, <1>4 DEF Holds
  <2> QED
    BY <1>1, <1>2, <2>1 DEF KeptInv
<1> QED
  BY <1>2, <1>5, <1>6, <1>7, <1>8, <1>9 DEF LinkInv, RemoveInv

LEMMA ReconstructWhole ==
    ASSUME BasicInv, BasicInv', WholeInv, ReconstructContacts PROVE WholeInv'
<1> USE DEF BasicInv, WholeInv
<1>1. /\ op = Off /\ op' = Scanning(0) /\ freeSlots' = UnusedSlots
      /\ entries' = [p \in Phones |->
                        IF SlotsOf(p) = {} THEN None ELSE [slot |-> Max(SlotsOf(p)), latest |-> End]]
      /\ UNCHANGED <<contacts, sectors, sent, owner, kept, removing, gone, split>>
  BY DEF ReconstructContacts, ghosts
<1>2. op.kind = "off" /\ op'.kind = "scan" /\ op'.at = 0
  <2>1. 0 \in 0 .. NumSectors
    BY Sizes
  <2> QED
    BY <1>1, <2>1, OpKinds
<1>3. Pending' = Pending
  BY <1>2 DEF Pending
<1>4. /\ Linked' = Linked /\ \A s : Chat(s)' = Chat(s)
      /\ \A t : (IsHead(t)' <=> IsHead(t)) /\ (PrevInv(t)' <=> PrevInv(t))
  BY <1>1, <1>3, SameSectors
<1>5. ASSUME NEW p \in Phones, NEW s \in Slots, contacts[s].used, contacts[s].phone = p
      PROVE  /\ entries'[p] = [slot |-> s, latest |-> End] /\ entries'[p] # None
             /\ entries'[p].slot = s /\ entries'[p].latest = End
  <2>1. SlotsOf(p) = {s}
    BY <1>5 DEF SlotsOf, ContactsInv
  <2>2. Max({s}) = s
    BY <1>5, Sizes DEF Max
  <2> QED
    BY <1>1, <1>5, <2>1, <2>2, NewEntryFacts, Sizes
<1>6. ASSUME NEW p \in Phones, entries'[p] # None
      PROVE  \E s \in Slots : contacts[s].used /\ contacts[s].phone = p
  BY <1>1, <1>6 DEF SlotsOf
<1>7. EntriesInv'
  <2>1. ASSUME NEW p \in Phones, entries'[p] # None PROVE contacts'[entries'[p].slot] = Stored(p)
    <3>1. PICK s \in Slots : contacts[s].used /\ contacts[s].phone = p
      BY <1>6, <2>1
    <3>2. contacts[s] = Stored(p)
      <4>1. contacts[s] \in SlotContents /\ contacts[s].used = TRUE
        BY <3>1, TypeFacts DEF SlotContents
      <4> QED
        BY <3>1, <4>1 DEF SlotContents, Stored
    <3> QED
      BY <1>1, <1>5, <3>1, <3>2
  <2>2. \A s \in Slots : contacts'[s].used =>
           entries'[contacts'[s].phone] # None /\ entries'[contacts'[s].phone].slot = s
    BY <1>1, <1>5 DEF ContactsInv
  <2>3. IsInjective(freeSlots') /\ ToSet(freeSlots') = {s \in Slots : ~contacts'[s].used}
    BY <1>1, UnusedSlotsAre
  <2> QED
    BY <2>1, <2>2, <2>3 DEF EntriesInv
<1>8. ContactsInv'
  BY <1>1 DEF ContactsInv
<1>9. ChainsInv'
  <2>1. \A t \in Linked : NextInv(t)'
    BY <1>1, <1>2, <1>4 DEF ChainsInv, NextInv
  <2> QED
    BY <1>1, <1>4, <2>1 DEF ChainsInv
<1>10. HeadsInv'
  <2>1. \A p \in Phones : entries'[p] # None => entries'[p].latest = End
    BY <1>5, <1>6
  <2>2. \A t \in Linked : t >= 0
    <3>1. \A n \in Nat : n >= 0
      OBVIOUS
    <3> QED
      BY <3>1, LinkedFacts, Sizes
  <2>3. \A s : \A t \in Chat(s) : t >= 0
    BY <2>2 DEF Chat
  <2> QED
    BY <1>2, <1>4, <2>1, <2>3 DEF HeadsInv
<1>11. MessagesInv'
  BY <1>1, <1>2, <1>4 DEF MessagesInv, StoredInv
<1>12. KeptInv'
  <2>1. \A q, m : Holds(q, m) => Holds(q, m)'
    BY <1>1, <1>4 DEF Holds
  <2> QED
    BY <1>1, <1>2, <2>1 DEF KeptInv
<1> QED
  BY <1>2, <1>7, <1>8, <1>9, <1>10, <1>11, <1>12 DEF LinkInv, RemoveInv

(* The scan takes every head it meets for the chat of a contact that is    *)
(* there: nothing is an orphan.                                            *)
LEMMA ScanSectorWhole ==
    ASSUME BasicInv, BasicInv', WholeInv, ScanSector PROVE WholeInv'
<1> USE DEF BasicInv, WholeInv
<1>0. PICK t, s : t = op.at /\ s = sectors[t].slot
  OBVIOUS
<1>1. /\ op.kind = "scan" /\ t < NumSectors
      /\ UNCHANGED <<contacts, sectors, freeSlots, sent, owner, kept, removing, gone, split>>
  BY <1>0 DEF ScanSector, ghosts
<1>2. t \in Sectors /\ t \in Nat /\ op = Scanning(t)
  BY <1>0, <1>1, OpShape, Sizes DEF TypeInv, Sectors
<1>3. sectors[t].used => /\ HasContact(t) /\ s \in Slots /\ contacts[s].used
                         /\ contacts[s].phone \in Phones
                         /\ entries[contacts[s].phone] # None
                         /\ entries[contacts[s].phone].slot = s
  <2>1. sectors[t].used => t \in Linked
    BY <1>1, <1>2, LinkedFacts
  <2>2. sectors[t].used => s \in Slots /\ contacts[s].used
    BY <1>0, <2>1, LinkedFacts DEF ChainsInv
  <2> QED
    BY <1>0, <1>1, <2>2, Sizes DEF ContactsInv, EntriesInv, HasContact
<1>4. /\ op' = Scanning(t + 1)
      /\ \/ (~sectors[t].used \/ ~IsHead(t)) /\ UNCHANGED entries
         \/ /\ sectors[t].used /\ IsHead(t)
            /\ entries' = [entries EXCEPT ![contacts[s].phone].latest = t]
  BY <1>0, <1>1, <1>3 DEF ScanSector
<1>5. op'.kind = "scan" /\ op'.at = t + 1
  <2>1. t + 1 \in 0 .. NumSectors
    BY <1>1, <1>2, Sizes
  <2> QED
    BY <1>4, <2>1, OpKinds
<1>6. Pending' = Pending
  BY <1>1, <1>5 DEF Pending
<1>7. /\ Linked' = Linked /\ \A z : Chat(z)' = Chat(z)
      /\ \A u : (IsHead(u)' <=> IsHead(u)) /\ (PrevInv(u)' <=> PrevInv(u))
  BY <1>1, <1>6, SameSectors
<1>8. ContactsInv'
  BY <1>1 DEF ContactsInv
<1>9. ChainsInv'
  <2>1. \A u \in Linked : NextInv(u)'
    BY <1>1, <1>5, <1>7 DEF ChainsInv, NextInv
  <2> QED
    BY <1>1, <1>7, <2>1 DEF ChainsInv
<1>10. MessagesInv'
  BY <1>1, <1>5, <1>7 DEF MessagesInv, StoredInv
<1>11. KeptInv'
  <2>1. \A q, m : Holds(q, m) => Holds(q, m)'
    BY <1>1, <1>7 DEF Holds
  <2> QED
    BY <1>1, <1>5, <2>1 DEF KeptInv
<1>12. \A u \in Linked : u \in Nat /\ (u >= t /\ u # t => u >= t + 1)
  <2>1. \A u \in Nat : u >= t /\ u # t => u >= t + 1
    BY <1>2
  <2> QED
    BY <2>1, LinkedFacts, Sizes
<1>13. ASSUME NEW q \in Phones, entries[q] # None, entries'[q] = entries[q],
              ~(sectors[t].used /\ IsHead(t) /\ entries[q].slot = s)
       PROVE  IF entries'[q].latest = End
              THEN \A u \in Chat(entries'[q].slot) : IsHead(u) => u >= t + 1
              ELSE HeadOf(q)'
  <2>1. CASE entries[q].latest = End
    <3>1. \A u \in Chat(entries[q].slot) : IsHead(u) => u \in Linked /\ u >= t /\ u # t
      BY <1>0, <1>1, <1>13, <2>1, LinkedFacts DEF HeadsInv, Chat
    <3> QED
      BY <1>12, <1>13, <2>1, <3>1
  <2>2. CASE entries[q].latest # End
    BY <1>1, <1>7, <1>13, <2>2 DEF HeadsInv, HeadOf
  <2> QED
    BY <1>13, <2>1, <2>2
<1>14. CASE (~sectors[t].used \/ ~IsHead(t)) /\ UNCHANGED entries
  <2>1. EntriesInv'
    BY <1>1, <1>5, <1>14 DEF EntriesInv
  <2>2. HeadsInv'
    <3>1. ASSUME NEW q \in Phones, entries[q] # None
          PROVE  IF entries'[q].latest = End
                 THEN \A u \in Chat(entries'[q].slot) : IsHead(u) => u >= t + 1
                 ELSE HeadOf(q)'
      <4>1. entries'[q] = entries[q] /\ ~(sectors[t].used /\ IsHead(t) /\ entries[q].slot = s)
        BY <1>14
      <4> QED
        BY <1>13, <3>1, <4>1
    <3>2. \A q \in Phones : entries'[q] # None =>
             IF entries'[q].latest = End
             THEN \A u \in Chat(entries[q].slot)' : IsHead(u)' => u >= op'.at
             ELSE HeadOf(q)'
      BY <1>5, <1>7, <1>14, <3>1
    <3> QED
      BY <1>5, <3>2 DEF HeadsInv
  <2> QED
    BY <1>5, <1>8, <1>9, <1>10, <1>11, <2>1, <2>2 DEF LinkInv, RemoveInv
<1>15. CASE /\ sectors[t].used /\ IsHead(t)
            /\ entries' = [entries EXCEPT ![contacts[s].phone].latest = t]
  <2>1. PICK p \in Phones : p = contacts[s].phone /\ entries[p] # None /\ entries[p].slot = s
    BY <1>3, <1>15
  <2>2. /\ EntriesInv'
        /\ entries'[p] # None /\ entries'[p].slot = s /\ entries'[p].latest = t
        /\ \A q \in Phones : q # p => entries'[q] = entries[q]
    <3>1. entries' = [entries EXCEPT ![p].latest = t] /\ op.kind # "off"
      BY <1>1, <1>15, <2>1
    <3>2. /\ EntriesInv'
          /\ entries'[p] # None /\ entries'[p].slot = entries[p].slot /\ entries'[p].latest = t
          /\ \A q \in Phones : q # p => entries'[q] = entries[q]
      <4>1. UNCHANGED <<contacts, freeSlots>> /\ t \in Sectors \cup {End} /\ entries[p] # None
        BY <1>1, <1>2, <2>1
      <4> QED
        BY <3>1, <4>1, HeadChanged
    <3> QED
      BY <2>1, <3>2
  <2>3. HeadOf(p)' /\ entries'[p].latest # End
    <3>1. t \in Chat(s) /\ t # End
      BY <1>0, <1>1, <1>2, <1>15, LinkedFacts, Sizes DEF Chat
    <3> QED
      BY <1>7, <1>15, <2>2, <3>1 DEF HeadOf
  <2>4. ASSUME NEW q \in Phones, q # p, entries[q] # None
        PROVE  IF entries'[q].latest = End
               THEN \A u \in Chat(entries'[q].slot) : IsHead(u) => u >= t + 1
               ELSE HeadOf(q)'
    <3>1. entries'[q] = entries[q] /\ entries[q].slot # s
      BY <1>1, <2>1, <2>2, <2>4, PhoneOfEntry
    <3> QED
      BY <1>13, <2>4, <3>1
  <2>5. HeadsInv'
    <3>1. \A q \in Phones : entries'[q] # None =>
             IF entries'[q].latest = End
             THEN \A u \in Chat(entries[q].slot)' : IsHead(u)' => u >= op'.at
             ELSE HeadOf(q)'
      BY <1>5, <1>7, <2>2, <2>3, <2>4
    <3> QED
      BY <1>5, <3>1 DEF HeadsInv
  <2> QED
    BY <1>5, <1>8, <1>9, <1>10, <1>11, <2>2, <2>5 DEF LinkInv, RemoveInv
<1> QED
  BY <1>4, <1>14, <1>15

LEMMA InitWhole == ASSUME Init PROVE WholeInv
<1>1. op.kind = "idle" /\ Pending = {}
  BY OpKinds DEF Init, Pending
<1>2. /\ \A s \in Slots : ~contacts[s].used
      /\ \A t \in Sectors : ~sectors[t].used
      /\ \A p \in Phones : entries[p] = None /\ kept[p] = <<>>
  BY UnusedFacts DEF Init
<1>3. Linked = {} /\ ContactsInv /\ ChainsInv /\ HeadsInv /\ MessagesInv
  BY <1>1, <1>2 DEF Linked, ContactsInv, ChainsInv, HeadsInv, MessagesInv
<1>4. EntriesInv
  <2>1. IsInjective(freeSlots) /\ ToSet(freeSlots) = Slots
    BY Counting, Sizes DEF Init, Slots
  <2> QED
    BY <1>2, <2>1 DEF EntriesInv
<1>5. KeptInv
  <2>1. \A p \in Phones : DOMAIN kept[p] = {}
    BY <1>2
  <2> QED
    BY <2>1 DEF KeptInv
<1> QED
  BY <1>1, <1>3, <1>4, <1>5 DEF WholeInv, LinkInv, RemoveInv

(* What is split stays so.                                                 *)
LEMMA SplitGrows == ASSUME [Next]_vars, split' = {} PROVE split = {}
<1>1. CASE UNCHANGED vars
  BY <1>1 DEF vars
<1>2. ASSUME NEW p \in Phones, AddContact(p) \/ (\E q \in Phones : UpdatePhone(p, q))
      PROVE  split' = split
  BY <1>2 DEF AddContact, UpdatePhone, ghosts
<1>3. ASSUME NEW p \in Phones,
             \/ BeginAddMessage(p) \/ StartChat(p) \/ AppendMessage(p)
             \/ WriteNextSector(p) \/ PointToNext(p)
      PROVE  split' = split
  BY <1>3 DEF BeginAddMessage, StartChat, AppendMessage, WriteNextSector, PointToNext, ghosts
<1>4. ASSUME NEW p \in Phones, ExtendWithoutSector(p) PROVE FALSE
  BY <1>4 DEF ExtendWithoutSector
<1>5. ASSUME NEW p \in Phones,
             AddMessageFails(p) \/ (\E whole \in BOOLEAN : BeginRemove(p, whole))
      PROVE  split' = split
  BY <1>5 DEF AddMessageFails, BeginRemove, ghosts
<1>6. ASSUME RemoveSector \/ RemoveChatFails \/ RemoveChatEnds \/ RemoveContactEnds
      PROVE  split' = split
  BY <1>6 DEF RemoveSector, RemoveChatFails, RemoveChatEnds, RemoveContactEnds, RemovedFor, ghosts
<1>7. ASSUME PowerCut PROVE split = {}
  <2>1. split \subseteq split'
    BY <1>7 DEF PowerCut
  <2> QED
    BY <2>1
<1>8. ASSUME ReconstructContacts \/ ScanSector \/ RemoveOrphan \/ OrphanRemoved \/ Mounted
      PROVE  split' = split
  BY <1>8 DEF ReconstructContacts, ScanSector, RemoveOrphan, OrphanRemoved, Mounted, ghosts
<1> QED
  BY <1>1, <1>2, <1>3, <1>4, <1>5, <1>6, <1>7, <1>8 DEF Next

LEMMA WholeStep ==
    ASSUME BasicInv, BasicInv', WholeInv, split' = {}, [Next]_vars PROVE WholeInv'
<1>1. CASE UNCHANGED vars
  <2>1. UNCHANGED <<contacts, sectors, entries, freeSlots, freeSectors, op, sent, owner, kept,
                    removing, gone, split>>
    BY <1>1 DEF vars
  <2>2. Pending' = Pending
    BY <2>1 DEF Pending
  <2>3. /\ Linked' = Linked /\ \A z : Chat(z)' = Chat(z)
        /\ \A u : (IsHead(u)' <=> IsHead(u)) /\ (PrevInv(u)' <=> PrevInv(u))
    BY <2>1, <2>2, SameSectors
  <2>4. \A q, m : Holds(q, m)' <=> Holds(q, m)
    BY <2>1, <2>3 DEF Holds
  <2>5. \A q : HeadOf(q)' <=> HeadOf(q)
    BY <2>1, <2>3 DEF HeadOf
  <2>6. \A u : (NextInv(u)' <=> NextInv(u)) /\ (StoredInv(u)' <=> StoredInv(u))
    BY <2>1, <2>3 DEF NextInv, StoredInv
  <2>7. ContactsInv' /\ EntriesInv' /\ ChainsInv'
    BY <2>1, <2>3, <2>6 DEF WholeInv, ContactsInv, EntriesInv, ChainsInv
  <2>8. HeadsInv' /\ MessagesInv'
    BY <2>1, <2>3, <2>5, <2>6 DEF WholeInv, HeadsInv, MessagesInv
  <2>9. LinkInv' /\ RemoveInv'
    BY <2>1, <2>3 DEF WholeInv, LinkInv, RemoveInv
  <2>10. KeptInv'
    BY <2>1, <2>4 DEF WholeInv, KeptInv
  <2> QED
    BY <2>1, <2>7, <2>8, <2>9, <2>10 DEF WholeInv
<1>2. ASSUME NEW p \in Phones, ExtendWithoutSector(p) PROVE FALSE
  BY <1>2 DEF ExtendWithoutSector
<1>3. CASE RemoveChatFails
  BY <1>3, LinkedFacts DEF RemoveChatFails, BasicInv, WholeInv, RemoveInv, Chat
<1>4. ASSUME RemoveOrphan \/ OrphanRemoved PROVE FALSE
  BY <1>4 DEF RemoveOrphan, OrphanRemoved, WholeInv
<1>5. CASE Next
  BY <1>2, <1>3, <1>4, <1>5, AddContactWhole, UpdatePhoneWhole, BeginAddWhole, StartChatWhole,
     AppendMessageWhole, WriteNextWhole, PointToNextWhole, AddMessageFailsWhole, BeginRemoveWhole,
     RemoveSectorWhole, RemoveChatEndsWhole, RemoveContactEndsWhole, PowerCutWhole,
     ReconstructWhole, ScanSectorWhole, MountedWhole DEF Next
<1> QED
  BY <1>1, <1>5

(* The invariant of the contact and message stores, cuts at every write    *)
(* and mounts included.                                                    *)
THEOREM StoreInvariant == Spec => []StoreInv
<1>1. Init => StoreInv
  BY InitBasic, InitWhole, AllocIs DEF StoreInv, BasicInv
<1>2. StoreInv /\ [Next]_vars => StoreInv'
  <2> SUFFICES ASSUME StoreInv, [Next]_vars PROVE StoreInv'
    OBVIOUS
  <2>1. BasicInv
    BY AllocIs DEF StoreInv, BasicInv
  <2>2. BasicInv'
    BY <2>1, BasicStep
  <2>3. SectorsAccounted'
    BY <2>2 DEF BasicInv, AllocInv, SectorsAccounted, Reached
  <2>4. split' = {} => WholeInv'
    BY <2>1, <2>2, SplitGrows, WholeStep DEF StoreInv
  <2> QED
    BY <2>2, <2>3, <2>4 DEF StoreInv, BasicInv
<1> QED
  BY <1>1, <1>2, PTL DEF Spec

-----------------------------------------------------------------------------
(***************************************************************************)
(* What a read of a chat returns, in the states that StoreInv describes:   *)
(* the walk along prev from the chat's head reads all of its sectors and   *)
(* ends by itself, and any page of the chat is that slice of it.  With     *)
(* this, the properties of ChatStore about a whole database follow.        *)
(***************************************************************************)

-----------------------------------------------------------------------------
(* The walk along prev.                                                    *)

(* One hop: the chain c, longer by the sector that comes after it.         *)
Following(s, c) == IF c = <<>> THEN s ELSE sectors[Last(c)].prev
Walked(s, c) ==
    LET t == Following(s, c)
    IN  IF t # End /\ sectors[t].used THEN Append(c, t) ELSE c

WalkUpto(g, s) ==
    /\ g \in [0 .. NumSectors -> Seq(Sectors)]
    /\ g[0] = <<>>
    /\ \A k \in 1 .. NumSectors : g[k] = Walked(s, g[k - 1])
    /\ Chain(s) = g[NumSectors]

LEMMA LastOf ==
    ASSUME NEW X, NEW c \in Seq(X), c # <<>>
    PROVE  Len(c) \in Nat /\ Len(c) \in DOMAIN c /\ DOMAIN c = 1 .. Len(c) /\ Last(c) = c[Len(c)]
           /\ Last(c) \in X
<1>1. Len(c) \in Nat /\ DOMAIN c = 1 .. Len(c) /\ Len(c) > 0 /\ \A i \in 1 .. Len(c) : c[i] \in X
  BY LenProperties, EmptySeq
<1>2. Len(c) \in 1 .. Len(c)
  BY <1>1
<1> QED
  BY <1>1, <1>2 DEF Last

LEMMA WalkedIs ==
    ASSUME TypeInv, NEW s \in Sectors \cup {End}, NEW c \in Seq(Sectors)
    PROVE  Walked(s, c) \in Seq(Sectors) /\ Following(s, c) \in Sectors \cup {End}
<1>1. Following(s, c) \in Sectors \cup {End}
  <2>1. c # <<>> => Last(c) \in Sectors
    BY LastOf
  <2> QED
    BY <2>1, TypeFacts, ContentsFacts DEF Following
<1>2. \A t \in Sectors : Append(c, t) \in Seq(Sectors)
  OBVIOUS
<1> QED
  BY <1>1, <1>2 DEF Walked

LEMMA WalkSteps ==
    ASSUME TypeInv, NEW s \in Sectors \cup {End}
    PROVE  \E g : WalkUpto(g, s)
<1> DEFINE Body(g) == [h \in 0 .. NumSectors |-> IF h = 0 THEN <<>> ELSE Walked(s, g[h - 1])]
           chain == CHOOSE g : g = Body(g)
           V == Seq(Sectors)
           step == [h \in 0 .. NumSectors |-> [c \in V |-> Walked(s, c)]]
<1>1. NumSectors \in Nat /\ 0 \in Nat /\ 0 <= NumSectors /\ 0 \in 0 .. NumSectors /\ <<>> \in V
  BY Sizes
<1>2. step \in [0 .. NumSectors -> [V -> V]]
  <2>1. \A c \in V : Walked(s, c) \in V
    BY WalkedIs
  <2> QED
    BY <2>1
<1>3. PICK h : Iterates(h, 0, NumSectors, V, <<>>, step)
  <2> HIDE DEF step, V
  <2> QED BY <1>1, <1>2, RecursionExists
<1>4. /\ h \in [0 .. NumSectors -> V] /\ h[0] = <<>>
      /\ \A k \in 1 .. NumSectors : h[k] = Walked(s, h[k - 1])
  <2>1. /\ h \in [0 .. NumSectors -> V] /\ h[0] = <<>>
        /\ \A k \in 0 + 1 .. NumSectors : h[k] = step[k][h[k - 1]]
    BY <1>3 DEF Iterates
  <2>2. \A k \in 1 .. NumSectors : k \in 0 + 1 .. NumSectors /\ k \in 0 .. NumSectors /\ k - 1 \in 0 .. NumSectors
    BY <1>1
  <2> QED
    BY <2>1, <2>2
<1>5. h = Body(h)
  <2>1. ASSUME NEW k \in 0 .. NumSectors
        PROVE  h[k] = IF k = 0 THEN <<>> ELSE Walked(s, h[k - 1])
    <3>1. k # 0 => k \in 1 .. NumSectors
      BY <1>1
    <3> QED
      BY <1>4, <3>1
  <2>2. h = [k \in 0 .. NumSectors |-> h[k]]
    BY <1>4
  <2> QED
    BY <2>1, <2>2
<1>6. chain = Body(chain)
  BY <1>5
<1>7. Chain(s) = chain[NumSectors]
  BY DEF Chain, Walked, Following
<1> HIDE DEF chain
<1>8. /\ chain[0] = <<>>
      /\ \A k \in 1 .. NumSectors : chain[k] = Walked(s, chain[k - 1])
  <2>1. 0 \in 0 .. NumSectors /\ \A k \in 1 .. NumSectors : k \in 0 .. NumSectors /\ k # 0
    BY <1>1
  <2> QED
    BY <1>6, <2>1
<1> DEFINE S == {k \in 0 .. NumSectors : chain[k] \in V}
<1>9. 0 \in S
  BY <1>1, <1>8
<1>10. ASSUME NEW k \in 0 .. NumSectors - 1, k \in S PROVE k + 1 \in S
  <2>1. k + 1 \in 1 .. NumSectors /\ k + 1 \in 0 .. NumSectors /\ (k + 1) - 1 = k
    BY <1>1
  <2>2. chain[k + 1] = Walked(s, chain[k])
    BY <1>8, <2>1
  <2> QED
    BY <1>10, <2>1, <2>2, WalkedIs
<1>11. 0 .. NumSectors \subseteq S
  <2> HIDE DEF S
  <2> QED BY <1>1, <1>9, <1>10, IntervalInduction
<1>12. chain \in [0 .. NumSectors -> V]
  BY <1>6, <1>11
<1> QED
  BY <1>7, <1>8, <1>12 DEF WalkUpto

(* The messages of a linked sector.                                        *)
LEMMA LinkedMessages ==
    ASSUME TypeInv, NEW t \in Linked
    PROVE  LET msgs == sectors[t].msgs
           IN  /\ Len(msgs) \in 1 .. Capacity /\ Len(msgs) \in Nat /\ DOMAIN msgs = 1 .. Len(msgs)
               /\ 1 \in DOMAIN msgs /\ msgs \in Seq(Messages)
               /\ \A i \in DOMAIN msgs : msgs[i] \in Messages /\ msgs[i] \in Nat
<1>1. t \in Sectors /\ sectors[t].used /\ sectors[t] \in SectorContents
  BY LinkedFacts
<1>2. Len(sectors[t].msgs) \in 1 .. Capacity
  BY <1>1 DEF TypeInv
<1>3. /\ DOMAIN sectors[t].msgs = 1 .. Len(sectors[t].msgs) /\ sectors[t].msgs \in Seq(Messages)
      /\ \A i \in DOMAIN sectors[t].msgs : sectors[t].msgs[i] \in Messages /\ sectors[t].msgs[i] \in Nat
      /\ Len(sectors[t].msgs) \in Nat
  BY <1>1, ContentsFacts
<1>4. 1 \in 1 .. Len(sectors[t].msgs)
  BY <1>2, <1>3
<1> QED
  BY <1>2, <1>3, <1>4

LEMMA OlderTransitive ==
    ASSUME TypeInv, NEW t \in Linked, NEW u \in Linked, NEW v \in Linked, Older(t, u), Older(u, v)
    PROVE  Older(t, v)
<1>1. ASSUME NEW i \in DOMAIN sectors[t].msgs, NEW j \in DOMAIN sectors[v].msgs
      PROVE  sectors[t].msgs[i] < sectors[v].msgs[j]
  <2>1. PICK a, b, d : a = sectors[t].msgs[i] /\ b = sectors[u].msgs[1] /\ d = sectors[v].msgs[j]
    OBVIOUS
  <2>2. a \in Nat /\ b \in Nat /\ d \in Nat
    BY <2>1, LinkedMessages
  <2>3. a < b /\ b < d
    BY <2>1, LinkedMessages DEF Older
  <2> QED
    BY <2>1, <2>2, <2>3
<1> QED
  BY <1>1 DEF Older

(* What a walk from sector h of a chat has read: sectors of that chat, one *)
(* after the other along prev, the messages of each older than all before. *)
WalkInv(c, h) ==
    /\ c \in Seq(Sectors)
    /\ \A i \in DOMAIN c : c[i] \in Chat(sectors[h].slot)
    /\ c # <<>> => c[1] = h
    /\ \A i \in DOMAIN c : i > 1 => /\ c[i] = sectors[c[i - 1]].prev
                                    /\ Len(sectors[c[i]].msgs) = Capacity
    /\ \A i, j \in DOMAIN c : i < j => Older(c[j], c[i])

LEMMA WalkGrows ==
    ASSUME TypeInv, ChainsInv, NEW h \in Linked, NEW c, WalkInv(c, h), Following(h, c) # End
    PROVE  /\ WalkInv(Walked(h, c), h) /\ Len(Walked(h, c)) = Len(c) + 1
           /\ Following(h, c) \in Linked
           /\ \A i \in DOMAIN c : Older(Following(h, c), c[i])
<1>1. PICK t, z, n : t = Following(h, c) /\ z = sectors[h].slot /\ n = Len(c)
  OBVIOUS
<1>2. c \in Seq(Sectors) /\ n \in Nat /\ DOMAIN c = 1 .. n /\ (c = <<>> <=> n = 0)
  BY <1>1, LenProperties, EmptySeq DEF WalkInv
<1>3. c = <<>> => t = h /\ t \in Chat(z)
  BY <1>1 DEF Following, Chat
<1>4. c # <<>> => /\ n \in DOMAIN c /\ c[n] \in Chat(z) /\ t = sectors[c[n]].prev
                  /\ t \in Chat(z) /\ Len(sectors[t].msgs) = Capacity /\ Older(t, c[n])
  <2>1. ASSUME c # <<>> PROVE n \in DOMAIN c /\ Last(c) = c[n]
    BY <1>1, <1>2, <2>1, LastOf
  <2>2. ASSUME c # <<>> PROVE c[n] \in Chat(z) /\ t = sectors[c[n]].prev
    BY <1>1, <2>1, <2>2 DEF WalkInv, Following
  <2>3. ASSUME c # <<>> PROVE /\ t \in Linked /\ sectors[t].slot = sectors[c[n]].slot
                             /\ Len(sectors[t].msgs) = Capacity /\ Older(t, c[n])
    BY <1>1, <2>2, <2>3 DEF ChainsInv, PrevInv, Chat
  <2> QED
    BY <2>1, <2>2, <2>3 DEF Chat
<1>5. t \in Chat(z) /\ t \in Linked /\ t \in Sectors /\ sectors[t].used
  BY <1>3, <1>4, LinkedFacts DEF Chat
<1>6. PICK d : d = Append(c, t)
  OBVIOUS
<1>7. Walked(h, c) = d
  BY <1>1, <1>5, <1>6 DEF Walked
<1>8. /\ d \in Seq(Sectors) /\ Len(d) = n + 1 /\ DOMAIN d = 1 .. n + 1 /\ d # <<>>
      /\ d[n + 1] = t /\ \A i \in 1 .. n : d[i] = c[i]
  <2>1. d # <<>>
    BY <1>2, <1>5, <1>6, PutOn
  <2> QED
    BY <1>1, <1>2, <1>5, <1>6, <2>1, AppendProperties, LenProperties
<1>9. \A i \in 1 .. n + 1 : i \in 1 .. n \/ i = n + 1
  BY <1>2
<1>10. \A i \in DOMAIN c : Older(t, c[i])
  <2>1. ASSUME NEW i \in DOMAIN c PROVE Older(t, c[i])
    <3>1. c # <<>> /\ c[i] \in Linked /\ c[n] \in Linked /\ n \in DOMAIN c
      BY <1>2, <1>4, <2>1 DEF WalkInv, Chat
    <3>2. i = n \/ Older(c[n], c[i])
      <4>1. i < n \/ i = n
        BY <1>2
      <4> QED
        BY <3>1, <4>1 DEF WalkInv
    <3> QED
      BY <1>4, <1>5, <3>1, <3>2, OlderTransitive
  <2> QED
    BY <2>1
<1>11. WalkInv(d, h)
  <2>1. \A i \in DOMAIN d : d[i] \in Chat(z)
    BY <1>1, <1>2, <1>5, <1>8, <1>9 DEF WalkInv
  <2>2. d[1] = h
    <3>1. CASE n = 0
      BY <1>2, <1>3, <1>8, <3>1
    <3>2. CASE n # 0
      <4>1. 1 \in 1 .. n
        BY <1>2, <3>2
      <4> QED
        BY <1>2, <1>8, <3>2, <4>1 DEF WalkInv
    <3> QED
      BY <3>1, <3>2
  <2>3. ASSUME NEW i \in 1 .. n + 1, i > 1
        PROVE  d[i] = sectors[d[i - 1]].prev /\ Len(sectors[d[i]].msgs) = Capacity
    <3>1. i - 1 \in 1 .. n /\ (i # n + 1 => i \in 1 .. n) /\ n # 0 /\ (i = n + 1 => i - 1 = n)
      BY <1>2, <2>3
    <3>2. CASE i = n + 1
      BY <1>2, <1>4, <1>8, <3>1, <3>2
    <3>3. CASE i # n + 1
      BY <1>2, <1>8, <2>3, <3>1, <3>3 DEF WalkInv
    <3> QED
      BY <3>2, <3>3
  <2>4. ASSUME NEW i \in 1 .. n + 1, NEW j \in 1 .. n + 1, i < j PROVE Older(d[j], d[i])
    <3>1. i \in 1 .. n /\ (j # n + 1 => j \in 1 .. n)
      BY <1>2, <2>4
    <3>2. CASE j = n + 1
      BY <1>2, <1>8, <1>10, <3>1, <3>2
    <3>3. CASE j # n + 1
      BY <1>2, <1>8, <2>4, <3>1, <3>3 DEF WalkInv
    <3> QED
      BY <3>2, <3>3
  <2> QED
    BY <1>1, <1>8, <2>1, <2>2, <2>3, <2>4 DEF WalkInv
<1> QED
  BY <1>1, <1>5, <1>7, <1>8, <1>10, <1>11

(* No two steps of a walk read the same sector, so it ends by itself.      *)
LEMMA WalkDistinct ==
    ASSUME TypeInv, NEW h \in Linked, NEW c, WalkInv(c, h)
    PROVE  /\ IsInjective(c) /\ Len(c) \in Nat /\ Len(c) <= NumSectors
           /\ \A t \in Linked : (\A i \in DOMAIN c : Older(t, c[i])) => t \notin ToSet(c)
           /\ \A t \in Sectors : t \notin ToSet(c) => Len(c) < NumSectors
<1>1. PICK n : n = Len(c)
  OBVIOUS
<1>2. /\ c \in Seq(Sectors) /\ n \in Nat /\ DOMAIN c = 1 .. n
      /\ \A i \in 1 .. n : c[i] \in Sectors /\ c[i] \in Linked
  BY <1>1, LenProperties, LinkedFacts DEF WalkInv, Chat
<1>3. \A t \in Linked : ~Older(t, t)
  <2>1. ASSUME NEW t \in Linked, Older(t, t) PROVE FALSE
    <3>1. PICK m : m = sectors[t].msgs[1]
      OBVIOUS
    <3>2. m < m /\ m \in Nat
      BY <2>1, <3>1, LinkedMessages DEF Older
    <3> QED
      BY <3>2
  <2> QED
    BY <2>1
<1>4. ASSUME NEW i \in 1 .. n, NEW j \in 1 .. n, c[i] = c[j] PROVE i = j
  <2>1. i < j \/ j < i \/ i = j
    OBVIOUS
  <2> QED
    BY <1>2, <1>3, <1>4, <2>1 DEF WalkInv
<1>5. IsFiniteSet(Sectors) /\ Cardinality(Sectors) = NumSectors
  <2>1. 0 \in Int /\ NumSectors - 1 \in Int /\ ~(0 > NumSectors - 1) /\ (NumSectors - 1) - 0 + 1 = NumSectors
    BY Sizes
  <2>2. IsFiniteSet(0 .. NumSectors - 1) /\ Cardinality(0 .. NumSectors - 1) = NumSectors
    BY <2>1, FS_Interval
  <2> QED
    BY <2>2 DEF Sectors
<1>6. \A k \in Nat : IsFiniteSet(1 .. k) /\ Cardinality(1 .. k) = k
  <2>1. ASSUME NEW k \in Nat PROVE IsFiniteSet(1 .. k) /\ Cardinality(1 .. k) = k
    <3>1. 1 \in Int /\ k \in Int /\ (1 > k => k = 0) /\ k - 1 + 1 = k
      OBVIOUS
    <3>2. /\ IsFiniteSet(1 .. k)
          /\ Cardinality(1 .. k) = IF 1 > k THEN 0 ELSE k - 1 + 1
      BY <3>1, FS_Interval
    <3> QED
      BY <3>1, <3>2
  <2> QED
    BY <2>1
<1>7. n <= NumSectors
  <2> SUFFICES ASSUME n > NumSectors PROVE FALSE
    BY <1>2, Sizes
  <2>1. c \in [1 .. n -> Sectors]
    BY <1>2
  <2>2. PICK i, j \in 1 .. n : i # j /\ c[i] = c[j]
    <3>1. /\ IsFiniteSet(1 .. n) /\ IsFiniteSet(Sectors)
          /\ Cardinality(Sectors) < Cardinality(1 .. n)
      BY <1>2, <1>5, <1>6, Sizes
    <3> QED
      BY <2>1, <3>1, FS_PigeonHole
  <2> QED
    BY <1>4, <2>2
<1>8. ASSUME NEW t \in Sectors, t \notin ToSet(c) PROVE n < NumSectors
  <2> SUFFICES ASSUME n >= NumSectors PROVE FALSE
    BY <1>2, Sizes
  <2> DEFINE f == [i \in 1 .. n + 1 |-> IF i = n + 1 THEN t ELSE c[i]]
  <2>1. \A i \in 1 .. n + 1 : i = n + 1 \/ i \in 1 .. n
    BY <1>2
  <2>2. f \in [1 .. n + 1 -> Sectors]
    BY <1>2, <2>1
  <2>3. PICK i, j \in 1 .. n + 1 : i # j /\ f[i] = f[j]
    <3>1. /\ IsFiniteSet(1 .. n + 1) /\ IsFiniteSet(Sectors)
          /\ Cardinality(Sectors) < Cardinality(1 .. n + 1)
      <4>1. n + 1 \in Nat /\ NumSectors < n + 1
        BY <1>2, Sizes
      <4> QED
        BY <1>5, <1>6, <4>1
    <3> HIDE DEF f
    <3> QED
      BY <2>2, <3>1, FS_PigeonHole
  <2>4. /\ \A k \in 1 .. n : f[k] = c[k] /\ f[k] \in ToSet(c)
        /\ f[n + 1] = t
    <3>1. \A k \in 1 .. n : k \in 1 .. n + 1 /\ k # n + 1
      BY <1>2
    <3>2. n + 1 \in 1 .. n + 1
      BY <1>2
    <3> QED
      BY <1>2, <3>1, <3>2 DEF ToSet
  <2> HIDE DEF f
  <2> QED
    BY <1>4, <1>8, <2>1, <2>3, <2>4
<1>9. \A t \in Linked : (\A i \in DOMAIN c : Older(t, c[i])) => t \notin ToSet(c)
  BY <1>3 DEF ToSet
<1> QED
  BY <1>1, <1>2, <1>4, <1>7, <1>8, <1>9 DEF IsInjective

(* From a head, the walk reads exactly the chat, and reaches its end.      *)
LEMMA ChainIs ==
    ASSUME TypeInv, ChainsInv, NEW h \in Linked, IsHead(h)
    PROVE  LET c == Chain(h)
           IN  /\ WalkInv(c, h) /\ c # <<>> /\ sectors[Last(c)].prev = End
               /\ IsInjective(c) /\ Len(c) <= NumSectors
               /\ ToSet(c) = Chat(sectors[h].slot)
<1>0. h \in Sectors \cup {End} /\ h # End
  BY LinkedFacts
<1>1. PICK g : WalkUpto(g, h)
  BY <1>0, WalkSteps
<1>2. NumSectors \in Nat /\ NumSectors > 0 /\ 0 \in Nat
      /\ 0 \in 0 .. NumSectors /\ NumSectors \in 0 .. NumSectors
  BY Sizes
<1> DEFINE Good(k) == /\ WalkInv(g[k], h)
                      /\ k > 0 => g[k] # <<>>
                      /\ Following(h, g[k]) = End \/ Len(g[k]) = k
           S == {k \in 0 .. NumSectors : Good(k)}
<1>3. 0 \in S
  <2>1. g[0] = <<>>
    BY <1>1 DEF WalkUpto
  <2>2. <<>> \in Seq(Sectors) /\ DOMAIN <<>> = {} /\ Len(<<>>) = 0
    OBVIOUS
  <2>3. WalkInv(<<>>, h)
    BY <2>2 DEF WalkInv
  <2> QED
    BY <1>2, <2>1, <2>2, <2>3
<1>4. ASSUME NEW k \in 0 .. NumSectors - 1, k \in S PROVE k + 1 \in S
  <2>1. k \in Nat /\ k + 1 \in 1 .. NumSectors /\ k + 1 \in 0 .. NumSectors /\ (k + 1) - 1 = k /\ k + 1 > 0
    BY <1>2
  <2>2. g[k + 1] = Walked(h, g[k]) /\ g[k] \in Seq(Sectors)
    <3>1. g[k + 1] = Walked(h, g[(k + 1) - 1])
      BY <1>1, <2>1 DEF WalkUpto
    <3>2. k \in 0 .. NumSectors
      BY <1>2
    <3>3. g[k] \in Seq(Sectors)
      BY <1>1, <3>2 DEF WalkUpto
    <3> QED
      BY <2>1, <3>1, <3>3
  <2>3. Good(k)
    BY <1>4
  <2>4. CASE Following(h, g[k]) = End
    <3>1. g[k + 1] = g[k]
      BY <2>2, <2>4 DEF Walked
    <3>2. g[k] # <<>>
      BY <1>0, <2>4 DEF Following
    <3> QED
      BY <2>1, <2>3, <2>4, <3>1, <3>2
  <2>5. CASE Following(h, g[k]) # End
    <3>1. WalkInv(g[k + 1], h) /\ Len(g[k + 1]) = Len(g[k]) + 1
      BY <2>2, <2>3, <2>5, WalkGrows
    <3>2. Len(g[k + 1]) = k + 1
      BY <2>3, <2>5, <3>1
    <3>3. g[k + 1] # <<>>
      BY <2>1, <3>2
    <3> QED
      BY <2>1, <3>1, <3>2, <3>3
  <2> QED
    BY <2>4, <2>5
<1>5. Good(NumSectors)
  <2>1. 0 .. NumSectors \subseteq S
    <3> HIDE DEF S
    <3> QED BY <1>2, <1>3, <1>4, IntervalInduction
  <2> QED
    BY <1>2, <2>1
<1>6. PICK c, z : c = Chain(h) /\ c = g[NumSectors] /\ z = sectors[h].slot
  BY <1>1 DEF WalkUpto
<1>7. WalkInv(c, h) /\ c # <<>> /\ (Following(h, c) = End \/ Len(c) = NumSectors)
  BY <1>2, <1>5, <1>6
<1>8. Following(h, c) = End
  <2> SUFFICES ASSUME Following(h, c) # End PROVE FALSE
    OBVIOUS
  <2>1. PICK t : t = Following(h, c)
    OBVIOUS
  <2>2. t \in Linked /\ \A i \in DOMAIN c : Older(t, c[i])
    BY <1>7, <2>1, WalkGrows
  <2>3. t \notin ToSet(c) /\ t \in Sectors
    BY <1>7, <2>2, WalkDistinct, LinkedFacts
  <2>4. Len(c) < NumSectors /\ Len(c) = NumSectors
    BY <1>7, <2>3, WalkDistinct
  <2> QED
    BY <1>2, <2>4
<1>9. /\ Len(c) \in Nat /\ DOMAIN c = 1 .. Len(c) /\ Len(c) \in DOMAIN c /\ Last(c) = c[Len(c)]
      /\ sectors[Last(c)].prev = End
  <2>1. c \in Seq(Sectors)
    BY <1>7 DEF WalkInv
  <2> QED
    BY <1>7, <1>8, <2>1, LastOf DEF Following
<1>10. ToSet(c) \subseteq Chat(z)
  BY <1>6, <1>7 DEF ToSet, WalkInv
<1>11. Chat(z) \subseteq ToSet(c)
  <2> DEFINE R == Chat(z) \ ToSet(c)
  <2> SUFFICES ASSUME R # {} PROVE FALSE
    OBVIOUS
  <2>1. PICK x \in R : \A y \in R : sectors[y].msgs[1] <= sectors[x].msgs[1]
    <3>1. R \subseteq Linked
      BY DEF Chat
    <3> HIDE DEF R
    <3> QED
      BY <3>1, NewestOf
  <2>2. h \in ToSet(c)
    <3>1. 1 \in DOMAIN c
      BY <1>9
    <3> QED
      BY <1>7, <3>1 DEF WalkInv, ToSet
  <2>3. x \in Linked /\ sectors[x].slot = z /\ x # h /\ x # End /\ x \notin ToSet(c)
    BY <2>2, LinkedFacts DEF Chat
  <2>4. ~IsHead(x)
    BY <1>6, <2>3 DEF ChainsInv
  <2>5. PICK y : y = sectors[x].next
    OBVIOUS
  <2>6. /\ y \in Chat(z) /\ sectors[y].prev = x /\ sectors[x].msgs[1] < sectors[y].msgs[1]
        /\ sectors[x].msgs[1] \in Nat /\ sectors[y].msgs[1] \in Nat
    BY <2>3, <2>4, <2>5, Followed DEF Chat
  <2>7. y \in ToSet(c)
    BY <2>1, <2>6
  <2>8. PICK i \in DOMAIN c : y = c[i]
    BY <2>7 DEF ToSet
  <2>9. i # Len(c)
    BY <1>9, <2>3, <2>6, <2>8
  <2>10. i + 1 \in DOMAIN c /\ i + 1 > 1 /\ (i + 1) - 1 = i
    BY <1>9, <2>9
  <2>11. c[i + 1] = x
    BY <1>7, <2>6, <2>8, <2>10 DEF WalkInv
  <2> QED
    BY <2>3, <2>10, <2>11 DEF ToSet
<1> QED
  BY <1>6, <1>7, <1>9, <1>10, <1>11, WalkDistinct

-----------------------------------------------------------------------------
(* Where the messages of a chat are in its listing.                        *)

(* f[k] messages are in the first k sectors of the chain c.                *)
PassedUpto(f, c) ==
    /\ f \in [0 .. Len(c) -> Nat]
    /\ f[0] = 0
    /\ \A k \in 1 .. Len(c) : f[k] = f[k - 1] + Len(sectors[c[k]].msgs)
    /\ \A k \in 0 .. Len(c) : Passed(c, k) = f[k]

LEMMA PassedSteps ==
    ASSUME TypeInv, NEW c \in Seq(Sectors)
    PROVE  \E f : PassedUpto(f, c)
<1>1. PICK n \in Nat : n = Len(c)
  BY LenProperties
<1> DEFINE len(i) == Len(sectors[c[i]].msgs)
           step == [i \in 0 .. n |-> [v \in Nat |-> IF i = 0 THEN v ELSE v + len(i)]]
<1>2. \A i \in 1 .. n : len(i) \in Nat
  BY <1>1, TypeFacts, ContentsFacts, ElementOfSeq
<1>3. 0 \in Nat /\ 0 <= n /\ \A i \in 0 .. n : i # 0 => i \in 1 .. n
  BY <1>1
<1> HIDE DEF len
<1>4. step \in [0 .. n -> [Nat -> Nat]]
  BY <1>2, <1>3
<1>5. PICK f : Iterates(f, 0, n, Nat, 0, step)
  <2> HIDE DEF step
  <2> QED BY <1>3, <1>4, RecursionExists
<1>6. f \in [0 .. n -> Nat] /\ f[0] = 0 /\ \A i \in 1 .. n : f[i] = f[i - 1] + len(i)
  <2>1. f \in [0 .. n -> Nat] /\ f[0] = 0 /\ \A i \in 0 + 1 .. n : f[i] = step[i][f[i - 1]]
    BY <1>5 DEF Iterates
  <2>2. \A i \in 1 .. n : i \in 0 + 1 .. n /\ i \in 0 .. n /\ i - 1 \in 0 .. n /\ i # 0
    BY <1>1
  <2> QED
    BY <2>1, <2>2
<1>7. ASSUME NEW k \in 0 .. n PROVE Passed(c, k) = f[k]
  <2> DEFINE Body(g) == [i \in 0 .. k |-> IF i = 0 THEN 0 ELSE g[i - 1] + Len(sectors[c[i]].msgs)]
             passed == CHOOSE g : g = Body(g)
             fk == [i \in 0 .. k |-> f[i]]
  <2>1. Passed(c, k) = passed[k]
    BY DEF Passed
  <2>2. \A i \in 0 .. k : i \in 0 .. n /\ (i # 0 => i \in 1 .. n /\ i - 1 \in 0 .. k)
    BY <1>1
  <2>3. fk = Body(fk)
    <3>1. ASSUME NEW i \in 0 .. k
          PROVE  f[i] = IF i = 0 THEN 0 ELSE fk[i - 1] + Len(sectors[c[i]].msgs)
      BY <1>6, <2>2 DEF len
    <3> QED
      BY <3>1
  <2>4. passed = Body(passed)
    BY <2>3
  <2> HIDE DEF passed
  <2>5. \A i \in 0 .. k : passed[i] = IF i = 0 THEN 0 ELSE passed[i - 1] + len(i)
    BY <2>4 DEF len
  <2> DEFINE S == {i \in 0 .. k : passed[i] = f[i]}
  <2>6. 0 \in S
    BY <1>1, <1>6, <2>5
  <2>7. ASSUME NEW i \in 0 .. k - 1, i \in S PROVE i + 1 \in S
    <3>1. i + 1 \in 0 .. k /\ i + 1 # 0 /\ i + 1 \in 1 .. n /\ (i + 1) - 1 = i
      BY <1>1
    <3>2. passed[i + 1] = passed[i] + len(i + 1)
      BY <2>5, <3>1
    <3>3. f[i + 1] = f[i] + len(i + 1)
      BY <1>6, <3>1
    <3> QED
      BY <2>7, <3>1, <3>2, <3>3
  <2>8. 0 .. k \subseteq S
    <3> HIDE DEF S
    <3> QED BY <1>3, <2>6, <2>7, IntervalInduction
  <2>9. k \in 0 .. k
    OBVIOUS
  <2> QED
    BY <2>1, <2>8, <2>9
<1> QED
  BY <1>1, <1>6, <1>7 DEF PassedUpto, len

(* More sectors have no fewer messages.                                    *)
LEMMA PassedGrows ==
    ASSUME NEW n \in Nat, NEW f \in [0 .. n -> Nat], \A k \in 1 .. n : f[k - 1] <= f[k]
    PROVE  \A i, j \in 0 .. n : i <= j => f[i] <= f[j]
<1>1. ASSUME NEW i \in 0 .. n, NEW j \in 0 .. n, i <= j PROVE f[i] <= f[j]
  <2> DEFINE S == {k \in i .. n : f[i] <= f[k]}
  <2>1. i \in S
    OBVIOUS
  <2>2. ASSUME NEW k \in i .. n - 1, k \in S PROVE k + 1 \in S
    <3>1. k + 1 \in 1 .. n /\ k + 1 \in i .. n /\ (k + 1) - 1 = k /\ k \in 0 .. n /\ k + 1 \in 0 .. n
      OBVIOUS
    <3>2. f[k] <= f[k + 1]
      BY <3>1
    <3>3. f[k] \in Nat /\ f[k + 1] \in Nat /\ f[i] \in Nat
      BY <3>1
    <3> QED
      BY <2>2, <3>1, <3>2, <3>3
  <2>3. i .. n \subseteq S
    <3> HIDE DEF S
    <3>1. i \in Nat
      OBVIOUS
    <3> QED BY <2>1, <2>2, <3>1, IntervalInduction
  <2>4. j \in i .. n
    BY <1>1
  <2> QED
    BY <2>3, <2>4
<1> QED
  BY <1>1

(* The chain that a listing reads: f counts the messages of its sectors,   *)
(* and each sector but the first is full.                                  *)
ChainCounted(c, f) ==
    /\ c \in Seq(Sectors) /\ PassedUpto(f, c)
    /\ \A i \in 1 .. Len(c) : c[i] \in Linked
    /\ \A i \in 2 .. Len(c) : Len(sectors[c[i]].msgs) = Capacity
    /\ \A i, j \in 1 .. Len(c) : i < j => Older(c[j], c[i])

LEMMA ChainCountedFacts ==
    ASSUME TypeInv, NEW c, NEW f, ChainCounted(c, f)
    PROVE  /\ Len(c) \in Nat /\ DOMAIN c = 1 .. Len(c)
           /\ f[0] = 0 /\ \A k \in 0 .. Len(c) : f[k] \in Nat
           /\ \A i, j \in 0 .. Len(c) : i <= j => f[i] <= f[j]
           /\ \A k \in 1 .. Len(c) :
                 /\ k - 1 \in 0 .. Len(c) /\ k \in 0 .. Len(c)
                 /\ f[k] = f[k - 1] + Len(sectors[c[k]].msgs)
                 /\ Len(sectors[c[k]].msgs) \in Nat /\ Len(sectors[c[k]].msgs) > 0
                 /\ f[k - 1] < f[k]
<1>1. Len(c) \in Nat /\ DOMAIN c = 1 .. Len(c)
  BY LenProperties DEF ChainCounted
<1>2. /\ f \in [0 .. Len(c) -> Nat] /\ f[0] = 0
      /\ \A k \in 1 .. Len(c) : f[k] = f[k - 1] + Len(sectors[c[k]].msgs)
  BY DEF ChainCounted, PassedUpto
<1>3. \A k \in 1 .. Len(c) : Len(sectors[c[k]].msgs) \in Nat /\ Len(sectors[c[k]].msgs) > 0
  <2>1. \A k \in 1 .. Len(c) : Len(sectors[c[k]].msgs) \in 1 .. Capacity
    BY LinkedMessages DEF ChainCounted
  <2> QED
    BY <2>1, Sizes
<1>4. \A k \in 1 .. Len(c) : k - 1 \in 0 .. Len(c) /\ k \in 0 .. Len(c)
  BY <1>1
<1>5. ASSUME NEW k \in 1 .. Len(c) PROVE f[k - 1] < f[k] /\ f[k - 1] <= f[k]
  <2>1. PICK a, b, l : a = f[k - 1] /\ b = f[k] /\ l = Len(sectors[c[k]].msgs)
    OBVIOUS
  <2>2. a \in Nat /\ b \in Nat
    BY <1>2, <1>4, <2>1
  <2>3. l \in Nat /\ l > 0 /\ b = a + l
    BY <1>2, <1>3, <2>1
  <2>4. a < b /\ a <= b
    BY <2>2, <2>3
  <2> QED
    BY <2>1, <2>4
<1>6. \A i, j \in 0 .. Len(c) : i <= j => f[i] <= f[j]
  BY <1>1, <1>2, <1>5, PassedGrows
<1> QED
  BY <1>1, <1>2, <1>3, <1>4, <1>5, <1>6

(* Every place in a listing is that of one message of one sector.          *)
LEMMA Coordinates ==
    ASSUME TypeInv, NEW c, NEW f, ChainCounted(c, f), NEW n \in 1 .. f[Len(c)]
    PROVE  \E k \in 1 .. Len(c) : \E j \in 1 .. Len(sectors[c[k]].msgs) :
              n = (f[k] - j) + 1 /\ f[k - 1] < n /\ n <= f[k]
<1>1. PICK m \in Nat : m = Len(c)
  BY ChainCountedFacts
<1> DEFINE S == {k \in 0 .. m : n <= f[k]}
<1>2. m \in S /\ S \subseteq Nat
  <2>1. m \in 0 .. m /\ f[m] \in Nat /\ n \in Nat /\ n <= f[m]
    BY <1>1, ChainCountedFacts
  <2> QED
    BY <2>1
<1>3. PICK k \in S : \A i \in S : k <= i
  <2> HIDE DEF S
  <2> QED BY <1>2, LeastNatural
<1>4. k # 0 /\ n \in Nat /\ n > 0
  <2>1. f[0] = 0 /\ n \in Nat /\ n > 0
    BY <1>1, ChainCountedFacts
  <2> QED
    BY <1>3, <2>1
<1>5. k \in 1 .. m /\ k - 1 \in 0 .. m /\ ~(k <= k - 1)
  BY <1>1, <1>3, <1>4
<1>6. PICK a, b, l : a = f[k - 1] /\ b = f[k] /\ l = Len(sectors[c[k]].msgs)
  OBVIOUS
<1>7. a \in Nat /\ b \in Nat /\ l \in Nat /\ b = a + l /\ n <= b /\ ~(n <= a)
  <2>1. k - 1 \notin S
    BY <1>3, <1>5
  <2>2. n <= b /\ ~(n <= a)
    BY <1>3, <1>5, <1>6, <2>1
  <2>3. a \in Nat /\ b \in Nat /\ l \in Nat /\ b = a + l
    BY <1>1, <1>5, <1>6, ChainCountedFacts
  <2> QED
    BY <2>2, <2>3
<1>8. (b - n) + 1 \in 1 .. l /\ n = (b - ((b - n) + 1)) + 1 /\ a < n
  BY <1>4, <1>7
<1> QED
  BY <1>1, <1>5, <1>6, <1>7, <1>8

(* The messages of a linked sector from its m-th down.                     *)
LEMMA NewestFirstIs ==
    ASSUME TypeInv, NEW t \in Linked, NEW pos \in Int, pos + 1 \in 0 .. Len(sectors[t].msgs)
    PROVE  LET list == NewestFirst(t, pos)
           IN  /\ list \in Seq(Messages) /\ Len(list) = pos + 1
               /\ \A i \in 1 .. pos + 1 : list[i] = sectors[t].msgs[((pos + 1) - i) + 1]
<1>1. PICK msgs, m : msgs = sectors[t].msgs /\ m = pos + 1
  OBVIOUS
<1>2. msgs \in Seq(Messages) /\ Len(msgs) \in Nat /\ m \in Nat /\ m <= Len(msgs)
  BY <1>1, LinkedMessages
<1>3. PICK s : s = SubSeq(msgs, 1, m)
  OBVIOUS
<1>4. s \in Seq(Messages) /\ Len(s) = m /\ \A i \in 1 .. m : s[i] = msgs[i]
  <2>1. 1 \in 1 .. Len(msgs) + 1 /\ m \in 1 - 1 .. Len(msgs) /\ (m - 1) + 1 = m
    BY <1>2
  <2>2. /\ s \in Seq(Messages) /\ Len(s) = m - 1 + 1
        /\ \A i \in 1 .. m - 1 + 1 : s[i] = msgs[1 + (i - 1)]
    BY <1>2, <1>3, <2>1, SubSeqIs
  <2>3. m - 1 + 1 = m /\ \A i \in 1 .. m : 1 + (i - 1) = i
    BY <1>2
  <2> QED
    BY <2>2, <2>3
<1>5. PICK r : r = [i \in 1 .. m |-> s[(m - i) + 1]]
  OBVIOUS
<1>6. NewestFirst(t, pos) = r
  BY <1>1, <1>3, <1>4, <1>5 DEF NewestFirst, Reverse
<1>7. \A i \in 1 .. m : (m - i) + 1 \in 1 .. m
  BY <1>2
<1>8. \A i \in 1 .. m : r[i] = msgs[(m - i) + 1] /\ s[(m - i) + 1] \in Messages
  <2>1. DOMAIN s = 1 .. m /\ \A i \in 1 .. m : s[i] \in Messages
    BY <1>4, LenProperties, ElementOfSeq
  <2> QED
    BY <1>4, <1>5, <1>7, <2>1
<1>9. r \in Seq(Messages) /\ Len(r) = m
  <2>1. r \in [1 .. m -> Messages]
    BY <1>5, <1>8
  <2> QED
    BY <1>2, <2>1, FunctionIsSeq
<1> QED
  BY <1>1, <1>6, <1>8, <1>9

(* The list has, in the order of a listing, the messages of sectors a to b *)
(* of the chain that are past the first off of the listing.                *)
Lists(list, c, f, a, b, off) ==
    /\ list \in Seq(Messages) /\ Len(list) = f[b] - off
    /\ \A k \in a .. b : \A j \in 1 .. Len(sectors[c[k]].msgs) :
          (f[k] - j) + 1 > off =>
              /\ ((f[k] - j) + 1) - off \in 1 .. Len(list)
              /\ list[((f[k] - j) + 1) - off] = sectors[c[k]].msgs[j]

LEMMA ListsOne ==
    ASSUME TypeInv, NEW c, NEW f, ChainCounted(c, f), NEW k \in 1 .. Len(c), NEW off \in Nat,
           f[k - 1] <= off, off < f[k], NEW pos, pos = (f[k] - 1) - off
    PROVE  Lists(NewestFirst(c[k], pos), c, f, k, k, off)
<1>1. PICK t, l, a, b : t = c[k] /\ l = Len(sectors[t].msgs) /\ a = f[k - 1] /\ b = f[k]
  OBVIOUS
<1>2. t \in Linked /\ l \in Nat /\ a \in Nat /\ b = a + l /\ a <= off /\ off < b
  BY <1>1, ChainCountedFacts DEF ChainCounted
<1>3. pos \in Int /\ pos + 1 = b - off /\ pos + 1 \in 0 .. l
  <2>1. pos = (b - 1) - off
    BY <1>1
  <2> QED
    BY <1>2, <2>1
<1>4. PICK list : list = NewestFirst(t, pos)
  OBVIOUS
<1>5. /\ list \in Seq(Messages) /\ Len(list) = b - off
      /\ \A i \in 1 .. b - off : list[i] = sectors[t].msgs[((b - off) - i) + 1]
  <2>1. pos + 1 \in 0 .. Len(sectors[t].msgs)
    BY <1>1, <1>3
  <2>2. /\ list \in Seq(Messages) /\ Len(list) = pos + 1
        /\ \A i \in 1 .. pos + 1 : list[i] = sectors[t].msgs[((pos + 1) - i) + 1]
    BY <1>2, <1>3, <1>4, <2>1, NewestFirstIs
  <2> QED
    BY <1>3, <2>2
<1>6. ASSUME NEW j \in 1 .. l, (b - j) + 1 > off
      PROVE  ((b - j) + 1) - off \in 1 .. b - off /\ list[((b - j) + 1) - off] = sectors[t].msgs[j]
  <2>1. PICK i : i = ((b - j) + 1) - off
    OBVIOUS
  <2>2. i \in 1 .. b - off /\ ((b - off) - i) + 1 = j
    BY <1>2, <1>6, <2>1
  <2> QED
    BY <1>5, <2>1, <2>2
<1>7. \A i \in k .. k : i = k
  BY LenProperties DEF ChainCounted
<1> QED
  BY <1>1, <1>4, <1>5, <1>6, <1>7 DEF Lists

LEMMA ListsJoin ==
    ASSUME TypeInv, NEW c, NEW f, ChainCounted(c, f), NEW a \in 1 .. Len(c), NEW b \in 0 .. Len(c),
           NEW d \in 0 .. Len(c), b <= d, NEW off \in Nat, off <= f[b], NEW x, NEW y,
           Lists(x, c, f, a, b, off), Lists(y, c, f, b + 1, d, f[b])
    PROVE  Lists(x \o y, c, f, a, d, off)
<1>1. PICK z, fb, fd : z = x \o y /\ fb = f[b] /\ fd = f[d]
  OBVIOUS
<1>2. /\ x \in Seq(Messages) /\ y \in Seq(Messages) /\ Len(x) = fb - off /\ Len(y) = fd - fb
      /\ fb \in Nat /\ fd \in Nat /\ off <= fb /\ fb <= fd
  BY <1>1, ChainCountedFacts DEF Lists
<1>3. /\ z \in Seq(Messages) /\ Len(z) = fd - off
      /\ \A p \in 1 .. fb - off : z[p] = x[p]
      /\ \A q \in 1 .. fd - fb : z[(fb - off) + q] = y[q]
  <2>1. /\ z \in Seq(Messages) /\ Len(z) = Len(x) + Len(y)
        /\ \A p \in 1 .. Len(x) : z[p] = x[p]
        /\ \A q \in 1 .. Len(y) : z[Len(x) + q] = y[q]
    <3>1. x \in Seq(Messages) /\ y \in Seq(Messages)
      BY <1>2
    <3>2. z = x \o y
      BY <1>1
    <3> QED
      BY <3>1, <3>2, Joined
  <2>2. Len(x) + Len(y) = fd - off
    BY <1>2
  <2>3. Len(x) = fb - off /\ Len(y) = fd - fb
    BY <1>2
  <2> QED
    BY <2>1, <2>2, <2>3
<1>4. ASSUME NEW k \in a .. d, NEW j \in 1 .. Len(sectors[c[k]].msgs), (f[k] - j) + 1 > off
      PROVE  /\ ((f[k] - j) + 1) - off \in 1 .. fd - off
             /\ z[((f[k] - j) + 1) - off] = sectors[c[k]].msgs[j]
  <2>1. PICK v, l, u : v = f[k] /\ l = Len(sectors[c[k]].msgs) /\ u = f[k - 1]
    OBVIOUS
  <2>2. k \in 1 .. Len(c) /\ (k \in a .. b \/ k \in b + 1 .. d)
    BY LenProperties DEF ChainCounted
  <2>3. v \in Nat /\ l \in Nat /\ u \in Nat /\ v = u + l /\ j \in 1 .. l
    BY <2>1, <2>2, ChainCountedFacts
  <2>4. PICK p : p = ((v - j) + 1) - off
    OBVIOUS
  <2>5. CASE k \in a .. b
    <3>1. p \in 1 .. fb - off /\ x[p] = sectors[c[k]].msgs[j]
      BY <1>1, <1>2, <1>4, <2>1, <2>4, <2>5 DEF Lists
    <3>2. p \in 1 .. fd - off
      <4>1. p \in 1 .. fb - off
        BY <3>1
      <4> QED
        BY <1>2, <4>1
    <3> QED
      BY <1>3, <2>1, <2>4, <3>1, <3>2
  <2>6. CASE k \in b + 1 .. d
    <3>1. fb <= u
      <4>1. k - 1 \in 0 .. Len(c) /\ b <= k - 1
        BY <2>2, <2>6, LenProperties DEF ChainCounted
      <4> QED
        BY <1>1, <2>1, <4>1, ChainCountedFacts
    <3>2. PICK q : q = ((v - j) + 1) - fb
      OBVIOUS
    <3>3. (v - j) + 1 > fb /\ p = (fb - off) + q
      BY <1>2, <2>3, <2>4, <3>1, <3>2
    <3>4. q \in 1 .. fd - fb /\ y[q] = sectors[c[k]].msgs[j]
      BY <1>1, <1>2, <2>1, <2>6, <3>2, <3>3 DEF Lists
    <3>5. p \in 1 .. fd - off
      <4>1. q \in 1 .. fd - fb
        BY <3>4
      <4> QED
        BY <1>2, <3>3, <4>1
    <3> QED
      BY <1>3, <2>1, <2>4, <3>3, <3>4, <3>5
  <2> QED
    BY <2>2, <2>5, <2>6
<1> QED
  BY <1>1, <1>3, <1>4 DEF Lists

LEMMA ListsAfter ==
    ASSUME TypeInv, NEW c, NEW f, ChainCounted(c, f), NEW k \in 1 .. Len(c)
    PROVE  Lists(FlattenSeq([i \in 1 .. Len(c) - k |-> NewestFirst(c[k + i], Capacity - 1)]),
                 c, f, k + 1, Len(c), f[k])
<1>1. PICK n, len, seqs :
         /\ n = Len(c) - k /\ len = Len(c)
         /\ seqs = [i \in 1 .. Len(c) - k |-> NewestFirst(c[k + i], Capacity - 1)]
  OBVIOUS
<1>2. len \in Nat /\ n \in Nat /\ k \in 1 .. len /\ len = k + n /\ f[k] \in Nat
  <2>1. len \in Nat /\ f[k] \in Nat
    BY <1>1, ChainCountedFacts
  <2> QED
    BY <1>1, <2>1
<1>3. ASSUME NEW i \in 1 .. n
      PROVE  Lists(seqs[i], c, f, k + i, k + i, f[(k + i) - 1])
  <2>1. k + i \in 1 .. len /\ k + i \in 2 .. len /\ (k + i) - 1 \in 0 .. len
    BY <1>2
  <2>2. PICK a, b : a = f[(k + i) - 1] /\ b = f[k + i]
    OBVIOUS
  <2>3. a \in Nat /\ b \in Nat /\ b = a + Capacity
    <3>1. Len(sectors[c[k + i]].msgs) = Capacity
      BY <1>1, <2>1 DEF ChainCounted
    <3>2. /\ a \in Nat /\ b \in Nat
          /\ b = a + Len(sectors[c[k + i]].msgs)
      BY <1>1, <2>1, <2>2, ChainCountedFacts
    <3> QED
      BY <3>1, <3>2
  <2>4. a < b /\ a <= a /\ Capacity - 1 = (b - 1) - a
    BY <2>3, Sizes
  <2>5. seqs[i] = NewestFirst(c[k + i], Capacity - 1)
    BY <1>1
  <2>6. Lists(NewestFirst(c[k + i], Capacity - 1), c, f, k + i, k + i, a)
    BY <1>1, <2>1, <2>2, <2>3, <2>4, ListsOne
  <2> QED
    BY <2>2, <2>5, <2>6
<1>4. CASE n = 0
  <2>1. seqs = <<>> /\ 1 .. n = {}
    BY <1>1, <1>4
  <2>2. FlattenSeq(seqs) = <<>>
    BY <2>1 DEF FlattenSeq
  <2>3. <<>> \in Seq(Messages) /\ Len(<<>>) = 0 /\ f[len] - f[k] = 0 /\ k + 1 .. len = {}
    BY <1>2, <1>4
  <2> QED
    BY <1>1, <2>2, <2>3 DEF Lists
<1>5. CASE n # 0
  <2>1. n > 0 /\ 1 \in Nat /\ 1 \in 1 .. n /\ n \in 1 .. n
    BY <1>2, <1>5
  <2>2. seqs \in [1 .. n -> Seq(Messages)]
    <3>1. \A i \in 1 .. n : seqs[i] \in Seq(Messages)
      BY <1>3 DEF Lists
    <3>2. seqs = [i \in 1 .. n |-> seqs[i]]
      BY <1>1
    <3> QED
      BY <3>1, <3>2
  <2>3. PICK g : Flattens(g, Messages, n, seqs)
    BY <1>2, <2>1, <2>2, FlattenSteps
  <2> DEFINE S == {i \in 1 .. n : Lists(g[i], c, f, k + 1, k + i, f[k])}
  <2>4. 1 \in S
    <3>1. g[1] = seqs[1] /\ (k + 1) - 1 = k
      BY <1>2, <2>3 DEF Flattens
    <3> QED
      BY <1>3, <2>1, <3>1
  <2>5. ASSUME NEW i \in 1 .. n - 1, i \in S PROVE i + 1 \in S
    <3>1. /\ i + 1 \in 2 .. n /\ i + 1 \in 1 .. n /\ (i + 1) - 1 = i
          /\ k + (i + 1) = (k + i) + 1 /\ (k + (i + 1)) - 1 = k + i
      BY <1>2
    <3>2. g[i + 1] = g[i] \o seqs[i + 1]
      BY <2>3, <3>1 DEF Flattens
    <3>3. Lists(g[i], c, f, k + 1, k + i, f[k])
      BY <2>5
    <3>4. Lists(seqs[i + 1], c, f, (k + i) + 1, k + (i + 1), f[k + i])
      BY <1>3, <3>1
    <3>5. k + 1 \in 1 .. len /\ k + i \in 0 .. len /\ k + (i + 1) \in 0 .. len
          /\ k + i <= k + (i + 1) /\ k \in 0 .. len /\ k <= k + i
      BY <1>2, <3>1
    <3>6. f[k] <= f[k + i]
      BY <1>1, <3>5, ChainCountedFacts
    <3>7. Lists(g[i] \o seqs[i + 1], c, f, k + 1, k + (i + 1), f[k])
      BY <1>1, <1>2, <3>3, <3>4, <3>5, <3>6, ListsJoin
    <3> QED
      BY <3>1, <3>2, <3>7
  <2>6. 1 .. n \subseteq S
    <3> HIDE DEF S
    <3> QED BY <1>2, <2>1, <2>4, <2>5, IntervalInduction
  <2>7. Lists(g[n], c, f, k + 1, k + n, f[k])
    BY <2>1, <2>6
  <2>8. FlattenSeq(seqs) = g[n]
    BY <2>3 DEF Flattens
  <2> QED
    BY <1>1, <1>2, <2>7, <2>8
<1> QED
  BY <1>4, <1>5

(* A sector has at most Capacity messages, and a chat at most all sectors. *)
LEMMA PassedBound ==
    ASSUME TypeInv, NEW c, NEW f, ChainCounted(c, f), Len(c) <= NumSectors
    PROVE  f[Len(c)] < AllMessages
<1>1. PICK n \in Nat : n = Len(c)
  BY ChainCountedFacts
<1> DEFINE S == {k \in 0 .. n : f[k] <= k * Capacity}
<1>2. Capacity \in Nat /\ NumSectors \in Nat /\ 0 \in Nat /\ 0 \in 0 .. n /\ n \in 0 .. n
  BY Sizes
<1>3. 0 \in S
  BY <1>2, ChainCountedFacts
<1>4. ASSUME NEW k \in 0 .. n - 1, k \in S PROVE k + 1 \in S
  <2>1. k + 1 \in 1 .. n /\ k + 1 \in 0 .. n /\ (k + 1) - 1 = k /\ k \in 0 .. n /\ k \in Nat
    BY <1>1
  <2>2. PICK a, b, l : a = f[k] /\ b = f[k + 1] /\ l = Len(sectors[c[k + 1]].msgs)
    OBVIOUS
  <2>3. a \in Nat /\ b \in Nat /\ b = a + l
    BY <1>1, <2>1, <2>2, ChainCountedFacts
  <2>4. l \in 1 .. Capacity
    BY <1>1, <2>1, <2>2, LinkedMessages DEF ChainCounted
  <2>5. a <= k * Capacity
    BY <1>4, <2>2
  <2>6. (k + 1) * Capacity = (k * Capacity) + Capacity /\ k * Capacity \in Nat
    BY <1>2, <2>1
  <2>7. b <= (k * Capacity) + Capacity
    <3> HIDE <2>6
    <3>1. k * Capacity \in Nat
      BY <2>6
    <3> QED
      BY <1>2, <2>3, <2>4, <2>5, <3>1
  <2> QED
    BY <2>1, <2>2, <2>6, <2>7
<1>5. f[n] <= n * Capacity
  <2>1. 0 .. n \subseteq S
    <3> HIDE DEF S
    <3> QED BY <1>2, <1>3, <1>4, IntervalInduction
  <2> QED
    BY <1>2, <2>1
<1>6. n * Capacity \in Nat /\ NumSectors * Capacity \in Nat /\ n * Capacity <= NumSectors * Capacity
  BY <1>1, <1>2, TimesGrows
<1>7. f[n] \in Nat
  BY <1>1, <1>2, ChainCountedFacts
<1>8. AllMessages = (NumSectors * Capacity) + 1
  BY DEF AllMessages
<1> QED
  BY <1>1, <1>5, <1>6, <1>7, <1>8

(* What a read from number start on finds in the chain, if it starts in    *)
(* sector k.                                                               *)
Rest(c, k, start) ==
    NewestFirst(c[k], StartSlot(c, k, start)) \o
    FlattenSeq([i \in 1 .. Len(c) - k |-> NewestFirst(c[k + i], Capacity - 1)])

StartsIn(c, start) == {k \in DOMAIN c : Passed(c, k) > start}
FirstOf(from)      == CHOOSE x \in from : \A y \in from : x <= y

LEMMA GetChatIs ==
    ASSUME NEW h, Chain(h) # <<>>, sectors[Last(Chain(h))].prev = End,
           NEW start \in Nat, NEW n \in Nat \ {0}
    PROVE  LET c    == Chain(h)
               list == Rest(c, FirstOf(StartsIn(c, start)), start)
           IN  GetChat(h, start, n) =
                  IF StartsIn(c, start) = {} THEN [ok |-> FALSE, list |-> <<>>]
                  ELSE IF n <= Len(list) THEN [ok |-> TRUE, list |-> SubSeq(list, 1, n)]
                  ELSE [ok |-> TRUE, list |-> list]
<1>1. n # 0
  OBVIOUS
<1> QED
  BY <1>1 DEF GetChat, Rest, StartsIn, FirstOf

(* A read that starts in the chat returns its messages from there on, the  *)
(* wanted number of them or to the end; one that starts beyond it fails.   *)
LEMMA PageIs ==
    ASSUME TypeInv, NEW h, NEW c, NEW f, ChainCounted(c, f), c = Chain(h), c # <<>>,
           sectors[Last(c)].prev = End, NEW start \in Nat
    PROVE  /\ start >= f[Len(c)] => \A n \in Nat \ {0} : ~GetChat(h, start, n).ok
           /\ start < f[Len(c)] =>
                 \E list : /\ Lists(list, c, f, 1, Len(c), start)
                           /\ \A n \in Nat \ {0} :
                                 /\ GetChat(h, start, n).ok
                                 /\ GetChat(h, start, n).list =
                                       IF n <= Len(list) THEN SubSeq(list, 1, n) ELSE list
<1>1. PICK len, from : len = Len(c) /\ from = StartsIn(c, start)
  OBVIOUS
<1>2. len \in Nat /\ DOMAIN c = 1 .. len
  BY <1>1, ChainCountedFacts
<1>3. \A k \in 1 .. len : Passed(c, k) = f[k] /\ f[k] \in Nat /\ f[k - 1] \in Nat
  <2>1. \A k \in 1 .. len : k \in 0 .. len /\ k - 1 \in 0 .. len
    BY <1>2
  <2> QED
    BY <1>1, <2>1, ChainCountedFacts DEF ChainCounted, PassedUpto
<1>4. from = {k \in 1 .. len : f[k] > start}
  BY <1>1, <1>2, <1>3 DEF StartsIn
<1>5. ASSUME start >= f[len] PROVE from = {}
  <2>1. \A k \in 1 .. len : f[k] <= f[len] /\ f[k] \in Nat /\ f[len] \in Nat
    <3>1. len \in 0 .. len /\ \A k \in 1 .. len : k \in 0 .. len /\ k <= len
      BY <1>2
    <3> QED
      BY <1>1, <3>1, ChainCountedFacts
  <2>2. \A k \in 1 .. len : ~(f[k] > start)
    BY <1>5, <2>1
  <2> QED
    BY <1>4, <2>2
<1>6. ASSUME start < f[len]
      PROVE  \E list : /\ Lists(list, c, f, 1, len, start)
                       /\ \A n \in Nat \ {0} :
                             /\ GetChat(h, start, n).ok
                             /\ GetChat(h, start, n).list =
                                   IF n <= Len(list) THEN SubSeq(list, 1, n) ELSE list
  <2> DEFINE k == FirstOf(from)
             list == Rest(c, k, start)
  <2>1. len \in from /\ from \subseteq Nat
    <3>1. len # 0
      BY <1>1, <1>2, <1>6, ChainCountedFacts
    <3> QED
      BY <1>2, <1>4, <1>6, <3>1
  <2>2. k \in from /\ \A y \in from : k <= y
    <3>1. \E x \in from : \A y \in from : x <= y
      BY <2>1, LeastNatural
    <3> QED
      BY <3>1 DEF FirstOf
  <2>3. \A n \in Nat \ {0} :
           /\ GetChat(h, start, n).ok
           /\ GetChat(h, start, n).list =
                 IF n <= Len(list) THEN SubSeq(list, 1, n) ELSE list
    <3>1. \A n \in Nat \ {0} :
             GetChat(h, start, n) =
                  IF n <= Len(list) THEN [ok |-> TRUE, list |-> SubSeq(list, 1, n)]
                  ELSE [ok |-> TRUE, list |-> list]
      BY <1>1, <2>1, GetChatIs
    <3>2. PICK x : x = list
      OBVIOUS
    <3>3. ASSUME NEW n \in Nat \ {0}
          PROVE  GetChat(h, start, n).ok
                 /\ GetChat(h, start, n).list = IF n <= Len(x) THEN SubSeq(x, 1, n) ELSE x
      <4>1. GetChat(h, start, n) = IF n <= Len(x) THEN [ok |-> TRUE, list |-> SubSeq(x, 1, n)]
                                   ELSE [ok |-> TRUE, list |-> x]
        BY <3>1, <3>2
      <4>2. CASE n <= Len(x)
        BY <4>1, <4>2
      <4>3. CASE ~(n <= Len(x))
        BY <4>1, <4>3
      <4> QED
        BY <4>2, <4>3
    <3> QED
      BY <3>2, <3>3
  <2> HIDE DEF k
  <2>4. k \in 1 .. len /\ f[k] > start /\ f[k - 1] <= start
    <3>1. k \in 1 .. len /\ f[k] > start
      BY <1>4, <2>2
    <3>2. k - 1 \notin from
      BY <2>1, <2>2, <3>1
    <3>3. k - 1 \in 1 .. len \/ k - 1 = 0
      BY <1>2, <3>1
    <3>4. f[0] = 0
      BY <1>1, ChainCountedFacts
    <3> QED
      BY <1>3, <1>4, <3>1, <3>2, <3>3, <3>4
  <2>5. StartSlot(c, k, start) = (f[k] - 1) - start
    BY <1>3, <2>4 DEF StartSlot
  <2>6. Lists(NewestFirst(c[k], StartSlot(c, k, start)), c, f, k, k, start)
    <3>1. f[k - 1] <= start /\ start < f[k]
      BY <1>3, <2>4
    <3> QED
      BY <1>1, <2>4, <2>5, <3>1, ListsOne
  <2>7. Lists(FlattenSeq([i \in 1 .. len - k |-> NewestFirst(c[k + i], Capacity - 1)]),
              c, f, k + 1, len, f[k])
    BY <1>1, <2>4, ListsAfter
  <2>8. Lists(list, c, f, k, len, start)
    <3>1. k \in 0 .. len /\ len \in 0 .. len /\ k <= len /\ start <= f[k]
      BY <1>2, <1>3, <2>4
    <3>2. list = NewestFirst(c[k], StartSlot(c, k, start)) \o
                 FlattenSeq([i \in 1 .. len - k |-> NewestFirst(c[k + i], Capacity - 1)])
      BY <1>1 DEF Rest
    <3> HIDE DEF list
    <3> QED
      BY <1>1, <2>4, <2>6, <2>7, <3>1, <3>2, ListsJoin
  <2>9. ASSUME NEW i \in 1 .. len, i \notin k .. len, NEW j \in 1 .. Len(sectors[c[i]].msgs)
        PROVE  ~((f[i] - j) + 1 > start)
    <3>1. i \in 0 .. len /\ k - 1 \in 0 .. len /\ i <= k - 1
      BY <1>2, <2>4, <2>9
    <3>2. f[i] <= f[k - 1] /\ f[i] \in Nat /\ f[k - 1] \in Nat
      BY <1>1, <3>1, ChainCountedFacts
    <3>3. j \in Nat /\ j > 0
      BY <1>1, ChainCountedFacts
    <3> QED
      BY <2>4, <3>2, <3>3
  <2>10. Lists(list, c, f, 1, len, start)
    <3> HIDE DEF list
    <3> QED
      BY <2>8, <2>9 DEF Lists
  <2> QED
    BY <2>3, <2>10
<1>7. ASSUME start >= f[len], NEW n \in Nat \ {0} PROVE ~GetChat(h, start, n).ok
  <2>1. StartsIn(c, start) = {}
    BY <1>1, <1>5, <1>7
  <2>2. GetChat(h, start, n) = [ok |-> FALSE, list |-> <<>>]
    BY <2>1, GetChatIs
  <2> QED
    BY <2>2
<1> QED
  BY <1>1, <1>6, <1>7

-----------------------------------------------------------------------------
(* The listing of a phone, in a whole database.                            *)

LEMMA WholeMeans ==
    ASSUME StoreInv, Whole
    PROVE  /\ TypeInv /\ WholeInv /\ op.kind = "idle"
           /\ \A t \in Sectors : sectors[t].used <=> t \in Linked
           /\ Linked \subseteq Sectors
           /\ \A p \in Phones : entries[p] # None => HeadOf(p)
<1>1. TypeInv /\ WholeInv /\ op.kind = "idle"
  BY OpKinds DEF StoreInv, Whole
<1>2. Pending = {}
  BY <1>1 DEF Pending
<1> QED
  BY <1>1, <1>2 DEF Linked, WholeInv, HeadsInv

(* Every linked sector is of a contact, which has an entry.                *)
LEMMA SectorsContact ==
    ASSUME StoreInv, Whole, NEW t \in Linked, NEW s, s = sectors[t].slot
    PROVE  /\ s \in Slots /\ contacts[s].used /\ contacts[s].phone \in Phones
           /\ entries[contacts[s].phone] # None /\ entries[contacts[s].phone].slot = s
<1>1. s \in Slots
  BY WholeMeans, LinkedFacts, ContentsFacts
<1>2. contacts[s].used
  BY WholeMeans DEF WholeInv, ChainsInv
<1> QED
  BY <1>1, <1>2, WholeMeans DEF WholeInv, ContactsInv, EntriesInv

(* The sectors that name the slot of a contact are its chat.               *)
LEMMA OwnSectors ==
    ASSUME StoreInv, Whole, NEW p \in Phones, NEW t \in Linked
    PROVE  contacts[sectors[t].slot].phone = p
                 <=> entries[p] # None /\ t \in Chat(entries[p].slot)
<1>1. PICK s : s = sectors[t].slot
  OBVIOUS
<1>2. /\ s \in Slots /\ contacts[s].used /\ contacts[s].phone \in Phones
      /\ entries[contacts[s].phone] # None /\ entries[contacts[s].phone].slot = s
  BY <1>1, SectorsContact
<1>3. ASSUME contacts[s].phone = p PROVE entries[p] # None /\ t \in Chat(entries[p].slot)
  BY <1>1, <1>2, <1>3 DEF Chat
<1>4. ASSUME entries[p] # None, t \in Chat(entries[p].slot) PROVE contacts[s].phone = p
  <2>1. contacts[entries[p].slot] = Stored(p)
    BY <1>4, WholeMeans DEF WholeInv, EntriesInv
  <2>2. entries[p].slot = s
    BY <1>1, <1>4 DEF Chat
  <2> QED
    BY <2>1, <2>2 DEF Stored
<1> QED
  BY <1>1, <1>2, <1>3, <1>4

(* A phone without a chat lists nothing; any other lists the chain from    *)
(* its head, which is its whole chat.                                      *)
Chatless(p) ==
    /\ entries[p] = None \/ entries[p].latest = End
    /\ Listing(p).ok /\ Listing(p).list = <<>>
    /\ \A t \in Linked : contacts[sectors[t].slot].phone # p

Lists0(p, h, c, f) ==
    /\ entries[p] # None /\ h = entries[p].latest /\ h \in Linked /\ IsHead(h)
    /\ c = Chain(h) /\ c # <<>> /\ sectors[Last(c)].prev = End
    /\ ChainCounted(c, f)
    /\ \A t \in Linked : contacts[sectors[t].slot].phone = p <=> t \in ToSet(c)
    /\ Listing(p).ok /\ Lists(Listing(p).list, c, f, 1, Len(c), 0)

LEMMA ListingIs ==
    ASSUME StoreInv, Whole, NEW p \in Phones
    PROVE  Chatless(p) \/ \E h, c, f : Lists0(p, h, c, f)
<1>1. CASE entries[p] = None
  BY <1>1, OwnSectors DEF Chatless, Listing
<1>2. CASE entries[p] # None /\ entries[p].latest = End
  <2>1. Chat(entries[p].slot) = {}
    BY <1>2, WholeMeans DEF HeadOf
  <2> QED
    BY <1>2, <2>1, OwnSectors DEF Chatless, Listing
<1>3. CASE entries[p] # None /\ entries[p].latest # End
  <2>1. PICK h, c, s : h = entries[p].latest /\ c = Chain(h) /\ s = entries[p].slot
    OBVIOUS
  <2>2. TypeInv /\ ChainsInv /\ h \in Chat(s) /\ h \in Linked /\ IsHead(h) /\ sectors[h].slot = s
    <3>1. h \in Chat(s) /\ IsHead(h)
      BY <1>3, <2>1, WholeMeans DEF HeadOf
    <3> QED
      BY <3>1, WholeMeans DEF Chat, WholeInv
  <2>3. /\ WalkInv(c, h) /\ c # <<>> /\ sectors[Last(c)].prev = End
        /\ Len(c) <= NumSectors /\ ToSet(c) = Chat(s)
    BY <2>1, <2>2, ChainIs
  <2>4. c \in Seq(Sectors) /\ Len(c) \in Nat /\ DOMAIN c = 1 .. Len(c)
    BY <2>3, LenProperties DEF WalkInv
  <2>5. PICK f : PassedUpto(f, c)
    BY <2>2, <2>4, PassedSteps
  <2>6. ChainCounted(c, f)
    <3>1. \A i \in 2 .. Len(c) : i \in DOMAIN c /\ i > 1
      BY <2>4
    <3>2. \A i \in 1 .. Len(c) : c[i] \in Linked
      BY <2>3, <2>4 DEF WalkInv, Chat
    <3>3. \A i \in 2 .. Len(c) : Len(sectors[c[i]].msgs) = Capacity
      BY <2>3, <3>1 DEF WalkInv
    <3>4. \A i, j \in 1 .. Len(c) : i < j => Older(c[j], c[i])
      BY <2>3, <2>4 DEF WalkInv
    <3> QED
      BY <2>4, <2>5, <3>2, <3>3, <3>4 DEF ChainCounted
  <2>7. \A t \in Linked : contacts[sectors[t].slot].phone = p <=> t \in ToSet(c)
    BY <1>3, <2>1, <2>3, OwnSectors
  <2>8. f[Len(c)] < AllMessages /\ f[Len(c)] \in Nat /\ 0 < f[Len(c)]
    <3>1. f[Len(c)] < AllMessages
      BY <2>2, <2>3, <2>6, PassedBound
    <3>2. Len(c) \in 1 .. Len(c)
      BY <2>3, <2>4, EmptySeq
    <3>3. Len(c) \in 0 .. Len(c) /\ Len(c) - 1 \in 0 .. Len(c)
      BY <2>4, <3>2
    <3>4. f[Len(c)] \in Nat /\ f[Len(c) - 1] \in Nat /\ f[Len(c) - 1] < f[Len(c)]
      BY <2>2, <2>6, <3>2, <3>3, ChainCountedFacts
    <3> QED
      BY <3>1, <3>4
  <2>9. PICK list :
           /\ Lists(list, c, f, 1, Len(c), 0)
           /\ \A n \in Nat \ {0} :
                 /\ GetChat(h, 0, n).ok
                 /\ GetChat(h, 0, n).list = IF n <= Len(list) THEN SubSeq(list, 1, n) ELSE list
    <3>1. 0 \in Nat
      OBVIOUS
    <3> QED
      BY <2>1, <2>2, <2>3, <2>6, <2>8, <3>1, PageIs
  <2>10. AllMessages \in Nat \ {0} /\ ~(AllMessages <= Len(list))
    <3>1. NumSectors * Capacity \in Nat
      BY Sizes
    <3>2. AllMessages \in Nat \ {0}
      BY <3>1 DEF AllMessages
    <3>3. Len(list) = f[Len(c)] - 0
      BY <2>9 DEF Lists
    <3> QED
      BY <2>8, <3>2, <3>3
  <2>11. Listing(p) = GetChat(h, 0, AllMessages)
    BY <1>3, <2>1 DEF Listing
  <2>12. Listing(p).ok /\ Listing(p).list = list
    BY <2>9, <2>10, <2>11
  <2>13. Lists0(p, h, c, f)
    BY <1>3, <2>1, <2>2, <2>3, <2>6, <2>7, <2>9, <2>12 DEF Lists0
  <2> QED
    BY <2>13
<1> QED
  BY <1>1, <1>2, <1>3

Descends(list) == \A i, j \in DOMAIN list : i < j => list[j] < list[i]

(* A listing is in the order of the messages, newest first.                *)
LEMMA ListingDescends ==
    ASSUME StoreInv, Whole, NEW p \in Phones
    PROVE  /\ Listing(p).list \in Seq(Messages)
           /\ Descends(Listing(p).list)
<1>1. PICK list : list = Listing(p).list
  OBVIOUS
<1>2. CASE Chatless(p)
  <2>1. list = <<>>
    BY <1>1, <1>2 DEF Chatless
  <2>2. <<>> \in Seq(Messages) /\ DOMAIN <<>> = {}
    OBVIOUS
  <2> QED
    BY <1>1, <2>1, <2>2 DEF Descends
<1>3. ASSUME NEW h, NEW c, NEW f, Lists0(p, h, c, f)
      PROVE  list \in Seq(Messages) /\ Descends(list)
  <2>1. TypeInv /\ ChainCounted(c, f) /\ Lists(list, c, f, 1, Len(c), 0)
    BY <1>1, <1>3, WholeMeans DEF Lists0
  <2>2. /\ list \in Seq(Messages) /\ Len(list) = f[Len(c)] /\ DOMAIN list = 1 .. f[Len(c)]
    <3>1. Len(c) \in 0 .. Len(c) /\ f[Len(c)] \in Nat
      BY <2>1, ChainCountedFacts
    <3>2. list \in Seq(Messages) /\ Len(list) = f[Len(c)] - 0
      BY <2>1 DEF Lists
    <3>3. Len(list) = f[Len(c)]
      BY <3>1, <3>2
    <3> QED
      BY <3>2, <3>3, LenProperties
  <2>3. ASSUME NEW n1 \in DOMAIN list, NEW n2 \in DOMAIN list, n1 < n2 PROVE list[n2] < list[n1]
    <3>1. PICK k1 \in 1 .. Len(c) : \E j1 \in 1 .. Len(sectors[c[k1]].msgs) :
             n1 = (f[k1] - j1) + 1 /\ f[k1 - 1] < n1 /\ n1 <= f[k1]
      BY <2>1, <2>2, Coordinates
    <3>1a. PICK j1 \in 1 .. Len(sectors[c[k1]].msgs) :
             n1 = (f[k1] - j1) + 1 /\ f[k1 - 1] < n1 /\ n1 <= f[k1]
      BY <3>1
    <3>2. PICK k2 \in 1 .. Len(c) : \E j2 \in 1 .. Len(sectors[c[k2]].msgs) :
             n2 = (f[k2] - j2) + 1 /\ f[k2 - 1] < n2 /\ n2 <= f[k2]
      BY <2>1, <2>2, Coordinates
    <3>2a. PICK j2 \in 1 .. Len(sectors[c[k2]].msgs) :
             n2 = (f[k2] - j2) + 1 /\ f[k2 - 1] < n2 /\ n2 <= f[k2]
      BY <3>2
    <3>3. /\ f[k1] \in Nat /\ f[k2] \in Nat /\ f[k1 - 1] \in Nat /\ j1 \in Nat /\ j2 \in Nat
          /\ n1 \in Nat /\ n2 \in Nat /\ n1 > 0 /\ n2 > 0
      <4>1. /\ k1 \in 0 .. Len(c) /\ k1 - 1 \in 0 .. Len(c) /\ k2 \in 0 .. Len(c)
            /\ Len(sectors[c[k1]].msgs) \in Nat /\ Len(sectors[c[k2]].msgs) \in Nat
        BY <2>1, ChainCountedFacts
      <4>2. f[k1] \in Nat /\ f[k2] \in Nat /\ f[k1 - 1] \in Nat /\ f[Len(c)] \in Nat
        BY <2>1, <4>1, ChainCountedFacts
      <4>3. j1 \in Nat /\ j2 \in Nat
        BY <4>1
      <4>4. PICK total \in Nat : total = f[Len(c)]
        BY <4>2
      <4>5. n1 \in 1 .. total /\ n2 \in 1 .. total
        BY <2>2, <4>4
      <4>6. n1 \in Nat /\ n2 \in Nat /\ n1 > 0 /\ n2 > 0
        BY <4>5
      <4> QED
        BY <4>2, <4>3, <4>6
    <3>4. /\ list[n1] = sectors[c[k1]].msgs[j1]
          /\ list[n2] = sectors[c[k2]].msgs[j2]
      <4>1. (f[k1] - j1) + 1 > 0 /\ (f[k2] - j2) + 1 > 0 /\ n1 - 0 = n1 /\ n2 - 0 = n2
        <5>1. n1 - 0 = n1 /\ n2 - 0 = n2
          BY <3>3
        <5> QED
          BY <3>1a, <3>2a, <3>3, <5>1
      <4> QED
        BY <2>1, <3>1a, <3>2a, <4>1 DEF Lists
    <3>5. k1 <= k2
      <4> SUFFICES ASSUME k2 < k1 PROVE FALSE
        BY ChainCountedFacts, <2>1
      <4>1. k2 \in 0 .. Len(c) /\ k1 - 1 \in 0 .. Len(c) /\ k2 <= k1 - 1
        BY <2>1, ChainCountedFacts
      <4>2. f[k2] <= f[k1 - 1]
        BY <2>1, <4>1, ChainCountedFacts
      <4>3. f[k1 - 1] < n1 /\ n2 <= f[k2] /\ n1 < n2
        BY <2>3, <3>1a, <3>2a
      <4> QED
        BY <3>3, <4>2, <4>3
    <3>6. CASE k1 < k2
      <4>1. Older(c[k2], c[k1])
        BY <2>1, <3>6 DEF ChainCounted
      <4>2. /\ DOMAIN sectors[c[k1]].msgs = 1 .. Len(sectors[c[k1]].msgs)
            /\ DOMAIN sectors[c[k2]].msgs = 1 .. Len(sectors[c[k2]].msgs)
        BY <2>1, LinkedMessages DEF ChainCounted
      <4>3. sectors[c[k2]].msgs[j2] < sectors[c[k1]].msgs[j1]
        BY <4>1, <4>2 DEF Older
      <4> QED
        BY <3>4, <4>3
    <3>7. CASE k1 = k2
      <4>1. j2 < j1
        BY <2>3, <3>1a, <3>2a, <3>3, <3>7
      <4>2. c[k1] \in Linked /\ c[k1] \in Sectors /\ sectors[c[k1]].used
        BY <2>1, LinkedFacts DEF ChainCounted
      <4>3. StoredInv(c[k1])
        BY <4>2, WholeMeans DEF WholeInv, MessagesInv
      <4>4. DOMAIN sectors[c[k1]].msgs = 1 .. Len(sectors[c[k1]].msgs)
        BY <2>1, <4>2, LinkedMessages
      <4>5. sectors[c[k1]].msgs[j2] < sectors[c[k1]].msgs[j1]
        BY <3>7, <4>1, <4>3, <4>4 DEF StoredInv
      <4> QED
        BY <3>4, <3>7, <4>5
    <3> QED
      BY <2>1, <3>5, <3>6, <3>7, ChainCountedFacts
  <2> QED
    BY <2>2, <2>3 DEF Descends
<1> QED
  BY <1>1, <1>2, <1>3, ListingIs

(* A listing has the messages of the phone's sectors, and no others.       *)
LEMMA ListingHolds ==
    ASSUME StoreInv, Whole, NEW p \in Phones, NEW m
    PROVE  m \in ToSet(Listing(p).list) <=> Holds(p, m)
<1>1. PICK list : list = Listing(p).list
  OBVIOUS
<1>2. CASE Chatless(p)
  <2>1. list = <<>> /\ ToSet(<<>>) = {}
    BY <1>1, <1>2 DEF Chatless, ToSet
  <2>2. ~Holds(p, m)
    BY <1>2 DEF Chatless, Holds
  <2> QED
    BY <1>1, <2>1, <2>2
<1>3. ASSUME NEW h, NEW c, NEW f, Lists0(p, h, c, f)
      PROVE  m \in ToSet(list) <=> Holds(p, m)
  <2>1. /\ TypeInv /\ ChainCounted(c, f) /\ Lists(list, c, f, 1, Len(c), 0)
        /\ \A t \in Linked : contacts[sectors[t].slot].phone = p <=> t \in ToSet(c)
    BY <1>1, <1>3, WholeMeans DEF Lists0
  <2>2. list \in Seq(Messages) /\ DOMAIN list = 1 .. Len(list) /\ DOMAIN list = 1 .. f[Len(c)]
    <3>1. Len(c) \in 0 .. Len(c) /\ f[Len(c)] \in Nat
      BY <2>1, ChainCountedFacts
    <3>2. list \in Seq(Messages) /\ Len(list) = f[Len(c)] - 0
      BY <2>1 DEF Lists
    <3>3. Len(list) = f[Len(c)]
      BY <3>1, <3>2
    <3> QED
      BY <3>2, <3>3, LenProperties
  <2>3. \A k \in 1 .. Len(c) : /\ c[k] \in Linked /\ c[k] \in ToSet(c)
                               /\ DOMAIN sectors[c[k]].msgs = 1 .. Len(sectors[c[k]].msgs)
    <3>1. DOMAIN c = 1 .. Len(c)
      BY <2>1, ChainCountedFacts
    <3> QED
      BY <2>1, <3>1, LinkedMessages DEF ChainCounted, ToSet
  <2>4. ASSUME NEW k \in 1 .. Len(c), NEW j \in 1 .. Len(sectors[c[k]].msgs)
        PROVE  /\ (f[k] - j) + 1 \in DOMAIN list
               /\ list[(f[k] - j) + 1] = sectors[c[k]].msgs[j]
    <3>1. PICK a, b, l, n : /\ a = f[k - 1] /\ b = f[k] /\ l = Len(sectors[c[k]].msgs)
                            /\ n = (f[k] - j) + 1
      OBVIOUS
    <3>2. a \in Nat /\ b \in Nat /\ l \in Nat /\ b = a + l /\ j \in 1 .. l
      BY <2>1, <3>1, ChainCountedFacts
    <3>3. n > 0 /\ n - 0 = n
      <4>1. n = (b - j) + 1
        BY <3>1
      <4> QED
        BY <3>2, <4>1
    <3>4. n - 0 \in 1 .. Len(list) /\ list[n - 0] = sectors[c[k]].msgs[j]
      BY <2>1, <3>1, <3>3 DEF Lists
    <3> QED
      BY <2>2, <3>1, <3>3, <3>4
  <2>5. ASSUME m \in ToSet(list) PROVE Holds(p, m)
    <3>1. PICK n \in 1 .. f[Len(c)] : list[n] = m
      BY <2>2, <2>5 DEF ToSet
    <3>2. PICK k \in 1 .. Len(c) : \E j \in 1 .. Len(sectors[c[k]].msgs) : n = (f[k] - j) + 1
      BY <2>1, Coordinates
    <3>3. PICK j \in 1 .. Len(sectors[c[k]].msgs) : n = (f[k] - j) + 1
      BY <3>2
    <3>4. m = sectors[c[k]].msgs[j]
      BY <2>4, <3>1, <3>3
    <3> QED
      BY <2>1, <2>3, <3>4 DEF Holds
  <2>6. ASSUME Holds(p, m) PROVE m \in ToSet(list)
    <3>1. PICK t \in Linked : /\ contacts[sectors[t].slot].phone = p
                              /\ \E i \in DOMAIN sectors[t].msgs : sectors[t].msgs[i] = m
      BY <2>6 DEF Holds
    <3>2. PICK j \in DOMAIN sectors[t].msgs : sectors[t].msgs[j] = m
      BY <3>1
    <3>3. PICK k \in 1 .. Len(c) : c[k] = t
      <4>1. t \in ToSet(c) /\ DOMAIN c = 1 .. Len(c)
        BY <2>1, <3>1, ChainCountedFacts
      <4> QED
        BY <4>1 DEF ToSet
    <3> QED
      BY <2>3, <2>4, <3>2, <3>3 DEF ToSet
  <2> QED
    BY <2>5, <2>6
<1> QED
  BY <1>1, <1>2, <1>3, ListingIs

-----------------------------------------------------------------------------
(* The properties of a whole database.                                     *)

LEMMA AcknowledgedListedHere ==
    ASSUME StoreInv PROVE AcknowledgedListed
<1> SUFFICES ASSUME Whole, NEW p \in Phones, p \notin removing
             PROVE  Listing(p).ok /\ HasInOrder(Listing(p).list, kept[p])
  BY DEF AcknowledgedListed, ListsAcknowledged
<1>1. Listing(p).ok
  BY ListingIs DEF Chatless, Lists0
<1>2. PICK list, wanted : list = Listing(p).list /\ wanted = kept[p]
  OBVIOUS
<1>3. TypeInv /\ KeptInv
  BY WholeMeans DEF WholeInv
<1>4. /\ list \in Seq(Messages) /\ Descends(list)
      /\ DOMAIN list \subseteq Nat /\ \A k \in DOMAIN list : list[k] \in Nat
  <2>1. list \in Seq(Messages) /\ Descends(list)
    BY <1>2, ListingDescends
  <2>2. DOMAIN list = 1 .. Len(list) /\ \A k \in 1 .. Len(list) : list[k] \in Messages
    <3>1. list \in Seq(Messages)
      BY <2>1
    <3> QED
      BY <3>1, LenProperties, ElementOfSeq
  <2>3. Messages \subseteq Nat
    BY DEF Messages
  <2>4. \A k \in DOMAIN list : list[k] \in Nat
    BY <2>2, <2>3
  <2> QED
    BY <2>1, <2>2, <2>4
<1>5. DOMAIN wanted \subseteq Nat
  <2>1. wanted \in Seq(Messages)
    BY <1>2, <1>3 DEF TypeInv
  <2> QED
    BY <2>1, LenProperties
<1>6. \A i, j \in DOMAIN wanted : i < j => wanted[j] < wanted[i]
  BY <1>2, <1>3 DEF KeptInv
<1>7. ASSUME NEW i \in DOMAIN wanted
      PROVE  \E k \in DOMAIN list :
                /\ list[k] = wanted[i]
                /\ \A j \in DOMAIN wanted, l \in DOMAIN list :
                      list[l] = wanted[j] => (j < i => l < k) /\ (j = i => l = k)
  <2>1. Holds(p, wanted[i])
    BY <1>2, <1>3 DEF KeptInv
  <2>2. wanted[i] \in ToSet(list)
    BY <1>2, <2>1, ListingHolds
  <2>3. PICK k \in DOMAIN list : list[k] = wanted[i]
    BY <2>2 DEF ToSet
  <2>4. ASSUME NEW j \in DOMAIN wanted, NEW l \in DOMAIN list, list[l] = wanted[j]
        PROVE  (j < i => l < k) /\ (j = i => l = k)
    <3>1. k \in Nat /\ l \in Nat /\ list[k] \in Nat /\ list[l] \in Nat
      BY <1>4
    <3>2. (k < l => list[l] < list[k]) /\ (l < k => list[k] < list[l])
      BY <1>4 DEF Descends
    <3>3. j < i => list[k] < list[l]
      BY <1>6, <2>3, <2>4
    <3>4. j = i => list[k] = list[l]
      BY <2>3, <2>4
    <3>5. k < l \/ l < k \/ k = l
      BY <3>1
    <3>6. \A a, b \in Nat : a < b => ~(b < a) /\ a # b
      OBVIOUS
    <3> QED
      BY <3>1, <3>2, <3>3, <3>4, <3>5, <3>6
  <2> QED
    BY <2>3, <2>4
<1> QED
  BY <1>1, <1>2, <1>7 DEF HasInOrder

LEMMA PagesAreSlicesHere ==
    ASSUME StoreInv PROVE PagesAreSlices
<1> DEFINE Last1(start, n, len) == IF start + n < len THEN start + n ELSE len
<1> SUFFICES ASSUME Whole, NEW p \in Phones, Listing(p).list # <<>>,
                    NEW start \in 0 .. Len(Listing(p).list), NEW n \in 1 .. Capacity + 2
             PROVE  LET all  == Listing(p).list
                        page == GetChat(entries[p].latest, start, n)
                    IN  IF start < Len(all)
                        THEN page.ok /\ page.list = SubSeq(all, start + 1, Last1(start, n, Len(all)))
                        ELSE ~page.ok
  BY DEF PagesAreSlices
<1>1. PICK h, c, f : Lists0(p, h, c, f)
  BY ListingIs DEF Chatless
<1>2. PICK all, page, total :
         /\ all = Listing(p).list /\ page = GetChat(entries[p].latest, start, n)
         /\ total = f[Len(c)]
  OBVIOUS
<1>3. /\ TypeInv /\ ChainCounted(c, f) /\ Lists(all, c, f, 1, Len(c), 0)
      /\ h = entries[p].latest /\ c = Chain(h) /\ c # <<>> /\ sectors[Last(c)].prev = End
  BY <1>1, <1>2, WholeMeans DEF Lists0
<1>4. /\ all \in Seq(Messages) /\ Len(all) = total /\ total \in Nat
      /\ start \in Nat /\ start <= total /\ n \in Nat \ {0}
  <2>1. Len(c) \in 0 .. Len(c) /\ f[Len(c)] \in Nat
    BY <1>3, ChainCountedFacts
  <2>2. all \in Seq(Messages) /\ Len(all) = f[Len(c)] - 0
    BY <1>3 DEF Lists
  <2>3. Len(all) = total /\ total \in Nat
    BY <1>2, <2>1, <2>2
  <2>4. start \in 0 .. total
    BY <1>2, <2>3
  <2>5. n \in Nat \ {0}
    BY Sizes
  <2> QED
    BY <2>2, <2>3, <2>4, <2>5
<1>5. CASE start >= total
  <2>1. ~page.ok
    BY <1>2, <1>3, <1>4, <1>5, PageIs
  <2>2. ~(start < Len(all))
    BY <1>4, <1>5
  <2> QED
    BY <1>2, <2>1, <2>2
<1>6. CASE start < total
  <2>1. PICK list :
           /\ Lists(list, c, f, 1, Len(c), start)
           /\ page.ok /\ page.list = IF n <= Len(list) THEN SubSeq(list, 1, n) ELSE list
    <3>1. \E list : /\ Lists(list, c, f, 1, Len(c), start)
                    /\ \A m \in Nat \ {0} :
                          /\ GetChat(h, start, m).ok
                          /\ GetChat(h, start, m).list =
                                IF m <= Len(list) THEN SubSeq(list, 1, m) ELSE list
      <4>1. start < f[Len(c)] /\ start \in Nat
        BY <1>2, <1>4, <1>6
      <4>2. /\ TypeInv /\ ChainCounted(c, f)
            /\ c = Chain(h) /\ c # <<>> /\ sectors[Last(c)].prev = End
        BY <1>3
      <4> QED
        BY <4>1, <4>2, PageIs
    <3>2. page = GetChat(h, start, n) /\ n \in Nat \ {0}
      BY <1>2, <1>3, <1>4
    <3> QED
      BY <3>1, <3>2
  <2>2. list \in Seq(Messages) /\ Len(list) = total - start
    BY <1>2, <2>1 DEF Lists
  <2>3. ASSUME NEW i \in 1 .. total - start PROVE list[i] = all[start + i]
    <3>1. start + i \in 1 .. f[Len(c)]
      BY <1>2, <1>4
    <3>2. PICK k \in 1 .. Len(c) : \E j \in 1 .. Len(sectors[c[k]].msgs) : start + i = (f[k] - j) + 1
      <4>1. PICK x \in 1 .. f[Len(c)] : x = start + i
        BY <3>1
      <4>2. \E k \in 1 .. Len(c) : \E j \in 1 .. Len(sectors[c[k]].msgs) : x = (f[k] - j) + 1
        <5>1. TypeInv /\ ChainCounted(c, f)
          BY <1>3
        <5> QED
          BY <5>1, Coordinates
      <4> QED
        BY <4>1, <4>2
    <3>3. PICK j \in 1 .. Len(sectors[c[k]].msgs) : start + i = (f[k] - j) + 1
      BY <3>2
    <3>4. /\ (f[k] - j) + 1 > start /\ ((f[k] - j) + 1) - start = i
          /\ (f[k] - j) + 1 > 0 /\ ((f[k] - j) + 1) - 0 = start + i
      BY <1>4, <3>3
    <3>5. list[((f[k] - j) + 1) - start] = sectors[c[k]].msgs[j]
      BY <2>1, <3>4 DEF Lists
    <3>6. all[((f[k] - j) + 1) - 0] = sectors[c[k]].msgs[j]
      BY <1>3, <3>4 DEF Lists
    <3> QED
      BY <3>4, <3>5, <3>6
  <2> DEFINE last == Last1(start, n, total)
             slice == SubSeq(all, start + 1, last)
  <2>4. last \in Nat /\ start + 1 <= last /\ last <= total
        /\ (n <= total - start => last - start = n)
        /\ (~(n <= total - start) => last = total)
    BY <1>4, <1>6
  <2> HIDE DEF last
  <2>5. /\ slice \in Seq(Messages) /\ Len(slice) = last - start
        /\ \A i \in 1 .. last - start : slice[i] = all[start + i]
    <3>1. start + 1 \in 1 .. Len(all) + 1 /\ last \in (start + 1) - 1 .. Len(all)
      BY <1>4, <2>4
    <3>2. /\ slice \in Seq(Messages) /\ Len(slice) = last - (start + 1) + 1
          /\ \A i \in 1 .. last - (start + 1) + 1 : slice[i] = all[(start + 1) + (i - 1)]
      <4> HIDE DEF slice
      <4>1. slice = SubSeq(all, start + 1, last)
        BY DEF slice
      <4> QED
        BY <1>4, <3>1, <4>1, SubSeqIs
    <3>3. last - (start + 1) + 1 = last - start
          /\ \A i \in 1 .. last - start : (start + 1) + (i - 1) = start + i
      BY <1>4, <2>4
    <3> QED
      BY <3>2, <3>3
  <2> HIDE DEF slice
  <2>6. page.list = slice
    <3>1. CASE n <= total - start
      <4>1. 1 \in 1 .. Len(list) + 1 /\ n \in 1 - 1 .. Len(list) /\ (n - 1) + 1 = n
        BY <1>4, <2>2, <3>1
      <4>2. /\ SubSeq(list, 1, n) \in Seq(Messages) /\ Len(SubSeq(list, 1, n)) = n - 1 + 1
            /\ \A i \in 1 .. n - 1 + 1 : SubSeq(list, 1, n)[i] = list[1 + (i - 1)]
        BY <2>2, <4>1, SubSeqIs
      <4>3. n - 1 + 1 = n /\ \A i \in 1 .. n : 1 + (i - 1) = i /\ i \in 1 .. total - start
        BY <1>4, <3>1
      <4>4. page.list = SubSeq(list, 1, n)
        BY <2>1, <2>2, <3>1
      <4>5. /\ page.list \in Seq(Messages) /\ Len(page.list) = n
            /\ \A i \in 1 .. n : page.list[i] = all[start + i]
        BY <2>3, <4>2, <4>3, <4>4
      <4>6. last - start = n
        BY <2>4, <3>1
      <4>7. /\ page.list \in Seq(Messages) /\ slice \in Seq(Messages)
            /\ Len(page.list) = Len(slice)
            /\ \A i \in 1 .. Len(page.list) : page.list[i] = slice[i]
        BY <2>5, <4>5, <4>6
      <4> QED
        BY <4>7, SeqEqual
    <3>2. CASE ~(n <= total - start)
      <4>1. page.list = list
        BY <2>1, <2>2, <3>2
      <4>2. last - start = total - start
        BY <2>4, <3>2
      <4>3. /\ list \in Seq(Messages) /\ slice \in Seq(Messages)
            /\ Len(list) = Len(slice)
            /\ \A i \in 1 .. Len(list) : list[i] = slice[i]
        BY <2>2, <2>3, <2>5, <4>2
      <4> QED
        BY <4>1, <4>3, SeqEqual
    <3> QED
      BY <3>1, <3>2
  <2>7. page.list = SubSeq(all, start + 1, Last1(start, n, Len(all)))
    BY <1>4, <2>6 DEF slice, last
  <2>8. start < Len(all)
    BY <1>4, <1>6
  <2> HIDE DEF Last1
  <2> QED
    BY <1>2, <2>1, <2>7, <2>8
<1> QED
  BY <1>4, <1>5, <1>6

LEMMA ListingsRight ==
    ASSUME StoreInv PROVE ChatsNotMixed /\ RemovedStaysRemoved
<1> SUFFICES ASSUME Whole, NEW p \in Phones, NEW m \in ToSet(Listing(p).list)
             PROVE  owner[m] = p /\ m \notin gone
  BY DEF ChatsNotMixed, RemovedStaysRemoved
<1>1. Holds(p, m)
  BY ListingHolds
<1>2. PICK t \in Linked : /\ contacts[sectors[t].slot].phone = p
                          /\ \E i \in DOMAIN sectors[t].msgs : sectors[t].msgs[i] = m
  BY <1>1 DEF Holds
<1>3. StoredInv(t)
  BY WholeMeans DEF WholeInv, MessagesInv
<1> QED
  BY <1>2, <1>3 DEF StoredInv

LEMMA NoSectorLeakedHere ==
    ASSUME StoreInv PROVE NoSectorLeaked
<1> SUFFICES ASSUME Whole, NEW t \in Sectors, sectors[t].used
             PROVE  \E p \in Phones : entries[p] # None /\ Contains(Chain(entries[p].latest), t)
  BY DEF NoSectorLeaked
<1>1. t \in Linked
  BY WholeMeans
<1>2. PICK p \in Phones : p = contacts[sectors[t].slot].phone
  BY <1>1, SectorsContact
<1>3. PICK h, c, f : Lists0(p, h, c, f)
  BY <1>1, <1>2, ListingIs DEF Chatless
<1>4. entries[p] # None /\ c = Chain(entries[p].latest) /\ t \in ToSet(c) /\ ChainCounted(c, f)
  BY <1>1, <1>2, <1>3 DEF Lists0
<1>5. DOMAIN c = 1 .. Len(c)
  BY <1>4, WholeMeans, ChainCountedFacts
<1>6. Contains(c, t)
  BY <1>4, <1>5 DEF Contains, ToSet
<1> QED
  BY <1>4, <1>6

LEMMA EntriesMatchCardHere ==
    ASSUME StoreInv PROVE EntriesMatchCard
<1> SUFFICES ASSUME Whole
             PROVE  /\ \A p \in Phones : entries[p] # None => SlotsOf(p) = {entries[p].slot}
                    /\ \A p \in Phones : entries[p] = None => SlotsOf(p) = {}
                    /\ IsInjective(freeSlots)
                    /\ ToSet(freeSlots) = {s \in Slots : ~contacts[s].used}
  BY DEF EntriesMatchCard
<1>1. /\ TypeInv /\ \A p \in Phones : entries[p] # None => contacts[entries[p].slot] = Stored(p)
      /\ \A s \in Slots : contacts[s].used =>
              /\ entries[contacts[s].phone] # None
              /\ entries[contacts[s].phone].slot = s
      /\ IsInjective(freeSlots)
      /\ ToSet(freeSlots) = {s \in Slots : ~contacts[s].used}
  BY WholeMeans DEF WholeInv, EntriesInv
<1>2. ASSUME NEW p \in Phones, entries[p] # None PROVE SlotsOf(p) = {entries[p].slot}
  <2>1. PICK z : z = entries[p].slot
    OBVIOUS
  <2>2. z \in Slots /\ contacts[z].used /\ contacts[z].phone = p
    <3>1. z \in Slots
      BY <1>1, <1>2, <2>1, TypeFacts
    <3>2. contacts[z] = Stored(p)
      BY <1>1, <1>2, <2>1
    <3> QED
      BY <3>1, <3>2 DEF Stored
  <2>3. \A s \in SlotsOf(p) : s = z
    BY <1>1, <2>1 DEF SlotsOf
  <2>4. z \in SlotsOf(p)
    BY <2>2 DEF SlotsOf
  <2> QED
    BY <2>1, <2>3, <2>4
<1>3. ASSUME NEW p \in Phones, entries[p] = None PROVE SlotsOf(p) = {}
  BY <1>1, <1>3 DEF SlotsOf
<1> QED
  BY <1>1, <1>2, <1>3

-----------------------------------------------------------------------------
(* The next theorems are about Whole databases: between calls, where no    *)
(* cut has left an extended chat or a removal of several sectors half      *)
(* done, and no add went on without a sector.  Every other cut is in: of   *)
(* first messages, appended ones and contacts, of removals of one sector,  *)
(* of boots and of the removal of orphans.  Without the condition none of  *)
(* them holds; what the cuts left out break is in ListedDespiteAddCuts and *)
(* IntactOrRemoved, which TLC refutes, and what even they leave alone is   *)
(* in SectorsAreAccounted.                                                 *)

(* Every acknowledged message of a whole database is listed, newest first  *)
(* and by a read that succeeds, whatever was freed and allocated again.    *)
THEOREM AcknowledgedAreListed == Spec => []AcknowledgedListed
BY StoreInvariant, AcknowledgedListedHere, PTL

(* In a whole database a chat lists no message of another phone, though    *)
(* chats and contacts use each other's sectors and slots again.            *)
THEOREM WholeListingsNotMixed == Spec => []ChatsNotMixed
BY StoreInvariant, ListingsRight, PTL

(* In a whole database a message whose removal returned STRG_OK is in no   *)
(* listing, after any number of boots.                                     *)
THEOREM WholeRemovedNotListed == Spec => []RemovedStaysRemoved
BY StoreInvariant, ListingsRight, PTL

(* In a whole database the entries and contact_allocator are those that    *)
(* the card calls for.                                                     *)
THEOREM EntriesMatch == Spec => []EntriesMatchCard
BY StoreInvariant, EntriesMatchCardHere, PTL

(* In a whole database every used message sector is in the chain of a      *)
(* contact's chat, so that removals give all of them back.                 *)
THEOREM WholeNoneLeaked == Spec => []NoSectorLeaked
BY StoreInvariant, NoSectorLeakedHere, PTL

(* In a whole database database_message_get_chat pages through the list    *)
(* that it gives in one go.                                                *)
THEOREM PagesSlice == Spec => []PagesAreSlices
BY StoreInvariant, PagesAreSlicesHere, PTL

(* Whatever was cut and whatever is under way, no unused sector is missing *)
(* from message_allocator, none is in it twice and no used one is in it.   *)
THEOREM SectorsAreAccounted == Spec => []SectorsAccounted
<1>1. StoreInv => SectorsAccounted
  BY DEF StoreInv
<1> QED
  BY StoreInvariant, <1>1, PTL

(* The card and the RAM state are always of their types.                   *)
THEOREM StoreTypeCorrect == Spec => []TypeOK
<1>1. ASSUME StoreInv PROVE TypeOK
  <2>1. TypeInv
    BY <1>1 DEF StoreInv
  <2>2. ASSUME NEW t \in Sectors
        PROVE  LET c == sectors[t]
               IN  /\ c.used \in BOOLEAN /\ c.slot \in Slots
                   /\ c.prev \in Sectors \cup {End} /\ c.next \in Sectors \cup {End}
                   /\ ToSet(c.msgs) \subseteq Messages
                   /\ c.used <=> Len(c.msgs) \in 1 .. Capacity
    <3>1. sectors[t] \in SectorContents
      BY <2>1, TypeFacts
    <3>2. sectors[t].msgs \in Seq(Messages)
      BY <3>1 DEF SectorContents
    <3>3. ToSet(sectors[t].msgs) \subseteq Messages
      BY <3>2, LenProperties, ElementOfSeq DEF ToSet
    <3>4. sectors[t].used <=> Len(sectors[t].msgs) \in 1 .. Capacity
      BY <2>1 DEF TypeInv
    <3> QED
      BY <3>1, <3>3, <3>4 DEF SectorContents
  <2>3. ToSet(freeSlots) \subseteq Slots /\ ToSet(freeSectors) \subseteq Sectors
    <3>1. freeSlots \in Seq(Slots) /\ freeSectors \in Seq(Sectors)
      BY <2>1 DEF TypeInv
    <3> QED
      BY <3>1, LenProperties, ElementOfSeq DEF ToSet
  <2>4. \A p \in Phones : ToSet(kept[p]) \subseteq Messages
    <3>1. \A p \in Phones : kept[p] \in Seq(Messages)
      BY <2>1 DEF TypeInv
    <3> QED
      BY <3>1, LenProperties, ElementOfSeq DEF ToSet
  <2>5. gone \subseteq Messages
    BY <2>1, Sizes DEF TypeInv, Messages
  <2> QED
    BY <2>1, <2>2, <2>3, <2>4, <2>5 DEF TypeInv, TypeOK
<1> QED
  BY StoreInvariant, <1>1, PTL
=============================================================================
