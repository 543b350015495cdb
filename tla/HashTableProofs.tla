--------------------------- MODULE HashTableProofs ---------------------------
(***************************************************************************)
(* Proofs about the contact hash table, for every table and card, every    *)
(* set of phones and every hash function, and any collisions among them:   *)
(* TableInv is inductive, and lookups are exact.                           *)
(***************************************************************************)
EXTENDS HashTable, RecursionLemmas

-----------------------------------------------------------------------------
(* The data.                                                               *)

Entries == {Empty, Tombstone} \cup OccupiedEntries

LEMMA Sizes ==
    /\ TableSize \in Nat /\ TableSize >= 2 /\ NumSlots \in Nat /\ NumSlots > 0
    /\ NumSlots < TableSize
  BY SizeAssumption

LEMMA EntryFacts ==
    /\ Empty.state = "empty" /\ Tombstone.state = "deleted"
    /\ \A h \in Nat, s \in Slots, b \in BOOLEAN :
          /\ Occupied(h, s, b) \in OccupiedEntries
          /\ Occupied(h, s, b).state = "occupied" /\ Occupied(h, s, b).id = h
          /\ Occupied(h, s, b).slot = s /\ Occupied(h, s, b).chat = b
    /\ \A e \in OccupiedEntries :
          /\ e.state = "occupied" /\ e.id \in Nat /\ e.slot \in Slots /\ e.chat \in BOOLEAN
  BY DEF Empty, Tombstone, Occupied, OccupiedEntries

LEMMA IdUpdate ==
    ASSUME NEW e \in OccupiedEntries, NEW h \in Nat
    PROVE  /\ [e EXCEPT !.id = h] \in OccupiedEntries
           /\ [e EXCEPT !.id = h].id = h
           /\ [e EXCEPT !.id = h].slot = e.slot /\ [e EXCEPT !.id = h].chat = e.chat
  BY DEF OccupiedEntries

LEMMA ChatUpdate ==
    ASSUME NEW e \in OccupiedEntries, NEW b \in BOOLEAN
    PROVE  /\ [e EXCEPT !.chat = b] \in OccupiedEntries
           /\ [e EXCEPT !.chat = b].chat = b
           /\ [e EXCEPT !.chat = b].slot = e.slot /\ [e EXCEPT !.chat = b].id = e.id
  BY DEF OccupiedEntries

LEMMA ProbeInTable ==
    /\ \A h \in Nat, i \in Attempts : HashDouble(h, i) \in Cells
    /\ \A p \in Phones, i \in Attempts :
          Probe(p, i) \in Cells /\ Probe(p, i) = HashDouble(Hash[p], i) /\ Hash[p] \in Nat
<1>1. \A a \in Nat, m \in Nat \ {0} : a % m \in 0 .. m - 1
  OBVIOUS
<1>2. \A a, b \in Nat : a * b \in Nat
  OBVIOUS
<1>3. ASSUME NEW h \in Nat, NEW i \in Attempts PROVE HashDouble(h, i) \in Cells
  <2>1. h % TableSize \in Nat /\ 1 + (h % (TableSize - 1)) \in Nat
    <3>1. TableSize \in Nat \ {0} /\ TableSize - 1 \in Nat \ {0}
      BY Sizes
    <3> DEFINE a == h % TableSize
               b == h % (TableSize - 1)
    <3>2. a \in 0 .. TableSize - 1 /\ b \in 0 .. TableSize - 1 - 1
      BY <1>1, <3>1
    <3> HIDE DEF a, b
    <3>3. a \in Nat /\ 1 + b \in Nat
      BY <3>1, <3>2
    <3> QED
      BY <3>3 DEF a, b
  <2>2. i \in Nat
    BY Sizes DEF Attempts
  <2>3. (h % TableSize) + i * (1 + (h % (TableSize - 1))) \in Nat
    BY <1>2, <2>1, <2>2
  <2> QED
    <3> DEFINE x == (h % TableSize) + i * (1 + (h % (TableSize - 1)))
    <3>1. x \in Nat /\ TableSize \in Nat \ {0}
      BY <2>3, Sizes
    <3> HIDE DEF x
    <3>2. x % TableSize \in 0 .. TableSize - 1
      BY <1>1, <3>1
    <3> QED
      BY <3>2 DEF HashDouble, Cells, x
<1> QED
  BY <1>3, HashAssumption DEF Probe

(* What a cell can be.                                                     *)
LEMMA CellFacts ==
    ASSUME TypeOK
    PROVE  /\ table \in [Cells -> Entries]
           /\ \A c \in Cells :
                 /\ table[c].state \in {"empty", "deleted", "occupied"}
                 /\ table[c].state = "occupied" <=> table[c] \in OccupiedEntries
           /\ \A c \in OccupiedCells :
                 /\ c \in Cells /\ table[c].state = "occupied" /\ table[c] \in OccupiedEntries
                 /\ table[c].id \in Nat /\ table[c].slot \in Slots /\ table[c].chat \in BOOLEAN
<1>1. table \in [Cells -> Entries]
  BY DEF TypeOK, Entries
<1>2. \A e \in Entries : /\ e.state \in {"empty", "deleted", "occupied"}
                         /\ e.state = "occupied" <=> e \in OccupiedEntries
  BY EntryFacts DEF Entries
<1>3. \A c \in Cells : /\ table[c].state \in {"empty", "deleted", "occupied"}
                       /\ table[c].state = "occupied" <=> table[c] \in OccupiedEntries
  BY <1>1, <1>2
<1> QED
  BY <1>1, <1>3, EntryFacts DEF OccupiedCells

LEMMA CardFacts ==
    ASSUME TypeOK
    PROVE  /\ contacts \in [Slots -> Contacts \cup {Free, Lost}]
           /\ durable \in [Slots -> Contacts \cup {Free, Lost}]
           /\ DOMAIN contacts = Slots /\ DOMAIN durable = Slots /\ DOMAIN table = Cells
           /\ Free \notin Contacts /\ Lost \notin Contacts /\ Free # Lost
           /\ \A s \in Slots : durable[s] \in Contacts => durable[s].phone \in Phones
           /\ \A s \in Slots : contacts[s] \in Contacts => contacts[s].phone \in Phones
<1>1. \A x \in Contacts : x.phone \in Phones
  BY DEF Contacts
<1> QED
  BY <1>1, ContactAssumption DEF TypeOK

(* What the database is doing.                                             *)
LEMMA OpFacts ==
    /\ Off.kind = "off" /\ Idle.kind = "idle"
    /\ \A k \in 0 .. NumSlots : /\ ReadingContacts(k).kind = "contacts" /\ ReadingContacts(k).at = k
                                /\ ReadingChats(k).kind = "chats" /\ ReadingChats(k).at = k
    /\ \A p \in Phones, c \in Cells :
          /\ Messaging(p, c).kind = "message" /\ Messaging(p, c).phone = p
          /\ Messaging(p, c).cell = c
          /\ Removing(p, c).kind = "remove" /\ Removing(p, c).phone = p
          /\ Removing(p, c).cell = c
  BY DEF Off, Idle, ReadingContacts, ReadingChats, Messaging, Removing

LEMMA OpKinds ==
    ASSUME op \in Ops
    PROVE  /\ op.kind \in {"off", "idle", "contacts", "chats", "message", "remove"}
           /\ op.kind = "off" => op = Off
           /\ op.kind = "idle" => op = Idle
           /\ op.kind = "contacts" => op.at \in 0 .. NumSlots /\ op = ReadingContacts(op.at)
           /\ op.kind = "chats" => op.at \in 0 .. NumSlots /\ op = ReadingChats(op.at)
           /\ op.kind \in {"message", "remove"} => op.phone \in Phones /\ op.cell \in Cells
<1>1. CASE op = Off
  BY <1>1, OpFacts
<1>2. CASE op = Idle
  BY <1>2, OpFacts
<1>3. ASSUME NEW k \in 0 .. NumSlots, op = ReadingContacts(k)
      PROVE  op.kind = "contacts" /\ op.at \in 0 .. NumSlots /\ op = ReadingContacts(op.at)
  BY <1>3, OpFacts
<1>4. ASSUME NEW k \in 0 .. NumSlots, op = ReadingChats(k)
      PROVE  op.kind = "chats" /\ op.at \in 0 .. NumSlots /\ op = ReadingChats(op.at)
  BY <1>4, OpFacts
<1>5. ASSUME NEW p \in Phones, NEW c \in Cells, op = Messaging(p, c) \/ op = Removing(p, c)
      PROVE  op.kind \in {"message", "remove"} /\ op.phone \in Phones /\ op.cell \in Cells
  BY <1>5, OpFacts
<1> QED
  BY <1>1, <1>2, <1>3, <1>4, <1>5 DEF Ops

LEMMA ReadFacts ==
    ASSUME op \in Ops
    PROVE  /\ SlotsRead \subseteq Slots /\ ChatsRead \subseteq Slots
           /\ Running => SlotsRead = Slots /\ ChatsRead = Slots
           /\ op.kind \in {"idle", "message", "remove", "chats"} => SlotsRead = Slots
           /\ op.kind \in {"idle", "message", "remove"} => ChatsRead = Slots
           /\ op.kind = "off" => SlotsRead = {} /\ ChatsRead = {}
           /\ op.kind = "contacts" => SlotsRead = 0 .. op.at - 1 /\ ChatsRead = {}
           /\ op.kind = "chats" => ChatsRead = 0 .. op.at - 1
           /\ Running <=> op.kind \in {"idle", "message", "remove"}
<1>1. /\ op.kind \in {"idle", "message", "remove", "chats"} => SlotsRead = Slots
      /\ op.kind \in {"idle", "message", "remove"} => ChatsRead = Slots
      /\ op.kind = "off" => SlotsRead = {} /\ ChatsRead = {}
      /\ op.kind = "contacts" => SlotsRead = 0 .. op.at - 1 /\ ChatsRead = {}
      /\ op.kind = "chats" => ChatsRead = 0 .. op.at - 1
  BY DEF SlotsRead, ChatsRead
<1>2. op.kind \in {"contacts", "chats"} => 0 .. op.at - 1 \subseteq Slots
  <2>1. \A k \in 0 .. NumSlots : 0 .. k - 1 \subseteq 0 .. NumSlots - 1
    BY Sizes
  <2> QED
    BY <2>1, OpKinds DEF Slots
<1> QED
  BY <1>1, <1>2, OpKinds DEF Running

-----------------------------------------------------------------------------
(* Lookups.                                                                *)

(* An entry with the hash of a phone that is not in doubt is what it says. *)
LEMMA EntryExact ==
    ASSUME TypeOK, CardInv, EntryInv, NEW p \in Phones, ~Doubtful(p),
           NEW c \in OccupiedCells, table[c].id = Hash[p]
    PROVE  /\ table[c].slot \in SlotsRead
           /\ durable[table[c].slot] \in Contacts
           /\ contacts[table[c].slot] = durable[table[c].slot]
<1>1. /\ table[c].slot \in SlotsRead /\ durable[table[c].slot] \in Contacts
      /\ \/ table[c].id = Hash[durable[table[c].slot].phone]
         \/ /\ durable[table[c].slot].phone \in doubt
            /\ \E q \in doubt : table[c].id = Hash[q]
  BY DEF EntryInv
<1>2. durable[table[c].slot].phone \notin doubt
  BY <1>1 DEF Doubtful
<1>3. contacts[table[c].slot] = durable[table[c].slot]
  BY <1>1, <1>2, CellFacts DEF CardInv
<1> QED
  BY <1>1, <1>3

LEMMA MatchExact ==
    ASSUME TypeOK, CardInv, EntryInv, NEW p \in Phones, ~Doubtful(p),
           NEW i \in Attempts, NEW u \in BOOLEAN
    PROVE  Matches(p, i, u) <=>
              /\ Probe(p, i) \in OccupiedCells /\ table[Probe(p, i)].id = Hash[p]
              /\ durable[table[Probe(p, i)].slot].phone = p
<1> DEFINE c == Probe(p, i)
<1>0. c \in Cells
  BY ProbeInTable
<1>1. Matches(p, i, u) <=>
         /\ c \in OccupiedCells /\ table[c].id = Hash[p]
         /\ IF contacts[table[c].slot] = Free THEN u ELSE contacts[table[c].slot].phone = p
  BY <1>0 DEF Matches, OccupiedCells
<1> HIDE DEF c
<1>2. ASSUME c \in OccupiedCells, table[c].id = Hash[p]
      PROVE  contacts[table[c].slot] # Free /\ contacts[table[c].slot] = durable[table[c].slot]
  BY <1>2, EntryExact, CardFacts
<1>3. Matches(p, i, u) <=>
         /\ c \in OccupiedCells /\ table[c].id = Hash[p]
         /\ durable[table[c].slot].phone = p
  BY <1>1, <1>2
<1> QED
  BY <1>3 DEF c

(* A contact that was read is found, whatever the walk meets before it.    *)
LEMMA FindsContact ==
    ASSUME TypeOK, CardInv, EntryInv, ReachInv, NEW p \in Phones, ~Doubtful(p),
           NEW s \in SlotsRead, durable[s] \in Contacts, durable[s].phone = p
    PROVE  \E i \in Attempts : /\ Probe(p, i) \in OccupiedCells
                               /\ table[Probe(p, i)].slot = s
                               /\ \A u \in BOOLEAN : Found(p, i, u)
<1>0. p \notin doubt /\ s \in Slots
  BY ReadFacts DEF Doubtful, TypeOK
<1>1. PICK c \in OccupiedCells : table[c].slot = s
  BY <1>0 DEF EntryInv
<1>2. table[c].id = Hash[p]
  BY <1>0, <1>1 DEF EntryInv
<1>3. PICK i \in Attempts :
         /\ HashDouble(table[c].id, i) = c
         /\ \A j \in 0 .. i - 1 : /\ HashDouble(table[c].id, j) # c
                                  /\ table[HashDouble(table[c].id, j)].state # "empty"
  BY <1>1 DEF ReachInv, Reachable
<1>4. \A j \in 0 .. i - 1 : j \in Attempts
  BY Sizes DEF Attempts
<1>5. Probe(p, i) = c
  BY <1>2, <1>3, ProbeInTable
<1>6. ASSUME NEW j \in 0 .. i - 1
      PROVE  /\ table[Probe(p, j)].state # "empty"
             /\ \A u \in BOOLEAN : ~Matches(p, j, u)
  <2>1. Probe(p, j) # c /\ table[Probe(p, j)].state # "empty"
    BY <1>2, <1>3, <1>4, ProbeInTable
  <2>2. ASSUME NEW u \in BOOLEAN, Matches(p, j, u)
        PROVE  FALSE
    <3>1. /\ Probe(p, j) \in OccupiedCells /\ table[Probe(p, j)].id = Hash[p]
          /\ durable[table[Probe(p, j)].slot].phone = p
      BY <1>4, <2>2, MatchExact
    <3>2. table[Probe(p, j)].slot \in Slots /\ durable[table[Probe(p, j)].slot] \in Contacts
      BY <3>1, EntryExact, ReadFacts DEF TypeOK
    <3>3. table[Probe(p, j)].slot = s
      BY <1>0, <3>1, <3>2 DEF CardInv
    <3> QED
      BY <1>1, <2>1, <3>1, <3>3 DEF EntryInv
  <2> QED
    BY <2>1, <2>2
<1>7. \A u \in BOOLEAN : Matches(p, i, u)
  BY <1>1, <1>2, <1>5, MatchExact
<1> QED
  BY <1>1, <1>5, <1>6, <1>7 DEF Found

(* A walk that ends at a free cell shows that the phone has no contact.    *)
LEMMA FreeCell ==
    ASSUME TypeOK, CardInv, EntryInv, ReachInv, NEW p \in Phones, ~Doubtful(p),
           NEW i \in Attempts, NEW u \in BOOLEAN, FindsFree(p, i, u)
    PROVE  /\ Probe(p, i) \in Cells \ OccupiedCells
           /\ \A s \in SlotsRead : durable[s] \in Contacts => durable[s].phone # p
<1>1. ~IsFound(p, u)
  BY DEF FindsFree
<1> QED
  BY <1>1, FindsContact, ProbeInTable DEF IsFound, FindsFree, OccupiedCells

(* A lookup that ends at an entry ends at the one of the phone's contact.  *)
LEMMA FoundCell ==
    ASSUME TypeOK, CardInv, EntryInv, NEW p \in Phones, ~Doubtful(p),
           NEW i \in Attempts, NEW u \in BOOLEAN, Found(p, i, u)
    PROVE  /\ Probe(p, i) \in OccupiedCells /\ table[Probe(p, i)].id = Hash[p]
           /\ EntryOf(p, i) = table[Probe(p, i)]
           /\ EntryOf(p, i).slot \in Slots
           /\ durable[EntryOf(p, i).slot] \in Contacts
           /\ contacts[EntryOf(p, i).slot] = durable[EntryOf(p, i).slot]
           /\ durable[EntryOf(p, i).slot].phone = p
<1>1. Matches(p, i, u)
  BY DEF Found
<1> QED
  BY <1>1, MatchExact, EntryExact, CellFacts DEF EntryOf

LEMMA GarbageFacts == Garbage \subseteq BOOLEAN
  BY DEF Garbage

(* While no write has failed, the card is read as a boot would find it.    *)
LEMMA NotFailing ==
    ASSUME TypeOK, CardInv, ~Failing
    PROVE  doubt = {} /\ contacts = durable /\ \A p \in Phones : ~Doubtful(p)
<1>1. doubt = {}
  BY DEF Failing
<1>2. ASSUME NEW s \in Slots PROVE contacts[s] = durable[s]
  BY <1>1, CardFacts DEF CardInv
<1>3. contacts = durable
  BY <1>2, CardFacts
<1> QED
  BY <1>1, <1>3 DEF Doubtful

-----------------------------------------------------------------------------
(* The parts of RamInv.                                                    *)

CountInv == numElems = Cardinality(OccupiedCells)

AllocInv == ~Failing => freeSlots = {s \in SlotsRead : contacts[s] = Free}

ChatInv ==
    ~Failing => \A c \in OccupiedCells :
        table[c].chat <=> table[c].slot \in chats \cap ChatsRead

OpInv ==
    /\ op.kind \in {"message", "remove"} => op.cell \in OccupiedCells
    /\ op.kind \in {"message", "remove"} /\ ~Failing =>
          durable[table[op.cell].slot].phone = op.phone
    /\ op.kind = "remove" /\ ~Failing => ~table[op.cell].chat

LEMMA RamParts == RamInv <=> CountInv /\ AllocInv /\ ChatInv /\ OpInv
  BY DEF RamInv, CountInv, AllocInv, ChatInv, OpInv

LEMMA FiniteCells == IsFiniteSet(Cells) /\ IsFiniteSet(OccupiedCells)
<1>1. IsFiniteSet(Cells)
  BY FS_Interval, Sizes DEF Cells
<1> QED
  BY <1>1, FS_Subset DEF OccupiedCells

-----------------------------------------------------------------------------
(* What a step does to the entries.                                        *)

(* An entry stays reachable while no cell becomes empty.                   *)
LEMMA StaysReachable ==
    ASSUME TypeOK, NEW c \in OccupiedCells, Reachable(c), table'[c].id = table[c].id,
           \A d \in Cells : table[d].state # "empty" => table'[d].state # "empty"
    PROVE  Reachable(c)'
<1>1. PICK i \in Attempts :
         /\ HashDouble(table[c].id, i) = c
         /\ \A j \in 0 .. i - 1 : /\ HashDouble(table[c].id, j) # c
                                  /\ table[HashDouble(table[c].id, j)].state # "empty"
  BY DEF Reachable
<1>2. \A j \in 0 .. i - 1 : j \in Attempts
  BY Sizes DEF Attempts
<1>3. \A j \in 0 .. i - 1 : HashDouble(table[c].id, j) \in Cells
  BY <1>2, ProbeInTable, CellFacts
<1>4. \A j \in 0 .. i - 1 : table'[HashDouble(table[c].id, j)].state # "empty"
  BY <1>1, <1>3
<1> QED
  BY <1>1, <1>4 DEF Reachable

(* Steps that change nothing but the chat of entries.                      *)
SameEntry(e, f) ==
    /\ f \in Entries
    /\ e.state = f.state
    /\ e.state = "occupied" => e.id = f.id /\ e.slot = f.slot

LEMMA SameEntries ==
    ASSUME TypeOK, EntryInv, ReachInv, CountInv,
           table' \in [Cells -> Entries],
           \A c \in Cells : SameEntry(table[c], table'[c]),
           numElems' = numElems, durable' = durable, doubt \subseteq doubt',
           SlotsRead' = SlotsRead
    PROVE  /\ OccupiedCells' = OccupiedCells
           /\ EntryInv' /\ ReachInv' /\ CountInv'
<1>1. OccupiedCells' = OccupiedCells
  BY DEF OccupiedCells, SameEntry
<1>2. \A c \in OccupiedCells : table'[c].id = table[c].id /\ table'[c].slot = table[c].slot
  BY DEF OccupiedCells, SameEntry
<1>3. EntryInv'
  <2>1. ASSUME NEW c \in OccupiedCells
        PROVE  /\ table'[c].slot \in SlotsRead' /\ durable'[table'[c].slot] \in Contacts
               /\ \/ table'[c].id = Hash[durable'[table'[c].slot].phone]
                  \/ /\ durable'[table'[c].slot].phone \in doubt'
                     /\ \E q \in doubt' : table'[c].id = Hash[q]
    BY <1>2, <2>1 DEF EntryInv
  <2>2. \A c, d \in OccupiedCells : table'[c].slot = table'[d].slot => c = d
    BY <1>2 DEF EntryInv
  <2>3. \A s \in SlotsRead :
           durable[s] \in Contacts /\ durable[s].phone \notin doubt'
             => \E c \in OccupiedCells : table'[c].slot = s
    BY <1>2 DEF EntryInv
  <2> QED
    BY <1>1, <2>1, <2>2, <2>3 DEF EntryInv
<1>4. ReachInv'
  <2> SUFFICES ASSUME NEW c \in OccupiedCells PROVE Reachable(c)'
    BY <1>1 DEF ReachInv
  <2>1. \A d \in Cells : table[d].state # "empty" => table'[d].state # "empty"
    BY DEF SameEntry
  <2> QED
    BY <1>2, <2>1, StaysReachable DEF ReachInv
<1>5. CountInv'
  BY <1>1 DEF CountInv
<1> QED
  BY <1>1, <1>3, <1>4, <1>5

LEMMA UnchangedTable ==
    ASSUME TypeOK, table' = table
    PROVE  table' \in [Cells -> Entries] /\ \A c \in Cells : SameEntry(table[c], table'[c])
  BY CellFacts DEF SameEntry

(* The chat of one entry changes.                                          *)
LEMMA ChatOfEntry ==
    ASSUME TypeOK, NEW c \in OccupiedCells, NEW b \in BOOLEAN,
           table' = [table EXCEPT ![c].chat = b]
    PROVE  /\ table' \in [Cells -> Entries] /\ \A d \in Cells : SameEntry(table[d], table'[d])
           /\ \A d \in Cells : d # c => table'[d] = table[d]
           /\ table'[c].chat = b
<1>1. table[c] \in OccupiedEntries /\ c \in Cells /\ table \in [Cells -> Entries]
  BY CellFacts
<1>2. table' = [table EXCEPT ![c] = [table[c] EXCEPT !.chat = b]]
  OBVIOUS
<1> DEFINE e == [table[c] EXCEPT !.chat = b]
<1>3. /\ e \in OccupiedEntries /\ e.chat = b /\ e.slot = table[c].slot /\ e.id = table[c].id
  BY <1>1, ChatUpdate
<1>4. e.state = "occupied" /\ table[c].state = "occupied" /\ e \in Entries
  BY <1>1, <1>3, EntryFacts DEF Entries
<1> HIDE DEF e
<1>5. /\ table' \in [Cells -> Entries] /\ table'[c] = e
      /\ \A d \in Cells : d # c => table'[d] = table[d]
  BY <1>1, <1>2, <1>4 DEF e
<1>6. \A d \in Cells : SameEntry(table[d], table'[d])
  BY <1>1, <1>3, <1>4, <1>5 DEF SameEntry
<1> QED
  BY <1>3, <1>5, <1>6

(* A new entry, in the cell where the walk of its phone ended.             *)
LEMMA NewEntry ==
    ASSUME TypeOK, ReachInv, CountInv,
           NEW p \in Phones, NEW i \in Attempts, NEW s \in Slots, NEW u \in BOOLEAN,
           FindsFree(p, i, u), numElems' = numElems + 1,
           table' = [table EXCEPT ![Probe(p, i)] = Occupied(Hash[p], s, FALSE)]
    PROVE  /\ table' \in [Cells -> Entries]
           /\ Probe(p, i) \in Cells \ OccupiedCells
           /\ OccupiedCells' = OccupiedCells \cup {Probe(p, i)}
           /\ table'[Probe(p, i)].id = Hash[p] /\ table'[Probe(p, i)].slot = s
           /\ table'[Probe(p, i)].chat = FALSE
           /\ \A d \in OccupiedCells : table'[d] = table[d]
           /\ ReachInv' /\ CountInv'
<1>1. PICK c \in Cells : c = Probe(p, i)
  BY ProbeInTable
<1>2. /\ Hash[p] \in Nat /\ table \in [Cells -> Entries]
      /\ c \notin OccupiedCells /\ \A j \in 0 .. i - 1 : table[Probe(p, j)].state = "occupied"
  BY <1>1, ProbeInTable, CellFacts DEF FindsFree, OccupiedCells
<1>3. PICK e \in OccupiedEntries : e = Occupied(Hash[p], s, FALSE)
  BY <1>2, EntryFacts
<1>4. e.state = "occupied" /\ e.id = Hash[p] /\ e.slot = s /\ e.chat = FALSE /\ e \in Entries
  <2>1. e.state = "occupied" /\ e.id = Hash[p] /\ e.slot = s
    BY <1>3 DEF Occupied
  <2>2. e.chat = FALSE
    BY <1>3, Zenon DEF Occupied
  <2> QED
    BY <2>1, <2>2 DEF Entries
<1>5. /\ table' \in [Cells -> Entries] /\ table'[c] = e
      /\ \A d \in Cells : d # c => table'[d] = table[d]
  BY <1>1, <1>2, <1>3, <1>4
<1>6. OccupiedCells' = OccupiedCells \cup {c} /\ \A d \in OccupiedCells : table'[d] = table[d]
  BY <1>2, <1>4, <1>5 DEF OccupiedCells
<1>7. ReachInv'
  <2>1. \A d \in Cells : table[d].state # "empty" => table'[d].state # "empty"
    BY <1>4, <1>5
  <2>2. \A d \in OccupiedCells : Reachable(d)'
    BY <1>6, <2>1, StaysReachable DEF ReachInv
  <2>3. Reachable(c)'
    <3>1. \A j \in 0 .. i - 1 : j \in Attempts
      BY Sizes DEF Attempts
    <3>2. \A j \in 0 .. i - 1 : /\ HashDouble(Hash[p], j) \in OccupiedCells
                                /\ HashDouble(Hash[p], j) = Probe(p, j)
      BY <1>2, <3>1, ProbeInTable DEF OccupiedCells
    <3>3. \A j \in 0 .. i - 1 : /\ HashDouble(Hash[p], j) # c
                                /\ table'[HashDouble(Hash[p], j)].state # "empty"
      BY <1>2, <1>6, <3>2
    <3>4. HashDouble(Hash[p], i) = c /\ table'[c].id = Hash[p]
      BY <1>1, <1>4, <1>5, ProbeInTable
    <3> QED
      BY <3>3, <3>4 DEF Reachable
  <2> QED
    BY <1>6, <2>2, <2>3 DEF ReachInv
<1>8. CountInv'
  BY <1>2, <1>6, FiniteCells, FS_AddElement DEF CountInv
<1> QED
  BY <1>1, <1>2, <1>4, <1>5, <1>6, <1>7, <1>8

LEMMA ReadNext ==
    /\ op'.kind \in {"idle", "message", "remove"} =>
          SlotsRead' = Slots /\ ChatsRead' = Slots /\ Running'
    /\ op'.kind = "off" => SlotsRead' = {} /\ ChatsRead' = {} /\ ~Running'
    /\ op'.kind = "contacts" => SlotsRead' = 0 .. op'.at - 1 /\ ChatsRead' = {} /\ ~Running'
    /\ op'.kind = "chats" => SlotsRead' = Slots /\ ChatsRead' = 0 .. op'.at - 1 /\ ~Running'
  BY DEF SlotsRead, ChatsRead, Running

LEMMA InvParts ==
    ASSUME TableInv
    PROVE  /\ TypeOK /\ CardInv /\ EntryInv /\ ReachInv
           /\ CountInv /\ AllocInv /\ ChatInv /\ OpInv /\ op \in Ops
  BY RamParts DEF TableInv, TypeOK

-----------------------------------------------------------------------------
(* Steps that leave card and entries as they are.                          *)

LEMMA QuietStep ==
    ASSUME TableInv, UNCHANGED <<ram, card, doubt>>, op' \in Ops,
           SlotsRead' = SlotsRead, ChatsRead' = ChatsRead, Running => Running', OpInv'
    PROVE  TableInv'
<1>0. /\ TypeOK /\ CardInv /\ EntryInv /\ ReachInv
      /\ CountInv /\ AllocInv /\ ChatInv
  BY InvParts
<1>1. UNCHANGED <<table, freeSlots, numElems, contacts, durable, chats, doubt>>
  BY DEF ram, card
<1>2. TypeOK'
  BY <1>0, <1>1 DEF TypeOK
<1>3. CardInv'
  BY <1>0, <1>1 DEF CardInv
<1>4. OccupiedCells' = OccupiedCells /\ EntryInv' /\ ReachInv' /\ CountInv'
  BY <1>0, <1>1, UnchangedTable, SameEntries
<1>5. AllocInv' /\ ChatInv'
  BY <1>0, <1>1, <1>4 DEF AllocInv, ChatInv, Failing
<1>6. RamInv'
  BY <1>4, <1>5 DEF RamInv, CountInv, AllocInv, ChatInv, OpInv
<1> QED
  BY <1>2, <1>3, <1>4, <1>6 DEF TableInv

(* A chat begins or ends.                                                  *)
LEMMA ChatStep ==
    ASSUME TableInv, ~Failing, op.kind \in {"idle", "message", "remove"},
           op' \in Ops, op'.kind \in {"idle", "message", "remove"},
           table' \in [Cells -> Entries], \A c \in Cells : SameEntry(table[c], table'[c]),
           UNCHANGED <<freeSlots, numElems, contacts, durable, doubt>>,
           chats' \subseteq Slots, \A s \in chats' : durable[s] # Free,
           \A c \in OccupiedCells : table'[c].chat <=> table'[c].slot \in chats',
           OpInv'
    PROVE  TableInv'
<1>0. /\ TypeOK /\ CardInv /\ EntryInv /\ ReachInv
      /\ CountInv /\ AllocInv /\ op \in Ops
  BY InvParts
<1>1. SlotsRead' = SlotsRead /\ SlotsRead = Slots /\ ChatsRead' = Slots /\ Running' /\ Running
  BY <1>0, ReadNext, ReadFacts
<1>2. TypeOK'
  BY <1>0 DEF TypeOK, Entries
<1>3. CardInv'
  BY <1>0, <1>1 DEF CardInv
<1>4. OccupiedCells' = OccupiedCells /\ EntryInv' /\ ReachInv' /\ CountInv'
  BY <1>0, <1>1, SameEntries
<1>5. AllocInv'
  BY <1>0, <1>1 DEF AllocInv, Failing
<1>6. ChatInv'
  BY <1>1, <1>4 DEF ChatInv
<1>7. RamInv'
  BY <1>4, <1>5, <1>6 DEF RamInv, CountInv, AllocInv, ChatInv, OpInv
<1> QED
  BY <1>2, <1>3, <1>4, <1>7 DEF TableInv

(* A write to a chat fails: the entry may lose its chat all the same.      *)
LEMMA ChatFailStep ==
    ASSUME TableInv, op.kind \in {"idle", "message", "remove"},
           op' \in Ops, op'.kind \in {"idle", "message", "remove"},
           table' \in [Cells -> Entries], \A c \in Cells : SameEntry(table[c], table'[c]),
           UNCHANGED <<freeSlots, numElems>>,
           NEW p \in Phones, ChatWriteFails(p),
           op'.kind \in {"message", "remove"} => op'.cell \in OccupiedCells
    PROVE  TableInv'
<1>0. /\ TypeOK /\ CardInv /\ EntryInv /\ ReachInv /\ CountInv /\ op \in Ops
  BY InvParts
<1>1. SlotsRead' = SlotsRead /\ SlotsRead = Slots /\ ChatsRead' = Slots /\ Running' /\ Running
  BY <1>0, ReadNext, ReadFacts
<1>2. /\ UNCHANGED <<contacts, durable, chats>>
      /\ doubt \subseteq doubt' /\ doubt' \subseteq Phones /\ doubt' # {}
  BY <1>0 DEF ChatWriteFails, Failing, TypeOK
<1>3. TypeOK'
  BY <1>0, <1>2 DEF TypeOK, Entries
<1>4. CardInv'
  BY <1>0, <1>1, <1>2 DEF CardInv
<1>5. OccupiedCells' = OccupiedCells /\ EntryInv' /\ ReachInv' /\ CountInv'
  BY <1>0, <1>1, <1>2, SameEntries
<1>6. Failing'
  BY <1>2 DEF Failing
<1>7. RamInv'
  BY <1>5, <1>6 DEF RamInv, CountInv
<1> QED
  BY <1>3, <1>4, <1>5, <1>7 DEF TableInv

LEMMA MessageToContactInv ==
    ASSUME TableInv, NEW p \in Phones, MessageToContact(p) PROVE TableInv'
<1>0. /\ TypeOK /\ CardInv /\ EntryInv /\ op \in Ops
  BY InvParts
<1>1. PICK u \in BOOLEAN, i \in Attempts : Found(p, i, u) /\ op' = Messaging(p, Probe(p, i))
  BY GarbageFacts DEF MessageToContact
<1>2. ~Failing /\ op = Idle /\ UNCHANGED <<ram, card, doubt>>
  BY DEF MessageToContact
<1>3. PICK c \in OccupiedCells : /\ c = Probe(p, i) /\ op' = Messaging(p, c)
                                 /\ durable[table[c].slot].phone = p /\ c \in Cells
  BY <1>0, <1>1, <1>2, NotFailing, FoundCell, CellFacts
<1>4. op' \in Ops /\ op'.kind = "message" /\ op'.cell = c /\ op'.phone = p
  BY <1>3, OpFacts DEF Ops
<1>5. SlotsRead' = SlotsRead /\ ChatsRead' = ChatsRead /\ Running'
  BY <1>0, <1>2, <1>4, OpFacts, ReadNext, ReadFacts
<1>6. OpInv'
  <2>1. OccupiedCells' = OccupiedCells /\ UNCHANGED <<table, durable, doubt>>
    BY <1>2 DEF OccupiedCells, ram, card
  <2> QED
    BY <1>3, <1>4, <2>1 DEF OpInv
<1> QED
  BY <1>2, <1>4, <1>5, <1>6, QuietStep

LEMMA NoMessageSectorInv == ASSUME TableInv, NoMessageSector PROVE TableInv'
<1>1. op.kind = "message" /\ op' = Idle /\ UNCHANGED <<ram, card, doubt>>
  BY DEF NoMessageSector
<1>2. op' \in Ops /\ op'.kind = "idle" /\ op \in Ops
  BY <1>1, OpFacts, InvParts DEF Ops
<1>3. SlotsRead' = SlotsRead /\ ChatsRead' = ChatsRead /\ Running'
  BY <1>1, <1>2, ReadNext, ReadFacts
<1>4. OpInv'
  BY <1>2 DEF OpInv
<1> QED
  BY <1>1, <1>2, <1>3, <1>4, QuietStep

LEMMA BootStepsInv ==
    ASSUME TableInv, PowerOn \/ ContactsRead \/ Mounted PROVE TableInv'
<1>0. op \in Ops /\ 0 \in 0 .. NumSlots /\ NumSlots \in 0 .. NumSlots
  BY Sizes, InvParts
<1>1. UNCHANGED <<ram, card, doubt>>
  BY DEF PowerOn, ContactsRead, Mounted
<1>2. CASE PowerOn
  <2>1. op.kind = "off" /\ op' \in Ops /\ op'.kind = "contacts" /\ op'.at = 0
    BY <1>0, <1>2, OpFacts DEF PowerOn, Ops
  <2>2. SlotsRead' = SlotsRead /\ ChatsRead' = ChatsRead /\ ~Running
    BY <1>0, <2>1, ReadNext, ReadFacts
  <2>3. OpInv'
    BY <2>1 DEF OpInv
  <2> QED
    BY <1>1, <2>1, <2>2, <2>3, QuietStep
<1>3. CASE ContactsRead
  <2>1. /\ op.kind = "contacts" /\ op.at = NumSlots
        /\ op' \in Ops /\ op'.kind = "chats" /\ op'.at = 0
    BY <1>0, <1>3, OpFacts DEF ContactsRead, Ops
  <2>2. SlotsRead' = SlotsRead /\ ChatsRead' = ChatsRead /\ ~Running
    <3>1. 0 .. 0 - 1 = {}
      OBVIOUS
    <3>2. ChatsRead' = 0 .. 0 - 1 /\ ChatsRead = {} /\ ~Running
      BY <1>0, <2>1, ReadNext, ReadFacts
    <3>3. SlotsRead' = Slots /\ SlotsRead = 0 .. NumSlots - 1
      BY <1>0, <2>1, ReadNext, ReadFacts
    <3> QED
      BY <3>1, <3>2, <3>3 DEF Slots
  <2>3. OpInv'
    BY <2>1 DEF OpInv
  <2> QED
    BY <1>1, <2>1, <2>2, <2>3, QuietStep
<1>4. CASE Mounted
  <2>1. /\ op.kind = "chats" /\ op.at = NumSlots
        /\ op' \in Ops /\ op'.kind = "idle"
    BY <1>0, <1>4, OpFacts DEF Mounted, Ops
  <2>2. SlotsRead' = SlotsRead /\ ChatsRead' = ChatsRead /\ ~Running
    BY <1>0, <2>1, ReadNext, ReadFacts DEF Slots
  <2>3. OpInv'
    BY <2>1 DEF OpInv
  <2> QED
    BY <1>1, <2>1, <2>2, <2>3, QuietStep
<1> QED
  BY <1>2, <1>3, <1>4

(* The chat of a contact, on the card and in its entry.                    *)
LEMMA ChatChanges ==
    ASSUME TableInv, ~Failing, op.kind \in {"idle", "message", "remove"},
           NEW c \in OccupiedCells, NEW b \in BOOLEAN,
           table' = [table EXCEPT ![c].chat = b],
           \/ b = TRUE /\ chats' = chats \cup {table[c].slot}
           \/ b = FALSE /\ chats' = chats \ {table[c].slot}
    PROVE  /\ chats' \subseteq Slots /\ \A s \in chats' : durable[s] # Free
           /\ \A d \in OccupiedCells : table'[d].chat <=> table'[d].slot \in chats'
<1>0. /\ TypeOK /\ CardInv /\ EntryInv /\ ChatInv /\ op \in Ops
  BY InvParts
<1>1. ChatsRead = Slots
  BY <1>0, ReadFacts
<1>2. /\ table[c].slot \in Slots /\ durable[table[c].slot] # Free
      /\ \A d \in OccupiedCells : d # c => table[d].slot # table[c].slot
  BY <1>0, CellFacts, CardFacts DEF EntryInv
<1>3. chats' \subseteq Slots
  BY <1>0, <1>2 DEF TypeOK
<1>4. \A s \in chats' : durable[s] # Free
  BY <1>0, <1>2 DEF CardInv
<1>5. /\ \A d \in Cells : d # c => table'[d] = table[d]
      /\ table'[c].chat = b /\ table'[c].slot = table[c].slot
  BY <1>0, ChatOfEntry DEF SameEntry, OccupiedCells
<1>6. ASSUME NEW d \in OccupiedCells PROVE table'[d].chat <=> table'[d].slot \in chats'
  <2>1. CASE d = c
    <3>1. table'[d].chat = b /\ table'[d].slot = table[c].slot
      BY <1>5, <2>1
    <3> QED
      BY <3>1
  <2>2. CASE d # c
    <3>1. table'[d] = table[d] /\ table[d].slot # table[c].slot /\ table[d].slot \in Slots
      BY <1>0, <1>2, <1>5, <2>2, CellFacts
    <3>2. table[d].chat <=> table[d].slot \in chats
      BY <1>0, <1>1, <3>1 DEF ChatInv
    <3> QED
      BY <3>1, <3>2
  <2> QED
    BY <2>1, <2>2
<1> QED
  BY <1>3, <1>4, <1>6

LEMMA WriteMessageInv == ASSUME TableInv, WriteMessage PROVE TableInv'
<1>0. TypeOK /\ OpInv
  BY InvParts
<1>1. /\ op.kind = "message" /\ ~Failing /\ op' = Idle
      /\ UNCHANGED <<freeSlots, numElems, contacts, durable, doubt>>
  BY DEF WriteMessage
<1>2. PICK c \in OccupiedCells :
         /\ c = op.cell /\ table' = [table EXCEPT ![c].chat = TRUE]
         /\ chats' = chats \cup {table[c].slot}
  BY <1>0, <1>1 DEF WriteMessage, OpInv
<1>3. op' \in Ops /\ op'.kind = "idle"
  BY <1>1, OpFacts DEF Ops
<1>4. /\ chats' \subseteq Slots /\ \A s \in chats' : durable[s] # Free
      /\ \A d \in OccupiedCells : table'[d].chat <=> table'[d].slot \in chats'
  BY <1>1, <1>2, ChatChanges
<1>5. table' \in [Cells -> Entries] /\ \A d \in Cells : SameEntry(table[d], table'[d])
  BY <1>0, <1>2, ChatOfEntry
<1>6. OpInv'
  BY <1>3 DEF OpInv
<1> QED
  BY <1>1, <1>3, <1>4, <1>5, <1>6, ChatStep

LEMMA WriteMessageFailsInv == ASSUME TableInv, WriteMessageFails PROVE TableInv'
<1>0. TypeOK /\ op \in Ops
  BY InvParts
<1>1. op.kind = "message" /\ op' = Idle /\ ChatWriteFails(op.phone) /\ UNCHANGED ram
  BY DEF WriteMessageFails
<1>2. op' \in Ops /\ op'.kind = "idle" /\ op.phone \in Phones
  BY <1>0, <1>1, OpFacts, OpKinds DEF Ops
<1>3. UNCHANGED <<table, freeSlots, numElems>>
  BY <1>1 DEF ram
<1>4. table' \in [Cells -> Entries] /\ \A c \in Cells : SameEntry(table[c], table'[c])
  BY <1>0, <1>3, UnchangedTable
<1> QED
  BY <1>1, <1>2, <1>3, <1>4, ChatFailStep

(* The two calls that take a chat away.                                    *)
LEMMA ChatTaken ==
    ASSUME TableInv, ~Failing, op = Idle, NEW p \in Phones, NEW i \in Attempts,
           NEW u \in BOOLEAN, Found(p, i, u),
           table' = [table EXCEPT ![Probe(p, i)].chat = FALSE],
           chats' = chats \ {EntryOf(p, i).slot},
           op' \in {Idle, Removing(p, Probe(p, i))},
           UNCHANGED <<freeSlots, numElems, contacts, durable, doubt>>
    PROVE  TableInv'
<1>0. TypeOK /\ CardInv /\ EntryInv /\ op.kind = "idle"
  BY InvParts, OpFacts
<1>1. PICK c \in OccupiedCells : /\ c = Probe(p, i) /\ c \in Cells
                                 /\ durable[table[c].slot].phone = p
                                 /\ table[c] = EntryOf(p, i)
  BY <1>0, NotFailing, FoundCell, CellFacts
<1>2. /\ op' \in Ops /\ op'.kind \in {"idle", "remove"}
      /\ op'.kind = "remove" => op'.cell = c /\ op'.phone = p
  BY <1>1, OpFacts DEF Ops
<1>3. /\ table' = [table EXCEPT ![c].chat = FALSE] /\ chats' = chats \ {table[c].slot}
  BY <1>1
<1>4. /\ chats' \subseteq Slots /\ \A s \in chats' : durable[s] # Free
      /\ \A d \in OccupiedCells : table'[d].chat <=> table'[d].slot \in chats'
  BY <1>0, <1>3, ChatChanges
<1>5. /\ table' \in [Cells -> Entries] /\ \A d \in Cells : SameEntry(table[d], table'[d])
      /\ table'[c].chat = FALSE
  BY <1>0, <1>3, ChatOfEntry
<1>6. OpInv'
  <2>1. OccupiedCells' = OccupiedCells /\ table'[c].slot = table[c].slot
    BY <1>5 DEF OccupiedCells, SameEntry
  <2> QED
    BY <1>1, <1>2, <1>5, <2>1 DEF OpInv
<1> QED
  BY <1>0, <1>2, <1>4, <1>5, <1>6, ChatStep

LEMMA RemoveChatInv == ASSUME TableInv, NEW p \in Phones, RemoveChat(p) PROVE TableInv'
  BY ChatTaken, GarbageFacts DEF RemoveChat

LEMMA BeginRemoveInv == ASSUME TableInv, NEW p \in Phones, BeginRemove(p) PROVE TableInv'
  BY ChatTaken, GarbageFacts DEF BeginRemove

LEMMA RemoveChatFailsInv ==
    ASSUME TableInv, NEW p \in Phones, RemoveChatFails(p) PROVE TableInv'
<1>0. TypeOK /\ op \in Ops
  BY InvParts
<1>1. op = Idle /\ op' = op /\ ChatWriteFails(p) /\ UNCHANGED <<table, freeSlots, numElems>>
  BY DEF RemoveChatFails, ram
<1>2. op' \in Ops /\ op'.kind = "idle" /\ op.kind = "idle"
  BY <1>0, <1>1, OpFacts
<1>3. table' \in [Cells -> Entries] /\ \A c \in Cells : SameEntry(table[c], table'[c])
  BY <1>0, <1>1, UnchangedTable
<1> QED
  BY <1>1, <1>2, <1>3, ChatFailStep

LEMMA BeginRemoveFailsInv ==
    ASSUME TableInv, NEW p \in Phones, BeginRemoveFails(p) PROVE TableInv'
<1>0. TypeOK /\ op \in Ops
  BY InvParts
<1>1. /\ op = Idle /\ ChatWriteFails(p) /\ UNCHANGED <<freeSlots, numElems>>
      /\ \E u \in BOOLEAN, i \in Attempts :
            /\ Found(p, i, u)
            /\ table' = [table EXCEPT ![Probe(p, i)].chat = FALSE]
            /\ op' = Removing(p, Probe(p, i))
  BY GarbageFacts DEF BeginRemoveFails
<1>2. PICK c \in OccupiedCells : /\ c \in Cells /\ op' = Removing(p, c)
                                 /\ table' = [table EXCEPT ![c].chat = FALSE]
  BY <1>0, <1>1, ProbeInTable DEF Found, Matches, OccupiedCells
<1>3. /\ op' \in Ops /\ op'.kind = "remove" /\ op'.cell = c /\ op.kind = "idle"
  BY <1>1, <1>2, OpFacts DEF Ops
<1>4. table' \in [Cells -> Entries] /\ \A d \in Cells : SameEntry(table[d], table'[d])
  BY <1>0, <1>2, ChatOfEntry
<1> QED
  BY <1>1, <1>2, <1>3, <1>4, ChatFailStep

-----------------------------------------------------------------------------
(* A new contact: hash_insert_contact, or a message of a new phone.        *)

LEMMA NewContact ==
    ASSUME TypeOK, NEW s \in Slots, NEW p \in Phones, NEW n \in Names, NEW new,
           new = Holding(s, p, n)
    PROVE  /\ new \in [Slots -> Contacts \cup {Free, Lost}]
           /\ new[s] \in Contacts /\ new[s].phone = p
           /\ \A t \in Slots : t # s => new[t] = contacts[t]
<1>1. PICK v \in Contacts : v = [phone |-> p, name |-> n]
  BY DEF Contacts
<1>2. v.phone = p
  BY <1>1
<1>3. new = [contacts EXCEPT ![s] = v]
  BY <1>1 DEF Holding
<1> QED
  BY <1>2, <1>3, CardFacts

LEMMA InsertStep ==
    ASSUME TableInv, op = Idle, NEW p \in Phones, NEW n \in Names, NEW i \in Attempts,
           NEW s \in freeSlots, NEW u \in BOOLEAN,
           FindsFree(p, i, u), Written(Holding(s, p, n)), Enter(p, i, s),
           op' \in {Idle, Messaging(p, Probe(p, i))}, chats' = chats
    PROVE  TableInv'
<1>0. /\ TypeOK /\ CardInv /\ EntryInv /\ ReachInv
      /\ CountInv /\ AllocInv /\ ChatInv /\ op \in Ops /\ op.kind = "idle"
  BY InvParts, OpFacts
<1>1. SlotsRead = Slots /\ ChatsRead = Slots /\ Running
  BY <1>0, ReadFacts
<1>2. /\ ~Failing /\ doubt' = doubt /\ doubt = {} /\ contacts = durable
      /\ \A q \in Phones : ~Doubtful(q)
  BY <1>0, NotFailing DEF Written
<1>3. PICK new : new = Holding(s, p, n) /\ contacts' = new /\ durable' = new
  BY DEF Written
<1>4. /\ s \in Slots /\ contacts[s] = Free /\ durable[s] = Free
  BY <1>0, <1>1, <1>2 DEF AllocInv, TypeOK
<1>5. /\ new \in [Slots -> Contacts \cup {Free, Lost}]
      /\ new[s] \in Contacts /\ new[s].phone = p
      /\ \A t \in Slots : t # s => new[t] = durable[t]
  BY <1>0, <1>2, <1>3, <1>4, NewContact
<1>6. /\ table' = [table EXCEPT ![Probe(p, i)] = Occupied(Hash[p], s, FALSE)]
      /\ freeSlots' = freeSlots \ {s} /\ numElems' = numElems + 1
  BY DEF Enter
<1>7. PICK c \in Cells :
         /\ c = Probe(p, i) /\ table' \in [Cells -> Entries]
         /\ c \notin OccupiedCells /\ OccupiedCells' = OccupiedCells \cup {c}
         /\ table'[c].id = Hash[p] /\ table'[c].slot = s /\ table'[c].chat = FALSE
         /\ \A d \in OccupiedCells : table'[d] = table[d]
         /\ ReachInv' /\ CountInv'
  <2>1. /\ table' \in [Cells -> Entries]
        /\ Probe(p, i) \in Cells \ OccupiedCells
        /\ OccupiedCells' = OccupiedCells \cup {Probe(p, i)}
        /\ table'[Probe(p, i)].id = Hash[p] /\ table'[Probe(p, i)].slot = s
        /\ table'[Probe(p, i)].chat = FALSE
        /\ \A d \in OccupiedCells : table'[d] = table[d]
        /\ ReachInv' /\ CountInv'
    BY <1>0, <1>4, <1>6, NewEntry
  <2>2. PICK c \in Cells : c = Probe(p, i)
    BY <2>1
  <2> QED
    BY <2>1, <2>2, Zenon
<1>8. \A t \in Slots : durable[t] \in Contacts => durable[t].phone # p
  BY <1>0, <1>1, <1>2, FreeCell
<1>9. /\ op' \in Ops /\ op'.kind \in {"idle", "message"}
      /\ op'.kind = "message" => op'.cell = c /\ op'.phone = p
  BY <1>7, OpFacts DEF Ops
<1>10. SlotsRead' = Slots /\ ChatsRead' = Slots /\ Running' /\ ~Failing'
  BY <1>2, <1>9, ReadNext DEF Failing
<1>11. TypeOK'
  <2>1. numElems + 1 \in Nat /\ freeSlots \ {s} \subseteq Slots /\ chats \subseteq Slots
    BY <1>0 DEF TypeOK
  <2>2. table' \in [Cells -> {Empty, Tombstone} \cup OccupiedEntries]
    BY <1>7 DEF Entries
  <2>3. doubt' \subseteq Phones
    BY <1>2
  <2> QED
    BY <1>3, <1>5, <1>6, <1>9, <2>1, <2>2, <2>3 DEF TypeOK
<1>12. CardInv'
  <2>1. \A t, w \in Slots : new[t] \in Contacts /\ new[w] \in Contacts
                               /\ new[t].phone = new[w].phone => t = w
    BY <1>0, <1>5, <1>8 DEF CardInv
  <2>2. s \notin chats /\ \A t \in chats : t \in Slots /\ durable[t] # Free
    BY <1>0, <1>4 DEF CardInv, TypeOK
  <2>3. \A t \in chats : new[t] # Free
    BY <1>5, <2>2
  <2> QED
    BY <1>3, <1>10, <2>1, <2>3 DEF CardInv
<1>13. EntryInv'
  <2>1. \A d \in OccupiedCells :
           /\ table[d].slot \in Slots /\ durable[table[d].slot] \in Contacts
           /\ table[d].slot # s /\ table[d].id = Hash[durable[table[d].slot].phone]
    BY <1>0, <1>1, <1>2, <1>4, CardFacts DEF EntryInv
  <2>2. \A d \in OccupiedCells :
           /\ new[table'[d].slot] = durable[table[d].slot] /\ table'[d].slot # s
           /\ table'[d].slot = table[d].slot /\ table'[d].id = table[d].id
    BY <1>5, <1>7, <2>1
  <2>3. \A d \in OccupiedCells \cup {c} :
           /\ table'[d].slot \in Slots /\ new[table'[d].slot] \in Contacts
           /\ table'[d].id = Hash[new[table'[d].slot].phone]
    BY <1>4, <1>5, <1>7, <2>1, <2>2
  <2>4. \A d, e \in OccupiedCells \cup {c} : table'[d].slot = table'[e].slot => d = e
    BY <1>0, <1>7, <2>2 DEF EntryInv
  <2>5. \A t \in Slots : new[t] \in Contacts
           => \E d \in OccupiedCells \cup {c} : table'[d].slot = t
    BY <1>0, <1>1, <1>2, <1>5, <1>7, <2>2 DEF EntryInv
  <2> QED
    BY <1>3, <1>7, <1>10, <2>3, <2>4, <2>5 DEF EntryInv
<1>14. AllocInv'
  <2>1. freeSlots \ {s} = {t \in Slots : new[t] = Free}
    BY <1>0, <1>1, <1>2, <1>5, CardFacts DEF AllocInv
  <2> QED
    BY <1>3, <1>6, <1>10, <2>1 DEF AllocInv
<1>15. ChatInv'
  <2>1. s \notin chats
    BY <1>0, <1>4 DEF CardInv
  <2>2. table'[c].chat <=> table'[c].slot \in chats
    BY <1>7, <2>1
  <2>3. \A d \in OccupiedCells : table'[d].chat <=> table'[d].slot \in chats
    <3>1. \A d \in OccupiedCells : table[d].slot \in Slots
      BY <1>0, CellFacts
    <3>2. \A d \in OccupiedCells : table[d].chat <=> table[d].slot \in chats
      BY <1>0, <1>1, <1>2, <3>1 DEF ChatInv
    <3> QED
      BY <1>7, <3>2
  <2>4. \A d \in OccupiedCells \cup {c} : table'[d].slot \in Slots
    BY <1>0, <1>4, <1>7, CellFacts
  <2> QED
    BY <1>7, <1>10, <2>2, <2>3, <2>4 DEF ChatInv
<1>16. OpInv'
  BY <1>3, <1>5, <1>7, <1>9 DEF OpInv
<1>17. RamInv'
  BY <1>7, <1>14, <1>15, <1>16 DEF RamInv, CountInv, AllocInv, ChatInv, OpInv
<1> QED
  BY <1>7, <1>11, <1>12, <1>13, <1>17 DEF TableInv

LEMMA InsertContactInv ==
    ASSUME TableInv, NEW p \in Phones, NEW n \in Names, InsertContact(p, n) PROVE TableInv'
  BY InsertStep, GarbageFacts DEF InsertContact

LEMMA MessageToNewContactInv ==
    ASSUME TableInv, NEW p \in Phones, MessageToNewContact(p) PROVE TableInv'
  BY InsertStep, GarbageFacts, ContactAssumption DEF MessageToNewContact

-----------------------------------------------------------------------------
(* Contact writes that fail.                                               *)

(* The write that failed was for slot s0 and phones in doubt only.         *)
CallsOwnSlot(phones, new, released) ==
    \E s0 \in Slots, v \in Contacts \cup {Free} :
       /\ new = [contacts EXCEPT ![s0] = v]
       /\ contacts[s0] # Lost
       /\ contacts[s0] \in Contacts => contacts[s0].phone \in phones
       /\ v \in Contacts =>
             /\ v.phone \in phones
             /\ \A t \in Slots : t # s0 /\ contacts[t] \in Contacts => contacts[t].phone # v.phone
       /\ released => v \in Contacts

LEMMA FirstFailedWrite ==
    ASSUME TypeOK, CardInv, EntryInv, ~Failing, SlotsRead = Slots, SlotsRead' = Slots, Running',
           table' = table, chats' = chats, OccupiedCells' = OccupiedCells,
           NEW phones \in SUBSET Phones, NEW new, NEW released \in BOOLEAN,
           CallsOwnSlot(phones, new, released),
           WriteFails(phones, new, released)
    PROVE  /\ contacts' \in [Slots -> Contacts \cup {Free, Lost}]
           /\ durable' \in [Slots -> Contacts \cup {Free, Lost}]
           /\ CardInv' /\ EntryInv'
<1>1. doubt = {} /\ contacts = durable /\ doubt' = phones
  BY NotFailing DEF WriteFails
<1>2. PICK s0 \in Slots, v \in Contacts \cup {Free} :
       /\ new = [contacts EXCEPT ![s0] = v]
       /\ contacts[s0] # Lost
       /\ contacts[s0] \in Contacts => contacts[s0].phone \in phones
       /\ v \in Contacts =>
             /\ v.phone \in phones
             /\ \A t \in Slots : t # s0 /\ contacts[t] \in Contacts => contacts[t].phone # v.phone
       /\ released => v \in Contacts
  BY DEF CallsOwnSlot
<1>3. /\ new \in [Slots -> Contacts \cup {Free, Lost}] /\ new[s0] = v /\ v # Lost
      /\ \A t \in Slots : t # s0 => new[t] = durable[t]
  BY <1>1, <1>2, CardFacts
<1>4. \/ contacts' = durable /\ durable' = durable
      \/ contacts' = new /\ durable' = durable
      \/ contacts' = new /\ durable' = new /\ v \in Contacts
  BY <1>1, <1>2 DEF WriteFails
<1>5. /\ contacts' \in [Slots -> Contacts \cup {Free, Lost}]
      /\ durable' \in [Slots -> Contacts \cup {Free, Lost}]
  BY <1>3, <1>4, CardFacts
<1>6. CardInv'
  <2>1. \A t, w \in Slots : durable[t] \in Contacts /\ durable[w] \in Contacts
                               /\ durable[t].phone = durable[w].phone => t = w
    BY DEF CardInv
  <2>2. \A t, w \in Slots : durable'[t] \in Contacts /\ durable'[w] \in Contacts
                               /\ durable'[t].phone = durable'[w].phone => t = w
    <3>1. CASE durable' = durable
      BY <2>1, <3>1
    <3>2. CASE durable' = new
      BY <1>1, <1>2, <1>3, <2>1, <3>2
    <3> QED
      BY <1>4, <3>1, <3>2
  <2>3. \A t \in Slots : contacts'[t] # durable'[t] =>
           /\ t = s0 /\ contacts'[t] = v /\ durable'[t] = contacts[s0]
    BY <1>1, <1>3, <1>4
  <2>4. \A t \in Slots : contacts'[t] = Lost <=> durable'[t] = Lost
    BY <1>1, <1>2, <1>3, <2>3
  <2>5. \A t \in chats : t \in Slots /\ durable'[t] # Free
    BY <1>3, <1>4, CardFacts DEF CardInv, TypeOK
  <2> QED
    BY <1>1, <1>2, <2>2, <2>3, <2>4, <2>5 DEF CardInv
<1>7. EntryInv'
  <2>1. ASSUME NEW c \in OccupiedCells
        PROVE  /\ table[c].slot \in Slots /\ durable'[table[c].slot] \in Contacts
               /\ \/ table[c].id = Hash[durable'[table[c].slot].phone]
                  \/ durable'[table[c].slot].phone \in phones /\ \E q \in phones : table[c].id = Hash[q]
    <3>1. /\ table[c].slot \in Slots /\ durable[table[c].slot] \in Contacts
          /\ table[c].id = Hash[durable[table[c].slot].phone]
      BY <1>1, <2>1 DEF EntryInv
    <3>2. CASE durable'[table[c].slot] = durable[table[c].slot]
      BY <3>1, <3>2
    <3>3. CASE durable'[table[c].slot] # durable[table[c].slot]
      <4>1. table[c].slot = s0 /\ durable'[s0] = v /\ v \in Contacts
        BY <1>3, <1>4, <3>1, <3>3
      <4> QED
        BY <1>1, <1>2, <3>1, <4>1
    <3> QED
      BY <3>2, <3>3
  <2>2. \A c, d \in OccupiedCells : table[c].slot = table[d].slot => c = d
    BY DEF EntryInv
  <2>3. ASSUME NEW t \in Slots, durable'[t] \in Contacts, durable'[t].phone \notin phones
        PROVE  \E c \in OccupiedCells : table[c].slot = t
    <3>1. durable'[t] = durable[t]
      BY <1>1, <1>2, <1>3, <1>4, <2>3
    <3> QED
      BY <1>1, <2>3, <3>1 DEF EntryInv
  <2> QED
    BY <1>1, <2>1, <2>2, <2>3 DEF EntryInv
<1> QED
  BY <1>5, <1>6, <1>7

LEMMA FailedWrite ==
    ASSUME TableInv, op.kind \in {"idle", "message", "remove"}, op' = Idle,
           UNCHANGED <<table, numElems, chats>>, freeSlots' \subseteq Slots,
           NEW phones \in SUBSET Phones, phones # {}, NEW new, NEW released \in BOOLEAN,
           WriteFails(phones, new, released),
           ~Failing => CallsOwnSlot(phones, new, released)
    PROVE  TableInv'
<1>0. /\ TypeOK /\ CardInv /\ EntryInv /\ ReachInv /\ CountInv /\ op \in Ops
  BY InvParts
<1>1. op' \in Ops /\ op'.kind = "idle"
  BY OpFacts DEF Ops
<1>2. SlotsRead = Slots /\ SlotsRead' = Slots /\ Running'
  BY <1>0, <1>1, ReadFacts, ReadNext
<1>3. OccupiedCells' = OccupiedCells /\ ReachInv' /\ CountInv'
  <2>1. OccupiedCells' = OccupiedCells
    BY DEF OccupiedCells
  <2> QED
    BY <1>0, <2>1 DEF ReachInv, Reachable, CountInv
<1>4. Failing' /\ doubt' \subseteq Phones
  BY <1>0 DEF WriteFails, Failing, TypeOK
<1>5. /\ contacts' \in [Slots -> Contacts \cup {Free, Lost}]
      /\ durable' \in [Slots -> Contacts \cup {Free, Lost}]
      /\ CardInv' /\ EntryInv'
  <2>1. CASE Failing
    <3>1. UNCHANGED <<contacts, durable, doubt>>
      BY <2>1 DEF WriteFails
    <3>2. CardInv' /\ EntryInv'
      BY <1>0, <1>2, <1>3, <3>1 DEF CardInv, EntryInv
    <3> QED
      BY <1>0, <3>1, <3>2 DEF TypeOK
  <2>2. CASE ~Failing
    BY <1>0, <1>2, <1>3, <2>2, FirstFailedWrite
  <2> QED
    BY <2>1, <2>2
<1>6. TypeOK'
  BY <1>0, <1>1, <1>4, <1>5 DEF TypeOK
<1>7. RamInv'
  BY <1>1, <1>3, <1>4 DEF RamInv, CountInv
<1> QED
  BY <1>3, <1>5, <1>6, <1>7 DEF TableInv

(* The calls of one phone that has no contact yet: its slot was free.      *)
LEMMA FreeSlotOwn ==
    ASSUME TableInv, ~Failing, op.kind = "idle", NEW p \in Phones, NEW n \in Names,
           NEW i \in Attempts, NEW u \in BOOLEAN, FindsFree(p, i, u), NEW s \in freeSlots,
           NEW new, new = Holding(s, p, n)
    PROVE  CallsOwnSlot({p}, new, TRUE)
<1>0. /\ TypeOK /\ CardInv /\ EntryInv /\ ReachInv /\ AllocInv /\ op \in Ops
  BY InvParts
<1>1. contacts = durable /\ ~Doubtful(p) /\ SlotsRead = Slots
  BY <1>0, NotFailing, ReadFacts
<1>2. s \in Slots /\ contacts[s] = Free
  BY <1>0, <1>1 DEF AllocInv
<1>3. \A t \in Slots : contacts[t] \in Contacts => contacts[t].phone # p
  BY <1>0, <1>1, FreeCell
<1>4. PICK v \in Contacts : v = [phone |-> p, name |-> n]
  BY DEF Contacts
<1>5. v.phone = p /\ new = [contacts EXCEPT ![s] = v]
  BY <1>4 DEF Holding
<1> QED
  BY <1>0, <1>2, <1>3, <1>5, CardFacts DEF CallsOwnSlot

(* The calls of a phone p that has a contact, which gets the phone q.      *)
LEMMA FoundSlotOwn ==
    ASSUME TableInv, ~Failing, op.kind = "idle", NEW p \in Phones, NEW q \in Phones,
           NEW n \in Names, NEW i \in Attempts, NEW u \in BOOLEAN, Found(p, i, u),
           \/ p = q
           \/ \E k \in Attempts, w \in BOOLEAN : FindsFree(q, k, w),
           NEW new, new = Holding(EntryOf(p, i).slot, q, n)
    PROVE  CallsOwnSlot({p, q}, new, TRUE)
<1>0. /\ TypeOK /\ CardInv /\ EntryInv /\ ReachInv /\ AllocInv /\ op \in Ops
  BY InvParts
<1>1. contacts = durable /\ ~Doubtful(p) /\ ~Doubtful(q) /\ SlotsRead = Slots
  BY <1>0, NotFailing, ReadFacts
<1>2. PICK s \in Slots : s = EntryOf(p, i).slot /\ contacts[s] \in Contacts /\ contacts[s].phone = p
  BY <1>0, <1>1, FoundCell
<1>3. \A t \in Slots : t # s /\ contacts[t] \in Contacts => contacts[t].phone # q
  <2>1. CASE p = q
    BY <1>0, <1>1, <1>2, <2>1 DEF CardInv
  <2>2. CASE \E k \in Attempts, w \in BOOLEAN : FindsFree(q, k, w)
    BY <1>0, <1>1, <2>2, FreeCell
  <2> QED
    BY <2>1, <2>2
<1>4. PICK v \in Contacts : v = [phone |-> q, name |-> n]
  BY DEF Contacts
<1>5. v.phone = q /\ new = [contacts EXCEPT ![s] = v]
  BY <1>2, <1>4 DEF Holding
<1> QED
  BY <1>2, <1>3, <1>5, CardFacts, <1>0 DEF CallsOwnSlot

LEMMA InsertContactFailsInv ==
    ASSUME TableInv, NEW p \in Phones, NEW n \in Names, InsertContactFails(p, n) PROVE TableInv'
<1>0. TypeOK /\ op = Idle /\ op.kind = "idle"
  BY InvParts, OpFacts DEF InsertContactFails
<1>a. PICK u \in BOOLEAN, i \in Attempts, s \in freeSlots :
         FindsFree(p, i, u) /\ WriteFails({p}, Holding(s, p, n), TRUE)
  BY GarbageFacts DEF InsertContactFails
<1>1. PICK new : new = Holding(s, p, n) /\ WriteFails({p}, new, TRUE)
  BY <1>a DEF WriteFails
<1>2. UNCHANGED <<table, freeSlots, numElems, chats>> /\ op' = Idle
  BY <1>0 DEF InsertContactFails, ram
<1>3. freeSlots' \subseteq Slots
  BY <1>0, <1>2 DEF TypeOK
<1> QED
  BY <1>0, <1>a, <1>1, <1>2, <1>3, FreeSlotOwn, FailedWrite

LEMMA MessageToNewContactFailsInv ==
    ASSUME TableInv, NEW p \in Phones, MessageToNewContactFails(p) PROVE TableInv'
<1>0. TypeOK /\ op = Idle /\ op.kind = "idle"
  BY InvParts, OpFacts DEF MessageToNewContactFails
<1>a. PICK u \in BOOLEAN, i \in Attempts, s \in freeSlots :
         /\ FindsFree(p, i, u) /\ WriteFails({p}, Holding(s, p, Unnamed), TRUE)
         /\ freeSlots' = freeSlots \ {s}
  BY GarbageFacts DEF MessageToNewContactFails
<1>1. PICK new : new = Holding(s, p, Unnamed) /\ WriteFails({p}, new, TRUE)
  BY <1>a DEF WriteFails
<1>2. UNCHANGED <<table, numElems, chats>> /\ op' = Idle
  BY <1>0 DEF MessageToNewContactFails
<1>3. freeSlots' \subseteq Slots
  BY <1>0, <1>a DEF TypeOK
<1> QED
  BY <1>0, <1>a, <1>1, <1>2, <1>3, FreeSlotOwn, FailedWrite, ContactAssumption

LEMMA UpdateContactFailsInv ==
    ASSUME TableInv, NEW p \in Phones, NEW n \in Names, UpdateContactFails(p, n) PROVE TableInv'
<1>0. TypeOK /\ op = Idle /\ op.kind = "idle"
  BY InvParts, OpFacts DEF UpdateContactFails
<1>a. PICK u \in BOOLEAN, i \in Attempts :
         Found(p, i, u) /\ WriteFails({p}, Holding(EntryOf(p, i).slot, p, n), TRUE)
  BY GarbageFacts DEF UpdateContactFails
<1>1. PICK new : new = Holding(EntryOf(p, i).slot, p, n) /\ WriteFails({p}, new, TRUE)
  BY <1>a DEF WriteFails
<1>2. UNCHANGED <<table, freeSlots, numElems, chats>> /\ op' = Idle
  BY <1>0 DEF UpdateContactFails, ram
<1>3. freeSlots' \subseteq Slots
  BY <1>0, <1>2 DEF TypeOK
<1>4. ~Failing => CallsOwnSlot({p}, new, TRUE)
  <2>1. {p, p} = {p}
    OBVIOUS
  <2>2. ~Failing => CallsOwnSlot({p, p}, new, TRUE)
    BY <1>0, <1>a, <1>1, FoundSlotOwn
  <2> QED
    BY <2>1, <2>2
<1> QED
  BY <1>0, <1>1, <1>2, <1>3, <1>4, FailedWrite

LEMMA UpdatePhoneFailsInv ==
    ASSUME TableInv, NEW p \in Phones, NEW q \in Phones, NEW n \in Names, UpdatePhoneFails(p, q, n)
    PROVE  TableInv'
<1>0. TypeOK /\ op = Idle /\ op.kind = "idle"
  BY InvParts, OpFacts DEF UpdatePhoneFails
<1>a. PICK u \in BOOLEAN, w \in BOOLEAN, i \in Attempts, k \in Attempts :
         /\ Found(p, i, u) /\ FindsFree(q, k, w)
         /\ WriteFails({p, q}, Holding(EntryOf(p, i).slot, q, n), TRUE)
  BY GarbageFacts DEF UpdatePhoneFails
<1>1. PICK new : new = Holding(EntryOf(p, i).slot, q, n) /\ WriteFails({p, q}, new, TRUE)
  BY <1>a DEF WriteFails
<1>2. UNCHANGED <<table, freeSlots, numElems, chats>> /\ op' = Idle
  BY <1>0 DEF UpdatePhoneFails, ram
<1>3. freeSlots' \subseteq Slots
  BY <1>0, <1>2 DEF TypeOK
<1>4. ~Failing => CallsOwnSlot({p, q}, new, TRUE)
  BY <1>0, <1>a, <1>1, FoundSlotOwn
<1> QED
  BY <1>0, <1>1, <1>2, <1>3, <1>4, FailedWrite

LEMMA RemoveContactFailsInv == ASSUME TableInv, RemoveContactFails PROVE TableInv'
<1>0. /\ TypeOK /\ CardInv /\ EntryInv /\ OpInv /\ op \in Ops
  BY InvParts
<1>1. op.kind = "remove" /\ UNCHANGED <<table, freeSlots, numElems, chats>> /\ op' = Idle
  BY DEF RemoveContactFails, ram
<1>a. PICK p \in Phones, c \in OccupiedCells, s \in Slots :
         p = op.phone /\ c = op.cell /\ s = table[c].slot
  BY <1>0, <1>1, OpKinds, CellFacts DEF OpInv
<1>2. PICK new : new = [contacts EXCEPT ![s] = Free] /\ WriteFails({p}, new, FALSE)
  BY <1>a DEF RemoveContactFails, WriteFails
<1>3. freeSlots' \subseteq Slots
  BY <1>0, <1>1 DEF TypeOK
<1>4. ~Failing => CallsOwnSlot({p}, new, FALSE)
  <2> SUFFICES ASSUME ~Failing PROVE CallsOwnSlot({p}, new, FALSE)
    OBVIOUS
  <2>1. contacts = durable /\ contacts[s] \in Contacts /\ contacts[s].phone = p
    BY <1>0, <1>1, <1>a, NotFailing DEF EntryInv, OpInv
  <2> QED
    BY <1>0, <1>2, <2>1, CardFacts DEF CallsOwnSlot
<1> QED
  BY <1>1, <1>2, <1>3, <1>4, FailedWrite

-----------------------------------------------------------------------------
(* Contact writes that succeed: an update, and a removal.                  *)

(* The contact of phone p gets the phone q, on the card.                   *)
LEMMA CardUpdate ==
    ASSUME TableInv, op = Idle, NEW p \in Phones, NEW q \in Phones, NEW n \in Names,
           NEW i \in Attempts, NEW u \in BOOLEAN, Found(p, i, u),
           \/ p = q
           \/ \E k \in Attempts, w \in BOOLEAN : FindsFree(q, k, w),
           Written(Holding(EntryOf(p, i).slot, q, n)),
           UNCHANGED <<freeSlots, chats, op>>
    PROVE  /\ contacts' \in [Slots -> Contacts \cup {Free, Lost}] /\ durable' = contacts'
           /\ Probe(p, i) \in OccupiedCells /\ table[Probe(p, i)].slot \in Slots
           /\ durable'[table[Probe(p, i)].slot] \in Contacts
           /\ durable'[table[Probe(p, i)].slot].phone = q
           /\ \A t \in Slots : t # table[Probe(p, i)].slot => durable'[t] = durable[t]
           /\ CardInv' /\ AllocInv'
<1>0. /\ TypeOK /\ CardInv /\ EntryInv /\ ReachInv /\ AllocInv /\ op \in Ops /\ op.kind = "idle"
  BY InvParts, OpFacts
<1>1. /\ ~Failing /\ doubt' = doubt /\ doubt = {} /\ contacts = durable
      /\ ~Doubtful(p) /\ ~Doubtful(q)
  BY <1>0, NotFailing DEF Written
<1>2. PICK s \in Slots : /\ s = EntryOf(p, i).slot /\ EntryOf(p, i) = table[Probe(p, i)]
                         /\ Probe(p, i) \in OccupiedCells
                         /\ durable[s] \in Contacts /\ durable[s].phone = p
  BY <1>0, <1>1, FoundCell
<1>3. PICK new : new = Holding(s, q, n) /\ contacts' = new /\ durable' = new
  BY <1>2 DEF Written
<1>4. /\ new \in [Slots -> Contacts \cup {Free, Lost}]
      /\ new[s] \in Contacts /\ new[s].phone = q
      /\ \A t \in Slots : t # s => new[t] = durable[t]
  BY <1>0, <1>1, <1>3, NewContact
<1>5. SlotsRead = Slots /\ SlotsRead' = Slots /\ Running'
  BY <1>0, ReadFacts, ReadNext
<1>6. \A t \in Slots : t # s /\ durable[t] \in Contacts => durable[t].phone # q
  <2>1. CASE p = q
    BY <1>0, <1>2, <2>1 DEF CardInv
  <2>2. CASE \E k \in Attempts, w \in BOOLEAN : FindsFree(q, k, w)
    BY <1>0, <1>1, <1>5, <2>2, FreeCell
  <2> QED
    BY <2>1, <2>2
<1>7. CardInv'
  <2>1. \A t, w \in Slots : new[t] \in Contacts /\ new[w] \in Contacts
                               /\ new[t].phone = new[w].phone => t = w
    BY <1>0, <1>4, <1>6 DEF CardInv
  <2>2. \A t \in chats : new[t] # Free
    BY <1>0, <1>4, CardFacts DEF CardInv, TypeOK
  <2> QED
    BY <1>3, <1>5, <2>1, <2>2 DEF CardInv
<1>8. AllocInv'
  <2>1. {t \in Slots : durable[t] = Free} = {t \in Slots : new[t] = Free}
    BY <1>0, <1>2, <1>4, CardFacts
  <2> QED
    BY <1>0, <1>1, <1>3, <1>5, <2>1 DEF AllocInv, Failing
<1> QED
  BY <1>2, <1>3, <1>4, <1>7, <1>8

LEMMA UpdateContactInv ==
    ASSUME TableInv, NEW p \in Phones, NEW n \in Names, UpdateContact(p, n) PROVE TableInv'
<1>0. /\ TypeOK /\ CardInv /\ EntryInv /\ ReachInv
      /\ CountInv /\ ChatInv /\ op \in Ops
  BY InvParts
<1>1. PICK u \in BOOLEAN, i \in Attempts :
         Found(p, i, u) /\ Written(Holding(EntryOf(p, i).slot, p, n))
  BY GarbageFacts DEF UpdateContact
<1>2. /\ op = Idle /\ UNCHANGED <<table, freeSlots, numElems, chats, op>>
      /\ op.kind = "idle" /\ op'.kind = "idle"
  BY OpFacts DEF UpdateContact, ram
<1>3. /\ ~Failing /\ doubt' = doubt /\ doubt = {} /\ ~Doubtful(p)
  BY <1>0, <1>1, NotFailing DEF Written
<1>4. PICK c \in OccupiedCells :
         /\ c = Probe(p, i) /\ table[c].slot \in Slots
         /\ contacts' \in [Slots -> Contacts \cup {Free, Lost}] /\ durable' = contacts'
         /\ durable'[table[c].slot] \in Contacts /\ durable'[table[c].slot].phone = p
         /\ \A t \in Slots : t # table[c].slot => durable'[t] = durable[t]
         /\ CardInv' /\ AllocInv'
  BY <1>1, <1>2, CardUpdate
<1>5. SlotsRead = Slots /\ SlotsRead' = Slots /\ ChatsRead' = Slots /\ ChatsRead = Slots
  BY <1>0, <1>2, ReadFacts, ReadNext
<1>6. OccupiedCells' = OccupiedCells /\ ReachInv' /\ CountInv'
  <2>1. OccupiedCells' = OccupiedCells
    BY <1>2 DEF OccupiedCells
  <2> QED
    BY <1>0, <1>2, <2>1 DEF ReachInv, Reachable, CountInv
<1>7. TypeOK'
  BY <1>0, <1>2, <1>3, <1>4 DEF TypeOK
<1>8. EntryInv'
  <2>1. durable[table[c].slot].phone = p
    BY <1>0, <1>1, <1>3, <1>4, FoundCell
  <2>2. \A t \in Slots : durable[t] \in Contacts <=> durable'[t] \in Contacts
    BY <1>0, <1>4 DEF EntryInv
  <2>3. \A t \in Slots : durable[t] \in Contacts => durable'[t].phone = durable[t].phone
    BY <1>4, <2>1
  <2> QED
    BY <1>0, <1>2, <1>3, <1>5, <1>6, <2>2, <2>3, CellFacts DEF EntryInv
<1>9. ChatInv'
  BY <1>0, <1>2, <1>3, <1>5, <1>6 DEF ChatInv, Failing
<1>10. RamInv'
  BY <1>2, <1>4, <1>6, <1>9 DEF RamInv, CountInv, AllocInv, ChatInv
<1> QED
  BY <1>4, <1>6, <1>7, <1>8, <1>10 DEF TableInv

LEMMA RemoveContactInv == ASSUME TableInv, RemoveContact PROVE TableInv'
<1>0. /\ TypeOK /\ CardInv /\ EntryInv /\ ReachInv
      /\ CountInv /\ AllocInv /\ ChatInv /\ OpInv /\ op \in Ops
  BY InvParts
<1>1. /\ op.kind = "remove" /\ op' = Idle /\ chats' = chats /\ numElems' = numElems - 1
      /\ ~Failing /\ doubt' = doubt
  BY DEF RemoveContact, Written
<1>2. doubt = {} /\ contacts = durable
  BY <1>0, <1>1, NotFailing
<1>a. PICK c \in OccupiedCells : c = op.cell /\ c \in Cells /\ table[c].slot \in Slots
  BY <1>0, <1>1, CellFacts DEF OpInv
<1>b. PICK s \in Slots : s = table[c].slot
  BY <1>a
<1>c. PICK new :
         /\ new = [contacts EXCEPT ![s] = Free] /\ contacts' = new /\ durable' = new
         /\ freeSlots' = freeSlots \cup {s}
         /\ table' = [table EXCEPT ![c] = Tombstone]
  BY <1>a, <1>b DEF RemoveContact, Written
<1>3. /\ c \in Cells /\ c = op.cell /\ s = table[c].slot
      /\ new = [contacts EXCEPT ![s] = Free] /\ contacts' = new /\ durable' = new
      /\ freeSlots' = freeSlots \cup {s}
      /\ table' = [table EXCEPT ![c] = Tombstone]
  BY <1>a, <1>b, <1>c
<1>4. /\ new \in [Slots -> Contacts \cup {Free, Lost}] /\ new[s] = Free
      /\ \A t \in Slots : t # s => new[t] = durable[t]
      /\ durable[s] \in Contacts
  BY <1>0, <1>2, <1>3, CardFacts DEF EntryInv
<1>5. /\ table' \in [Cells -> Entries] /\ table'[c].state = "deleted"
      /\ \A d \in Cells : d # c => table'[d] = table[d]
  BY <1>0, <1>3, EntryFacts, CellFacts DEF Entries
<1>6. OccupiedCells' = OccupiedCells \ {c}
  BY <1>5 DEF OccupiedCells
<1>7. op' \in Ops /\ op'.kind = "idle"
  BY <1>1, OpFacts DEF Ops
<1>8. /\ SlotsRead' = Slots /\ ChatsRead' = Slots /\ Running' /\ ~Failing'
      /\ SlotsRead = Slots /\ ChatsRead = Slots
  BY <1>0, <1>1, <1>2, <1>7, ReadFacts, ReadNext DEF Failing
<1>9. CountInv' /\ numElems' \in Nat
  <2>1. IsFiniteSet(OccupiedCells \ {c}) /\ c \notin OccupiedCells \ {c}
    BY FiniteCells, FS_Subset
  <2>2. (OccupiedCells \ {c}) \cup {c} = OccupiedCells
    OBVIOUS
  <2>3. /\ Cardinality(OccupiedCells \ {c}) \in Nat
        /\ Cardinality(OccupiedCells) = Cardinality(OccupiedCells \ {c}) + 1
    BY <2>1, <2>2, FS_AddElement, FS_CardinalityType
  <2>4. numElems - 1 = Cardinality(OccupiedCells \ {c})
    BY <1>0, <2>3 DEF CountInv
  <2> QED
    BY <1>1, <1>6, <2>3, <2>4 DEF CountInv
<1>10. TypeOK'
  <2>1. freeSlots \cup {s} \subseteq Slots /\ chats \subseteq Slots /\ doubt \subseteq Phones
    BY <1>0 DEF TypeOK
  <2>2. table' \in [Cells -> {Empty, Tombstone} \cup OccupiedEntries]
    BY <1>5 DEF Entries
  <2> QED
    BY <1>1, <1>3, <1>4, <1>7, <1>9, <2>1, <2>2 DEF TypeOK
<1>11. s \notin chats
  BY <1>0, <1>1, <1>3, <1>8 DEF OpInv, ChatInv
<1>12. CardInv'
  <2>1. \A t, w \in Slots : new[t] \in Contacts /\ new[w] \in Contacts
                               /\ new[t].phone = new[w].phone => t = w
    BY <1>0, <1>4, CardFacts DEF CardInv
  <2>2. \A t \in chats : new[t] # Free
    BY <1>0, <1>4, <1>11 DEF CardInv, TypeOK
  <2> QED
    BY <1>1, <1>3, <1>8, <2>1, <2>2 DEF CardInv
<1>13. EntryInv'
  <2>1. \A d \in OccupiedCells \ {c} :
           /\ table'[d] = table[d] /\ table[d].slot \in Slots /\ table[d].slot # s
           /\ new[table[d].slot] = durable[table[d].slot]
    BY <1>0, <1>3, <1>4, <1>5, CellFacts DEF EntryInv
  <2>2. \A d \in OccupiedCells \ {c} :
           /\ table'[d].slot \in Slots /\ new[table'[d].slot] \in Contacts
           /\ table'[d].id = Hash[new[table'[d].slot].phone]
    BY <1>0, <1>2, <2>1 DEF EntryInv
  <2>3. \A d, e \in OccupiedCells \ {c} : table'[d].slot = table'[e].slot => d = e
    BY <1>0, <2>1 DEF EntryInv
  <2>4. ASSUME NEW t \in Slots, new[t] \in Contacts
        PROVE  \E d \in OccupiedCells \ {c} : table'[d].slot = t
    <3>1. t # s /\ durable[t] \in Contacts
      BY <1>0, <1>4, <2>4, CardFacts
    <3>2. PICK d \in OccupiedCells : table[d].slot = t
      BY <1>0, <1>2, <1>8, <3>1 DEF EntryInv
    <3> QED
      BY <1>3, <2>1, <3>1, <3>2
  <2> QED
    BY <1>3, <1>6, <1>8, <2>2, <2>3, <2>4 DEF EntryInv
<1>14. ReachInv'
  <2>1. \A d \in Cells : table[d].state # "empty" => table'[d].state # "empty"
    BY <1>5
  <2> QED
    BY <1>0, <1>3, <1>5, <1>6, <2>1, CellFacts, StaysReachable DEF ReachInv
<1>15. AllocInv'
  <2>1. freeSlots \cup {s} = {t \in Slots : new[t] = Free}
    BY <1>0, <1>1, <1>2, <1>4, <1>8 DEF AllocInv
  <2> QED
    BY <1>3, <1>8, <2>1 DEF AllocInv
<1>16. ChatInv'
  BY <1>0, <1>1, <1>5, <1>6, <1>8, CellFacts DEF ChatInv
<1>17. OpInv'
  BY <1>7 DEF OpInv
<1>18. RamInv'
  BY <1>9, <1>15, <1>16, <1>17 DEF RamInv, CountInv, AllocInv, ChatInv, OpInv
<1> QED
  BY <1>10, <1>12, <1>13, <1>14, <1>18 DEF TableInv

(* The entry of phone p moves to the cell where q's walk ended.            *)
LEMMA UpdatePhoneInv ==
    ASSUME TableInv, NEW p \in Phones, NEW q \in Phones, NEW n \in Names, UpdatePhone(p, q, n)
    PROVE  TableInv'
<1>0. /\ TypeOK /\ CardInv /\ EntryInv /\ ReachInv
      /\ CountInv /\ ChatInv /\ op \in Ops
  BY InvParts
<1>1. PICK u \in BOOLEAN, w \in BOOLEAN, i \in Attempts, k \in Attempts :
         /\ Found(p, i, u) /\ FindsFree(q, k, w)
         /\ Written(Holding(EntryOf(p, i).slot, q, n))
         /\ table' = [table EXCEPT ![Probe(q, k)] = [EntryOf(p, i) EXCEPT !.id = Hash[q]],
                                   ![Probe(p, i)] = Tombstone]
  BY GarbageFacts DEF UpdatePhone
<1>2. /\ op = Idle /\ UNCHANGED <<freeSlots, numElems, chats, op>>
      /\ op.kind = "idle" /\ op'.kind = "idle"
  BY OpFacts DEF UpdatePhone
<1>3. /\ ~Failing /\ doubt' = doubt /\ doubt = {} /\ ~Doubtful(p)
  BY <1>0, <1>1, NotFailing DEF Written
<1>4. PICK c \in OccupiedCells :
         /\ c = Probe(p, i) /\ table[c].slot \in Slots
         /\ contacts' \in [Slots -> Contacts \cup {Free, Lost}] /\ durable' = contacts'
         /\ durable'[table[c].slot] \in Contacts /\ durable'[table[c].slot].phone = q
         /\ \A t \in Slots : t # table[c].slot => durable'[t] = durable[t]
         /\ CardInv' /\ AllocInv'
  BY <1>1, <1>2, CardUpdate
<1>5. /\ SlotsRead = Slots /\ SlotsRead' = Slots /\ ChatsRead' = Slots /\ ChatsRead = Slots
      /\ Running' /\ ~Failing'
  BY <1>0, <1>2, <1>3, ReadFacts, ReadNext DEF Failing
<1>6. PICK d \in Cells \ OccupiedCells : d = Probe(q, k)
  BY <1>1, ProbeInTable DEF FindsFree, OccupiedCells
<1>7. /\ c \in Cells /\ c # d /\ table[c] \in OccupiedEntries /\ table \in [Cells -> Entries]
      /\ Hash[q] \in Nat /\ table[c] = EntryOf(p, i)
  BY <1>0, <1>4, <1>6, CellFacts, ProbeInTable DEF EntryOf
<1>8. PICK e \in OccupiedEntries :
         /\ e = [table[c] EXCEPT !.id = Hash[q]]
         /\ e.state = "occupied" /\ e.id = Hash[q] /\ e.slot = table[c].slot
         /\ e.chat = table[c].chat
  <2> DEFINE f == [table[c] EXCEPT !.id = Hash[q]]
  <2>1. /\ f \in OccupiedEntries /\ f.id = Hash[q] /\ f.slot = table[c].slot
        /\ f.chat = table[c].chat
    BY <1>7, IdUpdate
  <2>2. f.state = "occupied"
    BY <2>1, EntryFacts
  <2> QED
    BY <2>1, <2>2, Zenon
<1>9. /\ table' \in [Cells -> Entries]
      /\ table'[d] = e /\ table'[c].state = "deleted"
      /\ \A x \in Cells : x # c /\ x # d => table'[x] = table[x]
  <2>1. table' = [table EXCEPT ![d] = e, ![c] = Tombstone]
    BY <1>1, <1>4, <1>6, <1>7, <1>8
  <2> QED
    BY <1>6, <1>7, <1>8, <2>1, EntryFacts DEF Entries
<1>10. OccupiedCells' = (OccupiedCells \ {c}) \cup {d}
  BY <1>6, <1>8, <1>9 DEF OccupiedCells
<1>11. CountInv'
  <2>1. IsFiniteSet(OccupiedCells \ {c}) /\ c \notin OccupiedCells \ {c} /\ d \notin OccupiedCells \ {c}
    BY <1>6, FiniteCells, FS_Subset
  <2>2. (OccupiedCells \ {c}) \cup {c} = OccupiedCells
    OBVIOUS
  <2>3. /\ Cardinality(OccupiedCells) = Cardinality(OccupiedCells \ {c}) + 1
        /\ Cardinality((OccupiedCells \ {c}) \cup {d}) = Cardinality(OccupiedCells \ {c}) + 1
    <3>1. Cardinality((OccupiedCells \ {c}) \cup {c}) = Cardinality(OccupiedCells \ {c}) + 1
      BY <2>1, FS_AddElement
    <3> QED
      BY <2>1, <2>2, <3>1, FS_AddElement
  <2> QED
    BY <1>0, <1>2, <1>10, <2>3 DEF CountInv
<1>12. TypeOK'
  <2>1. table' \in [Cells -> {Empty, Tombstone} \cup OccupiedEntries]
    BY <1>9 DEF Entries
  <2> QED
    BY <1>0, <1>2, <1>3, <1>4, <2>1 DEF TypeOK
<1>13. /\ \A x \in OccupiedCells \ {c} :
             /\ table'[x] = table[x] /\ table[x].slot \in Slots
             /\ table[x].slot # table[c].slot
       /\ table'[d].slot = table[c].slot /\ table'[d].chat = table[c].chat
       /\ table'[d].id = Hash[q]
  BY <1>0, <1>6, <1>8, <1>9, CellFacts DEF EntryInv
<1>14. EntryInv'
  <2>1. \A x \in (OccupiedCells \ {c}) \cup {d} :
           /\ table'[x].slot \in Slots /\ durable'[table'[x].slot] \in Contacts
           /\ table'[x].id = Hash[durable'[table'[x].slot].phone]
    BY <1>0, <1>3, <1>4, <1>13 DEF EntryInv
  <2>2. \A x, y \in (OccupiedCells \ {c}) \cup {d} : table'[x].slot = table'[y].slot => x = y
    BY <1>0, <1>13 DEF EntryInv
  <2>3. ASSUME NEW t \in Slots, durable'[t] \in Contacts
        PROVE  \E x \in (OccupiedCells \ {c}) \cup {d} : table'[x].slot = t
    <3>1. CASE t = table[c].slot
      BY <1>13, <3>1
    <3>2. CASE t # table[c].slot
      <4>1. PICK x \in OccupiedCells : table[x].slot = t
        BY <1>0, <1>3, <1>4, <1>5, <2>3, <3>2 DEF EntryInv
      <4> QED
        BY <1>13, <3>2, <4>1
    <3> QED
      BY <3>1, <3>2
  <2> QED
    BY <1>5, <1>10, <2>1, <2>2, <2>3 DEF EntryInv
<1>15. ReachInv'
  <2>1. \A x \in Cells : table[x].state # "empty" => table'[x].state # "empty"
    BY <1>8, <1>9
  <2>2. \A x \in OccupiedCells \ {c} : Reachable(x)'
    BY <1>0, <1>13, <2>1, StaysReachable DEF ReachInv
  <2>3. Reachable(d)'
    <3>1. \A j \in 0 .. k - 1 : j \in Attempts
      BY Sizes DEF Attempts
    <3>2. \A j \in 0 .. k - 1 : /\ HashDouble(Hash[q], j) \in OccupiedCells
                                /\ HashDouble(Hash[q], j) = Probe(q, j)
      BY <1>1, <3>1, ProbeInTable DEF FindsFree, OccupiedCells
    <3>3. \A j \in 0 .. k - 1 : /\ HashDouble(Hash[q], j) # d
                                /\ table'[HashDouble(Hash[q], j)].state # "empty"
      BY <1>6, <2>1, <3>2 DEF OccupiedCells
    <3>4. HashDouble(Hash[q], k) = d /\ table'[d].id = Hash[q]
      BY <1>6, <1>13, ProbeInTable
    <3> QED
      BY <3>3, <3>4 DEF Reachable
  <2> QED
    BY <1>10, <2>2, <2>3 DEF ReachInv
<1>16. ChatInv'
  <2>1. \A x \in OccupiedCells : table[x].chat <=> table[x].slot \in chats
    BY <1>0, <1>3, <1>5, CellFacts DEF ChatInv, Failing
  <2>2. \A x \in (OccupiedCells \ {c}) \cup {d} : table'[x].chat <=> table'[x].slot \in chats
    BY <1>13, <2>1
  <2>3. \A x \in (OccupiedCells \ {c}) \cup {d} : table'[x].slot \in Slots
    BY <1>4, <1>13
  <2> QED
    BY <1>2, <1>5, <1>10, <2>2, <2>3 DEF ChatInv
<1>17. OpInv'
  BY <1>2 DEF OpInv
<1>18. RamInv'
  BY <1>4, <1>11, <1>16, <1>17 DEF RamInv, CountInv, AllocInv, ChatInv, OpInv
<1> QED
  BY <1>4, <1>12, <1>14, <1>15, <1>18 DEF TableInv

-----------------------------------------------------------------------------
(* Power cuts and the reconstruction.                                      *)

LEMMA EmptyTable ==
    ASSUME NEW t, t = [c \in Cells |-> Empty]
    PROVE  t \in [Cells -> Entries] /\ {c \in Cells : t[c].state = "occupied"} = {}
  BY EntryFacts DEF Entries

LEMMA InitInv == ASSUME Init PROVE TableInv
<1>1. /\ table \in [Cells -> Entries] /\ OccupiedCells = {}
  BY EmptyTable DEF Init, OccupiedCells
<1>2. op.kind = "idle" /\ op \in Ops /\ doubt = {}
  BY OpFacts DEF Init, Ops
<1>3. SlotsRead = Slots /\ Running
  BY <1>2, ReadFacts
<1>4. /\ contacts \in [Slots -> Contacts \cup {Free, Lost}] /\ durable = contacts
      /\ \A s \in Slots : durable[s] = Free
  BY DEF Init
<1>5. TypeOK
  BY <1>1, <1>2, <1>4 DEF Init, TypeOK, Entries
<1>6. CardInv
  BY <1>3, <1>4, ContactAssumption DEF CardInv, Init
<1>7. EntryInv /\ ReachInv
  BY <1>1, <1>3, <1>4, ContactAssumption DEF EntryInv, ReachInv
<1>8. RamInv
  BY <1>1, <1>2, <1>3, <1>4, FS_EmptySet DEF RamInv, Init
<1> QED
  BY <1>5, <1>6, <1>7, <1>8 DEF TableInv

LEMMA PowerCutInv == ASSUME TableInv, PowerCut PROVE TableInv'
<1>0. TypeOK /\ CardInv
  BY InvParts
<1>1. /\ table' \in [Cells -> Entries] /\ OccupiedCells' = {}
  BY EmptyTable DEF PowerCut, OccupiedCells
<1>2. op'.kind = "off" /\ op' \in Ops
  BY OpFacts DEF PowerCut, Ops
<1>3. SlotsRead' = {}
  BY <1>2, ReadNext
<1>4. /\ freeSlots' = {} /\ numElems' = 0 /\ contacts' = durable /\ durable' = durable
      /\ doubt' = {} /\ chats' = chats
  BY DEF PowerCut
<1>5. TypeOK'
  BY <1>0, <1>1, <1>2, <1>4 DEF TypeOK, Entries
<1>6. CardInv'
  BY <1>0, <1>4 DEF CardInv
<1>7. EntryInv' /\ ReachInv'
  BY <1>1, <1>3 DEF EntryInv, ReachInv
<1>8. RamInv'
  BY <1>1, <1>2, <1>3, <1>4, FS_EmptySet DEF RamInv
<1> QED
  BY <1>5, <1>6, <1>7, <1>8 DEF TableInv

(* Until the mount is over no write has failed.                            *)
LEMMA NotMounted ==
    ASSUME TypeOK, CardInv, op.kind \in {"off", "contacts", "chats"}
    PROVE  /\ ~Running /\ ~Failing /\ doubt = {} /\ contacts = durable
           /\ \A p \in Phones : ~Doubtful(p)
<1>1. ~Running
  BY DEF Running
<1>2. doubt = {}
  BY <1>1 DEF CardInv
<1> QED
  BY <1>1, <1>2, NotFailing DEF Failing

LEMMA DecayInv == ASSUME TableInv, NEW s \in Slots, Decay(s) PROVE TableInv'
<1>0. /\ TypeOK /\ CardInv /\ EntryInv /\ ReachInv /\ CountInv /\ AllocInv /\ op \in Ops
  BY InvParts
<1>1. /\ UNCHANGED <<table, freeSlots, numElems, chats, op, doubt>> /\ op.kind = "off"
      /\ op'.kind = "off" /\ durable' = contacts'
  BY OpFacts DEF Decay, ram
<1>2. doubt = {} /\ contacts = durable
  BY <1>0, <1>1, NotMounted
<1>3. /\ contacts' \in [Slots -> Contacts \cup {Free, Lost}]
      /\ \A t \in Slots : contacts'[t] = Lost \/ contacts'[t] = contacts[t]
  BY <1>0, CardFacts DEF Decay
<1>4. SlotsRead = {} /\ SlotsRead' = {}
  BY <1>0, <1>1, ReadFacts, ReadNext
<1>5. OccupiedCells = {} /\ OccupiedCells' = {}
  <2>1. OccupiedCells = {}
    BY <1>0, <1>4 DEF EntryInv
  <2> QED
    BY <1>1, <2>1 DEF OccupiedCells
<1>6. TypeOK'
  BY <1>0, <1>1, <1>3 DEF TypeOK
<1>7. CardInv'
  <2>1. \A t, w \in Slots : contacts'[t] \in Contacts /\ contacts'[w] \in Contacts
                               /\ contacts'[t].phone = contacts'[w].phone => t = w
    BY <1>0, <1>2, <1>3, ContactAssumption DEF CardInv
  <2>2. \A t \in chats : contacts'[t] # Free
    BY <1>0, <1>2, <1>3, ContactAssumption DEF CardInv, TypeOK
  <2> QED
    BY <1>1, <1>2, <2>1, <2>2 DEF CardInv
<1>8. EntryInv' /\ ReachInv'
  BY <1>4, <1>5 DEF EntryInv, ReachInv
<1>9. RamInv'
  <2>1. numElems' = Cardinality(OccupiedCells') /\ freeSlots' = {}
    BY <1>0, <1>1, <1>2, <1>4, <1>5 DEF CountInv, AllocInv, Failing
  <2> QED
    BY <1>1, <1>4, <1>5, <2>1 DEF RamInv
<1> QED
  BY <1>6, <1>7, <1>8, <1>9 DEF TableInv

(* The next slot is read.                                                  *)
LEMMA NextSlot ==
    ASSUME TableInv, op.kind = "contacts", op.at < NumSlots, op' = ReadingContacts(op.at + 1)
    PROVE  \E k \in Slots : /\ k = op.at /\ k \notin SlotsRead
                            /\ op' \in Ops /\ op'.kind = "contacts"
                            /\ SlotsRead' = SlotsRead \cup {k} /\ SlotsRead \subseteq Slots
                            /\ ChatsRead' = {} /\ ChatsRead = {}
<1>0. TypeOK /\ op \in Ops
  BY InvParts
<1>1. op.at \in 0 .. NumSlots /\ SlotsRead = 0 .. op.at - 1 /\ ChatsRead = {}
      /\ SlotsRead \subseteq Slots
  BY <1>0, OpKinds, ReadFacts
<1>2. op.at \in Slots /\ op.at + 1 \in 0 .. NumSlots
  BY <1>1, Sizes DEF Slots
<1>3. op' \in Ops /\ op'.kind = "contacts" /\ op'.at = op.at + 1
  BY <1>2, OpFacts DEF Ops
<1>4. SlotsRead' = 0 .. (op.at + 1) - 1 /\ ChatsRead' = {}
  BY <1>3, ReadNext
<1>5. \A a \in Nat : (0 .. (a + 1) - 1) = (0 .. a - 1) \cup {a} /\ a \notin 0 .. a - 1
  OBVIOUS
<1>6. op.at \in Nat
  BY <1>1, Sizes
<1> QED
  BY <1>1, <1>2, <1>3, <1>4, <1>5, <1>6

LEMMA FreeSlotReadInv == ASSUME TableInv, FreeSlotRead PROVE TableInv'
<1>0. /\ TypeOK /\ CardInv /\ EntryInv /\ ReachInv
      /\ CountInv /\ AllocInv /\ ChatInv /\ op \in Ops
  BY InvParts
<1>1. /\ UNCHANGED <<table, numElems, contacts, durable, chats, doubt>>
      /\ op.kind = "contacts" /\ op.at < NumSlots /\ op' = ReadingContacts(op.at + 1)
  BY DEF FreeSlotRead, card
<1>2. PICK k \in Slots : /\ k = op.at /\ k \notin SlotsRead
                         /\ op' \in Ops /\ op'.kind = "contacts"
                         /\ SlotsRead' = SlotsRead \cup {k} /\ SlotsRead \subseteq Slots
                         /\ ChatsRead' = {} /\ ChatsRead = {}
  BY <1>1, NextSlot
<1>3. /\ contacts[k] \notin Contacts /\ contacts = durable /\ doubt = {}
      /\ freeSlots' = IF contacts[k] = Free THEN freeSlots \cup {k} ELSE freeSlots
  BY <1>0, <1>1, <1>2, NotMounted DEF FreeSlotRead
<1>4. freeSlots = {s \in SlotsRead : contacts[s] = Free}
  BY <1>0, <1>3 DEF AllocInv, Failing
<1>5. AllocInv' /\ freeSlots' \subseteq Slots
  <2>1. freeSlots' = {s \in SlotsRead \cup {k} : contacts[s] = Free}
    BY <1>3, <1>4
  <2> QED
    BY <1>1, <1>2, <2>1 DEF AllocInv
<1>6. TypeOK'
  BY <1>0, <1>1, <1>2, <1>5 DEF TypeOK
<1>7. CardInv'
  BY <1>0, <1>1, <1>3 DEF CardInv
<1>8. OccupiedCells' = OccupiedCells /\ ReachInv' /\ CountInv'
  <2>1. OccupiedCells' = OccupiedCells
    BY <1>1 DEF OccupiedCells
  <2> QED
    BY <1>0, <1>1, <2>1 DEF ReachInv, Reachable, CountInv
<1>9. EntryInv'
  BY <1>0, <1>1, <1>2, <1>3, <1>8 DEF EntryInv
<1>10. ChatInv'
  BY <1>0, <1>1, <1>2, <1>8 DEF ChatInv, Failing
<1>11. RamInv'
  BY <1>2, <1>5, <1>8, <1>10 DEF RamInv, CountInv, AllocInv, ChatInv
<1> QED
  BY <1>6, <1>7, <1>8, <1>9, <1>11 DEF TableInv

(* A contact that is read is new: its phone has no entry yet.              *)
LEMMA ContactReadInv == ASSUME TableInv, ContactRead PROVE TableInv'
<1>0. /\ TypeOK /\ CardInv /\ EntryInv /\ ReachInv
      /\ CountInv /\ AllocInv /\ ChatInv /\ op \in Ops
  BY InvParts
<1>1. /\ UNCHANGED <<freeSlots, contacts, durable, chats, doubt>> /\ numElems' = numElems + 1
      /\ op.kind = "contacts" /\ op.at < NumSlots /\ op' = ReadingContacts(op.at + 1)
  BY DEF ContactRead, card
<1>2. PICK k \in Slots : /\ k = op.at /\ k \notin SlotsRead
                         /\ op' \in Ops /\ op'.kind = "contacts"
                         /\ SlotsRead' = SlotsRead \cup {k} /\ SlotsRead \subseteq Slots
                         /\ ChatsRead' = {} /\ ChatsRead = {}
  BY <1>1, NextSlot
<1>3. /\ contacts = durable /\ doubt = {} /\ ~Failing /\ \A q \in Phones : ~Doubtful(q)
  BY <1>0, <1>1, NotMounted
<1>4. PICK p \in Phones : p = contacts[k].phone /\ durable[k] \in Contacts /\ contacts[k] # Free
  BY <1>0, <1>2, <1>3, CardFacts DEF ContactRead
<1>5. PICK i \in Attempts :
         /\ Found(p, i, FALSE) \/ FindsFree(p, i, FALSE)
         /\ table' = [table EXCEPT ![Probe(p, i)] = Occupied(Hash[p], k, FALSE)]
  BY <1>2, <1>4, Zenon DEF ContactRead
<1>6. FindsFree(p, i, FALSE)
  <2> SUFFICES ASSUME Found(p, i, FALSE) PROVE FALSE
    BY <1>5
  <2>1. /\ Probe(p, i) \in OccupiedCells /\ table[Probe(p, i)].id = Hash[p]
        /\ EntryOf(p, i) = table[Probe(p, i)]
        /\ durable[EntryOf(p, i).slot] \in Contacts
        /\ durable[EntryOf(p, i).slot].phone = p /\ EntryOf(p, i).slot \in Slots
    BY <1>0, <1>3, FoundCell
  <2>2. EntryOf(p, i).slot \in SlotsRead
    BY <1>0, <1>3, <2>1, EntryExact
  <2>3. EntryOf(p, i).slot = k
    BY <1>0, <1>3, <1>4, <2>1 DEF CardInv
  <2> QED
    BY <1>2, <2>2, <2>3
<1>7. PICK c \in Cells :
         /\ table' \in [Cells -> Entries]
         /\ c \notin OccupiedCells /\ OccupiedCells' = OccupiedCells \cup {c}
         /\ table'[c].id = Hash[p] /\ table'[c].slot = k /\ table'[c].chat = FALSE
         /\ \A d \in OccupiedCells : table'[d] = table[d]
         /\ ReachInv' /\ CountInv'
  <2>1. /\ table' \in [Cells -> Entries]
        /\ Probe(p, i) \in Cells \ OccupiedCells
        /\ OccupiedCells' = OccupiedCells \cup {Probe(p, i)}
        /\ table'[Probe(p, i)].id = Hash[p] /\ table'[Probe(p, i)].slot = k
        /\ table'[Probe(p, i)].chat = FALSE
        /\ \A d \in OccupiedCells : table'[d] = table[d]
        /\ ReachInv' /\ CountInv'
    BY <1>0, <1>1, <1>5, <1>6, NewEntry
  <2>2. PICK c \in Cells : c = Probe(p, i)
    BY <2>1
  <2> QED
    BY <2>1, <2>2, Zenon
<1>8. TypeOK'
  <2>1. numElems + 1 \in Nat
    BY <1>0 DEF TypeOK
  <2>2. table' \in [Cells -> {Empty, Tombstone} \cup OccupiedEntries]
    BY <1>7 DEF Entries
  <2> QED
    BY <1>0, <1>1, <1>2, <2>1, <2>2 DEF TypeOK
<1>9. CardInv'
  BY <1>0, <1>1, <1>3 DEF CardInv
<1>10. EntryInv'
  <2>1. \A d \in OccupiedCells :
           /\ table'[d] = table[d] /\ table[d].slot \in SlotsRead /\ table[d].slot # k
           /\ durable[table[d].slot] \in Contacts
           /\ table[d].id = Hash[durable[table[d].slot].phone]
    BY <1>0, <1>2, <1>3, <1>7 DEF EntryInv
  <2>2. \A d \in OccupiedCells \cup {c} :
           /\ table'[d].slot \in SlotsRead \cup {k} /\ durable[table'[d].slot] \in Contacts
           /\ table'[d].id = Hash[durable[table'[d].slot].phone]
    BY <1>3, <1>4, <1>7, <2>1
  <2>3. \A d, e \in OccupiedCells \cup {c} : table'[d].slot = table'[e].slot => d = e
    BY <1>0, <1>7, <2>1 DEF EntryInv
  <2>4. \A t \in SlotsRead \cup {k} : durable[t] \in Contacts
           => \E d \in OccupiedCells \cup {c} : table'[d].slot = t
    BY <1>0, <1>3, <1>7, <2>1 DEF EntryInv
  <2> QED
    BY <1>1, <1>2, <1>7, <2>2, <2>3, <2>4 DEF EntryInv
<1>11. AllocInv'
  <2>1. freeSlots = {t \in SlotsRead \cup {k} : contacts[t] = Free}
    BY <1>0, <1>3, <1>4 DEF AllocInv
  <2> QED
    BY <1>1, <1>2, <2>1 DEF AllocInv
<1>12. ChatInv'
  <2>1. \A d \in OccupiedCells : ~table[d].chat
    BY <1>0, <1>2, <1>3 DEF ChatInv
  <2>2. \A d \in OccupiedCells \cup {c} : ~table'[d].chat
    BY <1>7, <2>1
  <2> QED
    BY <1>2, <1>7, <2>2 DEF ChatInv
<1>13. RamInv'
  BY <1>2, <1>7, <1>11, <1>12 DEF RamInv, CountInv, AllocInv, ChatInv
<1> QED
  BY <1>7, <1>8, <1>9, <1>10, <1>13 DEF TableInv

(* The chat of the next slot is read.                                      *)
LEMMA NextChat ==
    ASSUME TableInv, op.kind = "chats", op.at < NumSlots, op' = ReadingChats(op.at + 1)
    PROVE  \E k \in Slots : /\ k = op.at /\ k \notin ChatsRead
                            /\ op' \in Ops /\ op'.kind = "chats"
                            /\ SlotsRead' = Slots /\ SlotsRead = Slots
                            /\ ChatsRead' = ChatsRead \cup {k} /\ ChatsRead \subseteq Slots
<1>0. TypeOK /\ op \in Ops
  BY InvParts
<1>1. op.at \in 0 .. NumSlots /\ ChatsRead = 0 .. op.at - 1 /\ SlotsRead = Slots
      /\ ChatsRead \subseteq Slots
  BY <1>0, OpKinds, ReadFacts
<1>2. op.at \in Slots /\ op.at + 1 \in 0 .. NumSlots
  BY <1>1, Sizes DEF Slots
<1>3. op' \in Ops /\ op'.kind = "chats" /\ op'.at = op.at + 1
  BY <1>2, OpFacts DEF Ops
<1>4. ChatsRead' = 0 .. (op.at + 1) - 1 /\ SlotsRead' = Slots
  BY <1>3, ReadNext
<1>5. \A a \in Nat : (0 .. (a + 1) - 1) = (0 .. a - 1) \cup {a} /\ a \notin 0 .. a - 1
  OBVIOUS
<1>6. op.at \in Nat
  BY <1>1, Sizes
<1> QED
  BY <1>1, <1>2, <1>3, <1>4, <1>5, <1>6

(* Either way, the entries of the slots read so far have their chats.      *)
LEMMA ChatReadStep ==
    ASSUME TableInv, op.kind = "chats", NEW k \in Slots, k \notin ChatsRead,
           op' \in Ops, op'.kind = "chats", SlotsRead' = Slots, SlotsRead = Slots,
           ChatsRead' = ChatsRead \cup {k}, ChatsRead \subseteq Slots,
           UNCHANGED <<freeSlots, numElems, contacts, durable, doubt>>,
           chats' \in {chats, chats \ {k}},
           table' \in [Cells -> Entries], \A c \in Cells : SameEntry(table[c], table'[c]),
           \A c \in OccupiedCells : table[c].slot # k => table'[c].chat = table[c].chat,
           \A c \in OccupiedCells : table[c].slot = k => (table'[c].chat <=> k \in chats')
    PROVE  TableInv'
<1>0. /\ TypeOK /\ CardInv /\ EntryInv /\ ReachInv
      /\ CountInv /\ AllocInv /\ ChatInv /\ op \in Ops
  BY InvParts
<1>1. doubt = {} /\ ~Failing
  BY <1>0, NotMounted
<1>2. TypeOK'
  <2>1. table' \in [Cells -> {Empty, Tombstone} \cup OccupiedEntries] /\ chats' \subseteq Slots
    BY <1>0 DEF TypeOK, Entries
  <2> QED
    BY <1>0, <2>1 DEF TypeOK
<1>3. CardInv'
  BY <1>0, <1>1 DEF CardInv
<1>4. OccupiedCells' = OccupiedCells /\ EntryInv' /\ ReachInv' /\ CountInv'
  BY <1>0, SameEntries
<1>5. AllocInv'
  BY <1>0 DEF AllocInv, Failing
<1>6. ChatInv'
  <2> SUFFICES ASSUME NEW c \in OccupiedCells
               PROVE  table'[c].chat <=> table'[c].slot \in chats' \cap (ChatsRead \cup {k})
    BY <1>4 DEF ChatInv
  <2>1. table'[c].slot = table[c].slot /\ table[c].slot \in Slots
    BY <1>0, CellFacts DEF SameEntry
  <2>2. table[c].chat <=> table[c].slot \in chats \cap ChatsRead
    BY <1>0, <1>1 DEF ChatInv
  <2>3. CASE table[c].slot = k
    BY <2>1, <2>3
  <2>4. CASE table[c].slot # k
    <3>1. table'[c].chat <=> table[c].slot \in chats \cap ChatsRead
      BY <2>2, <2>4, Zenon
    <3>2. table[c].slot \in chats \cap ChatsRead
             <=> table'[c].slot \in chats' \cap (ChatsRead \cup {k})
      BY <2>1, <2>4
    <3> QED
      BY <3>1, <3>2, Zenon
  <2> QED
    BY <2>3, <2>4
<1>7. RamInv'
  BY <1>4, <1>5, <1>6 DEF RamInv, CountInv, AllocInv, ChatInv
<1> QED
  BY <1>2, <1>3, <1>4, <1>7 DEF TableInv

LEMMA ChatReadInv == ASSUME TableInv, ChatRead PROVE TableInv'
<1>0. /\ TypeOK /\ CardInv /\ EntryInv
  BY InvParts
<1>1. /\ UNCHANGED <<freeSlots, numElems, contacts, durable, chats, doubt>> /\ op.at \in chats
      /\ op.kind = "chats" /\ op.at < NumSlots /\ op' = ReadingChats(op.at + 1)
  BY DEF ChatRead, card
<1>2. PICK k \in Slots : /\ k = op.at /\ k \notin ChatsRead
                         /\ op' \in Ops /\ op'.kind = "chats"
                         /\ SlotsRead' = Slots /\ SlotsRead = Slots
                         /\ ChatsRead' = ChatsRead \cup {k} /\ ChatsRead \subseteq Slots
  BY <1>1, NextChat
<1>3. contacts = durable /\ \A p \in Phones : ~Doubtful(p)
  BY <1>0, <1>1, NotMounted
<1>4. PICK p \in Phones, i \in Attempts :
         /\ Found(p, i, FALSE) /\ EntryOf(p, i).slot = k
         /\ table' = [table EXCEPT ![Probe(p, i)].chat = TRUE]
  <2>1. PICK i \in Attempts :
           /\ contacts[k] \in Contacts /\ Found(contacts[k].phone, i, FALSE)
           /\ EntryOf(contacts[k].phone, i).slot = k
           /\ table' = [table EXCEPT ![Probe(contacts[k].phone, i)].chat = TRUE]
    BY <1>2 DEF ChatRead, HasEntry
  <2> QED
    BY <1>0, <2>1, CardFacts
<1>5. PICK c \in OccupiedCells : c = Probe(p, i) /\ table[c].slot = k
  BY <1>0, <1>3, <1>4, FoundCell
<1>6. /\ table' \in [Cells -> Entries] /\ \A d \in Cells : SameEntry(table[d], table'[d])
      /\ \A d \in Cells : d # c => table'[d] = table[d]
      /\ table'[c].chat = TRUE
  <2>1. table' = [table EXCEPT ![c].chat = TRUE]
    BY <1>4, <1>5
  <2> QED
    BY <1>0, <2>1, ChatOfEntry
<1>7. \A d \in OccupiedCells : /\ d \in Cells
                               /\ table[d].slot = k => d = c
  BY <1>0, <1>5, CellFacts DEF EntryInv
<1>8. \A d \in OccupiedCells : table[d].slot # k => table'[d].chat = table[d].chat
  BY <1>5, <1>6, <1>7
<1>9. \A d \in OccupiedCells : table[d].slot = k => (table'[d].chat <=> k \in chats')
  <2>1. k \in chats'
    BY <1>1, <1>2
  <2>2. table'[c].chat
    BY <1>6
  <2> QED
    BY <1>7, <2>1, <2>2
<1> QED
  BY <1>1, <1>2, <1>6, <1>8, <1>9, ChatReadStep

LEMMA NoChatReadInv == ASSUME TableInv, NoChatRead PROVE TableInv'
<1>0. /\ TypeOK /\ CardInv /\ ChatInv
  BY InvParts
<1>1. /\ UNCHANGED <<table, freeSlots, numElems, contacts, durable, doubt>>
      /\ op.kind = "chats" /\ op.at < NumSlots /\ op' = ReadingChats(op.at + 1)
      /\ chats' = chats \ {op.at}
  BY DEF NoChatRead, ram
<1>2. PICK k \in Slots : /\ k = op.at /\ k \notin ChatsRead
                         /\ op' \in Ops /\ op'.kind = "chats"
                         /\ SlotsRead' = Slots /\ SlotsRead = Slots
                         /\ ChatsRead' = ChatsRead \cup {k} /\ ChatsRead \subseteq Slots
  BY <1>1, NextChat
<1>3. chats' = chats \ {k}
  BY <1>1, <1>2
<1>4. table' \in [Cells -> Entries] /\ \A c \in Cells : SameEntry(table[c], table'[c])
  BY <1>0, <1>1, UnchangedTable
<1>5. ~Failing
  BY <1>0, <1>1, NotMounted
<1>6. \A c \in OccupiedCells : table[c].slot = k => (table'[c].chat <=> k \in chats')
  BY <1>0, <1>1, <1>2, <1>3, <1>5 DEF ChatInv
<1>7. \A c \in OccupiedCells : table[c].slot # k => table'[c].chat = table[c].chat
  BY <1>1
<1> QED
  BY <1>1, <1>2, <1>3, <1>4, <1>6, <1>7, ChatReadStep

-----------------------------------------------------------------------------
(* Theorems.                                                               *)

LEMMA NextInv == ASSUME TableInv, [Next]_vars PROVE TableInv'
<1>1. ASSUME NEW p \in Phones, Calls(p) PROVE TableInv'
  BY <1>1, MessageToContactInv, MessageToNewContactInv, MessageToNewContactFailsInv,
     RemoveChatInv, RemoveChatFailsInv, BeginRemoveInv, BeginRemoveFailsInv,
     InsertContactInv, InsertContactFailsInv, UpdateContactInv, UpdateContactFailsInv,
     UpdatePhoneInv, UpdatePhoneFailsInv
  DEF Calls
<1>2. CASE WriteMessage \/ NoMessageSector \/ WriteMessageFails
  BY <1>2, WriteMessageInv, NoMessageSectorInv, WriteMessageFailsInv
<1>3. CASE RemoveContact \/ RemoveContactFails
  BY <1>3, RemoveContactInv, RemoveContactFailsInv
<1>4. CASE PowerCut \/ (\E s \in Slots : Decay(s)) \/ PowerOn
  BY <1>4, PowerCutInv, DecayInv, BootStepsInv
<1>5. CASE FreeSlotRead \/ ContactRead \/ ContactsRead \/ ChatRead \/ NoChatRead \/ Mounted
  BY <1>5, FreeSlotReadInv, ContactReadInv, ChatReadInv, NoChatReadInv, BootStepsInv
<1>6. CASE UNCHANGED vars
  <2>1. UNCHANGED <<table, freeSlots, numElems, contacts, durable, chats, op, doubt>>
    BY <1>6 DEF vars, ram, card
  <2>2. TypeOK' /\ CardInv'
    BY <2>1, InvParts DEF TypeOK, CardInv, Running
  <2>3. OccupiedCells' = OccupiedCells /\ SlotsRead' = SlotsRead /\ ChatsRead' = ChatsRead
    BY <2>1 DEF OccupiedCells, SlotsRead, ChatsRead
  <2>4. EntryInv' /\ ReachInv'
    BY <2>1, <2>3, InvParts DEF EntryInv, ReachInv, Reachable
  <2>5. RamInv'
    BY <2>1, <2>3 DEF TableInv, RamInv, Failing
  <2> QED
    BY <2>2, <2>4, <2>5 DEF TableInv
<1> QED
  BY <1>1, <1>2, <1>3, <1>4, <1>5, <1>6 DEF Next

(* The inductive invariant: across every call of hash_table.c that         *)
(* succeeds or fails, every power cut and every reconstruction.            *)
THEOREM TableInvariant == Spec => []TableInv
<1>1. Init => TableInv
  BY InitInv
<1>2. TableInv /\ [Next]_vars => TableInv'
  BY NextInv
<1> QED
  BY <1>1, <1>2, PTL DEF Spec

(* Entries, slots and counts stay in the ranges of their C types.          *)
THEOREM TypeCorrect == Spec => []TypeOK
<1>1. TableInv => TypeOK
  BY DEF TableInv
<1> QED
  BY <1>1, TableInvariant, PTL

(* Slots are fewer than cells, so every walk comes to a cell that is free. *)
LEMMA WalkEnds ==
    ASSUME TypeOK, EntryInv, NEW p \in Phones
    PROVE  \E i \in Attempts : table[Probe(p, i)].state # "occupied"
<1> SUFFICES ASSUME \A i \in Attempts : table[Probe(p, i)].state = "occupied" PROVE FALSE
  OBVIOUS
<1>1. \A c \in Cells : c \in OccupiedCells
  BY ProbesReachAllCells DEF OccupiedCells
<1>2. [c \in Cells |-> table[c].slot] \in [Cells -> Slots]
  BY <1>1, CellFacts
<1>3. Cardinality(Slots) < Cardinality(Cells) /\ IsFiniteSet(Slots) /\ IsFiniteSet(Cells)
  <2>1. /\ 0 \in Int /\ NumSlots - 1 \in Int /\ TableSize - 1 \in Int
        /\ ~(0 > NumSlots - 1) /\ ~(0 > TableSize - 1)
    BY Sizes
  <2>2. /\ IsFiniteSet(Slots) /\ Cardinality(Slots) = NumSlots - 1 - 0 + 1
        /\ IsFiniteSet(Cells) /\ Cardinality(Cells) = TableSize - 1 - 0 + 1
    BY <2>1, FS_Interval DEF Slots, Cells
  <2> QED
    BY <2>2, Sizes
<1>4. PICK c \in Cells, d \in Cells : c # d /\ table[c].slot = table[d].slot
  <2>1. PICK f : f = [c \in Cells |-> table[c].slot]
    OBVIOUS
  <2>2. \E c, d \in Cells : c # d /\ f[c] = f[d]
    BY <1>2, <1>3, <2>1, FS_PigeonHole
  <2> QED
    BY <2>1, <2>2
<1> QED
  BY <1>1, <1>4 DEF EntryInv

(* What a lookup finds (hash_find_entry).                                  *)
LEMMA LookupIs == TableInv => LookupExact
<1>1. ASSUME TableInv PROVE LookupExact
  <2>0. /\ TypeOK /\ CardInv /\ EntryInv /\ ReachInv /\ op \in Ops
    BY <1>1, InvParts
  <2> SUFFICES ASSUME Running, NEW p \in Phones, ~Doubtful(p), NEW u \in BOOLEAN
               PROVE  /\ IsFound(p, u) <=> SlotsOf(p) # {}
                      /\ \A i \in Attempts : Found(p, i, u) =>
                            /\ SlotsOf(p) = {EntryOf(p, i).slot}
                            /\ \A c \in OccupiedCells :
                                  table[c].slot = EntryOf(p, i).slot => c = Probe(p, i)
                      /\ \E i \in Attempts : table[Probe(p, i)].state # "occupied"
    BY GarbageFacts DEF LookupExact
  <2>1. SlotsRead = Slots
    BY <2>0, ReadFacts
  <2>2. ASSUME NEW i \in Attempts, Found(p, i, u)
        PROVE  /\ SlotsOf(p) = {EntryOf(p, i).slot}
               /\ \A c \in OccupiedCells :
                     table[c].slot = EntryOf(p, i).slot => c = Probe(p, i)
    <3>1. /\ Probe(p, i) \in OccupiedCells /\ EntryOf(p, i) = table[Probe(p, i)]
          /\ EntryOf(p, i).slot \in Slots /\ durable[EntryOf(p, i).slot] \in Contacts
          /\ durable[EntryOf(p, i).slot].phone = p
      BY <2>0, <2>2, FoundCell
    <3>2. SlotsOf(p) = {EntryOf(p, i).slot}
      BY <2>0, <3>1 DEF SlotsOf, CardInv
    <3> QED
      BY <2>0, <3>1, <3>2 DEF EntryInv
  <2>3. ASSUME NEW s \in SlotsOf(p) PROVE IsFound(p, u)
    BY <2>0, <2>1, FindsContact DEF SlotsOf, IsFound
  <2> QED
    BY <2>0, <2>2, <2>3, WalkEnds DEF IsFound
<1> QED
  BY <1>1

(* A lookup ends at the one entry of the phone's contact if the phone has  *)
(* one, and at a cell to insert at if it has none (hash_find_entry), for   *)
(* every hash function and every history of calls, failures and boots.     *)
THEOREM LookupsAreExact == Spec => []LookupExact
  BY LookupIs, TableInvariant, PTL

(* Unless a write has failed, the allocator has the free slots, num_elems  *)
(* is the number of contacts, and an entry has a chat if its contact has.  *)
THEOREM RamAgrees == Spec => []RamAgreesWithCard
<1>1. ASSUME TableInv PROVE RamAgreesWithCard
  <2>0. /\ TypeOK /\ CardInv /\ EntryInv /\ CountInv /\ AllocInv /\ ChatInv /\ op \in Ops
    BY <1>1, InvParts
  <2> SUFFICES ASSUME Running, ~Failing
               PROVE  /\ freeSlots = {s \in Slots : contacts[s] = Free}
                      /\ numElems = Cardinality({s \in Slots : contacts[s] \in Contacts})
                      /\ \A c \in OccupiedCells : table[c].chat <=> table[c].slot \in chats
    BY DEF RamAgreesWithCard
  <2>1. /\ SlotsRead = Slots /\ ChatsRead = Slots /\ doubt = {} /\ contacts = durable
    BY <2>0, ReadFacts, NotFailing
  <2>2. PICK used : used = {s \in Slots : contacts[s] \in Contacts}
    OBVIOUS
  <2>3. PICK f : f = [c \in OccupiedCells |-> table[c].slot]
    OBVIOUS
  <2>4. f \in [OccupiedCells -> used] /\ \A c \in OccupiedCells : f[c] = table[c].slot
    BY <2>0, <2>1, <2>2, <2>3, CellFacts DEF EntryInv
  <2>5. f \in Injection(OccupiedCells, used)
    <3>1. \A c, d \in OccupiedCells : f[c] = f[d] => c = d
      BY <2>0, <2>4 DEF EntryInv
    <3> QED
      BY <2>4, <3>1 DEF Injection, IsInjective
  <2>6. f \in Surjection(OccupiedCells, used)
    <3>1. \A s \in used : \E c \in OccupiedCells : f[c] = s
      BY <2>0, <2>1, <2>2, <2>4 DEF EntryInv
    <3> QED
      BY <2>4, <3>1 DEF Surjection
  <2>7. Cardinality(used) = Cardinality(OccupiedCells)
    BY <2>5, <2>6, FiniteCells, FS_Surjection
  <2>8. freeSlots = {s \in Slots : contacts[s] = Free}
    BY <2>0, <2>1 DEF AllocInv
  <2>9. \A c \in OccupiedCells : table[c].chat <=> table[c].slot \in chats
    BY <2>0, <2>1, CellFacts DEF ChatInv
  <2> QED
    BY <2>0, <2>2, <2>7, <2>8, <2>9 DEF CountInv
<1> QED
  BY <1>1, TableInvariant, PTL

-----------------------------------------------------------------------------
(***************************************************************************)
(* The hash table implements PhoneBook: every step of HashTable is shown   *)
(* to be a step of the phone book or a stutter, under the refinement       *)
(* mapping book <- Book, power <- Power, serving <- Serving.               *)
(***************************************************************************)

(* The book of any card: d are its contact slots, ch those with a chat.    *)

BookFrom(d, ch) ==
    [p \in Phones |->
        LET own == {s \in Slots : d[s] \in Contacts /\ d[s].phone = p}
        IN  IF own = {} THEN NoContact
            ELSE LET s == CHOOSE x \in own : TRUE
                 IN  [name |-> d[s].name, chat |-> s \in ch]]

Chatting(n) == [name |-> n, chat |-> TRUE]
Silent(n)   == [name |-> n, chat |-> FALSE]
Known       == {Chatting(n) : n \in Names} \cup {Silent(n) : n \in Names}

(* A phone has at most one contact.                                        *)
OneEach(d) ==
    \A s, t \in Slots : d[s] \in Contacts /\ d[t] \in Contacts /\ d[s].phone = d[t].phone => s = t

LEMMA BookIs == /\ Book = BookFrom(durable, chats)
                /\ Book' = BookFrom(durable', chats')
  BY DEF Book, BookFrom, SlotsOf

LEMMA KnownFacts ==
    ASSUME NEW n \in Names
    PROVE  /\ Chatting(n) \in Known /\ Silent(n) \in Known
           /\ Chatting(n) # NoContact /\ Silent(n) # NoContact
<1>1. Chatting(n) \in Known /\ Silent(n) \in Known
  BY DEF Known
<1>2. Chatting(n) # NoContact /\ Silent(n) # NoContact
  <2>1. /\ Chatting(n) \in [name : Names, chat : BOOLEAN]
        /\ Silent(n) \in [name : Names, chat : BOOLEAN]
    BY DEF Chatting, Silent
  <2> QED
    BY <2>1, ContactAssumption, Zenon
<1> QED
  BY <1>1, <1>2

LEMMA KnownChats ==
    ASSUME NEW n
    PROVE  Chatting(n).chat = TRUE /\ Silent(n).chat = FALSE
<1>1. Chatting(n).chat = TRUE
  BY Zenon DEF Chatting
<1>2. Silent(n).chat = FALSE
  BY Zenon DEF Silent
<1> QED
  BY <1>1, <1>2, Zenon

LEMMA PhoneAndName == \A x \in Contacts : x.phone \in Phones /\ x.name \in Names
  BY DEF Contacts

LEMMA BookAt ==
    ASSUME NEW d, NEW ch, OneEach(d)
    PROVE  /\ \A s \in Slots : d[s] \in Contacts =>
                 /\ s \in ch => BookFrom(d, ch)[d[s].phone] = Chatting(d[s].name)
                 /\ s \notin ch => BookFrom(d, ch)[d[s].phone] = Silent(d[s].name)
           /\ \A p \in Phones :
                 (\A s \in Slots : d[s] \in Contacts => d[s].phone # p)
                    => BookFrom(d, ch)[p] = NoContact
<1>1. ASSUME NEW s \in Slots, d[s] \in Contacts
      PROVE  BookFrom(d, ch)[d[s].phone] = [name |-> d[s].name, chat |-> s \in ch]
  <2>1. PICK p \in Phones : p = d[s].phone
    BY <1>1, PhoneAndName
  <2>2. {t \in Slots : d[t] \in Contacts /\ d[t].phone = p} = {s}
    BY <1>1, <2>1 DEF OneEach
  <2>3. (CHOOSE x \in {s} : TRUE) = s
    OBVIOUS
  <2>4. {s} # {}
    OBVIOUS
  <2>5. BookFrom(d, ch)[p] =
           LET own == {t \in Slots : d[t] \in Contacts /\ d[t].phone = p}
           IN  IF own = {} THEN NoContact
               ELSE LET t == CHOOSE x \in own : TRUE
                    IN  [name |-> d[t].name, chat |-> t \in ch]
    BY Zenon DEF BookFrom
  <2> QED
    BY <2>1, <2>2, <2>3, <2>4, <2>5, Zenon
<1>2. ASSUME NEW s \in Slots, d[s] \in Contacts, s \in ch
      PROVE  BookFrom(d, ch)[d[s].phone] = Chatting(d[s].name)
  <2>1. (s \in ch) = TRUE
    BY <1>2, Zenon
  <2> QED
    BY <1>1, <1>2, <2>1, Zenon DEF Chatting
<1>3. ASSUME NEW s \in Slots, d[s] \in Contacts, s \notin ch
      PROVE  BookFrom(d, ch)[d[s].phone] = Silent(d[s].name)
  <2>1. (s \in ch) = FALSE
    BY <1>3, SMT
  <2> QED
    BY <1>1, <1>3, <2>1, Zenon DEF Silent
<1>4. ASSUME NEW p \in Phones, \A s \in Slots : d[s] \in Contacts => d[s].phone # p
      PROVE  BookFrom(d, ch)[p] = NoContact
  <2>1. {t \in Slots : d[t] \in Contacts /\ d[t].phone = p} = {}
    BY <1>4
  <2> QED
    BY <2>1, Zenon DEF BookFrom
<1> QED
  BY <1>2, <1>3, <1>4

LEMMA BookType ==
    ASSUME NEW d, NEW ch, OneEach(d)
    PROVE  BookFrom(d, ch) \in [Phones -> Known \cup {NoContact}]
<1>1. ASSUME NEW p \in Phones PROVE BookFrom(d, ch)[p] \in Known \cup {NoContact}
  <2>1. CASE \A s \in Slots : d[s] \in Contacts => d[s].phone # p
    BY <2>1, BookAt
  <2>2. ASSUME NEW s \in Slots, d[s] \in Contacts, d[s].phone = p
        PROVE  BookFrom(d, ch)[p] \in Known
    BY <2>2, BookAt, PhoneAndName, KnownFacts
  <2> QED
    BY <2>1, <2>2
<1>2. BookFrom(d, ch) = [p \in Phones |-> BookFrom(d, ch)[p]]
  BY Zenon DEF BookFrom
<1>3. PICK f : f = BookFrom(d, ch)
  OBVIOUS
<1>4. f = [p \in Phones |-> f[p]] /\ \A p \in Phones : f[p] \in Known \cup {NoContact}
  BY <1>1, <1>2, <1>3
<1> QED
  BY <1>3, <1>4

(* A change of one slot changes the book for its phones only.              *)
LEMMA OutsideSlot ==
    ASSUME NEW d, NEW e, NEW ch, NEW ch2, OneEach(d), OneEach(e), NEW s \in Slots,
           \A t \in Slots : t # s => e[t] = d[t] /\ (t \in ch2 <=> t \in ch),
           NEW x \in Phones,
           d[s] \in Contacts => d[s].phone # x, e[s] \in Contacts => e[s].phone # x
    PROVE  BookFrom(e, ch2)[x] = BookFrom(d, ch)[x]
<1>1. CASE \A t \in Slots : d[t] \in Contacts => d[t].phone # x
  <2>1. \A t \in Slots : e[t] \in Contacts => e[t].phone # x
    BY <1>1
  <2> QED
    BY <1>1, <2>1, BookAt
<1>2. ASSUME NEW t \in Slots, d[t] \in Contacts, d[t].phone = x
      PROVE  BookFrom(e, ch2)[x] = BookFrom(d, ch)[x]
  <2>1. t # s /\ e[t] = d[t] /\ (t \in ch2 <=> t \in ch)
    BY <1>2
  <2> QED
    BY <1>2, <2>1, BookAt
<1> QED
  BY <1>1, <1>2

(* What one slot's change makes of the book.                               *)
OneSlot(d, e, s) ==
    /\ OneEach(d) /\ OneEach(e)
    /\ \A t \in Slots : t # s => e[t] = d[t]

(* A contact without a chat is added.                                      *)
LEMMA SlotAdded ==
    ASSUME NEW s \in Slots, NEW d, NEW e, NEW ch, OneSlot(d, e, s),
           d[s] \notin Contacts, e[s] \in Contacts, s \notin ch,
           NEW B, NEW C, B = BookFrom(d, ch), C = BookFrom(e, ch)
    PROVE  /\ B[e[s].phone] = NoContact
           /\ C = [B EXCEPT ![e[s].phone] = Silent(e[s].name)]
<1>1. PICK p \in Phones, n \in Names : p = e[s].phone /\ n = e[s].name
  BY PhoneAndName
<1>2. B \in [Phones -> Known \cup {NoContact}] /\ C \in [Phones -> Known \cup {NoContact}]
  BY BookType DEF OneSlot
<1>3. B[p] = NoContact
  <2>1. \A t \in Slots : d[t] \in Contacts => d[t].phone # p
    BY <1>1 DEF OneSlot, OneEach
  <2> QED
    BY <2>1, BookAt DEF OneSlot
<1>4. C[p] = Silent(n)
  BY <1>1, BookAt DEF OneSlot
<1>5. \A x \in Phones : x # p => C[x] = B[x]
  BY <1>1, OutsideSlot DEF OneSlot
<1>6. C = [B EXCEPT ![p] = Silent(n)]
  BY <1>2, <1>4, <1>5
<1> QED
  BY <1>1, <1>3, <1>6

(* A contact gets another name, and perhaps another phone.                 *)
LEMMA SlotUpdated ==
    ASSUME NEW s \in Slots, NEW d, NEW e, NEW ch, OneSlot(d, e, s),
           d[s] \in Contacts, e[s] \in Contacts,
           NEW B, NEW C, B = BookFrom(d, ch), C = BookFrom(e, ch)
    PROVE  /\ B[d[s].phone] # NoContact
           /\ e[s].phone = d[s].phone \/ B[e[s].phone] = NoContact
           /\ C = [[B EXCEPT ![d[s].phone] = NoContact]
                      EXCEPT ![e[s].phone] = [name |-> e[s].name, chat |-> B[d[s].phone].chat]]
<1>1. PICK p \in Phones, q \in Phones, m \in Names, n \in Names :
         p = d[s].phone /\ q = e[s].phone /\ m = d[s].name /\ n = e[s].name
  BY PhoneAndName
<1>2. B \in [Phones -> Known \cup {NoContact}] /\ C \in [Phones -> Known \cup {NoContact}]
  BY BookType DEF OneSlot
<1>3. B[p] # NoContact
  BY <1>1, BookAt, KnownFacts DEF OneSlot
<1>4. q # p => B[q] = NoContact
  <2>1. q # p => \A t \in Slots : d[t] \in Contacts => d[t].phone # q
    BY <1>1 DEF OneSlot, OneEach
  <2> QED
    BY <2>1, BookAt DEF OneSlot
<1>5. q # p => C[p] = NoContact
  <2>1. q # p => \A t \in Slots : e[t] \in Contacts => e[t].phone # p
    BY <1>1 DEF OneSlot, OneEach
  <2> QED
    BY <2>1, BookAt DEF OneSlot
<1>6. C[q] = [name |-> n, chat |-> B[p].chat]
  <2>1. CASE s \in ch
    <3>1. C[q] = Chatting(n) /\ B[p] = Chatting(m)
      BY <1>1, <2>1, BookAt DEF OneSlot
    <3>2. B[p].chat = TRUE
      BY <3>1, KnownChats, Zenon
    <3> QED
      BY <3>1, <3>2, Zenon DEF Chatting
  <2>2. CASE s \notin ch
    <3>1. C[q] = Silent(n) /\ B[p] = Silent(m)
      BY <1>1, <2>2, BookAt DEF OneSlot
    <3>2. B[p].chat = FALSE
      BY <3>1, KnownChats, Zenon
    <3> QED
      BY <3>1, <3>2, Zenon DEF Silent
  <2> QED
    BY <2>1, <2>2
<1>7. \A x \in Phones : x # p /\ x # q => C[x] = B[x]
  BY <1>1, OutsideSlot DEF OneSlot
<1>8. PICK v : v = [name |-> n, chat |-> B[p].chat]
  OBVIOUS
<1>9. C = [[B EXCEPT ![p] = NoContact] EXCEPT ![q] = v]
  BY <1>2, <1>5, <1>6, <1>7, <1>8
<1> QED
  <2>1. C = [[B EXCEPT ![p] = NoContact] EXCEPT ![q] = [name |-> n, chat |-> B[p].chat]]
    BY <1>8, <1>9, Zenon
  <2> QED
    BY <1>1, <1>3, <1>4, <2>1, Zenon

(* A contact without a chat is removed.                                    *)
LEMMA SlotRemoved ==
    ASSUME NEW s \in Slots, NEW d, NEW e, NEW ch, OneSlot(d, e, s),
           d[s] \in Contacts, e[s] \notin Contacts,
           NEW B, NEW C, B = BookFrom(d, ch), C = BookFrom(e, ch)
    PROVE  C = [B EXCEPT ![d[s].phone] = NoContact]
<1>1. PICK p \in Phones : p = d[s].phone
  BY PhoneAndName
<1>2. B \in [Phones -> Known \cup {NoContact}] /\ C \in [Phones -> Known \cup {NoContact}]
  BY BookType DEF OneSlot
<1>3. C[p] = NoContact
  <2>1. \A t \in Slots : e[t] \in Contacts => e[t].phone # p
    BY <1>1 DEF OneSlot, OneEach
  <2> QED
    BY <2>1, BookAt DEF OneSlot
<1>4. \A x \in Phones : x # p => C[x] = B[x]
  BY <1>1, OutsideSlot DEF OneSlot
<1> QED
  BY <1>1, <1>2, <1>3, <1>4

(* A chat begins or ends.                                                  *)
LEMMA ChatMarked ==
    ASSUME NEW s \in Slots, NEW d, NEW ch, NEW ch2, OneEach(d), d[s] \in Contacts,
           NEW b \in BOOLEAN, s \in ch2 <=> b,
           \A t \in Slots : t # s => (t \in ch2 <=> t \in ch),
           NEW B, NEW C, B = BookFrom(d, ch), C = BookFrom(d, ch2)
    PROVE  /\ B[d[s].phone] # NoContact
           /\ B[d[s].phone].chat <=> s \in ch
           /\ C = [B EXCEPT ![d[s].phone].chat = b]
<1>1. PICK p \in Phones, n \in Names : p = d[s].phone /\ n = d[s].name
  BY PhoneAndName
<1>2. B \in [Phones -> Known \cup {NoContact}] /\ C \in [Phones -> Known \cup {NoContact}]
  BY BookType
<1>3. B[p] # NoContact
  BY <1>1, BookAt, KnownFacts
<1>4. \/ s \in ch /\ B[p] = Chatting(n)
      \/ s \notin ch /\ B[p] = Silent(n)
  BY <1>1, BookAt
<1>5. B[p].chat <=> s \in ch
  <2>1. CASE s \in ch
    <3>1. B[p].chat = TRUE
      BY <1>4, <2>1, KnownChats, Zenon
    <3> QED
      BY <2>1, <3>1, Zenon
  <2>2. CASE s \notin ch
    <3>1. B[p].chat = FALSE
      BY <1>4, <2>2, KnownChats, Zenon
    <3> QED
      BY <2>2, <3>1, Zenon
  <2> QED
    BY <2>1, <2>2
<1>6. C[p] = [B[p] EXCEPT !.chat = b]
  <2>1. B[p] = [name |-> n, chat |-> TRUE] \/ B[p] = [name |-> n, chat |-> FALSE]
    BY <1>4, Zenon DEF Chatting, Silent
  <2>2. [B[p] EXCEPT !.chat = b] = [name |-> n, chat |-> b]
    BY <2>1
  <2>3. CASE b = TRUE
    <3>1. C[p] = Chatting(n)
      BY <1>1, <2>3, BookAt
    <3> QED
      BY <2>2, <2>3, <3>1, Zenon DEF Chatting
  <2>4. CASE b = FALSE
    <3>1. C[p] = Silent(n)
      BY <1>1, <2>4, BookAt
    <3> QED
      BY <2>2, <2>4, <3>1, Zenon DEF Silent
  <2> QED
    BY <2>3, <2>4
<1>7. \A x \in Phones : x # p => C[x] = B[x]
  BY <1>1, OutsideSlot
<1>8. PICK v : v = [B[p] EXCEPT !.chat = b]
  OBVIOUS
<1>9. C = [B EXCEPT ![p] = v]
  BY <1>2, <1>6, <1>7, <1>8
<1>10. [B EXCEPT ![p].chat = b] = [B EXCEPT ![p] = [B[p] EXCEPT !.chat = b]]
  OBVIOUS
<1>11. C = [B EXCEPT ![p].chat = b]
  BY <1>8, <1>9, <1>10, Zenon
<1> QED
  BY <1>1, <1>3, <1>5, <1>11, Zenon

-----------------------------------------------------------------------------
(* The mapped state.                                                       *)

LEMMA PowerIs ==
    /\ Power = IF doubt # {} THEN "failed"
               ELSE IF op.kind \in {"idle", "message", "remove"} THEN "on" ELSE "off"
    /\ Power' = IF doubt' # {} THEN "failed"
                ELSE IF op'.kind \in {"idle", "message", "remove"} THEN "on" ELSE "off"
  BY DEF Power, Failing, Running

LEMMA ServingIs ==
    /\ Serving = IF op.kind \in {"message", "remove"} /\ doubt = {}
                 THEN [call |-> op.kind, phone |-> op.phone] ELSE NoContact
    /\ Serving' = IF op'.kind \in {"message", "remove"} /\ doubt' = {}
                  THEN [call |-> op'.kind, phone |-> op'.phone] ELSE NoContact
  BY DEF Serving, Failing

LEMMA OneEachHolds ==
    /\ TableInv => OneEach(durable)
    /\ TableInv' => OneEach(durable')
  BY DEF TableInv, CardInv, OneEach

LEMMA SameBook == ASSUME durable' = durable, chats' = chats PROVE Book' = Book
  BY BookIs

LEMMA Stutters ==
    ASSUME Book' = Book, Power' = Power, Serving' = Serving PROVE UNCHANGED PB!vars
  BY DEF PB!vars

LEMMA ReadyWhenIdle ==
    ASSUME op = Idle, doubt = {}
    PROVE  /\ PB!Ready /\ Power = "on" /\ Serving = NoContact
           /\ (op' = op /\ doubt' = doubt) => Power' = Power /\ Serving' = Serving
  BY OpFacts, PowerIs, ServingIs DEF PB!Ready

(* A new contact is written.                                               *)
LEMMA BookInserted ==
    ASSUME TableInv, TableInv', ~Failing, op = Idle, NEW p \in Phones, NEW n \in Names,
           NEW s \in freeSlots, durable' = Holding(s, p, n), chats' = chats
    PROVE  Book[p] = NoContact /\ Book' = PB!With(p, n)
<1>0. /\ TypeOK /\ CardInv /\ AllocInv /\ op \in Ops /\ op.kind = "idle"
  BY InvParts, OpFacts
<1>1. contacts = durable /\ SlotsRead = Slots
  BY <1>0, NotFailing, ReadFacts
<1>2. s \in Slots /\ durable[s] = Free /\ durable[s] \notin Contacts /\ s \notin chats
  BY <1>0, <1>1, CardFacts DEF AllocInv, CardInv
<1>3. PICK v \in Contacts : v = [phone |-> p, name |-> n]
  BY DEF Contacts
<1>4. v.phone = p /\ v.name = n
  BY <1>3
<1>5. durable' = [durable EXCEPT ![s] = v]
  BY <1>1, <1>3 DEF Holding
<1>6. durable'[s] = v /\ OneSlot(durable, durable', s)
  BY <1>0, <1>2, <1>5, CardFacts, OneEachHolds DEF OneSlot
<1>7. /\ Book[durable'[s].phone] = NoContact
      /\ Book' = [Book EXCEPT ![durable'[s].phone] = Silent(durable'[s].name)]
  BY <1>2, <1>6, BookIs, SlotAdded
<1> QED
  BY <1>4, <1>6, <1>7, Zenon DEF PB!With, Silent

(* A contact is written again.                                             *)
LEMMA BookUpdated ==
    ASSUME TableInv, TableInv', ~Failing, op = Idle, NEW p \in Phones, NEW q \in Phones,
           NEW n \in Names, NEW i \in Attempts, NEW u \in BOOLEAN, Found(p, i, u),
           durable' = Holding(EntryOf(p, i).slot, q, n), chats' = chats
    PROVE  /\ Book[p] # NoContact
           /\ q = p \/ Book[q] = NoContact
           /\ Book' = PB!Moved(p, q, n)
<1>0. /\ TypeOK /\ CardInv /\ EntryInv
  BY InvParts
<1>1. contacts = durable /\ ~Doubtful(p)
  BY <1>0, NotFailing
<1>2. PICK s \in Slots : /\ s = EntryOf(p, i).slot
                         /\ durable[s] \in Contacts /\ durable[s].phone = p
  BY <1>0, <1>1, FoundCell
<1>3. PICK v \in Contacts : v = [phone |-> q, name |-> n]
  BY DEF Contacts
<1>4. v.phone = q /\ v.name = n
  BY <1>3
<1>5. durable' = [durable EXCEPT ![s] = v]
  BY <1>1, <1>2, <1>3 DEF Holding
<1>6. durable'[s] = v /\ OneSlot(durable, durable', s)
  BY <1>0, <1>2, <1>5, CardFacts, OneEachHolds DEF OneSlot
<1>7. /\ Book[p] # NoContact
      /\ v.phone = p \/ Book[v.phone] = NoContact
      /\ Book' = [[Book EXCEPT ![p] = NoContact]
                     EXCEPT ![v.phone] = [name |-> v.name, chat |-> Book[p].chat]]
  BY <1>2, <1>6, BookIs, SlotUpdated
<1> QED
  BY <1>4, <1>7, Zenon DEF PB!Moved

-----------------------------------------------------------------------------
(* Calls that succeed.                                                     *)

LEMMA InsertContactRefines ==
    ASSUME TableInv, TableInv', NEW p \in Phones, NEW n \in Names, InsertContact(p, n)
    PROVE  PB!Add(p, n)
<1>1. PICK s \in freeSlots : Written(Holding(s, p, n))
  BY DEF InsertContact
<1>2. /\ op = Idle /\ op' = op /\ chats' = chats /\ ~Failing /\ doubt' = doubt
      /\ durable' = Holding(s, p, n) /\ doubt = {}
  BY <1>1 DEF InsertContact, Written, Failing
<1>3. Book[p] = NoContact /\ Book' = PB!With(p, n)
  BY <1>2, BookInserted
<1> QED
  BY <1>2, <1>3, ReadyWhenIdle DEF PB!Add, PB!Becomes

LEMMA UpdateRefines ==
    ASSUME TableInv, TableInv', NEW p \in Phones, NEW q \in Phones, NEW n \in Names,
           op = Idle, UNCHANGED <<chats, op>>, NEW i \in Attempts, NEW u \in BOOLEAN,
           Found(p, i, u), Written(Holding(EntryOf(p, i).slot, q, n))
    PROVE  PB!Update(p, q, n)
<1>1. ~Failing /\ doubt' = doubt /\ doubt = {} /\ durable' = Holding(EntryOf(p, i).slot, q, n)
  BY DEF Written, Failing
<1>2. /\ Book[p] # NoContact
      /\ q = p \/ Book[q] = NoContact
      /\ Book' = PB!Moved(p, q, n)
  BY <1>1, BookUpdated
<1> QED
  BY <1>1, <1>2, ReadyWhenIdle DEF PB!Update, PB!Becomes

LEMMA UpdateContactRefines ==
    ASSUME TableInv, TableInv', NEW p \in Phones, NEW n \in Names, UpdateContact(p, n)
    PROVE  PB!Update(p, p, n)
  BY UpdateRefines, GarbageFacts DEF UpdateContact

LEMMA UpdatePhoneRefines ==
    ASSUME TableInv, TableInv', NEW p \in Phones, NEW q \in Phones, NEW n \in Names,
           UpdatePhone(p, q, n)
    PROVE  PB!Update(p, q, n)
  BY UpdateRefines, GarbageFacts DEF UpdatePhone

(* What a lookup that succeeded shows.                                     *)
LEMMA FoundInBook ==
    ASSUME TableInv, ~Failing, op = Idle, NEW p \in Phones, NEW i \in Attempts,
           NEW u \in BOOLEAN, Found(p, i, u)
    PROVE  \E s \in Slots, c \in OccupiedCells :
              /\ s = EntryOf(p, i).slot /\ c = Probe(p, i) /\ table[c] = EntryOf(p, i)
              /\ durable[s] \in Contacts /\ durable[s].phone = p
              /\ Book[p] # NoContact /\ (EntryOf(p, i).chat <=> s \in chats)
<1>0. /\ TypeOK /\ CardInv /\ EntryInv /\ ChatInv /\ op \in Ops /\ op.kind = "idle"
  BY InvParts, OpFacts
<1>1. ~Doubtful(p)
  BY <1>0, NotFailing
<1>2. PICK s \in Slots, c \in OccupiedCells :
         /\ s = EntryOf(p, i).slot /\ c = Probe(p, i) /\ table[c] = EntryOf(p, i)
         /\ durable[s] \in Contacts /\ durable[s].phone = p
  BY <1>0, <1>1, FoundCell
<1>3. Book[p] # NoContact
  BY <1>2, BookIs, BookAt, OneEachHolds, KnownFacts, PhoneAndName
<1>4. table[c].chat <=> s \in chats
  BY <1>0, <1>2, ReadFacts DEF ChatInv
<1> QED
  BY <1>2, <1>3, <1>4

LEMMA MessageToContactRefines ==
    ASSUME TableInv, NEW p \in Phones, MessageToContact(p) PROVE PB!BeginMessage(p)
<1>1. PICK u \in BOOLEAN, i \in Attempts : Found(p, i, u) /\ op' = Messaging(p, Probe(p, i))
  BY GarbageFacts DEF MessageToContact
<1>2. /\ op = Idle /\ ~Failing /\ doubt = {} /\ doubt' = {}
      /\ durable' = durable /\ chats' = chats
  BY DEF MessageToContact, Failing, card
<1>3. Book[p] # NoContact /\ Book' = Book
  BY <1>1, <1>2, FoundInBook, SameBook
<1>4. op'.kind = "message" /\ op'.phone = p
  BY <1>1, OpFacts, ProbeInTable
<1>5. Power' = "on" /\ Serving' = [call |-> "message", phone |-> p]
  BY <1>2, <1>4, PowerIs, ServingIs
<1> QED
  BY <1>2, <1>3, <1>5, ReadyWhenIdle DEF PB!BeginMessage, PB!Message

LEMMA MessageToNewContactRefines ==
    ASSUME TableInv, TableInv', NEW p \in Phones, MessageToNewContact(p)
    PROVE  PB!BeginMessage(p)
<1>1. PICK i \in Attempts, s \in freeSlots :
         Written(Holding(s, p, Unnamed)) /\ op' = Messaging(p, Probe(p, i))
  BY DEF MessageToNewContact
<1>2. /\ op = Idle /\ ~Failing /\ doubt = {} /\ doubt' = {}
      /\ durable' = Holding(s, p, Unnamed) /\ chats' = chats /\ Unnamed \in Names
  BY <1>1, ContactAssumption DEF MessageToNewContact, Written, Failing
<1>3. Book[p] = NoContact /\ Book' = PB!With(p, Unnamed)
  BY <1>2, BookInserted
<1>4. op'.kind = "message" /\ op'.phone = p
  BY <1>1, OpFacts, ProbeInTable
<1>5. Power' = "on" /\ Serving' = [call |-> "message", phone |-> p]
  BY <1>2, <1>4, PowerIs, ServingIs
<1> QED
  BY <1>2, <1>3, <1>5, ReadyWhenIdle DEF PB!BeginMessage, PB!Message

(* The chat of a phone's contact, in the book.                             *)
LEMMA ChatInBook ==
    ASSUME TableInv, NEW s \in Slots, durable[s] \in Contacts, durable' = durable,
           NEW b \in BOOLEAN,
           \/ b = TRUE /\ chats' = chats \cup {s}
           \/ b = FALSE /\ chats' = chats \ {s}
    PROVE  /\ Book' = PB!WithChat(durable[s].phone, b)
           /\ Book[durable[s].phone].chat <=> s \in chats
<1>1. s \in chats' <=> b
  BY Zenon
<1>2. \A t \in Slots : t # s => (t \in chats' <=> t \in chats)
  OBVIOUS
<1>3. /\ Book[durable[s].phone].chat <=> s \in chats
      /\ Book' = [Book EXCEPT ![durable[s].phone].chat = b]
  BY <1>1, <1>2, BookIs, OneEachHolds, ChatMarked
<1> QED
  BY <1>3, Zenon DEF PB!WithChat

LEMMA RemoveChatRefines ==
    ASSUME TableInv, NEW p \in Phones, RemoveChat(p) PROVE PB!RemoveChat(p)
<1>1. PICK u \in BOOLEAN, i \in Attempts :
         /\ Found(p, i, u) /\ EntryOf(p, i).chat /\ chats' = chats \ {EntryOf(p, i).slot}
  BY GarbageFacts DEF RemoveChat
<1>2. /\ op = Idle /\ op' = op /\ ~Failing /\ doubt = {} /\ doubt' = doubt /\ durable' = durable
  BY DEF RemoveChat, Failing
<1>3. PICK s \in Slots : /\ s = EntryOf(p, i).slot /\ s \in chats
                         /\ durable[s] \in Contacts /\ durable[s].phone = p
                         /\ Book[p] # NoContact
  BY <1>1, <1>2, FoundInBook
<1>4. chats' = chats \ {s}
  BY <1>1, <1>3
<1>5. Book' = PB!WithChat(p, FALSE) /\ Book[p].chat
  <2>1. /\ Book' = PB!WithChat(durable[s].phone, FALSE)
        /\ Book[durable[s].phone].chat <=> s \in chats
    BY <1>2, <1>3, <1>4, ChatInBook
  <2> QED
    BY <1>3, <2>1, Zenon
<1> QED
  BY <1>2, <1>3, <1>5, ReadyWhenIdle DEF PB!RemoveChat, PB!Becomes

LEMMA BeginRemoveRefines ==
    ASSUME TableInv, NEW p \in Phones, BeginRemove(p) PROVE PB!BeginRemove(p)
<1>1. PICK u \in BOOLEAN, i \in Attempts :
         /\ Found(p, i, u) /\ chats' = chats \ {EntryOf(p, i).slot}
         /\ op' = Removing(p, Probe(p, i))
  BY GarbageFacts DEF BeginRemove
<1>2. /\ op = Idle /\ ~Failing /\ doubt = {} /\ doubt' = {} /\ durable' = durable
  BY DEF BeginRemove, Failing
<1>3. PICK s \in Slots : /\ s = EntryOf(p, i).slot
                         /\ durable[s] \in Contacts /\ durable[s].phone = p
                         /\ Book[p] # NoContact
  BY <1>1, <1>2, FoundInBook
<1>4. chats' = chats \ {s}
  BY <1>1, <1>3
<1>5. Book' = PB!WithChat(p, FALSE)
  <2>1. Book' = PB!WithChat(durable[s].phone, FALSE)
    BY <1>2, <1>3, <1>4, ChatInBook
  <2> QED
    BY <1>3, <2>1, Zenon
<1>6. op'.kind = "remove" /\ op'.phone = p
  BY <1>1, OpFacts, ProbeInTable
<1>7. Power' = "on" /\ Serving' = [call |-> "remove", phone |-> p]
  BY <1>2, <1>6, PowerIs, ServingIs
<1> QED
  BY <1>2, <1>3, <1>5, <1>7, ReadyWhenIdle DEF PB!BeginRemove, PB!Removal

(* The second half of a message or of a removal.                           *)
LEMMA HalfWay ==
    ASSUME TableInv, ~Failing, op.kind \in {"message", "remove"}
    PROVE  \E p \in Phones, c \in OccupiedCells, s \in Slots :
              /\ p = op.phone /\ c = op.cell /\ s = table[c].slot
              /\ durable[s] \in Contacts /\ durable[s].phone = p
              /\ op.kind = "remove" => s \notin chats
              /\ doubt = {} /\ contacts = durable
              /\ Power = "on" /\ Serving = [call |-> op.kind, phone |-> p]
<1>0. /\ TypeOK /\ CardInv /\ EntryInv /\ ChatInv /\ OpInv /\ op \in Ops
  BY InvParts
<1>1. doubt = {} /\ contacts = durable /\ ChatsRead = Slots
  BY <1>0, NotFailing, ReadFacts
<1>2. PICK p \in Phones, c \in OccupiedCells : p = op.phone /\ c = op.cell
  BY <1>0, OpKinds DEF OpInv
<1>3. PICK s \in Slots : s = table[c].slot /\ durable[s] \in Contacts
  BY <1>0, CellFacts DEF EntryInv
<1>4. durable[s].phone = p /\ (op.kind = "remove" => s \notin chats)
  BY <1>0, <1>1, <1>2, <1>3 DEF OpInv, ChatInv
<1>5. Power = "on" /\ Serving = [call |-> op.kind, phone |-> p]
  BY <1>1, <1>2, PowerIs, ServingIs
<1> QED
  BY <1>1, <1>2, <1>3, <1>4, <1>5

LEMMA BackToIdle ==
    ASSUME op' = Idle, doubt' = {} PROVE Power' = "on" /\ Serving' = NoContact
  BY OpFacts, PowerIs, ServingIs

LEMMA WriteMessageRefines ==
    ASSUME TableInv, WriteMessage PROVE \E p \in Phones : PB!Finish(p)
<1>1. /\ op.kind = "message" /\ ~Failing /\ op' = Idle /\ durable' = durable /\ doubt' = doubt
      /\ chats' = chats \cup {table[op.cell].slot}
  BY DEF WriteMessage
<1>2. PICK p \in Phones, s \in Slots :
         /\ s = table[op.cell].slot /\ durable[s] \in Contacts /\ durable[s].phone = p
         /\ doubt = {} /\ Power = "on" /\ Serving = [call |-> "message", phone |-> p]
  BY <1>1, HalfWay
<1>3. chats' = chats \cup {s}
  BY <1>1, <1>2
<1>4. Book' = PB!WithChat(p, TRUE)
  <2>1. Book' = PB!WithChat(durable[s].phone, TRUE)
    BY <1>1, <1>2, <1>3, ChatInBook
  <2> QED
    BY <1>2, <2>1, Zenon
<1>5. Power' = "on" /\ Serving' = NoContact
  BY <1>1, <1>2, BackToIdle
<1> QED
  BY <1>2, <1>4, <1>5 DEF PB!Finish, PB!Message, PB!Becomes

LEMMA NoMessageSectorRefines ==
    ASSUME TableInv, NoMessageSector
    PROVE  (\E p \in Phones : PB!Finish(p)) \/ UNCHANGED PB!vars
<1>1. /\ op.kind = "message" /\ op' = Idle /\ doubt' = doubt /\ Book' = Book
  BY SameBook DEF NoMessageSector, card
<1>2. CASE doubt = {}
  <2>1. PICK p \in Phones : Power = "on" /\ Serving = [call |-> "message", phone |-> p]
    BY <1>1, <1>2, HalfWay DEF Failing
  <2>2. Power' = "on" /\ Serving' = NoContact
    BY <1>1, <1>2, BackToIdle
  <2> QED
    BY <1>1, <2>1, <2>2 DEF PB!Finish, PB!Message
<1>3. CASE doubt # {}
  BY <1>1, <1>3, PowerIs, ServingIs, Stutters
<1> QED
  BY <1>2, <1>3

LEMMA RemoveContactRefines ==
    ASSUME TableInv, TableInv', RemoveContact PROVE \E p \in Phones : PB!Finish(p)
<1>0. TypeOK
  BY InvParts
<1>1. /\ op.kind = "remove" /\ ~Failing /\ op' = Idle /\ chats' = chats /\ doubt' = doubt
      /\ durable' = [contacts EXCEPT ![table[op.cell].slot] = Free]
  BY DEF RemoveContact, Written
<1>2. PICK p \in Phones, s \in Slots :
         /\ s = table[op.cell].slot /\ durable[s] \in Contacts /\ durable[s].phone = p
         /\ doubt = {} /\ contacts = durable
         /\ Power = "on" /\ Serving = [call |-> "remove", phone |-> p]
  BY <1>1, HalfWay
<1>3. durable' = [durable EXCEPT ![s] = Free]
  BY <1>1, <1>2
<1>4. durable'[s] \notin Contacts /\ OneSlot(durable, durable', s)
  BY <1>0, <1>3, CardFacts, OneEachHolds DEF OneSlot
<1>5. Book' = [Book EXCEPT ![durable[s].phone] = NoContact]
  <2>1. PICK B, C : B = Book /\ C = Book'
    OBVIOUS
  <2>2. B = BookFrom(durable, chats) /\ C = BookFrom(durable', chats)
    BY <1>1, <2>1, BookIs
  <2>3. C = [B EXCEPT ![durable[s].phone] = NoContact]
    BY <1>2, <1>4, <2>2, SlotRemoved
  <2> QED
    BY <2>1, <2>3
<1>6. Book' = PB!Without(p)
  BY <1>2, <1>5, Zenon DEF PB!Without
<1>7. Power' = "on" /\ Serving' = NoContact
  BY <1>1, <1>2, BackToIdle
<1> QED
  BY <1>2, <1>6, <1>7 DEF PB!Finish, PB!Removal, PB!Becomes

-----------------------------------------------------------------------------
(* Calls that fail.                                                        *)

LEMMA FailStep ==
    ASSUME ~Failing, doubt' # {}, NEW p \in Phones,
           op = Idle \/ (op.kind \in {"message", "remove"} /\ op.phone = p),
           \/ Book' = Book
           \/ \E n \in Names :
                 \/ Book[p] = NoContact /\ Book' = PB!With(p, n)
                 \/ \E q \in Phones : /\ Book[p] # NoContact
                                      /\ q = p \/ Book[q] = NoContact
                                      /\ Book' = PB!Moved(p, q, n)
    PROVE  PB!Fail(p)
<1>1. doubt = {}
  BY DEF Failing
<1>2. Power = "on" /\ Power' = "failed" /\ Serving' = NoContact
  BY <1>1, OpFacts, PowerIs, ServingIs
<1>3. Serving \in {NoContact, PB!Message(p), PB!Removal(p)}
  BY <1>1, OpFacts, ServingIs DEF PB!Message, PB!Removal
<1> QED
  BY <1>2, <1>3 DEF PB!Fail

(* While the card refuses writes, the book does not change.                *)
LEMMA FailingStutters ==
    ASSUME Failing, doubt' = doubt, durable' = durable, chats' = chats
    PROVE  UNCHANGED PB!vars
  BY PowerIs, ServingIs, SameBook, Stutters DEF Failing

LEMMA InsertFails ==
    ASSUME TableInv, TableInv', op = Idle, chats' = chats, NEW p \in Phones, NEW n \in Names,
           NEW s \in freeSlots, WriteFails({p}, Holding(s, p, n), TRUE)
    PROVE  PB!Fail(p) \/ UNCHANGED PB!vars
<1>1. CASE Failing
  BY <1>1, FailingStutters DEF WriteFails
<1>2. CASE ~Failing
  <2>1. doubt' # {} /\ (durable' = durable \/ durable' = Holding(s, p, n))
    BY <1>2 DEF WriteFails
  <2>2. CASE durable' = durable
    BY <1>2, <2>1, <2>2, SameBook, FailStep
  <2>3. CASE durable' = Holding(s, p, n)
    BY <1>2, <2>1, <2>3, BookInserted, FailStep
  <2> QED
    BY <2>1, <2>2, <2>3
<1> QED
  BY <1>1, <1>2

LEMMA UpdateFails ==
    ASSUME TableInv, TableInv', op = Idle, chats' = chats, NEW p \in Phones, NEW q \in Phones,
           NEW n \in Names, NEW i \in Attempts, NEW u \in BOOLEAN, Found(p, i, u),
           NEW phones, p \in phones,
           WriteFails(phones, Holding(EntryOf(p, i).slot, q, n), TRUE)
    PROVE  PB!Fail(p) \/ UNCHANGED PB!vars
<1>1. CASE Failing
  BY <1>1, FailingStutters DEF WriteFails
<1>2. CASE ~Failing
  <2>1. doubt' # {} /\ (durable' = durable \/ durable' = Holding(EntryOf(p, i).slot, q, n))
    BY <1>2 DEF WriteFails
  <2>2. CASE durable' = durable
    BY <1>2, <2>1, <2>2, SameBook, FailStep
  <2>3. CASE durable' = Holding(EntryOf(p, i).slot, q, n)
    BY <1>2, <2>1, <2>3, BookUpdated, FailStep
  <2> QED
    BY <2>1, <2>2, <2>3
<1> QED
  BY <1>1, <1>2

LEMMA ContactFailureRefines ==
    ASSUME TableInv, TableInv', NEW p \in Phones,
           \/ MessageToNewContactFails(p)
           \/ \E n \in Names :
                 \/ InsertContactFails(p, n) \/ UpdateContactFails(p, n)
                 \/ \E q \in Phones : UpdatePhoneFails(p, q, n)
    PROVE  PB!Fail(p) \/ UNCHANGED PB!vars
<1>1. CASE MessageToNewContactFails(p)
  BY <1>1, InsertFails, ContactAssumption DEF MessageToNewContactFails
<1>2. ASSUME NEW n \in Names, InsertContactFails(p, n) PROVE PB!Fail(p) \/ UNCHANGED PB!vars
  BY <1>2, InsertFails DEF InsertContactFails
<1>3. ASSUME NEW n \in Names, UpdateContactFails(p, n) PROVE PB!Fail(p) \/ UNCHANGED PB!vars
  <2>1. PICK u \in BOOLEAN, i \in Attempts :
           Found(p, i, u) /\ WriteFails({p}, Holding(EntryOf(p, i).slot, p, n), TRUE)
    BY <1>3, GarbageFacts DEF UpdateContactFails
  <2>2. op = Idle /\ chats' = chats /\ p \in {p}
    BY <1>3 DEF UpdateContactFails
  <2> QED
    BY <2>1, <2>2, UpdateFails
<1>4. ASSUME NEW n \in Names, NEW q \in Phones, UpdatePhoneFails(p, q, n)
      PROVE  PB!Fail(p) \/ UNCHANGED PB!vars
  <2>1. PICK u \in BOOLEAN, i \in Attempts :
           Found(p, i, u) /\ WriteFails({p, q}, Holding(EntryOf(p, i).slot, q, n), TRUE)
    BY <1>4, GarbageFacts DEF UpdatePhoneFails
  <2>2. op = Idle /\ chats' = chats /\ p \in {p, q}
    BY <1>4 DEF UpdatePhoneFails
  <2> QED
    BY <2>1, <2>2, UpdateFails
<1> QED
  BY <1>1, <1>2, <1>3, <1>4

LEMMA ChatFailureRefines ==
    ASSUME NEW p \in Phones, ChatWriteFails(p),
           op = Idle \/ (op.kind \in {"message", "remove"} /\ op.phone = p)
    PROVE  PB!Fail(p) \/ UNCHANGED PB!vars
<1>1. durable' = durable /\ chats' = chats
  BY DEF ChatWriteFails
<1>2. CASE Failing
  BY <1>1, <1>2, FailingStutters DEF ChatWriteFails
<1>3. CASE ~Failing
  <2>1. doubt' # {}
    BY <1>3 DEF ChatWriteFails
  <2> QED
    BY <1>1, <1>3, <2>1, SameBook, FailStep
<1> QED
  BY <1>2, <1>3

LEMMA WriteMessageFailsRefines ==
    ASSUME TableInv, WriteMessageFails
    PROVE  (\E p \in Phones : PB!Fail(p)) \/ UNCHANGED PB!vars
<1>1. op.kind = "message" /\ ChatWriteFails(op.phone) /\ op.phone \in Phones
  BY InvParts, OpKinds DEF WriteMessageFails
<1>2. PICK p \in Phones : p = op.phone /\ ChatWriteFails(p)
  BY <1>1
<1> QED
  BY <1>1, <1>2, ChatFailureRefines

LEMMA RemoveContactFailsRefines ==
    ASSUME TableInv, RemoveContactFails
    PROVE  (\E p \in Phones : PB!Fail(p)) \/ UNCHANGED PB!vars
<1>1. /\ op.kind = "remove" /\ op.phone \in Phones /\ chats' = chats
      /\ durable' = durable
      /\ IF Failing THEN doubt' = doubt ELSE doubt' = {op.phone}
  BY InvParts, OpKinds DEF RemoveContactFails, WriteFails
<1>2. PICK p \in Phones : p = op.phone
  BY <1>1
<1>3. CASE Failing
  BY <1>1, <1>3, FailingStutters
<1>4. CASE ~Failing
  <2>1. doubt' # {}
    BY <1>1, <1>4
  <2> QED
    BY <1>1, <1>2, <1>4, <2>1, SameBook, FailStep
<1> QED
  BY <1>3, <1>4

-----------------------------------------------------------------------------
(* Power cuts, bad sectors and the reconstruction.                         *)

LEMMA PowerCutRefines == ASSUME PowerCut PROVE PB!PowerCut
<1>1. durable' = durable /\ chats' = chats /\ op' = Off /\ doubt' = {}
  BY DEF PowerCut
<1>2. Power' = "off" /\ Serving' = NoContact
  BY <1>1, OpFacts, PowerIs, ServingIs
<1> QED
  BY <1>1, <1>2, SameBook DEF PB!PowerCut

LEMMA DecayRefines ==
    ASSUME TableInv, TableInv', NEW s \in Slots, Decay(s) PROVE PB!Decay
<1>0. TypeOK /\ CardInv
  BY InvParts
<1>1. /\ op = Off /\ op' = op /\ doubt' = doubt /\ chats' = chats /\ durable' = contacts'
      /\ contacts' = [t \in Slots |-> IF t \in SectorOf(s) THEN Lost ELSE contacts[t]]
  BY DEF Decay
<1>2. doubt = {} /\ contacts = durable /\ op.kind = "off"
  BY <1>0, <1>1, OpFacts, NotMounted
<1>3. PICK d, e : d = durable /\ e = durable'
  OBVIOUS
<1>4. /\ \A t \in SectorOf(s) : t \in Slots /\ e[t] \notin Contacts
      /\ \A t \in Slots : t \notin SectorOf(s) => e[t] = d[t]
  BY <1>1, <1>2, <1>3, CardFacts, <1>0 DEF SectorOf
<1>5. PICK B, C : B = BookFrom(d, chats) /\ C = BookFrom(e, chats)
  OBVIOUS
<1>6. B = Book /\ C = Book'
  BY <1>1, <1>3, <1>5, BookIs
<1>7. OneEach(d) /\ OneEach(e)
  BY <1>3, OneEachHolds
<1>8. PICK lost \in SUBSET Phones :
         lost = {p \in Phones : \E t \in SectorOf(s) : d[t] \in Contacts /\ d[t].phone = p}
  OBVIOUS
<1>9. ASSUME NEW p \in lost PROVE C[p] = NoContact
  <2>1. \A t \in Slots : e[t] \in Contacts => e[t].phone # p
    BY <1>4, <1>7, <1>8, <1>9 DEF OneEach
  <2> QED
    BY <1>5, <1>7, <2>1, BookAt
<1>10. ASSUME NEW p \in Phones, p \notin lost PROVE C[p] = B[p]
  <2>1. CASE \A t \in Slots : d[t] \in Contacts => d[t].phone # p
    <3>1. \A t \in Slots : e[t] \in Contacts => e[t].phone # p
      BY <1>4, <2>1
    <3> QED
      BY <1>5, <1>7, <2>1, <3>1, BookAt
  <2>2. ASSUME NEW t \in Slots, d[t] \in Contacts, d[t].phone = p PROVE C[p] = B[p]
    <3>1. e[t] = d[t]
      BY <1>4, <1>8, <1>10, <2>2
    <3> QED
      BY <1>5, <1>7, <2>2, <3>1, BookAt
  <2> QED
    BY <2>1, <2>2
<1>11. C = [p \in Phones |-> IF p \in lost THEN NoContact ELSE B[p]]
  <2>1. C \in [Phones -> Known \cup {NoContact}]
    BY <1>5, <1>7, BookType
  <2> QED
    BY <1>9, <1>10, <2>1
<1>12. Power = "off" /\ Power' = Power /\ Serving' = Serving
  BY <1>1, <1>2, PowerIs, ServingIs
<1> QED
  BY <1>6, <1>11, <1>12 DEF PB!Decay

LEMMA BootStutters ==
    ASSUME doubt = {}, doubt' = {}, op.kind \in {"off", "contacts", "chats"},
           op'.kind \in {"off", "contacts", "chats"}, Book' = Book
    PROVE  UNCHANGED PB!vars
  BY PowerIs, ServingIs, Stutters

(* A chat that a boot removes has no contact (see NoChatReadInv).          *)
LEMMA NoChatReadBook ==
    ASSUME TableInv, TableInv', NoChatRead PROVE Book' = Book
<1>0. /\ TypeOK /\ CardInv /\ EntryInv /\ ReachInv
  BY InvParts
<1>1. /\ op.kind = "chats" /\ op.at < NumSlots /\ op' = ReadingChats(op.at + 1)
      /\ op.at \in chats => \A i \in Attempts : ~HasEntry(op.at, i)
      /\ chats' = chats \ {op.at} /\ durable' = durable
  BY DEF NoChatRead
<1>2. PICK k \in Slots : k = op.at /\ SlotsRead = Slots
  BY <1>1, NextChat
<1>3. contacts = durable /\ \A p \in Phones : ~Doubtful(p)
  BY <1>0, <1>1, NotMounted
<1>4. CASE k \notin chats
  <2>1. chats' = chats
    BY <1>1, <1>2, <1>4
  <2> QED
    BY <1>1, <2>1, SameBook
<1>5. CASE k \in chats
  <2>1. durable[k] \notin Contacts
    <3> SUFFICES ASSUME durable[k] \in Contacts PROVE FALSE
      OBVIOUS
    <3>1. PICK p \in Phones : p = durable[k].phone
      BY PhoneAndName
    <3>2. PICK i \in Attempts : table[Probe(p, i)].slot = k /\ Found(p, i, FALSE)
      BY <1>0, <1>2, <1>3, <3>1, FindsContact
    <3>3. HasEntry(k, i)
      BY <1>3, <3>1, <3>2 DEF HasEntry, EntryOf
    <3> QED
      BY <1>1, <1>2, <1>5, <3>3
  <2>2. PICK B, C : B = BookFrom(durable, chats) /\ C = BookFrom(durable, chats')
    OBVIOUS
  <2>3. B = Book /\ C = Book' /\ OneEach(durable)
    BY <1>1, <2>2, BookIs, OneEachHolds
  <2>4. PICK d, ch, ch2 : d = durable /\ ch = chats /\ ch2 = chats'
    OBVIOUS
  <2>5. ASSUME NEW x \in Phones PROVE C[x] = B[x]
    <3>1. \A t \in Slots : t # k => d[t] = d[t] /\ (t \in ch2 <=> t \in ch)
      BY <1>1, <1>2, <2>4
    <3>2. d[k] \in Contacts => d[k].phone # x
      BY <2>1, <2>4
    <3>3. BookFrom(d, ch2)[x] = BookFrom(d, ch)[x]
      BY <2>3, <2>4, <3>1, <3>2, OutsideSlot
    <3> QED
      BY <2>2, <2>4, <3>3
  <2>6. B \in [Phones -> Known \cup {NoContact}] /\ C \in [Phones -> Known \cup {NoContact}]
    BY <2>2, <2>3, BookType
  <2> QED
    BY <2>3, <2>5, <2>6
<1> QED
  BY <1>4, <1>5

LEMMA ReconstructionRefines ==
    ASSUME TableInv, TableInv',
           PowerOn \/ FreeSlotRead \/ ContactRead \/ ContactsRead \/ ChatRead \/ NoChatRead
    PROVE  UNCHANGED PB!vars
<1>0. /\ TypeOK /\ CardInv /\ 0 \in 0 .. NumSlots /\ NumSlots \in 0 .. NumSlots
  BY InvParts, Sizes
<1>1. op.kind \in {"off", "contacts", "chats"}
  <2>1. CASE PowerOn
    BY <2>1, OpFacts DEF PowerOn
  <2>2. CASE ContactsRead
    BY <1>0, <2>2, OpFacts DEF ContactsRead
  <2>3. CASE FreeSlotRead \/ ContactRead \/ ChatRead \/ NoChatRead
    BY <2>3 DEF FreeSlotRead, ContactRead, ChatRead, NoChatRead
  <2> QED
    BY <2>1, <2>2, <2>3
<1>2. doubt = {} /\ doubt' = {}
  <2>1. doubt' = doubt
    BY DEF PowerOn, FreeSlotRead, ContactRead, ContactsRead, ChatRead, NoChatRead
  <2> QED
    BY <1>0, <1>1, <2>1, NotMounted
<1>3. op'.kind \in {"contacts", "chats"}
  <2>1. CASE PowerOn
    BY <1>0, <2>1, OpFacts DEF PowerOn
  <2>2. CASE FreeSlotRead \/ ContactRead
    BY <2>2, NextSlot DEF FreeSlotRead, ContactRead
  <2>3. CASE ContactsRead
    BY <1>0, <2>3, OpFacts DEF ContactsRead
  <2>4. CASE ChatRead \/ NoChatRead
    BY <2>4, NextChat DEF ChatRead, NoChatRead
  <2> QED
    BY <2>1, <2>2, <2>3, <2>4
<1>4. Book' = Book
  <2>1. CASE NoChatRead
    BY <2>1, NoChatReadBook
  <2>2. CASE PowerOn \/ FreeSlotRead \/ ContactRead \/ ContactsRead \/ ChatRead
    <3>1. durable' = durable /\ chats' = chats
      BY <2>2 DEF PowerOn, FreeSlotRead, ContactRead, ContactsRead, ChatRead, card
    <3> QED
      BY <3>1, SameBook
  <2> QED
    BY <2>1, <2>2
<1> QED
  BY <1>1, <1>2, <1>3, <1>4, BootStutters

LEMMA MountedRefines == ASSUME TableInv, Mounted PROVE PB!Mount
<1>0. TypeOK /\ CardInv /\ NumSlots \in 0 .. NumSlots
  BY InvParts, Sizes
<1>1. /\ op.kind = "chats" /\ op' = Idle /\ doubt' = doubt
      /\ durable' = durable /\ chats' = chats
  BY <1>0, OpFacts DEF Mounted, card
<1>2. doubt = {}
  BY <1>0, <1>1, NotMounted
<1>3. /\ Power = "off" /\ Serving = NoContact /\ Power' = "on" /\ Serving' = NoContact
  BY <1>1, <1>2, PowerIs, ServingIs, BackToIdle
<1> QED
  BY <1>1, <1>3, SameBook DEF PB!Mount

-----------------------------------------------------------------------------

LEMMA InitRefines == ASSUME Init PROVE PB!Init
<1>1. /\ op = Idle /\ doubt = {} /\ \A s \in Slots : durable[s] = Free
  BY DEF Init
<1>2. Power = "on" /\ Serving = NoContact
  BY <1>1, OpFacts, PowerIs, ServingIs
<1>3. PICK B : B = Book /\ B = BookFrom(durable, chats)
  BY BookIs
<1>4. \A s \in Slots : durable[s] \notin Contacts
  BY <1>1, ContactAssumption
<1>5. OneEach(durable)
  BY <1>4 DEF OneEach
<1>6. B \in [Phones -> Known \cup {NoContact}] /\ \A p \in Phones : B[p] = NoContact
  BY <1>3, <1>4, <1>5, BookType, BookAt
<1>7. B = [p \in Phones |-> NoContact]
  BY <1>6
<1> QED
  BY <1>2, <1>3, <1>7 DEF PB!Init

LEMMA CallRefines ==
    ASSUME TableInv, TableInv', NEW p \in Phones, Calls(p)
    PROVE  PB!Next \/ UNCHANGED PB!vars
<1>1. CASE MessageToContact(p) \/ MessageToNewContact(p)
  BY <1>1, MessageToContactRefines, MessageToNewContactRefines DEF PB!Next
<1>2. CASE RemoveChat(p) \/ BeginRemove(p)
  BY <1>2, RemoveChatRefines, BeginRemoveRefines DEF PB!Next
<1>3. CASE RemoveChatFails(p) \/ BeginRemoveFails(p)
  <2>1. op = Idle /\ ChatWriteFails(p)
    BY <1>3 DEF RemoveChatFails, BeginRemoveFails
  <2> QED
    BY <2>1, ChatFailureRefines DEF PB!Next
<1>4. ASSUME NEW n \in Names,
             InsertContact(p, n) \/ UpdateContact(p, n) \/ \E q \in Phones : UpdatePhone(p, q, n)
      PROVE  PB!Next
  <2>1. PB!Add(p, n) \/ \E q \in Phones : PB!Update(p, q, n)
    BY <1>4, InsertContactRefines, UpdateContactRefines, UpdatePhoneRefines
  <2> QED
    BY <2>1 DEF PB!Next
<1>5. CASE \/ MessageToNewContactFails(p)
           \/ \E n \in Names :
                 \/ InsertContactFails(p, n) \/ UpdateContactFails(p, n)
                 \/ \E q \in Phones : UpdatePhoneFails(p, q, n)
  BY <1>5, ContactFailureRefines DEF PB!Next
<1> QED
  BY <1>1, <1>2, <1>3, <1>4, <1>5 DEF Calls

LEMMA StepRefines ==
    ASSUME TableInv, TableInv', [Next]_vars PROVE [PB!Next]_PB!vars
<1>1. CASE \E p \in Phones : Calls(p)
  BY <1>1, CallRefines
<1>2. CASE WriteMessage \/ NoMessageSector \/ RemoveContact
  BY <1>2, WriteMessageRefines, NoMessageSectorRefines, RemoveContactRefines DEF PB!Next
<1>3. CASE WriteMessageFails \/ RemoveContactFails
  BY <1>3, WriteMessageFailsRefines, RemoveContactFailsRefines DEF PB!Next
<1>4. CASE PowerCut \/ (\E s \in Slots : Decay(s)) \/ Mounted
  BY <1>4, PowerCutRefines, DecayRefines, MountedRefines DEF PB!Next
<1>5. CASE PowerOn \/ FreeSlotRead \/ ContactRead \/ ContactsRead \/ ChatRead \/ NoChatRead
  BY <1>5, ReconstructionRefines
<1>6. CASE UNCHANGED vars
  <2>1. UNCHANGED <<durable, chats, op, doubt>>
    BY <1>6 DEF vars, card
  <2> QED
    BY <2>1, SameBook, PowerIs, ServingIs, Stutters
<1> QED
  BY <1>1, <1>2, <1>3, <1>4, <1>5, <1>6 DEF Next

(* The hash table, its contact slots and its reconstruction implement a    *)
(* map from phones to contacts, across collisions, failures and boots.     *)
THEOREM HashTableIsPhoneBook == Spec => IsPhoneBook
<1>1. Init => PB!Init
  BY InitRefines
<1>2. TableInv /\ TableInv' /\ [Next]_vars => [PB!Next]_PB!vars
  BY StepRefines
<1>3. Spec => PB!Spec
  BY <1>1, <1>2, TableInvariant, PTL DEF Spec, PB!Spec
<1> QED
  BY <1>3 DEF IsPhoneBook
-----------------------------------------------------------------------------
(* The walk over the cells.                                                *)

(* The cells of O after cell cur, in the order of the ranks r.             *)
Later(O, r, cur) == {c \in O : cur = NoCell \/ r[c] > r[cur]}

(* step goes to the next one.                                              *)
StepsThrough(step, O, r) ==
    \A cur \in Cells \cup {NoCell} :
        IF Later(O, r, cur) = {} THEN step[cur] = NoCell
        ELSE step[cur] \in Later(O, r, cur) /\ \A d \in Later(O, r, cur) : r[step[cur]] <= r[d]

LEMMA WalkCells ==
    ASSUME NEW step \in [Cells \cup {NoCell} -> Cells \cup {NoCell}]
    PROVE  \E at \in [1 .. TableSize -> Cells \cup {NoCell}] :
              /\ at[1] = step[NoCell]
              /\ \A k \in 1 .. TableSize - 1 :
                    at[k + 1] = IF at[k] = NoCell THEN NoCell ELSE step[at[k]]
              /\ Walk(step) = [k \in 1 .. Cardinality({j \in 1 .. TableSize : at[j] # NoCell}) |-> at[k]]
<1> DEFINE T == TableSize
           V == Cells \cup {NoCell}
           Body(g) == [k \in 1 .. T |-> IF k = 1 THEN step[NoCell]
                                        ELSE IF g[k - 1] = NoCell THEN NoCell ELSE step[g[k - 1]]]
           at == CHOOSE g : g = Body(g)
           go == [k \in 1 .. T |-> [c \in V |-> IF c = NoCell THEN NoCell ELSE step[c]]]
<1>1. T \in Nat /\ 1 <= T /\ 1 \in Nat /\ step[NoCell] \in V
  BY Sizes
<1>2. go \in [1 .. T -> [V -> V]]
  OBVIOUS
<1>3. PICK h \in [1 .. T -> V] : h[1] = step[NoCell] /\ \A k \in 1 + 1 .. T : h[k] = go[k][h[k - 1]]
  <2> DEFINE v == step[NoCell]
  <2>1. \E h : Iterates(h, 1, T, V, v, go)
    <3>1. v \in V
      BY <1>1
    <3> HIDE DEF go, V, v, T
    <3> QED BY <1>1, <1>2, <3>1, RecursionExists
  <2> QED
    BY <2>1 DEF Iterates
<1>4. ASSUME NEW k \in 1 .. T, k # 1
      PROVE  /\ k - 1 \in 1 .. T /\ h[k - 1] \in V
             /\ h[k] = IF h[k - 1] = NoCell THEN NoCell ELSE step[h[k - 1]]
  <2>1. k - 1 \in 1 .. T /\ k \in 1 + 1 .. T
    BY <1>1, <1>4
  <2> QED
    BY <1>3, <2>1
<1>5. h = Body(h)
  <2>1. \A k \in 1 .. T : h[k] = IF k = 1 THEN step[NoCell]
                                 ELSE IF h[k - 1] = NoCell THEN NoCell ELSE step[h[k - 1]]
    BY <1>3, <1>4
  <2>2. h = [k \in 1 .. T |-> h[k]]
    OBVIOUS
  <2> QED
    BY <2>1, <2>2
<1>6. at = Body(at)
  BY <1>5
<1>7. Walk(step) = [k \in 1 .. Cardinality({j \in 1 .. T : at[j] # NoCell}) |-> at[k]]
  BY DEF Walk
<1> HIDE DEF at
<1>8. \A k \in 1 .. T : at[k] = IF k = 1 THEN step[NoCell]
                                ELSE IF at[k - 1] = NoCell THEN NoCell ELSE step[at[k - 1]]
  BY <1>6
<1>9. at[1] = step[NoCell]
  BY <1>1, <1>8
<1>10. ASSUME NEW k \in 1 .. T - 1
       PROVE  at[k + 1] = IF at[k] = NoCell THEN NoCell ELSE step[at[k]]
  <2>1. k + 1 \in 1 .. T /\ k + 1 # 1 /\ (k + 1) - 1 = k
    BY <1>1
  <2> QED
    BY <1>8, <2>1
<1> DEFINE S == {k \in 1 .. T : at[k] \in V}
<1>11. 1 .. T \subseteq S
  <2>1. 1 \in S
    BY <1>1, <1>9
  <2>2. ASSUME NEW k \in 1 .. T - 1, k \in S PROVE k + 1 \in S
    <3>1. at[k + 1] \in V
      BY <1>10, <2>2
    <3> QED
      BY <1>1, <3>1
  <2> HIDE DEF S, T
  <2> QED
    BY <1>1, <2>1, <2>2, IntervalInduction
<1>12. at \in [1 .. T -> V]
  BY <1>6, <1>11
<1> QED
  BY <1>7, <1>9, <1>10, <1>12

(* A walk stands on each cell of O once, in the order of the ranks.        *)
Enumerates(w, O, r) ==
    /\ w \in [1 .. Cardinality(O) -> O] /\ Cardinality(O) \in 0 .. TableSize
    /\ \A p, q \in 1 .. Cardinality(O) : p < q => r[w[p]] < r[w[q]]
    /\ \A x \in O : \E p \in 1 .. Cardinality(O) : w[p] = x

LEMMA WalkIs ==
    ASSUME NEW O \in SUBSET Cells, NEW r \in [Cells -> Cells],
           \A c, d \in Cells : r[c] = r[d] => c = d,
           NEW step \in [Cells \cup {NoCell} -> Cells \cup {NoCell}],
           StepsThrough(step, O, r)
    PROVE  Enumerates(Walk(step), O, r)
<1> DEFINE T == TableSize
<1>1. PICK at \in [1 .. T -> Cells \cup {NoCell}] :
              /\ at[1] = step[NoCell]
              /\ \A k \in 1 .. T - 1 : at[k + 1] = IF at[k] = NoCell THEN NoCell ELSE step[at[k]]
              /\ Walk(step) = [k \in 1 .. Cardinality({j \in 1 .. T : at[j] # NoCell}) |-> at[k]]
  BY WalkCells
<1>2. T \in Nat /\ T > 0 /\ NoCell \notin Cells /\ \A c \in Cells : r[c] \in Nat /\ r[c] <= T - 1
  BY Sizes DEF Cells, NoCell
<1> DEFINE steps == {k \in 1 .. T : at[k] # NoCell}
           Risen(k) == at[k] # NoCell =>
                          /\ at[k] \in O /\ at[k] \in Cells /\ r[at[k]] >= k - 1
                          /\ \A j \in 1 .. k - 1 : at[j] # NoCell /\ at[j] \in Cells /\ r[at[j]] < r[at[k]]
           R == {k \in 1 .. T : Risen(k)}
<1>3. \A cur \in Cells \cup {NoCell} : step[cur] # NoCell =>
         step[cur] \in Later(O, r, cur) /\ \A d \in Later(O, r, cur) : r[step[cur]] <= r[d]
  BY DEF StepsThrough
<1>4. 1 \in R
  <2>1. at[1] # NoCell => at[1] \in O /\ at[1] \in Cells
    BY <1>1, <1>3 DEF Later
  <2>2. Risen(1)
    BY <1>2, <2>1
  <2> QED
    BY <1>2, <2>2
<1>5. ASSUME NEW k \in 1 .. T - 1, k \in R PROVE k + 1 \in R
  <2>1. k \in 1 .. T /\ k + 1 \in 1 .. T /\ at[k] \in Cells \cup {NoCell}
    BY <1>2
  <2>2. ASSUME at[k + 1] # NoCell
        PROVE  /\ at[k] # NoCell /\ at[k] \in Cells /\ at[k + 1] \in O /\ at[k + 1] \in Cells
               /\ r[at[k + 1]] > r[at[k]]
    BY <1>1, <1>2, <1>3, <2>1, <2>2 DEF Later
  <2>3. ASSUME at[k + 1] # NoCell, NEW j \in 1 .. (k + 1) - 1
        PROVE  at[j] # NoCell /\ at[j] \in Cells /\ r[at[j]] < r[at[k + 1]]
    <3>1. CASE j = k
      BY <2>2, <2>3, <3>1
    <3>2. CASE j # k
      <4>1. j \in 1 .. k - 1
        BY <2>1, <3>2
      <4>2. at[j] # NoCell /\ at[j] \in Cells /\ r[at[j]] < r[at[k]]
        BY <1>5, <2>2, <2>3, <4>1
      <4> QED
        BY <1>2, <2>2, <2>3, <4>2
    <3> QED
      BY <3>1, <3>2
  <2>4. at[k + 1] # NoCell => r[at[k + 1]] >= (k + 1) - 1
    <3>1. at[k] # NoCell => r[at[k]] >= k - 1
      BY <1>5
    <3> QED
      BY <1>2, <2>1, <2>2, <3>1
  <2>5. Risen(k + 1)
    BY <2>2, <2>3, <2>4
  <2> QED
    BY <2>1, <2>5
<1>6. \A k \in 1 .. T : Risen(k)
  <2>1. 1 .. T \subseteq R
    <3>1. T \in Nat /\ 1 \in Nat /\ \A k \in 1 .. T - 1 : k \in R => k + 1 \in R
      BY <1>2, <1>5
    <3> HIDE DEF R, T
    <3> QED BY <1>4, <3>1, IntervalInduction
  <2> HIDE DEF Risen
  <2> QED BY <2>1
<1>7. ASSUME NEW x \in O PROVE \E k \in steps : at[k] = x
  <2> SUFFICES ASSUME \A k \in steps : at[k] # x PROVE FALSE
    OBVIOUS
  <2> DEFINE P == {k \in 1 .. T : at[k] # NoCell /\ r[at[k]] < r[x]}
  <2>1. x \in Cells /\ r[x] \in Nat /\ r[x] <= T - 1
    BY <1>2
  <2>2. 1 \in P
    <3>1. x \in Later(O, r, NoCell)
      BY <2>1 DEF Later
    <3>2. at[1] \in Later(O, r, NoCell) /\ r[at[1]] <= r[x]
      BY <1>1, <3>1 DEF StepsThrough
    <3>3. at[1] # NoCell /\ at[1] \in Cells /\ 1 \in steps
      BY <1>2, <3>2 DEF Later
    <3>4. r[at[1]] # r[x]
      BY <2>1, <3>3
    <3> QED
      BY <1>2, <2>1, <3>2, <3>3, <3>4
  <2>3. ASSUME NEW k \in 1 .. T - 1, k \in P PROVE k + 1 \in P
    <3>1. k + 1 \in 1 .. T /\ at[k] \in Cells /\ at[k] # NoCell /\ r[at[k]] < r[x]
      BY <1>2, <2>3
    <3>2. x \in Later(O, r, at[k])
      BY <1>2, <2>1, <3>1 DEF Later
    <3>3. at[k + 1] \in Later(O, r, at[k]) /\ r[at[k + 1]] <= r[x]
      BY <1>1, <3>1, <3>2 DEF StepsThrough
    <3>4. at[k + 1] # NoCell /\ at[k + 1] \in Cells /\ k + 1 \in steps
      BY <1>2, <3>1, <3>3 DEF Later
    <3>5. r[at[k + 1]] # r[x]
      BY <2>1, <3>4
    <3> QED
      BY <1>2, <2>1, <3>1, <3>3, <3>4, <3>5
  <2>4. T \in P
    <3>1. 1 .. T \subseteq P
      <4>1. T \in Nat /\ 1 \in Nat /\ \A k \in 1 .. T - 1 : k \in P => k + 1 \in P
        BY <1>2, <2>3
      <4> HIDE DEF P, T, steps
      <4> QED BY <2>2, <4>1, IntervalInduction
    <3> QED
      BY <1>2, <3>1
  <2>5. r[at[T]] >= T - 1 /\ at[T] \in Cells /\ r[at[T]] < r[x]
    BY <1>2, <1>6, <2>4
  <2> QED
    BY <1>2, <2>1, <2>5
<1>8. Cardinality(steps) \in 0 .. T /\ steps = 1 .. Cardinality(steps)
  <2>1. ASSUME NEW k \in 1 .. T - 1, k + 1 \in steps PROVE k \in steps
    BY <1>1, <1>2, <2>1
  <2>2. steps \in SUBSET (1 .. T)
    OBVIOUS
  <2> HIDE DEF steps, T
  <2> QED
    BY <1>2, <2>1, <2>2, FirstNumbers
<1>9. ASSUME NEW p \in steps, NEW q \in steps, p < q PROVE r[at[p]] < r[at[q]]
  <2>1. p \in 1 .. q - 1 /\ q \in 1 .. T /\ at[q] # NoCell
    BY <1>2, <1>9
  <2> QED
    BY <1>6, <2>1
<1>10. Cardinality(O) = Cardinality(steps)
  <2> DEFINE f == [k \in steps |-> at[k]]
  <2>1. \A k \in steps : at[k] \in O /\ at[k] \in Cells
    BY <1>6
  <2>2. ASSUME NEW p \in steps, NEW q \in steps, at[p] = at[q] PROVE p = q
    <3>1. p \in Nat /\ q \in Nat /\ r[at[p]] \in Nat
      BY <1>2, <2>1
    <3>2. ~ (p < q) /\ ~ (q < p)
      BY <1>9, <2>2, <3>1
    <3> QED
      BY <3>1, <3>2
  <2>3. /\ f \in [steps -> O] /\ \A p, q \in steps : f[p] = f[q] => p = q
        /\ \A x \in O : \E k \in steps : f[k] = x
    <3> HIDE DEF steps
    <3> QED BY <2>1, <2>2, <1>7
  <2>4. IsFiniteSet(steps)
    <3> DEFINE m == Cardinality(steps)
    <3>1. m \in Nat /\ steps = 1 .. m
      BY <1>2, <1>8
    <3>2. IsFiniteSet(1 .. m)
      <4> HIDE DEF m
      <4> QED BY <3>1, FS_Interval
    <3> HIDE DEF m
    <3> QED BY <3>1, <3>2
  <2> HIDE DEF f, steps
  <2> QED
    BY <2>3, <2>4, SameSize
<1>11. Walk(step) = [k \in 1 .. Cardinality(O) |-> at[k]]
  BY <1>1, <1>10
<1>12. \A k \in 1 .. Cardinality(O) : k \in steps /\ at[k] \in O
  BY <1>6, <1>8, <1>10
<1>13. /\ \A p, q \in 1 .. Cardinality(O) : p < q => r[at[p]] < r[at[q]]
       /\ \A x \in O : \E p \in 1 .. Cardinality(O) : at[p] = x
  <2> HIDE DEF steps
  <2> QED BY <1>7, <1>8, <1>9, <1>10
<1> HIDE DEF steps
<1> QED
  BY <1>8, <1>10, <1>11, <1>12, <1>13 DEF Enumerates
-----------------------------------------------------------------------------
(* The lists.                                                              *)

Ranks  == [c \in Cells |-> c]
RanksBack == [c \in Cells |-> (TableSize - 1) - c]

LEMMA RanksAre ==
    /\ Ranks \in [Cells -> Cells] /\ RanksBack \in [Cells -> Cells]
    /\ \A c \in Cells : Ranks[c] = c /\ RanksBack[c] = (TableSize - 1) - c
    /\ \A c, d \in Cells : /\ Ranks[c] = Ranks[d] => c = d
                           /\ RanksBack[c] = RanksBack[d] => c = d
  BY Sizes DEF Ranks, RanksBack, Cells

(* A set of cells that is not empty has a first cell and a last one.       *)
LEMMA EndCells ==
    ASSUME NEW S \in SUBSET Cells, S # {}
    PROVE  /\ \E c \in S : \A d \in S : c <= d
           /\ \E c \in S : \A d \in S : c >= d
<1>1. TableSize \in Nat /\ \A c \in S : c \in Nat /\ c <= TableSize - 1
  BY Sizes DEF Cells
<1>2. \E c \in S : \A d \in S : c <= d
  BY <1>1, LeastNatural
<1>3. \E c \in S : \A d \in S : c >= d
  <2> DEFINE U == {(TableSize - 1) - c : c \in S}
  <2>1. U \subseteq Nat /\ U # {}
    BY <1>1
  <2>2. PICK m \in U : \A n \in U : m <= n
    <3> HIDE DEF U
    <3> QED BY <2>1, LeastNatural
  <2>3. PICK c \in S : m = (TableSize - 1) - c
    OBVIOUS
  <2>4. ASSUME NEW d \in S PROVE c >= d
    <3>1. m <= (TableSize - 1) - d
      BY <2>2
    <3> QED
      BY <1>1, <2>3, <3>1
  <2> QED
    BY <2>4
<1> QED
  BY <1>2, <1>3

LEMMA StepsForwards ==
    /\ Forwards \in [Cells \cup {NoCell} -> Cells \cup {NoCell}]
    /\ StepsThrough(Forwards, OccupiedCells, Ranks)
<1>1. OccupiedCells \in SUBSET Cells /\ NoCell \notin Cells
  BY Sizes DEF OccupiedCells, NoCell, Cells
<1>2. ASSUME NEW cur \in Cells \cup {NoCell}
      PROVE  /\ IteratorNext(cur) \in Cells \cup {NoCell}
             /\ IF Later(OccupiedCells, Ranks, cur) = {} THEN IteratorNext(cur) = NoCell
                ELSE /\ IteratorNext(cur) \in Later(OccupiedCells, Ranks, cur)
                     /\ \A d \in Later(OccupiedCells, Ranks, cur) : Ranks[IteratorNext(cur)] <= Ranks[d]
  <2> DEFINE L == Later(OccupiedCells, Ranks, cur)
             later == {c \in OccupiedCells : cur = NoCell \/ c > cur}
  <2>1. L = later
    BY <1>1, RanksAre DEF Later
  <2>2. later \in SUBSET Cells /\ \A d \in later : Ranks[d] = d
    BY <1>1, RanksAre
  <2>3. IteratorNext(cur) = IF later = {} THEN NoCell ELSE CHOOSE c \in later : \A d \in later : c <= d
    BY DEF IteratorNext
  <2> HIDE DEF later
  <2>4. CASE later = {}
    BY <2>1, <2>3, <2>4
  <2>5. CASE later # {}
    <3>1. IteratorNext(cur) \in later /\ \A d \in later : IteratorNext(cur) <= d
      BY <2>2, <2>3, <2>5, EndCells
    <3> QED
      BY <2>1, <2>2, <2>5, <3>1
  <2> QED
    BY <2>4, <2>5
<1> QED
  BY <1>2 DEF Forwards, StepsThrough

LEMMA StepsBackwards ==
    /\ Backwards \in [Cells \cup {NoCell} -> Cells \cup {NoCell}]
    /\ StepsThrough(Backwards, OccupiedCells, RanksBack)
<1>1. OccupiedCells \in SUBSET Cells /\ NoCell \notin Cells /\ TableSize \in Nat /\ Cells \subseteq Nat
  BY Sizes DEF OccupiedCells, NoCell, Cells
<1>2. ASSUME NEW cur \in Cells \cup {NoCell}
      PROVE  /\ IteratorPrev(cur) \in Cells \cup {NoCell}
             /\ IF Later(OccupiedCells, RanksBack, cur) = {} THEN IteratorPrev(cur) = NoCell
                ELSE /\ IteratorPrev(cur) \in Later(OccupiedCells, RanksBack, cur)
                     /\ \A d \in Later(OccupiedCells, RanksBack, cur) :
                           RanksBack[IteratorPrev(cur)] <= RanksBack[d]
  <2> DEFINE L == Later(OccupiedCells, RanksBack, cur)
             earlier == {c \in OccupiedCells : cur = NoCell \/ c < cur}
  <2>1. L = earlier
    <3>1. ASSUME NEW c \in Cells, NEW d \in Cells PROVE RanksBack[c] > RanksBack[d] <=> c < d
      <4>1. RanksBack[c] = (TableSize - 1) - c /\ RanksBack[d] = (TableSize - 1) - d
        BY RanksAre
      <4> QED
        BY <1>1, <4>1
    <3> QED
      BY <1>1, <3>1 DEF Later
  <2>2. earlier \in SUBSET Cells
    BY <1>1
  <2>3. IteratorPrev(cur) = IF earlier = {} THEN NoCell ELSE CHOOSE c \in earlier : \A d \in earlier : c >= d
    BY DEF IteratorPrev
  <2> HIDE DEF earlier
  <2>4. CASE earlier = {}
    BY <2>1, <2>3, <2>4
  <2>5. CASE earlier # {}
    <3>1. IteratorPrev(cur) \in earlier /\ \A d \in earlier : IteratorPrev(cur) >= d
      BY <2>2, <2>3, <2>5, EndCells
    <3>2. ASSUME NEW d \in earlier PROVE RanksBack[IteratorPrev(cur)] <= RanksBack[d]
      <4>1. IteratorPrev(cur) \in Cells /\ d \in Cells /\ IteratorPrev(cur) >= d
        BY <2>2, <3>1
      <4>2. /\ RanksBack[IteratorPrev(cur)] = (TableSize - 1) - IteratorPrev(cur)
            /\ RanksBack[d] = (TableSize - 1) - d
        BY <4>1, RanksAre
      <4> DEFINE c == IteratorPrev(cur)
      <4>3. c \in Nat /\ d \in Nat /\ d <= c
        BY <1>1, <4>1
      <4> HIDE DEF c
      <4>4. (TableSize - 1) - c <= (TableSize - 1) - d
        BY <1>1, <4>3
      <4> QED
        BY <4>2, <4>4 DEF c
    <3> QED
      BY <2>1, <2>2, <2>5, <3>1, <3>2
  <2> QED
    BY <2>4, <2>5
<1> QED
  BY <1>2 DEF Backwards, StepsThrough

LEMMA WalksAre ==
    /\ Enumerates(Walk(Forwards), OccupiedCells, Ranks)
    /\ Enumerates(Walk(Backwards), OccupiedCells, RanksBack)
<1>1. OccupiedCells \in SUBSET Cells
  BY DEF OccupiedCells
<1>2. Enumerates(Walk(Forwards), OccupiedCells, Ranks)
  BY <1>1, RanksAre, StepsForwards, WalkIs
<1>3. Enumerates(Walk(Backwards), OccupiedCells, RanksBack)
  BY <1>1, RanksAre, StepsBackwards, WalkIs
<1> QED
  BY <1>2, <1>3

(* The walk back has the cells of the walk in reverse.                     *)
LEMMA WalkReversed ==
    LET n == Cardinality(OccupiedCells)
    IN  Walk(Backwards) = [k \in 1 .. n |-> Walk(Forwards)[(n + 1) - k]]
<1> DEFINE n == Cardinality(OccupiedCells)
           w == Walk(Forwards)
           f == Walk(Backwards)
           g == [k \in 1 .. n |-> w[(n + 1) - k]]
           r == RanksBack
<1>1. /\ n \in Nat /\ w \in [1 .. n -> OccupiedCells] /\ f \in [1 .. n -> OccupiedCells]
      /\ \A p, q \in 1 .. n : p < q => Ranks[w[p]] < Ranks[w[q]]
      /\ \A p, q \in 1 .. n : p < q => r[f[p]] < r[f[q]]
      /\ \A x \in OccupiedCells : \E p \in 1 .. n : w[p] = x
      /\ \A x \in OccupiedCells : \E p \in 1 .. n : f[p] = x
  BY WalksAre DEF Enumerates
<1>2. /\ OccupiedCells \subseteq Cells /\ TableSize \in Nat
      /\ \A c \in Cells : Ranks[c] = c /\ r[c] = (TableSize - 1) - c /\ c \in Int
  BY RanksAre, Sizes DEF OccupiedCells, Cells
<1> HIDE DEF w, f, r, n
<1>3. \A k \in 1 .. n : (n + 1) - k \in 1 .. n /\ (n + 1) - ((n + 1) - k) = k
  BY <1>1
<1>4. \A k \in 1 .. n : g[k] = w[(n + 1) - k] /\ g[k] \in OccupiedCells
  BY <1>1, <1>3
<1>5. g \in [1 .. n -> OccupiedCells]
  BY <1>4
<1> HIDE DEF g
<1>6. ASSUME NEW p \in 1 .. n, NEW q \in 1 .. n, p < q PROVE r[g[p]] < r[g[q]]
  <2> DEFINE a == (n + 1) - p  b == (n + 1) - q
  <2>1. a \in 1 .. n /\ b \in 1 .. n /\ b < a
    BY <1>1, <1>6
  <2> HIDE DEF a, b
  <2>2. Ranks[w[b]] < Ranks[w[a]] /\ w[a] \in Cells /\ w[b] \in Cells
    BY <1>1, <1>2, <2>1
  <2>3. g[p] = w[a] /\ g[q] = w[b]
    BY <1>4 DEF a, b
  <2> DEFINE x == w[a]  y == w[b]
  <2>4. /\ x \in Int /\ y \in Int /\ y < x
        /\ r[g[p]] = (TableSize - 1) - x /\ r[g[q]] = (TableSize - 1) - y
    BY <1>2, <2>2, <2>3
  <2> HIDE DEF x, y
  <2> QED
    BY <1>2, <2>4
<1>7. Within(n, f, g)
  <2>1. ASSUME NEW p \in 1 .. n PROVE \E q \in 1 .. n : f[p] = g[q]
    <3>1. PICK k \in 1 .. n : w[k] = f[p]
      BY <1>1
    <3>2. (n + 1) - k \in 1 .. n /\ g[(n + 1) - k] = w[k]
      BY <1>3, <1>4
    <3> QED
      BY <3>1, <3>2
  <2> QED
    BY <2>1 DEF Within
<1>8. Within(n, g, f)
  BY <1>1, <1>4 DEF Within
<1>9. \A p \in 1 .. n : r[f[p]] \in Int /\ r[g[p]] \in Int
  <2>1. \A c \in Cells : r[c] \in Int
    BY <1>2
  <2>2. \A p \in 1 .. n : f[p] \in Cells /\ g[p] \in Cells
    BY <1>1, <1>2, <1>4
  <2> QED
    BY <2>1, <2>2
<1>10. Increases(n, r, f) /\ Increases(n, r, g)
  BY <1>1, <1>6, <1>9 DEF Increases
<1>11. \A p \in 1 .. n : f[p] = g[p]
  <2>1. n \in Nat
    BY <1>1
  <2> QED
    BY <2>1, <1>7, <1>8, <1>10, OneOrder, SMT
<1>12. f = g
  BY <1>1, <1>5, <1>11
<1> QED
  BY <1>12 DEF f, g, w, n

-----------------------------------------------------------------------------
(* The chats that a walk lists.                                            *)

OneToOne(w, n) == \A p, q \in 1 .. n : w[p] = w[q] => p = q

(* v has the members of w whose contact has a chat, each once.             *)
Selects(v, w, k) ==
    /\ \A p \in 1 .. Len(v) : \E j \in 1 .. k : v[p] = w[j] /\ table[w[j]].chat
    /\ \A j \in 1 .. k : table[w[j]].chat => \E p \in 1 .. Len(v) : v[p] = w[j]
    /\ \A p, q \in 1 .. Len(v) : v[p] = v[q] => p = q

LEMMA SelectsNext ==
    ASSUME NEW X, NEW n \in Nat, NEW w \in [1 .. n -> X],
           OneToOne(w, n),
           NEW k \in 0 .. n - 1, NEW v \in Seq(X), Selects(v, w, k)
    PROVE  Selects(IF table[w[k + 1]].chat THEN Append(v, w[k + 1]) ELSE v, w, k + 1)
<1> DEFINE x == w[k + 1]
           m == Len(v)
           u == Append(v, x)
<1>1. /\ k \in Nat /\ k + 1 \in 1 .. n /\ x \in X /\ m \in Nat
      /\ \A j \in 1 .. k + 1 : j \in 1 .. n /\ (j \in 1 .. k \/ j = k + 1)
      /\ \A j \in 1 .. k : j \in 1 .. k + 1 /\ j # k + 1
  OBVIOUS
<1>2. CASE ~ table[x].chat
  <2>1. ASSUME NEW p \in 1 .. m PROVE \E j \in 1 .. k + 1 : v[p] = w[j] /\ table[w[j]].chat
    BY <1>1 DEF Selects
  <2>2. ASSUME NEW j \in 1 .. k + 1, table[w[j]].chat PROVE \E p \in 1 .. m : v[p] = w[j]
    BY <1>1, <1>2, <2>2 DEF Selects
  <2> QED
    BY <1>2, <2>1, <2>2 DEF Selects
<1>3. CASE table[x].chat
  <2>1. /\ u \in Seq(X) /\ Len(u) = m + 1 /\ u[m + 1] = x /\ \A p \in 1 .. m : u[p] = v[p]
    BY <1>1, AppendProperties
  <2>2. \A p \in 1 .. m + 1 : p \in 1 .. m \/ p = m + 1
    BY <1>1
  <2>3. \A p \in 1 .. m : p \in 1 .. m + 1 /\ p # m + 1
    BY <1>1
  <2> HIDE DEF m, u, x
  <2>4. ASSUME NEW p \in 1 .. m + 1 PROVE \E j \in 1 .. k + 1 : u[p] = w[j] /\ table[w[j]].chat
    <3>1. CASE p = m + 1
      BY <1>1, <1>3, <2>1, <3>1 DEF x
    <3>2. CASE p \in 1 .. m
      BY <1>1, <2>1, <3>2 DEF Selects, m
    <3> QED
      BY <2>2, <3>1, <3>2
  <2>5. ASSUME NEW j \in 1 .. k + 1, table[w[j]].chat PROVE \E p \in 1 .. m + 1 : u[p] = w[j]
    <3>1. CASE j = k + 1
      <4>1. m + 1 \in 1 .. m + 1 /\ u[m + 1] = w[j]
        BY <1>1, <2>1, <3>1 DEF x
      <4> QED
        BY <4>1
    <3>2. CASE j \in 1 .. k
      <4>1. PICK p \in 1 .. m : v[p] = w[j]
        BY <2>5, <3>2 DEF Selects, m
      <4> QED
        BY <2>1, <2>3, <4>1
    <3> QED
      BY <1>1, <3>1, <3>2
  <2>6. \A p \in 1 .. m : v[p] # x
    <3>1. ASSUME NEW p \in 1 .. m, v[p] = x PROVE FALSE
      <4>1. PICK j \in 1 .. k : v[p] = w[j]
        BY DEF Selects, m
      <4>2. w[j] = w[k + 1] /\ j \in 1 .. n /\ j # k + 1
        BY <1>1, <3>1, <4>1 DEF x
      <4> QED
        BY <1>1, <4>2 DEF OneToOne
    <3> QED
      BY <3>1
  <2>7. ASSUME NEW p \in 1 .. m + 1, NEW q \in 1 .. m + 1, u[p] = u[q] PROVE p = q
    <3>1. CASE p = m + 1
      BY <2>1, <2>2, <2>6, <2>7, <3>1
    <3>2. CASE q = m + 1
      BY <2>1, <2>2, <2>6, <2>7, <3>2
    <3>3. CASE p \in 1 .. m /\ q \in 1 .. m
      BY <2>1, <2>7, <3>3 DEF Selects, m
    <3> QED
      BY <2>2, <3>1, <3>2, <3>3
  <2>8. Selects(u, w, k + 1)
    BY <2>1, <2>4, <2>5, <2>7 DEF Selects
  <2> QED
    BY <1>3, <2>8 DEF u, x
<1> QED
  BY <1>2, <1>3

LEMMA HeadCellsAre ==
    ASSUME NEW X, NEW n \in Nat, NEW w \in [1 .. n -> X], OneToOne(w, n)
    PROVE  HeadCells(w) \in Seq(X) /\ Selects(HeadCells(w), w, n)
<1> DEFINE V == Seq(X)
           Body(g) == [k \in 0 .. n |-> IF k = 0 THEN <<>>
                                        ELSE IF table[w[k]].chat THEN Append(g[k - 1], w[k]) ELSE g[k - 1]]
           first == CHOOSE g : g = Body(g)
           go == [k \in 0 .. n |-> [s \in V |-> IF k \in 1 .. n /\ table[w[k]].chat THEN Append(s, w[k]) ELSE s]]
<1>1. w \in Seq(X) /\ Len(w) = n
  BY FunctionIsSeq
<1>2. go \in [0 .. n -> [V -> V]]
  <2>1. \A k \in 1 .. n, s \in V : Append(s, w[k]) \in V
    BY AppendProperties
  <2> QED
    BY <2>1
<1>3. PICK h \in [0 .. n -> V] : h[0] = << >> /\ \A k \in 0 + 1 .. n : h[k] = go[k][h[k - 1]]
  <2> DEFINE v == << >>
  <2>1. \E h : Iterates(h, 0, n, V, v, go)
    <3>1. v \in V /\ 0 \in Nat /\ 0 <= n
      OBVIOUS
    <3> HIDE DEF go, V, v
    <3> QED BY <1>2, <3>1, RecursionExists
  <2> QED
    BY <2>1 DEF Iterates
<1>4. ASSUME NEW k \in 0 .. n, k # 0
      PROVE  /\ k - 1 \in 0 .. n /\ h[k - 1] \in V
             /\ h[k] = IF table[w[k]].chat THEN Append(h[k - 1], w[k]) ELSE h[k - 1]
  <2>1. k - 1 \in 0 .. n /\ k \in 0 + 1 .. n /\ k \in 1 .. n
    BY <1>4
  <2> QED
    BY <1>3, <2>1
<1>5. h = Body(h)
  <2>1. \A k \in 0 .. n : h[k] = IF k = 0 THEN <<>>
                                 ELSE IF table[w[k]].chat THEN Append(h[k - 1], w[k]) ELSE h[k - 1]
    BY <1>3, <1>4
  <2>2. h = [k \in 0 .. n |-> h[k]]
    OBVIOUS
  <2> QED
    BY <2>1, <2>2
<1>6. first = Body(first)
  BY <1>5
<1>7. HeadCells(w) = first[n]
  BY <1>1 DEF HeadCells
<1> HIDE DEF first
<1>8. \A k \in 0 .. n : first[k] = IF k = 0 THEN <<>>
                                   ELSE IF table[w[k]].chat THEN Append(first[k - 1], w[k]) ELSE first[k - 1]
  BY <1>6
<1> DEFINE S == {k \in 0 .. n : first[k] \in V /\ Selects(first[k], w, k)}
<1>9. 0 \in S
  <2>1. first[0] = << >> /\ 0 \in 0 .. n /\ Len(<< >>) = 0 /\ << >> \in V
    BY <1>8
  <2>2. Selects(<< >>, w, 0)
    BY DEF Selects
  <2> QED
    BY <2>1, <2>2
<1>10. ASSUME NEW k \in 0 .. n - 1, k \in S PROVE k + 1 \in S
  <2>1. k + 1 \in 0 .. n /\ k + 1 # 0 /\ (k + 1) - 1 = k /\ k + 1 \in 1 .. n
    OBVIOUS
  <2>2. first[k + 1] = IF table[w[k + 1]].chat THEN Append(first[k], w[k + 1]) ELSE first[k]
    BY <1>8, <2>1
  <2>3. first[k] \in V /\ Selects(first[k], w, k)
    BY <1>10
  <2>4. first[k + 1] \in V
    BY <2>1, <2>2, <2>3, AppendProperties
  <2>5. Selects(first[k + 1], w, k + 1)
    BY <2>2, <2>3, SelectsNext
  <2> QED
    BY <2>1, <2>4, <2>5
<1>11. n \in S
  <2>1. 0 .. n \subseteq S
    <3> HIDE DEF S
    <3> QED BY <1>9, <1>10, IntervalInduction
  <2> QED
    BY <2>1
<1> QED
  BY <1>7, <1>11

-----------------------------------------------------------------------------
(* Once a boot has passed a slot, a chat of it has a contact: a chat that  *)
(* has none is removed by then, and a contact's removal takes its chat     *)
(* first.                                                                  *)
ChatsInv == ~Failing => \A s \in chats \cap ChatsRead : durable[s] \in Contacts

(* A step that adds neither a chat nor a slot that was passed.             *)
LEMMA ChatsStay ==
    ASSUME ChatsInv, ~Failing, UNCHANGED durable, chats' \cap ChatsRead' \subseteq chats \cap ChatsRead
    PROVE  ChatsInv'
  BY DEF ChatsInv

(* A call that has written contact slot s.                                 *)
LEMMA ContactWritten ==
    ASSUME TableInv, ChatsInv, op.kind = "idle", Running', TableInv', UNCHANGED chats,
           NEW s \in Slots, NEW p \in Phones, NEW n \in Names, Written(Holding(s, p, n))
    PROVE  ChatsInv'
<1>1. ~Failing /\ durable' = Holding(s, p, n) /\ [phone |-> p, name |-> n] \in Contacts
  BY DEF Written, Contacts
<1>2. TypeOK /\ CardInv /\ op \in Ops /\ op' \in Ops
  BY InvParts DEF TableInv, TypeOK
<1>3. ChatsRead = Slots /\ ChatsRead' = Slots /\ contacts = durable /\ durable \in [Slots -> Contacts \cup {Free, Lost}]
  <2>1. ChatsRead = Slots /\ contacts = durable /\ durable \in [Slots -> Contacts \cup {Free, Lost}]
    BY <1>1, <1>2, ReadFacts, NotFailing, CardFacts
  <2>2. ChatsRead' = Slots
    BY <1>2, ReadNext DEF Running
  <2> QED
    BY <2>1, <2>2
<1>4. ASSUME NEW t \in chats' \cap ChatsRead' PROVE durable'[t] \in Contacts
  <2>1. t \in Slots /\ durable[t] \in Contacts
    BY <1>1, <1>3 DEF ChatsInv
  <2> QED
    BY <1>1, <1>3, <2>1 DEF Holding
<1> QED
  BY <1>4 DEF ChatsInv

LEMMA ReadNextSlots ==
    ASSUME op' \in Ops PROVE ChatsRead' \subseteq Slots
<1>1. CASE op' = Off \/ op' = Idle
  BY <1>1, OpFacts, ReadNext
<1>2. ASSUME NEW k \in 0 .. NumSlots, op' = ReadingContacts(k) PROVE ChatsRead' \subseteq Slots
  BY <1>2, OpFacts, ReadNext
<1>3. ASSUME NEW k \in 0 .. NumSlots, op' = ReadingChats(k) PROVE ChatsRead' \subseteq Slots
  <2>1. ChatsRead' = 0 .. k - 1
    BY <1>3, OpFacts, ReadNext
  <2> QED
    BY <2>1, Sizes DEF Slots
<1>4. ASSUME NEW p \in Phones, NEW c \in Cells, op' = Messaging(p, c) \/ op' = Removing(p, c)
      PROVE  ChatsRead' \subseteq Slots
  BY <1>4, OpFacts, ReadNext
<1> QED
  BY <1>1, <1>2, <1>3, <1>4 DEF Ops

LEMMA FoundSlot ==
    ASSUME TypeOK, NEW p \in Phones, NEW i \in Attempts, NEW u, Found(p, i, u)
    PROVE  EntryOf(p, i).slot \in Slots
  BY ProbeInTable, CellFacts DEF Found, Matches, EntryOf, OccupiedCells

LEMMA CallKeepsChats ==
    ASSUME TableInv, ChatsInv, TableInv', NEW p \in Phones, Calls(p), ~Failing'
    PROVE  ChatsInv'
<1>0. /\ TypeOK /\ CardInv /\ OpInv /\ op \in Ops /\ op' \in Ops /\ freeSlots \subseteq Slots
      /\ \A e \in OccupiedEntries : e.slot \in Slots
  BY InvParts, EntryFacts DEF TableInv, TypeOK
<1>1. CASE MessageToContact(p)
  <2>1. op = Idle /\ ~Failing /\ UNCHANGED <<durable, chats>>
    BY <1>1 DEF MessageToContact, card
  <2>2. ChatsRead = Slots
    BY <1>0, <2>1, OpFacts, ReadFacts
  <2>3. ChatsRead' \subseteq Slots
    BY <1>0, ReadNextSlots
  <2> QED
    BY <2>1, <2>2, <2>3, ChatsStay
<1>2. CASE MessageToNewContact(p)
  <2>1. PICK i \in Attempts, s \in freeSlots :
           Written(Holding(s, p, Unnamed)) /\ op' = Messaging(p, Probe(p, i))
    BY <1>2 DEF MessageToNewContact
  <2>2. op = Idle /\ UNCHANGED chats /\ op'.kind = "message"
    BY <1>2, <2>1, ProbeInTable, OpFacts DEF MessageToNewContact
  <2>3. op.kind = "idle" /\ Running'
    BY <2>2, OpFacts DEF Running
  <2> QED
    BY <1>0, <2>1, <2>2, <2>3, ContactWritten, ContactAssumption
<1>3. CASE RemoveChat(p) \/ BeginRemove(p)
  <2>1. op = Idle /\ ~Failing /\ UNCHANGED durable /\ chats' \subseteq chats
    BY <1>3 DEF RemoveChat, BeginRemove
  <2>2. ChatsRead = Slots
    BY <1>0, <2>1, OpFacts, ReadFacts
  <2>3. ChatsRead' \subseteq Slots
    BY <1>0, ReadNextSlots
  <2> QED
    BY <2>1, <2>2, <2>3, ChatsStay
<1>4. ASSUME NEW n \in Names, InsertContact(p, n) PROVE ChatsInv'
  <2>1. PICK s \in freeSlots : Written(Holding(s, p, n))
    BY <1>4 DEF InsertContact
  <2>2. op = Idle /\ op' = Idle /\ UNCHANGED chats
    BY <1>4 DEF InsertContact
  <2>3. op.kind = "idle" /\ Running'
    BY <2>2, OpFacts DEF Running
  <2> QED
    BY <1>0, <2>1, <2>2, <2>3, ContactWritten
<1>5. ASSUME NEW n \in Names, UpdateContact(p, n) PROVE ChatsInv'
  <2>1. PICK u \in BOOLEAN, i \in Attempts : Found(p, i, u) /\ Written(Holding(EntryOf(p, i).slot, p, n))
    BY <1>5, GarbageFacts DEF UpdateContact
  <2>2. op = Idle /\ op' = Idle /\ UNCHANGED chats /\ ~Failing
    BY <1>5, <2>1 DEF UpdateContact, Written
  <2>3. op.kind = "idle" /\ Running' /\ EntryOf(p, i).slot \in Slots
    BY <1>0, <2>1, <2>2, OpFacts, FoundSlot DEF Running
  <2> QED
    BY <2>1, <2>2, <2>3, ContactWritten
<1>6. ASSUME NEW n \in Names, NEW q \in Phones, UpdatePhone(p, q, n) PROVE ChatsInv'
  <2>1. PICK u \in BOOLEAN, i \in Attempts : Found(p, i, u) /\ Written(Holding(EntryOf(p, i).slot, q, n))
    BY <1>6, GarbageFacts DEF UpdatePhone
  <2>2. op = Idle /\ op' = Idle /\ UNCHANGED chats /\ ~Failing
    BY <1>6, <2>1 DEF UpdatePhone, Written
  <2>3. op.kind = "idle" /\ Running' /\ EntryOf(p, i).slot \in Slots
    BY <1>0, <2>1, <2>2, OpFacts, FoundSlot DEF Running
  <2> QED
    BY <2>1, <2>2, <2>3, ContactWritten
<1>7. ASSUME MessageToNewContactFails(p) \/ RemoveChatFails(p) \/ BeginRemoveFails(p) PROVE FALSE
  BY <1>7 DEF MessageToNewContactFails, RemoveChatFails, BeginRemoveFails, WriteFails, ChatWriteFails, Failing
<1>8. ASSUME NEW n \in Names, InsertContactFails(p, n) \/ UpdateContactFails(p, n) PROVE FALSE
  BY <1>8 DEF InsertContactFails, UpdateContactFails, WriteFails, Failing
<1>9. ASSUME NEW n \in Names, NEW q \in Phones, UpdatePhoneFails(p, q, n) PROVE FALSE
  BY <1>9 DEF UpdatePhoneFails, WriteFails, Failing
<1> QED
  BY <1>1, <1>2, <1>3, <1>4, <1>5, <1>6, <1>7, <1>8, <1>9 DEF Calls

LEMMA StepKeepsChats ==
    ASSUME TableInv, ChatsInv, TableInv', [Next]_vars
    PROVE  ChatsInv'
<1> SUFFICES ASSUME ~Failing' PROVE ChatsInv'
  BY DEF ChatsInv
<1>0. /\ TypeOK /\ CardInv /\ EntryInv /\ ChatInv /\ OpInv /\ op \in Ops /\ op' \in Ops
      /\ 0 .. 0 - 1 = {} /\ NumSlots \in Nat /\ Slots = 0 .. NumSlots - 1
  BY InvParts, Sizes DEF TableInv, TypeOK, Slots
<1>1. ChatsRead' \subseteq Slots
  BY <1>0, ReadNextSlots
<1>2. CASE UNCHANGED vars
  BY <1>2 DEF vars, ram, card, ChatsInv, ChatsRead, Failing
<1>3. ASSUME NEW p \in Phones, Calls(p) PROVE ChatsInv'
  BY <1>3, CallKeepsChats
<1>4. CASE WriteMessage
  <2>1. PICK c \in OccupiedCells : chats' = chats \cup {table[c].slot}
    BY <1>0, <1>4 DEF WriteMessage, OpInv
  <2>2. op.kind = "message" /\ ~Failing /\ UNCHANGED durable
    BY <1>4 DEF WriteMessage
  <2>3. ChatsRead = Slots /\ durable[table[c].slot] \in Contacts
    BY <1>0, <2>2, ReadFacts DEF EntryInv
  <2> QED
    BY <1>1, <2>1, <2>2, <2>3 DEF ChatsInv
<1>5. CASE NoMessageSector
  <2>1. op.kind = "message" /\ UNCHANGED <<durable, chats, doubt>>
    BY <1>5 DEF NoMessageSector, card
  <2>2. ChatsRead = Slots /\ ~Failing
    BY <1>0, <2>1, ReadFacts DEF Failing
  <2> QED
    BY <1>1, <2>1, <2>2, ChatsStay
<1>6. CASE RemoveContact
  <2>1. PICK c \in OccupiedCells : /\ c = op.cell /\ ~Failing /\ UNCHANGED chats
                                   /\ durable' = [contacts EXCEPT ![table[c].slot] = Free]
    BY <1>0, <1>6 DEF RemoveContact, Written, OpInv
  <2>2. op.kind = "remove" /\ ChatsRead = Slots /\ contacts = durable
    BY <1>0, <1>6, <2>1, ReadFacts, NotFailing DEF RemoveContact
  <2>3. table[c].slot \notin chats
    <3>1. table[c].slot \in Slots /\ ~ table[c].chat
      BY <1>0, <2>1, <2>2, CellFacts DEF OpInv
    <3> QED
      BY <1>0, <2>1, <2>2, <3>1 DEF ChatInv
  <2>4. durable \in [Slots -> Contacts \cup {Free, Lost}]
    BY <1>0, CardFacts
  <2>5. ASSUME NEW t \in chats' \cap ChatsRead' PROVE durable'[t] \in Contacts
    <3>1. t \in Slots /\ t \in chats /\ t # table[c].slot /\ durable[t] \in Contacts
      BY <1>1, <2>1, <2>2, <2>3 DEF ChatsInv
    <3> QED
      BY <2>1, <2>2, <2>4, <3>1
  <2> QED
    BY <2>5 DEF ChatsInv
<1>7. ASSUME WriteMessageFails \/ RemoveContactFails PROVE FALSE
  BY <1>7 DEF WriteMessageFails, RemoveContactFails, WriteFails, ChatWriteFails, Failing
<1>8. ASSUME op' = Off PROVE ChatsInv'
  <2>1. op'.kind = "off"
    BY <1>8, OpFacts
  <2>2. ChatsRead' = {}
    BY <1>0, <2>1, ReadNext
  <2> QED
    BY <2>2 DEF ChatsInv
<1>9. CASE PowerCut \/ \E s \in Slots : Decay(s)
  BY <1>8, <1>9 DEF PowerCut, Decay
<1>10. ASSUME op'.kind = "contacts" PROVE ChatsInv'
  <2>1. ChatsRead' = {}
    BY <1>0, <1>10, ReadNext
  <2> QED
    BY <2>1 DEF ChatsInv
<1>11. CASE PowerOn \/ FreeSlotRead \/ ContactRead
  <2>1. op' = ReadingContacts(0) \/ op' = ReadingContacts(op.at + 1)
    BY <1>11 DEF PowerOn, FreeSlotRead, ContactRead
  <2>2. \A k : ReadingContacts(k).kind = "contacts"
    BY DEF ReadingContacts
  <2> QED
    BY <1>10, <2>1, <2>2
<1>12. CASE ContactsRead
  <2>1. op'.kind = "chats" /\ op'.at = 0
    BY <1>12 DEF ContactsRead, ReadingChats
  <2>2. ChatsRead' = {}
    BY <1>0, <2>1, ReadNext
  <2> QED
    BY <2>2 DEF ChatsInv
<1>13. ASSUME op.kind = "chats", op.at < NumSlots, op' = ReadingChats(op.at + 1),
              UNCHANGED <<durable, doubt>>, chats' \subseteq chats,
              op.at \in chats' => durable[op.at] \in Contacts
       PROVE  ChatsInv'
  <2>1. op.at \in Nat /\ op'.kind = "chats" /\ op'.at = op.at + 1
    BY <1>0, <1>13, OpKinds DEF ReadingChats
  <2>2. ChatsRead = 0 .. op.at - 1 /\ ChatsRead' = 0 .. (op.at + 1) - 1
    BY <1>0, <1>13, <2>1, ReadFacts, ReadNext
  <2>3. \A t \in ChatsRead' : t \in ChatsRead \/ t = op.at
    BY <2>1, <2>2
  <2>4. ~Failing
    BY <1>13 DEF Failing
  <2> QED
    BY <1>13, <2>3, <2>4 DEF ChatsInv
<1>14. CASE ChatRead
  <2>1. /\ op.kind = "chats" /\ op.at < NumSlots /\ op' = ReadingChats(op.at + 1)
        /\ UNCHANGED <<contacts, durable, chats, doubt>> /\ contacts[op.at] \in Contacts
    BY <1>14 DEF ChatRead, HasEntry, card
  <2>2. contacts = durable
    BY <1>0, <2>1, NotFailing DEF Failing
  <2> QED
    BY <1>13, <2>1, <2>2
<1>15. CASE NoChatRead
  BY <1>13, <1>15 DEF NoChatRead
<1>16. CASE Mounted
  <2>1. op = ReadingChats(NumSlots) /\ UNCHANGED <<durable, chats, doubt>>
    BY <1>16 DEF Mounted, card
  <2>2. op.kind = "chats" /\ op.at = NumSlots
    BY <2>1 DEF ReadingChats
  <2>3. ChatsRead = Slots /\ ~Failing
    BY <1>0, <2>1, <2>2, ReadFacts DEF Failing
  <2> QED
    BY <1>1, <2>1, <2>3, ChatsStay
<1> QED
  BY <1>2, <1>3, <1>4, <1>5, <1>6, <1>7, <1>9, <1>11, <1>12, <1>14, <1>15, <1>16 DEF Next

LEMMA ChatsInvariant == Spec => []ChatsInv
<1>1. Init => ChatsInv
  BY DEF Init, ChatsInv
<1>2. TableInv /\ TableInv' /\ ChatsInv /\ [Next]_vars => ChatsInv'
  BY StepKeepsChats
<1> QED
  BY <1>1, <1>2, TableInvariant, PTL DEF Spec

-----------------------------------------------------------------------------
(* The listings.                                                           *)

(* A page with room for the whole table has the whole list.                *)
LEMMA WholeList ==
    ASSUME NEW X, NEW s \in Seq(X), Len(s) <= TableSize
    PROVE  ListedFrom(s, 0, TableSize) = s
<1>1. Len(s) \in Nat /\ TableSize \in Nat
  BY Sizes, LenProperties
<1>2. ListedFrom(s, 0, TableSize) = SubSeq(s, 1, Len(s))
  BY <1>1 DEF ListedFrom
<1> QED
  BY <1>2, <1>1, SubSeqFull

(* The chats that the walk lists, each once.                               *)
ChatsMatch ==
    /\ chats \subseteq Slots
    /\ \A c \in OccupiedCells : table[c].chat <=> table[c].slot \in chats
    /\ \A c, d \in OccupiedCells : table[c].slot = table[d].slot => c = d
    /\ \A s \in chats : \E c \in OccupiedCells : table[c].slot = s

VisitsAll(w, n) ==
    w \in [1 .. n -> OccupiedCells] /\ \A c \in OccupiedCells : \E p \in 1 .. n : w[p] = c

LEMMA HeadsAre ==
    ASSUME NEW n \in Nat, NEW w, VisitsAll(w, n),
           NEW v \in Seq(OccupiedCells), Selects(v, w, n), ChatsMatch
    PROVE  /\ Len(v) = Cardinality(chats) /\ Len(v) <= TableSize
           /\ {table[v[p]].slot : p \in 1 .. Len(v)} = chats
<1>0. /\ chats \subseteq Slots
      /\ \A c \in OccupiedCells : table[c].chat <=> table[c].slot \in chats
      /\ \A c, d \in OccupiedCells : table[c].slot = table[d].slot => c = d
      /\ \A s \in chats : \E c \in OccupiedCells : table[c].slot = s
  BY DEF ChatsMatch
<1> DEFINE m == Len(v)
           f == [p \in 1 .. m |-> table[v[p]].slot]
<1>1. m \in Nat /\ \A p \in 1 .. m : v[p] \in OccupiedCells
  BY LenProperties, ElementOfSeq
<1>2. \A p \in 1 .. m : table[v[p]].slot \in chats
  BY <1>0, <1>1 DEF Selects
<1>3. ASSUME NEW p \in 1 .. m, NEW q \in 1 .. m, f[p] = f[q] PROVE p = q
  <2>1. v[p] = v[q]
    BY <1>0, <1>1, <1>3
  <2> QED
    BY <2>1 DEF Selects
<1>4. ASSUME NEW s \in chats PROVE \E p \in 1 .. m : f[p] = s
  <2>1. PICK c \in OccupiedCells : table[c].slot = s /\ table[c].chat
    BY <1>0
  <2>2. PICK j \in 1 .. n : w[j] = c
    BY <2>1 DEF VisitsAll
  <2>3. PICK p \in 1 .. m : v[p] = c
    BY <2>1, <2>2 DEF Selects
  <2> QED
    BY <2>1, <2>3
<1>5. f \in [1 .. m -> chats]
  BY <1>2
<1>6. IsFiniteSet(1 .. m) /\ Cardinality(1 .. m) = m
  <2>1. m \in Nat
    BY <1>1
  <2> HIDE DEF m, f
  <2> QED BY <2>1, FS_Interval
<1>7. Cardinality(chats) = m
  <2> HIDE DEF f
  <2> QED BY <1>3, <1>4, <1>5, <1>6, SameSize
<1>8. Cardinality(chats) <= TableSize
  <2>1. IsFiniteSet(Slots) /\ Cardinality(Slots) = NumSlots
    BY Sizes, FS_Interval DEF Slots
  <2>2. Cardinality(chats) <= Cardinality(Slots)
    BY <1>0, <2>1, FS_Subset
  <2> QED
    BY <1>1, <1>7, <2>1, <2>2, Sizes
<1>9. {table[v[p]].slot : p \in 1 .. m} = chats
  <2>1. \A s \in chats : \E p \in 1 .. m : table[v[p]].slot = s
    BY <1>4
  <2> HIDE DEF m, f
  <2> QED BY <1>2, <2>1
<1> QED
  BY <1>1, <1>7, <1>8, <1>9

(* Theorem.  Walking the table lists each contact once, walking it back    *)
(* lists them in reverse, and the chats listed are those on the card, once *)
(* (hash_get_contact_list, hash_get_message_list).                         *)
THEOREM ListsAreComplete == Spec => []ListingsComplete
<1>1. ASSUME TableInv, ChatsInv PROVE ListingsComplete
  <2>0. /\ TypeOK /\ CardInv /\ EntryInv /\ CountInv /\ ChatInv /\ op \in Ops
    BY <1>1, InvParts
  <2> SUFFICES ASSUME Running, ~Failing PROVE ListingsComplete
    BY DEF ListingsComplete
  <2>1. /\ SlotsRead = Slots /\ ChatsRead = Slots /\ doubt = {} /\ contacts = durable
        /\ chats \subseteq Slots
    BY <2>0, ReadFacts, NotFailing DEF TypeOK
  <2> DEFINE O == OccupiedCells
             n == Cardinality(O)
             w == Walk(Forwards)
             v == HeadCells(w)
  <2>2. /\ w \in [1 .. n -> O] /\ n \in 0 .. TableSize /\ n \in Nat
        /\ \A p, q \in 1 .. n : p < q => Ranks[w[p]] < Ranks[w[q]]
        /\ \A c \in O : \E p \in 1 .. n : w[p] = c
    BY WalksAre, Sizes DEF Enumerates
  <2>3. /\ \A c \in O : table[c].slot \in Slots /\ contacts[table[c].slot] \in Contacts
        /\ \A s \in Slots : contacts[s] \in Contacts => \E c \in O : table[c].slot = s
        /\ \A c \in O : table[c].chat <=> table[c].slot \in chats
        /\ \A c, d \in O : table[c].slot = table[d].slot => c = d
    BY <2>0, <2>1, CellFacts DEF EntryInv, ChatInv
  <2>4. \A s \in chats : \E c \in O : table[c].slot = s
    BY <1>1, <2>1, <2>3 DEF ChatsInv
  <2>5. OneToOne(w, n)
    <3>1. \A p \in 1 .. n : Ranks[w[p]] \in Int
      <4>1. \A c \in O : c \in Cells
        BY DEF OccupiedCells
      <4>2. \A c \in Cells : Ranks[c] \in Int
        BY RanksAre DEF Cells
      <4> QED
        BY <2>2, <4>1, <4>2
    <3>2. ASSUME NEW p \in 1 .. n, NEW q \in 1 .. n, w[p] = w[q] PROVE p = q
      <4>1. ~ (p < q) /\ ~ (q < p)
        BY <2>2, <3>1, <3>2
      <4> QED
        BY <2>2, <4>1
    <3> QED
      BY <3>2 DEF OneToOne
  <2>6. w \in Seq(O) /\ Len(w) = n
    BY <2>2, FunctionIsSeq
  <2>7. v \in Seq(O) /\ Selects(v, w, n)
    BY <2>2, <2>5, HeadCellsAre
  <2>8. /\ Len(v) = Cardinality(chats) /\ Len(v) <= TableSize
        /\ {table[v[p]].slot : p \in 1 .. Len(v)} = chats
    <3>1. ChatsMatch
      BY <2>1, <2>3, <2>4 DEF ChatsMatch
    <3>2. VisitsAll(w, n)
      BY <2>2 DEF VisitsAll
    <3>3. n \in Nat /\ v \in Seq(OccupiedCells) /\ Selects(v, w, n)
      BY <2>2, <2>7
    <3> HIDE DEF w, n, v
    <3> QED BY <3>1, <3>2, <3>3, HeadsAre, SMT
  <2>9. ContactList(0, TableSize) = w /\ MessageList(0, TableSize) = v
    <3>1. Len(w) <= TableSize
      BY <2>2, <2>6, Sizes
    <3>2. ListedFrom(w, 0, TableSize) = w
      BY <2>6, <3>1, WholeList
    <3>3. ListedFrom(v, 0, TableSize) = v
      BY <2>7, <2>8, WholeList
    <3> QED
      BY <3>2, <3>3 DEF ContactList, MessageList
  <2>10. Walk(Backwards) = [k \in 1 .. n |-> w[Len(w) + 1 - k]]
    <3>1. Walk(Backwards) = [k \in 1 .. n |-> w[(n + 1) - k]]
      BY WalkReversed
    <3>2. \A k \in 1 .. n : Len(w) + 1 - k = (n + 1) - k
      BY <2>2, <2>6
    <3> QED
      BY <3>1, <3>2
  <2>11. {table[w[p]].slot : p \in 1 .. n} = {s \in Slots : contacts[s] \in Contacts}
    <3>1. ASSUME NEW s \in Slots, contacts[s] \in Contacts PROVE \E p \in 1 .. n : table[w[p]].slot = s
      BY <2>2, <2>3, <3>1
    <3>2. \A p \in 1 .. n : table[w[p]].slot \in Slots /\ contacts[table[w[p]].slot] \in Contacts
      BY <2>2, <2>3
    <3> HIDE DEF w, n, O
    <3> QED BY <3>1, <3>2
  <2>12. DOMAIN w = 1 .. n /\ DOMAIN v = 1 .. Len(v) /\ numElems = n
    BY <2>0, <2>2, <2>7, LenProperties DEF CountInv
  <2> DEFINE all == ContactList(0, TableSize)
             heads == MessageList(0, TableSize)
  <2>13. /\ Len(all) = numElems
         /\ {table[all[k]].slot : k \in DOMAIN all} = {s \in Slots : contacts[s] \in Contacts}
    <3> HIDE DEF w, v, n, O
    <3> QED BY <2>6, <2>9, <2>11, <2>12
  <2>14. Walk(Backwards) = [k \in DOMAIN all |-> all[Len(all) + 1 - k]]
    <3> HIDE DEF w, v, n, O
    <3> QED BY <2>9, <2>10, <2>12
  <2>15. Len(heads) = Cardinality(chats) /\ {table[heads[k]].slot : k \in DOMAIN heads} = chats
    <3> HIDE DEF w, v, n, O
    <3> QED BY <2>8, <2>9, <2>12
  <2> HIDE DEF all, heads, w, v, n, O
  <2> QED
    BY <2>13, <2>14, <2>15 DEF ListingsComplete, all, heads
<1> QED
  BY <1>1, TableInvariant, ChatsInvariant, PTL
=============================================================================
