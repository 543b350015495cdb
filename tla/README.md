# Verification of the phone database (SD-DB)

TLA+ models, TLC runs and TLAPS proofs kept beside the embedded contact /
message / call-history database in `src/source/app`. Every definition is
translated from the C source; `PROJECT.json` maps each one to its lines.

## 1. Inventory

The program is a database on raw 512-byte SD sectors for an STM32H7 phone.
One task (`dbTask`) owns it; clients post requests on a queue. The card holds
a superheader, a three-sector rollback journal, an eight-sector usage bitmap
and four data regions; everything else is rebuilt in RAM at boot.

| component | state | operations | hard behaviour | correct when |
|---|---|---|---|---|
| rollback journal (`journal.c`) | journal header, content copy, bitmap copy (card); header (RAM) | `journal_add`, `journal_free`, `journal_init`, `journal_rollback` | power cut at, and torn, any sector write; a cut during rollback; failing writes | a transaction is indivisible on the recovered card; the card always boots |
| usage bitmap (`usage_bitmap.c`) | one bit per data sector, in RAM and on the card | check, update, scans for the next/previous/n-th set bit | word and CRC-word boundaries; RAM and card apart after a failed write | RAM equals card; the scans find exactly the set bits |
| sector storage (`storage.c`, `crc.c`) | - | read (CRC checked), write (CRC stamped) | torn sectors | a torn sector is never taken for a valid one |
| superheader (`superheader.c`) | magic, version, layout | check at boot, write at format | interrupted format | an unformatted card is formatted, a formatted one is not |
| free lists (`free_list_stack.c`) | stack of free contact slots, of free message sectors | allocate, free, rebuild at boot | leaks and double frees after failures, exhaustion | free and used are disjoint and complete |
| contact store (`contact.c`) | six contacts per sector | write, read, remove | last contact of a sector clears the usage bit | a slot holds the contact that was stored in it |
| message store (`message.c`) | chats: doubly linked lists of sectors, three messages per sector | append, new sector, link, page, remove, orphan removal | an append to a full sector and a chat removal take several transactions | a committed message is found by its chat after any reboot |
| hash table (`hash_table.c`) | open addressing over phone numbers, tombstones, rehash | insert, find, update, remove, rebuild at boot, iterate | probe chains across tombstones; duplicates; table full | lookup finds exactly the live contacts |
| history rings (`message_history.c`, `call_history.c`, `ring_buffer.c`) | two rings of sectors with sequence numbers; head, occupancy (RAM) | add, page from the newest, rebuild by binary search | boot search with stale, full, empty sectors; wrap of the ring; reboot between two transactions of one add | the newest entries are kept, in order, across reboots |
| name index (`sorted_array.c`) | entries sorted by name | insert, remove, page, heapsort at boot | ties, duplicate names | sorted permutation of the contacts |
| chat order (`chat_order.c`) | hash indices by last message | touch, remove, replace, heapsort at boot | agreement with the hash table | every chat exactly once, newest first |
| database (`database.c`) | mounted state | mount, format, contact/message/call operations | several structures updated per call, partial failure | RAM agrees with the card |
| database task (`db_task.c`, `platform_os_host.c`) | request queue (5), reply queues, running | post, handle, reply, stop | clients and task block on bounded queues; stop and restart | every request is answered once; no deadlock |
| phone menus (`phone_ui.c`) | a stack of pages: loaded rows, cursor, window, stale | draw, keys, requests through the task | pages kept while the data change; windows of rows over a list that shrinks; failed requests | a key acts on a drawn row; a page shows what is stored |
| command prompt (`db_cli.c`, `card_image.c`) | mounted, last timestamp; the image and its countdown of writes | commands, reboot, `powercut`, format, restart | requests of which a part is written; timestamps across processes | a reboot changes nothing that was shown |
| drivers, display, CRC hardware, firmware demo, tools | - | - | - | not modelled: I/O, rendering, or clients of the API |

Calls go down (`db_task` -> `database` -> `hash_table`, `contact`, `message`,
history -> `journal`, `usage_bitmap` -> `storage`); nothing calls back. The
only concurrency is between the client tasks and `dbTask`; the only failures
are power cuts and failing sector reads and writes.

The full list, with the parts that are not modelled and why, is in
`PROJECT.json` under "components"; "hazards" lists what is hard to test in this
code, at its line, with the properties that cover it.

## 2. Modules

| module | models |
|---|---|
| `Journal` | rollback journal, bitmap sectors, sector writes, their part of a mount |
| `AtomicCard` | what the journal promises: indivisible transactions |
| `JournalProofs` | theorems about `Journal` |
| `RingHistory` | the two history rings, boot search, paging |
| `RingHistoryProofs` | theorems about `RingHistory` |
| `ChatStore` | message sectors, chats, free lists, reconstruction of chats |
| `ChatStoreProofs` | theorems about `ChatStore`: the invariant; what is listed |
| `RecursionLemmas` | lemmas about recursive functions and sequences, for these proofs |
| `HashTable` | probing, tombstones, collisions, contact slots, reconstruction, iterators, failing writes |
| `HashTableProofs` | theorems about `HashTable` |
| `PhoneBook` | what the hash table promises: a map from phones to contacts |
| `SortedArray`, `Heapsort`, `ChatOrder` | operators: the name index, the sort of a boot, the chat order |
| `NameIndex` | the name index by itself |
| `Database` | `HashTable` with the name index and the chat order, call by call |
| `DatabaseProofs` | theorems about `NameIndex`, with the binary search and the heapsort, and about `Database` |
| `Scan` | operator: the order in which a loop visits numbers |
| `UsageBitmap` | operators: words, checksum words, scans, what a boot frees |
| `Mount` | superheader, format, mount, both allocators |
| `MountProofs` | theorems about `Mount` and the scans of `UsageBitmap` |
| `DbTask` | database task, queues, clients, stop and restart |
| `ClientProofs` | theorems about `DbTask`, and about `Cli` and the menus |
| `PhoneDatabase` | the database as the demo sees it: one request, one step |
| `PhoneUi` | the phone menus over `PhoneDatabase` |
| `Cli` | the command prompt over `PhoneUi` |
| `MC*` | instances for TLC |

Two abstract specifications are refined: `Journal` implements `AtomicCard`
(`AtomicTransactions`, checked and proved), `HashTable` implements `PhoneBook`
(`IsPhoneBook`, checked and proved).

### How the modules fit together

`Journal` has the single sector writes. It models every caller of `journal_add`
as a transaction: a type, a data sector, the change of its usage bit and its new
content. `JournalIsAtomic` says that the transaction happens as a whole or not
at all. The modules above build on that theorem:

- `ChatStore` and `HashTable` take one transaction as one step; an operation of
  several transactions is several steps, and power can be cut before each. They
  divide a contact's data: `HashTable` knows of a chat only whether it is there,
  `ChatStore` has the chats' sectors and takes the table as a function from
  phones to entries, which is what `LookupExact` says of it.
- `HashTable` also has failing writes. What one leaves behind is what `Journal`
  shows: the sector as it was, or the new one until the next boot restores it,
  or (only after `write_contact`'s first release) the new one for good. From then
  on the card refuses all writes until power is cut.
- `RingHistory` keeps three steps (save, write in place, release), since an add
  there has its own failure paths between them, and the boot rolls back.
- `Database` extends `HashTable` with the two lists in RAM. Each of its actions is
  an action of `HashTable` and what `database.c` does before and after it.
- `Mount` has the parts of a boot and a format that the others take for granted:
  which sectors are in use and what the allocators get.
- `DbTask` takes a whole handler as one step (`Handle`): one task runs all
  handlers (`OneTaskOnDatabase`), so no two of them interleave. That is why the
  modules below it have one operation in progress at a time.
- `PhoneDatabase` is `database.c` from above: every request is one step with a
  return code, on a card whose writes stop landing at some point. `PhoneUi` and
  `Cli` use only its operators.

## 3. How the modules correspond to the code

### Journal

| model | code |
|---|---|
| `hdr`, `jcontent`, `jbitmap` | the three journal sectors (`mem_layout.h`) |
| `data`, `bitmap` | data regions, usage bitmap sectors |
| `rhdr`, `rbitmap` | `journal->header`, the bitmap in RAM |
| `txn`, `pc` | the arguments and locals of the operation that runs, and its next sector write |
| `JournalBitmap`, `JournalContent`, `JournalHeader` | `journal_write`, called by `journal_add` |
| `UpdateUsageBit`, `WriteData` | `update_usage_bit`, the operation's own `write_sector` |
| `JournalFree` | `journal_free`; `write_contact` calls it twice |
| `WriteFails` | an error of any of these writes; the operation returns it |
| `PowerCut`, `TearSector` | power goes before or during a write |
| `PowerOn`, `RollbackContent`, `RollbackBitmap`, `RollbackFree`, `RollbackFails`, `ReadBitmap` | `journal_init`, `journal_rollback`, `read_usage_bitmap` |

A sector is a model value, or `Torn` when its CRC does not match: the CRC is
assumed to tell every torn sector. `Stored` is what the next boot would read,
rollback included; the properties are about it. Three constants choose the card:
`TornHeader` (a cut can tear the journal's header sector), `MayFail` (a write can
fail) and `FailStop` (once one failed, all fail until power is cut).

### RingHistory

`sectors` are the ring's sectors with `RingBufferHeader` (state, sequence number,
head) and entries; slots above head keep stale entries. `rb` is `RingBuffer`.
`BeginAdd`, `JournalAdd`, `WriteSector`, `FreeFull` and `Free` are
`message_history_add` and `set_sector_full_move_next` (`call_history.c` is a copy
with another entry type). `Rebuild` with `SearchHead` is
`reconstruct_ring_buffer` and its binary search, `GetRange` is
`message_history_get_range`. An entry is the number of its add, so the order of
entries is the order of time. The ghost `acked` holds the entries whose add
returned `STRG_OK`; `split` says that a cut or a failure came between the two
transactions of an add.

### ChatStore

`contacts` and `sectors` are the card's contact slots and message sectors, usage
bits included; `entries` is the hash table as a function from phones to occupied
entries (slot and `latest_msg_extent`); `freeSlots` and `freeSectors` are the two
allocators, as stacks. `op` is the call in progress. The actions follow
`hash_insert_contact`, `hash_update_phone`, `hash_insert_message` (first sector,
append, next sector with its two transactions, no sector left),
`database_message_remove_chat` and `database_contact_remove` (one transaction a
sector, then the contact), and the two reconstructions of a mount with orphan
removal. Ghosts hold what was acknowledged (`kept`, `removing`, `gone`), whom each
message was sent to (`owner`), and which kinds of operation a cut has left half
done (`split`; "extend" is an add that took `UINT16_MAX` for a sector, see
`ExtendWithoutSector` and finding 3: a message sector written over the last contact
sector is in the model a used slot with any phone).

The last contact of a sector stays in it when it is removed (only the usage bit
is cleared): `NumSlots` slots stand for one sector whose last slot is `LastSlot`.
After `hash_remove` failed half way, the entry left behind is compared with an
uninitialised buffer; the model stops there (`Stuck`) and goes on at the next
boot.

### DbTask

`requests` and `replies` are the queues; `running` is `db_ctx.running`; `pc` and
`current` are each task's place in `dbTask` and `db_handle`. `Start` is `db_init`,
`Post` is `db_task_post` with the host's `platform_os_QueueSend`, `PostStop` is
`stop_task`, `TakeReply` the client's wait. A queue operation holds its queue's
lock in `platform_os_host.c`, so it is one step. `running` is cleared before the
response to a STOP is sent: a new task can start while the old one is still
sending it, and the model has both.

### HashTable and PhoneBook

`table` is `htable`, with `Empty`, `Tombstone` or an entry (hash, slot, chat or no
chat) in each cell. `contacts` is the contact region as it is read, `durable` as
the next boot will have restored it: the two differ only after a failed write.
`Found` and `FindsFree` are the two ways in which `hash_find_entry` can end, as
formulas over the attempts of a probe sequence. Each public operation has an
action for the call that succeeds and one for the write that fails, and what is
undone then; `hash_insert_message` and `hash_remove` are two steps, as they are
two transactions. `NoMessageSector` is the add that is refused for want of a
sector. The one that is not refused, though a full sector needs a next one and
none is left, is outside this module, `Database` and `PhoneDatabase`: it destroys
a contact sector, and only `ChatStore` has it (finding 3). `Garbage` is the uninitialised buffer: where `read_contact`
leaves it, the comparison with the phone may give either result.
`ReadingContacts`, `ReadingChats` and their actions are
`hash_reconstruct_contact` and `hash_reconstruct_message`; `Decay` is a contact
sector that no longer matches its checksum at a boot. `Walk` is the iterator
taken to its end, `ContactList` and `MessageList` the two paged listings.

`PhoneBook` maps each phone to its contact. The refinement mapping reads the
book from `durable`; a failed call may or may not have changed it.

### Database

`nameIndex` and `chatOrder` hold cells of the table, as the code does. An entry
of the index has the folded key; ties are broken by reading the contacts (`Read`),
which is why the order of removal, update and insertion in a call matters: each
action uses the card as it is at that point. `latest` has only the rank of a
chat's last message among the chats, which is all that the sort at a boot sees.
`unlisted` is a ghost: contacts that a message has created before it failed,
which the code leaves out of the index.

### UsageBitmap and Mount

A word is a set of bits; `FindIndex`, `WordToIndex` and `IsCrcWord` are the macros
of `mem_layout.h`. `NextBit` and `PrevBit` are written as least and greatest bit of
the words that the loops visit, first and last word masked as there; checksum
words hold `Trailer`, all ones in the run, so that a scan that looked at one
would be wrong. `Ascending(S)` (module `Scan`) is the order in which a loop over the
numbers visits the ones in `S`; what a reader would say that a scan lists is stated
with it, and it is the order in which a boot hands contacts to its sorts.
`Mount` writes the sectors of a format in the code's order
(`FormatOrder`), with a cut or a failure at each; `Formatted` is what each
initialiser writes. `Init` is every content of the card.

### PhoneDatabase, PhoneUi and Cli

A page is a record with the fields of `Page`. `Draw` is the main loop up to
`read_key` (`clamp`, `refresh`, `clamp`), `Key` is `handle`. `Refreshed` is `refresh`
with the five loaders, `Clamped` is `clamp`. Names are numbers, in alphabetical
order; `Cut` is what `W` characters leave of a name. `power` is `card_image.c`'s
countdown of writes: while it is "counting", any request may be the one in which
the writes stop, and `ContactUpdate`, `ContactRemove` and `MessageAdd` list what
is on the card and in RAM then. Without any cut, an add may find no contact
sector, and a message no message sector: the contact that it has just created
then stays out of the name index (`OnlyContact`, `unlisted`), and `ContactUpdate`
and `ContactRemove` do not find it there (`NotFound`). `Cli` has the prompt's commands that change
something; `clock` and `lastTime` are `time(NULL)` and `g_last_ts`.

## 4. Runs

| run | instance | shows |
|---|---|---|
| `journal` | 1 contact, 2 message, 1 history sector; 2 bitmap sectors; failing writes (fail-stop) | each operation, cut at each write, torn, failed and recovered any number of times, is one transaction; no cut that leaves the journal header whole makes a boot refuse the card; the RAM bitmap is the card's |
| `ring_history` | 3 sectors of 2 entries, sequence numbers modulo 4, 13 adds | newest-first order, the boot search, paging; acknowledged entries kept while no add is split |
| `chat_store` | 2 phones, 2 slots, 3 sectors of 2 messages, 5 messages | chats keep what was acknowledged, do not mix, do not come back; allocators agree with the card |
| `hash_table` | 3 phones, two with one hash and all with one first cell, 5 cells, 3 slots in 2 sectors | lookups exact, RAM agrees with the card, listings complete, the phone book implemented |
| `database` | 3 phones, 3 cells, 2 slots, 2 names, times that go back | both lists are what a boot would build, whatever failed; the index refuses nothing |
| `name_index` | 6 cells, an index of 5, 6 contacts: equal names, names equal but for case, equal in the key, empty | always sorted; a seek is the rank; the heapsort of a boot agrees |
| `mount` | every card of 3 contact and 3 message sectors; words of 2 bits, 2 words a sector; 2 ring sectors | a boot finds what was left and wipes nothing else; allocators and scans exact |
| `db_task` | 2 clients of 3 requests, queues of 2, 2 tasks | one task on the database, responses match requests, the task never waits for a client, every request is answered |
| `phone_cli` | 2 phones, 1 name that is given, a screen of 1 row, times up to 3, 2 processes, cuts | keys act on drawn rows, pages show what is stored, a reboot changes nothing but for listing `unlisted` contacts |
| `journal_torn_mount` | the `journal` card with torn header writes | violation: a torn header refuses every later mount |
| `ring_lost` | 11 adds, power cuts | violation: a split add loses acknowledged entries |
| `chat_full` | 1 sector, 4 messages | violation: a message acknowledged and lost on a full card |

Five more configurations are kept beside these and run by hand (`tlc -config X.cfg
M`). Each has one invariant, which TLC finds violated; section 6 says what they
show: `MCJournalTransient.cfg`, `RingHistoryFailedAdd.cfg`, `MCChatStoreAddCut.cfg`,
`MCChatStoreRemoveCut.cfg`, `MCCliTimes.cfg`.

### Bounds, and why they are enough

- Journal: one entry exists at a time, so the state that can go wrong is one data
  sector, its bitmap sector and the three journal sectors. Two sectors on one
  bitmap sector show whether a rollback damages the other's bit; the second
  bitmap sector shows whether the right one is restored. The theorems then hold
  for every number of sectors.
- Ring: three sectors have a first, a middle and a last one for the binary
  search; 13 adds fill the ring of six entries twice and the sequence numbers
  (modulo 4, one more than the ring) wrap inside a lap as well as at its end.
  In the code they wrap at 2^32 with 5000 sectors; the comparison is the same
  subtraction modulo the range.
- Chats: three sectors make a chain with a middle sector, and two chats at once;
  five messages fill a chain of three or two chats of two sectors, and sectors
  are freed and used again. Two slots are a last slot and one that is not. Phones
  are symmetric; slots and sectors are not, since the code orders them.
- Hash table: five is prime, as 14293 is, so a probe sequence visits all cells.
  Two phones of one hash have one probe sequence and are told apart by the card
  only; the third crosses it. Three slots and five cells leave two for
  tombstones, and removals fill the table with them. Two slots share a sector.
- Database: three cells and two slots are the smallest table in which two phones
  collide while a third finds no slot. Two phones share the name that a
  contact of a message gets too, so that the index is decided by the card; the
  third has another name once it is given one.
- Index: one character of key; names that differ in it, after it, in case only,
  or in the phone only. Five entries make heaps of three levels. The card has fewer
  slots than the index has entries, as `IndexAccepts` shows in `database`, so
  `InsertName` has that as its guard; the sixth cell is there to come up against it.
- Mount: scans cross words, checksum words and bitmap sectors; the contact
  region ends inside a word, the message region starts there, and the last
  contact sector has a slot that does not exist. Every content is initial, so
  `MaxCalls` calls after a boot are enough to change each bit.
- Task: a request queue of two is full with two clients posting, and requests are
  left behind a STOP; two tasks are a restart. The code's queue has five items.
  The theorems hold for every bound.
- Menus: with one row the window scrolls at every key, and a list of two rows has
  rows above and below it. Two phones and three times are enough for two chats
  to change places. The one name is short: what becomes of a long one is in
  finding 11. `run` is entered early in the first process only.

`db_task` switches the deadlock check off: its posts are bounded, so it stops
when all are answered. No other run does.

### Properties that need care

`split` is how the two operations with a hole are kept apart from the rest.
`WholeAddsKept`, `WholeAddsListedFirst` and the `ChatStore` properties with
`Whole` (and `ListedWhenFull`, which lets `split` have "extend" only) speak of runs in which no cut (or failure) has hit that window: not of
runs without cuts. Every other write can still be cut, the boot's orphan removal
included. `DurableNewestFirst`, `RebuildMatchesRam`, `RangesAreSlices`
and `SectorsAccounted` hold with those cuts as well. What
happens in the windows is what the violating configurations show, and the
exception is no wider than it must be: with either kind of cut admitted, TLC
finds `ChatsNotMixed`, `RemovedStaysRemoved` and `NoSectorLeaked` violated in the run's
instance. (The sectors of a second head, or of the rest of a removed chat, are in
no chat, or point to one that is freed and used again.) So the theorems about them say
nothing of a database after such a cut; `SectorsAreAccounted` does.

`LookupExact` excepts the phones whose hash is that of a call whose write failed
(`Doubtful`), until the next boot; all others are looked up exactly, and
`IsPhoneBook` has no exception. `RamAgreesWithCard`, `NamesListed`, `ChatsListed`
and `IndexAccepts` speak of a card that takes writes; `ListingsAreLive` of any.
`BootIsNoChange` speaks of a card that takes writes, and of demos in which no process
was started while the clock was behind a message of the card (`behind`, until a
format); see finding 8. It lets a boot add to the list of names the contacts that a
failed message has left out (`unlisted`), with power on or not; see finding 9. `CardIsAsLeft` excepts a format that a client asked for on a mountable card and
that did not end (`halfWiped`); see finding 10. `ShownIsStored` excepts a message
that a failed request has written. The type invariants of `RingHistory`,
`ChatStore` and `DbTask` are not in the runs: they are proved.

### Fairness

Only `DbTask` has a liveness property. `FairSpec` asks for weak fairness of each
task's next step, of each client's reading of a response that is there, and of
the restart after a stop. The first two are threads that block only on their
queue: FreeRTOS and the host's pthreads run a thread that is ready, and no
client holds a lock while it waits. The third is Main's own loop, without which a
request behind a STOP waits for good, as it does in the code. Nobody has to post.
`EveryRequestAnswered` also rests on `Outstanding <= ReplySize`: each client of the
repository waits for its response (`db_call`) before it has more requests under
way than its reply queue holds.

## 5. Proofs

### The journal

`JournalProofs` proves, for any sets of sectors, contents and
bitmap sectors:

| theorem | property |
|---|---|
| `JournalInvariant` | `JournalInv`, the inductive invariant |
| `TypeCorrect` | `TypeOK` |
| `StoredSectorsIntact` | `StoredWellKept`: a used sector holds an intact content of its region |
| `RefusedOnlyForTornHeader` | `hdr # Torn => RefusedOnlyAfterFailedWrite` |
| `RamBitmapFaithful` | `RamBitmapMatchesCard` |
| `JournalIsAtomic` | `AtomicTransactions`: `Journal` implements `AtomicCard` |

`FailuresLast`, that failures last until power is cut, is a condition of all of
them; `MCJournalTransient.cfg` has the counterexample without it. `JournalInvariant`
and `JournalIsAtomic` have `SafeCard`, which also says that header writes do not
tear: a torn header takes the card with it (`MCJournalTornMount.cfg`). The others hold of cards with torn headers too:
until a cut tears the header `JournalInv` holds, and from then on `HeaderLost`
(`SoundUntilHeaderLost`), which is refused at every boot. `RefusedOnlyForTornHeader` says that this
is the one way in which cuts make a boot refuse the card. The other assumptions are the named ones of `Journal`: the regions
are disjoint, each allocated sector has a bitmap sector, and special contents
differ from ordinary ones.

The invariant. "A used sector is intact after recovery" is not inductive by
itself: it must say why the copies can be trusted. Its parts:

- `HeaderSound`: the header on the card is ACTIVE exactly while it is needed, and
  its copies are intact then. Without it a boot could roll back to a torn copy.
- `TxnSound`: what the operations may ask for (type and region agree, a content
  of the right region, a freshly allocated sector is set and written).
- `CopiesSound`: up to the header write, the copies equal what the card holds.
- `UndoSound`: after it, card and copies differ in the transaction's sector only.
- `RollbackSound`: each step of a rollback has put back what it had to, so that a
  cut in a rollback can be followed by another one.
- `StoredWellKept`, `RamBitmapMatchesCard`, `TypeOK`.

`NextInv` has one lemma per action. `TornWriteMasked` is the centre: whichever
write a power cut tears, the header aside, `Stored` stays the same. `CommitStores` says that the
header write of `journal_free` changes `Stored` in exactly the transaction's sector.

The refinement maps `Stored` to the abstract card, the transaction in RAM to the
pending one and `pc` to a phase. The commit point is `JournalFree`; every write,
cut and rollback step before it changes nothing that is stored. `WeakSpec`
has one step that a reader may not expect: `write_contact` releases the journal
twice, so it can report a failure after the contact is durable
(`FailCommittedContact`); `tests/test_database.cpp` (around line 920) accepts that.

### The rings

`RingHistoryProofs` proves, for any number of sectors, capacity, modulus of the
sequence numbers above the number of sectors, and number of adds:

| theorem | property |
|---|---|
| `RingInvariant` | `RingInv`, the inductive invariant |
| `TypeCorrect` | `TypeOK` |
| `RebuildCorrect` | `RebuildMatchesRam`: the boot search finds the cursor the adds have moved to |
| `DurableInOrder` | `DurableNewestFirst` |
| `AcknowledgedStay` | `WholeAddsKept` |
| `LatestFirst` | `WholeAddsListedFirst` |
| `RangesSlice` | `RangesAreSlices` |

The invariant. The properties speak of lists, which a walk and a binary search
make of the card; the invariant says what the card is. It is about `Recovered`, the
card as the next boot will have it, since the card itself may have a sector
that a rollback takes back. Its parts:

- `Ring(Recovered, Cursor)`: at every moment the card is an empty ring, one in its
  first lap, or one in which the lap before follows the head. `Sequenced` has the
  sequence numbers across the wrap, `InOrder` the order of the entries. `Cursor` is
  `Rebuild(Recovered)`: the only cursor that fits.
- `AddInv`: what an add has saved, written and moved so far. The cursor in RAM is
  `Cursor`, or that plus the add's own steps (`AddCursor`), so that the next step of
  the add does to the card what keeps it a ring.
- `EntriesInv`: no entry is later than the add that is under way.
- `FailedInv`: after a write that failed the cursor may be one sector ahead of the
  card, yet a listing from it ends and has each entry once.
- `AckedInv`: an acknowledged entry is in the ring, or the ring is full and all
  that it has is later.

`SearchFinds` is the centre: the binary search (`TargetRightTellsLaps` is one round
of it) comes to the head, whichever lap the numbers are in. One lemma for each
thing that a write does to a ring (`RingStarts`, `RingFills`, `RingMoves`, `RingMarked`)
and one for each action follow. `ListedIs` and `GetRangeIs` then say what the walk
back from the head lists. `WholeAddsKept` has no exception but `split`, so
`ring_lost` has the only way in which an add can lose entries. TLC found `RingInv`
to hold for rings of one, two and three sectors with one and two entries, before
it was proved.

### Contacts and chats

`ChatStoreProofs` proves, for any phones, slots, sectors,
capacity and number of messages (`ChatStoreAssumption`: there is one of each;
`NoEntryAssumption`: `None` is no phone's entry):

| theorem | property |
|---|---|
| `StoreInvariant` | `StoreInv`, the inductive invariant |
| `StoreTypeCorrect` | `TypeOK` |
| `SectorsAreAccounted` | `SectorsAccounted`, whatever was cut |
| `AcknowledgedAreListed` | `AcknowledgedListed`, in a whole database |
| `WholeListingsNotMixed` | `ChatsNotMixed`, in a whole database |
| `WholeRemovedNotListed` | `RemovedStaysRemoved`, in a whole database |
| `EntriesMatch` | `EntriesMatchCard`, in a whole database |
| `WholeNoneLeaked` | `NoSectorLeaked`, in a whole database |
| `PagesSlice` | `PagesAreSlices`, in a whole database |

The invariant. Types, `OpInv` and `SectorsAccounted` hold whatever was cut; the
rest, `WholeInv`, holds as long as no cut has hit one of the windows (`split = {}`)
and is the stronger for it:

- `ContactsInv`, `EntriesInv`: a phone has one slot; entries and free slots are those
  of the card.
- `ChainsInv`: a sector's `prev` is a full, older sector of the same chat whose `next`
  is this one, and a chat has one head. These local facts are all that a step has
  to keep; that a chat is one chain follows from them.
- `HeadsInv`: where an entry says that its chat begins, in each phase of a mount
  too. While the scan runs, an entry without a chat has no head among the sectors
  before the scan.
- `LinkInv`, `RemoveInv`: the two windows that an operation opens and closes. In a
  removal the sector that the entry names is gone until the operation ends, and
  `op.at` takes its place.
- `MessagesInv`, `KeptInv`: a sector's messages are its contact's, in the order they
  were sent; what was acknowledged is in some sector of the chat.

There are two lemmas per action, one for what holds always (`...Basic`) and one for
the rest (`...Whole`).

`ChainIs` is the centre of the part on listings: the walk from a head has every sector
of the chat, once, and ends before the cap on its hops. Messages get older along
the walk, so it repeats no sector (`WalkDistinct`) and, by the pigeonhole
principle, comes to an end; and a sector that it did not visit would lead, along
`next`, to a second head. `PageIs` and `ListingIs` make of that what a page has: the
chain's messages, newest first. TLC found `StoreInv` to hold for the run's instance
and five others (one slot and four sectors, two slots and four sectors, three
phones, sectors of one message) before it was proved.

### The database task

The first part of `ClientProofs` proves, for any clients, lengths of the queues, numbers of requests
and of restarts:

| theorem | property |
|---|---|
| `TaskInvariant` | `TaskInv`, the inductive invariant |
| `TypeCorrect` | `TypeOK`: no queue is over its length |
| `OneTask` | `OneTaskOnDatabase` |
| `RepliesMatch` | `RepliesMatchRequests` |
| `NeverWaits` | `TaskNeverWaitsForClient` |

The one assumption is `DbTaskAssumption`: `Main` is not among the others, the queues
have room for an item, and a client has at most as many requests under way as
its reply queue holds. Without the last, `TaskNeverWaitsForClient` is false: its
mutant `MayPostAlways` shows it.

The invariant. `RepliesMatchRequests` speaks of responses that were sent; to know
that the next one is the right one, the invariant must follow each request from
the client's post to the task's send. Its parts:

- `TasksInv`: at most one task is active, and `running` is set then, so that `Start`
  finds none. A task that sends its response to a STOP is not active; that
  response is Main's, whose requests are STOPs.
- `AskedInv`: a client's tags increase, and it waits for few enough of them.
- `RepliesInv`: the responses taken and queued are the client's oldest tags.
- `DueInv`: each other tag is that of the one request that a task holds or of one
  in the queue, and conversely; the held one is older than the queued ones, and
  these are in order.

`PostInv` is the step of all three ways to post, `ReceiveInv` moves the front of the
queue into a task's hands, and `HeldIsOldest` is the centre: what a task holds for
a client is the oldest tag due to it. `ReplyInv` and `RoomForReply` follow from
that: the response extends the right prefix, and fewer responses than the reply
queue's length can be in it. `ReceiveInv` needs the STOP's client most: while an
old task sends its response to Main's STOP, a new one may receive, but not
another request of Main, who waits for that response.

### The menus and the prompt

The second part of `ClientProofs` proves of `CliSpec`, for any phones, names and times,
any height of the screen, depth of the stack and number of processes:

| theorem | property |
|---|---|
| `DemoInvariant` | `CliInv`, the inductive invariant |
| `ScreenShowsDatabase` | `ShownIsStored`: the page on the screen is what a new load would give |
| `CursorStaysOnScreen` | `CursorOnRow`: a key acts on a drawn row with a loaded item |
| `RebootChangesNothing` | `BootIsNoChange`: RAM has what a boot would make of the card, but for the listing of `unlisted` contacts |

The assumptions are the named ones of `PhoneDatabase` and `PhoneUi`: phones and names are
numbers, as they stand in an order; `Unnamed` is the first name; a name that is cut
to the title's width is a name, and so is one that is entered; the call history has
room for a number of calls (`CallsKept`), the screen has a row and the stack room for a
page. The bounds `LastTime` and `Starts` may be anything.

The invariant has a part for the data, one for the pages, and `Powered` (writes stop only
after the prompt's `powercut`). Of the data, `DataInv`:

- `Stored` holds while no write was dropped: RAM's contacts and chats are the card's,
  the name index is the list of a boot without the `unlisted` contacts and the chat
order is that of a boot. After a dropped
  write only `Listed` is left (the lists have contacts, each once), which is all
  that the menus need.
- `Timed`: each message's time is before the next one that `next_ts` would give, and no
  two chats end with the same time. This is why the order that `chat_order_touch` keeps
  is the one of a boot's sort: the new message is the latest there is. It
  ends with a process that starts with the clock behind a message (`behind`), and
  a reboot does not bring it back: two chats may end with the same time from then
  on, and stay so.
- `Owned`: a chat on the card is that of a contact, so that a boot lists no other.

Of the pages, `StackInv`: the page on top is stale, or `Loaded` (its items and title are
what the database gives now); while a key is awaited it is also `Placed` (cursor and
window fit the list, as `clamp` leaves them) and, for the list of contacts, `Fetched`
(the rows are those of the window). Nothing is said of the pages below, which may
show anything that has changed since: `pop` marks the one that comes up stale, and that
is all the proof has of them. The exception of `ShownIsStored` is in `Loaded`: a message
whose write failed half way is in RAM's chat, and the page has the chat without it.

The argument:

- Lists. `InOrder` picks from a set, for each place, the element with that many before
  it; `InOrderIs` says that this lists the set in its order and `OneList` that no other list
  does. `ListLess`, `ListFirst` and `ListRenamed` say what the lists of a set with one
  element less, with a new first one, with one under another name are. From them come
  `AlphabeticalLess` for the name index and `LatestLess`, `LatestMore`, `LatestMoved` for
  the chat order: each call leaves the list that a boot would make.
- One lemma per request (`AddKeeps`, ..., `CallKeeps`), for the writes that land and those
  that stop, and one for the boots, the format and the clock, for `DataInv`.
- `ClampedIs` says what `clamp` does, and that it leaves a placed page as it is;
  `RefreshedIs` what a load does. `DrawIs` puts them together as the main loop does: the second
  `clamp` moves no page, so that the rows fetched for the window stay those of the window.
- One lemma per key (`MoveIs`, `SelectRowIs`, `DetailsActionIs`, ...): the page on top is stale
  afterwards, or nothing that it shows has changed. The second is what a call from
  the menu of calls, a search and a message that is not sent need.

TLC found the parts of `CliInv` to hold in the run's instance before they were proved,
and refuted an earlier `behind`, which told of the last process only, with three
phones and three processes.


### The mount

`MountProofs` proves, for any width of a word, words of a sector, sectors of both
regions, slots of a sector, rings and number of calls:

| theorem | property |
|---|---|
| `MountInvariant` | `MountInv`, the inductive invariant |
| `CardIsKept` | `CardIsAsLeft`: a mount finds the sectors in use as the last one left them |
| `AllocatorsAreExact` | `AllocatorsExact`: the free lists hold what the bitmap has free, once |
| `ScansAreExact` | `ScansExact`: the scans list the sectors and slots in use, in order |

The assumptions are `BitmapAssumption` (the sizes are positive, and the slots end in
the last contact sector) and `MountAssumption` (what stands for a torn or lost
sector is no content of one). No size has to be a multiple of another: the last
word and the last bitmap sector may be partly filled.

The invariant. Its parts:

- `TypeInv`: what each bitmap sector and each contact sector's header can hold.
- `FormatInv`: a format leaves what it has already written. With the superheader last in
  `FormatOrder`, one that comes to its end has written everything (`AllFormatted`).
- `KeptInv`: a card that the next boot would mount has what was kept, unless a format
  of a mountable card was cut (`halfWiped`). `CardIsAsLeft` speaks only of a mounted
  card; this part is what lasts from one mount to the next.
- `RamInv`: RAM's bitmap is the card's (`FoundInUse`), and each free list is `Exactly` what
  is not in it.

`ScansExact` needs one more invariant, `PositionsInv`: no header names a slot past the
table's end, since a call takes its slot from the free list.

The argument has two halves. The first is arithmetic: `BitPlace` of a sector
skips the checksum words, `WordOrder` and `Compared` say that places are ordered as the
sectors are, and from them come `NextBitIs` and `PrevBitIs` (the scans stop at
the next sector in use, or at the end of the region), `ContactsFreedIs` and
`MessagesFreedIs` (what the loops of a boot push) and `SetUsageIs` (a call changes
one sector's bit). The second is one lemma for each step; `CallKeeps` has what all
calls share. `NthContactIs` and `ListingIs` close the gap from a scan to its list: a
list that is increasing and has every element of a set once is `Ascending` of it,
by its ranks. TLC found `MountInv` to hold in the run's instance before it was
proved.

### The hash table

`HashTableProofs` proves, for any table, slots, phones and names, and any hash
function, whatever collides:

| theorem | property |
|---|---|
| `TableInvariant` | `TableInv`, the inductive invariant |
| `TypeCorrect` | `TypeOK` |
| `LookupsAreExact` | `LookupExact` |
| `RamAgrees` | `RamAgreesWithCard` |
| `ListsAreComplete` | `ListingsComplete` |

The assumptions are the named ones of `HashTable`. There are fewer slots than cells
(10000 and 14293 in `mem_layout.h`), and the probes of a phone reach every cell, as
they do in a table whose size is a prime (`ProbesReachAllCells`). The last is used
in one place: `WalkEnds`, by the pigeonhole principle, shows that a walk comes to a
cell that is free.

The invariant. `LookupExact` speaks of walks, and a walk depends on cells that
belong to other phones. Its parts:

- `CardInv`: a phone has one contact. The card is read otherwise than the next boot
  finds it only where the call was that failed (`doubt`).
- `EntryInv`: entries and contacts match one to one, with the phone's hash; a
  phone of the failed call may have another's.
- `ReachInv`: the walk to an entry meets no empty cell. This is why a removal must
  leave a tombstone.
- `RamInv`: allocator, count and chats, and that the cell which a message or a
  removal stands on is still its phone's.

During a reconstruction they hold of the slots read so far (`SlotsRead`,
`ChatsRead`).

There is one lemma per action (`InsertContactInv`, ...) and one for each thing that
several do: `InsertStep`, `CardUpdate`, `ChatStep`, `ChatFailStep`, `FailedWrite`, `NewEntry`.
`MatchExact` is the centre: for a phone whose hash no phone of the failed call has,
the uninitialised buffer is never compared and an entry with its id is its own.
`FindsContact` and `FreeCell` follow, which say what the two ends of a walk mean.
`ContactReadInv` also shows that a reconstruction never finds a phone a second
time, so that the case of `insert_contacts_from_sector` that overwrites an entry
does not arise.

`ListsAreComplete` needs one more invariant, `ChatsInv`: once a boot has passed a
slot, a chat of it has a contact. `WalkIs` is about both iterators: a walk that goes
to the next cell of a set by some rank stands on each cell of the set once, in
that order, before `TableSize` steps are over. `OneOrder` (there is one increasing
list of given numbers) makes the walk back the reverse of the walk, and
`HeadCellsAre` selects the chats.

The second part of `HashTableProofs` proves `HashTableIsPhoneBook`: `HashTable` implements `PhoneBook`
(`IsPhoneBook`), with the same generality. `Book` reads the slots as the next boot
would (`durable`), so a call takes effect when its write can no longer be undone,
and the reconstruction, which changes only RAM, is a stutter until `Mounted`. `BookAt`
says what the book has for a phone, and `SlotAdded`, `SlotUpdated`, `SlotRemoved` and
`ChatMarked` what one slot's change makes of it; each call is then one of those.
`FoundInBook` ties a call's lookup to the book. `NoChatReadBook` needs the whole
invariant: a chat that a boot removes as an orphan belongs to no contact, for
`FindsContact` would have found its entry.

### The name index

The first part of `DatabaseProofs` proves of `NamesSpec`, for any contacts, prefixes, key
length, table and index:

| theorem | property |
|---|---|
| `NamesInvariant` | `NameInv`, the inductive invariant |
| `NamesSorted` | `IndexSorted`: the index lists the contacts held, each once, in order |
| `SeekIsExact` | `SeekIsLowerBound`: a seek ends at the rank of the prefix |
| `BootRebuilds` | `RebuildAgrees`: the heapsort of a boot makes the index that the calls kept |

The assumptions are `IndexAssumption` (the sizes are numbers) and `NameAssumption` (a
contact has a number for its phone and a name of letters, and is not the mark of
an empty cell).

The invariant says that the contacts held have phones of their own (`Holds`), that the
index is a `Listing` of them (entries with the right keys, every contact, each one
before those after it) and that it fits. The order is strict because phones
differ, so that the listing is one only (`OneListing`). That is why `RebuildAgrees`
follows from what the sort and the calls each do, and needs no comparison of the two.

The argument, from below:

- Comparisons. `Before` is the dictionary's order, with the place where two strings
  first differ as the witness; `BytesCmpIs` says that `bytes_cmp` decides it.
  `KeyBefore` and `KeysDiffer` say what a comparison of keys says of the names: keys
  that differ decide, equal ones say nothing, and the tie is read from the card. With them
  `CmpIs` and `CmpStringIs` state what `cmp` says of a contact and of a prefix.
- Binary search. `Searching` holds of each round: all entries before `lo` are smaller
  than the probe, none from `hi` on is, and `match` says whether the one at `hi` equals
  it. Each round shrinks the interval, so that the rounds suffice (`LowerBoundIs`).
- Heapsort. `Sifting` is the invariant of `sift_down`: every parent but the one that moves
  is no smaller than its children, and the parent of that one is no smaller than its
  children's children. `HeapSorted` is that of the second loop: a heap before `e`, and from
  there on nothing that something earlier exceeds. `SortedIs` says that what comes
  out is the same entries, in order, for every strict order.
- The index. `InsertedIs` and `RemovedIs` keep a listing, `BuiltIs` makes one,
  and `SeekIs` counts.

TLC found `NameInv` to hold in the run's instance before it was proved.

### The database

The second part of `DatabaseProofs` proves, for any table, slots, phones, names, hash
function and times of messages, with the calls, failures, cuts and boots of `DbSpec`:

| theorem | property |
|---|---|
| `DatabaseInvariant` | `DbInv`, the inductive invariant |
| `DatabaseIsPhoneBook` | `IsPhoneBook`: the contacts are still the abstract phone book's |
| `NamesAreListed` | `NamesListed`: the index is the one a boot would build |
| `ChatsAreListed` | `ChatsListed`: each chat once, in the order of a boot if time went forward |
| `ListingsStayLive` | `ListingsAreLive`: after any failure, no cell twice and none without a contact |
| `IndexAcceptsAll` | `IndexAccepts`: the index never refuses what the table takes or lists |

The assumptions are those of `HashTable` and `IndexAssumption`, and three more:
`ListsHaveRoom` (both lists have as many entries as there are slots:
`SORTED_ARRAY_ENTRIES` and `CHAT_ORDER_ENTRIES` are `HASH_TABLE_ENTRIES`),
`NamesAreStrings` with `NamesGivenAssumption` (phones are numbers, names are sequences
of letters), and `MarksAreNoContacts` (what stands for a free slot, a lost one or no
contact is no contact).

`DbStepIsTableStep` comes first: every step of the database is one of the table's or
leaves the table alone, so that `TableInv` holds in every state, before any
list is looked at, and `DatabaseIsPhoneBook` follows. The other parts of `DbInv`:

- `OneRead`: no two contacts in the slots have one phone, even as the card is read
  in RAM after a failed write. The index's order is strict because of it.
- `CallInv`: what a message or a removal in progress holds in its hands (`calling`)
  has no entry in the index, and is what the table has in the call's cell.
- `IndexInv`: whatever has failed, the index has occupied cells, each once; unless a write
  has failed, it is a `Listing` of `ListedCells`, all contacts but the unlisted ones
  and that of the call.
- `UnlistedInv`: the slots left out of the index have contacts.
- `OffInv`: before a boot has ended there are no lists.
- `OrderInv`: whatever has failed, the chat order has occupied cells, each once; unless a
  write has failed they are the chats' cells, and that of a contact whose chat is
  already gone (`Leaving`), by their latest messages.

`NamesListed` and the others speak only of the time between calls; `CallInv` and
`Leaving` are what they need in the middle of one. The parts that hold after a failed
write say less, as the code does: the slot then reads otherwise than when the
index was arranged, and an entry that is put back is placed by comparisons with
what is read now.

The argument:

- The lists. `InsertedIs` and `RemovedIs` come from the name index; `OneEntryLess` and
  `OneEntryMore` say the same of the cells alone, for an index that need not be in order.
  `TouchedIs`, `ChatRemovedIs` and `ChatReplacedIs` are those of the chat order, and `BuiltChatsIs`
  is the sort of a boot.
- The table under a list. An entry of the index is compared by reading the card, so that
  a call on one contact must not move the others: `EnterIs`, `MoveIs`, `UpdateIs`, `MarkIs` and
  `FreeIs` say which cells each step of the table changes and what it reads there.
  `IndexFromListing` puts the parts of `IndexInv` together in the new state.
- Room. A listing is as long as its cells are many (`ListingSize`) and there are no
  more cells in use than slots, so that an index that lacks a contact has an entry to
  spare (`IndexTakes`). Two contacts never compare equal, since their phones differ:
  an entry is found where its contact is (`RemovedIs`), and no other is in the way
  of a new one. These are `IndexAccepts`, and what the calls need of their own order.
- One lemma per action, without a failure (`ContactUpdateKeeps`, ...) and with one
  (`ContactUpdateFailsKeeps`, ...).

TLC found `DbInv` to hold in the run's instance before it was proved.

### Recursive functions

The induction theorems of the library take a formula as a parameter, which the
provers cannot instantiate. `RecursionLemmas` states induction with a set:
`IntervalInduction` says that a set with the first number of an interval and with
each number's successor has all of it, and follows from the well-foundedness of
`<` alone. `RecursionExists` does the same for recursive functions on an interval,
with the step given as a function; what a recursion computes is then a matter
of one step. `SearchHead`, `Chain`, `Passed`, `Walk`, `HeadCells`, `ContactsFreed`,
`MessagesFreed`, `LowerBound`, `SiftDown`, `Sorted` and the library's `FlattenSeq` are
proved in that way. The other lemmas are about division and sequences: joined,
flattened, with a member more or less, and `Ascending` (`AscendingIs`).

### Model-checked only

- The liveness property of `DbTask` (`EveryRequestAnswered`): liveness under fairness and
  ENABLED are out of the prover's reach.
- The violations.

Every other property of a run that passes is stated by a theorem.

## 6. Findings

Each is a configuration whose one invariant TLC finds violated, unless it says
otherwise; `PROJECT.json` quotes the lines of the first three.

1. `journal_torn_mount`: a cut that tears the journal's header sector makes
   `journal_init` fail on every later boot (`journal.c:275`).
2. `ring_lost`: a filled sector is marked FULL in its own transaction. After a
   cut before the entry's transaction, the next add takes the newest sector for
   one to reuse and overwrites acknowledged entries (`message_history.c:132`).
3. `chat_full`: with no free sector, `UINT16_MAX` is used as the next sector; its
   usage bit, and the index that `write_sector` truncates to 16 bits
   (`storage.c:85`), are those of the last contact sector. If that is unused, the
   message sector is written over it with a valid CRC, to be read as contacts by
   the next boot, the chat is lost until then, and the add returns `STRG_OK`
   (`hash_table.c:532`).
4. `MCJournalTransient.cfg`: a write that fails once leaves the header ACTIVE; the
   next operation overwrites the copies, and a rollback restores the wrong state
   (`journal.c:99`).
5. `RingHistoryFailedAdd.cfg`: the cursor moves before the next sector is written;
   if that fails, listings are empty or start with the oldest entries
   (`message_history.c:86`).
6. `MCChatStoreAddCut.cfg`: a cut between the new sector and the link to it leaves
   two heads of one chat; later an acknowledged message is no longer listed
   (`message.c:287`).
7. `MCChatStoreRemoveCut.cfg`: a cut while a contact is removed leaves the contact
   with the oldest part of its chat (`message.c:617`); `test_database.cpp:944` says
   intact or fully removed.
8. `MCCliTimes.cfg`: the times of new messages are "strictly increasing so chats
   keep their order" (`db_cli.c:80`) only within a process: after a restart with
   the clock behind the card, the order on the screen is not the one of the next
   boot.
9. `NamesListed` and `BootIsNoChange` without their exception: a message to a new phone that finds no
   sector leaves its contact on the card and out of the name index, counted by
   `database_contact_count` and listed only after the next boot
   (`database.c:576`).
10. `CardIsAsLeft` without `halfWiped`: "superheader last so an interrupted format
   is redone on the next boot" (`database.c:255`) holds for a card without a
   superheader. The format that a client asks for leaves the old superheader
   good until its end; cut before it, the next boot mounts what is left.
11. Seen in the menus, without a run: an empty name in "edit contact" keeps the
   current value (`phone_ui.c:987`) as the title shows it, cut to the screen's
   width, and the cursor goes to "the new contact" (`phone_ui.c:1088`) by its name:
   to the first contact of that name.

## 7. Not modelled

- CRC arithmetic, storage drivers, display, firmware, platform wrappers,
  tools: pure functions, I/O or generated code. The firmware's demo
  (`db_demo.c`) and the hardware tests call the task as the phone menus do.
- Sectors that go bad by themselves, except contact sectors at a boot
  (`HashTable`, `Mount`): only writes that are cut tear a sector.
- Failing reads, except that a torn sector fails its CRC. A read that fails once
  and then succeeds would let `hash_find_entry` pass over a contact and insert its
  phone twice (`hash_table.c:205`); no driver of the repository has such reads.
- The prompt's commands that only print, `seed` (a loop of `add` and `msg`), and
  the splitting of a line into words.
- `check_contact_phone`, `read_n_contacts_in_sector`, `hash_clear`,
  `free_list_reset`: not called by the database.
- The STM32 build's loop, which answers a STOP like any other request and goes on
  (the return is under `HOST_BUILD`); failure to create the thread or the queue.
- The mount's result in `DbTask`: a failed mount only changes the value of the
  responses.
