------------------------------ MODULE Database ------------------------------
(***************************************************************************)
(* The database (database.c): the hash table and the contact slots of      *)
(* module HashTable, and beside them in RAM the name index and the chat    *)
(* order, whose entries are cells of the table.  Each call changes them in *)
(* its own order and undoes what it has done when a later part fails.      *)
(*                                                                         *)
(* The times of messages are their callers': they may go back.  Only their *)
(* order matters, so the times of the chats' latest messages are ranks.    *)
(***************************************************************************)
EXTENDS HashTable, SortedArray, ChatOrder

CONSTANT NamesGiven    \* the names that callers give to a phone: a bound

ASSUME NamesAreStrings == \A p \in Phones, n \in Names : IsContact([phone |-> p, name |-> n])

(* SORTED_ARRAY_ENTRIES and CHAT_ORDER_ENTRIES are HASH_TABLE_ENTRIES.     *)
ASSUME ListsHaveRoom ==
    ChatCapacity \in Nat /\ NumSlots <= IndexCapacity /\ NumSlots <= ChatCapacity

ASSUME NamesGivenAssumption == \A p \in Phones : NamesGiven[p] \subseteq Names

ASSUME MarksAreNoContacts ==
    /\ ~IsContact(Free) /\ ~IsContact(Lost) /\ ~IsContact(NoContact)
    /\ NoContact \notin [contact : Contacts, cell : Cells]

VARIABLES
    nameIndex,   \* RAM: name_index
    chatOrder,   \* RAM: chat_order
    calling,     \* the contact, and its cell, that the call in progress has
                 \* taken from the index or is to enter, or NoContact
    latest,      \* card: the rank in time of a slot's latest message, or 0
    unlisted,    \* the slots whose contact was created for a message that
                 \* was not written, since the last boot
    inOrder      \* since the last boot no message was earlier than one before it

dbVars  == <<nameIndex, chatOrder, calling, latest, unlisted, inOrder>>
allVars == <<vars, dbVars>>

DbInit ==
    /\ Init
    /\ nameIndex = <<>> /\ chatOrder = <<>>
    /\ calling = NoContact
    /\ latest = [s \in Slots |-> 0]
    /\ unlisted = {}
    /\ inOrder = TRUE

-----------------------------------------------------------------------------
(* read_contact, by the cell of the contact's entry.                       *)
Read == [c \in Cells |-> IF table[c].state = "occupied" THEN contacts[table[c].slot] ELSE NoContact]

(* find_occupied                                                           *)
FindOccupied(p, cell) ==
    \E i \in Attempts, u \in Garbage : cell = Probe(p, i) /\ Found(p, i, u)

(* The contact of a call that goes through, and its entry's cell.          *)
CellOf(p) == Probe(p, CHOOSE i \in Attempts : Found(p, i, FALSE))

Named(p, n) == [phone |-> p, name |-> n]

(* sorted_array_insert of phone p, once the step has given it a cell.      *)
Entered(index, p, n) == Inserted(index, Named(p, n), CellOf(p)', Read')

(* The time of a new message, among the times of the chats' latest ones:   *)
(* between two of them, as one of them, or after all.                      *)
Times == 1 .. 2 * NumSlots + 1

Ranked(time) == [s \in Slots |-> Cardinality({time[x] : x \in Slots} \cap 1 .. time[s])]

Timed(s, t) ==
    LET times == [x \in Slots |-> 2 * latest[x]]
    IN  /\ latest' = Ranked([times EXCEPT ![s] = t])
        /\ inOrder' = (inOrder /\ \A x \in Slots : times[x] < t)

-----------------------------------------------------------------------------
(* database_contact_add.  (IndexAccepts: the index takes the contact, so   *)
(* that it never has to be removed again.)                                 *)
ContactAdd(p, n) ==
    /\ InsertContact(p, n)
    /\ nameIndex' = Entered(nameIndex, p, n).index
    /\ UNCHANGED <<chatOrder, calling, latest, unlisted, inOrder>>

ContactAddFails(p, n) == InsertContactFails(p, n) /\ UNCHANGED dbVars

(* Mutant: the chat order keeps the old cell.                              *)
ContactUpdateOldChat(p, q, n) ==
    LET old == Removed(nameIndex, Read[CellOf(p)], Read)
    IN  /\ IF p = q THEN UpdateContact(p, n) ELSE UpdatePhone(p, q, n)
        /\ old.ok
        /\ nameIndex' = Entered(old.index, q, n).index
        /\ UNCHANGED <<chatOrder, calling, latest, unlisted, inOrder>>

(* Mutant: the old entry is removed once the contact has changed.          *)
ContactUpdateLateRemoval(p, q, n) ==
    /\ IF p = q THEN UpdateContact(p, n) ELSE UpdatePhone(p, q, n)
    /\ nameIndex' = Entered(Removed(nameIndex, Read[CellOf(p)], Read').index, q, n).index
    /\ chatOrder' = ChatReplaced(chatOrder, CellOf(p), CellOf(q)')
    /\ UNCHANGED <<calling, latest, unlisted, inOrder>>

(* database_contact_update: the old entry leaves the index, the contact    *)
(* changes, the new entry comes in; the chat keeps its place.              *)
ContactUpdate(p, q, n) ==
    LET old == Removed(nameIndex, Read[CellOf(p)], Read)
    IN  /\ IF p = q THEN UpdateContact(p, n) ELSE UpdatePhone(p, q, n)
        /\ old.ok
        /\ nameIndex' = Entered(old.index, q, n).index
        /\ chatOrder' = ChatReplaced(chatOrder, CellOf(p), CellOf(q)')
        /\ UNCHANGED <<calling, latest, unlisted, inOrder>>

(* hash_update_contact, or hash_remove before it changes anything, returns *)
(* an error, and the old entry goes back.                                  *)
PutBack(p) ==
    \E cell \in Cells :
       /\ FindOccupied(p, cell) /\ IsContact(Read[cell])
       /\ LET old == Removed(nameIndex, Read[cell], Read)
          IN  /\ old.ok
              /\ nameIndex' = Inserted(old.index, Read[cell], cell, Read').index
       /\ UNCHANGED <<chatOrder, calling, latest, unlisted, inOrder>>

ContactUpdateFails(p, q, n) ==
    /\ op = Idle
    /\ IF p = q THEN UpdateContactFails(p, n) ELSE UpdatePhoneFails(p, q, n)
    /\ PutBack(p)

CallRefused(p) == op = Idle /\ UNCHANGED vars /\ PutBack(p)

(* database_contact_remove: the entry leaves the index, the contact the    *)
(* hash table, and then its chat the chat order.                           *)
ContactRemove(p) ==
    /\ BeginRemove(p) \/ BeginRemoveFails(p)
    /\ \E cell \in Cells :
          /\ FindOccupied(p, cell) /\ IsContact(Read[cell])
          /\ LET old == Removed(nameIndex, Read[cell], Read)
             IN  old.ok /\ nameIndex' = old.index
          /\ calling' = [contact |-> Read[cell], cell |-> cell]
    /\ UNCHANGED <<chatOrder, latest, unlisted, inOrder>>

(* Mutant: the chat order is left alone.                                   *)
ContactRemovedOldChat ==
    /\ RemoveContact
    /\ calling' = NoContact
    /\ UNCHANGED <<nameIndex, chatOrder, latest, unlisted, inOrder>>

ContactRemoved ==
    /\ RemoveContact
    /\ chatOrder' = ChatRemoved(chatOrder, calling.cell)
    /\ calling' = NoContact
    /\ latest' = Ranked([latest EXCEPT ![table[op.cell].slot] = 0])
    /\ UNCHANGED <<nameIndex, unlisted, inOrder>>

ContactRemoveFails ==
    /\ RemoveContactFails
    /\ nameIndex' = Inserted(nameIndex, calling.contact, calling.cell, Read').index
    /\ calling' = NoContact
    /\ UNCHANGED <<chatOrder, latest, unlisted, inOrder>>

-----------------------------------------------------------------------------
(* database_message_add.  An unnamed contact that the message has created  *)
(* is entered into the index after the message was written.                *)
MessageAdd(p) ==
    /\ \/ MessageToContact(p) /\ UNCHANGED calling
       \/ MessageToNewContact(p)
             /\ calling' = [contact |-> Named(p, Unnamed), cell |-> CellOf(p)']
    /\ UNCHANGED <<nameIndex, chatOrder, latest, unlisted, inOrder>>

MessageAddFails(p) == MessageToNewContactFails(p) /\ UNCHANGED dbVars

(* Mutant: the contact that the message has created is not entered.        *)
MessageAddedUnlisted(p, t) ==
    /\ WriteMessage /\ op.phone = p
    /\ chatOrder' = Touched(chatOrder, CellOf(p)')
    /\ Timed(table[op.cell].slot, t)
    /\ calling' = NoContact
    /\ UNCHANGED <<nameIndex, unlisted>>

MessageAdded(p, t) ==
    /\ WriteMessage /\ op.phone = p
    /\ nameIndex' = IF calling = NoContact THEN nameIndex
                    ELSE Entered(nameIndex, p, Unnamed).index
    /\ chatOrder' = Touched(chatOrder, CellOf(p)')
    /\ Timed(table[op.cell].slot, t)
    /\ calling' = NoContact
    /\ UNCHANGED unlisted

(* The message is not written, and a contact that it has created stays in  *)
(* the hash table all the same.                                            *)
MessageNotAdded ==
    /\ NoMessageSector \/ WriteMessageFails
    /\ unlisted' = IF calling = NoContact THEN unlisted
                   ELSE unlisted \cup {table[op.cell].slot}
    /\ calling' = NoContact
    /\ UNCHANGED <<nameIndex, chatOrder, latest, inOrder>>

(* database_message_remove_chat                                            *)
MessageRemoveChat(p) ==
    /\ RemoveChat(p)
    /\ chatOrder' = ChatRemoved(chatOrder, CellOf(p))
    /\ latest' = Ranked([latest EXCEPT ![table[CellOf(p)].slot] = 0])
    /\ UNCHANGED <<nameIndex, calling, unlisted, inOrder>>

MessageRemoveChatFails(p) == RemoveChatFails(p) /\ UNCHANGED dbVars

-----------------------------------------------------------------------------
(* Power cuts and database_mount, which at its end builds the chat order   *)
(* and then the name index from the hash table and the card.               *)
DbPowerCut ==
    /\ PowerCut
    /\ nameIndex' = <<>> /\ chatOrder' = <<>>
    /\ calling' = NoContact /\ unlisted' = {} /\ inOrder' = TRUE
    /\ UNCHANGED latest

Mounting ==
    /\ \/ PowerOn \/ FreeSlotRead \/ ContactRead \/ ContactsRead \/ ChatRead \/ NoChatRead
    /\ UNCHANGED dbVars

ChatCells == {c \in OccupiedCells : table[c].chat}

ChatsOnCard == BuiltChats(ChatCells, [c \in ChatCells |-> latest[table[c].slot]])

DbMounted ==
    /\ Mounted
    /\ chatOrder' = ChatsOnCard
    /\ nameIndex' = BuiltNames(OccupiedCells, Read)
    /\ inOrder' = (\A s, t \in chats : s # t => latest[s] # latest[t])
    /\ UNCHANGED <<calling, latest, unlisted>>

DbCalls(p) ==
    \/ MessageAdd(p) \/ MessageAddFails(p)
    \/ MessageRemoveChat(p) \/ MessageRemoveChatFails(p)
    \/ \E t \in Times : MessageAdded(p, t)
    \/ ContactRemove(p) \/ CallRefused(p)
    \/ \E n \in NamesGiven[p] :
          \/ ContactAdd(p, n) \/ ContactAddFails(p, n)
          \/ \E q \in Phones : ContactUpdate(q, p, n) \/ ContactUpdateFails(q, p, n)

DbNext ==
    \/ \E p \in Phones : DbCalls(p)
    \/ MessageNotAdded
    \/ ContactRemoved \/ ContactRemoveFails
    \/ DbPowerCut \/ Mounting \/ DbMounted

DbSpec == DbInit /\ [][DbNext]_allVars
-----------------------------------------------------------------------------
Listed(c) == table[c].slot \notin unlisted

(* database_contact_list gives every contact once, in alphabetical order,  *)
(* as a boot would arrange them; but for the contacts that a message has   *)
(* created before it found no room for itself, which only the next boot    *)
(* lists.                                                                  *)
NamesListed ==
    op = Idle /\ ~Failing =>
        nameIndex = BuiltNames({c \in OccupiedCells : Listed(c)}, Read)

(* database_chat_list gives every chat once.  If no message was given an   *)
(* earlier time than one before it, the most recent chat is first, and a   *)
(* boot leaves the order as it is.                                         *)
ChatsListed ==
    op = Idle /\ ~Failing =>
        /\ {chatOrder[k] : k \in DOMAIN chatOrder} = ChatCells
        /\ Len(chatOrder) = Cardinality(ChatCells)
        /\ inOrder => chatOrder = ChatsOnCard

(* Whatever has failed, neither list has an entry twice, or one that is    *)
(* not a contact's.                                                        *)
ListingsAreLive ==
    op = Idle =>
        /\ IsInjective(chatOrder) /\ Range(chatOrder) \subseteq OccupiedCells
        /\ IsInjective([k \in DOMAIN nameIndex |-> nameIndex[k].cell])
        /\ \A k \in DOMAIN nameIndex : nameIndex[k].cell \in OccupiedCells

(* The index takes every contact that the hash table would take, and gives *)
(* back every one it lists: database_contact_add never has to remove the   *)
(* contact again, and no update or removal is refused for the index's      *)
(* sake, but to the contacts that are not listed.                          *)
IndexAccepts ==
    op = Idle /\ ~Failing =>
        \A p \in Phones :
            IF IsFound(p, FALSE)
            THEN Listed(CellOf(p)) => Removed(nameIndex, Read[CellOf(p)], Read).ok
            ELSE freeSlots # {} =>
                     \A n \in Names : Inserted(nameIndex, Named(p, n), 0, Read).ok
=============================================================================
