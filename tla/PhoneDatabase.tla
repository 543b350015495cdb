--------------------------- MODULE PhoneDatabase ---------------------------
(***************************************************************************)
(* The database (database.c) as its one caller in the demo sees it: each   *)
(* request runs to its end before the next, and returns a code.  The card  *)
(* is an image whose writes fail only once a `powercut' has counted its    *)
(* writes down (card_image.c); everything can still be read then.          *)
(*                                                                         *)
(* What the parts do inside one request is in HashTable, Database,         *)
(* ChatStore and RingHistory.  Here a chat is one removal on the card, a   *)
(* change of phone that fails changes nothing, and a contact or a message  *)
(* may find no free sector at any time.                                    *)
(***************************************************************************)
EXTENDS SequencesExt, FiniteSets, Integers

CONSTANTS
    Phones,      \* the phone numbers, in their order
    Names,       \* the names, in alphabetical order
    Unnamed,     \* the name of a contact that a message has created
    NoContact,
    CallsKept    \* the entries that the call history has room for

ASSUME PhonesAreOrdered == Phones \subseteq Nat /\ IsFiniteSet(Phones) /\ NoContact \notin Phones
ASSUME NamesAreOrdered  == /\ Names \subseteq Nat /\ NoContact \notin Names
                           /\ Unnamed \in Names /\ \A n \in Names : Unnamed <= n
ASSUME CallsAreKept     == CallsKept \in Nat

VARIABLES
    contacts,    \* the name that a lookup of a phone gives, or NoContact
    nameIndex,   \* RAM: name_index, its contacts' phones
    chats,       \* the times of a chat's messages, the newest last
    chatOrder,   \* RAM: chat_order, its contacts' phones
    calls,       \* the call history, the latest first
    card,        \* the contacts and chats that a boot would find
    unlisted,    \* history: the contacts that since the last boot a failed
                 \* message has left out of the name index
    power        \* the writes to come land ("on"), may be dropped at any
                 \* time ("counting"), or are all dropped ("off")

dbVars == <<contacts, nameIndex, chats, chatOrder, calls, card, unlisted, power>>
data   == <<contacts, nameIndex, chats, chatOrder, calls, card, unlisted>>

Returns == {"STRG_OK", "STRG_EMPTY", "STRG_EXISTS", "STRG_FULL", "STRG_FAIL"}

(* Card_WriteBlock, power_on: the writes of a transaction all land, or one *)
(* of them, and each after it, is dropped.                                 *)
Land == power # "off" /\ UNCHANGED power
Drop == power # "on" /\ power' = "off"

IsContact(p) == contacts[p] # NoContact

(* The phones of a set in an order, which is a set of pairs.               *)
InOrder(set, order) ==
    [k \in 1 .. Cardinality(set) |->
        CHOOSE p \in set : Cardinality({q \in set : <<q, p>> \in order}) = k - 1]

NameOrder(set, names) ==
    {r \in set \X set : names[r[1]] < names[r[2]] \/ (names[r[1]] = names[r[2]] /\ r[1] < r[2])}

Alphabetical(set, names) == InOrder(set, NameOrder(set, names))

Chatting(cs) == {p \in Phones : cs[p] # <<>>}

TimeOrder(cs) ==
    {r \in Chatting(cs) \X Chatting(cs) :
        Last(cs[r[1]]) > Last(cs[r[2]]) \/ (Last(cs[r[1]]) = Last(cs[r[2]]) /\ r[1] < r[2])}

LatestFirst(cs) == InOrder(Chatting(cs), TimeOrder(cs))

Without(s, p) ==
    IF p \in ToSet(s) THEN RemoveAt(s, CHOOSE k \in DOMAIN s : s[k] = p) ELSE s

(* A request that is refused before it changes anything.                   *)
Refused(ret, code) == ret = code /\ UNCHANGED dbVars

(* database_contact_add.  (STRG_FULL: no contact sector is left.)          *)
ContactAdd(p, n, ret) ==
    \/ p \notin Phones /\ Refused(ret, "STRG_FAIL")
    \/ p \in Phones /\ IsContact(p) /\ Refused(ret, "STRG_EXISTS")
    \/ p \in Phones /\ ~IsContact(p) /\ Refused(ret, "STRG_FULL")
    \/ /\ p \in Phones /\ ~IsContact(p) /\ Land /\ ret = "STRG_OK"
       /\ contacts' = [contacts EXCEPT ![p] = n]
       /\ card' = [card EXCEPT !.contacts[p] = n]
       /\ nameIndex' = Alphabetical(ToSet(nameIndex) \cup {p}, contacts')
       /\ UNCHANGED <<chats, chatOrder, calls, unlisted>>
    \/ p \in Phones /\ ~IsContact(p) /\ Drop /\ ret = "STRG_FAIL" /\ UNCHANGED data

(* sorted_array_remove finds a contact by its name: it does not find one   *)
(* that a failed message has left out, and may not find one whose name is  *)
(* not the one it was entered with.  An update or removal then ends there. *)
InIndex(p) == p \in ToSet(nameIndex)

NotFound(p, ret) ==
    /\ IsContact(p) /\ (InIndex(p) => contacts[p] # card.contacts[p])
    /\ Refused(ret, IF nameIndex = <<>> THEN "STRG_FULL" ELSE "STRG_FAIL")

(* database_contact_update.  A name whose journal entry is not released    *)
(* again is read all the same, until the next boot rolls it back.          *)
Moved(f, p, q, value, none) == [f EXCEPT ![p] = none, ![q] = value]

ContactUpdate(p, n, q, ret) ==
    \/ q \notin Phones /\ Refused(ret, "STRG_FAIL")
    \/ q \in Phones /\ ~IsContact(p) /\ Refused(ret, "STRG_EMPTY")
    \/ q \in Phones /\ NotFound(p, ret)
    \/ q \in Phones \ {p} /\ IsContact(p) /\ InIndex(p) /\ IsContact(q) /\ Refused(ret, "STRG_EXISTS")
    \/ /\ q \in Phones /\ IsContact(p) /\ InIndex(p) /\ (q # p => ~IsContact(q))
       /\ \/ /\ Land /\ ret = "STRG_OK"
             /\ contacts' = Moved(contacts, p, q, n, NoContact)
             /\ chats' = Moved(chats, p, q, chats[p], <<>>)
             /\ card' = [contacts |-> contacts', chats |-> chats']
             /\ nameIndex' = Alphabetical((ToSet(nameIndex) \ {p}) \cup {q}, contacts')
             /\ chatOrder' = [k \in DOMAIN chatOrder |-> IF chatOrder[k] = p THEN q ELSE chatOrder[k]]
             /\ UNCHANGED <<calls, unlisted>>
          \/ /\ Drop /\ ret = "STRG_FAIL"
             /\ contacts' \in {contacts, [contacts EXCEPT ![p] = IF p = q /\ power = "counting" THEN n ELSE @]}
             /\ UNCHANGED <<nameIndex, chats, chatOrder, calls, card, unlisted>>

(* database_contact_remove.  hash_remove forgets the chat even where its   *)
(* removal has failed, and the chat order keeps it then.                   *)
ContactRemove(p, ret) ==
    \/ ~IsContact(p) /\ Refused(ret, "STRG_EMPTY")
    \/ NotFound(p, ret)
    \/ /\ IsContact(p) /\ InIndex(p)
       /\ chats' = [chats EXCEPT ![p] = <<>>] /\ UNCHANGED <<calls, unlisted>>
       /\ \/ /\ Land /\ ret = "STRG_OK"
             /\ contacts' = [contacts EXCEPT ![p] = NoContact]
             /\ card' = [contacts |-> contacts', chats |-> chats']
             /\ nameIndex' = Without(nameIndex, p) /\ chatOrder' = Without(chatOrder, p)
          \/ /\ Drop /\ ret = "STRG_FAIL"
             /\ card' \in {card, [card EXCEPT !.chats[p] = IF power = "counting" THEN <<>> ELSE @]}
             /\ UNCHANGED <<contacts, nameIndex, chatOrder>>

(* database_message_add: a contact if there is none, the message, the name *)
(* index and the chat order, the message history.                          *)
Written(p, t) ==
    /\ chats' = [chats EXCEPT ![p] = Append(@, t)]
    /\ contacts' = [contacts EXCEPT ![p] = IF IsContact(p) THEN @ ELSE Unnamed]
    /\ card' = [card EXCEPT !.chats[p] = Append(@, t), !.contacts[p] = contacts'[p]]
    /\ nameIndex' = IF IsContact(p) THEN nameIndex
                    ELSE Alphabetical(ToSet(nameIndex) \cup {p}, contacts')
    /\ chatOrder' = <<p>> \o Without(chatOrder, p)
    /\ UNCHANGED <<calls, unlisted>>

(* hash_insert_message has stored the new contact before it looks for a    *)
(* sector for the message.  When there is none, or the write is dropped,   *)
(* the contact stays and the name index never hears of it.                 *)
OnlyContact(p) ==
    /\ ~IsContact(p)
    /\ contacts' = [contacts EXCEPT ![p] = Unnamed]
    /\ card' = [card EXCEPT !.contacts[p] = Unnamed]
    /\ unlisted' = unlisted \cup {p}
    /\ UNCHANGED <<nameIndex, chats, chatOrder, calls>>

(* (A message that finds no sector to follow the full one of its chat is   *)
(* refused here, as it is while the last contact sector is in use;         *)
(* ChatStore has what is written over that sector otherwise.)              *)
MessageAdd(p, t, ret) ==
    \/ p \notin Phones /\ Refused(ret, "STRG_FAIL")
    \/ p \in Phones /\ Land /\ Written(p, t) /\ ret = "STRG_OK"
    \/ p \in Phones /\ Land /\ (UNCHANGED data \/ OnlyContact(p)) /\ ret = "STRG_FAIL"  \* no sector
    \/ /\ p \in Phones /\ Drop /\ ret = "STRG_FAIL"
       /\ \/ UNCHANGED data
          \/ power = "counting" /\ Written(p, t)          \* not in the history
          \/ power = "counting" /\ OnlyContact(p)
          \/ /\ power = "counting" /\ chats[p] # <<>>     \* read until the next boot
             /\ chats' = [chats EXCEPT ![p] = Append(@, t)]
             /\ UNCHANGED <<contacts, nameIndex, chatOrder, calls, card, unlisted>>

(* database_message_remove_chat                                            *)
MessageRemoveChat(p, ret) ==
    \/ (~IsContact(p) \/ chats[p] = <<>>) /\ Refused(ret, "STRG_EMPTY")
    \/ /\ IsContact(p) /\ chats[p] # <<>>
       /\ \/ /\ Land /\ ret = "STRG_OK"
             /\ chats' = [chats EXCEPT ![p] = <<>>]
             /\ card' = [card EXCEPT !.chats[p] = <<>>]
             /\ chatOrder' = Without(chatOrder, p)
             /\ UNCHANGED <<contacts, nameIndex, calls, unlisted>>
          \/ Drop /\ ret = "STRG_FAIL" /\ UNCHANGED data

(* database_call_add, call_history_add                                     *)
Call(p) == [phone |-> p, known |-> IsContact(p)]

CallAdd(p, ret) ==
    \/ p \notin Phones /\ Refused(ret, "STRG_FAIL")
    \/ /\ p \in Phones /\ Land /\ ret = "STRG_OK"
       /\ LET all == <<Call(p)>> \o calls
          IN  calls' = SubSeq(all, 1, IF Len(all) < CallsKept THEN Len(all) ELSE CallsKept)
       /\ UNCHANGED <<contacts, nameIndex, chats, chatOrder, card, unlisted>>
    \/ p \in Phones /\ Drop /\ ret = "STRG_FAIL" /\ UNCHANGED data

(* database_contact_list, _seek and _count: the phones of a range of the   *)
(* index, the rank of a name from n on that follows one before n, the hash *)
(* table's size.                                                           *)
ContactList(start, n) ==
    SubSeq(nameIndex, start + 1, IF start + n < Len(nameIndex) THEN start + n ELSE Len(nameIndex))

ContactSeek(n, rank) ==
    /\ rank > 0 => contacts[nameIndex[rank]] < n
    /\ rank < Len(nameIndex) => contacts[nameIndex[rank + 1]] >= n

ContactCount == Cardinality({p \in Phones : IsContact(p)})

(* database_call_recent, _chat_list and _message_get_chat, from the first  *)
(* to the last of their entries.  (A list page asks for CHUNK entries      *)
(* after another until it gets fewer, or none.)                            *)
CallRecent        == calls
ChatList          == chatOrder
MessageGetChat(p) == chats[p]

(* database_mount, after journal_rollback                                  *)
Mounted ==
    /\ contacts' = card.contacts /\ chats' = card.chats
    /\ nameIndex' = Alphabetical({p \in Phones : card.contacts[p] # NoContact}, card.contacts)
    /\ chatOrder' = LatestFirst(card.chats)
    /\ unlisted' = {} /\ UNCHANGED <<calls, card>>

(* database_format, where all its writes land                              *)
Formatted ==
    /\ contacts' = [p \in Phones |-> NoContact] /\ chats' = [p \in Phones |-> <<>>]
    /\ card' = [contacts |-> contacts', chats |-> chats']
    /\ nameIndex' = <<>> /\ chatOrder' = <<>> /\ calls' = <<>> /\ unlisted' = {}
=============================================================================
