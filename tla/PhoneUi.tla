------------------------------ MODULE PhoneUi ------------------------------
(***************************************************************************)
(* The phone menus of the demo (phone_ui.c): a stack of pages, of which    *)
(* the topmost is drawn and handles the next key.                          *)
(*                                                                         *)
(*   menu - phone ---- call history - details - chat                       *)
(*        - sms ------ all messages - chat                                 *)
(*        - contacts - details - chat                                      *)
(*                                                                         *)
(* A page holds what it has loaded from the database and reloads it when   *)
(* it is stale; the list of contacts loads only the rows on the screen, at *)
(* every key.  A line of a chat is a whole message here.                   *)
(***************************************************************************)
EXTENDS PhoneDatabase

CONSTANTS
    ROWS,           \* the rows of a list on the screen
    OptionRows,     \* ROWS - INFO_ROWS, those of a contact's options
    MAX_DEPTH,
    Cut(_),         \* a name cut to the W characters of a title
    NamesGiven,     \* bound: the names that are entered
    LastTime        \* bound: the times that messages are given

ASSUME Screen == ROWS \in Nat \ {0} /\ OptionRows \in Nat \ {0} /\ MAX_DEPTH \in Nat \ {0}
ASSUME TitlesAreNames == Cut(Unnamed) = Unnamed /\ \A n \in Names : Cut(n) \in Names
ASSUME NamesAreEntered == NamesGiven \subseteq Names \ {Unnamed}

VARIABLES
    stack,       \* g_stack[0 .. g_depth - 1]; <<>> while the menus do not run
    awaiting,    \* the page is drawn and a key is awaited
    clock,       \* time(NULL)
    lastTime     \* g_last_ts

uiVars == <<stack, awaiting, clock, lastTime>>

Top == stack[Len(stack)]
Topped(page) == [stack EXCEPT ![Len(stack)] = page]

Menu         == <<"phone", "sms", "contacts">>
PhoneMenu    == <<"call", "call history">>
SmsMenu      == <<"new message", "all messages">>
KnownMenu    == <<"messages", "call", "send message", "edit contact", "delete contact">>
UnknownMenu  == <<"messages", "call", "send message", "add contact">>

(* Mutant: the times go by the clock alone.                                *)
NextTimeByClock == clock

(* next_ts                                                                 *)
NextTime == IF clock > lastTime THEN clock ELSE lastTime + 1

-----------------------------------------------------------------------------
(* load_calls, load_inbox, load_contacts, load_details, load_chat          *)
Row(p) == [phone |-> p, name |-> contacts[p]]

Rows(phones) == [k \in DOMAIN phones |-> Row(phones[k])]

CallRows           == CallRecent
InboxRows          == Rows(ChatList)
ContactRows(page)  == Rows(ContactList(page.offset, ROWS))
DetailsMenu(page)  == IF IsContact(page.phone) THEN KnownMenu ELSE UnknownMenu
ChatLines(page)    == MessageGetChat(page.phone)

Items(page) ==
    CASE page.id = "menu"     -> Menu
      [] page.id = "phone"    -> PhoneMenu
      [] page.id = "sms"      -> SmsMenu
      [] page.id = "calls"    -> CallRows
      [] page.id = "inbox"    -> InboxRows
      [] page.id = "contacts" -> ContactRows(page)
      [] page.id = "details"  -> DetailsMenu(page)
      [] page.id = "chat"     -> ChatLines(page)

Title(page) ==
    IF page.id = "details" /\ IsContact(page.phone) THEN Cut(contacts[page.phone]) ELSE Unnamed

(* refresh                                                                 *)
Refreshed(page) ==
    LET items == Items(page)
    IN  [page EXCEPT !.items = items,
                     !.title = Title(page),
                     !.base  = IF page.id = "contacts" THEN page.offset ELSE 0,
                     !.total = IF page.id = "contacts" THEN @ ELSE Len(items),
                     !.stale = FALSE]

PageRows(page) == IF page.id = "details" THEN OptionRows ELSE ROWS

Least(a, b) == IF a < b THEN a ELSE b

(* Mutant: the window does not follow the cursor down.                     *)
OnScreenUpwards(page) == [page EXCEPT !.offset = Least(page.cursor, page.offset)]

(* The two last steps of clamp: the window follows the cursor.             *)
OnScreen(page) ==
    LET up == Least(page.cursor, page.offset)
    IN  [page EXCEPT !.offset = IF page.cursor >= up + PageRows(page)
                                THEN page.cursor - PageRows(page) + 1 ELSE up]

(* clamp                                                                   *)
Clamped(page) ==
    LET total == IF page.id = "contacts" THEN ContactCount ELSE page.total
    IN  IF page.id = "chat"
        THEN [page EXCEPT !.offset = Least(@, IF total > ROWS THEN total - ROWS ELSE 0)]
        ELSE OnScreen([page EXCEPT !.total  = total,
                                   !.cursor = IF @ < total THEN @ ELSE IF total > 0 THEN total - 1 ELSE 0])

(* draw_list: the items on the rows of the screen; draw_chat: the newest   *)
(* line at the bottom, or as many above it as were scrolled.               *)
Blank == [item |-> "blank", marked |-> FALSE]

DrawnList(page) ==
    [k \in 0 .. PageRows(page) - 1 |->
        LET rank == page.offset + k
            i    == rank - page.base
        IN  IF rank < page.total /\ i >= 0 /\ i < Len(page.items)
            THEN [item |-> page.items[i + 1], marked |-> rank = page.cursor] ELSE Blank]

DrawnChat(page) ==
    LET end == page.total - page.offset
    IN  SubSeq(page.items, (IF end > ROWS THEN end - ROWS ELSE 0) + 1, end)

(* The main loop up to read_key                                            *)
Draw ==
    /\ stack # <<>> /\ ~awaiting
    /\ LET page == Clamped(Top)
       IN  stack' = Topped(IF page.stale \/ page.id = "contacts"
                           THEN Clamped(Refreshed(page)) ELSE page)
    /\ awaiting' = TRUE
    /\ UNCHANGED <<dbVars, clock, lastTime>>

-----------------------------------------------------------------------------
NewPage(id, p) ==
    [id |-> id, phone |-> p, title |-> Unnamed, stale |-> TRUE, cursor |-> 0, offset |-> 0,
     items |-> <<>>, base |-> 0, total |-> 0]

(* push, pop                                                               *)
Pushed(pages, id, p) == IF Len(pages) = MAX_DEPTH THEN pages ELSE Append(pages, NewPage(id, p))

(* Mutant: the page below is drawn as it was.                              *)
PoppedAsItWas == SubSeq(stack, 1, Len(stack) - 1)

Popped ==
    LET below == SubSeq(stack, 1, Len(stack) - 1)
    IN  IF below = <<>> THEN <<>> ELSE [below EXCEPT ![Len(below)].stale = TRUE]

Stale(page) == [page EXCEPT !.stale = TRUE]

Nobody == NoContact

(* prompt: a number that is entered, of a phone or of none.                *)
Entered == Phones \cup {Nobody}

(* A key that changes only the pages.                                      *)
Navigates(pages) == stack' = pages /\ UNCHANGED <<dbVars, lastTime>>

(* move                                                                    *)
Move(by) ==
    LET page   == Top
        moved  == page.cursor + by
        scroll == page.offset - by
    IN  Navigates(IF page.id = "chat"
                  THEN Topped([page EXCEPT !.offset = IF scroll < 0 THEN 0 ELSE scroll])
                  ELSE IF page.total = 0 THEN stack
                  ELSE Topped([page EXCEPT !.cursor = IF moved < 0 THEN 0
                                                      ELSE Least(moved, page.total - 1)]))

(* cursor_phone: the phone of the row under the cursor, if it is loaded.   *)
CursorPhone(page) ==
    LET k == page.cursor - page.base
    IN  IF page.total = 0 \/ k < 0 \/ k >= Len(page.items) THEN Nobody ELSE page.items[k + 1].phone

(* send_message, once a text is entered.  (LastTime: a bound.)             *)
SendMessage(p, ret) ==
    /\ NextTime <= LastTime
    /\ lastTime' = NextTime
    /\ MessageAdd(p, NextTime, ret)

OpensChat(p, ret, otherwise) ==
    stack' = IF ret = "STRG_OK" THEN Pushed(otherwise, "chat", p) ELSE otherwise

(* details_action                                                          *)
KeptName(page) == page.title

DetailsAction(page) ==
    LET opt   == page.items[page.cursor + 1]
        stale == Topped(Stale(page))
    IN  \/ /\ opt = "messages"
           /\ Navigates(Pushed(stale, "chat", page.phone))
        \/ /\ opt = "call"
           /\ \E ret \in Returns : CallAdd(page.phone, ret)
           /\ stack' = stale /\ UNCHANGED lastTime
        \/ /\ opt = "send message"
           /\ \E ret \in Returns : SendMessage(page.phone, ret) /\ OpensChat(page.phone, ret, stale)
        \/ /\ opt = "add contact"
           /\ \E n \in NamesGiven, ret \in Returns : ContactAdd(page.phone, n, ret)
           /\ stack' = stale /\ UNCHANGED lastTime
        \/ /\ opt = "edit contact"
           /\ \E n \in NamesGiven \cup {Unnamed}, q \in Entered, ret \in Returns :
                 /\ ContactUpdate(page.phone, IF n = Unnamed THEN KeptName(page) ELSE n, q, ret)
                 /\ stack' = IF ret = "STRG_OK" THEN Topped(Stale([page EXCEPT !.phone = q])) ELSE stale
           /\ UNCHANGED lastTime
        \/ /\ opt = "delete contact"
           /\ \E ret \in Returns :
                 /\ ContactRemove(page.phone, ret)
                 /\ stack' = IF ret = "STRG_OK" THEN Popped ELSE stale
           /\ UNCHANGED lastTime

        \/ opt \in {"send message", "add contact", "delete contact"} /\ Navigates(stale)  \* not entered

(* select_row, by page                                                     *)
SelectMenu(page) == page.id = "menu" /\ Navigates(Pushed(stack, Menu[page.cursor + 1], Nobody))

SelectPhone(page) ==
    /\ page.id = "phone"
    /\ \/ page.cursor = 1 /\ Navigates(Pushed(stack, "calls", Nobody))
       \/ /\ page.cursor = 0
          /\ \E p \in Entered, ret \in Returns : CallAdd(p, ret)
          /\ UNCHANGED <<stack, lastTime>>

SelectSms(page) ==
    /\ page.id = "sms"
    /\ \/ page.cursor = 1 /\ Navigates(Pushed(stack, "inbox", Nobody))
       \/ /\ page.cursor = 0
          /\ \E p \in Entered, ret \in Returns :
                SendMessage(p, ret) /\ OpensChat(p, ret, stack)

SelectRow(page) ==
    /\ page.id \in {"calls", "contacts", "inbox"}
    /\ Navigates(IF CursorPhone(page) = Nobody THEN stack
                 ELSE Pushed(stack, IF page.id = "inbox" THEN "chat" ELSE "details", CursorPhone(page)))

(* A message is sent from the chat's page, or one that comes in is entered *)
(* there (other_key).                                                      *)
MessageInChat(page) ==
    /\ page.id = "chat"
    /\ \E ret \in Returns :
          /\ SendMessage(page.phone, ret)
          /\ stack' = IF ret = "STRG_OK" THEN Topped(Stale([page EXCEPT !.offset = 0])) ELSE stack

Select ==
    \/ SelectMenu(Top) \/ SelectPhone(Top) \/ SelectSms(Top) \/ SelectRow(Top)
    \/ Top.id = "details" /\ Top.total > 0 /\ DetailsAction(Top)
    \/ MessageInChat(Top)

(* other_key: a contact is added, or a name looked for.                    *)
AddFromList ==
    /\ Top.id = "contacts"
    /\ \E p \in Entered, n \in NamesGiven, ret \in Returns :
          /\ ContactAdd(p, n, ret)
          /\ IF ret # "STRG_OK" THEN UNCHANGED stack
             ELSE \E rank \in 0 .. Len(nameIndex') :
                     ContactSeek(n, rank)' /\ stack' = Topped([Top EXCEPT !.cursor = rank])
    /\ UNCHANGED lastTime

Search ==
    /\ Top.id = "contacts"
    /\ \E n \in NamesGiven, rank \in 0 .. Len(nameIndex) :
          /\ ContactSeek(n, rank)
          /\ Navigates(Topped([Top EXCEPT !.cursor = rank, !.offset = rank]))

(* handle: one key press                                                   *)
Key ==
    /\ stack # <<>> /\ awaiting
    /\ awaiting' = FALSE
    /\ \/ Navigates(<<>>)                                 \* K_QUIT
       \/ Navigates(Popped)                               \* K_BACK
       \/ \E by \in {-1, 1, -ROWS, ROWS} : Move(by)
       \/ Select \/ AddFromList \/ Search
    /\ UNCHANGED clock

(* phone_ui_run                                                            *)
RunMenus == stack' = <<NewPage("menu", Nobody)>> /\ awaiting' = FALSE

-----------------------------------------------------------------------------
AwaitingKey == stack # <<>> /\ awaiting

(* A key acts on a row that is drawn, with an item that is loaded: the     *)
(* cursor leaves neither the screen nor what was fetched for it, but for   *)
(* the blank row of a contact that is counted and not listed (its message  *)
(* has failed).  A chat fills the screen, however far it is scrolled.      *)
CursorOnRow ==
    AwaitingKey =>
        LET page == Top
        IN  IF page.id = "chat"
            THEN Len(DrawnChat(page)) = Least(page.total, ROWS)
            ELSE \/ \E k \in 0 .. PageRows(page) - 1 : DrawnList(page)[k].marked
                 \/ page.total = 0 /\ page.items = <<>>
                 \/ page.id = "contacts" /\ page.cursor \in Len(nameIndex) .. ContactCount - 1

(* What the screen shows is what the database holds, although it is kept   *)
(* from the last load; but a message that was written by a request that    *)
(* failed is not shown.                                                    *)
ShownIsStored ==
    AwaitingKey =>
        LET page == Top
            now  == Refreshed(page)
        IN  IF page.id = "chat" /\ power = "off"
            THEN IsPrefix(page.items, now.items)
            ELSE page = now
=============================================================================
