----------------------------- MODULE PhoneBook -----------------------------
(***************************************************************************)
(* What the hash table and the contact slots promise to database.c: a map  *)
(* from phone numbers to contacts.  A call that finds the card failing may *)
(* or may not have taken effect, which is known after the next boot; until *)
(* then the map does not change.  Calls that write twice (a message to a   *)
(* phone without a contact, a removal) can be cut in between.              *)
(***************************************************************************)
CONSTANTS Phones, Names, Unnamed, NoContact

VARIABLES
    book,     \* each phone's contact, or NoContact
    power,    \* "on", "off", or "failed": the card refuses writes
    serving   \* the message or removal that is half way, or NoContact

vars == <<book, power, serving>>

Message(p) == [call |-> "message", phone |-> p]
Removal(p) == [call |-> "remove", phone |-> p]

Init ==
    /\ book = [p \in Phones |-> NoContact]
    /\ power = "on"
    /\ serving = NoContact

Ready == power = "on" /\ serving = NoContact

(* What each call makes of the map.                                        *)
With(p, n)       == [book EXCEPT ![p] = [name |-> n, chat |-> FALSE]]
Moved(p, q, n)   == [[book EXCEPT ![p] = NoContact]
                           EXCEPT ![q] = [name |-> n, chat |-> book[p].chat]]
WithChat(p, yes) == [book EXCEPT ![p].chat = yes]
Without(p)       == [book EXCEPT ![p] = NoContact]

Becomes(new) == book' = new /\ UNCHANGED power

Add(p, n) ==
    Ready /\ book[p] = NoContact /\ Becomes(With(p, n)) /\ UNCHANGED serving

Update(p, q, n) ==
    /\ Ready /\ book[p] # NoContact
    /\ q = p \/ book[q] = NoContact
    /\ Becomes(Moved(p, q, n)) /\ UNCHANGED serving

RemoveChat(p) ==
    /\ Ready /\ book[p] # NoContact
    /\ book[p].chat
    /\ Becomes(WithChat(p, FALSE)) /\ UNCHANGED serving

(* The first half of a message, and of a removal.                          *)
BeginMessage(p) ==
    /\ Ready
    /\ book' = IF book[p] = NoContact THEN With(p, Unnamed) ELSE book
    /\ serving' = Message(p) /\ UNCHANGED power

BeginRemove(p) ==
    /\ Ready /\ book[p] # NoContact
    /\ book' = WithChat(p, FALSE)
    /\ serving' = Removal(p) /\ UNCHANGED power

(* And the second one.                                                     *)
Finish(p) ==
    /\ power = "on"
    /\ \/ serving = Message(p) /\ Becomes(WithChat(p, TRUE))
       \/ serving = Message(p) /\ UNCHANGED <<book, power>>   \* no room for it
       \/ serving = Removal(p) /\ Becomes(Without(p))
    /\ serving' = NoContact

(* The card fails the call: it may have taken effect all the same.         *)
Fail(p) ==
    /\ power = "on" /\ serving \in {NoContact, Message(p), Removal(p)}
    /\ power' = "failed"
    /\ serving' = NoContact
    /\ \/ UNCHANGED book
       \/ \E n \in Names : \/ book[p] = NoContact /\ book' = With(p, n)
                           \/ \E q \in Phones : /\ book[p] # NoContact
                                                /\ q = p \/ book[q] = NoContact
                                                /\ book' = Moved(p, q, n)

PowerCut ==
    power' = "off" /\ serving' = NoContact /\ UNCHANGED book

(* Contact sectors can go bad while power is off.                          *)
Decay ==
    /\ power = "off"
    /\ \E lost \in SUBSET Phones :
          book' = [p \in Phones |-> IF p \in lost THEN NoContact ELSE book[p]]
    /\ UNCHANGED <<power, serving>>

Mount == power = "off" /\ power' = "on" /\ UNCHANGED <<book, serving>>

Next ==
    \/ \E p \in Phones :
          \/ RemoveChat(p) \/ BeginMessage(p) \/ BeginRemove(p) \/ Finish(p)
          \/ Fail(p)
          \/ \E n \in Names : Add(p, n) \/ (\E q \in Phones : Update(p, q, n))
    \/ PowerCut \/ Decay \/ Mount

Spec == Init /\ [][Next]_vars
=============================================================================
