----------------------------- MODULE AtomicCard -----------------------------
(***************************************************************************)
(* What the rollback journal promises to the layers above it: the card is  *)
(* a function from data sectors to contents, a transaction replaces the    *)
(* content of one sector, or frees it, in one indivisible step, and a      *)
(* transaction that was cut by a power failure, or that reported a         *)
(* failure, has changed nothing.  README.md, "Rollback Journal", states    *)
(* this promise; it mentions no journal sector, bitmap or header, and      *)
(* neither does this module.                                               *)
(***************************************************************************)

CONSTANTS ContactSectors,   \* data sectors holding contacts
          MessageSectors,   \* data sectors holding messages of a chat
          HistorySectors,   \* data sectors of the two history ring buffers
          ContentsOf(_),    \* the contents a given sector may hold
          Blank,            \* the content of a cleared history sector
          Free,             \* a contact or message sector not in use
          NoTxn             \* no transaction is running

VARIABLES stored,   \* what each data sector durably holds
          pending,  \* the running transaction [sector, value], or NoTxn
          phase,    \* "down", "idle", "busy" or "committed"
          result    \* what the last transaction returned: "none", "ok", "fail"

vars == <<stored, pending, phase, result>>

Allocated == ContactSectors \cup MessageSectors
Sectors   == Allocated \cup HistorySectors

(* A history sector always holds a content; the others may be free.        *)
Storable(s) == ContentsOf(s) \cup (IF s \in HistorySectors THEN {Blank} ELSE {Free})

Init == /\ stored = [s \in Sectors |-> IF s \in HistorySectors THEN Blank ELSE Free]
        /\ pending = NoTxn
        /\ phase = "down"
        /\ result = "none"

Begin(s, v) ==
    /\ phase = "idle"
    /\ phase' = "busy"
    /\ pending' = [sector |-> s, value |-> v]
    /\ result' = "none"
    /\ UNCHANGED stored

(* The commit point.  A transaction that has nothing left to write returns *)
(* in the same step, the others return in Finish.                          *)
Commit ==
    /\ phase = "busy"
    /\ stored' = [stored EXCEPT ![pending.sector] = pending.value]
    /\ \/ phase' = "idle" /\ pending' = NoTxn /\ result' = "ok"
       \/ phase' = "committed" /\ UNCHANGED <<pending, result>>

Finish ==
    /\ phase = "committed"
    /\ phase' = "idle"
    /\ pending' = NoTxn
    /\ result' = "ok"
    /\ UNCHANGED stored

(* A failed transaction reports it and leaves the stored contents alone.   *)
Fail ==
    /\ phase = "busy"
    /\ phase' = "idle"
    /\ pending' = NoTxn
    /\ result' = "fail"
    /\ UNCHANGED stored

(* Power may go at any time; nothing stored changes then or at recovery.   *)
Crash ==
    /\ phase' = "down"
    /\ pending' = NoTxn
    /\ result' = "none"
    /\ UNCHANGED stored

Recover ==
    /\ phase = "down"
    /\ phase' = "idle"
    /\ UNCHANGED <<stored, pending, result>>

Next == \/ \E s \in Sectors : \E v \in Storable(s) : Begin(s, v)
        \/ Commit \/ Finish \/ Fail \/ Crash \/ Recover

Spec == Init /\ [][Next]_vars

(* The one departure the code makes: a contact write may have committed    *)
(* and still report a failure.                                             *)
FailCommittedContact ==
    /\ phase = "committed"
    /\ pending.sector \in ContactSectors
    /\ phase' = "idle"
    /\ pending' = NoTxn
    /\ result' = "fail"
    /\ UNCHANGED stored

WeakSpec == Init /\ [][Next \/ FailCommittedContact]_vars
=============================================================================
