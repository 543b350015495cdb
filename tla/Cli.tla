-------------------------------- MODULE Cli --------------------------------
(***************************************************************************)
(* The command prompt of the demo (db_cli.c) over a card image             *)
(* (card_image.c): commands on the database, the phone menus (`run'),      *)
(* `reboot', `powercut' and `format', and processes that end and start     *)
(* again on an image.                                                      *)
(***************************************************************************)
EXTENDS PhoneUi

CONSTANT Starts    \* bound: the processes

VARIABLES
    mounted,      \* g_mounted
    powercut,     \* "no", or powercut has its command "before" it or "done"
    header,       \* the image's superheader: "good", "blank" or "bad"
    processes,    \* the processes so far
    behind        \* some process started when the clock was behind a message

allVars == <<dbVars, uiVars, mounted, powercut, header, processes, behind>>
cliVars == <<mounted, powercut, header, processes, behind>>

Nothing == [contacts |-> [p \in Phones |-> NoContact], chats |-> [p \in Phones |-> <<>>]]

(* card_image_open and boot, on a new image, or on one that is no card.    *)
CliInit ==
    /\ contacts = Nothing.contacts /\ chats = Nothing.chats /\ card = Nothing
    /\ nameIndex = <<>> /\ chatOrder = <<>> /\ calls = <<>> /\ unlisted = {}
    /\ power = "on"
    /\ stack = <<>> /\ awaiting = FALSE
    /\ clock = 1 /\ lastTime = 0
    /\ header \in {"good", "bad"} /\ mounted = (header = "good")
    /\ powercut = "no" /\ processes = 1 /\ behind = FALSE

AtPrompt == stack = <<>>

(* The commands of a prompt that is inside no powercut, or of the one      *)
(* command that a powercut runs.                                           *)
Ready == AtPrompt /\ powercut # "done"

Ran == powercut' = IF powercut = "no" THEN "no" ELSE "done"

-----------------------------------------------------------------------------
(* dispatch, need_mount                                                    *)
Dispatched == Ready /\ mounted

(* cmd_add, cmd_update, cmd_rm, cmd_msg, cmd_rmchat, cmd_call              *)
CmdAdd(p, ret)    == (\E n \in NamesGiven : ContactAdd(p, n, ret)) /\ UNCHANGED lastTime
CmdUpdate(p, ret) == (\E q \in Phones, n \in NamesGiven : ContactUpdate(p, n, q, ret)) /\ UNCHANGED lastTime
CmdRm(p, ret)     == ContactRemove(p, ret) /\ UNCHANGED lastTime
CmdMsg(p, ret)    == SendMessage(p, ret)
CmdRmchat(p, ret) == MessageRemoveChat(p, ret) /\ UNCHANGED lastTime
CmdCall(p, ret)   == CallAdd(p, ret) /\ UNCHANGED lastTime

Command ==
    /\ Dispatched
    /\ \E p \in Phones, ret \in Returns :
          \/ CmdAdd(p, ret) \/ CmdUpdate(p, ret) \/ CmdRm(p, ret)
          \/ CmdMsg(p, ret) \/ CmdRmchat(p, ret) \/ CmdCall(p, ret)
    /\ Ran
    /\ UNCHANGED <<stack, awaiting, clock, mounted, header, processes, behind>>

(* cmd_run.  (Bound: early in the first process.)                          *)
Run ==
    /\ processes = 1 /\ clock = 1
    /\ Dispatched /\ RunMenus /\ Ran
    /\ UNCHANGED <<dbVars, clock, lastTime, mounted, header, processes, behind>>

(* cmd_powercut: the count starts, and one command runs.                   *)
PowerCut ==
    /\ Dispatched /\ powercut = "no"
    /\ powercut' = "before" /\ power' = "counting"
    /\ UNCHANGED <<data, uiVars, mounted, header, processes, behind>>

(* boot: database_init on the image, then the writes count again as they   *)
(* are.                                                                    *)
Booted(head) ==
    /\ header' = IF head = "blank" THEN "good" ELSE head
    /\ mounted' = (head # "bad")
    /\ power' = "on" /\ powercut' = "no"

(* cmd_reboot, or the boot that ends a powercut.                           *)
Reboot ==
    /\ AtPrompt /\ powercut # "before"
    /\ Booted(header)
    /\ IF header = "bad" THEN UNCHANGED data ELSE Mounted
    /\ UNCHANGED <<uiVars, processes, behind>>

(* cmd_format.  (Cut short, it is Mount's.)                                *)
Format ==
    /\ AtPrompt /\ powercut = "no"
    /\ Formatted
    /\ header' = "good" /\ mounted' = TRUE /\ behind' = FALSE
    /\ UNCHANGED <<power, uiVars, powercut, processes>>

(* cmd_quit, and main in a process of its own: g_last_ts starts again.     *)
Restart ==
    /\ AtPrompt /\ powercut = "no" /\ processes < Starts
    /\ Booted(header)
    /\ IF header = "bad" THEN UNCHANGED data ELSE Mounted
    /\ processes' = processes + 1
    /\ behind' = \/ behind
                  \/ \E p \in Phones : \E k \in DOMAIN card.chats[p] : card.chats[p][k] >= clock
    /\ lastTime' = 0
    /\ UNCHANGED <<stack, awaiting, clock>>

(* (While the menus run the clock stands: next_ts moves on all the same.)  *)
Tick ==
    /\ AtPrompt /\ clock < LastTime
    /\ clock' = clock + 1
    /\ UNCHANGED <<dbVars, stack, awaiting, lastTime, cliVars>>

Menus == (Draw \/ Key) /\ UNCHANGED cliVars

CliNext == Menus \/ Command \/ Run \/ PowerCut \/ Reboot \/ Format \/ Restart \/ Tick

CliSpec == CliInit /\ [][CliNext]_allVars
-----------------------------------------------------------------------------
(* What a boot would make of the card is what the running database gives,  *)
(* and it adds to the list of names only what a failed message left out.   *)
BootAgrees ==
    /\ contacts = card.contacts /\ chats = card.chats
    /\ nameIndex = Alphabetical({p \in Phones : IsContact(p)} \ unlisted, contacts)
    /\ chatOrder = LatestFirst(chats)

(* As long as no write was dropped, a reboot changes neither the contacts  *)
(* nor the chats nor their order on the screen, and no contact appears in  *)
(* the list of names but one whose first message found no sector (its      *)
(* database_message_add returned STRG_FAIL).  next_ts gives the messages   *)
(* increasing times, however many are sent within a second.  But it starts *)
(* again with the process, so the clock must not be behind the card then:  *)
(* from then on two chats may have a last message of the same time, and a  *)
(* boot orders them otherwise.                                             *)
BootIsNoChange == mounted /\ power # "off" /\ ~behind => BootAgrees

(* db_cli.c:80: the times of new messages are strictly increasing, so that *)
(* chats keep their order.                                                 *)
BootIsNoChangeEver == mounted /\ power # "off" => BootAgrees
=============================================================================
