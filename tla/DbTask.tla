-------------------------------- MODULE DbTask --------------------------------
(***************************************************************************)
(* The database task (db_task.c) and its clients.  Clients post requests   *)
(* on a bounded queue; the task takes one at a time, runs it on the        *)
(* database and sends the response to the request's reply queue, waiting   *)
(* without a timeout while that is full.                                   *)
(*                                                                         *)
(* On the host a STOP request ends the task, and db_init can start another *)
(* one on the same request queue; requests left behind a STOP wait for it. *)
(* The client Main does that.                                              *)
(*                                                                         *)
(* A queue operation holds its queue's lock (platform_os_host.c): one step.*)
(***************************************************************************)
EXTENDS Integers, SequencesExt, FiniteSets

CONSTANTS
    Clients,       \* the clients that post work
    Main,          \* the client that starts and stops the task
    QueueSize,     \* length of the request queue
    ReplySize,     \* length of a client's reply queue
    Outstanding,   \* requests that a client posts before it takes a response
    MaxRequests,   \* bound: requests a client posts
    MaxStarts      \* bound: tasks started

(* The code's request queue has five items.  Every client of the           *)
(* repository posts at most as many requests as its reply queue holds:     *)
(* db_call (phone_ui.c, db_demo.c) waits for each response.                *)
ASSUME DbTaskAssumption ==
    /\ Main \notin Clients
    /\ QueueSize \in Nat \ {0} /\ ReplySize \in Nat \ {0}
    /\ Outstanding \in 1 .. ReplySize
    /\ MaxRequests \in Nat /\ MaxStarts \in 1 .. MaxRequests + 1

Everyone == Clients \cup {Main}
Tasks    == 1 .. MaxStarts

(* tag 0 stands for a request without a reply queue (reply_q NULL).        *)
Requests == [client : Everyone, tag : 0 .. MaxRequests, type : {"work", "stop"}]
NoRequest == [client |-> Main, tag |-> 0, type |-> "work"]

VARIABLES
    requests,      \* the request queue (request_q)
    replies,       \* the tags in each client's reply queue
    running,       \* db_ctx.running
    starts,        \* tasks started so far
    pc,            \* where each task is
    current,       \* the request each task has taken
    posted,        \* requests each client has posted
    asked,         \* the tags for which each client expects a response
    answered       \* the tags of the responses it has taken

vars == <<requests, replies, running, starts, pc, current, posted, asked, answered>>

Init ==
    /\ requests = <<>>
    /\ replies = [c \in Everyone |-> <<>>]
    /\ running = FALSE
    /\ starts = 0
    /\ pc = [k \in Tasks |-> "none"]
    /\ current = [k \in Tasks |-> NoRequest]
    /\ posted = [c \in Everyone |-> 0]
    /\ asked = [c \in Everyone |-> <<>>]
    /\ answered = [c \in Everyone |-> <<>>]

-----------------------------------------------------------------------------
(* Clients.                                                                *)

(* Mutant: db_init starts a task whether or not one runs.                  *)
StartAgain ==
    /\ starts < MaxStarts
    /\ running' = TRUE
    /\ starts' = starts + 1
    /\ pc' = [pc EXCEPT ![starts + 1] = "mount"]
    /\ UNCHANGED <<requests, replies, current, posted, asked, answered>>

(* db_init.  It needs no response to the STOP: running is enough.          *)
Start ==
    /\ ~running /\ starts < MaxStarts
    /\ running' = TRUE
    /\ starts' = starts + 1
    /\ pc' = [pc EXCEPT ![starts + 1] = "mount"]
    /\ UNCHANGED <<requests, replies, current, posted, asked, answered>>

Waiting(c) == Len(asked[c]) - Len(answered[c])

(* Mutant: a client that does not wait.                                    *)
MayPostAlways(c) == posted[c] < MaxRequests

MayPost(c) == posted[c] < MaxRequests /\ Waiting(c) < Outstanding

(* platform_os_QueueSend goes ahead when the queue is not full.            *)
CanSend(queue, size) == Len(queue) < size

(* db_task_post                                                            *)
Post(c, tag, type) ==
    /\ CanSend(requests, QueueSize)
    /\ requests' = Append(requests, [client |-> c, tag |-> tag, type |-> type])
    /\ posted' = [posted EXCEPT ![c] = @ + 1]
    /\ asked' = IF tag = 0 THEN asked ELSE [asked EXCEPT ![c] = Append(@, tag)]
    /\ UNCHANGED <<replies, running, starts, pc, current, answered>>

(* db_call, up to its wait; a post without a reply queue.                  *)
PostCall(c)   == MayPost(c) /\ Post(c, posted[c] + 1, "work")
PostSilent(c) == MayPost(c) /\ Post(c, 0, "work")

(* stop_task: one STOP for each start but the last.                        *)
PostStop ==
    /\ starts > 0 /\ starts < MaxStarts
    /\ posted[Main] < starts /\ Waiting(Main) = 0
    /\ Post(Main, posted[Main] + 1, "stop")

(* platform_os_QueueReceive on the client's reply queue.                   *)
TakeReply(c) ==
    /\ replies[c] # <<>>
    /\ answered' = [answered EXCEPT ![c] = Append(@, Head(replies[c]))]
    /\ replies' = [replies EXCEPT ![c] = Tail(@)]
    /\ UNCHANGED <<requests, running, starts, pc, current, posted, asked>>

-----------------------------------------------------------------------------
(* dbTask.                                                                 *)

(* database_init                                                           *)
Mount(k) ==
    /\ pc[k] = "mount"
    /\ pc' = [pc EXCEPT ![k] = "receive"]
    /\ UNCHANGED <<requests, replies, running, starts, current, posted, asked, answered>>

(* Mutant: the request stays at the front of the queue.                    *)
ReceivePeek(k) ==
    /\ pc[k] = "receive" /\ requests # <<>>
    /\ current' = [current EXCEPT ![k] = Head(requests)]
    /\ running' = (running /\ Head(requests).type # "stop")
    /\ pc' = [pc EXCEPT ![k] = IF Head(requests).type = "stop" THEN "stopping" ELSE "handle"]
    /\ UNCHANGED <<requests, replies, starts, posted, asked, answered>>

(* The next request; a STOP clears running before its response.            *)
Receive(k) ==
    /\ pc[k] = "receive" /\ requests # <<>>
    /\ current' = [current EXCEPT ![k] = Head(requests)]
    /\ requests' = Tail(requests)
    /\ running' = (running /\ Head(requests).type # "stop")
    /\ pc' = [pc EXCEPT ![k] = IF Head(requests).type = "stop" THEN "stopping" ELSE "handle"]
    /\ UNCHANGED <<replies, starts, posted, asked, answered>>

(* Mutant: a task that sees a request without a reply queue ends.          *)
HandleEnds(k) ==
    /\ pc[k] = "handle"
    /\ pc' = [pc EXCEPT ![k] = IF current[k].tag = 0 THEN "ended" ELSE "reply"]
    /\ UNCHANGED <<requests, replies, running, starts, current, posted, asked, answered>>

(* db_handle: the handler has run on the database (STOP's does not touch   *)
(* it).                                                                    *)
Handle(k) ==
    /\ pc[k] = "handle"
    /\ pc' = [pc EXCEPT ![k] = IF current[k].tag = 0 THEN "receive" ELSE "reply"]
    /\ UNCHANGED <<requests, replies, running, starts, current, posted, asked, answered>>

(* Mutant: the loop goes on after a STOP.                                  *)
AfterReplyLoops(k) == "receive"

AfterReply(k) == IF pc[k] = "stopping" THEN "ended" ELSE "receive"

(* db_handle's send, and the task's return after a STOP.                   *)
Reply(k) ==
    /\ pc[k] \in {"reply", "stopping"}
    /\ CanSend(replies[current[k].client], ReplySize)
    /\ replies' = [replies EXCEPT ![current[k].client] = Append(@, current[k].tag)]
    /\ pc' = [pc EXCEPT ![k] = AfterReply(k)]
    /\ UNCHANGED <<requests, running, starts, current, posted, asked, answered>>

TaskStep(k) == Mount(k) \/ Receive(k) \/ Handle(k) \/ Reply(k)

Next ==
    \/ Start \/ PostStop
    \/ \E c \in Clients : PostCall(c) \/ PostSilent(c)
    \/ \E c \in Everyone : TakeReply(c)
    \/ \E k \in Tasks : TaskStep(k)

Spec == Init /\ [][Next]_vars

(* The task's loop and the clients' waits are threads that the scheduler   *)
(* runs when they can go on; Main starts the task again after a stop.      *)
(* Nobody has to post.                                                     *)
FairSpec ==
    /\ Spec
    /\ \A k \in Tasks : WF_vars(TaskStep(k))
    /\ \A c \in Everyone : WF_vars(TakeReply(c))
    /\ WF_vars(Start)
-----------------------------------------------------------------------------
(* The queues hold requests and tags, within their lengths.                *)
TypeOK ==
    /\ requests \in Seq(Requests) /\ Len(requests) <= QueueSize
    /\ replies \in [Everyone -> Seq(1 .. MaxRequests)]
    /\ \A c \in Everyone : Len(replies[c]) <= ReplySize
    /\ running \in BOOLEAN
    /\ starts \in 0 .. MaxStarts
    /\ pc \in [Tasks -> {"none", "mount", "receive", "handle", "reply", "stopping", "ended"}]
    /\ current \in [Tasks -> Requests]
    /\ posted \in [Everyone -> 0 .. MaxRequests]
    /\ asked \in [Everyone -> Seq(1 .. MaxRequests)]
    /\ answered \in [Everyone -> Seq(1 .. MaxRequests)]

(* "The task owns the database" (db_task.h): never do two tasks mount or   *)
(* use it at once, also when db_init starts a new one while the old one    *)
(* has still to send its response to the STOP.                             *)
OneTaskOnDatabase ==
    Cardinality({k \in Tasks : pc[k] \in {"mount", "receive", "handle", "reply"}}) <= 1

(* A client's responses come in the order of its requests, one for each    *)
(* and none that it did not ask for, across restarts (ResponsesMatchTags). *)
RepliesMatchRequests ==
    \A c \in Everyone : IsPrefix(answered[c] \o replies[c], asked[c])

(* The task never waits for a client: clients that wait for their          *)
(* responses leave room for each, so that none of them can hold up the     *)
(* others or block on a full request queue forever.                        *)
TaskNeverWaitsForClient ==
    \A k \in Tasks : pc[k] \in {"reply", "stopping"} =>
        CanSend(replies[current[k].client], ReplySize)

-----------------------------------------------------------------------------
(* The inductive invariant.                                                *)
Active(k) == pc[k] \in {"mount", "receive", "handle", "reply"}

(* Task k has taken a request of client c, and its response is due.        *)
Holds(k, c) ==
    pc[k] \in {"handle", "reply", "stopping"} /\ current[k].tag # 0 /\ current[k].client = c

(* Request number i in the queue is one of client c that wants a response. *)
Queued(i, c) == requests[i].client = c /\ requests[i].tag # 0

(* One task is active, while running is set.  Only Main posts STOP, and it *)
(* wants a response.                                                       *)
TasksInv ==
    /\ \A j, k \in Tasks : Active(j) /\ Active(k) => j = k
    /\ \A k \in Tasks : Active(k) => running
    /\ \A k \in Tasks : k > starts => pc[k] = "none"
    /\ \A k \in Tasks :
          /\ pc[k] \in {"handle", "reply"} => current[k].client # Main
          /\ pc[k] = "stopping" => current[k].client = Main
          /\ pc[k] \in {"reply", "stopping"} => current[k].tag # 0
    /\ \A i \in 1 .. Len(requests) :
          /\ requests[i].type = "stop" <=> requests[i].client = Main
          /\ requests[i].type = "stop" => requests[i].tag # 0

(* A client's tags are in the order of its posts.                          *)
AskedInv ==
    \A c \in Everyone :
       /\ \A m, n \in 1 .. Len(asked[c]) : m < n => asked[c][m] < asked[c][n]
       /\ \A m \in 1 .. Len(asked[c]) : asked[c][m] <= posted[c]
       /\ Waiting(c) <= IF c = Main THEN 1 ELSE Outstanding

(* The responses that client c has taken, or has in its queue.             *)
Responses(c) == Len(answered[c]) + Len(replies[c])
Due(c)       == Responses(c) + 1 .. Len(asked[c])

(* They answer the oldest tags.                                            *)
RepliesInv ==
    \A c \in Everyone :
       /\ Responses(c) <= Len(asked[c])
       /\ \A m \in 1 .. Len(answered[c]) : answered[c][m] = asked[c][m]
       /\ \A m \in 1 .. Len(replies[c]) : replies[c][m] = asked[c][Len(answered[c]) + m]

(* The other tags are those of a request that a task has taken, one at a   *)
(* time, and of the queued ones, in order.                                 *)
DueIsKept(c) ==
    \A m \in Due(c) :
       \/ \E k \in Tasks : Holds(k, c) /\ current[k].tag = asked[c][m]
       \/ \E i \in 1 .. Len(requests) : Queued(i, c) /\ requests[i].tag = asked[c][m]

HeldIsDue(c) ==
    \A k \in Tasks : Holds(k, c) => \E m \in Due(c) : current[k].tag = asked[c][m]

QueuedIsDue(c) ==
    \A i \in 1 .. Len(requests) :
       Queued(i, c) => \E m \in Due(c) : requests[i].tag = asked[c][m]

OneHeld(c) == \A j, k \in Tasks : Holds(j, c) /\ Holds(k, c) => j = k

HeldFirst(c) ==
    \A k \in Tasks, i \in 1 .. Len(requests) :
       Holds(k, c) /\ Queued(i, c) => current[k].tag < requests[i].tag

QueueInOrder(c) ==
    \A i, j \in 1 .. Len(requests) :
       i < j /\ Queued(i, c) /\ Queued(j, c) => requests[i].tag < requests[j].tag

DueInv ==
    \A c \in Everyone :
       /\ DueIsKept(c) /\ HeldIsDue(c) /\ QueuedIsDue(c)
       /\ OneHeld(c) /\ HeldFirst(c) /\ QueueInOrder(c)

TaskInv == TypeOK /\ TasksInv /\ AskedInv /\ RepliesInv /\ DueInv

-----------------------------------------------------------------------------
(* Every request with a reply queue is answered, also one left behind a    *)
(* STOP: the next task takes it.                                           *)
EveryRequestAnswered ==
    \A c \in Everyone : \A n \in 1 .. MaxRequests :
        Len(asked[c]) >= n ~> Len(answered[c]) >= n
=============================================================================
